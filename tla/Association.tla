----------------------------- MODULE Association -----------------------------
(***************************************************************************)
(* hierarchy.aggregate.set_association run by several database sessions at *)
(* once.  Each session holds one transaction: it selects the current       *)
(* association of a connection, queues an UPDATE that closes it and an     *)
(* INSERT of the new current row, and both are sent at the next flush (the *)
(* autoflush of the next SELECT, an explicit flush, or the commit), UPDATE *)
(* before INSERT.  The database is READ COMMITTED with row locks and the   *)
(* partial unique index on (connection_id) WHERE effective_to IS NULL.     *)
(* SQLite's single writer allows a subset of these interleavings.          *)
(*                                                                         *)
(* Arguments set_association rejects (confidence outside [0, 1], unknown   *)
(* node or connection) raise before anything is read or queued, so they    *)
(* are no step here: Node and Conn are the ids that exist.                 *)
(***************************************************************************)
EXTENDS Naturals, FiniteSets, Sequences

CONSTANTS Session,   \* database sessions
          Conn,      \* connection ids
          Node,      \* network node ids
          Asked,     \* bound: <<connection, node>>, the corrections callers ask for
          AsOf,      \* back-dated as_of times callers pass; {} for none
          MaxRows,   \* bound: association row ids handed out
          MaxTime,   \* bound: wall-clock readings
          MaxCalls,  \* bound: set_association calls in one transaction
          None,      \* no row, no call, no queued statement
          Open       \* effective_to IS NULL

RowId == 1..MaxRows
Time  == 0..MaxTime
Row   == [conn : Conn, node : Node, from : Time, to : Time \cup {Open}]
Call  == [conn : Conn, node : Node, now : Time]

\* Statements queued by one call: close is the row its UPDATE names (None when
\* the connection had no current row), todo the statement that is sent next.
Pending == [conn : Conn, node : Node, now : Time, close : RowId \cup {None},
            todo : {"update", "insert"}]

ASSUME AssocAssumption ==
  /\ MaxRows \in Nat /\ MaxTime \in Nat /\ MaxCalls \in Nat
  /\ AsOf \subseteq Time
  /\ Open \notin Nat
  /\ None \notin RowId \cup Row \cup Call \cup Pending

VARIABLES table,    \* committed rows of connection_association
          writes,   \* writes[s]: rows written by s and not committed yet
          nextId,   \* the autoincrement sequence
          clock,    \* the wall clock
          stage,    \* stage[s]: no transaction, an open one, a failed one
          call,     \* call[s]: set_association between its clock reading and its SELECT
          pend,     \* pend[s]: statements queued, not flushed
          calls     \* calls[s]: set_association calls of this transaction

vars == <<table, writes, nextId, clock, stage, call, pend, calls>>

NoRows == [i \in RowId |-> None]

\* What the transaction of s sees under READ COMMITTED: the committed rows as
\* they are now, overlaid with its own writes.
Visible(s) == [i \in RowId |-> IF writes[s][i] # None THEN writes[s][i] ELSE table[i]]

IsCurrent(row, c) == row # None /\ row.conn = c /\ row.to = Open

TypeOK ==
  /\ table \in [RowId -> Row \cup {None}]
  /\ writes \in [Session -> [RowId -> Row \cup {None}]]
  /\ nextId \in 1..(MaxRows + 1)
  /\ clock \in Time
  /\ stage \in [Session -> {"idle", "open", "failed"}]
  /\ call \in [Session -> Call \cup {None}]
  /\ pend \in [Session -> Pending \cup {None}]
  /\ calls \in [Session -> 0..MaxCalls]

Init ==
  /\ table = NoRows
  /\ writes = [s \in Session |-> NoRows]
  /\ nextId = 1
  /\ clock = 0
  /\ stage = [s \in Session |-> "idle"]
  /\ call = [s \in Session |-> None]
  /\ pend = [s \in Session |-> None]
  /\ calls = [s \in Session |-> 0]

Tick == /\ clock < MaxTime
        /\ clock' = clock + 1
        /\ UNCHANGED <<table, writes, nextId, stage, call, pend, calls>>

(***************************************************************************)
(* set_association.  "now" is the caller's as_of or the clock, read before *)
(* the SELECT: other sessions may commit in between.                       *)
(***************************************************************************)

Start(s, c, n, now) ==
  /\ stage[s] # "failed"
  /\ call[s] = None
  /\ calls[s] < MaxCalls
  /\ <<c, n>> \in Asked
  /\ nextId + Cardinality({t \in Session : call[t] # None})
            + Cardinality({t \in Session : pend[t] # None}) <= MaxRows
  /\ now \in AsOf \cup {clock}
  /\ stage' = [stage EXCEPT ![s] = "open"]
  /\ call' = [call EXCEPT ![s] = [conn |-> c, node |-> n, now |-> now]]
  /\ calls' = [calls EXCEPT ![s] = @ + 1]
  /\ UNCHANGED <<table, writes, nextId, clock, pend>>

\* The SELECT autoflushes first, so it runs only once nothing is queued.  It
\* returns the current row of the connection (the new association is queued
\* to replace it) or none.
SelectCurrent(s) ==
  /\ call[s] # None
  /\ pend[s] = None
  /\ \E cur \in RowId \cup {None} :
       /\ IF \E i \in RowId : IsCurrent(Visible(s)[i], call[s].conn)
          THEN cur \in RowId /\ IsCurrent(Visible(s)[cur], call[s].conn)
          ELSE cur = None
       /\ pend' = [pend EXCEPT ![s] =
                     [conn |-> call[s].conn, node |-> call[s].node, now |-> call[s].now,
                      close |-> cur, todo |-> IF cur = None THEN "insert" ELSE "update"]]
  /\ call' = [call EXCEPT ![s] = None]
  /\ UNCHANGED <<table, writes, nextId, clock, stage, calls>>

(***************************************************************************)
(* The flush.                                                              *)
(***************************************************************************)

\* Another transaction has written row i and not ended: its row lock.
Locked(s, i) == \E t \in Session \ {s} : writes[t][i] # None

\* Mutant: the current row is corrected in place.
FlushUpdateInPlace(s) ==
  /\ pend[s] # None /\ pend[s].todo = "update"
  /\ ~Locked(s, pend[s].close)
  /\ writes' = [writes EXCEPT ![s][pend[s].close] =
                  [Visible(s)[pend[s].close] EXCEPT !.node = pend[s].node]]
  /\ pend' = [pend EXCEPT ![s] = None]
  /\ UNCHANGED <<table, nextId, clock, stage, call, calls>>

\* UPDATE ... SET effective_to = now WHERE id = close.  It waits for the row
\* lock, then applies to the latest committed version of the row, whatever
\* that version says by now.
FlushUpdate(s) ==
  /\ pend[s] # None /\ pend[s].todo = "update"
  /\ ~Locked(s, pend[s].close)
  /\ writes' = [writes EXCEPT ![s][pend[s].close] =
                  [Visible(s)[pend[s].close] EXCEPT !.to = pend[s].now]]
  /\ pend' = [pend EXCEPT ![s].todo = "insert"]
  /\ UNCHANGED <<table, nextId, clock, stage, call, calls>>

\* The unique index makes an INSERT of a current row of c wait for any other
\* transaction that has inserted one, or that is closing the committed one ...
MustWait(s, c) ==
  \E t \in Session \ {s}, i \in RowId :
    /\ writes[t][i] # None
    /\ IsCurrent(writes[t][i], c) \/ IsCurrent(table[i], c)

\* Mutant: the partial unique index is missing.
DuplicateNever(s, c) == FALSE

\* ... and refuses it while a current row of c is left.
Duplicate(s, c) == \E i \in RowId : IsCurrent(Visible(s)[i], c)

\* Mutant: effective_from is left to its column default.
FlushInsertAtClock(s) ==
  /\ pend[s] # None /\ pend[s].todo = "insert"
  /\ ~MustWait(s, pend[s].conn)
  /\ ~Duplicate(s, pend[s].conn)
  /\ nextId <= MaxRows
  /\ writes' = [writes EXCEPT ![s][nextId] =
                  [conn |-> pend[s].conn, node |-> pend[s].node,
                   from |-> clock, to |-> Open]]
  /\ nextId' = nextId + 1
  /\ pend' = [pend EXCEPT ![s] = None]
  /\ UNCHANGED <<table, clock, stage, call, calls>>

FlushInsert(s) ==
  /\ pend[s] # None /\ pend[s].todo = "insert"
  /\ ~MustWait(s, pend[s].conn)
  /\ ~Duplicate(s, pend[s].conn)
  /\ nextId <= MaxRows
  /\ writes' = [writes EXCEPT ![s][nextId] =
                  [conn |-> pend[s].conn, node |-> pend[s].node,
                   from |-> pend[s].now, to |-> Open]]
  /\ nextId' = nextId + 1
  /\ pend' = [pend EXCEPT ![s] = None]
  /\ UNCHANGED <<table, clock, stage, call, calls>>

\* Mutant: the error is swallowed and the same flush retried.
FlushRefusedRetries(s) ==
  /\ stage[s] = "open"
  /\ pend[s] # None /\ pend[s].todo = "insert"
  /\ ~MustWait(s, pend[s].conn)
  /\ Duplicate(s, pend[s].conn)
  /\ UNCHANGED vars

\* IntegrityError: the transaction is aborted and only a rollback is possible.
FlushRefused(s) ==
  /\ stage[s] = "open"
  /\ pend[s] # None /\ pend[s].todo = "insert"
  /\ ~MustWait(s, pend[s].conn)
  /\ Duplicate(s, pend[s].conn)
  /\ stage' = [stage EXCEPT ![s] = "failed"]
  /\ call' = [call EXCEPT ![s] = None]
  /\ pend' = [pend EXCEPT ![s] = None]
  /\ UNCHANGED <<table, writes, nextId, clock, calls>>

(***************************************************************************)
(* The end of the transaction.                                             *)
(***************************************************************************)

EndTransaction(s) ==
  /\ writes' = [writes EXCEPT ![s] = NoRows]
  /\ stage' = [stage EXCEPT ![s] = "idle"]
  /\ call' = [call EXCEPT ![s] = None]
  /\ pend' = [pend EXCEPT ![s] = None]
  /\ calls' = [calls EXCEPT ![s] = 0]

\* session.commit() after everything queued has been flushed.
Commit(s) ==
  /\ stage[s] = "open"
  /\ call[s] = None /\ pend[s] = None
  /\ table' = Visible(s)
  /\ EndTransaction(s)
  /\ UNCHANGED <<nextId, clock>>

\* The caller's rollback, an exception that closes the session, a crash of the
\* process, or the database choosing this transaction as a deadlock victim.
Rollback(s) ==
  /\ stage[s] # "idle"
  /\ EndTransaction(s)
  /\ UNCHANGED <<table, nextId, clock>>

Next ==
  \/ Tick
  \/ \E s \in Session :
       \/ \E c \in Conn, n \in Node, now \in Time : Start(s, c, n, now)
       \/ SelectCurrent(s)
       \/ FlushUpdate(s)
       \/ FlushInsert(s)
       \/ FlushRefused(s)
       \/ Commit(s)
       \/ Rollback(s)

Spec == Init /\ [][Next]_vars

(***************************************************************************)
(* Fairness.  A session whose next statement the database can run runs it, *)
(* every caller commits or closes its session, and the database breaks a   *)
(* cycle of waiting transactions (or times the wait out) by aborting one.  *)
(* A statement that waits for other transactions is strongly fair: it is   *)
(* woken whenever one of them ends, and not overtaken for ever.            *)
(***************************************************************************)

Waiting(s) ==
  /\ pend[s] # None
  /\ \/ pend[s].todo = "update" /\ Locked(s, pend[s].close)
     \/ pend[s].todo = "insert" /\ MustWait(s, pend[s].conn)

\* Each transaction of the cycle waits for another one of it.
WaitsFor(s, t) ==
  /\ t # s /\ Waiting(s)
  /\ IF pend[s].todo = "update" THEN writes[t][pend[s].close] # None
     ELSE \E i \in RowId : /\ writes[t][i] # None
                           /\ \/ IsCurrent(writes[t][i], pend[s].conn)
                              \/ IsCurrent(table[i], pend[s].conn)

Deadlocked(s) == \E T \in SUBSET Session :
                   s \in T /\ \A t \in T : \E u \in T : WaitsFor(t, u)

DeadlockAbort(s) == Deadlocked(s) /\ Rollback(s)

Flush(s) == FlushUpdate(s) \/ FlushInsert(s) \/ FlushRefused(s)

Progress(s) == \/ SelectCurrent(s)
               \/ Commit(s)
               \/ stage[s] = "failed" /\ Rollback(s)
               \/ DeadlockAbort(s)

FairSpec == Spec /\ \A s \in Session : WF_vars(Progress(s)) /\ SF_vars(Flush(s))

(***************************************************************************)
(* Properties.                                                             *)
(***************************************************************************)

\* However sessions interleave, at most one committed association of a
\* connection is current: resolve_connections counts nobody twice.
OneCurrent ==
  \A i, j \in RowId : /\ table[i] # None /\ table[j] # None
                      /\ table[i].to = Open /\ table[j].to = Open
                      /\ table[i].conn = table[j].conn
                      => i = j

\* A correction versions forward: no step ever deletes a committed row or
\* changes one, except to close a current row, once.  A losing session that
\* re-stamps a row its rival has just closed must not get that committed.
HistoryNeverRewritten ==
  [][\A i \in RowId :
       table[i] # None =>
         \/ table'[i] = table[i]
         \/ /\ table[i].to = Open
            /\ table'[i] # None
            /\ table'[i] = [table[i] EXCEPT !.to = table'[i].to]]_vars

\* The believed timeline of a connection has no hole: every closed row was
\* closed by a correction whose own row starts at that very instant.
NoGapInHistory ==
  \A i \in RowId :
    table[i] # None /\ table[i].to # Open =>
      \E j \in RowId : /\ j > i
                       /\ table[j] # None
                       /\ table[j].conn = table[i].conn
                       /\ table[j].from = table[i].to

\* No transaction is stuck for ever, whatever rows others hold.
TransactionsEnd == \A s \in Session : stage[s] # "idle" ~> stage[s] = "idle"

\* "The full history of what we believed and when": an interval of belief
\* never ends before it starts.
IntervalsOrdered ==
  \A i \in RowId : table[i] # None /\ table[i].to # Open => table[i].from <= table[i].to

(***************************************************************************)
(* What the table means: for each connection, the nodes of its rows in the *)
(* order of their ids, and the node of the row that is still open.         *)
(***************************************************************************)
RowsOf(c) == {i \in RowId : table[i] # None /\ table[i].conn = c}

Place(i, S) == Cardinality({j \in S : j <= i})
Nth(k, S) == CHOOSE i \in S : Place(i, S) = k

LogOf == [c \in Conn |-> [k \in 1..Cardinality(RowsOf(c)) |-> table[Nth(k, RowsOf(c))].node]]

BeliefOf == [c \in Conn |->
               IF \E i \in RowId : IsCurrent(table[i], c)
               THEN table[CHOOSE i \in RowId : IsCurrent(table[i], c)].node
               ELSE None]

Log == INSTANCE AssociationLog WITH log <- LogOf, belief <- BeliefOf

\* The committed table implements the append-only log: each commit appends to
\* the histories of the connections it corrected, and the open row is always
\* the newest one.
ImplementsLog == Log!LogSpec

(***************************************************************************)
(* The inductive strengthening that OneCurrent, HistoryNeverRewritten and  *)
(* NoGapInHistory rest on.                                                 *)
(***************************************************************************)

\* Between its UPDATE and its INSERT a session has closed a row it has not
\* replaced yet.
HalfFlushed(s) == pend[s] # None /\ pend[s].todo = "insert"

\* s holds version w of row i, which is a close of the committed version.
ClosesCommitted(s, i) ==
  /\ table[i].to = Open
  /\ writes[s][i] = [table[i] EXCEPT !.to = writes[s][i].to]

\* s has written a row of connection c.
Wrote(s, c) == \E i \in RowId : writes[s][i] # None /\ writes[s][i].conn = c

\* No row is written by two open transactions.
RowLocksExclusive ==
  \A s, t \in Session, i \in RowId : writes[s][i] # None /\ writes[t][i] # None => s = t

\* Row ids from nextId on are unused.
FreshIds == \A i \in RowId : i >= nextId =>
              table[i] = None /\ \A s \in Session : writes[s][i] = None

\* Every transaction sees at most one current row of a connection, and no two
\* hold an uncommitted one of the same connection.
VisibleUnique ==
  \A s \in Session, c \in Conn, i, j \in RowId :
    IsCurrent(Visible(s)[i], c) /\ IsCurrent(Visible(s)[j], c) => i = j

UncommittedUnique ==
  \A s, t \in Session, c \in Conn, i, j \in RowId :
    IsCurrent(writes[s][i], c) /\ IsCurrent(writes[t][j], c) => s = t

\* The row a queued UPDATE names exists and belongs to the connection; it is
\* one of the session's own as soon as the session wrote to that connection.
QueuedUpdate ==
  \A s \in Session :
    pend[s] # None /\ pend[s].todo = "update" =>
      /\ pend[s].close \in RowId
      /\ Visible(s)[pend[s].close] # None
      /\ Visible(s)[pend[s].close].conn = pend[s].conn
      /\ Wrote(s, pend[s].conn) => writes[s][pend[s].close] # None

\* A write of a committed row closes it while it is current.  The exception
\* is an UPDATE that came too late: a rival's current row then stands in the
\* way of the INSERT that must follow.
WritesCloseOnly ==
  \A s \in Session, i \in RowId :
    stage[s] = "open" /\ writes[s][i] # None /\ table[i] # None =>
      \/ ClosesCommitted(s, i)
      \/ /\ HalfFlushed(s) /\ pend[s].close = i
         /\ \E j \in RowId : IsCurrent(table[j], pend[s].conn) /\ writes[s][j] = None

\* A transaction that wrote to a connection leaves it a current row, except
\* between its UPDATE and its INSERT.
WritesLeaveCurrent ==
  \A s \in Session, c \in Conn :
    /\ stage[s] = "open" /\ Wrote(s, c)
    /\ ~(HalfFlushed(s) /\ pend[s].conn = c)
    => \E k \in RowId : IsCurrent(writes[s][k], c)

\* A row a transaction has closed is followed by one it inserted, except
\* between its UPDATE and its INSERT.
WritesLeaveNoGap ==
  \A s \in Session, i \in RowId :
    stage[s] = "open" /\ writes[s][i] # None /\ writes[s][i].to # Open =>
      \/ \E j \in RowId : /\ j > i
                          /\ writes[s][j] # None
                          /\ writes[s][j].conn = writes[s][i].conn
                          /\ writes[s][j].from = writes[s][i].to
      \/ /\ HalfFlushed(s) /\ pend[s].close = i
         /\ pend[s].conn = writes[s][i].conn /\ pend[s].now = writes[s][i].to

\* A connection that ever had a committed association has a current one.
HasCurrent ==
  \A i \in RowId : table[i] # None => \E j \in RowId : IsCurrent(table[j], table[i].conn)

\* A transaction is not under way before it starts or after it failed.
StagesAgree ==
  \A s \in Session :
    /\ stage[s] # "open" => call[s] = None /\ pend[s] = None
    /\ stage[s] = "idle" => writes[s] = NoRows

\* A row a transaction has inserted is newer than every committed row of its
\* connection.  The exception is a session that has closed its own row when a
\* rival committed one, which stands in the way of its INSERT.
InsertedLast ==
  \A s \in Session, i, j \in RowId :
    /\ stage[s] = "open"
    /\ table[i] # None /\ table[j] = None /\ writes[s][j] # None
    /\ table[i].conn = writes[s][j].conn
    => \/ i < j
       \/ /\ HalfFlushed(s) /\ pend[s].conn = table[i].conn
          /\ \E k \in RowId : IsCurrent(table[k], pend[s].conn) /\ writes[s][k] = None

IInv == /\ TypeOK /\ StagesAgree
        /\ RowLocksExclusive /\ FreshIds
        /\ OneCurrent /\ VisibleUnique /\ UncommittedUnique
        /\ QueuedUpdate /\ WritesCloseOnly /\ WritesLeaveCurrent /\ WritesLeaveNoGap
        /\ HasCurrent /\ NoGapInHistory
=============================================================================
