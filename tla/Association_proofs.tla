-------------------------- MODULE Association_proofs --------------------------
(***************************************************************************)
(* Proofs about Association: type correctness, the inductive invariant     *)
(* IInv, the three safety properties that follow from it, and the          *)
(* refinement of AssociationLog.                                           *)
(***************************************************************************)
EXTENDS Association, FiniteSetTheorems, TLAPS

(***************************************************************************)
(* Type correctness.                                                       *)
(***************************************************************************)

\* Nothing the model calls None is a row, a call or a queued statement.
LEMMA NoneIsNothing ==
  /\ None \notin RowId /\ None \notin Row /\ None \notin Call /\ None \notin Pending
  /\ Open \notin Time
BY AssocAssumption DEF Time

\* The view of a transaction is a table.
LEMMA VisibleType ==
  ASSUME TypeOK, NEW s \in Session
  PROVE  /\ Visible(s) \in [RowId -> Row \cup {None}]
         /\ \A i \in RowId : Visible(s)[i] = IF writes[s][i] # None THEN writes[s][i] ELSE table[i]
BY DEF TypeOK, Visible

LEMMA InitIInv == Init => IInv
<1> SUFFICES ASSUME Init PROVE IInv
  OBVIOUS
<1> USE AssocAssumption DEF Init, NoRows
<1>1. TypeOK
  BY DEF TypeOK, Time
<1>2. \A s \in Session, i \in RowId : Visible(s)[i] = None
  BY DEF Visible
<1>3. StagesAgree /\ RowLocksExclusive /\ FreshIds
  BY DEF StagesAgree, RowLocksExclusive, FreshIds
<1>4. OneCurrent /\ VisibleUnique /\ UncommittedUnique
  BY <1>2 DEF OneCurrent, VisibleUnique, UncommittedUnique, IsCurrent
<1>5. QueuedUpdate /\ WritesCloseOnly /\ WritesLeaveCurrent /\ WritesLeaveNoGap
  BY DEF QueuedUpdate, WritesCloseOnly, WritesLeaveCurrent, WritesLeaveNoGap, Wrote
<1>6. HasCurrent /\ NoGapInHistory
  BY DEF HasCurrent, NoGapInHistory
<1>7. QED
  BY <1>1, <1>3, <1>4, <1>5, <1>6 DEF IInv

(***************************************************************************)
(* Steps that write no row: Tick, Start, SelectCurrent, FlushRefused.      *)
(***************************************************************************)

\* The conjuncts that only speak of rows survive a step that changes none.
LEMMA RowsUnchanged ==
  ASSUME IInv, UNCHANGED <<table, writes, nextId>>
  PROVE  /\ RowLocksExclusive' /\ FreshIds' /\ OneCurrent'
         /\ VisibleUnique' /\ UncommittedUnique' /\ HasCurrent' /\ NoGapInHistory'
         /\ \A s \in Session : Visible(s)' = Visible(s)
<1>1. \A s \in Session : Visible(s)' = Visible(s)
  BY DEF Visible
<1>2. QED
  BY <1>1 DEF IInv, RowLocksExclusive, FreshIds, OneCurrent, VisibleUnique,
              UncommittedUnique, HasCurrent, NoGapInHistory, IsCurrent

LEMMA TickIInv == IInv /\ Tick => IInv'
<1> SUFFICES ASSUME IInv, Tick PROVE IInv'
  OBVIOUS
<1>1. RowLocksExclusive' /\ FreshIds' /\ OneCurrent' /\ VisibleUnique' /\ UncommittedUnique'
      /\ HasCurrent' /\ NoGapInHistory' /\ \A s \in Session : Visible(s)' = Visible(s)
  BY RowsUnchanged DEF Tick
<1>2. TypeOK'
  BY AssocAssumption DEF Tick, IInv, TypeOK, Time
<1>3. QueuedUpdate' /\ StagesAgree'
  BY <1>1 DEF Tick, IInv, QueuedUpdate, StagesAgree, Wrote
<1>4. WritesCloseOnly' /\ WritesLeaveCurrent' /\ WritesLeaveNoGap'
  BY DEF Tick, IInv, WritesCloseOnly, WritesLeaveCurrent, WritesLeaveNoGap,
         Wrote, HalfFlushed, ClosesCommitted, IsCurrent
<1>5. QED
  BY <1>1, <1>2, <1>3, <1>4 DEF IInv

LEMMA StartIInv ==
  ASSUME IInv, NEW s \in Session, NEW c \in Conn, NEW n \in Node, NEW now \in Time,
         Start(s, c, n, now)
  PROVE  IInv'
<1>1. RowLocksExclusive' /\ FreshIds' /\ OneCurrent' /\ VisibleUnique' /\ UncommittedUnique'
      /\ HasCurrent' /\ NoGapInHistory' /\ \A t \in Session : Visible(t)' = Visible(t)
  BY RowsUnchanged DEF Start
<1>2. TypeOK'
  <2>1. /\ calls' = [calls EXCEPT ![s] = @ + 1] /\ calls[s] < MaxCalls
        /\ call' = [call EXCEPT ![s] = [conn |-> c, node |-> n, now |-> now]]
        /\ stage' = [stage EXCEPT ![s] = "open"]
        /\ UNCHANGED <<table, writes, nextId, clock, pend>>
    BY DEF Start
  <2>2. call' \in [Session -> Call \cup {None}]
    BY <2>1 DEF IInv, TypeOK, Call
  <2>3. calls' \in [Session -> 0..MaxCalls]
    BY <2>1, AssocAssumption DEF IInv, TypeOK
  <2>4. QED
    BY <2>1, <2>2, <2>3 DEF IInv, TypeOK
<1>3. QueuedUpdate'
  BY <1>1 DEF Start, IInv, QueuedUpdate, Wrote
<1>4. StagesAgree'
  BY DEF Start, IInv, TypeOK, StagesAgree
<1>5. WritesCloseOnly' /\ WritesLeaveCurrent' /\ WritesLeaveNoGap'
  <2>1. stage[s] # "open" => \A i \in RowId : writes[s][i] = None
    BY DEF Start, IInv, TypeOK, StagesAgree, NoRows
  <2>2. \A t \in Session : t # s => stage'[t] = stage[t]
    BY DEF Start, IInv, TypeOK
  <2>3. UNCHANGED <<table, writes, pend>>
    BY DEF Start
  <2>4. QED
    BY <2>1, <2>2, <2>3
       DEF IInv, WritesCloseOnly, WritesLeaveCurrent, WritesLeaveNoGap,
           Wrote, HalfFlushed, ClosesCommitted, IsCurrent
<1>6. QED
  BY <1>1, <1>2, <1>3, <1>4, <1>5 DEF IInv

LEMMA SelectIInv == ASSUME IInv, NEW s \in Session, SelectCurrent(s) PROVE IInv'
<1>1. RowLocksExclusive' /\ FreshIds' /\ OneCurrent' /\ VisibleUnique' /\ UncommittedUnique'
      /\ HasCurrent' /\ NoGapInHistory' /\ \A t \in Session : Visible(t)' = Visible(t)
  BY RowsUnchanged DEF SelectCurrent
<1>2. PICK cur \in RowId \cup {None} :
        /\ IF \E i \in RowId : IsCurrent(Visible(s)[i], call[s].conn)
           THEN cur \in RowId /\ IsCurrent(Visible(s)[cur], call[s].conn)
           ELSE cur = None
        /\ pend' = [pend EXCEPT ![s] =
                     [conn |-> call[s].conn, node |-> call[s].node, now |-> call[s].now,
                      close |-> cur, todo |-> IF cur = None THEN "insert" ELSE "update"]]
  BY DEF SelectCurrent
<1>3. /\ call[s] \in Call /\ pend[s] = None /\ stage[s] = "open"
      /\ call' = [call EXCEPT ![s] = None]
      /\ UNCHANGED <<table, writes, nextId, clock, stage, calls>>
  BY DEF SelectCurrent, IInv, TypeOK, StagesAgree
<1>4. TypeOK'
  <2>1. pend' \in [Session -> Pending \cup {None}]
    BY <1>2, <1>3 DEF IInv, TypeOK, Call, Pending
  <2>2. QED
    BY <1>3, <2>1 DEF IInv, TypeOK
<1>5. StagesAgree'
  BY <1>2, <1>3 DEF IInv, TypeOK, StagesAgree
<1>6. /\ \A t \in Session : t # s => pend'[t] = pend[t]
      /\ pend'[s].conn = call[s].conn /\ pend'[s].close = cur
      /\ pend'[s].todo = IF cur = None THEN "insert" ELSE "update"
  BY <1>2, <1>3 DEF IInv, TypeOK
<1>7. QueuedUpdate'
  <2>1. ASSUME pend'[s].todo = "update"
        PROVE  /\ pend'[s].close \in RowId
               /\ Visible(s)[pend'[s].close] # None
               /\ Visible(s)[pend'[s].close].conn = pend'[s].conn
               /\ Wrote(s, pend'[s].conn) => writes[s][pend'[s].close] # None
    <3>1. cur \in RowId /\ IsCurrent(Visible(s)[cur], call[s].conn)
      BY <1>2, <1>6, <2>1
    <3>2. ASSUME Wrote(s, call[s].conn) PROVE writes[s][cur] # None
      <4>1. PICK k \in RowId : IsCurrent(writes[s][k], call[s].conn)
        BY <1>3, <3>2 DEF IInv, WritesLeaveCurrent, HalfFlushed, Call
      <4>2. IsCurrent(Visible(s)[k], call[s].conn) /\ writes[s][k] # None
        BY <4>1, VisibleType DEF IInv, IsCurrent
      <4>3. QED
        BY <3>1, <4>2, <1>3 DEF IInv, VisibleUnique, Call
    <3>3. QED
      BY <3>1, <3>2, <1>6 DEF IsCurrent
  <2>2. QED
    BY <1>1, <1>3, <1>6, <2>1 DEF IInv, QueuedUpdate, Wrote
<1>8. WritesCloseOnly' /\ WritesLeaveCurrent' /\ WritesLeaveNoGap'
  BY <1>3, <1>6
     DEF IInv, WritesCloseOnly, WritesLeaveCurrent, WritesLeaveNoGap,
         Wrote, HalfFlushed, ClosesCommitted, IsCurrent
<1>9. QED
  BY <1>1, <1>4, <1>5, <1>7, <1>8 DEF IInv

LEMMA RefusedIInv == ASSUME IInv, NEW s \in Session, FlushRefused(s) PROVE IInv'
<1>1. RowLocksExclusive' /\ FreshIds' /\ OneCurrent' /\ VisibleUnique' /\ UncommittedUnique'
      /\ HasCurrent' /\ NoGapInHistory' /\ \A t \in Session : Visible(t)' = Visible(t)
  BY RowsUnchanged DEF FlushRefused
<1>2. /\ stage' = [stage EXCEPT ![s] = "failed"]
      /\ call' = [call EXCEPT ![s] = None]
      /\ pend' = [pend EXCEPT ![s] = None]
      /\ UNCHANGED <<table, writes, nextId, clock, calls>>
      /\ stage[s] = "open"
  BY DEF FlushRefused
<1>3. TypeOK'
  BY <1>2 DEF IInv, TypeOK
<1>4. /\ \A t \in Session : t # s => pend'[t] = pend[t] /\ stage'[t] = stage[t]
      /\ pend'[s] = None /\ stage'[s] = "failed"
  BY <1>2 DEF IInv, TypeOK
<1>5. StagesAgree'
  BY <1>2 DEF IInv, TypeOK, StagesAgree
<1>6. QueuedUpdate'
  BY <1>1, <1>2, <1>4 DEF IInv, QueuedUpdate, Wrote
<1>7. WritesCloseOnly' /\ WritesLeaveCurrent' /\ WritesLeaveNoGap'
  BY <1>2, <1>4
     DEF IInv, WritesCloseOnly, WritesLeaveCurrent, WritesLeaveNoGap,
         Wrote, HalfFlushed, ClosesCommitted, IsCurrent
<1>8. QED
  BY <1>1, <1>3, <1>5, <1>6, <1>7 DEF IInv

(***************************************************************************)
(* The UPDATE that closes a row.                                           *)
(***************************************************************************)

LEMMA UpdateIInv == ASSUME IInv, NEW s \in Session, FlushUpdate(s) PROVE IInv'
<1> DEFINE x == pend[s].close
           c == pend[s].conn
           w == [Visible(s)[x] EXCEPT !.to = pend[s].now]
<1>1. /\ pend[s] \in Pending /\ pend[s].todo = "update" /\ stage[s] = "open"
      /\ c \in Conn /\ pend[s].now \in Time
      /\ x \in RowId /\ Visible(s)[x] \in Row /\ Visible(s)[x].conn = c
      /\ Wrote(s, c) => writes[s][x] # None
  BY VisibleType DEF FlushUpdate, IInv, TypeOK, QueuedUpdate, StagesAgree, Pending
<1>2. /\ writes' = [writes EXCEPT ![s][x] = w]
      /\ pend' = [pend EXCEPT ![s].todo = "insert"]
      /\ UNCHANGED <<table, nextId, clock, stage, call, calls>>
      /\ \A t \in Session \ {s} : writes[t][x] = None
  BY DEF FlushUpdate, Locked
<1>3. /\ w \in Row /\ w.conn = c /\ w.to = pend[s].now /\ w.to # Open /\ w # None
      /\ w.from = Visible(s)[x].from /\ w.node = Visible(s)[x].node
  BY <1>1, NoneIsNothing DEF Row
<1>4. /\ writes' \in [Session -> [RowId -> Row \cup {None}]]
      /\ writes'[s][x] = w
      /\ \A i \in RowId : i # x => writes'[s][i] = writes[s][i]
      /\ \A t \in Session : t # s => writes'[t] = writes[t]
  BY <1>1, <1>2, <1>3 DEF IInv, TypeOK
<1>5. /\ pend'[s] \in Pending /\ pend'[s].close = x /\ pend'[s].conn = c
      /\ pend'[s].now = pend[s].now /\ pend'[s].todo = "insert"
      /\ \A t \in Session : t # s => pend'[t] = pend[t]
  BY <1>1, <1>2 DEF IInv, TypeOK, Pending
<1>6. TypeOK'
  BY <1>2, <1>4, <1>5 DEF IInv, TypeOK
<1>7. /\ Visible(s)'[x] = w
      /\ \A i \in RowId : i # x => Visible(s)'[i] = Visible(s)[i]
      /\ \A t \in Session : t # s => Visible(t)' = Visible(t)
  BY <1>1, <1>2, <1>3, <1>4 DEF Visible
<1>8. StagesAgree'
  BY <1>1, <1>2, <1>4, <1>5, NoneIsNothing DEF IInv, StagesAgree
<1>9. RowLocksExclusive'
  BY <1>2, <1>4 DEF IInv, RowLocksExclusive
<1>10. FreshIds'
  <2>1. x < nextId
    BY <1>1, VisibleType, NoneIsNothing DEF IInv, FreshIds, TypeOK, RowId
  <2> SUFFICES ASSUME NEW i \in RowId, i >= nextId
               PROVE  table[i] = None /\ \A t \in Session : writes'[t][i] = None
    BY <1>2 DEF FreshIds
  <2>2. i # x
    BY <2>1, <1>1 DEF RowId, IInv, TypeOK
  <2>3. table[i] = None /\ \A t \in Session : writes[t][i] = None
    BY DEF IInv, FreshIds
  <2>4. QED
    BY <2>2, <2>3, <1>4
<1>11. OneCurrent' /\ HasCurrent' /\ NoGapInHistory'
  BY <1>2 DEF IInv, OneCurrent, HasCurrent, NoGapInHistory, IsCurrent
<1>12. VisibleUnique' /\ UncommittedUnique'
  <2>1. \A d \in Conn : ~IsCurrent(w, d)
    BY <1>3 DEF IsCurrent
  <2>2. ASSUME NEW t \in Session, NEW d \in Conn, NEW i \in RowId, NEW j \in RowId,
               IsCurrent(Visible(t)'[i], d), IsCurrent(Visible(t)'[j], d)
        PROVE  i = j
    <3>1. IsCurrent(Visible(t)[i], d) /\ IsCurrent(Visible(t)[j], d)
      BY <1>7, <2>1, <2>2
    <3>2. QED
      BY <3>1 DEF IInv, VisibleUnique
  <2>3. ASSUME NEW t \in Session, NEW u \in Session, NEW d \in Conn,
               NEW i \in RowId, NEW j \in RowId,
               IsCurrent(writes'[t][i], d), IsCurrent(writes'[u][j], d)
        PROVE  t = u
    <3>1. IsCurrent(writes[t][i], d) /\ IsCurrent(writes[u][j], d)
      BY <1>4, <2>1, <2>3
    <3>2. QED
      BY <3>1 DEF IInv, UncommittedUnique
  <2>4. QED
    BY <2>2, <2>3 DEF VisibleUnique, UncommittedUnique, IsCurrent
<1>13. QueuedUpdate'
  BY <1>4, <1>5, <1>7 DEF IInv, QueuedUpdate, Wrote
<1>14. WritesCloseOnly'
  <2> SUFFICES ASSUME NEW t \in Session, NEW i \in RowId,
                      stage'[t] = "open", writes'[t][i] # None, table'[i] # None
               PROVE  \/ ClosesCommitted(t, i)'
                      \/ /\ HalfFlushed(t)' /\ pend'[t].close = i
                         /\ \E j \in RowId : IsCurrent(table'[j], pend'[t].conn) /\ writes'[t][j] = None
    BY DEF WritesCloseOnly, IsCurrent
  <2>1. CASE t # s \/ i # x
    <3>1. /\ stage[t] = "open" /\ writes[t][i] # None /\ table[i] # None
          /\ writes'[t][i] = writes[t][i] /\ table' = table
      BY <1>2, <1>4, <2>1
    <3>2. CASE ClosesCommitted(t, i)
      BY <3>1, <3>2 DEF ClosesCommitted
    <3>3. CASE ~ClosesCommitted(t, i)
      <4>1. /\ HalfFlushed(t) /\ pend[t].close = i
            /\ \E j \in RowId : IsCurrent(table[j], pend[t].conn) /\ writes[t][j] = None
        BY <3>1, <3>3 DEF IInv, WritesCloseOnly
      <4>2. t # s
        BY <4>1, <1>1 DEF HalfFlushed
      <4>3. QED
        BY <4>1, <4>2, <3>1, <1>4, <1>5 DEF HalfFlushed
    <3>4. QED
      BY <3>2, <3>3
  <2>2. CASE t = s /\ i = x
    <3>1. table[x] # None /\ table' = table
      BY <1>2, <2>2
    <3>2. CASE table[x].to = Open
      <4>1. w = [table[x] EXCEPT !.to = w.to]
        <5>1. CASE writes[s][x] = None
          <6>1. Visible(s)[x] = table[x]
            BY <5>1, <1>1, VisibleType DEF IInv
          <6>2. QED
            BY <6>1, <3>1, <1>1, <1>3 DEF IInv, TypeOK, Row
        <5>2. CASE writes[s][x] # None
          <6>1. Visible(s)[x] = writes[s][x]
            BY <5>2, <1>1, VisibleType DEF IInv
          <6>2. writes[s][x] = [table[x] EXCEPT !.to = writes[s][x].to]
            BY <5>2, <3>1, <1>1 DEF IInv, WritesCloseOnly, HalfFlushed, ClosesCommitted
          <6>3. QED
            BY <6>1, <6>2, <3>1, <1>1, <1>3 DEF IInv, TypeOK, Row
        <5>3. QED
          BY <5>1, <5>2
      <4>2. QED
        BY <4>1, <3>1, <3>2, <2>2, <1>4 DEF ClosesCommitted
    <3>3. CASE table[x].to # Open
      <4>1. writes[s][x] = None
        BY <3>1, <3>3, <1>1 DEF IInv, WritesCloseOnly, HalfFlushed, ClosesCommitted
      <4>2. table[x].conn = c /\ ~Wrote(s, c)
        BY <4>1, <1>1, VisibleType DEF IInv
      <4>3. PICK j \in RowId : IsCurrent(table[j], c)
        BY <3>1, <4>2, <1>1 DEF IInv, HasCurrent
      <4>4. j # x
        BY <4>3, <3>3 DEF IsCurrent
      <4>5. writes[s][j] = None
        <5>1. SUFFICES ASSUME writes[s][j] # None PROVE FALSE
          OBVIOUS
        <5>2. ClosesCommitted(s, j)
          BY <5>1, <4>3, <1>1 DEF IInv, WritesCloseOnly, HalfFlushed, IsCurrent
        <5>3. writes[s][j].conn = c
          BY <5>2, <5>1, <4>3 DEF ClosesCommitted, IsCurrent, IInv, TypeOK, Row
        <5>4. QED
          BY <5>3, <5>1, <4>2 DEF Wrote
      <4>6. QED
        BY <4>3, <4>4, <4>5, <3>1, <2>2, <1>4, <1>5, NoneIsNothing DEF HalfFlushed
    <3>4. QED
      BY <3>2, <3>3
  <2>3. QED
    BY <2>1, <2>2
<1>15. WritesLeaveCurrent'
  <2> SUFFICES ASSUME NEW t \in Session, NEW d \in Conn,
                      stage'[t] = "open", Wrote(t, d)', ~(HalfFlushed(t)' /\ pend'[t].conn = d)
               PROVE  \E k \in RowId : IsCurrent(writes'[t][k], d)
    BY DEF WritesLeaveCurrent, IsCurrent
  <2>1. CASE t # s
    BY <2>1, <1>2, <1>4, <1>5 DEF IInv, WritesLeaveCurrent, Wrote, HalfFlushed
  <2>2. CASE t = s
    <3>1. d # c
      BY <2>2, <1>5, NoneIsNothing DEF HalfFlushed
    <3>2. Wrote(s, d)
      BY <2>2, <3>1, <1>3, <1>4 DEF Wrote
    <3>3. PICK k \in RowId : IsCurrent(writes[s][k], d)
      BY <3>2, <1>1 DEF IInv, WritesLeaveCurrent, HalfFlushed
    <3>4. k # x
      BY <3>3, <3>1, <1>1, VisibleType DEF IInv, IsCurrent
    <3>5. QED
      BY <3>3, <3>4, <2>2, <1>4
  <2>3. QED
    BY <2>1, <2>2
<1>16. WritesLeaveNoGap'
  <2> SUFFICES ASSUME NEW t \in Session, NEW i \in RowId,
                      stage'[t] = "open", writes'[t][i] # None, writes'[t][i].to # Open
               PROVE  \/ \E j \in RowId : /\ j > i
                                          /\ writes'[t][j] # None
                                          /\ writes'[t][j].conn = writes'[t][i].conn
                                          /\ writes'[t][j].from = writes'[t][i].to
                      \/ /\ HalfFlushed(t)' /\ pend'[t].close = i
                         /\ pend'[t].conn = writes'[t][i].conn /\ pend'[t].now = writes'[t][i].to
    BY DEF WritesLeaveNoGap
  <2>1. CASE t # s
    BY <2>1, <1>2, <1>4, <1>5 DEF IInv, WritesLeaveNoGap, HalfFlushed
  <2>2. CASE t = s /\ i = x
    BY <2>2, <1>3, <1>4, <1>5, NoneIsNothing DEF HalfFlushed
  <2>3. CASE t = s /\ i # x
    <3>1. PICK j \in RowId : /\ j > i
                             /\ writes[s][j] # None
                             /\ writes[s][j].conn = writes[s][i].conn
                             /\ writes[s][j].from = writes[s][i].to
      BY <2>3, <1>1, <1>4 DEF IInv, WritesLeaveNoGap, HalfFlushed
    <3>2. j = x => w.conn = writes[s][j].conn /\ w.from = writes[s][j].from
      BY <3>1, <1>1, <1>3, VisibleType DEF IInv
    <3>3. writes'[s][i] = writes[s][i] /\ writes'[s][j] # None
      BY <3>1, <2>3, <1>3, <1>4
    <3>4. writes'[s][j].conn = writes[s][j].conn /\ writes'[s][j].from = writes[s][j].from
      BY <3>2, <1>4
    <3>5. QED
      BY <3>1, <3>3, <3>4, <2>3
  <2>4. QED
    BY <2>1, <2>2, <2>3
<1>17. QED
  BY <1>6, <1>8, <1>9, <1>10, <1>11, <1>12, <1>13, <1>14, <1>15, <1>16 DEF IInv

(***************************************************************************)
(* The INSERT of the new current row.                                      *)
(***************************************************************************)

LEMMA InsertIInv == ASSUME IInv, NEW s \in Session, FlushInsert(s) PROVE IInv'
<1> DEFINE c == pend[s].conn
           w == [conn |-> c, node |-> pend[s].node, from |-> pend[s].now, to |-> Open]
<1>1. /\ pend[s] \in Pending /\ pend[s].todo = "insert" /\ stage[s] = "open"
      /\ c \in Conn /\ pend[s].now \in Time /\ nextId \in RowId
      /\ \A t \in Session : writes[t][nextId] = None
      /\ table[nextId] = None
  BY DEF FlushInsert, IInv, TypeOK, StagesAgree, Pending, FreshIds, RowId
<1>2. /\ writes' = [writes EXCEPT ![s][nextId] = w]
      /\ nextId' = nextId + 1
      /\ pend' = [pend EXCEPT ![s] = None]
      /\ UNCHANGED <<table, clock, stage, call, calls>>
      /\ ~MustWait(s, c) /\ ~Duplicate(s, c)
  BY DEF FlushInsert
<1>3. /\ w \in Row /\ w # None /\ w.conn = c /\ w.to = Open /\ w.from = pend[s].now
  BY <1>1, NoneIsNothing DEF Row, Pending
<1>4. /\ writes' \in [Session -> [RowId -> Row \cup {None}]]
      /\ writes'[s][nextId] = w
      /\ \A i \in RowId : i # nextId => writes'[s][i] = writes[s][i]
      /\ \A t \in Session : t # s => writes'[t] = writes[t]
  BY <1>1, <1>2, <1>3 DEF IInv, TypeOK
<1>5. pend'[s] = None /\ \A t \in Session : t # s => pend'[t] = pend[t]
  BY <1>2 DEF IInv, TypeOK
<1>6. TypeOK'
  <2>1. nextId' \in 1..(MaxRows + 1)
    BY <1>1, <1>2, AssocAssumption DEF RowId
  <2>2. pend' \in [Session -> Pending \cup {None}]
    BY <1>2 DEF IInv, TypeOK
  <2>3. QED
    BY <1>2, <1>4, <2>1, <2>2 DEF IInv, TypeOK
<1>7. /\ Visible(s)'[nextId] = w
      /\ \A i \in RowId : i # nextId => Visible(s)'[i] = Visible(s)[i]
      /\ \A t \in Session : t # s => Visible(t)' = Visible(t)
  BY <1>1, <1>2, <1>3, <1>4 DEF Visible
<1> HIDE DEF w
<1>8. StagesAgree'
  BY <1>1, <1>2, <1>4, <1>5 DEF IInv, StagesAgree
<1>9. RowLocksExclusive'
  <2> SUFFICES ASSUME NEW t \in Session, NEW u \in Session, NEW i \in RowId,
                      writes'[t][i] # None, writes'[u][i] # None
               PROVE  t = u
    BY DEF RowLocksExclusive
  <2>1. CASE i = nextId
    BY <2>1, <1>1, <1>4
  <2>2. CASE i # nextId
    BY <2>2, <1>4 DEF IInv, RowLocksExclusive
  <2>3. QED
    BY <2>1, <2>2
<1>10. FreshIds'
  <2> SUFFICES ASSUME NEW i \in RowId, i >= nextId + 1
               PROVE  table[i] = None /\ \A t \in Session : writes'[t][i] = None
    BY <1>2 DEF FreshIds
  <2>1. i # nextId /\ i >= nextId
    BY <1>1 DEF RowId
  <2>2. QED
    BY <2>1, <1>4 DEF IInv, FreshIds
<1>11. OneCurrent' /\ HasCurrent' /\ NoGapInHistory'
  BY <1>2 DEF IInv, OneCurrent, HasCurrent, NoGapInHistory, IsCurrent
<1>12. VisibleUnique'
  <2> SUFFICES ASSUME NEW t \in Session, NEW d \in Conn, NEW i \in RowId, NEW j \in RowId,
                      IsCurrent(Visible(t)'[i], d), IsCurrent(Visible(t)'[j], d)
               PROVE  i = j
    BY DEF VisibleUnique, IsCurrent
  <2>1. CASE t # s \/ (i # nextId /\ j # nextId)
    BY <2>1, <1>7 DEF IInv, VisibleUnique
  <2>2. CASE t = s /\ d = c /\ i # j
    BY <2>2, <1>2, <1>7 DEF Duplicate
  <2>3. CASE t = s /\ d # c
    BY <2>1, <2>3, <1>3, <1>7 DEF IsCurrent
  <2>4. QED
    BY <2>1, <2>2, <2>3
<1>13. UncommittedUnique'
  <2> SUFFICES ASSUME NEW t \in Session, NEW u \in Session, NEW d \in Conn,
                      NEW i \in RowId, NEW j \in RowId,
                      IsCurrent(writes'[t][i], d), IsCurrent(writes'[u][j], d), t # u
               PROVE  FALSE
    BY DEF UncommittedUnique, IsCurrent
  <2>1. \A v \in Session, k \in RowId : v # s => ~IsCurrent(writes[v][k], c)
    BY <1>2 DEF MustWait, IsCurrent
  <2>2. CASE (t = s /\ i = nextId) \/ (u = s /\ j = nextId)
    <3>1. d = c
      BY <2>2, <1>3, <1>4 DEF IsCurrent
    <3>2. QED
      BY <2>1, <2>2, <3>1, <1>4
  <2>3. CASE ~((t = s /\ i = nextId) \/ (u = s /\ j = nextId))
    BY <2>3, <1>4 DEF IInv, UncommittedUnique
  <2>4. QED
    BY <2>2, <2>3
<1>14. QueuedUpdate'
  BY <1>4, <1>5, <1>7 DEF IInv, QueuedUpdate, Wrote
<1>15. WritesCloseOnly'
  <2> SUFFICES ASSUME NEW t \in Session, NEW i \in RowId,
                      stage'[t] = "open", writes'[t][i] # None, table'[i] # None
               PROVE  \/ ClosesCommitted(t, i)'
                      \/ /\ HalfFlushed(t)' /\ pend'[t].close = i
                         /\ \E j \in RowId : IsCurrent(table'[j], pend'[t].conn) /\ writes'[t][j] = None
    BY DEF WritesCloseOnly, IsCurrent
  <2>1. /\ stage[t] = "open" /\ table' = table /\ i # nextId
        /\ writes[t][i] # None /\ writes'[t][i] = writes[t][i]
    BY <1>1, <1>2, <1>4
  <2>2. CASE ClosesCommitted(t, i)
    BY <2>1, <2>2 DEF ClosesCommitted
  <2>3. CASE ~ClosesCommitted(t, i)
    <3>1. PICK j \in RowId : /\ HalfFlushed(t) /\ pend[t].close = i
                             /\ IsCurrent(table[j], pend[t].conn) /\ writes[t][j] = None
      BY <2>1, <2>3 DEF IInv, WritesCloseOnly
    <3>2. t # s
      <4>1. SUFFICES ASSUME t = s PROVE FALSE
        OBVIOUS
      <4>2. IsCurrent(Visible(s)[j], c)
        BY <4>1, <3>1, VisibleType DEF IInv
      <4>3. QED
        BY <4>2, <1>2 DEF Duplicate
    <3>3. QED
      BY <3>1, <3>2, <2>1, <1>4, <1>5 DEF HalfFlushed
  <2>4. QED
    BY <2>2, <2>3
<1>16. WritesLeaveCurrent'
  <2> SUFFICES ASSUME NEW t \in Session, NEW d \in Conn,
                      stage'[t] = "open", Wrote(t, d)', ~(HalfFlushed(t)' /\ pend'[t].conn = d)
               PROVE  \E k \in RowId : IsCurrent(writes'[t][k], d)
    BY DEF WritesLeaveCurrent, IsCurrent
  <2>1. CASE t # s
    BY <2>1, <1>2, <1>4, <1>5 DEF IInv, WritesLeaveCurrent, Wrote, HalfFlushed
  <2>2. CASE t = s /\ d = c
    BY <2>2, <1>1, <1>3, <1>4 DEF IsCurrent
  <2>3. CASE t = s /\ d # c
    <3>1. Wrote(s, d)
      BY <2>3, <1>3, <1>4 DEF Wrote
    <3>2. PICK k \in RowId : IsCurrent(writes[s][k], d)
      BY <3>1, <2>3, <1>1 DEF IInv, WritesLeaveCurrent
    <3>3. k # nextId
      BY <3>2, <1>1 DEF IsCurrent
    <3>4. QED
      BY <3>2, <3>3, <2>3, <1>4
  <2>4. QED
    BY <2>1, <2>2, <2>3
<1>17. WritesLeaveNoGap'
  <2> SUFFICES ASSUME NEW t \in Session, NEW i \in RowId,
                      stage'[t] = "open", writes'[t][i] # None, writes'[t][i].to # Open
               PROVE  \/ \E j \in RowId : /\ j > i
                                          /\ writes'[t][j] # None
                                          /\ writes'[t][j].conn = writes'[t][i].conn
                                          /\ writes'[t][j].from = writes'[t][i].to
                      \/ /\ HalfFlushed(t)' /\ pend'[t].close = i
                         /\ pend'[t].conn = writes'[t][i].conn /\ pend'[t].now = writes'[t][i].to
    BY DEF WritesLeaveNoGap
  <2>1. CASE t # s
    BY <2>1, <1>2, <1>4, <1>5 DEF IInv, WritesLeaveNoGap, HalfFlushed
  <2>2. CASE t = s
    <3>1. i # nextId /\ writes'[s][i] = writes[s][i]
      BY <2>2, <1>3, <1>4
    <3>2. nextId > i
      BY <3>1, <2>2, <1>1 DEF IInv, FreshIds, RowId
    <3>3. CASE pend[s].close = i /\ pend[s].conn = writes[s][i].conn /\ pend[s].now = writes[s][i].to
      BY <3>1, <3>2, <3>3, <2>2, <1>1, <1>3, <1>4
    <3>4. CASE \E j \in RowId : /\ j > i
                                /\ writes[s][j] # None
                                /\ writes[s][j].conn = writes[s][i].conn
                                /\ writes[s][j].from = writes[s][i].to
      BY <3>1, <3>4, <2>2, <1>1, <1>4
    <3>5. QED
      BY <3>1, <3>3, <3>4, <2>2, <1>1 DEF IInv, WritesLeaveNoGap
  <2>3. QED
    BY <2>1, <2>2
<1>18. QED
  BY <1>6, <1>8, <1>9, <1>10, <1>11, <1>12, <1>13, <1>14, <1>15, <1>16, <1>17 DEF IInv

(***************************************************************************)
(* The end of a transaction.                                               *)
(***************************************************************************)

\* What s loses at the end, and that the other sessions keep their own state.
LEMMA EndFacts ==
  ASSUME IInv, NEW s \in Session, EndTransaction(s)
  PROVE  /\ writes' \in [Session -> [RowId -> Row \cup {None}]]
         /\ \A i \in RowId : writes'[s][i] = None
         /\ writes'[s] = NoRows
         /\ stage'[s] = "idle" /\ call'[s] = None /\ pend'[s] = None
         /\ \A t \in Session : t # s => /\ writes'[t] = writes[t] /\ stage'[t] = stage[t]
                                        /\ call'[t] = call[t] /\ pend'[t] = pend[t]
BY DEF EndTransaction, IInv, TypeOK, NoRows

LEMMA RollbackIInv == ASSUME IInv, NEW s \in Session, Rollback(s) PROVE IInv'
<1>1. EndTransaction(s) /\ UNCHANGED <<table, nextId, clock>>
  BY DEF Rollback
<1>2. /\ writes' \in [Session -> [RowId -> Row \cup {None}]]
      /\ \A i \in RowId : writes'[s][i] = None
      /\ writes'[s] = NoRows
      /\ stage'[s] = "idle" /\ call'[s] = None /\ pend'[s] = None
      /\ \A t \in Session : t # s => /\ writes'[t] = writes[t] /\ stage'[t] = stage[t]
                                     /\ call'[t] = call[t] /\ pend'[t] = pend[t]
  BY <1>1, EndFacts
<1>3. TypeOK'
  BY <1>1, <1>2, AssocAssumption DEF EndTransaction, IInv, TypeOK
<1>4. StagesAgree' /\ RowLocksExclusive' /\ FreshIds'
  BY <1>1, <1>2 DEF IInv, StagesAgree, RowLocksExclusive, FreshIds
<1>5. OneCurrent' /\ HasCurrent' /\ NoGapInHistory'
  BY <1>1 DEF IInv, OneCurrent, HasCurrent, NoGapInHistory, IsCurrent
<1>6. /\ \A t \in Session : t # s => Visible(t)' = Visible(t)
      /\ \A i \in RowId : Visible(s)'[i] = table[i]
  BY <1>1, <1>2 DEF Visible
<1>7. VisibleUnique'
  BY <1>6 DEF IInv, VisibleUnique, OneCurrent, IsCurrent
<1>8. UncommittedUnique' /\ QueuedUpdate'
  BY <1>2, <1>6 DEF IInv, UncommittedUnique, QueuedUpdate, Wrote, IsCurrent
<1>9. WritesCloseOnly' /\ WritesLeaveCurrent' /\ WritesLeaveNoGap'
  <2>1. \A t \in Session : stage'[t] = "open" =>
          /\ t # s /\ stage[t] = "open"
          /\ writes'[t] = writes[t] /\ pend'[t] = pend[t]
    BY <1>2
  <2>2. WritesCloseOnly'
    BY <2>1, <1>1 DEF IInv, WritesCloseOnly, HalfFlushed, ClosesCommitted, IsCurrent
  <2>3. WritesLeaveCurrent'
    BY <2>1 DEF IInv, WritesLeaveCurrent, Wrote, HalfFlushed, IsCurrent
  <2>4. WritesLeaveNoGap'
    BY <2>1 DEF IInv, WritesLeaveNoGap, HalfFlushed
  <2>5. QED
    BY <2>2, <2>3, <2>4
<1>10. QED
  BY <1>3, <1>4, <1>5, <1>7, <1>8, <1>9 DEF IInv

\* What a commit of s publishes: every write of a committed row is a close of
\* it (nothing is half flushed any more), every other row stays.
LEMMA CommitFacts ==
  ASSUME IInv, NEW s \in Session, Commit(s)
  PROVE  /\ stage[s] = "open" /\ pend[s] = None
         /\ EndTransaction(s) /\ UNCHANGED <<nextId, clock>>
         /\ table' \in [RowId -> Row \cup {None}]
         /\ \A i \in RowId : table'[i] = IF writes[s][i] # None THEN writes[s][i] ELSE table[i]
         /\ \A i \in RowId : writes[s][i] # None /\ table[i] # None => ClosesCommitted(s, i)
         /\ \A i \in RowId : table[i] # None =>
              /\ table'[i] # None
              /\ table'[i].conn = table[i].conn /\ table'[i].node = table[i].node
              /\ table'[i].from = table[i].from
              /\ table'[i].to # table[i].to => table[i].to = Open
<1>1. stage[s] = "open" /\ pend[s] = None /\ EndTransaction(s) /\ UNCHANGED <<nextId, clock>>
      /\ table' = Visible(s)
  BY DEF Commit
<1>2. /\ table' \in [RowId -> Row \cup {None}]
      /\ \A i \in RowId : table'[i] = IF writes[s][i] # None THEN writes[s][i] ELSE table[i]
  BY <1>1, VisibleType DEF IInv
<1>3. \A i \in RowId : writes[s][i] # None /\ table[i] # None => ClosesCommitted(s, i)
  BY <1>1 DEF IInv, WritesCloseOnly, HalfFlushed
<1>4. ASSUME NEW i \in RowId, table[i] # None
      PROVE  /\ table'[i] # None
             /\ table'[i].conn = table[i].conn /\ table'[i].node = table[i].node
             /\ table'[i].from = table[i].from
             /\ table'[i].to # table[i].to => table[i].to = Open
  <2>1. CASE writes[s][i] = None
    BY <1>2, <1>4, <2>1
  <2>2. CASE writes[s][i] # None
    <3>1. table'[i] = writes[s][i] /\ ClosesCommitted(s, i) /\ table[i] \in Row
      BY <1>2, <1>3, <1>4, <2>2 DEF IInv, TypeOK
    <3>2. QED
      BY <3>1, <2>2 DEF ClosesCommitted, Row
  <2>3. QED
    BY <2>1, <2>2
<1>5. QED
  BY <1>1, <1>2, <1>3, <1>4

LEMMA CommitIInv == ASSUME IInv, NEW s \in Session, Commit(s) PROVE IInv'
<1>1. /\ stage[s] = "open" /\ pend[s] = None
      /\ EndTransaction(s) /\ UNCHANGED <<nextId, clock>>
      /\ table' \in [RowId -> Row \cup {None}]
      /\ \A i \in RowId : table'[i] = IF writes[s][i] # None THEN writes[s][i] ELSE table[i]
      /\ \A i \in RowId : writes[s][i] # None /\ table[i] # None => ClosesCommitted(s, i)
      /\ \A i \in RowId : table[i] # None =>
           /\ table'[i] # None
           /\ table'[i].conn = table[i].conn /\ table'[i].node = table[i].node
           /\ table'[i].from = table[i].from
           /\ table'[i].to # table[i].to => table[i].to = Open
  BY CommitFacts
<1>2. /\ writes' \in [Session -> [RowId -> Row \cup {None}]]
      /\ \A i \in RowId : writes'[s][i] = None
      /\ writes'[s] = NoRows
      /\ stage'[s] = "idle" /\ call'[s] = None /\ pend'[s] = None
      /\ \A t \in Session : t # s => /\ writes'[t] = writes[t] /\ stage'[t] = stage[t]
                                     /\ call'[t] = call[t] /\ pend'[t] = pend[t]
  BY <1>1, EndFacts
<1>3. \A i \in RowId : table'[i] = Visible(s)[i]
  BY <1>1, VisibleType DEF IInv
\* A row another session holds is not touched by this commit.
<1>4. \A t \in Session, i \in RowId :
        t # s /\ writes[t][i] # None => writes[s][i] = None /\ table'[i] = table[i]
  BY <1>1 DEF IInv, RowLocksExclusive
<1>5. TypeOK'
  BY <1>1, <1>2, AssocAssumption DEF EndTransaction, IInv, TypeOK
<1>6. StagesAgree' /\ RowLocksExclusive'
  BY <1>2 DEF IInv, StagesAgree, RowLocksExclusive
<1>7. FreshIds'
  BY <1>1, <1>2 DEF IInv, FreshIds
<1>8. OneCurrent'
  <2> SUFFICES ASSUME NEW i \in RowId, NEW j \in RowId,
                      table'[i] # None, table'[j] # None,
                      table'[i].to = Open, table'[j].to = Open, table'[i].conn = table'[j].conn
               PROVE  i = j
    BY DEF OneCurrent
  <2>1. table'[i].conn \in Conn
    BY <1>1 DEF Row
  <2>2. IsCurrent(Visible(s)[i], table'[i].conn) /\ IsCurrent(Visible(s)[j], table'[i].conn)
    BY <1>3 DEF IsCurrent
  <2>3. QED
    BY <2>1, <2>2 DEF IInv, VisibleUnique
<1>9. \A t \in Session, i \in RowId :
        Visible(t)'[i] = IF t # s /\ writes[t][i] # None THEN writes[t][i] ELSE Visible(s)[i]
  BY <1>2, <1>3 DEF Visible
<1>10. VisibleUnique'
  <2> SUFFICES ASSUME NEW t \in Session, NEW d \in Conn, NEW i \in RowId, NEW j \in RowId,
                      IsCurrent(Visible(t)'[i], d), IsCurrent(Visible(t)'[j], d)
               PROVE  i = j
    BY DEF VisibleUnique, IsCurrent
  <2>1. ASSUME NEW k \in RowId, NEW l \in RowId, t # s,
               writes[t][k] # None, writes[t][l] = None,
               IsCurrent(writes[t][k], d), IsCurrent(Visible(s)[l], d)
        PROVE  k = l
    <3>1. writes[s][l] = None
      BY <2>1, VisibleType DEF IInv, UncommittedUnique
    <3>2. Visible(s)[l] = Visible(t)[l] /\ Visible(t)[k] = writes[t][k]
      BY <3>1, <2>1, VisibleType DEF IInv
    <3>3. QED
      BY <3>2, <2>1 DEF IInv, VisibleUnique
  <2>2. CASE t # s /\ writes[t][i] # None /\ writes[t][j] # None
    <3>1. Visible(t)'[i] = Visible(t)[i] /\ Visible(t)'[j] = Visible(t)[j]
      BY <1>9, <2>2, VisibleType DEF IInv
    <3>2. QED
      BY <3>1 DEF IInv, VisibleUnique
  <2>3. CASE t = s \/ (writes[t][i] = None /\ writes[t][j] = None)
    BY <1>9, <2>3 DEF IInv, VisibleUnique
  <2>4. QED
    BY <1>9, <2>1, <2>2, <2>3
<1>11. UncommittedUnique'
  BY <1>2 DEF IInv, UncommittedUnique, IsCurrent
<1>12. QueuedUpdate'
  <2> SUFFICES ASSUME NEW t \in Session, pend'[t] # None, pend'[t].todo = "update"
               PROVE  /\ pend'[t].close \in RowId
                      /\ Visible(t)'[pend'[t].close] # None
                      /\ Visible(t)'[pend'[t].close].conn = pend'[t].conn
                      /\ (Wrote(t, pend[t].conn) => writes[t][pend[t].close] # None)'
    BY DEF QueuedUpdate
  <2>1. t # s /\ pend'[t] = pend[t] /\ writes'[t] = writes[t]
    BY <1>2
  <2> DEFINE x == pend[t].close
  <2>2. /\ x \in RowId /\ Visible(t)[x] # None /\ Visible(t)[x].conn = pend[t].conn
        /\ Wrote(t, pend[t].conn) => writes[t][x] # None
    BY <2>1 DEF IInv, QueuedUpdate
  <2>3. Visible(t)'[x] # None /\ Visible(t)'[x].conn = Visible(t)[x].conn
    <3>1. CASE writes[t][x] # None
      BY <3>1, <2>1, <2>2, <1>9, VisibleType DEF IInv
    <3>2. CASE writes[t][x] = None
      <4>1. Visible(t)[x] = table[x] /\ Visible(t)'[x] = table'[x]
        BY <3>2, <2>2, <1>3, <1>9, VisibleType DEF IInv
      <4>2. QED
        BY <4>1, <2>2, <1>1
    <3>3. QED
      BY <3>1, <3>2
  <2>4. Wrote(t, pend[t].conn)' <=> Wrote(t, pend[t].conn)
    BY <2>1 DEF Wrote
  <2>5. QED
    BY <2>1, <2>2, <2>3, <2>4
<1>13. HasCurrent'
  <2> SUFFICES ASSUME NEW i \in RowId, table'[i] # None
               PROVE  \E j \in RowId : IsCurrent(table'[j], table'[i].conn)
    BY DEF HasCurrent, IsCurrent
  <2> DEFINE d == table'[i].conn
  <2>1. d \in Conn
    BY <1>1 DEF Row
  <2>2. CASE Wrote(s, d)
    <3>1. PICK k \in RowId : IsCurrent(writes[s][k], d)
      BY <2>1, <2>2, <1>1 DEF IInv, WritesLeaveCurrent, HalfFlushed
    <3>2. QED
      BY <3>1, <1>1 DEF IsCurrent
  <2>3. CASE ~Wrote(s, d)
    <3>1. writes[s][i] = None /\ table'[i] = table[i]
      BY <2>3, <1>1 DEF Wrote
    <3>2. PICK j \in RowId : IsCurrent(table[j], d)
      BY <3>1 DEF IInv, HasCurrent
    <3>3. writes[s][j] = None
      BY <3>2, <2>3, <1>1 DEF Wrote, IsCurrent
    <3>4. QED
      BY <3>2, <3>3, <1>1
  <2>4. QED
    BY <2>2, <2>3
<1>14. NoGapInHistory'
  <2> SUFFICES ASSUME NEW i \in RowId, table'[i] # None, table'[i].to # Open
               PROVE  \E j \in RowId : /\ j > i
                                       /\ table'[j] # None
                                       /\ table'[j].conn = table'[i].conn
                                       /\ table'[j].from = table'[i].to
    BY DEF NoGapInHistory
  <2>1. CASE writes[s][i] # None
    BY <2>1, <1>1 DEF IInv, WritesLeaveNoGap, HalfFlushed
  <2>2. CASE writes[s][i] = None
    <3>1. PICK j \in RowId : /\ j > i
                             /\ table[j] # None
                             /\ table[j].conn = table[i].conn
                             /\ table[j].from = table[i].to
      BY <2>2, <1>1 DEF IInv, NoGapInHistory
    <3>2. QED
      BY <3>1, <2>2, <1>1
  <2>3. QED
    BY <2>1, <2>2
<1>15. \A t \in Session : stage'[t] = "open" =>
          /\ t # s /\ stage[t] = "open"
          /\ writes'[t] = writes[t] /\ pend'[t] = pend[t]
  BY <1>2
<1>16. WritesLeaveCurrent' /\ WritesLeaveNoGap'
  <2>1. WritesLeaveCurrent'
    BY <1>15 DEF IInv, WritesLeaveCurrent, Wrote, HalfFlushed, IsCurrent
  <2>2. WritesLeaveNoGap'
    BY <1>15 DEF IInv, WritesLeaveNoGap, HalfFlushed
  <2>3. QED
    BY <2>1, <2>2
<1>17. WritesCloseOnly'
  <2> SUFFICES ASSUME NEW t \in Session, NEW i \in RowId,
                      stage'[t] = "open", writes'[t][i] # None, table'[i] # None
               PROVE  \/ ClosesCommitted(t, i)'
                      \/ /\ HalfFlushed(t)' /\ pend'[t].close = i
                         /\ \E j \in RowId : IsCurrent(table'[j], pend'[t].conn) /\ writes'[t][j] = None
    BY DEF WritesCloseOnly, IsCurrent
  <2>1. /\ t # s /\ stage[t] = "open" /\ writes[t][i] # None /\ table[i] # None
        /\ table'[i] = table[i] /\ writes'[t] = writes[t] /\ pend'[t] = pend[t]
    BY <1>4, <1>15
  <2>2. CASE ClosesCommitted(t, i)
    BY <2>1, <2>2 DEF ClosesCommitted
  <2>3. CASE ~ClosesCommitted(t, i)
    <3>1. PICK j \in RowId : /\ HalfFlushed(t) /\ pend[t].close = i
                             /\ IsCurrent(table[j], pend[t].conn) /\ writes[t][j] = None
      BY <2>1, <2>3 DEF IInv, WritesCloseOnly
    <3>2. table'[j] # None /\ table'[j].conn = pend[t].conn
      BY <3>1, <1>1 DEF IsCurrent
    <3>3. PICK k \in RowId : IsCurrent(table'[k], pend[t].conn)
      BY <3>2, <1>13 DEF HasCurrent
    <3>4. writes[t][k] = None
      <4>1. SUFFICES ASSUME writes[t][k] # None PROVE FALSE
        OBVIOUS
      <4>2. table'[k] = table[k]
        BY <4>1, <2>1, <1>4
      <4>3. k = j
        BY <4>2, <3>1, <3>3 DEF IInv, OneCurrent, IsCurrent
      <4>4. QED
        BY <4>1, <4>3, <3>1
    <3>5. QED
      BY <3>1, <3>3, <3>4, <2>1 DEF HalfFlushed
  <2>4. QED
    BY <2>2, <2>3
<1>18. QED
  BY <1>5, <1>6, <1>7, <1>8, <1>10, <1>11, <1>12, <1>13, <1>14, <1>16, <1>17 DEF IInv

(***************************************************************************)
(* The theorems.                                                           *)
(***************************************************************************)

LEMMA NextIInv == IInv /\ [Next]_vars => IInv'
<1> SUFFICES ASSUME IInv, [Next]_vars PROVE IInv'
  OBVIOUS
<1>1. CASE UNCHANGED vars
  BY <1>1 DEF vars, IInv, TypeOK, StagesAgree, RowLocksExclusive, FreshIds, OneCurrent,
     VisibleUnique, UncommittedUnique, QueuedUpdate, WritesCloseOnly, WritesLeaveCurrent,
     WritesLeaveNoGap, HasCurrent, NoGapInHistory, Visible, IsCurrent, Wrote,
     HalfFlushed, ClosesCommitted
<1>2. CASE Next
  BY <1>2, TickIInv, StartIInv, SelectIInv, UpdateIInv, InsertIInv, RefusedIInv,
     CommitIInv, RollbackIInv DEF Next
<1>3. QED
  BY <1>1, <1>2

\* The invariant is inductive, so it holds for any number of sessions,
\* connections, nodes and corrections.
THEOREM Invariance == Spec => []IInv
<1>1. QED
  BY InitIInv, NextIInv, PTL DEF Spec

\* The rows, queued statements and session stages keep their types.
THEOREM TypeCorrect == Spec => []TypeOK
<1>1. IInv => TypeOK
  BY DEF IInv
<1>2. QED
  BY <1>1, Invariance, PTL

\* No interleaving of corrections leaves a connection two current
\* associations.
THEOREM OneCurrentAlways == Spec => []OneCurrent
<1>1. IInv => OneCurrent
  BY DEF IInv
<1>2. QED
  BY <1>1, Invariance, PTL

\* A closed association is always followed by the one that replaced it.
THEOREM NoGapAlways == Spec => []NoGapInHistory
<1>1. IInv => NoGapInHistory
  BY DEF IInv
<1>2. QED
  BY <1>1, Invariance, PTL

\* Committed history is never rewritten, whatever a losing session has
\* re-stamped in its own transaction.
THEOREM HistoryPreserved == Spec => HistoryNeverRewritten
<1> DEFINE Kept == \A i \in RowId :
                     table[i] # None =>
                       \/ table'[i] = table[i]
                       \/ /\ table[i].to = Open
                          /\ table'[i] # None
                          /\ table'[i] = [table[i] EXCEPT !.to = table'[i].to]
<1>1. IInv /\ [Next]_vars => [Kept]_vars
  <2> SUFFICES ASSUME IInv, Next PROVE Kept
    OBVIOUS
  <2>1. CASE table' = table
    BY <2>1
  <2>2. ASSUME NEW s \in Session, Commit(s) PROVE Kept
    <3> SUFFICES ASSUME NEW i \in RowId, table[i] # None, table'[i] # table[i]
                 PROVE  /\ table[i].to = Open
                        /\ table'[i] # None
                        /\ table'[i] = [table[i] EXCEPT !.to = table'[i].to]
      OBVIOUS
    <3>1. writes[s][i] # None /\ table'[i] = writes[s][i] /\ ClosesCommitted(s, i)
      BY <2>2, CommitFacts
    <3>2. QED
      BY <3>1 DEF ClosesCommitted
  <2>3. QED
    BY <2>1, <2>2 DEF Next, Tick, Start, SelectCurrent, FlushUpdate, FlushInsert,
                      FlushRefused, Rollback
<1>2. QED
  BY <1>1, Invariance, PTL DEF Spec, HistoryNeverRewritten

(***************************************************************************)
(* The refinement of AssociationLog.  First, the rows of a connection in   *)
(* the order of their ids.                                                 *)
(***************************************************************************)

\* The higher of two rows has the higher place.
LEMMA PlaceGrows ==
  ASSUME NEW n \in Nat, NEW S \in SUBSET (1..n)
  PROVE  /\ IsFiniteSet(S) /\ Cardinality(S) \in Nat /\ S \subseteq Int
         /\ \A i \in S : Place(i, S) \in 1..Cardinality(S)
         /\ \A i, j \in S : i < j => Place(i, S) < Place(j, S)
<1>1. IsFiniteSet(S) /\ Cardinality(S) \in Nat /\ S \subseteq Int
  <2>1. 1 \in Int /\ n \in Int /\ 1..n \subseteq Int
    OBVIOUS
  <2>2. IsFiniteSet(1..n)
    BY <2>1, FS_Interval
  <2> QED BY <2>1, <2>2, FS_Subset, FS_CardinalityType
<1>2. ASSUME NEW i \in S
      PROVE  Place(i, S) \in 1..Cardinality(S)
  <2> DEFINE U == {j \in S : j <= i}
  <2>1. U \in SUBSET S /\ i \in U
    BY <1>1
  <2>2. IsFiniteSet(U) /\ Cardinality(U) <= Cardinality(S) /\ Cardinality(U) \in Nat
    BY <1>1, <2>1, FS_Subset, FS_CardinalityType
  <2>3. Cardinality(U) # 0
    BY <2>1, <2>2, FS_EmptySet
  <2> QED BY <1>1, <2>2, <2>3 DEF Place
<1>3. ASSUME NEW i \in S, NEW j \in S, i < j
      PROVE  Place(i, S) < Place(j, S)
  <2> DEFINE U == {k \in S : k <= i}
             V == {k \in S : k <= j}
  <2>1. i \in Int /\ j \in Int /\ \A k \in S : k \in Int
    BY <1>1
  <2>2. (\A k \in S : k <= i => k <= j) /\ j <= j /\ ~(j <= i)
    BY <1>3, <2>1
  <2>3. U \in SUBSET V /\ V \in SUBSET S /\ j \in V /\ j \notin U
    BY <2>2
  <2>4. IsFiniteSet(V)
    BY <1>1, <2>3, FS_Subset
  <2>5. IsFiniteSet(U) /\ Cardinality(U) <= Cardinality(V) /\ Cardinality(U) # Cardinality(V)
    BY <2>3, <2>4, FS_Subset
  <2>6. Cardinality(U) \in Nat /\ Cardinality(V) \in Nat
    BY <2>4, <2>5, FS_CardinalityType
  <2> QED BY <2>5, <2>6 DEF Place
<1> QED BY <1>1, <1>2, <1>3

\* Every place is somebody's, and Nth tells whose.
LEMMA Enumerated ==
  ASSUME NEW n \in Nat, NEW S \in SUBSET (1..n)
  PROVE  /\ \A k \in 1..Cardinality(S) : Nth(k, S) \in S /\ Place(Nth(k, S), S) = k
         /\ \A i \in S : Nth(Place(i, S), S) = i
<1> DEFINE size == Cardinality(S)
           place == [i \in S |-> Place(i, S)]
<1>1. /\ IsFiniteSet(S) /\ size \in Nat
      /\ \A i \in S : Place(i, S) \in 1..size
      /\ \A i, j \in S : i < j => Place(i, S) < Place(j, S)
  BY PlaceGrows
<1>2. \A i, j \in S : Place(i, S) = Place(j, S) => i = j
  <2> SUFFICES ASSUME NEW i \in S, NEW j \in S, Place(i, S) = Place(j, S), i # j
               PROVE  FALSE
    OBVIOUS
  <2>1. i < j \/ j < i
    <3>1. i \in Int /\ j \in Int
      OBVIOUS
    <3> QED BY <3>1
  <2>2. Place(i, S) \in Int /\ Place(j, S) \in Int
    BY <1>1
  <2> QED BY <1>1, <2>1, <2>2
<1>3. place \in Injection(S, 1..size)
  BY <1>1, <1>2 DEF Injection, IsInjective
<1>4. IsFiniteSet(1..size) /\ Cardinality(1..size) = size
  <2>1. 1 \in Int /\ size \in Int
    BY <1>1
  <2>2. IsFiniteSet(1..size) /\ Cardinality(1..size) = IF 1 > size THEN 0 ELSE size - 1 + 1
    BY <2>1, FS_Interval
  <2> HIDE DEF size
  <2> QED BY <1>1, <2>2
<1>5. place \in Surjection(S, 1..size)
  BY <1>3, <1>4, FS_Injection
<1>6. \A k \in 1..size : \E i \in S : Place(i, S) = k
  BY <1>5 DEF Surjection
<1>7. \A k \in 1..size : Nth(k, S) \in S /\ Place(Nth(k, S), S) = k
  BY <1>6 DEF Nth
<1>8. \A i \in S : Nth(Place(i, S), S) = i
  BY <1>1, <1>2, <1>7
<1> QED BY <1>7, <1>8

\* The last place is that of the highest id.
LEMMA LastIsHighest ==
  ASSUME NEW n \in Nat, NEW S \in SUBSET (1..n), S # {}
  PROVE  /\ Cardinality(S) \in 1..Cardinality(S)
         /\ Nth(Cardinality(S), S) \in S
         /\ \A i \in S : i <= Nth(Cardinality(S), S)
<1> DEFINE m == Nth(Cardinality(S), S)
<1>1. /\ IsFiniteSet(S) /\ Cardinality(S) \in Nat /\ S \subseteq Int
      /\ \A i \in S : Place(i, S) \in 1..Cardinality(S)
      /\ \A i, j \in S : i < j => Place(i, S) < Place(j, S)
  BY PlaceGrows
<1>2. Cardinality(S) \in 1..Cardinality(S)
  BY <1>1, FS_EmptySet
<1>3. m \in S /\ Place(m, S) = Cardinality(S)
  BY <1>2, Enumerated
<1>4. ASSUME NEW i \in S PROVE i <= m
  <2>1. m \in Int /\ i \in Int
    <3> HIDE DEF m
    <3> QED BY <1>1, <1>3
  <2>2. Place(i, S) <= Cardinality(S) /\ Place(i, S) \in Int /\ Cardinality(S) \in Int
    BY <1>1
  <2>3. m < i => Cardinality(S) < Place(i, S)
    BY <1>1, <1>3
  <2> HIDE DEF m
  <2> QED BY <2>1, <2>2, <2>3
<1> QED BY <1>2, <1>3, <1>4

\* Rows above all others leave the places of those alone.
LEMMA EnumeratedFurther ==
  ASSUME NEW n \in Nat, NEW T \in SUBSET (1..n), NEW S \in SUBSET T,
         \A i \in S, j \in T \ S : i < j
  PROVE  /\ Cardinality(S) <= Cardinality(T)
         /\ \A k \in 1..Cardinality(S) : k \in 1..Cardinality(T) /\ Nth(k, T) = Nth(k, S)
<1>1. /\ S \in SUBSET (1..n) /\ T \subseteq Int
      /\ IsFiniteSet(T) /\ Cardinality(T) \in Nat /\ Cardinality(S) \in Nat
  BY PlaceGrows
<1>2. Cardinality(S) <= Cardinality(T)
  BY <1>1, FS_Subset
<1>3. ASSUME NEW k \in 1..Cardinality(S)
      PROVE  k \in 1..Cardinality(T) /\ Nth(k, T) = Nth(k, S)
  <2> DEFINE i == Nth(k, S)
  <2>1. i \in S /\ Place(i, S) = k
    BY <1>1, Enumerated
  <2>2. {j \in T : j <= i} = {j \in S : j <= i}
    <3>1. i \in Int /\ \A j \in T : j \in Int
      <4> HIDE DEF i
      <4> QED BY <2>1, <1>1
    <3>2. \A j \in T \ S : ~(j <= i)
      BY <2>1, <3>1
    <3> QED BY <3>2
  <2>3. Place(i, T) = k
    BY <2>1, <2>2 DEF Place
  <2>4. Nth(Place(i, T), T) = i
    BY <2>1, Enumerated
  <2> QED BY <1>1, <1>2, <2>3, <2>4
<1> QED BY <1>2, <1>3

(***************************************************************************)
(* A transaction's new rows come last.                                     *)
(***************************************************************************)

LEMMA QuietKeepsLast ==
  ASSUME IInv, InsertedLast, UNCHANGED table,
         \A s \in Session : stage'[s] = "open" =>
           \/ /\ stage[s] = "open" /\ UNCHANGED writes[s]
              /\ HalfFlushed(s) => HalfFlushed(s)' /\ pend'[s].conn = pend[s].conn
           \/ \A i \in RowId : writes'[s][i] = None
  PROVE  InsertedLast'
BY DEF InsertedLast, IsCurrent

LEMMA StepKeepsLast ==
  ASSUME IInv, IInv', InsertedLast, [Next]_vars
  PROVE  InsertedLast'
<1>1. CASE UNCHANGED vars
  BY <1>1, QuietKeepsLast DEF vars, HalfFlushed
<1>2. CASE Tick
  BY <1>2, QuietKeepsLast DEF Tick, HalfFlushed
<1>3. ASSUME NEW s \in Session, NEW c \in Conn, NEW m \in Node, NEW now \in Time, Start(s, c, m, now)
      PROVE  InsertedLast'
  <2>1. /\ UNCHANGED <<table, writes, pend>>
        /\ stage' = [stage EXCEPT ![s] = "open"] /\ stage \in [Session -> {"idle", "open", "failed"}]
        /\ stage[s] # "failed"
    BY <1>3 DEF Start, IInv, TypeOK
  <2>2. stage[s] # "open" => \A i \in RowId : writes[s][i] = None
    BY <2>1 DEF IInv, StagesAgree, NoRows
  <2> QED BY <2>1, <2>2, QuietKeepsLast DEF HalfFlushed
<1>4. ASSUME NEW s \in Session, SelectCurrent(s)
      PROVE  InsertedLast'
  <2>1. /\ UNCHANGED <<table, writes, stage>> /\ pend[s] = None
        /\ \A t \in Session : t # s => pend'[t] = pend[t]
    BY <1>4 DEF SelectCurrent, IInv, TypeOK
  <2> QED BY <2>1, QuietKeepsLast DEF HalfFlushed
<1>5. ASSUME NEW s \in Session, FlushUpdate(s)
      PROVE  InsertedLast'
  <2> DEFINE x == pend[s].close
  <2>1. /\ UNCHANGED <<table, stage>> /\ pend[s] # None /\ pend[s].todo = "update"
        /\ x \in RowId /\ Visible(s)[x] # None
        /\ writes' = [writes EXCEPT ![s][x] = [Visible(s)[x] EXCEPT !.to = pend[s].now]]
    BY <1>5 DEF FlushUpdate, IInv, QueuedUpdate
  <2>2. \A t \in Session : t # s => pend'[t] = pend[t] /\ writes'[t] = writes[t]
    BY <1>5, <2>1 DEF FlushUpdate, IInv, TypeOK
  <2>3. /\ \A i \in RowId : i # x => writes'[s][i] = writes[s][i]
        /\ writes'[s][x] = [Visible(s)[x] EXCEPT !.to = pend[s].now]
    BY <2>1 DEF IInv, TypeOK
  <2>4. table[x] = None => writes[s][x] # None /\ writes'[s][x].conn = writes[s][x].conn
    <3>1. Visible(s)[x] \in Row
      BY <2>1, VisibleType DEF IInv
    <3> QED BY <2>1, <2>3, <3>1, VisibleType DEF IInv, Row
  <2>5. ASSUME NEW i \in RowId, NEW j \in RowId, stage[s] = "open", table[i] # None,
               table[j] = None, writes'[s][j] # None, table[i].conn = writes'[s][j].conn
        PROVE  i < j
    <3>1. writes[s][j] # None /\ writes'[s][j].conn = writes[s][j].conn
      BY <2>3, <2>4, <2>5
    <3>2. ~HalfFlushed(s)
      BY <2>1 DEF HalfFlushed
    <3> QED BY <2>5, <3>1, <3>2 DEF InsertedLast
  <2> QED BY <2>1, <2>2, <2>5 DEF InsertedLast, HalfFlushed, IsCurrent
<1>6. ASSUME NEW s \in Session, FlushInsert(s)
      PROVE  InsertedLast'
  <2> DEFINE c == pend[s].conn
  <2>1. /\ UNCHANGED <<table, stage>> /\ ~Duplicate(s, c) /\ nextId \in RowId
        /\ writes' = [writes EXCEPT ![s][nextId] =
                        [conn |-> c, node |-> pend[s].node, from |-> pend[s].now, to |-> Open]]
    BY <1>6 DEF FlushInsert, IInv, TypeOK, RowId
  <2>2. \A t \in Session : t # s => pend'[t] = pend[t] /\ writes'[t] = writes[t]
    BY <1>6, <2>1 DEF FlushInsert, IInv, TypeOK
  <2>3. \A i \in RowId : i # nextId => writes'[s][i] = writes[s][i]
    BY <2>1 DEF IInv, TypeOK
  <2>4. \A i \in RowId : table[i] # None => i < nextId
    BY <2>1 DEF IInv, FreshIds, RowId
  <2>5. ASSUME NEW i \in RowId, NEW j \in RowId, stage[s] = "open", table[i] # None,
               table[j] = None, writes'[s][j] # None, table[i].conn = writes'[s][j].conn
        PROVE  i < j
    <3>1. CASE j = nextId
      BY <2>4, <2>5, <3>1
    <3>2. CASE j # nextId
      <4>1. \/ i < j
            \/ /\ HalfFlushed(s) /\ c = table[i].conn
               /\ \E k \in RowId : IsCurrent(table[k], c) /\ writes[s][k] = None
        BY <2>3, <2>5, <3>2 DEF InsertedLast
      <4>2. \A k \in RowId : writes[s][k] = None => ~IsCurrent(table[k], c)
        BY <2>1, VisibleType DEF IInv, Duplicate
      <4> QED BY <4>1, <4>2
    <3> QED BY <3>1, <3>2
  <2> QED BY <2>1, <2>2, <2>5 DEF InsertedLast, HalfFlushed, IsCurrent
<1>7. ASSUME NEW s \in Session, FlushRefused(s)
      PROVE  InsertedLast'
  <2>1. /\ UNCHANGED <<table, writes>> /\ stage'[s] = "failed"
        /\ \A t \in Session : t # s => pend'[t] = pend[t] /\ stage'[t] = stage[t]
    BY <1>7 DEF FlushRefused, IInv, TypeOK
  <2> QED BY <2>1, QuietKeepsLast DEF HalfFlushed
<1>8. ASSUME NEW s \in Session, Rollback(s)
      PROVE  InsertedLast'
  <2>1. /\ UNCHANGED table /\ stage'[s] = "idle"
        /\ \A t \in Session : t # s => pend'[t] = pend[t] /\ stage'[t] = stage[t] /\ writes'[t] = writes[t]
    BY <1>8, EndFacts DEF Rollback
  <2> QED BY <2>1, QuietKeepsLast DEF HalfFlushed
<1>9. ASSUME NEW s \in Session, Commit(s)
      PROVE  InsertedLast'
  <2>1. /\ stage[s] = "open" /\ pend[s] = None /\ EndTransaction(s)
        /\ \A i \in RowId : table'[i] = IF writes[s][i] # None THEN writes[s][i] ELSE table[i]
        /\ \A i \in RowId : table[i] # None => table'[i] # None /\ table'[i].conn = table[i].conn
    BY <1>9, CommitFacts
  <2>2. /\ \A i \in RowId : writes'[s][i] = None
        /\ \A t \in Session : t # s => pend'[t] = pend[t] /\ stage'[t] = stage[t] /\ writes'[t] = writes[t]
    BY <2>1, EndFacts
  <2>3. \A d \in Conn : Wrote(s, d) => \E k \in RowId : IsCurrent(writes[s][k], d)
    BY <2>1 DEF IInv, WritesLeaveCurrent, HalfFlushed
  <2> SUFFICES ASSUME NEW t \in Session, NEW i \in RowId, NEW j \in RowId,
                      stage'[t] = "open", table'[i] # None, table'[j] = None, writes'[t][j] # None,
                      table'[i].conn = writes'[t][j].conn, ~(i < j)
               PROVE  /\ HalfFlushed(t)' /\ pend'[t].conn = table'[i].conn
                      /\ \E k \in RowId : IsCurrent(table'[k], pend'[t].conn) /\ writes'[t][k] = None
    BY DEF InsertedLast, IsCurrent
  <2> DEFINE d == table'[i].conn
  <2>4. /\ t # s /\ stage[t] = "open" /\ pend'[t] = pend[t] /\ writes'[t] = writes[t]
        /\ writes[t][j] # None /\ writes[t][j].conn = d /\ table[j] = None
    BY <2>1, <2>2
  <2>5. d \in Conn
    BY <2>4 DEF IInv, TypeOK, Row
  <2>6. ASSUME Wrote(s, d)
        PROVE  /\ HalfFlushed(t) /\ pend[t].conn = d
               /\ \E k \in RowId : IsCurrent(table'[k], d) /\ writes[t][k] = None
    <3>1. PICK k \in RowId : IsCurrent(writes[s][k], d)
      BY <2>3, <2>5, <2>6
    <3>2. IsCurrent(table'[k], d) /\ writes[t][k] = None
      BY <2>1, <2>4, <3>1 DEF IInv, RowLocksExclusive, IsCurrent
    <3>3. \A l \in RowId : ~IsCurrent(writes[t][l], d)
      BY <2>4, <2>5, <3>1 DEF IInv, UncommittedUnique
    <3>4. HalfFlushed(t) /\ pend[t].conn = d
      BY <2>4, <2>5, <3>3 DEF IInv, WritesLeaveCurrent, Wrote
    <3> QED BY <3>2, <3>4
  <2>7. ASSUME ~Wrote(s, d)
        PROVE  /\ HalfFlushed(t) /\ pend[t].conn = d
               /\ \E k \in RowId : IsCurrent(table'[k], d) /\ writes[t][k] = None
    <3>1. writes[s][i] = None /\ table[i] # None /\ table[i].conn = d
      BY <2>1, <2>7 DEF Wrote
    <3>2. PICK k \in RowId : /\ HalfFlushed(t) /\ pend[t].conn = d
                             /\ IsCurrent(table[k], d) /\ writes[t][k] = None
      BY <2>4, <3>1 DEF InsertedLast
    <3>3. writes[s][k] = None
      <4> SUFFICES ASSUME writes[s][k] # None PROVE FALSE
        OBVIOUS
      <4>1. table'[k] = writes[s][k] /\ table'[k].conn = d
        BY <2>1, <3>2 DEF IsCurrent
      <4> QED BY <4>1, <2>7 DEF Wrote
    <3> QED BY <2>1, <3>2, <3>3
  <2> QED BY <2>4, <2>6, <2>7 DEF HalfFlushed
<1> QED BY <1>1, <1>2, <1>3, <1>4, <1>5, <1>6, <1>7, <1>8, <1>9 DEF Next

\* In every reachable state new rows are the last ones of their connection.
THEOREM LastInvariance == Spec => [](IInv /\ InsertedLast)
<1>1. Init => InsertedLast
  BY DEF Init, NoRows, InsertedLast
<1>2. IInv /\ IInv' /\ InsertedLast /\ [Next]_vars => InsertedLast'
  BY StepKeepsLast
<1> QED BY <1>1, <1>2, Invariance, PTL DEF Spec

(***************************************************************************)
(* The mapping.                                                            *)
(***************************************************************************)

\* The ids of a connection's rows, and the history they spell.
RowsRead ==
  \A c \in Conn :
    /\ RowsOf(c) \in SUBSET (1..MaxRows) /\ Cardinality(RowsOf(c)) \in Nat
    /\ \A i \in RowsOf(c) : i \in RowId /\ table[i] \in Row /\ table[i] # None /\ table[i].conn = c
    /\ LogOf[c] = [k \in 1..Cardinality(RowsOf(c)) |-> table[Nth(k, RowsOf(c))].node]
    /\ LogOf[c] \in Seq(Node) /\ Len(LogOf[c]) = Cardinality(RowsOf(c))

\* The node of the open row ends that history.
NewestBelieved ==
  BeliefOf = [c \in Conn |-> IF LogOf[c] = <<>> THEN None ELSE Log!Last(LogOf[c])]

LEMMA RowsTyped == ASSUME IInv PROVE RowsRead
<1> SUFFICES ASSUME NEW c \in Conn
             PROVE  /\ RowsOf(c) \in SUBSET (1..MaxRows) /\ Cardinality(RowsOf(c)) \in Nat
                    /\ \A i \in RowsOf(c) : /\ i \in RowId /\ table[i] \in Row
                                            /\ table[i] # None /\ table[i].conn = c
                    /\ LogOf[c] = [k \in 1..Cardinality(RowsOf(c)) |-> table[Nth(k, RowsOf(c))].node]
                    /\ LogOf[c] \in Seq(Node) /\ Len(LogOf[c]) = Cardinality(RowsOf(c))
  BY DEF RowsRead
<1> DEFINE S == RowsOf(c)
<1>1. MaxRows \in Nat /\ S \in SUBSET (1..MaxRows)
  BY AssocAssumption DEF RowsOf, RowId
<1>2. \A i \in S : i \in RowId /\ table[i] \in Row /\ table[i] # None /\ table[i].conn = c
  BY DEF RowsOf, IInv, TypeOK
<1>3. Cardinality(S) \in Nat
  BY <1>1, PlaceGrows
<1>4. \A k \in 1..Cardinality(S) : Nth(k, S) \in S
  BY <1>1, Enumerated
<1>5. \A k \in 1..Cardinality(S) : table[Nth(k, S)].node \in Node
  BY <1>2, <1>4 DEF Row
<1>6. LogOf[c] = [k \in 1..Cardinality(S) |-> table[Nth(k, S)].node]
  BY DEF LogOf
<1> HIDE DEF S
<1>7. LogOf[c] \in Seq(Node) /\ Len(LogOf[c]) = Cardinality(S)
  BY <1>3, <1>5, <1>6
<1> QED BY <1>1, <1>2, <1>3, <1>6, <1>7 DEF S

\* The open row of a connection is its newest one.
LEMMA BeliefIsNewest == ASSUME IInv PROVE NewestBelieved
<1> SUFFICES ASSUME NEW c \in Conn
             PROVE  BeliefOf[c] = IF LogOf[c] = <<>> THEN None ELSE Log!Last(LogOf[c])
  BY DEF BeliefOf, NewestBelieved
<1> DEFINE S == RowsOf(c)
           size == Cardinality(S)
<1>1. /\ MaxRows \in Nat /\ S \in SUBSET (1..MaxRows)
      /\ \A i \in S : i \in RowId /\ table[i] \in Row /\ table[i] # None /\ table[i].conn = c
      /\ size \in Nat
      /\ LogOf[c] = [k \in 1..size |-> table[Nth(k, S)].node]
      /\ LogOf[c] \in Seq(Node) /\ Len(LogOf[c]) = size
  BY RowsTyped, AssocAssumption DEF RowsRead
<1>2. CASE S = {}
  <2>1. \A i \in RowId : ~IsCurrent(table[i], c)
    BY <1>2 DEF RowsOf, IsCurrent
  <2>2. size = 0
    BY <1>2, FS_EmptySet
  <2>3. LogOf[c] = <<>>
    BY <1>1, <2>2
  <2> QED BY <2>1, <2>3 DEF BeliefOf
<1>3. CASE S # {}
  <2> DEFINE m == Nth(size, S)
  <2>1. size \in 1..size /\ m \in S /\ \A i \in S : i <= m
    BY <1>1, <1>3, LastIsHighest
  <2>2. LogOf[c] # <<>> /\ Log!Last(LogOf[c]) = table[m].node
    BY <1>1, <2>1 DEF Log!Last
  <2>3. table[m].to = Open
    <3> SUFFICES ASSUME table[m].to # Open PROVE FALSE
      OBVIOUS
    <3>1. PICK j \in RowId : j > m /\ table[j] # None /\ table[j].conn = table[m].conn
      BY <1>1, <2>1 DEF IInv, NoGapInHistory
    <3>2. j \in S /\ m \in RowId
      BY <1>1, <2>1, <3>1 DEF RowsOf
    <3>3. j \in Int /\ m \in Int
      BY <3>1, <3>2 DEF RowId
    <3> HIDE DEF m
    <3> QED BY <2>1, <3>1, <3>2, <3>3
  <2>4. IsCurrent(table[m], c) /\ m \in RowId
    BY <1>1, <2>1, <2>3 DEF IsCurrent
  <2>5. \A i \in RowId : IsCurrent(table[i], c) => i = m
    BY <2>4 DEF IInv, OneCurrent, IsCurrent
  <2>6. BeliefOf[c] = table[m].node
    <3> HIDE DEF m
    <3>1. (CHOOSE i \in RowId : IsCurrent(table[i], c)) = m
      BY <2>4, <2>5
    <3> QED BY <2>4, <3>1 DEF BeliefOf
  <2> QED BY <2>2, <2>6
<1> QED BY <1>2, <1>3

\* A sequence that agrees with another as far as it goes is a prefix of it.
LEMMA PrefixByPlace ==
  ASSUME NEW s \in Seq(Node), NEW t \in Seq(Node),
         Len(s) <= Len(t), \A k \in 1..Len(s) : t[k] = s[k]
  PROVE  Log!IsPrefix(s, t)
<1>1. SubSeq(s, 1, Len(s)) = SubSeq(t, 1, Len(s))
  OBVIOUS
<1> QED BY <1>1 DEF Log!IsPrefix

\* A commit appends to the history of every connection.
LEMMA CommitAppends ==
  ASSUME IInv, InsertedLast, RowsRead, RowsRead', NEW s \in Session, Commit(s), NEW c \in Conn
  PROVE  Log!IsPrefix(LogOf[c], LogOf'[c])
<1> DEFINE S == RowsOf(c)
           T == RowsOf(c)'
<1>1. /\ stage[s] = "open" /\ pend[s] = None
      /\ \A i \in RowId : table'[i] = IF writes[s][i] # None THEN writes[s][i] ELSE table[i]
      /\ \A i \in RowId : table[i] # None =>
           table'[i] # None /\ table'[i].conn = table[i].conn /\ table'[i].node = table[i].node
  BY CommitFacts
<1>2. /\ MaxRows \in Nat /\ S \in SUBSET (1..MaxRows) /\ Cardinality(S) \in Nat
      /\ LogOf[c] = [k \in 1..Cardinality(S) |-> table[Nth(k, S)].node]
      /\ LogOf[c] \in Seq(Node) /\ Len(LogOf[c]) = Cardinality(S)
  BY AssocAssumption DEF RowsRead
<1>3. /\ T \in SUBSET (1..MaxRows) /\ Cardinality(T) \in Nat
      /\ LogOf'[c] = [k \in 1..Cardinality(T) |-> table'[Nth(k, T)].node]
      /\ LogOf'[c] \in Seq(Node) /\ Len(LogOf'[c]) = Cardinality(T)
  <2>1. /\ T \in SUBSET (1..MaxRows) /\ Cardinality(T) \in Nat
        /\ LogOf[c]' = [k \in 1..Cardinality(T) |-> table'[Nth(k, RowsOf(c))'].node]
        /\ LogOf[c]' \in Seq(Node) /\ Len(LogOf[c]') = Cardinality(T)
    BY DEF RowsRead
  <2>2. \A k : Nth(k, RowsOf(c))' = Nth(k, T)
    BY DEF Nth, Place
  <2> QED BY <2>1, <2>2
<1>4. S \in SUBSET T
  BY <1>1 DEF RowsOf
<1>5. \A i \in S, j \in T \ S : i < j
  <2> SUFFICES ASSUME NEW i \in S, NEW j \in T \ S PROVE i < j
    OBVIOUS
  <2>1. /\ i \in RowId /\ j \in RowId /\ table[i] # None /\ table[i].conn = c
        /\ table'[j] # None /\ table'[j].conn = c
    BY DEF RowsOf
  <2>2. table[j] = None
    BY <1>1, <2>1 DEF RowsOf
  <2>3. writes[s][j] # None /\ writes[s][j].conn = c
    BY <1>1, <2>1, <2>2
  <2> QED BY <1>1, <2>1, <2>2, <2>3 DEF InsertedLast, HalfFlushed
<1>6. /\ Cardinality(S) <= Cardinality(T)
      /\ \A k \in 1..Cardinality(S) : k \in 1..Cardinality(T) /\ Nth(k, T) = Nth(k, S)
  BY <1>2, <1>3, <1>4, <1>5, EnumeratedFurther
<1>7. \A k \in 1..Cardinality(S) : Nth(k, S) \in RowId /\ table[Nth(k, S)] # None
  BY <1>2, Enumerated DEF RowsOf
<1>8. \A k \in 1..Cardinality(S) : LogOf'[c][k] = LogOf[c][k]
  BY <1>1, <1>2, <1>3, <1>6, <1>7
<1> HIDE DEF S, T
<1>9. Len(LogOf[c]) <= Len(LogOf'[c]) /\ \A k \in 1..Len(LogOf[c]) : LogOf'[c][k] = LogOf[c][k]
  BY <1>2, <1>3, <1>6, <1>8
<1> QED BY <1>2, <1>3, <1>9, PrefixByPlace

\* The histories of connections grow at a commit, and by nothing else.
LEMMA StepRecords ==
  ASSUME IInv, InsertedLast, RowsRead, RowsRead', NewestBelieved, NewestBelieved', [Next]_vars
  PROVE  [Log!Record]_(Log!logVars)
<1>1. CASE UNCHANGED table
  <2>1. UNCHANGED <<LogOf, BeliefOf>>
    BY <1>1 DEF LogOf, BeliefOf, RowsOf, Nth, Place, IsCurrent
  <2> QED BY <2>1 DEF Log!logVars
<1>2. ASSUME NEW s \in Session, Commit(s)
      PROVE  [Log!Record]_(Log!logVars)
  <2>1. \A c \in Conn : Log!IsPrefix(LogOf[c], LogOf'[c])
    BY <1>2, CommitAppends
  <2>2. LogOf' \in [Conn -> Seq(Node)]
    <3>1. \A c \in Conn : LogOf[c]' \in Seq(Node)
      BY DEF RowsRead
    <3> QED BY <3>1 DEF LogOf
  <2>3. BeliefOf' = [c \in Conn |-> IF LogOf'[c] = <<>> THEN None ELSE Log!Last(LogOf'[c])]
    BY DEF NewestBelieved, Log!Last
  <2>4. CASE LogOf' = LogOf
    <3>1. BeliefOf' = BeliefOf
      BY <2>3, <2>4 DEF NewestBelieved
    <3> QED BY <2>4, <3>1 DEF Log!logVars
  <2>5. CASE LogOf' # LogOf
    BY <2>1, <2>2, <2>3, <2>5 DEF Log!Record
  <2> QED BY <2>4, <2>5
<1>3. \/ UNCHANGED table
      \/ \E s \in Session : Commit(s)
  BY DEF Next, vars, Tick, Start, SelectCurrent, FlushUpdate, FlushInsert, FlushRefused, Rollback
<1> QED BY <1>1, <1>2, <1>3

\* Concurrent sessions with their locks, flushes and failures do to the
\* histories of connections what one append-only log does.
THEOREM LogImplemented == Spec => ImplementsLog
<1>1. Init => Log!LogInit
  <2> SUFFICES ASSUME Init PROVE Log!LogInit
    OBVIOUS
  <2>1. IInv
    BY InitIInv
  <2>2. \A c \in Conn : RowsOf(c) = {}
    BY DEF Init, NoRows, RowsOf
  <2>3. \A c \in Conn : LogOf[c] = <<>>
    <3> TAKE c \in Conn
    <3>1. Cardinality(RowsOf(c)) = 0
      BY <2>2, FS_EmptySet
    <3>2. LogOf[c] \in Seq(Node) /\ Len(LogOf[c]) = 0
      BY <2>1, <3>1, RowsTyped DEF RowsRead
    <3> QED BY <3>2
  <2>4. LogOf = [c \in Conn |-> <<>>]
    BY <2>3 DEF LogOf
  <2>5. BeliefOf = [c \in Conn |-> None]
    BY <2>1, <2>3, BeliefIsNewest DEF NewestBelieved
  <2> QED BY <2>4, <2>5 DEF Log!LogInit
<1>2. IInv => RowsRead /\ NewestBelieved
  BY RowsTyped, BeliefIsNewest
<1>3. /\ IInv /\ InsertedLast /\ RowsRead /\ NewestBelieved
      /\ (RowsRead /\ NewestBelieved)'
      /\ [Next]_vars
      => [Log!Record]_(Log!logVars)
  BY StepRecords
<1> QED BY <1>1, <1>2, <1>3, LastInvariance, PTL DEF Spec, ImplementsLog, Log!LogSpec
=============================================================================
