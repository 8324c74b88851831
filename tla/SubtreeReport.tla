----------------------------- MODULE SubtreeReport -----------------------------
(***************************************************************************)
(* A report over a subtree (the case queue, the map, the summary, the      *)
(* asset-health ranking) while the hierarchy changes.  The request lists   *)
(* the transformers of the subtree once, then queries the connections of   *)
(* one transformer after another, and reads the current association of     *)
(* each connection again to find its shedding windows.  Every one of these *)
(* is a SELECT of its own at READ COMMITTED, so corrections committed in   *)
(* between are seen by some and not by others.                             *)
(*                                                                         *)
(* Conn are the connections with purchases in the window; the others are   *)
(* skipped (ValueError) and appear in no report.                           *)
(***************************************************************************)
EXTENDS NetworkHierarchy

CONSTANT MaxMoves   \* bound: corrections of one connection during the report

ASSUME ReportAssumption == MaxMoves \in Nat

VARIABLES stage,    \* the request: not begun, reading, answered
          scope,    \* the transformers the request listed
          todo,     \* those it has not reached yet
          doing,    \* connections of the one at hand left to reconstruct
          counted,  \* counted[c]: entries of c in the answer so far
          windows,  \* windows[c]: the node whose shedding windows c was last given
          moved     \* history: corrections of c committed since the report began

reportVars == <<nodes, assoc, stage, scope, todo, doing, counted, windows, moved>>

ReportTypeOK ==
  /\ TypeOK
  /\ stage \in {"idle", "reading", "done"}
  /\ scope \in SUBSET NodeId /\ todo \in SUBSET scope
  /\ doing \in SUBSET Conn
  /\ counted \in [Conn -> Nat]
  /\ windows \in [Conn -> 0..MaxNodes]
  /\ moved \in [Conn -> 0..MaxMoves]

ReportInit == /\ Init
              /\ stage = "idle"
              /\ scope = {} /\ todo = {} /\ doing = {}
              /\ counted = [c \in Conn |-> 0]
              /\ windows = [c \in Conn |-> NoNode]
              /\ moved = [c \in Conn |-> 0]

\* Mutant: only the transformers one level below the root are visited.
BeginChildren(root) ==
  /\ stage = "idle"
  /\ root \in DOMAIN nodes
  /\ stage' = "reading"
  /\ scope' = TransformersUnder(root)
  /\ todo' = scope' \cap Children(root)
  /\ UNCHANGED <<nodes, assoc, doing, counted, windows, moved>>

\* _transformer_ids_under(root), or the loop of rank_transformers.
Begin(root) ==
  /\ stage = "idle"
  /\ root \in DOMAIN nodes
  /\ stage' = "reading"
  /\ scope' = TransformersUnder(root)
  /\ todo' = scope'
  /\ UNCHANGED <<nodes, assoc, doing, counted, windows, moved>>

\* Mutant: t is not taken off the list.
ResolveTransformerAgain(t) ==
  /\ stage = "reading" /\ doing = {}
  /\ t \in todo
  /\ doing' = ConnectionsOf(t)
  /\ UNCHANGED <<nodes, assoc, stage, scope, todo, counted, windows, moved>>

\* The per-transformer computation starts: resolve_connections.
ResolveTransformer(t) ==
  /\ stage = "reading" /\ doing = {}
  /\ t \in todo
  /\ todo' = todo \ {t}
  /\ doing' = ConnectionsOf(t)
  /\ UNCHANGED <<nodes, assoc, stage, scope, counted, windows, moved>>

\* reconstruct_for_connection: c's association is read afresh.
Reconstruct(c) ==
  /\ c \in doing
  /\ doing' = doing \ {c}
  /\ counted' = [counted EXCEPT ![c] = @ + 1]
  /\ windows' = [windows EXCEPT ![c] = assoc[c].node]
  /\ UNCHANGED <<nodes, assoc, stage, scope, todo, moved>>

Answer == /\ stage = "reading" /\ todo = {} /\ doing = {}
          /\ stage' = "done"
          /\ UNCHANGED <<nodes, assoc, scope, todo, doing, counted, windows, moved>>

\* Other sessions commit.
Grow(type, parent) ==
  /\ AddNode(type, parent)
  /\ UNCHANGED <<stage, scope, todo, doing, counted, windows, moved>>

Correct(c, n, confidence) ==
  /\ stage # "done" /\ moved[c] < MaxMoves
  /\ SetAssociation(c, n, confidence)
  /\ moved' = IF stage = "idle" THEN moved ELSE [moved EXCEPT ![c] = @ + 1]
  /\ UNCHANGED <<stage, scope, todo, doing, counted, windows>>

ReportNext ==
  \/ \E n \in NodeId : Begin(n) \/ ResolveTransformer(n)
  \/ \E c \in Conn : Reconstruct(c)
  \/ Answer
  \/ \E type \in NodeType, parent \in 0..MaxNodes : Grow(type, parent)
  \/ \E c \in Conn, n \in NodeId, confidence \in Confidence : Correct(c, n, confidence)

ReportSpec == ReportInit /\ [][ReportNext]_reportVars

(***************************************************************************)
(* Properties.                                                             *)
(***************************************************************************)

\* A connection nobody corrected while the report ran is in it exactly once
\* when it hangs from a transformer the report covers, with that very
\* transformer's shedding windows, and not at all otherwise: neither the
\* growth of the tree nor the corrections of other connections disturb it.
UnmovedReportedOnce ==
  stage = "done" =>
    \A c \in Conn :
      moved[c] = 0 =>
        /\ counted[c] = IF assoc[c].node \in scope THEN 1 ELSE 0
        /\ counted[c] = 1 => windows[c] = assoc[c].node

\* What concurrent corrections can cost is bounded: a connection appears once
\* more than it was corrected at worst, never in every transformer it passed.
RepeatsBoundedByMoves == \A c \in Conn : counted[c] <= moved[c] + 1

(***************************************************************************)
(* The inductive strengthening.  What the answer will hold of c if nobody  *)
(* moves it again: its entries, the one being made, the one to come.       *)
(***************************************************************************)

Expected(c) == counted[c] + (IF c \in doing THEN 1 ELSE 0)
                          + (IF assoc[c].node \in todo THEN 1 ELSE 0)

WithinBudget == \A c \in Conn : Expected(c) <= moved[c] + 1

UnmovedSettled ==
  stage # "idle" =>
    \A c \in Conn : moved[c] = 0 =>
      /\ Expected(c) = IF assoc[c].node \in scope THEN 1 ELSE 0
      /\ counted[c] = 1 => windows[c] = assoc[c].node

StagesAgree ==
  /\ stage # "reading" => todo = {} /\ doing = {}
  /\ stage = "idle" => \A c \in Conn : counted[c] = 0 /\ moved[c] = 0

ReportInv == ReportTypeOK /\ StagesAgree /\ WithinBudget /\ UnmovedSettled
=============================================================================
