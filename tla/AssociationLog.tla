---------------------------- MODULE AssociationLog ----------------------------
(***************************************************************************)
(* What the versioned connection-to-node association promises, with no     *)
(* sessions, rows or clocks: for every connection the system keeps the     *)
(* whole sequence of nodes it has ever been believed to sit beneath, a     *)
(* committed transaction only ever appends to these sequences, and the     *)
(* current belief is the newest entry.  Association implements it.         *)
(***************************************************************************)
EXTENDS Naturals, Sequences, SequencesExt

CONSTANTS Conn,      \* connection ids
          Node,      \* network node ids
          None       \* "no association"

VARIABLES log,       \* log[c]: every node c was ever associated with, in order
          belief     \* belief[c]: the current association of c, or None

logVars == <<log, belief>>

LogInit == /\ log = [c \in Conn |-> <<>>]
           /\ belief = [c \in Conn |-> None]

\* One committed transaction: it appends corrections to the histories of some
\* connections and leaves every other history alone.
Record ==
  /\ log' # log
  /\ log' \in [Conn -> Seq(Node)]
  /\ \A c \in Conn : IsPrefix(log[c], log'[c])
  /\ belief' = [c \in Conn |-> IF log'[c] = <<>> THEN None ELSE Last(log'[c])]

LogSpec == LogInit /\ [][Record]_logVars
=============================================================================
