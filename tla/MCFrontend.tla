------------------------------ MODULE MCFrontend ------------------------------
(***************************************************************************)
(* Frontend for TLC.  The tree of the explorer: a root with two feeders, a *)
(* transformer under the first with c1, and c2 under the other feeder.  c1 *)
(* was tampered with in the simulation, c2 was not.                        *)
(***************************************************************************)
EXTENDS Frontend

CONSTANTS feederA, feederB, transformer, c1, c2

\* A patient user whose responses arrive in any order, with and without
\* errors, and an impatient one who has order and errors, or neither.
FourConditions == {[patient |-> TRUE,  ordered |-> FALSE, errors |-> TRUE],
                    [patient |-> TRUE,  ordered |-> FALSE, errors |-> FALSE],
                    [patient |-> FALSE, ordered |-> TRUE,  errors |-> TRUE],
                    [patient |-> FALSE, ordered |-> FALSE, errors |-> FALSE]}

MCNode == {Root, feederA, feederB, transformer}
MCParent == [n \in MCNode |-> IF n = transformer THEN feederA ELSE Root]
MCConnection == {c1, c2}
MCAt == [c \in MCConnection |-> IF c = c1 THEN transformer ELSE feederB]
MCAnomalous == {c1}
=============================================================================
