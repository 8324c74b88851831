--------------------------- MODULE MCAssociation ---------------------------
(***************************************************************************)
(* Association for TLC: c1 is moved between the two nodes, and c2, which   *)
(* the sessions need to wait for each other crosswise, is only ever put    *)
(* back on the first.                                                      *)
(***************************************************************************)
EXTENDS Association

CONSTANTS c1, c2, n1, n2

TwoConns == {c1, c2}
TwoNodes == {n1, n2}
OneMoves == {<<c1, n1>>, <<c1, n2>>, <<c2, n1>>}
=============================================================================
