---------------------------- MODULE MCSubtreeReport ----------------------------
(***************************************************************************)
(* SubtreeReport, and with it NetworkHierarchy, for TLC: the four lower    *)
(* levels of NODE_TYPE_ORDER, and kW values no two sets of connections     *)
(* share the sum of.                                                       *)
(***************************************************************************)
EXTENDS SubtreeReport, TLC

CONSTANTS c1, c2

FourLevels == <<"primary_substation", "distribution_substation", "transformer", "lv_feeder">>

TwoConns == {c1, c2}
KwTwo == (c1 :> 1) @@ (c2 :> 2)
=============================================================================
