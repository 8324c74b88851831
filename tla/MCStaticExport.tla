---------------------------- MODULE MCStaticExport ----------------------------
(***************************************************************************)
(* StaticExport for TLC: two scenarios of one substation and one of        *)
(* another.                                                                *)
(***************************************************************************)
EXTENDS StaticExport, TLC

CONSTANTS g1, g2, g3, demo, reseeded, other, DemoStation, OtherStation

MCScenarioOf == (g1 :> demo) @@ (g2 :> reseeded) @@ (g3 :> other)
MCSubstationOf == (demo :> DemoStation) @@ (reseeded :> DemoStation) @@ (other :> OtherStation)

JustOne == g1 :> demo
=============================================================================
