---------------------------- MODULE MCEnergyBalance ----------------------------
(***************************************************************************)
(* EnergyBalance for TLC: two transformers, two like households at the     *)
(* first and an industrial customer at the second; the first is shed or    *)
(* has just been restored; a bypass beside a vacancy, one kind alone, or none.        *)
(***************************************************************************)
EXTENDS EnergyBalance, TLC

CONSTANTS t1, t2, home1, home2, plant

MCFedBy == (home1 :> t1) @@ (home2 :> t1) @@ (plant :> t2)
MCBaseKw == (home1 :> 200) @@ (home2 :> 200) @@ (plant :> 2800)

MCSupplies == {(t1 :> first) @@ (t2 :> "on") : first \in {"off", "restored"}}

\* Enough for a household, and for the plant only when it is vacant.
MCBalances == {[c \in Connection |-> 1000]}

MCRates == {{"partial_bypass", "vacancy"}, {"full_bypass"}, {"meter_failure"}, {"solar_adoption"}, {}}

\* The households differ in nothing the modules look at.
Alike == Permutations({home1, home2})
=============================================================================
