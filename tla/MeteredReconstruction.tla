------------------------ MODULE MeteredReconstruction ------------------------
(***************************************************************************)
(* From the meter to the estimate: a connection is simulated to the end of *)
(* the scenario (gridsynth), its recorded purchases are all that is kept,  *)
(* and its consumption is reconstructed from them (module_a).  What the    *)
(* meter really supplied is known here, so the estimate can be held        *)
(* against it.                                                             *)
(***************************************************************************)
EXTENDS PrepaidMeter, Segments

CONSTANT Weights     \* shape prior of an interval, shed or not

ASSUME PriorAssumption == Weights \subseteq Nat \ {0}

VARIABLES weight, level, stage

meteredVars == <<meterVars, weight, level, stage>>

\* An event is stamped with the start of its interval.
VendingEvents == [t \in 0..(Horizon - 1) |-> events[t + 1]]

R == INSTANCE SegmentReconstruction WITH
       Width <- 1, Tick <- 0..(Horizon - 1),
       Amounts <- {AmountPaid(kwh, snap) : kwh \in Sizes, snap \in BOOLEAN},
       vending <- VendingEvents

MeteredInit ==
  /\ MeterInit
  /\ weight = <<>> /\ level = <<>> /\ stage = "vending"

Simulate == MeterNext /\ UNCHANGED <<weight, level, stage>>

\* Mutant: the evaluation reads the events while the scenario is generated.
ReconstructEarly ==
  /\ phase = "buy"
  /\ UNCHANGED meterVars
  /\ R!Refuse \/ R!Reconstruct

\* generate_scenario has committed its events before anyone reads them.
ReconstructScenario ==
  /\ now > Horizon
  /\ UNCHANGED meterVars
  /\ R!Refuse \/ R!Reconstruct

MeteredNext == Simulate \/ ReconstructScenario

MeteredSpec == MeteredInit /\ [][MeteredNext]_meteredVars

(***************************************************************************)
(* Properties.                                                             *)
(***************************************************************************)

\* The meter's events are input the reconstruction is specified for: one
\* purchase per interval, none outside the window, none after it was read.
FeedsReconstruction == R!EstimateSpec

\* How far the estimate can be from the truth.  It is never above what was
\* supplied by more than the unspent balance and the rounding; while no level
\* is clipped, it is not below it by more than the starting stock and the
\* rounding; and a connection that is skipped used up its stock at most.
ErrorBounded ==
  LET total == EstimatedThrough(level, weight, Horizon)
  IN  /\ stage = "reconstructed" =>
           /\ 2 * (total.num + stock * total.den)
                <= (2 * (supplied + balance) + Rounding) * total.den
           /\ Cardinality(DOMAIN level) < WinsorizeMinSegments =>
                2 * (supplied + balance) * total.den
                  <= 2 * total.num + (2 * stock + Rounding) * total.den
      /\ stage = "refused" => supplied <= stock
=============================================================================
