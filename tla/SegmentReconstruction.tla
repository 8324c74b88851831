------------------------ MODULE SegmentReconstruction ------------------------
(***************************************************************************)
(* module_a: consumption reconstructed from prepaid purchases.  The        *)
(* vending events of a connection accumulate, and then                     *)
(* reconstruct_from_events and run_segment_reconstruction turn them into   *)
(* an estimate with the operators of module Segments.                      *)
(***************************************************************************)
EXTENDS Segments

CONSTANTS Horizon,     \* bound: intervals of the window reconstructed
          Width,       \* clock ticks per interval
          Tick,        \* bound: clock ticks at which purchases are made
          Amounts,     \* kWh of a purchase
          Weights      \* shape prior of an interval, shed or not

ASSUME EstimateAssumption ==
  /\ Horizon \in Nat /\ Width \in Nat \ {0}
  /\ Tick \subseteq 0..(Horizon * Width - 1)
  /\ Amounts \subseteq Nat \ {0} /\ Weights \subseteq Nat \ {0}

VARIABLES vending,   \* vending[t]: kWh sold at tick t of the window
          weight,    \* population_shape_prior over the window
          level,     \* theta by the first interval of a segment
          stage      \* "vending", then "reconstructed" or "refused"

estimateVars == <<vending, weight, level, stage>>

Bins == Binned(vending, Width, Horizon)

EstimateTypeOK ==
  /\ vending \in [Tick -> {0} \cup Amounts]
  /\ stage \in {"vending", "reconstructed", "refused"}
  /\ stage = "reconstructed" =>
       /\ weight \in [1..Horizon -> Weights]
       /\ DOMAIN level \in (SUBSET 1..Horizon) \ {{}}
       /\ \A s \in DOMAIN level : level[s] \in Rationals

EstimateInit ==
  /\ vending = [t \in Tick |-> 0]
  /\ weight = <<>> /\ level = <<>> /\ stage = "vending"

Vend(t, kwh) ==
  /\ stage = "vending" /\ vending[t] = 0
  /\ vending' = [vending EXCEPT ![t] = kwh]
  /\ UNCHANGED <<weight, level, stage>>

\* No purchase in the window: ValueError, and the callers skip the connection.
Refuse ==
  /\ stage = "vending" /\ Starts(Bins) = {}
  /\ stage' = "refused"
  /\ UNCHANGED <<vending, weight, level>>

Reconstruct ==
  /\ stage = "vending" /\ Starts(Bins) # {}
  /\ weight' \in [1..Horizon -> Weights]
  /\ \E theta \in {Theta(Bins, weight')} :
       \E middle \in Middles(theta) : level' = Winsorized(theta, middle)
  /\ stage' = "reconstructed"
  /\ UNCHANGED vending

EstimateNext ==
  \/ \E t \in Tick, kwh \in Amounts : Vend(t, kwh)
  \/ Refuse
  \/ Reconstruct

EstimateSpec == EstimateInit /\ [][EstimateNext]_estimateVars

(***************************************************************************)
(* Properties.                                                             *)
(***************************************************************************)

\* "Cumulative consumption never exceeds cumulative purchases at any point":
\* through no interval does the estimate exceed what had been sold by its end.
HardBound ==
  stage = "reconstructed" =>
    \A i \in 1..Horizon : AtMost(EstimatedThrough(level, weight, i), Whole(SoldThrough(vending, Width, i)))

\* With too few segments to clip, every kWh sold in the window is in the
\* estimate: nothing is lost at the window's edges or between segments.
EnergyKept ==
  stage = "reconstructed" /\ Cardinality(DOMAIN level) < WinsorizeMinSegments =>
    LET total == EstimatedThrough(level, weight, Horizon)
    IN  total.num = SoldThrough(vending, Width, Horizon) * total.den

\* Clipping removes outliers only: at least half of the segments still return
\* their whole purchase.
HalfKeepTheirPurchase ==
  stage = "reconstructed" =>
    LET kept == {s \in DOMAIN level : ReturnsPurchase(Bins, weight, level, s)}
    IN  2 * Cardinality(kept) >= Cardinality(DOMAIN level)
=============================================================================
