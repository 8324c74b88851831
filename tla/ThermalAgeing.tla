----------------------------- MODULE ThermalAgeing -----------------------------
(***************************************************************************)
(* module_c: hot spot and insulation ageing of a transformer, interval by  *)
(* interval.  Two computations of the same transformer and the same        *)
(* weather run side by side: on the loading that was reconstructed, and on *)
(* a load at least as high in every interval.  Temperatures are in tenths  *)
(* of a degree; the exponents of IEC 60076-7 are in the tables SteadyRise  *)
(* and Gradient, of which only the order matters here.                     *)
(***************************************************************************)
EXTENDS Integers

CONSTANTS LoadFactor,   \* bound: load factors k, in percent
          SteadyRise,   \* steady_top_oil_rise at k
          Gradient,     \* hot_spot_gradient at k
          Ambient,      \* bound: ambient temperatures
          OilLag,       \* 1 / alpha
          Observed      \* bound: intervals of the window

ASSUME ThermalAssumption ==
  /\ LoadFactor \subseteq Nat /\ Ambient \subseteq Int
  /\ OilLag \in Nat \ {0} /\ Observed \in Nat
  /\ SteadyRise \in [LoadFactor -> Nat] /\ Gradient \in [LoadFactor -> Nat]
  /\ \A j, k \in LoadFactor :
       j <= k => SteadyRise[j] <= SteadyRise[k] /\ Gradient[j] <= Gradient[k]

VARIABLES seen,        \* intervals so far
          estimated,   \* [rise, peak, aged] on the reconstructed loading
          actual       \* the same on the load there was

thermalVars == <<seen, estimated, actual>>

(***************************************************************************)
(* compute_thermal_ageing.                                                 *)
(***************************************************************************)

\* Mutant: the lag is applied with the wrong sign.
TopOilRiseAway(previous, k) == previous - (SteadyRise[k] - previous) \div OilLag

\* The oil goes 1/OilLag of the way to its steady rise.
TopOilRise(previous, k) == previous + (SteadyRise[k] - previous) \div OilLag

\* 2^n.
Doubled[n \in Nat] == IF n = 0 THEN 1 ELSE 2 * Doubled[n - 1]

\* 2^((hot - 98) / 6) in whole doublings; DesignRate, 2^12, stands for V = 1,
\* and the slowest ageing told apart is a 4096th of it.
DesignRate == 4096
Doublings(hot) == 12 + (hot - 980) \div 60
AgeingRate(hot) == IF Doublings(hot) < 0 THEN 1 ELSE Doubled[Doublings(hot)]

\* The tank starts in the steady state of its first interval.
Advanced(t, k, ambient) ==
  LET rise == TopOilRise(IF seen = 0 THEN SteadyRise[k] ELSE t.rise, k)
      hot == ambient + rise + Gradient[k]
  IN  [rise |-> rise,
       peak |-> IF seen = 0 \/ hot > t.peak THEN hot ELSE t.peak,
       aged |-> t.aged + AgeingRate(hot)]

\* assess_transformer needs two intervals.
Assessable == seen >= 2

\* mean_ageing_rate > rate; thermally_limited is at least half the design rate,
\* and projected_life_years is withheld below it.
MeanAbove(t, rate) == t.aged > rate * seen * DesignRate
ThermallyLimited(t) == 2 * t.aged >= seen * DesignRate

\* "normal" to "critical".
RiskBand(t) ==
  IF t.peak > 1400 \/ MeanAbove(t, 4) THEN 3
  ELSE IF t.peak > 1200 \/ MeanAbove(t, 2) THEN 2
  ELSE IF t.peak > 1100 \/ MeanAbove(t, 1) THEN 1
  ELSE 0

ThermalInit ==
  LET cold == [rise |-> 0, peak |-> 0, aged |-> 0]
  IN  seen = 0 /\ estimated = cold /\ actual = cold

\* One interval, in which module A saw at most the load there was.
LoadInterval(low, high, ambient) ==
  /\ seen < Observed
  /\ low <= high
  /\ estimated' = Advanced(estimated, low, ambient)
  /\ actual' = Advanced(actual, high, ambient)
  /\ seen' = seen + 1

ThermalNext ==
  \E low, high \in LoadFactor, ambient \in Ambient : LoadInterval(low, high, ambient)

(***************************************************************************)
(* Properties.                                                             *)
(***************************************************************************)

\* "A transformer whose load is underestimated will have its ageing
\* underestimated too", and never overestimated: through the lag of the oil,
\* the peak and the mean, what the asset view says of a transformer (band,
\* rank, life) is no worse than the truth, in whatever order loads come.
UnderestimatedNeverHotter ==
  Assessable =>
    /\ estimated.rise <= actual.rise /\ estimated.peak <= actual.peak
    /\ estimated.aged <= actual.aged
    /\ RiskBand(estimated) <= RiskBand(actual)
    /\ ThermallyLimited(estimated) => ThermallyLimited(actual)
=============================================================================
