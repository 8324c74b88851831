-------------------------------- MODULE Segments --------------------------------
(***************************************************************************)
(* The arithmetic of module A.  A series of purchases, kWh by clock tick,  *)
(* is binned to the intervals 1..n of a window, and each purchase is       *)
(* spread over the segment of intervals up to the next one, in proportion  *)
(* to the shape prior w.  A segment's level theta, kWh per unit of the     *)
(* prior, is a rational [num, den].                                        *)
(*                                                                         *)
(* The median of an even number of segments is taken in log space, so it   *)
(* lies between the two middle levels; the model lets it be either.        *)
(***************************************************************************)
EXTENDS Integers, FiniteSets, FiniteSetsExt

(***************************************************************************)
(* Rationals, compared by cross-multiplication.                            *)
(***************************************************************************)
Rationals == [num : Nat, den : Nat \ {0}]

Below(a, b) == a.num * b.den < b.num * a.den
AtMost(a, b) == a.num * b.den <= b.num * a.den
Scaled(a, k) == [num |-> k * a.num, den |-> a.den]
Plus(a, b) == [num |-> a.num * b.den + b.num * a.den, den |-> a.den * b.den]
Whole(k) == [num |-> k, den |-> 1]

SumOfRationals(f, S) == FoldFunctionOnSet(Plus, Whole(0), f, S)

(***************************************************************************)
(* The segments and their levels.                                          *)
(***************************************************************************)

\* Mutant: the nearest grid point at or after the purchase.
IntervalBackfill(t, width) == Max({1, (t + width - 1) \div width})

\* get_indexer(method="ffill"): the last grid point at or before the purchase.
IntervalOf(t, width) == (t \div width) + 1

\* _bin_purchases_to_interval
Binned(sold, width, n) ==
  [i \in 1..n |-> SumFunctionOnSet(sold, {t \in DOMAIN sold : IntervalOf(t, width) = i})]

Starts(bins) == {i \in DOMAIN bins : bins[i] > 0}

\* A segment runs from one interval with a purchase to the next one.
Segment(starts, s, w) == {i \in DOMAIN w : i >= s /\ starts \cap (s + 1)..i = {}}

WeightOf(S, w) == SumFunctionOnSet(w, S)

Theta(bins, w) ==
  [s \in Starts(bins) |-> [num |-> bins[s], den |-> WeightOf(Segment(Starts(bins), s, w), w)]]

\* The middle levels: at most half of the others on either side.
Middles(theta) ==
  {s \in DOMAIN theta :
     /\ 2 * Cardinality({t \in DOMAIN theta : Below(theta[t], theta[s])}) <= Cardinality(DOMAIN theta)
     /\ 2 * Cardinality({t \in DOMAIN theta : Below(theta[s], theta[t])}) <= Cardinality(DOMAIN theta)}

WinsorizeMinSegments == 4

\* Mutants: levels are clipped to the lowest one; any number of segments is
\* clipped.
WinsorizedToLowest(theta, middle) ==
  IF Cardinality(DOMAIN theta) < WinsorizeMinSegments THEN theta
  ELSE LET low == CHOOSE s \in DOMAIN theta : \A t \in DOMAIN theta : AtMost(theta[s], theta[t])
       IN  [s \in DOMAIN theta |->
              IF Below(Scaled(theta[low], 2), theta[s]) THEN Scaled(theta[low], 2) ELSE theta[s]]

WinsorizedAlways(theta, middle) ==
  [s \in DOMAIN theta |->
     IF Below(Scaled(theta[middle], 2), theta[s]) THEN Scaled(theta[middle], 2) ELSE theta[s]]

\* Levels above twice the median are clipped to it, from above only.
Winsorized(theta, middle) ==
  IF Cardinality(DOMAIN theta) < WinsorizeMinSegments THEN theta
  ELSE [s \in DOMAIN theta |->
          IF Below(Scaled(theta[middle], 2), theta[s]) THEN Scaled(theta[middle], 2) ELSE theta[s]]

(***************************************************************************)
(* What the properties hold against each other.                            *)
(***************************************************************************)

\* mean_kw summed from the first purchase through interval i: every segment
\* up to i, as far as it lies before i.
EstimatedThrough(theta, w, i) ==
  SumOfRationals([s \in DOMAIN theta |->
                    Scaled(theta[s], WeightOf(Segment(DOMAIN theta, s, w) \cap 1..i, w))],
                 {s \in DOMAIN theta : s <= i})

\* The segment from s is estimated at what it was sold.
ReturnsPurchase(bins, w, theta, s) ==
  theta[s].num * WeightOf(Segment(DOMAIN theta, s, w), w) = bins[s] * theta[s].den

\* What had been sold when interval i ended.
SoldThrough(sold, width, i) == SumFunctionOnSet(sold, {t \in DOMAIN sold : t < i * width})
=============================================================================
