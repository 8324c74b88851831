----------------------------- MODULE Energy_proofs -----------------------------
(***************************************************************************)
(* Theorems about energy, at the meter and at the transformer.             *)
(*                                                                         *)
(* Part 1, MeteredReconstruction, for any demands, sizes and denominations.*)
(* The balance is never negative, energy is conserved, and a purchase      *)
(* moves the record away from the credit by WorstSnap at most, by half a   *)
(* cent if it is not rounded to a denomination.  The composition           *)
(* implements the specification of the reconstruction: a purchase is a     *)
(* vending event, all else the meter does is a stutter, and no event       *)
(* changes once it was read.                                               *)
(*                                                                         *)
(* Part 2, EnergyBalance, for any feeder, draws and rates and any number   *)
(* of transformers.  The labels of a scenario are true: no connection has  *)
(* two, since the targets of a kind are taken from those without one, so a *)
(* later kind cannot undo what an earlier label says (FeederInv).  What    *)
(* was accounted so far and what the transformers not yet asked would be   *)
(* accounted with is the credit of every connection, up to the credit of   *)
(* corrected ones, once per correction (Balanced); and until there is a    *)
(* correction, the answers are those the records give (Undisturbed).       *)
(***************************************************************************)
EXTENDS MeteredReconstruction, EnergyBalance, OperatorTheorems

(***************************************************************************)
(* Part 1: the meter and module A.                                         *)
(***************************************************************************)

\* Purchases credited and purchases recorded differ by the rounding only.
RecordsCloseToCredits ==
  /\ 2 * credited <= 2 * recorded + Rounding
  /\ 2 * recorded <= 2 * credited + Rounding
  /\ recorded = 0 => credited = 0

MeterInv == MeterTypeOK /\ Conservation /\ RecordsCloseToCredits

\* Rounding to a cent changes an amount by half a cent at most, and leaves at
\* least a cent.
LEMMA CentsCloseToSize ==
  ASSUME NEW kwh \in Sizes
  PROVE  /\ ToCents(kwh) \in Nat \ {0}
         /\ 2 * kwh <= 2 * ToCents(kwh) + Cent
         /\ 2 * ToCents(kwh) <= 2 * kwh + Cent
<1>1. kwh \in Nat /\ Cent \in Nat \ {0} /\ kwh >= Cent
  BY MeterAssumption
<1>. DEFINE cents == kwh \div Cent
            rest  == kwh % Cent
            whole == cents * Cent
<1>2. cents \in Nat /\ rest \in 0..(Cent - 1) /\ kwh = Cent * cents + rest
  BY <1>1
<1>3. cents >= 1
  <2>1. cents = 0 => kwh = rest
    BY <1>1, <1>2
  <2>. QED BY <1>1, <1>2, <2>1
<1>4. whole \in Nat /\ kwh = whole + rest /\ (cents + 1) * Cent = whole + Cent
  BY <1>1, <1>2
<1>5. whole >= Cent
  <2>1. cents * Cent = (cents - 1) * Cent + Cent /\ (cents - 1) * Cent >= 0
    <3>1. cents - 1 \in Nat
      BY <1>2, <1>3
    <3>. QED BY <1>1, <1>2, <3>1
  <2>. QED BY <1>1, <1>4, <2>1
<1>6. \/ ToCents(kwh) = whole + Cent /\ 2 * rest >= Cent
      \/ ToCents(kwh) = whole /\ 2 * rest <= Cent
  <2>. DEFINE up == 2 * rest > Cent \/ (2 * rest = Cent /\ cents % 2 = 1)
  <2>1. ToCents(kwh) = (IF up THEN cents + 1 ELSE cents) * Cent
    BY DEF ToCents
  <2>2. CASE up
    BY <1>1, <1>2, <1>4, <2>1, <2>2
  <2>3. CASE ~up
    BY <1>1, <1>2, <1>4, <2>1, <2>3
  <2>. QED BY <2>2, <2>3
<1>. HIDE DEF cents, rest, whole
<1>. QED BY <1>1, <1>2, <1>4, <1>5, <1>6

\* What a purchase records is a denomination, at most WorstSnap away, or a
\* whole number of cents, at most half a cent away.
LEMMA PaidCloseToSize ==
  ASSUME NEW kwh \in Sizes, NEW snap \in BOOLEAN
  PROVE  /\ AmountPaid(kwh, snap) \in Nat \ {0}
         /\ snap => kwh <= AmountPaid(kwh, snap) + WorstSnap
         /\ snap => AmountPaid(kwh, snap) <= kwh + WorstSnap
         /\ ~snap => 2 * kwh <= 2 * AmountPaid(kwh, snap) + Cent
         /\ ~snap => 2 * AmountPaid(kwh, snap) <= 2 * kwh + Cent
<1>1. kwh \in Nat \ {0} /\ WorstSnap \in Nat
  BY MeterAssumption
<1>2. Nearest(kwh) \in Denominations
  <2>1. \E d \in Denominations : IsNearest(d, kwh)
    BY MeterAssumption
  <2>. QED BY <2>1 DEF Nearest
<1>3. Nearest(kwh) \in Nat \ {0}
  BY <1>2, MeterAssumption
<1>4. Distance(Nearest(kwh), kwh) <= WorstSnap
  BY MeterAssumption
<1>5. kwh <= Nearest(kwh) + WorstSnap /\ Nearest(kwh) <= kwh + WorstSnap
  BY <1>1, <1>3, <1>4 DEF Distance
<1>6. CASE snap
  BY <1>3, <1>5, <1>6 DEF AmountPaid
<1>7. CASE ~snap
  BY <1>7, CentsCloseToSize DEF AmountPaid
<1>. QED BY <1>6, <1>7

\* One more purchase allows one more rounding error.
LEMMA OneMoreRounding ==
  ASSUME MeterTypeOK
  PROVE  /\ Rounding \in Nat
         /\ snaps' = snaps + 1 /\ rounds' = rounds => Rounding' = Rounding + 2 * WorstSnap
         /\ snaps' = snaps /\ rounds' = rounds + 1 => Rounding' = Rounding + Cent
<1>1. snaps \in Nat /\ rounds \in Nat /\ WorstSnap \in Nat /\ Cent \in Nat
  BY MeterAssumption DEF MeterTypeOK
<1>2. \A n, w \in Nat : n * w \in Nat /\ (n + 1) * w = n * w + w
  OBVIOUS
<1>. DEFINE a == snaps * WorstSnap
            b == rounds * Cent
<1>3. a \in Nat /\ b \in Nat
  BY <1>1, <1>2
<1>4. (2 * snaps) * WorstSnap = 2 * a /\ (2 * (snaps + 1)) * WorstSnap = 2 * a + 2 * WorstSnap
  BY <1>1
<1>5. (rounds + 1) * Cent = b + Cent
  BY <1>1, <1>2
<1>6. Rounding = 2 * a + b
  BY <1>4 DEF Rounding
<1>7. Rounding' = (2 * snaps') * WorstSnap + rounds' * Cent
  BY DEF Rounding
<1>. HIDE DEF a, b
<1>8. ASSUME snaps' = snaps + 1, rounds' = rounds
      PROVE  Rounding' = Rounding + 2 * WorstSnap
  BY <1>1, <1>3, <1>4, <1>6, <1>7, <1>8 DEF b
<1>9. ASSUME snaps' = snaps, rounds' = rounds + 1
      PROVE  Rounding' = Rounding + Cent
  BY <1>1, <1>3, <1>4, <1>5, <1>6, <1>7, <1>9
<1>. QED BY <1>1, <1>3, <1>6, <1>8, <1>9

LEMMA MeterInitially == MeterInit => MeterInv
<1>. SUFFICES ASSUME MeterInit PROVE MeterInv
  OBVIOUS
<1>1. MeterTypeOK
  BY MeterAssumption DEF MeterInit, MeterTypeOK, Interval
<1>2. Conservation /\ RecordsCloseToCredits
  BY MeterAssumption DEF MeterInit, Conservation, RecordsCloseToCredits, Rounding
<1>. QED BY <1>1, <1>2 DEF MeterInv

\* Supplying moves energy from the balance to the consumption.
LEMMA SupplyPreserves ==
  ASSUME MeterInv, NEW wanted \in Demands, Supply(wanted)
  PROVE  MeterInv'
<1>. wanted \in Nat
  BY MeterAssumption
<1>. USE DEF MeterInv
<1>1. MeterTypeOK'
  BY MeterAssumption DEF MeterTypeOK, Supply, Smaller
<1>2. Conservation'
  BY DEF MeterTypeOK, Supply, Smaller, Conservation
<1>3. RecordsCloseToCredits'
  BY DEF Supply, RecordsCloseToCredits, Rounding
<1>. QED BY <1>1, <1>2, <1>3

\* A purchase credits kwh and records what was paid, at most WorstSnap less.
LEMMA BuyPreserves ==
  ASSUME MeterInv, NEW kwh \in Sizes, NEW snap \in BOOLEAN, Buy(kwh, snap)
  PROVE  MeterInv'
<1>. DEFINE paid == AmountPaid(kwh, snap)
<1>0. /\ kwh \in Nat /\ WorstSnap \in Nat /\ Cent \in Nat /\ Horizon \in Nat
      /\ paid \in Nat /\ paid > 0
      /\ snap => kwh <= paid + WorstSnap /\ paid <= kwh + WorstSnap
      /\ ~snap => 2 * kwh <= 2 * paid + Cent /\ 2 * paid <= 2 * kwh + Cent
  BY MeterAssumption, PaidCloseToSize
<1>. HIDE DEF paid
<1>1. /\ events' = [events EXCEPT ![now] = paid]
      /\ recorded' = recorded + paid
      /\ credited' = credited + kwh /\ balance' = balance + kwh
      /\ snaps' = IF snap THEN snaps + 1 ELSE snaps
      /\ rounds' = IF snap THEN rounds ELSE rounds + 1
      /\ now' = now + 1 /\ phase = "buy" /\ phase' = "supply"
      /\ UNCHANGED <<stock, supplied>>
  BY DEF Buy, paid
<1>2. MeterTypeOK'
  BY <1>0, <1>1 DEF MeterInv, MeterTypeOK, Interval
<1>3. Conservation'
  BY <1>0, <1>1 DEF MeterInv, MeterTypeOK, Conservation
<1>4. RecordsCloseToCredits'
  <2>1. Rounding \in Nat /\ credited \in Nat /\ recorded \in Nat
    BY OneMoreRounding DEF MeterInv, MeterTypeOK
  <2>2. 2 * credited <= 2 * recorded + Rounding /\ 2 * recorded <= 2 * credited + Rounding
    BY DEF MeterInv, RecordsCloseToCredits
  <2>3. recorded + paid # 0
    BY <1>0, <2>1
  <2>4. CASE snap
    <3>1. Rounding' = Rounding + 2 * WorstSnap
      BY <2>4, <1>1, OneMoreRounding DEF MeterInv
    <3>. QED BY <1>0, <1>1, <2>1, <2>2, <2>3, <2>4, <3>1 DEF RecordsCloseToCredits
  <2>5. CASE ~snap
    <3>1. Rounding' = Rounding + Cent
      BY <2>5, <1>1, OneMoreRounding DEF MeterInv
    <3>. QED BY <1>0, <1>1, <2>1, <2>2, <2>3, <2>5, <3>1 DEF RecordsCloseToCredits
  <2>. QED BY <2>4, <2>5
<1>. QED BY <1>2, <1>3, <1>4 DEF MeterInv

LEMMA PassPreserves ==
  ASSUME MeterInv, Pass
  PROVE  MeterInv'
<1>1. MeterTypeOK'
  BY MeterAssumption DEF MeterInv, MeterTypeOK, Pass
<1>2. Conservation' /\ RecordsCloseToCredits'
  BY DEF MeterInv, Pass, Conservation, RecordsCloseToCredits, Rounding
<1>. QED BY <1>1, <1>2 DEF MeterInv

\* Every state of the meter conserves energy and keeps its records close.
THEOREM MeterInvariance == MeterSpec => []MeterInv
<1>1. MeterInv /\ [MeterNext]_meterVars => MeterInv'
  <2>. SUFFICES ASSUME MeterInv, [MeterNext]_meterVars PROVE MeterInv'
    OBVIOUS
  <2>1. CASE UNCHANGED meterVars
    BY <2>1 DEF meterVars, MeterInv, MeterTypeOK, Conservation, RecordsCloseToCredits, Rounding
  <2>2. CASE MeterNext
    BY <2>2, SupplyPreserves, BuyPreserves, PassPreserves DEF MeterNext
  <2>. QED BY <2>1, <2>2
<1>. QED BY MeterInitially, <1>1, PTL DEF MeterSpec

\* Energy is neither invented nor lost, for any demand and any purchases.
THEOREM EnergyConserved == MeterSpec => []Conservation
<1>1. MeterInv => Conservation
  BY DEF MeterInv
<1>. QED BY MeterInvariance, <1>1, PTL

\* What is consumed is covered by the starting stock, the recorded purchases,
\* one WorstSnap per purchase rounded to a denomination and half a cent per
\* purchase rounded to a cent.
THEOREM BoundAlwaysHolds == MeterSpec => []BoundWithRounding
<1>1. MeterInv => BoundWithRounding
  <2>. SUFFICES ASSUME MeterInv PROVE BoundWithRounding
    OBVIOUS
  <2>1. Rounding \in Nat
    BY OneMoreRounding DEF MeterInv
  <2>2. 2 * credited <= 2 * recorded + Rounding
    BY DEF MeterInv, RecordsCloseToCredits
  <2>3. stock + credited = supplied + balance
    BY DEF MeterInv, Conservation
  <2>. QED BY <2>1, <2>2, <2>3 DEF MeterInv, MeterTypeOK, BoundWithRounding
<1>. QED BY MeterInvariance, <1>1, PTL
-----------------------------------------------------------------------------
\* The intervals still to come have no event yet, and the reconstruction has
\* run only if the meter is through.
MeteredInv ==
  /\ MeterInv
  /\ \A i \in Interval : i >= now => events[i] = 0
  /\ stage # "vending" => now > Horizon

LEMMA MeterStepKeepsInv ==
  ASSUME MeterInv, [MeterNext]_meterVars
  PROVE  MeterInv'
<1>1. CASE UNCHANGED meterVars
  BY <1>1 DEF meterVars, MeterInv, MeterTypeOK, Conservation, RecordsCloseToCredits, Rounding
<1>2. CASE MeterNext
  BY <1>2, SupplyPreserves, BuyPreserves, PassPreserves DEF MeterNext
<1>. QED BY <1>1, <1>2

\* A meter that is through does nothing any more.
LEMMA MeterThrough ==
  ASSUME MeterInv, MeterNext
  PROVE  now <= Horizon
BY DEF MeterNext, Supply, Buy, Pass, MeterInv, MeterTypeOK

LEMMA MeteredInitially == MeteredInit => MeteredInv
<1>. SUFFICES ASSUME MeteredInit PROVE MeteredInv
  OBVIOUS
<1>1. MeterInv
  BY MeterInitially DEF MeteredInit
<1>2. \A i \in Interval : events[i] = 0
  BY DEF MeteredInit, MeterInit
<1>. QED BY <1>1, <1>2 DEF MeteredInv, MeteredInit

LEMMA MeteredStep ==
  ASSUME MeteredInv, [MeteredNext]_meteredVars
  PROVE  MeteredInv'
<1>0. MeterInv /\ Horizon \in Nat
  BY MeterAssumption DEF MeteredInv
<1>1. CASE UNCHANGED meteredVars
  <2>1. UNCHANGED meterVars /\ UNCHANGED stage
    BY <1>1 DEF meteredVars
  <2>2. MeterInv'
    BY <2>1, <1>0, MeterStepKeepsInv
  <2>3. UNCHANGED <<events, now>>
    BY <2>1 DEF meterVars
  <2>. QED BY <2>1, <2>2, <2>3 DEF MeteredInv
<1>2. CASE ReconstructScenario
  <2>1. UNCHANGED meterVars /\ now > Horizon
    BY <1>2 DEF ReconstructScenario
  <2>2. MeterInv'
    BY <2>1, <1>0, MeterStepKeepsInv
  <2>3. UNCHANGED <<events, now>>
    BY <2>1 DEF meterVars
  <2>. QED BY <2>1, <2>2, <2>3 DEF MeteredInv
<1>3. CASE Simulate
  <2>1. MeterNext /\ UNCHANGED stage
    BY <1>3 DEF Simulate
  <2>2. MeterInv' /\ now <= Horizon
    BY <2>1, <1>0, MeterStepKeepsInv, MeterThrough
  <2>3. stage = "vending" /\ stage' = "vending"
    BY <2>1, <2>2, <1>0 DEF MeteredInv, MeterInv, MeterTypeOK
  <2>4. \A i \in Interval : i >= now' => events'[i] = 0
    <3>1. ASSUME NEW wanted \in Demands, Supply(wanted)
          PROVE  \A i \in Interval : i >= now' => events'[i] = 0
      BY <3>1 DEF Supply, MeteredInv
    <3>2. ASSUME NEW kwh \in Sizes, NEW snap \in BOOLEAN, Buy(kwh, snap)
          PROVE  \A i \in Interval : i >= now' => events'[i] = 0
      <4>. TAKE i \in Interval
      <4>. HAVE i >= now'
      <4>1. now' = now + 1 /\ now \in Nat /\ i \in Nat
        BY <3>2, <1>0 DEF Buy, MeterInv, MeterTypeOK, Interval
      <4>2. i >= now /\ i # now
        BY <4>1
      <4>3. events' = [events EXCEPT ![now] = AmountPaid(kwh, snap)]
        BY <3>2 DEF Buy
      <4>4. events'[i] = events[i]
        BY <4>2, <4>3, <1>0 DEF MeterInv, MeterTypeOK
      <4>. QED BY <4>2, <4>4 DEF MeteredInv
    <3>3. ASSUME Pass
          PROVE  \A i \in Interval : i >= now' => events'[i] = 0
      BY <3>3, <1>0 DEF Pass, MeteredInv, MeterInv, MeterTypeOK, Interval
    <3>. QED BY <2>1, <3>1, <3>2, <3>3 DEF MeterNext
  <2>. QED BY <2>2, <2>3, <2>4 DEF MeteredInv
<1>. QED BY <1>1, <1>2, <1>3 DEF MeteredNext

\* A purchase in interval now is a vending event at tick now - 1.
LEMMA BuyIsVend ==
  ASSUME MeteredInv, stage = "vending", UNCHANGED <<weight, level, stage>>,
         NEW kwh \in Sizes, NEW snap \in BOOLEAN, Buy(kwh, snap)
  PROVE  R!EstimateNext
<1>. DEFINE paid == AmountPaid(kwh, snap)
<1>1. paid \in {AmountPaid(size, snapped) : size \in Sizes, snapped \in BOOLEAN}
  OBVIOUS
<1>. HIDE DEF paid
<1>2. /\ now \in Nat /\ now >= 1 /\ now <= Horizon /\ Horizon \in Nat
      /\ events \in [Interval -> Nat] /\ now \in Interval
  BY MeterAssumption DEF MeteredInv, MeterInv, MeterTypeOK, Buy, Interval
<1>3. now - 1 \in 0..(Horizon - 1) /\ (now - 1) + 1 = now
  BY <1>2
<1>4. VendingEvents[now - 1] = 0
  <2>1. VendingEvents[now - 1] = events[now]
    BY <1>3 DEF VendingEvents
  <2>2. events[now] = 0
    BY <1>2 DEF MeteredInv
  <2>. QED BY <2>1, <2>2
<1>5. VendingEvents' = [VendingEvents EXCEPT ![now - 1] = paid]
  <2>1. events' = [events EXCEPT ![now] = paid]
    BY DEF Buy, paid
  <2>2. \A t \in 0..(Horizon - 1) :
          events'[t + 1] = [VendingEvents EXCEPT ![now - 1] = paid][t]
    <3>. TAKE t \in 0..(Horizon - 1)
    <3>1. t + 1 \in Interval /\ t \in Nat
      BY <1>2 DEF Interval
    <3>2. CASE t = now - 1
      BY <3>1, <3>2, <2>1, <1>2, <1>3 DEF VendingEvents
    <3>3. CASE t # now - 1
      <4>1. t + 1 # now
        BY <3>1, <3>3, <1>2
      <4>2. events'[t + 1] = events[t + 1]
        BY <4>1, <3>1, <2>1, <1>2
      <4>. QED BY <4>2, <3>3 DEF VendingEvents
    <3>. QED BY <3>2, <3>3
  <2>. QED BY <2>2 DEF VendingEvents
<1>6. R!Vend(now - 1, paid)
  BY <1>4, <1>5 DEF R!Vend
<1>. QED BY <1>1, <1>3, <1>6 DEF R!EstimateNext

\* Every step of the composition is a step of the reconstruction or none.
LEMMA StepRefines ==
  ASSUME MeteredInv, [MeteredNext]_meteredVars
  PROVE  [R!EstimateNext]_(R!estimateVars)
<1>1. CASE UNCHANGED meteredVars
  BY <1>1 DEF meteredVars, meterVars, R!estimateVars, VendingEvents
<1>2. CASE ReconstructScenario
  BY <1>2 DEF ReconstructScenario, R!EstimateNext
<1>3. CASE Simulate
  <2>1. MeterNext /\ UNCHANGED <<weight, level, stage>>
    BY <1>3 DEF Simulate
  <2>2. stage = "vending"
    <3>1. now <= Horizon
      BY <2>1, MeterThrough DEF MeteredInv
    <3>2. Horizon \in Nat /\ now \in 1..(Horizon + 1)
      BY MeterAssumption DEF MeteredInv, MeterInv, MeterTypeOK
    <3>. QED BY <3>1, <3>2 DEF MeteredInv
  <2>3. ASSUME UNCHANGED events
        PROVE  UNCHANGED R!estimateVars
    BY <2>1, <2>3 DEF R!estimateVars, VendingEvents
  <2>4. ASSUME NEW kwh \in Sizes, NEW snap \in BOOLEAN, Buy(kwh, snap)
        PROVE  R!EstimateNext
    BY <2>1, <2>2, <2>4, BuyIsVend
  <2>. QED BY <2>1, <2>3, <2>4 DEF MeterNext, Supply, Pass
<1>. QED BY <1>1, <1>2, <1>3 DEF MeteredNext

\* The meter only ever feeds the reconstruction what it is specified for: at
\* most one purchase per interval, inside the window, none after it was read.
THEOREM FeedsReconstructionAlways == MeteredSpec => FeedsReconstruction
<1>1. MeteredInit => R!EstimateInit
  <2>. SUFFICES ASSUME MeteredInit PROVE R!EstimateInit
    OBVIOUS
  <2>1. \A t \in 0..(Horizon - 1) : events[t + 1] = 0
    <3>1. \A t \in 0..(Horizon - 1) : t + 1 \in 1..Horizon
      BY MeterAssumption
    <3>2. events = [i \in 1..Horizon |-> 0]
      BY DEF MeteredInit, MeterInit, Interval
    <3>. QED BY <3>1, <3>2
  <2>2. VendingEvents = [t \in 0..(Horizon - 1) |-> 0]
    BY <2>1 DEF VendingEvents
  <2>. QED BY <2>2 DEF MeteredInit, R!EstimateInit
<1>2. MeteredInv /\ [MeteredNext]_meteredVars => MeteredInv'
  BY MeteredStep
<1>3. MeteredInv /\ [MeteredNext]_meteredVars => [R!EstimateNext]_(R!estimateVars)
  BY StepRefines
<1>. QED BY MeteredInitially, <1>1, <1>2, <1>3, PTL DEF MeteredSpec, FeedsReconstruction, R!EstimateSpec
-----------------------------------------------------------------------------
\* The record is the sum of the events.
RecordSums == recorded = SumFunctionOnSet(events, Interval)

\* The estimate is made of the events, and is refused when there are none.
Sold == Binned(VendingEvents, 1, Horizon)

EstimateFollows ==
  /\ stage = "reconstructed" =>
       /\ weight \in [1..Horizon -> Weights]
       /\ \E middle \in Middles(Theta(Sold, weight)) : level = Winsorized(Theta(Sold, weight), middle)
  /\ stage = "refused" => Starts(Sold) = {}

ErrorInv == MeteredInv /\ RecordSums /\ EstimateFollows

\* The instance R of the state machine computes with the same operators.
LEMMA SameArithmetic ==
  /\ R!Bins = Sold
  /\ R!Starts(Sold) = Starts(Sold)
  /\ \A w : R!Theta(Sold, w) = Theta(Sold, w)
  /\ \A theta : R!Middles(theta) = Middles(theta)
  /\ \A theta, middle : R!Winsorized(theta, middle) = Winsorized(theta, middle)
<1>1. \A f, S : R!SumFunctionOnSet(f, S) = SumFunctionOnSet(f, S)
  BY DEF R!SumFunctionOnSet, SumFunctionOnSet, R!FoldFunctionOnSet, FoldFunctionOnSet,
         R!MapThenFoldSet, MapThenFoldSet
<1>2. R!Bins = Sold
  BY <1>1 DEF R!Bins, Sold, R!Binned, Binned, R!IntervalOf, IntervalOf
<1>3. \A b : R!Starts(b) = Starts(b)
  BY DEF R!Starts, Starts
<1>4. \A w : R!Theta(Sold, w) = Theta(Sold, w)
  BY <1>1, <1>3 DEF R!Theta, Theta, R!WeightOf, WeightOf, R!Segment, Segment
<1>5. /\ \A S : R!Cardinality(S) = Cardinality(S)
      /\ \A a, b : R!Below(a, b) = Below(a, b) /\ R!Scaled(a, b) = Scaled(a, b)
      /\ R!WinsorizeMinSegments = WinsorizeMinSegments
  BY DEF R!Cardinality, Cardinality, R!Below, Below, R!Scaled, Scaled,
         R!WinsorizeMinSegments, WinsorizeMinSegments
<1>6. \A theta : R!Middles(theta) = Middles(theta)
  BY <1>5 DEF R!Middles, Middles
<1>7. \A theta, middle : R!Winsorized(theta, middle) = Winsorized(theta, middle)
  BY <1>5 DEF R!Winsorized, Winsorized
<1> QED BY <1>2, <1>3, <1>4, <1>6, <1>7

LEMMA EventsSummed ==
  ASSUME MeteredInv
  PROVE  /\ IsFiniteSet(Interval) /\ events \in [Interval -> Nat]
         /\ \A i \in Interval : events[i] \in Int
<1>1. Horizon \in Nat /\ events \in [Interval -> Nat]
  BY MeterAssumption DEF MeteredInv, MeterInv, MeterTypeOK
<1>2. 1 \in Int /\ Horizon \in Int
  BY <1>1
<1>3. IsFiniteSet(1..Horizon)
  BY <1>2, IntervalFinite, Zenon
<1> QED BY <1>1, <1>3 DEF Interval

\* A purchase is added to both.
LEMMA BuyIsRecorded ==
  ASSUME MeteredInv, RecordSums, NEW kwh \in Sizes, NEW snap \in BOOLEAN, Buy(kwh, snap)
  PROVE  RecordSums'
<1> DEFINE paid == AmountPaid(kwh, snap)
           others == Interval \ {now}
<1>1. /\ IsFiniteSet(Interval) /\ events \in [Interval -> Nat]
      /\ \A i \in Interval : events[i] \in Int
  BY EventsSummed
<1>2. paid \in Nat
  BY PaidCloseToSize
<1>3. now \in Interval /\ events[now] = 0
  BY MeterAssumption DEF MeteredInv, MeterInv, MeterTypeOK, Buy, Interval
<1>4. events' = [events EXCEPT ![now] = paid] /\ recorded' = recorded + paid
  BY DEF Buy
<1> HIDE DEF paid
<1>5. events' \in [Interval -> Nat] /\ events'[now] = paid /\ \A i \in others : events'[i] = events[i]
  BY <1>1, <1>2, <1>3, <1>4
<1>6. SumFunctionOnSet(events', Interval) = paid + SumFunctionOnSet(events', others)
  <2>1. \A i \in Interval : events'[i] \in Int
    BY <1>5
  <2>2. SumFunctionOnSet(events', Interval) = events'[now] + SumFunctionOnSet(events', others)
    BY <1>1, <1>3, <2>1, SumTakeOut
  <2> QED BY <1>5, <2>2
<1>7. SumFunctionOnSet(events, Interval) = 0 + SumFunctionOnSet(events, others)
  <2>1. SumFunctionOnSet(events, Interval) = events[now] + SumFunctionOnSet(events, others)
    BY <1>1, <1>3, SumTakeOut
  <2> QED BY <1>3, <2>1
<1>8. IsFiniteSet(others) /\ \A i \in others : events[i] \in Int
  BY <1>1, FS_Subset
<1>9. SumFunctionOnSet(events, others) = SumFunctionOnSet(events', others)
  <2> HIDE DEF others
  <2> QED BY <1>5, <1>8, SumSameTerms
<1>10. SumFunctionOnSet(events, others) \in Int
  BY <1>8, SumIsInt
<1>11. SumFunctionOnSet(events', Interval) = paid + recorded
  BY <1>6, <1>7, <1>9, <1>10 DEF RecordSums
<1>12. recorded' = SumFunctionOnSet(events', Interval)
  <2>1. recorded \in Int
    BY DEF MeteredInv, MeterInv, MeterTypeOK
  <2> QED BY <1>2, <1>4, <1>11, <2>1
<1>13. Interval' = Interval
  BY DEF Interval
<1> QED BY <1>12, <1>13 DEF RecordSums

LEMMA ErrorInitially == MeteredInit => ErrorInv
<1> SUFFICES ASSUME MeteredInit PROVE ErrorInv
  OBVIOUS
<1>1. MeteredInv
  BY MeteredInitially
<1>2. RecordSums
  <2>1. recorded = 0 /\ \A i \in Interval : events[i] = 0
    BY DEF MeteredInit, MeterInit
  <2>2. IsFiniteSet(Interval)
    BY <1>1, EventsSummed
  <2>3. SumFunctionOnSet(events, Interval) = 0
    BY <2>1, <2>2, SumOfZeros
  <2> QED BY <2>1, <2>3 DEF RecordSums
<1>3. EstimateFollows
  BY DEF MeteredInit, EstimateFollows
<1> QED BY <1>1, <1>2, <1>3 DEF ErrorInv

LEMMA ErrorStep ==
  ASSUME ErrorInv, [MeteredNext]_meteredVars
  PROVE  ErrorInv'
<1>0. MeteredInv /\ RecordSums /\ EstimateFollows /\ MeteredInv'
  BY MeteredStep DEF ErrorInv
<1>1. ASSUME UNCHANGED meterVars
      PROVE  RecordSums' /\ Sold' = Sold
  BY <1>0, <1>1 DEF meterVars, RecordSums, Sold, VendingEvents, Interval
<1>2. CASE UNCHANGED meteredVars
  <2>1. UNCHANGED meterVars /\ UNCHANGED <<weight, level, stage>>
    BY <1>2 DEF meteredVars
  <2> QED BY <1>0, <1>1, <2>1 DEF ErrorInv, EstimateFollows
<1>3. CASE ReconstructScenario
  <2>1. UNCHANGED meterVars /\ (R!Refuse \/ R!Reconstruct)
    BY <1>3 DEF ReconstructScenario
  <2>3. CASE R!Refuse
    <3>1. stage' = "refused" /\ Starts(Sold) = {}
      BY <2>3, SameArithmetic DEF R!Refuse
    <3>2. EstimateFollows'
      BY <1>1, <2>1, <3>1 DEF EstimateFollows
    <3> QED BY <1>0, <1>1, <2>1, <3>2 DEF ErrorInv
  <2>4. CASE R!Reconstruct
    <3>1. /\ stage' = "reconstructed" /\ weight' \in [1..Horizon -> Weights]
          /\ \E middle \in Middles(Theta(Sold, weight')) : level' = Winsorized(Theta(Sold, weight'), middle)
      BY <2>4, SameArithmetic DEF R!Reconstruct
    <3>2. EstimateFollows'
      BY <1>1, <2>1, <3>1 DEF EstimateFollows
    <3> QED BY <1>0, <1>1, <2>1, <3>2 DEF ErrorInv
  <2> QED BY <2>1, <2>3, <2>4
<1>4. CASE Simulate
  <2>1. MeterNext /\ UNCHANGED <<weight, level, stage>>
    BY <1>4 DEF Simulate
  <2>2. stage = "vending"
    <3>1. now <= Horizon
      BY <1>0, <2>1, MeterThrough DEF MeteredInv
    <3>2. Horizon \in Nat /\ now \in 1..(Horizon + 1)
      BY <1>0, MeterAssumption DEF MeteredInv, MeterInv, MeterTypeOK
    <3> QED BY <1>0, <3>1, <3>2 DEF MeteredInv
  <2>3. EstimateFollows'
    BY <2>1, <2>2 DEF EstimateFollows
  <2>4. RecordSums'
    <3>1. ASSUME UNCHANGED <<events, recorded>>
          PROVE  RecordSums'
      BY <1>0, <3>1 DEF RecordSums, Interval
    <3>2. ASSUME NEW kwh \in Sizes, NEW snap \in BOOLEAN, Buy(kwh, snap)
          PROVE  RecordSums'
      BY <1>0, <3>2, BuyIsRecorded
    <3> QED BY <2>1, <3>1, <3>2 DEF MeterNext, Supply, Pass
  <2> QED BY <1>0, <2>3, <2>4 DEF ErrorInv
<1> QED BY <1>2, <1>3, <1>4 DEF MeteredNext

\* The purchases of the whole window are the record.
LEMMA SoldIsRecorded ==
  ASSUME MeteredInv, RecordSums
  PROVE  /\ VendingEvents \in [0..(Horizon - 1) -> Nat] /\ IsFiniteSet(0..(Horizon - 1))
         /\ SoldThrough(VendingEvents, 1, Horizon) = recorded
<1> DEFINE ticks == 0..(Horizon - 1)
           all == {t \in DOMAIN VendingEvents : t < Horizon * 1}
           part == [i \in Interval |-> {i - 1}]
<1>1. Horizon \in Nat
  BY MeterAssumption
<1>2. IsFiniteSet(ticks)
  <2>1. 0 \in Int /\ Horizon - 1 \in Int
    BY <1>1
  <2> QED BY <2>1, IntervalFinite, Zenon
<1>3. IsFiniteSet(Interval) /\ events \in [Interval -> Nat] /\ \A i \in Interval : events[i] \in Int
  BY EventsSummed
<1>4. VendingEvents \in [ticks -> Nat]
  <2>1. \A t \in ticks : t + 1 \in Interval
    BY <1>1 DEF Interval
  <2> QED BY <1>3, <2>1 DEF VendingEvents
<1>5. \A i \in Interval : i - 1 \in ticks /\ VendingEvents[i - 1] = events[i]
  <2> TAKE i \in Interval
  <2>1. i - 1 \in ticks /\ (i - 1) + 1 = i
    BY <1>1 DEF Interval
  <2> QED BY <2>1 DEF VendingEvents
<1>6. \A i \in Interval : part[i] \in SUBSET ticks /\ events[i] = SumFunctionOnSet(VendingEvents, part[i])
  <2> TAKE i \in Interval
  <2>1. VendingEvents[i - 1] \in Int /\ events[i] = VendingEvents[i - 1] /\ part[i] = {i - 1}
    BY <1>3, <1>5
  <2>2. SumFunctionOnSet(VendingEvents, {i - 1}) = VendingEvents[i - 1]
    BY <2>1, SumOfOne
  <2> QED BY <1>5, <2>1, <2>2
<1>7. \A i, j \in Interval : i # j => part[i] \cap part[j] = {}
  BY <1>1 DEF Interval
<1>8. all = ticks
  BY <1>1, <1>4
<1>9. \A t \in ticks : t \in ticks <=> \E i \in Interval : t \in part[i]
  <2> TAKE t \in ticks
  <2>1. t + 1 \in Interval /\ (t + 1) - 1 = t
    BY <1>1 DEF Interval
  <2>2. t \in part[t + 1]
    BY <2>1
  <2> QED BY <2>1, <2>2
<1>10. SumFunctionOnSet(events, Interval) = SumFunctionOnSet(VendingEvents, ticks)
  <2>1. ticks \in SUBSET ticks /\ \A t \in ticks : VendingEvents[t] \in Int
    BY <1>4
  <2> HIDE DEF ticks, part
  <2> QED BY <1>2, <1>3, <1>6, <1>7, <1>9, <2>1, SumByPart
<1>11. SoldThrough(VendingEvents, 1, Horizon) = SumFunctionOnSet(VendingEvents, all)
  BY DEF SoldThrough
<1> QED BY <1>2, <1>4, <1>8, <1>10, <1>11 DEF RecordSums

LEMMA ErrorIsBounded == ErrorInv => ErrorBounded
<1> SUFFICES ASSUME ErrorInv PROVE ErrorBounded
  OBVIOUS
<1> DEFINE total == EstimatedThrough(level, weight, Horizon)
           few == Cardinality(DOMAIN level) < WinsorizeMinSegments
<1>1. /\ MeteredInv /\ RecordSums /\ EstimateFollows
      /\ Horizon \in Nat /\ Rounding \in Nat
      /\ supplied \in Nat /\ balance \in Nat /\ stock \in Nat /\ credited \in Nat /\ recorded \in Nat
  <2>1. MeteredInv /\ RecordSums /\ EstimateFollows
    BY DEF ErrorInv
  <2> QED BY <2>1, MeterAssumption, OneMoreRounding DEF MeteredInv, MeterInv, MeterTypeOK
<1>2. /\ stock + credited = supplied + balance
      /\ 2 * credited <= 2 * recorded + Rounding /\ 2 * recorded <= 2 * credited + Rounding
      /\ recorded = 0 => credited = 0
  BY <1>1 DEF MeteredInv, MeterInv, Conservation, RecordsCloseToCredits
<1>3. /\ VendingEvents \in [0..(Horizon - 1) -> Nat] /\ IsFiniteSet(0..(Horizon - 1))
      /\ SoldThrough(VendingEvents, 1, Horizon) = recorded
  BY <1>1, SoldIsRecorded
<1> HIDE DEF total
<1>4. ASSUME stage = "reconstructed"
      PROVE  /\ 2 * (total.num + stock * total.den) <= (2 * (supplied + balance) + Rounding) * total.den
             /\ few => 2 * (supplied + balance) * total.den <= 2 * total.num + (2 * stock + Rounding) * total.den
  <2>1. PICK middle : middle \in Middles(Theta(Sold, weight)) /\ level = Winsorized(Theta(Sold, weight), middle)
    BY <1>1, <1>4 DEF EstimateFollows
  <2>2. weight \in [1..Horizon -> Nat \ {0}] /\ 1 \in Nat \ {0} /\ \A t \in 0..(Horizon - 1) : t \in Nat
    <3>1. weight \in [1..Horizon -> Weights]
      BY <1>1, <1>4 DEF EstimateFollows
    <3>2. weight \in [1..Horizon -> Nat \ {0}]
      BY <3>1, PriorAssumption
    <3> QED BY <1>1, <3>2
  <2>3. /\ middle \in Middles(Theta(Binned(VendingEvents, 1, Horizon), weight))
        /\ level = Winsorized(Theta(Binned(VendingEvents, 1, Horizon), weight), middle)
    BY <2>1 DEF Sold
  <2>4. total \in Rationals /\ AtMost(total, Whole(recorded))
    <3>1. \A i \in 0..Horizon :
            /\ EstimatedThrough(level, weight, i) \in Rationals
            /\ SoldThrough(VendingEvents, 1, i) \in Nat
            /\ AtMost(EstimatedThrough(level, weight, i), Whole(SoldThrough(VendingEvents, 1, i)))
      BY <1>1, <1>3, <2>2, <2>3, EstimateOfWindow
    <3>2. Horizon \in 0..Horizon
      BY <1>1
    <3> QED BY <1>3, <3>1, <3>2 DEF total
  <2>5. few => AtMost(Whole(recorded), total)
    <3>1. few => AtMost(Whole(SoldThrough(VendingEvents, 1, Horizon)), EstimatedThrough(level, weight, Horizon))
      BY <1>1, <1>3, <2>2, <2>3, EstimateOfWindow
    <3> QED BY <1>3, <3>1 DEF total
  <2> DEFINE num == total.num  den == total.den
  <2>6. /\ num \in Nat /\ den \in Nat
        /\ num * 1 <= recorded * den
        /\ few => recorded * den <= num * 1
    BY <2>4, <2>5 DEF Rationals, AtMost, Whole
  <2> HIDE DEF num, den, few
  <2> DEFINE above == 2 * (supplied + balance) + Rounding
             below == 2 * stock + Rounding
             truth == 2 * (supplied + balance)
  <2>0. /\ above \in Nat /\ below \in Nat /\ truth \in Nat
        /\ 2 * recorded + 2 * stock <= above
        /\ truth <= 2 * recorded + below
    BY <1>1, <1>2
  <2> HIDE DEF above, below, truth
  <2>7. (2 * recorded + 2 * stock) * den <= above * den
    BY <1>1, <2>0, <2>6, TimesGrows
  <2>8. truth * den <= (2 * recorded + below) * den
    BY <1>1, <2>0, <2>6, TimesGrows
  <2>9. /\ (2 * recorded + 2 * stock) * den = 2 * (recorded * den) + 2 * (stock * den)
        /\ (2 * recorded + below) * den = 2 * (recorded * den) + below * den
        /\ recorded * den \in Nat /\ stock * den \in Nat /\ below * den \in Nat
        /\ truth * den \in Nat /\ above * den \in Nat
    BY <1>1, <2>0, <2>6
  <2>10. 2 * (num + stock * den) <= above * den
    BY <2>6, <2>7, <2>9
  <2>11. few => truth * den <= 2 * num + below * den
    BY <2>6, <2>8, <2>9
  <2> QED BY <2>10, <2>11 DEF num, den, above, below, truth
<1>5. ASSUME stage = "refused"
      PROVE  supplied <= stock
  <2> DEFINE S == {s \in Starts(Sold) : s <= Horizon}
  <2>1. \A t \in 0..(Horizon - 1) : t \in Nat
    BY <1>1
  <2>2. Horizon \in 0..Horizon /\ 1 \in Nat \ {0}
    BY <1>1
  <2>3. SumFunctionOnSet(Binned(VendingEvents, 1, Horizon), {s \in Starts(Binned(VendingEvents, 1, Horizon)) : s <= Horizon})
          = SoldThrough(VendingEvents, 1, Horizon)
    BY <1>1, <1>3, <2>1, <2>2, BinsAddUp
  <2>4. S = {}
    BY <1>1, <1>5 DEF EstimateFollows
  <2>5. SumFunctionOnSet(Sold, S) = recorded
    BY <1>3, <2>3 DEF Sold
  <2>6. recorded = 0
    BY <2>4, <2>5, SumEmpty
  <2> QED BY <1>1, <1>2, <2>6
<1> QED BY <1>4, <1>5 DEF ErrorBounded, total, few

\* For any scenario the estimate is above what the meter supplied by no more
\* than the unspent balance and the rounding, unclipped it is below it by no
\* more than the starting stock and the rounding, and a connection that is
\* skipped used up its stock at most.
THEOREM ErrorAlwaysBounded == MeteredSpec => []ErrorBounded
<1>1. ErrorInv /\ [MeteredNext]_meteredVars => ErrorInv'
  BY ErrorStep
<1> QED BY ErrorInitially, <1>1, ErrorIsBounded, PTL DEF MeteredSpec

(***************************************************************************)
(* Part 2: the feeder and its balances.                                    *)
(***************************************************************************)

Record == [connection : Connection, kind : Kinds, active : BOOLEAN]

FeederTypeOK ==
  /\ rates \subseteq Kinds
  /\ generating \in {"shedding", "anomalies", "stored"}
  /\ true_consumption \in [Connection -> Nat]
  /\ kw \in [Connection -> Nat] /\ metered \in [Connection -> Nat]
  /\ records \subseteq Record
  /\ status \in [Connection -> {"active", "inactive"}]

OneLabel == \A r, s \in records : r.connection = s.connection => r = s

FeederInv ==
  /\ FeederTypeOK
  /\ OneLabel
  /\ generating = "shedding" => records = {} /\ kw = true_consumption /\ metered = kw
  /\ generating # "stored" => \A c \in Connection : status[c] = "active"
  /\ LabelsTrue

\* A share below the whole of a draw, in whole units, is less than the draw.
LEMMA ShareIsLess ==
  ASSUME NEW x \in Nat, NEW p \in 0..99
  PROVE  Percent(x, p) \in Nat /\ Percent(x, p) <= x /\ (x > 0 => Percent(x, p) < x)
<1>1. x * p \in Nat /\ x * p <= x * 99
  OBVIOUS
<1>2. 100 * Percent(x, p) <= x * p /\ Percent(x, p) \in Nat
  BY <1>1 DEF Percent
<1>. QED BY <1>1, <1>2

LEMMA ShedIsDraw ==
  ASSUME NEW x \in Nat, NEW supply \in {"on", "off", "restored"}
  PROVE  Shed(x, supply) \in Nat
<1>1. Percent(x, 5) \in Nat /\ Percent(x, 130) \in Nat
  BY DEF Percent
<1>. QED BY <1>1 DEF Shed

LEMMA Effects ==
  ASSUME NEW kind \in Kinds, NEW size \in SizesOf(kind), NEW x \in Nat
  PROVE  /\ Drawn(kind, size, x) \in Nat /\ Drawn(kind, size, x) <= x
         /\ Counted(kind, size, x) \in Nat
         /\ kind \in Hiding => /\ Drawn(kind, size, x) = x
                               /\ x > 0 => Counted(kind, size, x) < x
         /\ kind \in Lowering => Counted(kind, size, x) = Drawn(kind, size, x)
<1>1. Retained \subseteq 0..99 /\ PvOutputs \subseteq Nat
  BY FeederAssumption
<1>2. Percent(x, 2) \in Nat /\ Percent(x, 2) <= x /\ (x > 0 => Percent(x, 2) < x)
  BY ShareIsLess
<1>3. CASE kind = "partial_bypass"
  <2>1. size \in 0..99
    BY <1>3, <1>1 DEF SizesOf
  <2>2. Percent(x, size) \in Nat /\ (x > 0 => Percent(x, size) < x)
    BY <2>1, ShareIsLess
  <2>. QED BY <1>3, <2>2 DEF Drawn, Counted, Hiding, Lowering
<1>4. CASE kind \in {"full_bypass", "meter_failure"}
  BY <1>4, <1>2 DEF Drawn, Counted, Hiding, Lowering
<1>5. CASE kind = "vacancy"
  BY <1>5, <1>2 DEF Drawn, Counted, Hiding, Lowering
<1>6. CASE kind = "solar_adoption"
  <2>1. size \in Nat
    BY <1>6, <1>1 DEF SizesOf
  <2>. QED BY <1>6, <2>1 DEF Drawn, Counted, Hiding, Lowering
<1>. QED BY <1>3, <1>4, <1>5, <1>6 DEF Kinds, Hiding, Lowering

LEMMA FeederInitially == FeederInit => FeederInv
<1>. SUFFICES ASSUME FeederInit PROVE FeederInv
  OBVIOUS
<1>1. FeederTypeOK
  BY FeederAssumption DEF FeederInit, FeederTypeOK
<1>2. LabelsTrue
  BY DEF FeederInit, LabelsTrue, Touched
<1>. QED BY <1>1, <1>2 DEF FeederInit, FeederInv, OneLabel

LEMMA SheddingPreserves ==
  ASSUME FeederInv, NEW supply \in Supplies, ApplyShedding(supply)
  PROVE  FeederInv'
<1>1. \A c \in Connection : Shed(BaseKw[c], supply[FedBy[c]]) \in Nat
  BY ShedIsDraw, FeederAssumption
<1>2. FeederTypeOK'
  BY <1>1 DEF FeederInv, FeederTypeOK, ApplyShedding
<1>3. records = {} /\ records' = {} /\ generating' = "anomalies"
  BY DEF FeederInv, ApplyShedding
<1>4. kw' = true_consumption' /\ metered' = true_consumption'
  BY DEF ApplyShedding
<1>5. LabelsTrue'
  BY <1>3, <1>4 DEF LabelsTrue, Touched
<1>. QED BY <1>2, <1>3, <1>5 DEF FeederInv, OneLabel, ApplyShedding

LEMMA InjectPreserves ==
  ASSUME FeederInv, NEW kind \in Kinds, NEW targets \in SUBSET Connection,
         NEW active \in SUBSET targets, NEW size \in [active -> SizesOf(kind)],
         Inject(kind, targets, active, size)
  PROVE  FeederInv'
<1>. DEFINE Labels == {[connection |-> c, kind |-> kind, active |-> c \in active] : c \in targets}
<1>0. FeederTypeOK /\ OneLabel /\ LabelsTrue /\ generating = "anomalies" /\ generating' = "anomalies"
  BY DEF FeederInv, Inject
<1>1. records' = records \cup Labels /\ Labels \subseteq Record
  <2>1. records' = records \cup Labels
    BY Zenon DEF Inject
  <2>2. ASSUME NEW c \in targets
        PROVE  [connection |-> c, kind |-> kind, active |-> c \in active] \in Record
    <3>1. c \in Connection /\ (c \in active) \in BOOLEAN
      OBVIOUS
    <3>. QED BY <3>1 DEF Record
  <2>. QED BY <2>1, <2>2
<1>2. \A r \in records : r.connection \notin targets
  BY DEF Inject, Candidates, Used
<1>3. \A c \in active : Counted(kind, size[c], kw[c]) \in Nat /\ Drawn(kind, size[c], kw[c]) \in Nat
  BY <1>0, Effects DEF FeederTypeOK
<1>4. FeederTypeOK'
  <2>1. kw' \in [Connection -> Nat] /\ metered' \in [Connection -> Nat]
    BY <1>0, <1>3 DEF FeederTypeOK, Inject
  <2>. QED BY <2>1, <1>0, <1>1 DEF FeederTypeOK, Inject
<1>5. OneLabel'
  BY <1>0, <1>1, <1>2 DEF OneLabel
<1>6. \A c \in Connection \ active : kw'[c] = kw[c] /\ metered'[c] = metered[c]
  BY <1>0 DEF FeederTypeOK, Inject
<1>7. true_consumption' = true_consumption
  BY DEF Inject
<1>8. ASSUME NEW c \in active
      PROVE  /\ kw[c] = true_consumption[c] /\ kw[c] \in Nat
             /\ kw'[c] = Drawn(kind, size[c], kw[c])
             /\ metered'[c] = Counted(kind, size[c], kw[c])
  <2>1. c \in targets /\ c \in Connection
    OBVIOUS
  <2>2. ~Touched(c)
    BY <1>2, <2>1 DEF Touched
  <2>. QED BY <1>0, <2>1, <2>2 DEF LabelsTrue, FeederTypeOK, Inject
<1>9. LabelsTrue'
  <2>1. ASSUME NEW r \in records', r.active
        PROVE  LET c == r.connection
               IN  /\ r.kind \in Hiding => /\ kw'[c] = true_consumption'[c]
                                           /\ kw'[c] > 0 => metered'[c] < kw'[c]
                   /\ r.kind \in Lowering => /\ kw'[c] <= true_consumption'[c]
                                             /\ metered'[c] = kw'[c]
    <3>1. CASE r \in records
      <4>1. r.connection \in Connection \ active
        BY <3>1, <1>0, <1>2 DEF FeederTypeOK, Record
      <4>2. kw'[r.connection] = kw[r.connection] /\ metered'[r.connection] = metered[r.connection]
        BY <4>1, <1>6
      <4>. QED BY <3>1, <4>2, <1>0, <1>7, <2>1 DEF LabelsTrue
    <3>2. CASE r \in Labels
      <4>1. PICK c \in targets : r = [connection |-> c, kind |-> kind, active |-> c \in active]
        BY <3>2
      <4>2. c \in active /\ r.connection = c /\ r.kind = kind
        BY <4>1, <2>1
      <4>3. size[c] \in SizesOf(kind)
        BY <4>2
      <4>4. /\ kw[c] = true_consumption[c] /\ kw[c] \in Nat
            /\ kw'[c] = Drawn(kind, size[c], kw[c])
            /\ metered'[c] = Counted(kind, size[c], kw[c])
        BY <4>2, <1>8
      <4>5. /\ Drawn(kind, size[c], kw[c]) \in Nat /\ Drawn(kind, size[c], kw[c]) <= kw[c]
            /\ kind \in Hiding => /\ Drawn(kind, size[c], kw[c]) = kw[c]
                                  /\ kw[c] > 0 => Counted(kind, size[c], kw[c]) < kw[c]
            /\ kind \in Lowering => Counted(kind, size[c], kw[c]) = Drawn(kind, size[c], kw[c])
        BY <4>3, <4>4, Effects
      <4>. QED BY <4>2, <4>4, <4>5, <1>7
    <3>. QED BY <3>1, <3>2, <1>1
  <2>2. ASSUME NEW c \in Connection, ~Touched(c)'
        PROVE  kw'[c] = true_consumption'[c] /\ metered'[c] = kw'[c]
    <3>1. c \notin active
      <4>. SUFFICES ASSUME c \in active PROVE FALSE
        OBVIOUS
      <4>1. [connection |-> c, kind |-> kind, active |-> TRUE] \in records'
        <5>1. [connection |-> c, kind |-> kind, active |-> c \in active] \in Labels
          OBVIOUS
        <5>. QED BY <5>1, <1>1
      <4>. QED BY <4>1, <2>2 DEF Touched
    <3>2. ~Touched(c)
      BY <2>2, <1>1 DEF Touched
    <3>. QED BY <3>1, <3>2, <1>0, <1>6, <1>7 DEF LabelsTrue
  <2>. QED BY <2>1, <2>2, <1>0 DEF LabelsTrue
<1>10. \A c \in Connection : status'[c] = "active"
  BY <1>0 DEF FeederInv, Inject
<1>. QED BY <1>0, <1>4, <1>5, <1>9, <1>10 DEF FeederInv

LEMMA StorePreserves ==
  ASSUME FeederInv, NEW credit \in Balances, Store(credit)
  PROVE  FeederInv'
<1>0. FeederTypeOK /\ OneLabel /\ LabelsTrue /\ generating = "anomalies" /\ generating' = "stored"
  BY DEF FeederInv, Store
<1>1. credit \in [Connection -> Nat]
  BY FeederAssumption
<1>2. \A c \in Connection : Least(metered[c], credit[c]) \in Nat /\ Least(metered[c], credit[c]) <= metered[c]
  BY <1>0, <1>1 DEF FeederTypeOK, Least
<1>3. metered' \in [Connection -> Nat] /\ \A c \in Connection : metered'[c] <= metered[c]
  BY <1>2 DEF Store
<1>4. UNCHANGED <<rates, true_consumption, kw, records>>
  BY DEF Store
<1>5. FeederTypeOK'
  BY <1>0, <1>3, <1>4 DEF FeederTypeOK, Store
<1>6. \A c \in Connection : status[c] = "active"
  BY <1>0 DEF FeederInv
<1>7. \A c \in Connection :
        status'[c] = "inactive" <=> \E r \in records : r.connection = c /\ r.kind = "vacancy"
  BY <1>6 DEF Store, Vacated
<1>8. LabelsTrue'
  <2>1. ASSUME NEW r \in records, r.active, r.kind \in Hiding, kw[r.connection] > 0
        PROVE  metered'[r.connection] < kw[r.connection]
    <3>1. r.connection \in Connection
      BY <1>0 DEF FeederTypeOK, Record
    <3>2. metered[r.connection] < kw[r.connection]
      BY <2>1, <1>0 DEF LabelsTrue
    <3>. QED BY <3>1, <3>2, <1>0, <1>3 DEF FeederTypeOK
  <2>. QED BY <2>1, <1>0, <1>4, <1>7 DEF LabelsTrue, Touched
<1>. QED BY <1>0, <1>4, <1>5, <1>8 DEF FeederInv, OneLabel

LEMMA FeederKeeps ==
  ASSUME FeederInv, [FeederNext]_feederVars
  PROVE  FeederInv'
<1>1. CASE UNCHANGED feederVars
  BY <1>1 DEF feederVars, FeederInv, FeederTypeOK, OneLabel, LabelsTrue, Touched
<1>2. CASE FeederNext
  BY <1>2, SheddingPreserves, InjectPreserves, StorePreserves DEF FeederNext
<1>. QED BY <1>1, <1>2

(***************************************************************************)
(* The balance: types.                                                     *)
(***************************************************************************)

\* What a connection is accounted with when it is counted once.
Credit == [c \in Connection |-> IF Accountable(c) THEN Accounted(c) ELSE 0]

RecordsOK ==
  /\ belief \in [Connection -> [at : Transformer, placed : BOOLEAN]]
  /\ estimate \in [Connection \ Industrial -> Estimates \cup {Unestimated}]
  /\ moves \in [Connection -> Nat]

\* The balance under way and those that were answered, for a feeder that is
\* stored and does not change any more.
FrameOK ==
  /\ frame.of = {} => frame = Idle
  /\ \A t \in frame.of :
       /\ frame.of = {t} /\ t \in Transformer \ DOMAIN answered
       /\ frame.measured = MeasuredInflow(t)
       /\ DOMAIN frame.rows \subseteq Connection
       /\ \A c \in DOMAIN frame.rows : frame.rows[c] \in Nat

AnsweredOK ==
  /\ DOMAIN answered \subseteq Transformer
  /\ \A t \in DOMAIN answered :
       answered[t].measured = MeasuredInflow(t) /\ answered[t].accounted \in Int

NothingYet == DOMAIN answered = {} /\ frame = Idle /\ \A c \in Connection : moves[c] = 0

BalanceTypeOK ==
  /\ FeederInv /\ RecordsOK /\ FrameOK /\ AnsweredOK
  /\ generating # "stored" => NothingYet

\* The connections of a feeder are finite sets, and credits are not negative.
LEMMA SubsetsFinite ==
  ASSUME NEW S \in SUBSET Connection
  PROVE  IsFiniteSet(S)
BY BalanceAssumption, FS_Subset

LEMMA CreditType ==
  ASSUME FeederInv, RecordsOK
  PROVE  /\ \A c \in Connection : Credit[c] \in Nat /\ Credit[c] \in Int
         /\ \A c \in Connection : Accountable(c) => Credit[c] = Accounted(c)
         /\ \A c \in Connection : ~Accountable(c) => Credit[c] = 0
<1>1. ASSUME NEW c \in Connection, Accountable(c) PROVE Accounted(c) \in Nat
  <2>1. CASE c \in Industrial
    BY <2>1 DEF Accounted, FeederInv, FeederTypeOK
  <2>2. CASE c \notin Industrial
    <3>1. estimate[c] \in Estimates
      BY <1>1, <2>2 DEF RecordsOK, Accountable
    <3> QED BY <2>2, <3>1, BalanceAssumption DEF Accounted
  <2> QED BY <2>1, <2>2
<1> QED BY <1>1 DEF Credit

\* A loss is a number, whatever the load.
LEMMA LossParts ==
  ASSUME NEW S \in SUBSET Connection, NEW load, DOMAIN load = S, \A c \in S : load[c] \in Nat
  PROVE  /\ SumFunction(load) \in Int /\ NetworkLoss(load) \in Int
         /\ \A x \in Int : TransformerLoss(x) \in Int
<1>1. IsFiniteSet(S)
  BY SubsetsFinite
<1>2. SumFunction(load) \in Int
  BY <1>1, SumIsInt DEF SumFunction
<1>3. \A c \in S : (load[c] * load[c]) \div DropScale \in Int
  <2> TAKE c \in S
  <2>1. load[c] * load[c] \in Int /\ DropScale \in Nat \ {0}
    BY BalanceAssumption
  <2> QED BY <2>1
<1>4. NetworkLoss(load) \in Int
  <2> DEFINE f == [c \in DOMAIN load |-> (load[c] * load[c]) \div DropScale]
  <2>1. DOMAIN f = S /\ \A c \in S : f[c] \in Int
    BY <1>3
  <2> HIDE DEF f
  <2>2. SumFunctionOnSet(f, DOMAIN f) \in Int
    BY <1>1, <2>1, SumIsInt
  <2> QED BY <2>2 DEF NetworkLoss, SumFunction, f
<1>5. \A x \in Int : TransformerLoss(x) \in Int
  <2> TAKE x \in Int
  <2> DEFINE l == Least(x, 2 * Rating)
  <2>1. Rating \in Nat \ {0} /\ LoadLoss \in Nat /\ NoLoadLoss \in Nat
    BY BalanceAssumption
  <2>2. l \in Int
    BY <2>1 DEF Least
  <2> HIDE DEF l
  <2>3. LoadLoss * l * l \in Int /\ Rating * Rating \in Nat \ {0}
    BY <2>1, <2>2
  <2>4. (LoadLoss * l * l) \div (Rating * Rating) \in Int
    BY <2>3
  <2> QED BY <2>1, <2>4 DEF TransformerLoss, l
<1> QED BY <1>2, <1>4, <1>5

LEMMA LossType ==
  ASSUME NEW S \in SUBSET Connection, NEW load, DOMAIN load = S, \A c \in S : load[c] \in Nat
  PROVE  Loss(load) \in Int /\ SumFunction(load) \in Int
<1>1. /\ SumFunction(load) \in Int /\ NetworkLoss(load) \in Int
      /\ \A x \in Int : TransformerLoss(x) \in Int
  BY LossParts
<1> QED BY <1>1 DEF Loss

LEMMA MeasuredType ==
  ASSUME FeederInv, NEW t
  PROVE  /\ TechnicalLoss(t) \in Int
         /\ SumFunctionOnSet(kw, TrulyFed(t)) \in Int
         /\ MeasuredInflow(t) = SumFunctionOnSet(kw, TrulyFed(t)) + TechnicalLoss(t)
<1> DEFINE load == [c \in TrulyFed(t) |-> kw[c]]
<1>1. TrulyFed(t) \in SUBSET Connection /\ DOMAIN load = TrulyFed(t)
      /\ \A c \in TrulyFed(t) : load[c] \in Nat /\ load[c] = kw[c]
  BY DEF TrulyFed, FeederInv, FeederTypeOK
<1>2. TechnicalLoss(t) = Loss(load)
  BY DEF TechnicalLoss, TrulyFed
<1>3. MeasuredInflow(t) = SumFunction(load) + TechnicalLoss(t)
  BY DEF MeasuredInflow
<1> HIDE DEF load
<1>4. Loss(load) \in Int /\ SumFunction(load) \in Int
  BY <1>1, LossType
<1>5. SumFunction(load) = SumFunctionOnSet(kw, TrulyFed(t))
  <2>1. \A c \in TrulyFed(t) : load[c] \in Int
    BY <1>1
  <2> QED BY <1>1, <2>1, SubsetsFinite, SumSameTerms DEF SumFunction
<1> QED BY <1>2, <1>3, <1>4, <1>5

\* Once stored, the feeder stays as it is.
LEMMA StoredStays ==
  ASSUME generating = "stored", [FeederNext]_feederVars
  PROVE  UNCHANGED feederVars
BY DEF FeederNext, ApplyShedding, Inject, Store, feederVars

LEMMA EnergyInitially == EnergyInit => BalanceTypeOK
<1> SUFFICES ASSUME EnergyInit PROVE BalanceTypeOK
  OBVIOUS
<1>1. FeederInv
  BY FeederInitially DEF EnergyInit
<1>2. RecordsOK
  <2>1. PICK at \in [Connection -> Transformer] :
          belief = [c \in Connection |-> [at |-> at[c], placed |-> at[c] = FedBy[c]]]
    BY DEF EnergyInit
  <2>2. ASSUME NEW c \in Connection
        PROVE  [at |-> at[c], placed |-> at[c] = FedBy[c]] \in [at : Transformer, placed : BOOLEAN]
    <3>1. at[c] \in Transformer /\ (at[c] = FedBy[c]) \in BOOLEAN
      OBVIOUS
    <3> QED BY <3>1
  <2>3. belief \in [Connection -> [at : Transformer, placed : BOOLEAN]]
    BY <2>1, <2>2
  <2> QED BY <2>3 DEF EnergyInit, RecordsOK
<1>3. frame = Idle /\ DOMAIN answered = {}
  BY DEF EnergyInit
<1>4. FrameOK /\ AnsweredOK /\ NothingYet
  BY <1>3 DEF EnergyInit, FrameOK, AnsweredOK, NothingYet, Idle
<1> QED BY <1>1, <1>2, <1>4 DEF BalanceTypeOK

\* What a result says, when it is given.
LEMMA TwinAnswer ==
  ASSUME NEW t, ResolveTwin(t)
  PROVE  /\ DOMAIN answered' = DOMAIN answered \cup {t}
         /\ \A u \in DOMAIN answered : u # t => answered'[u] = answered[u]
         /\ answered'[t].failed = (Placed(t) \cap DOMAIN frame.rows = {})
         /\ answered'[t].measured = frame.measured
         /\ answered'[t].accounted = SumFunction(frame.rows)
         /\ answered'[t].modelled = Loss(TwinLoad(t, frame.rows))
<1> DEFINE result == [failed    |-> Placed(t) \cap DOMAIN frame.rows = {},
                      measured  |-> frame.measured,
                      accounted |-> SumFunction(frame.rows),
                      modelled  |-> Loss(TwinLoad(t, frame.rows))]
<1>1. answered' = [u \in DOMAIN answered \cup {t} |-> IF u = t THEN result ELSE answered[u]]
  BY DEF ResolveTwin
<1>2. /\ result.failed = (Placed(t) \cap DOMAIN frame.rows = {})
      /\ result.measured = frame.measured
      /\ result.accounted = SumFunction(frame.rows)
      /\ result.modelled = Loss(TwinLoad(t, frame.rows))
  BY Zenon
<1> HIDE DEF result
<1> QED BY <1>1, <1>2

LEMMA BalanceTypes ==
  ASSUME BalanceTypeOK, [EnergyNext]_allVars
  PROVE  BalanceTypeOK'
<1> USE DEF BalanceTypeOK
<1>1. ASSUME [FeederNext]_feederVars, UNCHANGED balanceVars PROVE BalanceTypeOK'
  <2>1. FeederInv'
    BY <1>1, FeederKeeps
  <2>2. UNCHANGED <<belief, estimate, moves, frame, answered>>
    BY <1>1 DEF balanceVars
  <2>3. CASE generating = "stored"
    <3>1. UNCHANGED <<rates, generating, true_consumption, kw, metered, records, status>>
      BY <1>1, <2>3, StoredStays DEF feederVars
    <3>2. \A t : MeasuredInflow(t)' = MeasuredInflow(t)
      BY <3>1 DEF MeasuredInflow, TechnicalLoss, TrulyFed
    <3> QED BY <2>1, <2>2, <2>3, <3>1, <3>2 DEF RecordsOK, FrameOK, AnsweredOK
  <2>4. CASE generating # "stored"
    <3>1. NothingYet
      BY <2>4
    <3> QED BY <2>1, <2>2, <3>1 DEF RecordsOK, FrameOK, AnsweredOK, NothingYet, Idle
  <2> QED BY <2>3, <2>4
<1>2. ASSUME UNCHANGED feederVars, generating = "stored", RecordsOK', FrameOK', AnsweredOK'
      PROVE  BalanceTypeOK'
  <2>1. FeederInv'
    BY <1>2, FeederKeeps
  <2> QED BY <1>2, <2>1 DEF feederVars
<1>3. ASSUME UNCHANGED feederVars PROVE \A t : MeasuredInflow(t)' = MeasuredInflow(t)
  BY <1>3 DEF feederVars, MeasuredInflow, TechnicalLoss, TrulyFed
<1>4. ASSUME NEW c \in Connection, NEW t \in Transformer, NEW placed \in BOOLEAN, Correct(c, t, placed)
      PROVE  BalanceTypeOK'
  <2>1. RecordsOK'
    BY <1>4 DEF RecordsOK, Correct
  <2>2. FrameOK' /\ AnsweredOK'
    BY <1>3, <1>4 DEF FrameOK, AnsweredOK, Correct
  <2> QED BY <1>2, <1>4, <2>1, <2>2 DEF Correct
<1>5. ASSUME NEW t \in Transformer, ResolveAccounted(t) PROVE BalanceTypeOK'
  <2>1. /\ frame'.of = {t} /\ frame'.measured = MeasuredInflow(t) /\ frame'.rows = AccountedRows(t)
        /\ UNCHANGED <<feederVars, belief, estimate, moves, answered>>
        /\ generating = "stored" /\ t \notin DOMAIN answered
    BY <1>5 DEF ResolveAccounted
  <2>2. /\ DOMAIN AccountedRows(t) \subseteq Connection
        /\ \A c \in DOMAIN AccountedRows(t) : AccountedRows(t)[c] \in Nat
    BY CreditType DEF AccountedRows, Resolved
  <2>3. FrameOK'
    BY <1>3, <2>1, <2>2 DEF FrameOK
  <2>4. RecordsOK' /\ AnsweredOK'
    BY <1>3, <2>1 DEF RecordsOK, AnsweredOK
  <2> QED BY <1>2, <2>1, <2>3, <2>4
<1>6. ASSUME NEW t \in Transformer, ResolveTwin(t) PROVE BalanceTypeOK'
  <2>1. frame.of = {t} /\ frame' = Idle /\ UNCHANGED <<feederVars, belief, estimate, moves>>
    BY <1>6 DEF ResolveTwin
  <2>2. generating = "stored"
    BY <2>1 DEF NothingYet, Idle
  <2>3. /\ frame.measured = MeasuredInflow(t) /\ DOMAIN frame.rows \subseteq Connection
        /\ \A c \in DOMAIN frame.rows : frame.rows[c] \in Nat
    BY <2>1 DEF FrameOK
  <2>4. SumFunction(frame.rows) \in Int
    BY <2>3, LossType
  <2>5. AnsweredOK'
    <3>1. DOMAIN answered' \subseteq Transformer
      <4>1. DOMAIN answered' = DOMAIN answered \cup {t}
        BY <1>6, TwinAnswer
      <4>2. DOMAIN answered \subseteq Transformer
        BY DEF AnsweredOK
      <4> QED BY <4>1, <4>2
    <3>2. ASSUME NEW u \in DOMAIN answered'
          PROVE  answered'[u].measured = MeasuredInflow(u)' /\ answered'[u].accounted \in Int
      <4>1. MeasuredInflow(u)' = MeasuredInflow(u)
        BY <1>3, <2>1
      <4>2. CASE u = t
        BY <1>6, <2>3, <2>4, <4>1, <4>2, TwinAnswer
      <4>3. CASE u # t
        <5>1. u \in DOMAIN answered /\ answered'[u] = answered[u]
          BY <1>6, <3>2, <4>3, TwinAnswer
        <5> QED BY <4>1, <5>1 DEF AnsweredOK
      <4> QED BY <4>2, <4>3
    <3> QED BY <3>1, <3>2 DEF AnsweredOK
  <2>6. FrameOK' /\ RecordsOK'
    BY <2>1 DEF FrameOK, RecordsOK, Idle
  <2> QED BY <1>2, <2>1, <2>2, <2>5, <2>6
<1>7. CASE UNCHANGED allVars
  BY <1>1, <1>7 DEF allVars
<1> QED BY <1>1, <1>4, <1>5, <1>6, <1>7 DEF EnergyNext, Generate

(***************************************************************************)
(* No energy is created.                                                   *)
(***************************************************************************)

Asked   == DOMAIN answered \cup frame.of
Pending == {c \in Connection : belief[c].at \notin Asked}

\* Accounted so far; and the credit of corrected connections, once per move.
Given   == SumFunction([t \in DOMAIN answered |-> answered[t].accounted]) + SumFunction(frame.rows)
Shift   == [c \in Connection |-> moves[c] * Credit[c]]
Shifted == SumFunctionOnSet(Shift, Connection)

Balanced ==
  /\ SumFunctionOnSet(Credit, Connection) - Shifted <= Given + SumFunctionOnSet(Credit, Pending)
  /\ Given + SumFunctionOnSet(Credit, Pending) <= SumFunctionOnSet(Credit, Connection) + Shifted

LEMMA CreditSum ==
  ASSUME FeederInv, RecordsOK, NEW S \in SUBSET Connection
  PROVE  SumFunctionOnSet(Credit, S) \in Int
<1>1. \A c \in S : Credit[c] \in Int
  BY CreditType
<1> QED BY <1>1, SubsetsFinite, SumIsInt

LEMMA ShiftSum ==
  ASSUME FeederInv, RecordsOK, NEW S \in SUBSET Connection
  PROVE  /\ \A c \in Connection : /\ Shift[c] \in Nat /\ Shift[c] \in Int
                                  /\ Shift[c] = moves[c] * Credit[c]
         /\ SumFunctionOnSet(Shift, S) \in Int
<1>1. \A c \in Connection : Shift[c] = moves[c] * Credit[c] /\ moves[c] \in Nat /\ Credit[c] \in Nat
  BY CreditType DEF Shift, RecordsOK
<1>2. \A c \in Connection : Shift[c] \in Nat /\ Shift[c] \in Int
  <2> TAKE c \in Connection
  <2> DEFINE m == moves[c]
             k == Credit[c]
  <2>1. m \in Nat /\ k \in Nat /\ Shift[c] = m * k
    BY <1>1
  <2> HIDE DEF m, k
  <2> QED BY <2>1
<1>3. \A c \in S : Shift[c] \in Int
  BY <1>2
<1> QED BY <1>1, <1>2, <1>3, SubsetsFinite, SumIsInt

\* Nothing is answered while nothing is asked.
LEMMA IdleSum ==
  ASSUME frame = Idle
  PROVE  SumFunction(frame.rows) = 0
<1>1. frame.rows = <<>> /\ DOMAIN <<>> = {}
  BY DEF Idle
<1>2. SumFunctionOnSet(<<>>, {}) = 0
  BY SumEmpty
<1> QED BY <1>1, <1>2 DEF SumFunction

LEMMA GivenSums ==
  ASSUME BalanceTypeOK
  PROVE  /\ SumFunction(frame.rows) \in Int
         /\ IsFiniteSet(DOMAIN answered)
         /\ SumFunctionOnSet([t \in DOMAIN answered |-> answered[t].accounted], DOMAIN answered) \in Int
<1>1. SumFunction(frame.rows) \in Int
  <2>1. CASE frame.of = {}
    BY <2>1, IdleSum DEF BalanceTypeOK, FrameOK
  <2>2. CASE frame.of # {}
    <3>1. DOMAIN frame.rows \subseteq Connection /\ \A c \in DOMAIN frame.rows : frame.rows[c] \in Nat
      BY <2>2 DEF BalanceTypeOK, FrameOK
    <3> QED BY <3>1, LossType
  <2> QED BY <2>1, <2>2
<1>2. IsFiniteSet(DOMAIN answered)
  BY BalanceAssumption, FS_Subset DEF BalanceTypeOK, AnsweredOK
<1> DEFINE f == [t \in DOMAIN answered |-> answered[t].accounted]
<1>3. \A t \in DOMAIN answered : f[t] \in Int
  BY DEF BalanceTypeOK, AnsweredOK
<1> HIDE DEF f
<1>4. SumFunctionOnSet(f, DOMAIN answered) \in Int
  BY <1>2, <1>3, SumIsInt
<1> QED BY <1>1, <1>2, <1>4 DEF f

\* The rows of a transformer sum to the credit of what is recorded at it.
LEMMA RowsSum ==
  ASSUME FeederInv, RecordsOK, NEW t
  PROVE  SumFunction(AccountedRows(t)) = SumFunctionOnSet(Credit, Resolved(t))
<1> DEFINE Own == {c \in Resolved(t) : Accountable(c)}
           rows == AccountedRows(t)
<1>1. Own \in SUBSET Resolved(t) /\ Resolved(t) \in SUBSET Connection
  BY DEF Resolved
<1>2. DOMAIN rows = Own /\ \A c \in Own : rows[c] = Credit[c] /\ rows[c] \in Int
  BY <1>1, CreditType DEF AccountedRows
<1>3. /\ \A c \in Resolved(t) : Credit[c] \in Int
      /\ \A c \in Resolved(t) \ Own : Credit[c] = 0
  BY <1>1, CreditType
<1> HIDE DEF Own, rows
<1>4. SumFunctionOnSet(rows, Own) = SumFunctionOnSet(Credit, Own)
  <2>1. IsFiniteSet(Own)
    BY <1>1, SubsetsFinite
  <2> QED BY <1>2, <2>1, SumSameTerms
<1>5. SumFunctionOnSet(Credit, Resolved(t)) = SumFunctionOnSet(Credit, Own)
  BY <1>1, <1>3, SubsetsFinite, SumDropZeros
<1> QED BY <1>2, <1>4, <1>5 DEF SumFunction, rows

\* Before the first question everything is pending.
LEMMA FreshBalanced ==
  ASSUME FeederInv, RecordsOK, NothingYet
  PROVE  Balanced
<1>1. SumFunction(frame.rows) = 0
  BY IdleSum DEF NothingYet
<1>2. SumFunction([t \in DOMAIN answered |-> answered[t].accounted]) = 0
  <2> DEFINE f == [t \in DOMAIN answered |-> answered[t].accounted]
  <2>1. DOMAIN f = {}
    BY DEF NothingYet
  <2> HIDE DEF f
  <2>2. SumFunctionOnSet(f, {}) = 0
    BY SumEmpty
  <2> QED BY <2>1, <2>2 DEF SumFunction, f
<1>3. Pending = Connection
  BY DEF NothingYet, Idle, Pending, Asked
<1>4. Shifted = 0
  <2>1. \A c \in Connection : Shift[c] = 0
    <3> TAKE c \in Connection
    <3>1. moves[c] = 0 /\ Credit[c] \in Nat /\ Shift[c] = moves[c] * Credit[c]
      BY CreditType, ShiftSum DEF NothingYet
    <3> QED BY <3>1
  <2> QED BY <2>1, BalanceAssumption, SumOfZeros DEF Shifted
<1>5. SumFunctionOnSet(Credit, Connection) \in Int
  BY CreditSum
<1> QED BY <1>1, <1>2, <1>3, <1>4, <1>5 DEF Balanced, Given

\* A correction moves the credit of one connection, and is counted for it.
LEMMA CorrectBalances ==
  ASSUME BalanceTypeOK, Balanced, NEW c \in Connection, NEW t \in Transformer,
         NEW placed \in BOOLEAN, Correct(c, t, placed)
  PROVE  Balanced'
<1>0. FeederInv /\ RecordsOK /\ BalanceTypeOK'
  <2>1. [EnergyNext]_allVars
    BY DEF EnergyNext
  <2> QED BY <2>1, BalanceTypes DEF BalanceTypeOK
<1>1. Credit' = Credit /\ Given' = Given /\ Asked' = Asked
  BY DEF Correct, feederVars, Credit, Accountable, Accounted, Given, Asked
<1>2. /\ \A d \in Connection : d # c => Shift'[d] = Shift[d]
      /\ Shift'[c] = Shift[c] + Credit[c]
  <2>1. \A d \in Connection : Shift'[d] = moves'[d] * Credit[d] /\ Shift[d] = moves[d] * Credit[d]
    BY <1>1 DEF Shift
  <2>2. /\ \A d \in Connection : d # c => moves'[d] = moves[d]
        /\ moves'[c] = moves[c] + 1 /\ moves[c] \in Nat
    BY <1>0 DEF RecordsOK, Correct
  <2>3. Credit[c] \in Nat
    BY <1>0, CreditType
  <2>4. (moves[c] + 1) * Credit[c] = moves[c] * Credit[c] + Credit[c]
    <3> DEFINE m == moves[c]
               k == Credit[c]
    <3>1. m \in Nat /\ k \in Nat
      BY <2>2, <2>3
    <3> HIDE DEF m, k
    <3>2. (m + 1) * k = m * k + k
      BY <3>1
    <3> QED BY <3>2 DEF m, k
  <2> QED BY <2>1, <2>2, <2>4
<1> DEFINE others == Connection \ {c}
<1>3. Shifted' = Shifted + Credit[c]
  <2>1. \A d \in Connection : Shift[d] \in Int /\ Credit[d] \in Int
    BY <1>0, CreditType, ShiftSum
  <2>2. \A d \in Connection : Shift'[d] \in Int
    BY <1>2, <2>1
  <2> DEFINE after == Shift'
  <2> HIDE DEF after
  <2>3. SumFunctionOnSet(Shift, Connection) = Shift[c] + SumFunctionOnSet(Shift, others)
    BY <2>1, BalanceAssumption, SumTakeOut
  <2>4. SumFunctionOnSet(after, Connection) = after[c] + SumFunctionOnSet(after, others)
    BY <2>2, BalanceAssumption, SumTakeOut DEF after
  <2>5. SumFunctionOnSet(after, others) = SumFunctionOnSet(Shift, others)
    <3>1. IsFiniteSet(others) /\ \A d \in others : after[d] \in Int /\ after[d] = Shift[d]
      BY <1>2, <2>2, SubsetsFinite DEF after
    <3> HIDE DEF others
    <3> QED BY <3>1, SumSameTerms
  <2>6. SumFunctionOnSet(Shift, others) \in Int
    BY <1>0, ShiftSum
  <2>7. Shifted = Shift[c] + SumFunctionOnSet(Shift, others)
    BY <2>3 DEF Shifted
  <2>8. Shifted' = after[c] + SumFunctionOnSet(Shift, others)
    BY <2>4, <2>5 DEF Shifted, after
  <2> HIDE DEF others
  <2> QED BY <1>2, <2>1, <2>6, <2>7, <2>8 DEF after
<1>4. Pending \ {c} = Pending' \ {c}
  <2>1. \A d \in Connection : d # c => belief'[d] = belief[d]
    BY <1>0 DEF RecordsOK, Correct
  <2> QED BY <1>1, <2>1 DEF Pending
<1>5. ASSUME NEW S \in SUBSET Connection
      PROVE  SumFunctionOnSet(Credit, S) \in {SumFunctionOnSet(Credit, S \ {c}),
                                              SumFunctionOnSet(Credit, S \ {c}) + Credit[c]}
  <2>1. CASE c \in S
    <3>1. \A d \in S : Credit[d] \in Int
      BY <1>0, CreditType
    <3>2. SumFunctionOnSet(Credit, S) = Credit[c] + SumFunctionOnSet(Credit, S \ {c})
      BY <2>1, <3>1, SubsetsFinite, SumTakeOut
    <3>3. SumFunctionOnSet(Credit, S \ {c}) \in Int /\ Credit[c] \in Int
      BY <1>0, <2>1, <3>1, CreditSum
    <3> QED BY <3>2, <3>3
  <2>2. CASE c \notin S
    <3>1. S \ {c} = S
      BY <2>2
    <3> QED BY <3>1
  <2> QED BY <2>1, <2>2
<1> DEFINE whole  == SumFunctionOnSet(Credit, Connection)
           rest   == SumFunctionOnSet(Credit, Pending)
           later  == SumFunctionOnSet(Credit, Pending')
           common == SumFunctionOnSet(Credit, Pending \ {c})
           credit == Credit[c]
<1>6. rest \in {common, common + credit} /\ later \in {common, common + credit}
  <2>1. Pending \in SUBSET Connection /\ Pending' \in SUBSET Connection
    BY DEF Pending
  <2> QED BY <1>4, <1>5, <2>1
<1>7. whole \in Int /\ common \in Int /\ credit \in Nat
  <2>1. Pending \ {c} \in SUBSET Connection
    BY DEF Pending
  <2> QED BY <1>0, <2>1, CreditSum, CreditType
<1>8. Given \in Int /\ Shifted \in Int
  BY <1>0, GivenSums, ShiftSum DEF Given, Shifted, SumFunction
<1>9. whole - Shifted <= Given + rest /\ Given + rest <= whole + Shifted
  BY DEF Balanced
<1> HIDE DEF whole, rest, later, common, credit
<1>10. /\ whole - (Shifted + credit) <= Given + later
       /\ Given + later <= whole + (Shifted + credit)
  BY <1>6, <1>7, <1>8, <1>9
<1> QED BY <1>1, <1>3, <1>10 DEF Balanced, whole, later, credit

\* What a transformer is asked for is taken from what is pending.
LEMMA AskBalances ==
  ASSUME BalanceTypeOK, Balanced, NEW t \in Transformer, ResolveAccounted(t)
  PROVE  Balanced'
<1>0. FeederInv /\ RecordsOK
  BY DEF BalanceTypeOK
<1>1. /\ frame'.of = {t} /\ frame'.rows = AccountedRows(t) /\ frame = Idle
      /\ t \notin DOMAIN answered
      /\ UNCHANGED <<feederVars, belief, estimate, moves, answered>>
  BY DEF ResolveAccounted
<1>2. Credit' = Credit /\ Shifted' = Shifted
  BY <1>1 DEF feederVars, Credit, Accountable, Accounted, Shifted, Shift
<1>3. SumFunction(frame.rows) = 0 /\ SumFunction(frame'.rows) = SumFunctionOnSet(Credit, Resolved(t))
  BY <1>0, <1>1, IdleSum, RowsSum
<1>4. Pending = Pending' \cup Resolved(t) /\ Pending' \cap Resolved(t) = {}
  BY <1>1 DEF Pending, Asked, Resolved, Idle
<1> DEFINE due == Resolved(t)
           later == Pending'
<1>5. SumFunctionOnSet(Credit, later \cup due)
        = SumFunctionOnSet(Credit, later) + SumFunctionOnSet(Credit, due)
  <2>1. later \in SUBSET Connection /\ due \in SUBSET Connection /\ later \cap due = {}
    BY <1>4 DEF Pending, Resolved
  <2>2. IsFiniteSet(later) /\ IsFiniteSet(due) /\ \A c \in later \cup due : Credit[c] \in Int
    BY <1>0, <2>1, SubsetsFinite, CreditType
  <2> HIDE DEF later, due
  <2> QED BY <2>1, <2>2, SumOfUnion
<1>6. /\ SumFunctionOnSet(Credit, later) \in Int /\ SumFunctionOnSet(Credit, due) \in Int
  <2>1. later \in SUBSET Connection /\ due \in SUBSET Connection
    BY DEF Pending, Resolved
  <2> QED BY <1>0, <2>1, CreditSum
<1> DEFINE past == SumFunction([u \in DOMAIN answered |-> answered[u].accounted])
<1>7. past \in Int /\ past' = past
  BY <1>1, GivenSums DEF SumFunction
<1>8. /\ Given = past
      /\ Given' = past + SumFunctionOnSet(Credit, due)
      /\ SumFunctionOnSet(Credit, Pending) = SumFunctionOnSet(Credit, later) + SumFunctionOnSet(Credit, due)
  <2>1. Given = past + 0 /\ Given' = past' + SumFunctionOnSet(Credit, due)
    BY <1>3 DEF Given
  <2>2. Pending = later \cup due
    BY <1>4
  <2> HIDE DEF past, later, due
  <2> QED BY <1>5, <1>7, <2>1, <2>2
<1> HIDE DEF past, due
<1>9. Given' + SumFunctionOnSet(Credit, later) = Given + SumFunctionOnSet(Credit, Pending)
  BY <1>6, <1>7, <1>8
<1> QED BY <1>2, <1>9 DEF Balanced

\* What was asked for becomes an answer.
LEMMA AnswerBalances ==
  ASSUME BalanceTypeOK, Balanced, NEW t \in Transformer, ResolveTwin(t)
  PROVE  Balanced'
<1>1. /\ frame.of = {t} /\ frame' = Idle /\ frame'.of = {}
      /\ UNCHANGED <<feederVars, belief, estimate, moves>>
  BY DEF ResolveTwin, Idle
<1>2. t \notin DOMAIN answered
  BY <1>1 DEF BalanceTypeOK, FrameOK
<1>3. Credit' = Credit /\ Shifted' = Shifted
  BY <1>1 DEF feederVars, Credit, Accountable, Accounted, Shifted, Shift
<1>4. Pending' = Pending
  <2>1. Asked' = Asked
    BY <1>1, TwinAnswer DEF Asked
  <2> QED BY <1>1, <2>1 DEF Pending
<1> DEFINE f == [u \in DOMAIN answered |-> answered[u].accounted]
           g == [u \in DOMAIN answered' |-> answered'[u].accounted]
           D == DOMAIN answered
<1>5. DOMAIN answered' = D \cup {t} /\ DOMAIN f = D /\ DOMAIN g = D \cup {t}
  BY TwinAnswer
<1>6. \A u \in D : f[u] \in Int /\ g[u] = f[u]
  <2> TAKE u \in D
  <2>1. u # t /\ answered'[u] = answered[u] /\ u \in DOMAIN answered'
    BY <1>2, <1>5, TwinAnswer
  <2> QED BY <2>1 DEF BalanceTypeOK, AnsweredOK
<1>7. g[t] = SumFunction(frame.rows) /\ g[t] \in Int
  BY <1>5, TwinAnswer, GivenSums
<1>8. IsFiniteSet(D) /\ SumFunctionOnSet(f, D) \in Int
  BY GivenSums
<1>9. Given = SumFunctionOnSet(f, D) + SumFunction(frame.rows)
  BY <1>5 DEF Given, SumFunction
<1>10. Given' = SumFunctionOnSet(g, D \cup {t}) + 0
  <2>1. (SumFunction(frame.rows))' = 0
    <3>1. frame'.rows = <<>> /\ DOMAIN <<>> = {}
      BY <1>1 DEF Idle
    <3>2. SumFunctionOnSet(<<>>, {}) = 0
      BY SumEmpty
    <3> QED BY <3>1, <3>2 DEF SumFunction
  <2> QED BY <1>5, <2>1 DEF Given, SumFunction
<1> HIDE DEF f, g, D
<1>11. SumFunctionOnSet(g, D \cup {t}) = g[t] + SumFunctionOnSet(g, D)
  <2>1. t \notin D /\ \A u \in D \cup {t} : g[u] \in Int
    BY <1>2, <1>6, <1>7 DEF D
  <2> QED BY <1>8, <2>1, SumPutIn
<1>12. SumFunctionOnSet(g, D) = SumFunctionOnSet(f, D)
  <2>1. \A u \in D : g[u] \in Int /\ g[u] = f[u]
    BY <1>6
  <2> QED BY <1>8, <2>1, SumSameTerms
<1>13. Given' = Given
  BY <1>7, <1>8, <1>9, <1>10, <1>11, <1>12
<1> QED BY <1>3, <1>4, <1>13 DEF Balanced

LEMMA BalanceKept ==
  ASSUME BalanceTypeOK, Balanced, [EnergyNext]_allVars
  PROVE  Balanced'
<1>0. BalanceTypeOK'
  BY BalanceTypes
<1>1. ASSUME [FeederNext]_feederVars, UNCHANGED balanceVars PROVE Balanced'
  <2>1. CASE generating = "stored"
    <3>1. UNCHANGED <<feederVars, balanceVars>>
      BY <1>1, <2>1, StoredStays
    <3> QED BY <3>1 DEF feederVars, balanceVars, Balanced, Shifted, Shift, Given, Pending, Asked,
                        Credit, Accountable, Accounted
  <2>2. CASE generating # "stored"
    <3>1. NothingYet'
      BY <1>1, <2>2 DEF BalanceTypeOK, NothingYet, balanceVars
    <3>2. (FeederInv /\ RecordsOK /\ NothingYet)'
      BY <1>0, <3>1 DEF BalanceTypeOK
    <3>3. (FeederInv /\ RecordsOK /\ NothingYet => Balanced)'
      BY FreshBalanced, PTL
    <3> QED BY <3>2, <3>3
  <2> QED BY <2>1, <2>2
<1>2. CASE UNCHANGED allVars
  BY <1>1, <1>2 DEF allVars
<1> QED BY <1>1, <1>2, CorrectBalances, AskBalances, AnswerBalances DEF EnergyNext, Generate

\* When every transformer has answered, nothing is pending.
LEMMA BalancedAccounts ==
  ASSUME BalanceTypeOK, Balanced
  PROVE  EnergyAccountedOnce
<1> SUFFICES ASSUME DOMAIN answered = Transformer
             PROVE  LET difference ==
                          SumFunction([t \in Transformer |->
                             answered[t].measured - answered[t].accounted - TechnicalLoss(t)])
                            - SumFunction([c \in Connection |-> Hidden(c)])
                        moved == SumFunction([c \in {c \in Connection : moves[c] > 0 /\ Accountable(c)} |->
                                                moves[c] * Accounted(c)])
                    IN  -moved <= difference /\ difference <= moved
  BY DEF EnergyAccountedOnce
<1> DEFINE left   == [t \in Transformer |->
                        answered[t].measured - answered[t].accounted - TechnicalLoss(t)]
           given  == [t \in Transformer |-> answered[t].accounted]
           fed    == [t \in Transformer |-> TrulyFed(t)]
           drawn  == [t \in Transformer |-> SumFunctionOnSet(kw, TrulyFed(t))]
           hidden == [c \in Connection |-> Hidden(c)]
           M      == {c \in Connection : moves[c] > 0 /\ Accountable(c)}
           moved  == [c \in M |-> moves[c] * Accounted(c)]
<1>0. FeederInv /\ RecordsOK /\ IsFiniteSet(Transformer) /\ IsFiniteSet(Connection)
  BY BalanceAssumption DEF BalanceTypeOK
<1>1. Pending = {}
  BY <1>0 DEF Pending, Asked, RecordsOK
<1>2. frame = Idle
  BY DEF BalanceTypeOK, FrameOK
<1>3. \A t \in Transformer : /\ given[t] \in Int /\ drawn[t] \in Int
                             /\ left[t] \in Int /\ drawn[t] = left[t] + given[t]
  <2> TAKE t \in Transformer
  <2>1. answered[t].measured = MeasuredInflow(t) /\ answered[t].accounted \in Int
    BY DEF BalanceTypeOK, AnsweredOK
  <2>2. /\ TechnicalLoss(t) \in Int /\ SumFunctionOnSet(kw, TrulyFed(t)) \in Int
        /\ MeasuredInflow(t) = SumFunctionOnSet(kw, TrulyFed(t)) + TechnicalLoss(t)
    BY <1>0, MeasuredType
  <2> QED BY <2>1, <2>2
<1>4. \A t \in Transformer : fed[t] \in SUBSET Connection /\ drawn[t] = SumFunctionOnSet(kw, fed[t])
  BY DEF TrulyFed
<1>5. \A t, u \in Transformer : t # u => fed[t] \cap fed[u] = {}
  BY DEF TrulyFed
<1>6. UNION {fed[t] : t \in Transformer} = Connection
  BY FeederAssumption DEF TrulyFed
<1>7. \A c \in Connection : /\ kw[c] \in Int /\ hidden[c] \in Int /\ Credit[c] \in Int
                            /\ kw[c] = hidden[c] + Credit[c]
  <2> TAKE c \in Connection
  <2>1. kw[c] \in Int /\ Credit[c] \in Int
    BY <1>0, CreditType DEF FeederInv, FeederTypeOK
  <2>2. hidden[c] = kw[c] - Credit[c]
    BY DEF Hidden, Credit
  <2> QED BY <2>1, <2>2
<1>8. /\ M \in SUBSET Connection
      /\ \A c \in M : moved[c] = Shift[c] /\ Shift[c] \in Int
      /\ \A c \in Connection : Shift[c] \in Int
      /\ \A c \in Connection \ M : Shift[c] = 0
  <2>1. \A c \in Connection : Shift[c] \in Int /\ Shift[c] = moves[c] * Credit[c]
    BY <1>0, ShiftSum
  <2>2. \A c \in M : moved[c] = Shift[c]
    BY <1>0, <2>1, CreditType
  <2>3. ASSUME NEW c \in Connection \ M PROVE Shift[c] = 0
    <3>1. moves[c] \in Nat /\ Credit[c] \in Nat
      BY <1>0, CreditType DEF RecordsOK
    <3>2. moves[c] = 0 \/ Credit[c] = 0
      BY <1>0, <3>1, CreditType
    <3> DEFINE m == moves[c]
               k == Credit[c]
    <3>3. m \in Nat /\ k \in Nat /\ (m = 0 \/ k = 0) /\ Shift[c] = m * k
      BY <2>1, <3>1, <3>2
    <3> HIDE DEF m, k
    <3> QED BY <3>3
  <2> QED BY <2>1, <2>2, <2>3
<1>9. DOMAIN left = Transformer /\ DOMAIN given = Transformer /\ DOMAIN hidden = Connection /\ DOMAIN moved = M
  OBVIOUS
<1>10. /\ Given = SumFunctionOnSet(given, Transformer) + 0
       /\ SumFunctionOnSet(Credit, Pending) = 0
  <2>1. [t \in DOMAIN answered |-> answered[t].accounted] = given
    OBVIOUS
  <2>2. SumFunctionOnSet(Credit, {}) = 0
    BY SumEmpty
  <2> QED BY <1>1, <1>2, <1>9, <2>1, <2>2, IdleSum DEF Given, SumFunction
<1> HIDE DEF left, given, fed, drawn, hidden, M, moved
<1>11. SumFunctionOnSet(drawn, Transformer) = SumFunctionOnSet(left, Transformer) + SumFunctionOnSet(given, Transformer)
  BY <1>0, <1>3, SumOfPlus
<1>12. SumFunctionOnSet(drawn, Transformer) = SumFunctionOnSet(kw, Connection)
  <2>1. SumFunctionOnSet(drawn, Transformer) = SumFunctionOnSet(kw, UNION {fed[t] : t \in Transformer})
    BY <1>0, <1>4, <1>5, <1>7, SumOfParts
  <2> QED BY <1>6, <2>1
<1>13. SumFunctionOnSet(kw, Connection) = SumFunctionOnSet(hidden, Connection) + SumFunctionOnSet(Credit, Connection)
  BY <1>0, <1>7, SumOfPlus
<1>14. Shifted = SumFunctionOnSet(moved, M)
  <2>1. SumFunctionOnSet(Shift, Connection) = SumFunctionOnSet(Shift, M)
    BY <1>0, <1>8, SumDropZeros
  <2>2. SumFunctionOnSet(Shift, M) = SumFunctionOnSet(moved, M)
    BY <1>8, SubsetsFinite, SumSameTerms
  <2> QED BY <2>1, <2>2 DEF Shifted
<1> DEFINE l == SumFunctionOnSet(left, Transformer)
           g == SumFunctionOnSet(given, Transformer)
           h == SumFunctionOnSet(hidden, Connection)
           k == SumFunctionOnSet(Credit, Connection)
<1>15. l \in Int /\ g \in Int /\ h \in Int /\ k \in Int /\ Shifted \in Int
  BY <1>0, <1>3, <1>7, SumIsInt, ShiftSum DEF Shifted
<1>16. l + g = h + k
  BY <1>11, <1>12, <1>13
<1>17. k - Shifted <= g + 0 /\ g + 0 <= k + Shifted
  <2>1. k - Shifted <= Given + 0 /\ Given + 0 <= k + Shifted
    BY <1>10 DEF Balanced
  <2>2. Given = g
    BY <1>10, <1>15
  <2> QED BY <2>1, <2>2
<1> HIDE DEF l, g, h, k
<1>18. -Shifted <= l - h /\ l - h <= Shifted
  BY <1>15, <1>16, <1>17
<1>19. SumFunction(left) = l /\ SumFunction(hidden) = h /\ SumFunction(moved) = Shifted
  BY <1>9, <1>14 DEF SumFunction, l, h
<1> QED BY <1>18, <1>19 DEF left, hidden, moved, M

(***************************************************************************)
(* Losses never hide theft.                                                *)
(***************************************************************************)

\* Nobody having been corrected, answers are what the records give now.
Undisturbed ==
  (\A c \in Connection : moves[c] = 0) =>
    /\ \A c \in Connection : belief[c].placed = (belief[c].at = FedBy[c])
    /\ \A t \in frame.of : frame.rows = AccountedRows(t)
    /\ \A t \in DOMAIN answered :
         /\ answered[t].accounted = SumFunction(AccountedRows(t))
         /\ answered[t].modelled = Loss(TwinLoad(t, AccountedRows(t)))

LEMMA TransformerLossGrows ==
  ASSUME NEW a \in Nat, NEW b \in Nat, a <= b
  PROVE  TransformerLoss(a) <= TransformerLoss(b)
<1> DEFINE x == Least(a, 2 * Rating)
           y == Least(b, 2 * Rating)
           d == Rating * Rating
<1>1. Rating \in Nat \ {0} /\ LoadLoss \in Nat /\ NoLoadLoss \in Nat
  BY BalanceAssumption
<1>2. x \in Nat /\ y \in Nat /\ x <= y
  BY <1>1 DEF Least
<1>3. d \in Nat \ {0}
  BY <1>1
<1>4. TransformerLoss(a) = NoLoadLoss + (LoadLoss * x * x) \div d
      /\ TransformerLoss(b) = NoLoadLoss + (LoadLoss * y * y) \div d
  BY DEF TransformerLoss
<1> HIDE DEF x, y, d
<1>5. LoadLoss * x \in Nat /\ LoadLoss * y \in Nat /\ LoadLoss * x <= LoadLoss * y
  BY <1>1, <1>2
<1> DEFINE p == LoadLoss * x
           q == LoadLoss * y
<1>6. p \in Nat /\ q \in Nat /\ p <= q
  BY <1>5
<1> HIDE DEF p, q
<1>7. p * x \in Nat /\ q * y \in Nat /\ p * x <= q * y
  <2>1. p * x \in Nat /\ p * y \in Nat /\ q * y \in Nat
    BY <1>2, <1>6
  <2>2. p * x <= p * y
    BY <1>2, <1>6
  <2>3. p * y <= q * y
    BY <1>2, <1>6
  <2> QED BY <2>1, <2>2, <2>3
<1> DEFINE r == p * x
           s == q * y
<1>8. r \in Nat /\ s \in Nat /\ r <= s
  BY <1>7
<1> HIDE DEF r, s
<1>9. r \div d <= s \div d /\ r \div d \in Int /\ s \div d \in Int
  BY <1>3, <1>8
<1>10. TransformerLoss(a) = NoLoadLoss + r \div d /\ TransformerLoss(b) = NoLoadLoss + s \div d
  BY <1>4 DEF r, s, p, q
<1> QED BY <1>1, <1>9, <1>10

LEMMA LossGrows ==
  ASSUME NEW S \in SUBSET Connection, NEW f, NEW g, DOMAIN f = S, DOMAIN g = S,
         \A c \in S : f[c] \in Nat /\ g[c] \in Nat /\ f[c] <= g[c]
  PROVE  Loss(f) <= Loss(g)
<1>1. IsFiniteSet(S) /\ \A c \in S : f[c] \in Int /\ g[c] \in Int /\ f[c] <= g[c]
  <2>1. \A c \in S : f[c] \in Int /\ g[c] \in Int
    <3> TAKE c \in S
    <3>1. f[c] \in Nat /\ g[c] \in Nat
      OBVIOUS
    <3> QED BY <3>1
  <2> QED BY <2>1, SubsetsFinite
<1>2. SumFunction(f) <= SumFunction(g) /\ SumFunction(f) >= 0 /\ SumFunction(g) >= 0
      /\ SumFunction(f) \in Int /\ SumFunction(g) \in Int
  <2> DEFINE z == [c \in S |-> 0]
  <2>1. \A c \in S : z[c] \in Int /\ z[c] <= f[c] /\ z[c] <= g[c] /\ z[c] = 0
    BY <1>1
  <2> HIDE DEF z
  <2>2. SumFunctionOnSet(z, S) = 0
    BY <1>1, <2>1, SumOfZeros
  <2>3. /\ SumFunctionOnSet(f, S) <= SumFunctionOnSet(g, S)
        /\ SumFunctionOnSet(z, S) <= SumFunctionOnSet(f, S)
        /\ SumFunctionOnSet(z, S) <= SumFunctionOnSet(g, S)
    BY <1>1, <2>1, SumMonotone
  <2>4. SumFunctionOnSet(f, S) \in Int /\ SumFunctionOnSet(g, S) \in Int
    BY <1>1, SumIsInt
  <2> QED BY <2>2, <2>3, <2>4 DEF SumFunction
<1>3. TransformerLoss(SumFunction(f)) <= TransformerLoss(SumFunction(g))
  <2> DEFINE a == SumFunction(f)
             b == SumFunction(g)
  <2>1. a \in Nat /\ b \in Nat /\ a <= b
    BY <1>2
  <2> HIDE DEF a, b
  <2>2. TransformerLoss(a) <= TransformerLoss(b)
    BY <2>1, TransformerLossGrows
  <2> QED BY <2>2 DEF a, b
<1>4. NetworkLoss(f) <= NetworkLoss(g)
  <2> DEFINE p == [c \in DOMAIN f |-> (f[c] * f[c]) \div DropScale]
             q == [c \in DOMAIN g |-> (g[c] * g[c]) \div DropScale]
  <2>1. DOMAIN p = S /\ DOMAIN q = S
    OBVIOUS
  <2>2. \A c \in S : p[c] \in Int /\ q[c] \in Int /\ p[c] <= q[c]
    <3> TAKE c \in S
    <3> DEFINE a == f[c]
               b == g[c]
    <3>1. a \in Nat /\ b \in Nat /\ a <= b /\ DropScale \in Nat \ {0}
      BY BalanceAssumption
    <3>2. p[c] = (a * a) \div DropScale /\ q[c] = (b * b) \div DropScale
      OBVIOUS
    <3> HIDE DEF a, b
    <3> DEFINE aa == a * a
               bb == b * b
    <3>3. aa \in Nat /\ bb \in Nat /\ aa <= bb
      BY <3>1
    <3> HIDE DEF aa, bb
    <3>4. aa \div DropScale \in Int /\ bb \div DropScale \in Int /\ aa \div DropScale <= bb \div DropScale
      BY <3>1, <3>3
    <3> HIDE DEF p, q
    <3>5. p[c] = aa \div DropScale /\ q[c] = bb \div DropScale
      BY <3>2 DEF aa, bb
    <3> QED BY <3>4, <3>5
  <2>3. NetworkLoss(f) = SumFunctionOnSet(p, S) /\ NetworkLoss(g) = SumFunctionOnSet(q, S)
    BY <2>1 DEF NetworkLoss, SumFunction
  <2> HIDE DEF p, q
  <2> QED BY <1>1, <2>2, <2>3, SumMonotone
<1>5. CASE S = {}
  BY <1>5 DEF Loss
<1>6. CASE S # {}
  <2>1. /\ Loss(f) = TransformerLoss(SumFunction(f)) + NetworkLoss(f)
        /\ Loss(g) = TransformerLoss(SumFunction(g)) + NetworkLoss(g)
    BY <1>6 DEF Loss
  <2>2. /\ NetworkLoss(f) \in Int /\ NetworkLoss(g) \in Int
        /\ TransformerLoss(SumFunction(f)) \in Int /\ TransformerLoss(SumFunction(g)) \in Int
    BY <1>2, LossParts
  <2> QED BY <1>3, <1>4, <2>1, <2>2
<1> QED BY <1>5, <1>6

LEMMA UndisturbedInitially == EnergyInit => Undisturbed
<1> SUFFICES ASSUME EnergyInit PROVE Undisturbed
  OBVIOUS
<1>1. PICK at \in [Connection -> Transformer] :
        belief = [c \in Connection |-> [at |-> at[c], placed |-> at[c] = FedBy[c]]]
  BY DEF EnergyInit
<1>2. \A c \in Connection : belief[c].placed = (belief[c].at = FedBy[c])
  BY <1>1, Zenon
<1>3. DOMAIN answered = {} /\ frame.of = {}
  BY DEF EnergyInit, Idle
<1> QED BY <1>2, <1>3 DEF Undisturbed

LEMMA UndisturbedKept ==
  ASSUME BalanceTypeOK, Undisturbed, [EnergyNext]_allVars
  PROVE  Undisturbed'
<1>1. ASSUME [FeederNext]_feederVars, UNCHANGED balanceVars PROVE Undisturbed'
  <2>1. CASE generating = "stored"
    <3>1. UNCHANGED <<feederVars, belief, estimate, moves, frame, answered>>
      BY <1>1, <2>1, StoredStays DEF balanceVars
    <3>2. \A u : AccountedRows(u)' = AccountedRows(u)
      BY <3>1 DEF feederVars, AccountedRows, Resolved, Accountable, Accounted
    <3>3. \A u : TwinLoad(u, AccountedRows(u))' = TwinLoad(u, AccountedRows(u))
      BY <3>1 DEF feederVars, AccountedRows, TwinLoad, Placed, Resolved, Accountable, Accounted
    <3> QED BY <3>1, <3>2, <3>3 DEF Undisturbed
  <2>2. CASE generating # "stored"
    <3>1. DOMAIN answered' = {} /\ frame'.of = {}
      BY <1>1, <2>2 DEF BalanceTypeOK, NothingYet, balanceVars, Idle
    <3>2. UNCHANGED <<belief, moves>>
      BY <1>1 DEF balanceVars
    <3> QED BY <3>1, <3>2 DEF Undisturbed
  <2> QED BY <2>1, <2>2
<1>2. ASSUME NEW c \in Connection, NEW t \in Transformer, NEW placed \in BOOLEAN, Correct(c, t, placed)
      PROVE  Undisturbed'
  <2>1. moves'[c] = moves[c] + 1 /\ moves[c] \in Nat
    BY <1>2 DEF Correct, BalanceTypeOK, RecordsOK
  <2>2. moves'[c] # 0
    BY <2>1
  <2> QED BY <2>2 DEF Undisturbed
<1>3. ASSUME UNCHANGED <<feederVars, belief, estimate, moves>>
      PROVE  \A t, rows : /\ AccountedRows(t)' = AccountedRows(t)
                          /\ TwinLoad(t, rows)' = TwinLoad(t, rows)
  BY <1>3 DEF feederVars, AccountedRows, TwinLoad, Placed, Resolved, Accountable, Accounted
<1>4. ASSUME NEW t \in Transformer, ResolveAccounted(t) PROVE Undisturbed'
  <2>1. /\ frame'.of = {t} /\ frame'.rows = AccountedRows(t)
        /\ UNCHANGED <<feederVars, belief, estimate, moves, answered>>
    BY <1>4 DEF ResolveAccounted
  <2>2. \A u : AccountedRows(u)' = AccountedRows(u)
    BY <1>3, <2>1
  <2>3. \A u : TwinLoad(u, AccountedRows(u))' = TwinLoad(u, AccountedRows(u))
    BY <2>1 DEF feederVars, AccountedRows, TwinLoad, Placed, Resolved, Accountable, Accounted
  <2> QED BY <2>1, <2>2, <2>3 DEF Undisturbed
<1>5. ASSUME NEW t \in Transformer, ResolveTwin(t) PROVE Undisturbed'
  <2>1. frame.of = {t} /\ frame'.of = {} /\ UNCHANGED <<feederVars, belief, estimate, moves>>
    BY <1>5 DEF ResolveTwin, Idle
  <2>2. \A u : AccountedRows(u)' = AccountedRows(u)
    BY <1>3, <2>1
  <2>3. \A u : TwinLoad(u, AccountedRows(u))' = TwinLoad(u, AccountedRows(u))
    BY <2>1 DEF feederVars, AccountedRows, TwinLoad, Placed, Resolved, Accountable, Accounted
  <2> SUFFICES ASSUME \A c \in Connection : moves[c] = 0
               PROVE  /\ \A c \in Connection : belief[c].placed = (belief[c].at = FedBy[c])
                      /\ \A u \in DOMAIN answered' :
                           /\ answered'[u].accounted = SumFunction(AccountedRows(u))
                           /\ answered'[u].modelled = Loss(TwinLoad(u, AccountedRows(u)))
    BY <2>1, <2>2, <2>3 DEF Undisturbed
  <2>4. frame.rows = AccountedRows(t)
    BY <2>1 DEF Undisturbed
  <2>5. ASSUME NEW u \in DOMAIN answered'
        PROVE  /\ answered'[u].accounted = SumFunction(AccountedRows(u))
               /\ answered'[u].modelled = Loss(TwinLoad(u, AccountedRows(u)))
    <3>1. CASE u = t
      BY <1>5, <2>4, <3>1, TwinAnswer
    <3>2. CASE u # t
      <4>1. /\ DOMAIN answered' = DOMAIN answered \cup {t}
            /\ \A v \in DOMAIN answered : v # t => answered'[v] = answered[v]
        BY <1>5, TwinAnswer
      <4>2. u \in DOMAIN answered /\ answered'[u] = answered[u]
        BY <2>5, <3>2, <4>1
      <4> QED BY <4>2 DEF Undisturbed
    <3> QED BY <3>1, <3>2
  <2> QED BY <2>5 DEF Undisturbed
<1>6. CASE UNCHANGED allVars
  BY <1>1, <1>6 DEF allVars
<1> QED BY <1>1, <1>2, <1>4, <1>5, <1>6 DEF EnergyNext, Generate

\* With the right records the twin is loaded with the credit of what is fed.
LEMMA TwinKnows ==
  ASSUME BalanceTypeOK, Undisturbed
  PROVE  ResidualTracksHidden
<1> SUFFICES ASSUME NEW t \in DOMAIN answered, RightlyRecorded(t),
                    \A c \in TrulyFed(t) : Hidden(c) >= 0
             PROVE  /\ Residual(t) >= SumFunction([c \in TrulyFed(t) |-> Hidden(c)])
                    /\ (\A c \in TrulyFed(t) : Hidden(c) = 0) => Residual(t) = 0
  BY DEF ResidualTracksHidden
<1> DEFINE S      == TrulyFed(t)
           draw   == [c \in S |-> kw[c]]
           load   == [c \in S |-> Credit[c]]
           hidden == [c \in S |-> Hidden(c)]
<1>0. FeederInv /\ RecordsOK
  BY DEF BalanceTypeOK
<1>1. S \in SUBSET Connection /\ IsFiniteSet(S)
  BY SubsetsFinite DEF TrulyFed
<1>2. \A c \in Connection : moves[c] = 0
  BY DEF RightlyRecorded
<1>3. Resolved(t) = S /\ Placed(t) = S
  BY <1>2 DEF Resolved, Placed, TrulyFed, RightlyRecorded, Undisturbed
<1>4. \A c \in S : /\ kw[c] \in Nat /\ Credit[c] \in Nat /\ kw[c] \in Int /\ Credit[c] \in Int
                   /\ Hidden(c) = kw[c] - Credit[c] /\ Credit[c] <= kw[c]
  <2> TAKE c \in S
  <2>1. c \in Connection
    BY <1>1
  <2>2. kw[c] \in Nat /\ Credit[c] \in Nat
    BY <1>0, <2>1, CreditType DEF FeederInv, FeederTypeOK
  <2>3. Hidden(c) = kw[c] - Credit[c]
    BY <2>1 DEF Hidden, Credit
  <2> QED BY <2>2, <2>3
<1>5. TwinLoad(t, AccountedRows(t)) = load
  <2> DEFINE rows == AccountedRows(t)
  <2>1. DOMAIN rows = {c \in S : Accountable(c)} /\ \A c \in DOMAIN rows : rows[c] = Accounted(c)
    BY <1>3 DEF AccountedRows
  <2> HIDE DEF rows
  <2>2. ASSUME NEW c \in S
        PROVE  (IF c \in DOMAIN rows /\ rows[c] > 0 THEN rows[c] ELSE 0) = Credit[c]
    <3>1. Accountable(c) => Credit[c] = Accounted(c)
      BY <1>0, <1>1, CreditType
    <3>2. ~Accountable(c) => Credit[c] = 0
      BY <1>0, <1>1, CreditType
    <3> QED BY <1>4, <2>1, <3>1, <3>2
  <2>3. TwinLoad(t, rows) = [c \in S |-> IF c \in DOMAIN rows /\ rows[c] > 0 THEN rows[c] ELSE 0]
    BY <1>3 DEF TwinLoad
  <2> QED BY <2>2, <2>3 DEF rows
<1>6. /\ answered[t].measured = SumFunctionOnSet(kw, S) + Loss(draw)
      /\ answered[t].accounted = SumFunctionOnSet(Credit, S)
      /\ answered[t].modelled = Loss(load)
  <2>1. answered[t].measured = SumFunctionOnSet(kw, S) + TechnicalLoss(t)
    BY <1>0, MeasuredType DEF BalanceTypeOK, AnsweredOK
  <2>2. TechnicalLoss(t) = Loss(draw)
    BY DEF TechnicalLoss, TrulyFed
  <2>3. /\ answered[t].accounted = SumFunction(AccountedRows(t))
        /\ answered[t].modelled = Loss(TwinLoad(t, AccountedRows(t)))
    BY <1>2 DEF Undisturbed
  <2> QED BY <1>0, <1>3, <1>5, <2>1, <2>2, <2>3, RowsSum
<1>7. /\ DOMAIN draw = S /\ DOMAIN load = S /\ DOMAIN hidden = S
      /\ \A c \in S : /\ draw[c] = kw[c] /\ load[c] = Credit[c] /\ hidden[c] = kw[c] - Credit[c]
                      /\ hidden[c] \in Int
  BY <1>4
<1>8. (\A c \in S : Hidden(c) = 0) => draw = load /\ \A c \in S : hidden[c] = 0
  <2> SUFFICES ASSUME \A c \in S : Hidden(c) = 0 PROVE draw = load /\ \A c \in S : hidden[c] = 0
    OBVIOUS
  <2>1. \A c \in S : kw[c] = Credit[c]
    BY <1>4
  <2> QED BY <2>1
<1>10. SumFunction(hidden) = SumFunctionOnSet(hidden, S)
  BY <1>7 DEF SumFunction
<1> SUFFICES /\ Residual(t) >= SumFunction(hidden)
             /\ (\A c \in S : Hidden(c) = 0) => Residual(t) = 0
  OBVIOUS
<1> HIDE DEF S, draw, load, hidden
<1>11. Loss(load) \in Int /\ Loss(draw) \in Int /\ Loss(load) <= Loss(draw)
  <2>1. \A c \in S : /\ load[c] \in Nat /\ draw[c] \in Nat /\ load[c] <= draw[c]
    BY <1>4, <1>7
  <2> QED BY <1>1, <1>7, <2>1, LossType, LossGrows
<1>12. SumFunctionOnSet(kw, S) = SumFunctionOnSet(hidden, S) + SumFunctionOnSet(Credit, S)
  <2>1. \A c \in S : hidden[c] \in Int /\ Credit[c] \in Int /\ kw[c] = hidden[c] + Credit[c]
    BY <1>4, <1>7
  <2> QED BY <1>1, <2>1, SumOfPlus
<1>13. SumFunctionOnSet(hidden, S) \in Int /\ SumFunctionOnSet(Credit, S) \in Int
  <2>1. \A c \in S : hidden[c] \in Int /\ Credit[c] \in Int
    BY <1>4, <1>7
  <2> QED BY <1>1, <2>1, SumIsInt
<1>9. /\ answered[t].measured = (SumFunctionOnSet(hidden, S) + SumFunctionOnSet(Credit, S)) + Loss(draw)
      /\ answered[t].accounted = SumFunctionOnSet(Credit, S)
      /\ answered[t].modelled = Loss(load)
  BY <1>6, <1>12
<1>14. Residual(t) = SumFunctionOnSet(hidden, S) + (Loss(draw) - Loss(load))
  <2> DEFINE h == SumFunctionOnSet(hidden, S)
             k == SumFunctionOnSet(Credit, S)
             l == Loss(load)
             d == Loss(draw)
  <2>1. h \in Int /\ k \in Int /\ l \in Int /\ d \in Int
    BY <1>11, <1>13
  <2>2. Residual(t) = ((h + k) + d) - k - l
    BY <1>9 DEF Residual
  <2> HIDE DEF h, k, l, d
  <2>3. Residual(t) = h + (d - l)
    BY <2>1, <2>2
  <2> QED BY <2>3 DEF h, l, d
<1>15. Residual(t) >= SumFunction(hidden)
  BY <1>10, <1>11, <1>13, <1>14
<1>16. ASSUME \A c \in S : Hidden(c) = 0 PROVE Residual(t) = 0
  <2>1. SumFunctionOnSet(hidden, S) = 0
    BY <1>1, <1>8, <1>16, SumOfZeros
  <2> QED BY <1>8, <1>11, <1>14, <1>16, <2>1
<1> QED BY <1>15, <1>16

(***************************************************************************)
(* Theorems.                                                               *)
(***************************************************************************)

\* Types, the freezing of a stored feeder, and both halves of the argument hold
\* in every reachable state.
THEOREM BalanceInvariance == EnergySpec => [](BalanceTypeOK /\ Balanced /\ Undisturbed)
<1>1. EnergyInit => BalanceTypeOK /\ Balanced /\ Undisturbed
  <2> SUFFICES ASSUME EnergyInit PROVE BalanceTypeOK /\ Balanced /\ Undisturbed
    OBVIOUS
  <2>1. BalanceTypeOK /\ Undisturbed
    BY EnergyInitially, UndisturbedInitially
  <2>2. NothingYet
    BY DEF EnergyInit, NothingYet
  <2> QED BY <2>1, <2>2, FreshBalanced DEF BalanceTypeOK
<1>2. BalanceTypeOK /\ Balanced /\ Undisturbed /\ [EnergyNext]_allVars
        => (BalanceTypeOK /\ Balanced /\ Undisturbed)'
  BY BalanceTypes, BalanceKept, UndisturbedKept
<1> QED BY <1>1, <1>2, PTL DEF EnergySpec

\* The anomaly labels of any scenario say what was done to the connection,
\* whatever the order of the kinds, their rates and the draws.
THEOREM LabelsAlwaysTrue == EnergySpec => []LabelsTrue
<1>1. BalanceTypeOK => LabelsTrue
  BY DEF BalanceTypeOK, FeederInv
<1> QED BY <1>1, BalanceInvariance, PTL

\* Wrong records and corrections between the queries move energy from one
\* balance to another, and create none.
THEOREM EnergyAlwaysAccountedOnce == EnergySpec => []EnergyAccountedOnce
BY BalanceInvariance, BalancedAccounts, PTL

\* With the right records the residual is at least what is hidden, for any
\* nameplate, topology and draw.
THEOREM ResidualAlwaysTracks == EnergySpec => []ResidualTracksHidden
BY BalanceInvariance, TwinKnows, PTL
=============================================================================
