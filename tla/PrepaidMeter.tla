------------------------------ MODULE PrepaidMeter ------------------------------
(***************************************************************************)
(* gridsynth.purchasing.simulate_connection: one prepaid meter, interval   *)
(* by interval.  In each interval the meter supplies what the customer     *)
(* wants up to the token balance, and then the customer may buy.  The      *)
(* probability of buying is always strictly between 0 and 1 (a base rate,  *)
(* capped at max_prob_per_day), so either is possible at any time, and the *)
(* size is any member of Sizes.  Quantities are kWh; an amount of money is *)
(* the kWh it pays for at the tariff.                                      *)
(***************************************************************************)
EXTENDS Naturals

CONSTANTS Horizon,        \* bound: intervals simulated
          Demands,        \* what a customer may want in one interval
          Stocks,         \* starting stock, one to three days of consumption
          Sizes,          \* kWh a customer may decide to buy
          Denominations,  \* DENOMINATIONS_USD, in kWh
          Cent,           \* kWh that a cent pays for
          WorstSnap       \* the most that a denomination changes one purchase by

\* _snap_to_denomination: argmin takes the first of two that are as near.
Distance(a, b) == IF a <= b THEN b - a ELSE a - b

IsNearest(d, kwh) ==
  \A e \in Denominations : \/ Distance(d, kwh) < Distance(e, kwh)
                           \/ Distance(d, kwh) = Distance(e, kwh) /\ d <= e

Nearest(kwh) == CHOOSE d \in Denominations : IsNearest(d, kwh)

\* Mutant: the amount is cut off after the cents.
ToCentsDown(kwh) == (kwh \div Cent) * Cent

\* round(amount, 2): the nearest whole number of cents, of two the even one.
ToCents(kwh) ==
  LET cents == kwh \div Cent
      twice == 2 * (kwh % Cent)
      up    == twice > Cent \/ (twice = Cent /\ cents % 2 = 1)
  IN  (IF up THEN cents + 1 ELSE cents) * Cent

\* Every amount has a nearest denomination, as the list is neither empty nor
\* infinite; and the smallest sale, half a kWh, is worth more than a cent.
ASSUME MeterAssumption ==
  /\ Horizon \in Nat
  /\ Demands \subseteq Nat /\ Stocks \subseteq Nat
  /\ Sizes \subseteq Nat \ {0} /\ Denominations \subseteq Nat \ {0}
  /\ WorstSnap \in Nat /\ Cent \in Nat \ {0}
  /\ \A kwh \in Sizes : kwh >= Cent
  /\ \A kwh \in Sizes : \E d \in Denominations : IsNearest(d, kwh)
  /\ \A kwh \in Sizes : Distance(Nearest(kwh), kwh) <= WorstSnap

VARIABLES now,        \* the interval at hand
          phase,      \* "supply" or "buy": the two halves of the loop body
          balance,    \* tokens on the meter
          stock,      \* the balance the simulation started with
          events,     \* events[i]: kwh_purchased recorded for interval i, 0 for none
          supplied,   \* history: total supplied
          credited,   \* history: total added to the balance by purchases
          recorded,   \* history: total of the recorded events
          snaps,      \* history: purchases rounded to a denomination
          rounds      \* history: purchases rounded to a cent

meterVars == <<now, phase, balance, stock, events, supplied, credited, recorded,
               snaps, rounds>>

Interval == 1..Horizon

MeterTypeOK ==
  /\ now \in 1..(Horizon + 1)
  /\ phase \in {"supply", "buy"}
  /\ balance \in Nat /\ stock \in Nat
  /\ events \in [Interval -> Nat]
  /\ supplied \in Nat /\ credited \in Nat /\ recorded \in Nat
  /\ snaps \in Nat /\ rounds \in Nat
  /\ phase = "buy" => now <= Horizon
  /\ snaps + rounds < now

MeterInit ==
  /\ now = 1 /\ phase = "supply"
  /\ stock \in Stocks /\ balance = stock
  /\ events = [i \in Interval |-> 0]
  /\ supplied = 0 /\ credited = 0 /\ recorded = 0 /\ snaps = 0 /\ rounds = 0

Smaller(a, b) == IF a <= b THEN a ELSE b

\* The meter disconnects itself when the balance is used up.
Supply(wanted) ==
  /\ now <= Horizon /\ phase = "supply"
  /\ supplied' = supplied + Smaller(wanted, balance)
  /\ balance' = balance - Smaller(wanted, balance)
  /\ phase' = "buy"
  /\ UNCHANGED <<now, stock, events, credited, recorded, snaps, rounds>>

\* Six times in ten the amount is rounded to a denomination, else to a cent.
AmountPaid(kwh, snap) == IF snap THEN Nearest(kwh) ELSE ToCents(kwh)

\* Mutant: the minimum sale is added to the balance and not to the event.
BuyMinimumUnrecorded(kwh, snap) ==
  /\ phase = "buy"
  /\ balance' = balance + kwh + 1 /\ credited' = credited + kwh + 1
  /\ events' = [events EXCEPT ![now] = AmountPaid(kwh, snap)]
  /\ recorded' = recorded + AmountPaid(kwh, snap)
  /\ snaps' = IF snap THEN snaps + 1 ELSE snaps
  /\ rounds' = IF snap THEN rounds ELSE rounds + 1
  /\ now' = now + 1 /\ phase' = "supply"
  /\ UNCHANGED <<stock, supplied>>

\* The balance is credited before the amount is rounded, the event records
\* what was paid.
Buy(kwh, snap) ==
  /\ phase = "buy"
  /\ balance' = balance + kwh
  /\ credited' = credited + kwh
  /\ events' = [events EXCEPT ![now] = AmountPaid(kwh, snap)]
  /\ recorded' = recorded + AmountPaid(kwh, snap)
  /\ snaps' = IF snap THEN snaps + 1 ELSE snaps
  /\ rounds' = IF snap THEN rounds ELSE rounds + 1
  /\ now' = now + 1 /\ phase' = "supply"
  /\ UNCHANGED <<stock, supplied>>

Pass ==
  /\ phase = "buy"
  /\ now' = now + 1 /\ phase' = "supply"
  /\ UNCHANGED <<balance, stock, events, supplied, credited, recorded, snaps, rounds>>

MeterNext ==
  \/ \E wanted \in Demands : Supply(wanted)
  \/ \E kwh \in Sizes, snap \in BOOLEAN : Buy(kwh, snap)
  \/ Pass

MeterSpec == MeterInit /\ [][MeterNext]_meterVars

(***************************************************************************)
(* Properties.                                                             *)
(***************************************************************************)

\* The simulator invents no energy and loses none: what it started with and
\* what purchases added is either supplied or still on the meter.
Conservation == stock + credited = supplied + balance

\* Twice what rounding can have changed: WorstSnap for a denomination, half a
\* cent for a cent.
Rounding == 2 * snaps * WorstSnap + rounds * Cent

\* The bound the records really give: consumption is covered by the starting
\* stock, the recorded purchases, and the rounding of each of them; an amount
\* above the largest note is cut down to it, so that error can be large.
BoundWithRounding == 2 * supplied <= 2 * (stock + recorded) + Rounding

\* "A hard cumulative-purchases-bound-cumulative-consumption constraint":
\* nobody consumes more than the recorded purchases and the starting stock.
RecordedBound == supplied <= stock + recorded
=============================================================================
