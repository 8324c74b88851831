------------------------------ MODULE FeederTruth ------------------------------
(***************************************************************************)
(* gridsynth: what the generator knows of a feeder in one interval of a    *)
(* scenario.  The draw of every connection goes through load shedding, the *)
(* injected anomalies and the prepaid meter before it is stored.  Loads    *)
(* are in units of 10 W.                                                   *)
(***************************************************************************)
EXTENDS Integers

CONSTANTS Connection, Transformer,
          FedBy,       \* the transformer that really feeds a connection
          BaseKw,      \* its draw, before anything happens to it
          Supplies,    \* bound: states of the supply by transformer
          Retained,    \* bound: percents a partial bypass leaves on the meter
          PvOutputs,   \* bound: output of a rooftop plant in this interval
          Balances,    \* bound: prepaid balances when the interval begins
          Rates        \* bound: kinds of anomaly a configuration asks for

Hiding == {"partial_bypass", "full_bypass", "meter_failure"}
Lowering == {"vacancy", "solar_adoption"}
Kinds == Hiding \cup Lowering

ASSUME FeederAssumption ==
  /\ FedBy \in [Connection -> Transformer]
  /\ BaseKw \in [Connection -> Nat]
  /\ Supplies \subseteq [Transformer -> {"on", "off", "restored"}]
  /\ Retained \subseteq 0..99
  /\ PvOutputs \subseteq Nat /\ Balances \subseteq [Connection -> Nat]
  /\ Rates \subseteq SUBSET Kinds

VARIABLES rates,             \* config.anomaly_rates
          generating,        \* the statement generate_scenario is at
          true_consumption,  \* draw after shedding
          kw,                \* physical draw
          metered,           \* what the meter counts
          records,           \* AnomalyRecords
          status             \* of the Connection row

feederVars == <<rates, generating, true_consumption, kw, metered, records, status>>

(***************************************************************************)
(* What happens to a draw.                                                 *)
(***************************************************************************)
Percent(x, p) == (x * p) \div 100

Least(a, b) == IF a <= b THEN a ELSE b

\* apply_shedding: standby draw while off, catch-up on the interval after.
Shed(x, supply) ==
  IF supply = "off" THEN Percent(x, 5)
  ELSE IF supply = "restored" THEN Percent(x, 130)
  ELSE x

\* What an active anomaly of a size leaves of the draw, and of its metering.
Drawn(kind, size, x) ==
  IF kind = "vacancy" THEN Percent(x, 2)
  ELSE IF kind = "solar_adoption" THEN (IF x > size THEN x - size ELSE 0)
  ELSE x

Counted(kind, size, x) ==
  IF kind \in Lowering THEN Drawn(kind, size, x)
  ELSE IF kind = "partial_bypass" THEN Percent(x, size)
  ELSE IF kind = "full_bypass" THEN Percent(x, 2)
  ELSE 0

\* Sizes that are drawn at random for a target.
SizesOf(kind) ==
  IF kind = "partial_bypass" THEN Retained
  ELSE IF kind = "solar_adoption" THEN PvOutputs
  ELSE {0}

(***************************************************************************)
(* generate_scenario.                                                      *)
(***************************************************************************)
FeederInit ==
  /\ rates \in Rates
  /\ generating = "shedding"
  /\ true_consumption = BaseKw /\ kw = BaseKw /\ metered = BaseKw
  /\ records = {}
  /\ status = [c \in Connection |-> "active"]

ApplyShedding(supply) ==
  /\ generating = "shedding"
  /\ true_consumption' = [c \in Connection |-> Shed(BaseKw[c], supply[FedBy[c]])]
  /\ kw' = true_consumption' /\ metered' = true_consumption'
  /\ generating' = "anomalies"
  /\ UNCHANGED <<rates, records, status>>

\* Mutant: a kind picks among all connections.
UsedNobody == {}

\* Connections that already are a target of some kind.
Used == {r.connection : r \in records}

Candidates == Connection \ Used

\* One kind of the rates: as many targets as its rate comes to, one at least
\* while there is a candidate.  active: the targets whose drawn start is not
\* after this interval, size: what was drawn for each of them.
Inject(kind, targets, active, size) ==
  /\ generating = "anomalies"
  /\ kind \in rates \ {r.kind : r \in records}
  /\ targets # {} /\ targets \subseteq Candidates
  /\ kw' = [c \in Connection |-> IF c \in active THEN Drawn(kind, size[c], kw[c]) ELSE kw[c]]
  /\ metered' = [c \in Connection |-> IF c \in active THEN Counted(kind, size[c], kw[c]) ELSE metered[c]]
  /\ records' = records \cup
       {[connection |-> c, kind |-> kind, active |-> c \in active] : c \in targets}
  /\ UNCHANGED <<rates, generating, true_consumption, status>>

\* The loop over the rates is through.
AllInjected == \A kind \in rates : Candidates = {} \/ \E r \in records : r.kind = kind

Vacated == {c \in Connection : \E r \in records : r.connection = c /\ r.kind = "vacancy"}

\* generate_vending_events: an empty prepaid meter counts no further.  The
\* rows are inserted with the draw untouched, and a vacated account is closed.
Store(balance) ==
  /\ generating = "anomalies" /\ AllInjected
  /\ metered' = [c \in Connection |-> Least(metered[c], balance[c])]
  /\ status' = [c \in Connection |-> IF c \in Vacated THEN "inactive" ELSE status[c]]
  /\ generating' = "stored"
  /\ UNCHANGED <<rates, true_consumption, kw, records>>

FeederNext ==
  \/ \E supply \in Supplies : ApplyShedding(supply)
  \/ \E kind \in Kinds : \E targets \in SUBSET Connection : \E active \in SUBSET targets :
       \E size \in [active -> SizesOf(kind)] : Inject(kind, targets, active, size)
  \/ \E balance \in Balances : Store(balance)

FeederSpec == FeederInit /\ [][FeederNext]_feederVars

(***************************************************************************)
(* Properties.                                                             *)
(***************************************************************************)

Touched(c) == \E r \in records : r.connection = c /\ r.active

\* The labels the detectors are scored against say what was done: a bypassed
\* or failed meter counts less than a draw nobody changed, a vacated or solar
\* connection draws less and is metered in full, an unlabelled one is neither,
\* and exactly the vacated accounts are closed.
LabelsTrue ==
  /\ \A r \in records :
       r.active =>
         LET c == r.connection
         IN  /\ r.kind \in Hiding =>
                  /\ kw[c] = true_consumption[c]
                  /\ kw[c] > 0 => metered[c] < kw[c]
             /\ r.kind \in Lowering =>
                  /\ kw[c] <= true_consumption[c]
                  /\ generating = "anomalies" => metered[c] = kw[c]
  /\ \A c \in Connection :
       ~Touched(c) =>
         /\ kw[c] = true_consumption[c]
         /\ generating = "anomalies" => metered[c] = kw[c]
  /\ generating = "stored" =>
       \A c \in Connection :
         status[c] = "inactive" <=> \E r \in records : r.connection = c /\ r.kind = "vacancy"
=============================================================================
