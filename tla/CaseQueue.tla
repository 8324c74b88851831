------------------------------- MODULE CaseQueue -------------------------------
(***************************************************************************)
(* module_b: the queue of suspected losses under a node.  Features are     *)
(* computed for the connections of each transformer, compared with their   *)
(* peers there, put to the labelling functions, and the connections found  *)
(* anomalous are listed with the most confident first.  Changes and        *)
(* correlations are in hundredths, ratios and sharpness in tenths, votes   *)
(* in ten-thousandths.                                                     *)
(***************************************************************************)
EXTENDS Integers, FiniteSets, FiniteSetsExt, SequencesExt

CONSTANTS Connection,  \* 1..n, in the order the connections are resolved
          FedBy,       \* transformer of a connection
          Observable   \* bound: the features a connection may show

ConnectionFeatures ==
  [change : Int, daylight : Int, evening : Int, irradiance : Int, sharpness : Int,
   noPurchase : BOOLEAN, inactive : BOOLEAN, gapRatio : Int]

ASSUME QueueAssumption ==
  /\ Connection = 1..Cardinality(Connection)
  /\ DOMAIN FedBy = Connection /\ DOMAIN Observable = Connection
  /\ \A c \in Connection : Observable[c] \subseteq ConnectionFeatures

VARIABLES pending,   \* connections still to be featurized
          features,  \* ConnectionFeatures computed
          cases      \* the queue answered; <<>> before

queueVars == <<pending, features, cases>>

Abs(n) == IF n < 0 THEN -n ELSE n

Normal == "normal"
\* The anomalies, in the order LABELING_FUNCTIONS can first vote for them.
Anomalies == <<"solar_adoption", "vacancy", "meter_failure", "full_bypass", "partial_bypass">>
Cause == ToSet(Anomalies) \cup {Normal}

(***************************************************************************)
(* Peers: a change within one robust deviation of the median change.       *)
(***************************************************************************)
Peers(c) == {p \in DOMAIN features : FedBy[p] = FedBy[c]}

\* Twice the median of v over its domain.
TwiceMiddle(v, s) == v[s[(Len(s) + 1) \div 2]] + v[s[(Len(s) + 2) \div 2]]
TwiceMedian(v) ==
  TwiceMiddle(v, SetToSortSeq(DOMAIN v, LAMBDA p, q : v[p] < v[q] \/ (v[p] = v[q] /\ p < q)))

Deviations(v, twiceCentre) == [p \in DOMAIN v |-> Abs(2 * v[p] - twiceCentre)]

\* Less than 1.4826 times the median deviation off, or not off at all.
WithinDeviation(c, off) == off[c] = 0 \/ 20000 * off[c] < 14826 * TwiceMedian(off)

Changes(S) == [p \in S |-> features[p].change]

\* |peer_group_z_score| < 1.
WithPeers(c) ==
  \/ Cardinality(Peers(c)) < 3
  \/ WithinDeviation(c, Deviations(Changes(Peers(c)), TwiceMedian(Changes(Peers(c)))))

(***************************************************************************)
(* The labelling functions: votes by cause.                                *)
(***************************************************************************)
Silent == [k \in Cause |-> 0]
For(causes, strength) == [k \in Cause |-> IF k \in causes THEN strength ELSE 0]

LfSolar(f) ==
  IF f.daylight < -15 /\ f.irradiance < -15 /\ 100 * f.evening > 75 * f.daylight
  THEN For({"solar_adoption"}, Min({2 * Abs(f.daylight), 100}) * Min({2 * Abs(f.irradiance), 100}))
  ELSE Silent

LfVacancy(f) ==
  IF f.inactive /\ f.change < -50 THEN For({"vacancy"}, 9000)
  ELSE IF f.change < -80 /\ f.noPurchase THEN For({"vacancy"}, 5000)
  ELSE Silent

LfFailureOrFullBypass(f) ==
  IF f.change < -85 /\ f.sharpness > 20 /\ ~f.inactive
  THEN For({"meter_failure", "full_bypass"}, 5000) ELSE Silent

LfSustainedSilence(f) ==
  IF f.gapRatio > 40 /\ ~f.inactive
  THEN For({"meter_failure", "full_bypass"}, (Min({f.gapRatio - 40, 60}) * 10000) \div 120)
  ELSE Silent

LfPartialBypass(f) ==
  IF /\ f.change > -85 /\ f.change < -20 /\ f.sharpness > 15
     /\ f.irradiance > -15 /\ ~f.noPurchase /\ ~f.inactive
  THEN For({"partial_bypass"}, Min({120 * Abs(f.change), 10000})) ELSE Silent

\* Mutant: the reduction shared with the peers has no say.
LfGenuineReductionMute(c) == Silent

LfGenuineReduction(c) ==
  IF WithPeers(c) /\ features[c].change < -5 THEN For({Normal}, 6000) ELSE Silent

Tally(votes) ==
  [k \in Cause |-> SumFunctionOnSet([i \in DOMAIN votes |-> votes[i][k]], DOMAIN votes)]

Votes(c) ==
  Tally(<<LfSolar(features[c]), LfVacancy(features[c]), LfFailureOrFullBypass(features[c]),
          LfSustainedSilence(features[c]), LfPartialBypass(features[c]), LfGenuineReduction(c)>>)

\* The votes for anything wrong, and the first of the causes with the most.
Mass(v) == SumFunctionOnSet(v, ToSet(Anomalies))
Plurality(v) ==
  CHOOSE i \in DOMAIN Anomalies :
    /\ \A j \in DOMAIN Anomalies : v[Anomalies[j]] <= v[Anomalies[i]]
    /\ \A j \in 1..(i - 1) : v[Anomalies[j]] < v[Anomalies[i]]

Verdict(k, votes, outOf) == [cause |-> k, num |-> votes, den |-> outOf]

\* classify: whether anything is wrong by total mass, then what by plurality;
\* the confidence of an anomaly is its share of the mass, times the mass up to 1.
Classify(v, mass, k) ==
  IF mass <= v[Normal] THEN Verdict(Normal, v[Normal], Max({mass + v[Normal], 1}))
                       ELSE Verdict(k, v[k], Max({mass, 10000}))

Decide(v) == Classify(v, Mass(v), Anomalies[Plurality(v)])

Label(c) == Decide(Votes(c))

\* IsolationForest, external: scores spread over [0, 1], or 0 for two peers or
\* fewer and for peers that all look alike.
Suspicion ==
  {s \in [DOMAIN features -> {0, 100}] :
     \A c \in DOMAIN features :
       \/ \A p \in Peers(c) : s[p] = 0
       \/ Cardinality(Peers(c)) >= 3 /\ {s[p] : p \in Peers(c)} = {0, 100}}

\* Sorted by (confidence, suspicion), highest first; the sort is stable.
Confidence(a, b) == a.num * b.den - b.num * a.den
Before(p, q, lead, suspicion) ==
  \/ lead > 0
  \/ lead = 0 /\ suspicion[p] > suspicion[q]
  \/ lead = 0 /\ suspicion[p] = suspicion[q] /\ p < q

Listed(label) == {c \in DOMAIN label : label[c].cause # Normal}

Ranked(label, suspicion) ==
  {s \in [1..Cardinality(Listed(label)) -> Listed(label)] :
     \A i, j \in DOMAIN s :
       i < j => Before(s[i], s[j], Confidence(label[s[i]], label[s[j]]), suspicion)}

QueueInit ==
  /\ pending = Connection
  /\ features = <<>> /\ cases = <<>>

\* compute_features_for_transformer, one connection: its reconstruction is
\* featurized, or it has no purchases and is passed over.
Featurize(c) ==
  /\ pending # {} /\ c = Min(pending)
  /\ pending' = pending \ {c}
  /\ \/ \E f \in Observable[c] : features' = [p \in DOMAIN features \cup {c} |-> IF p = c THEN f ELSE features[p]]
     \/ UNCHANGED features
  /\ UNCHANGED cases

\* build_case_queue of every transformer, merged by node_cases.
ListCases ==
  /\ pending = {} /\ cases = <<>>
  /\ \E suspicion \in Suspicion :
       cases' \in Ranked([c \in DOMAIN features |-> Label(c)], suspicion)
  /\ UNCHANGED <<pending, features>>

(***************************************************************************)
(* Property.                                                               *)
(***************************************************************************)

\* A connection whose consumption fell with its peers', by no more than half,
\* whose purchases did not stop and whose daylight load does not mirror the
\* sun is not listed: no vote for a bypass outweighs the common reduction.
CommonReductionNotListed ==
  \A c \in ToSet(cases) :
    ~ /\ WithPeers(c)
      /\ features[c].change \in -50..-6
      /\ features[c].gapRatio <= 40 /\ features[c].irradiance >= -15
=============================================================================
