---------------------------- MODULE DemandForecast ----------------------------
(***************************************************************************)
(* module_d: which rows of the feeder's reconstructed demand a forecast    *)
(* reads, is fitted on, calibrated on and scored on.  The demand is the    *)
(* sum over the connections at every interval of the scenario, numbered    *)
(* from 1 without gaps.                                                    *)
(***************************************************************************)
EXTENDS Integers, FiniteSets

CONSTANTS Day, Week,     \* intervals in 24 and in 168 hours
          MinHistory,    \* 200 in the code
          MinHeldOut,    \* 10 in the code
          MaxRows        \* bound: intervals of a scenario

ASSUME ForecastAssumption ==
  /\ {Day, Week, MinHistory, MinHeldOut, MaxRows} \subseteq Nat \ {0}
  /\ 2 * Day <= Week /\ MinHeldOut >= 2

VARIABLES rows,     \* intervals of the scenario
          forecast  \* the rows each part of the result rests on, or why there is none

forecastVars == <<rows, forecast>>

Demand == 1..rows

\* Mutant: the rolling mean ends at the row itself.
RollingUpToNow(t, intervals) == {s \in Demand : s > t - intervals /\ s <= t}

\* Rows a lag, and a rolling mean over the demand shifted by a day, read.
Lag(t, intervals) == {t - intervals}
Rolling(t, intervals) == {s \in Demand : s > t - Day - intervals /\ s <= t - Day}

\* build_features
FeatureReads(t) ==
  Lag(t, Day) \cup Lag(t, 2 * Day) \cup Lag(t, Week) \cup Rolling(t, Day) \cup Rolling(t, Week)

\* dropna: rows with a feature from before the series began are dropped.
Usable == {t \in Demand : Lag(t, Day) \cup Lag(t, 2 * Day) \cup Lag(t, Week) \subseteq Demand}

\* The n-th usable row; the usable rows are the last ones of the series.
NthUsable(n) == rows - Cardinality(Usable) + n

\* iloc[:split] and iloc[split:] at three quarters, then four fifths of the former.
Fit ==
  LET n == Cardinality(Usable)
      split == (3 * n) \div 4
      calibSplit == (4 * split) \div 5
  IN  [verdict |-> "forecast",
       train |-> {NthUsable(k) : k \in 1..calibSplit},
       calib |-> {NthUsable(k) : k \in (calibSplit + 1)..split},
       test  |-> {NthUsable(k) : k \in (split + 1)..n}]

Refused(verdict) == [verdict |-> verdict, train |-> {}, calib |-> {}, test |-> {}]

ForecastInit == rows = 0 /\ forecast = Refused("none")

Reconstructed(n) ==
  /\ rows = 0
  /\ rows' = n
  /\ UNCHANGED forecast

\* view_forecast: 404 without demand, ValueError without history to be honest.
ViewForecast ==
  /\ forecast' = IF rows = 0 THEN Refused("no demand")
                 ELSE IF rows < MinHistory THEN Refused("not enough history")
                 ELSE IF Cardinality(Fit.test) < MinHeldOut THEN Refused("held-out period too short")
                 ELSE Fit
  /\ UNCHANGED rows

(***************************************************************************)
(* Property.                                                               *)
(***************************************************************************)
\* "Every accuracy figure is measured on data the model never saw": fitting
\* and calibration, their features included, rest on demand before the first
\* row scored, there is something to calibrate on, and no row at all reads
\* demand later than a day before it.
NothingFromTheFuture ==
  forecast.verdict = "forecast" =>
    LET reads(S) == S \cup UNION {FeatureReads(t) : t \in S}
    IN  /\ forecast.train # {} /\ forecast.calib # {} /\ Cardinality(forecast.test) >= MinHeldOut
        /\ \A s \in reads(forecast.train), t \in forecast.calib : s < t
        /\ \A s \in reads(forecast.train \cup forecast.calib), t \in forecast.test : s < t
        /\ \A t \in forecast.train \cup forecast.calib \cup forecast.test :
             \A s \in FeatureReads(t) : s >= 1 /\ s <= t - Day
=============================================================================
