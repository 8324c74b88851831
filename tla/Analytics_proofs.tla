---------------------------- MODULE Analytics_proofs ----------------------------
(***************************************************************************)
(* Proofs about what is computed on demand.  A behaviour of Analytics is   *)
(* one computation, and every other one keeps its variables, so each is    *)
(* proved on its own steps and carried over to AnalyticsSpec.              *)
(***************************************************************************)
EXTENDS Analytics, OperatorTheorems

(***************************************************************************)
(* ThermalAgeing: the state on a higher load stays above the other one.    *)
(***************************************************************************)

\* The table of doublings is the one its recursion describes.
LEMMA DoubledIs ==
  /\ Doubled \in [Nat -> Nat]
  /\ Doubled[0] = 1
  /\ \A n \in Nat : Doubled[n + 1] = 2 * Doubled[n]
<1> DEFINE G == [x \in Nat |-> 2 * x]
           Doubles(d) == d = [n \in Nat |-> IF n = 0 THEN 1 ELSE 2 * d[n - 1]]
<1>1. G \in [Nat -> Nat]
  OBVIOUS
<1>2. PICK f \in [Nat -> Nat] : Iterates(f, G, 1)
  <2> HIDE DEF G
  <2> QED BY <1>1, IterationExists
<1>3. Doubles(f)
  <2>1. \A n \in Nat : n # 0 => n - 1 \in Nat /\ (n - 1) + 1 = n
    OBVIOUS
  <2>2. \A n \in Nat : n # 0 => f[n] = 2 * f[n - 1]
    BY <1>2, <2>1 DEF Iterates
  <2> QED BY <1>2, <2>2 DEF Iterates
<1>4. Doubled = CHOOSE d : Doubles(d)
  BY DEF Doubled
<1>5. Doubles(Doubled)
  BY <1>3, <1>4
<1> DEFINE d == Doubled
<1> HIDE DEF d
<1>6. d = [n \in Nat |-> IF n = 0 THEN 1 ELSE 2 * d[n - 1]]
  BY <1>5 DEF d
<1>7. d[0] = 1
  BY <1>6
<1>8. \A n \in Nat : d[n + 1] = 2 * d[n]
  <2> TAKE n \in Nat
  <2>1. n + 1 \in Nat /\ n + 1 # 0 /\ (n + 1) - 1 = n
    OBVIOUS
  <2> QED BY <1>6, <2>1
<1> DEFINE T == {n \in Nat : d[n] \in Nat}
<1>9. T = Nat
  <2>1. 0 \in T
    BY <1>7
  <2>2. \A n \in T : n + 1 \in T
    BY <1>8
  <2> QED BY <2>1, <2>2, InductiveSet
<1>10. d \in [Nat -> Nat]
  BY <1>6, <1>9
<1> QED BY <1>7, <1>8, <1>10 DEF d

\* More doublings are not less.
LEMMA DoubledGrows ==
  ASSUME NEW m \in Nat, NEW n \in Nat, m <= n
  PROVE  Doubled[m] <= Doubled[n]
<1> DEFINE T == {k \in Nat : Doubled[m] <= Doubled[m + k]}
<1>1. 0 \in T
  BY DoubledIs
<1>2. \A k \in T : k + 1 \in T
  <2> TAKE k \in T
  <2>1. Doubled[m + k] \in Nat /\ Doubled[m] \in Nat /\ m + k \in Nat
    BY DoubledIs
  <2>2. Doubled[(m + k) + 1] = 2 * Doubled[m + k] /\ (m + k) + 1 = m + (k + 1)
    BY <2>1, DoubledIs
  <2> QED BY <2>1, <2>2
<1>3. T = Nat
  BY <1>1, <1>2, InductiveSet
<1>4. n - m \in Nat /\ m + (n - m) = n
  OBVIOUS
<1>5. Doubled[m] <= Doubled[m + (n - m)]
  <2> HIDE DEF T
  <2>1. n - m \in T
    BY <1>3, <1>4
  <2> QED BY <2>1 DEF T
<1> QED BY <1>4, <1>5

\* A warmer hot spot ages the insulation no more slowly.
LEMMA AgeingGrows ==
  ASSUME NEW cool \in Int, NEW hot \in Int, cool <= hot
  PROVE  AgeingRate(cool) \in Nat /\ AgeingRate(hot) \in Nat /\ AgeingRate(cool) <= AgeingRate(hot)
<1>1. Doublings(cool) \in Int /\ Doublings(hot) \in Int /\ Doublings(cool) <= Doublings(hot)
  BY DEF Doublings
<1>2. \A n \in Nat : Doubled[n] \in Nat /\ 1 <= Doubled[n]
  <2> TAKE n \in Nat
  <2>1. Doubled[0] <= Doubled[n]
    BY DoubledGrows
  <2> QED BY <2>1, DoubledIs
<1>3. CASE Doublings(cool) >= 0
  <2>1. Doublings(cool) \in Nat /\ Doublings(hot) \in Nat
    BY <1>1, <1>3
  <2>2. Doubled[Doublings(cool)] <= Doubled[Doublings(hot)]
    BY <1>1, <2>1, DoubledGrows
  <2> QED BY <1>1, <1>2, <2>1, <2>2 DEF AgeingRate
<1>4. CASE Doublings(cool) < 0 /\ Doublings(hot) >= 0
  BY <1>1, <1>2, <1>4 DEF AgeingRate
<1>5. CASE Doublings(cool) < 0 /\ Doublings(hot) < 0
  BY <1>5 DEF AgeingRate
<1> QED BY <1>1, <1>3, <1>4, <1>5

\* A part of d is no more than d, so adding d to a dividend adds at most d.
LEMMA QuotientLags ==
  ASSUME NEW a \in Int, NEW d \in Nat, NEW lag \in Nat \ {0}
  PROVE  (a + d) \div lag \in Int /\ a \div lag \in Int /\ (a + d) \div lag <= a \div lag + d
<1> DEFINE q == a \div lag
           r == (a + d) \div lag
<1>1. q \in Int /\ r \in Int
  OBVIOUS
<1>2. q * lag <= a /\ a < q * lag + lag
  OBVIOUS
<1>3. r * lag <= a + d
  OBVIOUS
<1> HIDE DEF q, r
<1>4. ASSUME r >= q + d + 1 PROVE FALSE
  <2>1. (q + d + 1) * lag <= r * lag
    BY <1>1, <1>4
  <2>2. (q + d + 1) * lag = q * lag + d * lag + lag
    BY <1>1
  <2>3. d * lag >= d
    OBVIOUS
  <2>4. q * lag \in Int /\ r * lag \in Int /\ d * lag \in Int
    BY <1>1
  <2> QED BY <2>1, <2>2, <2>3, <2>4, <1>2, <1>3
<1>5. r <= q + d
  BY <1>1, <1>4
<1> QED BY <1>1, <1>5 DEF q, r

\* Warmer oil and a higher load leave warmer oil.
LEMMA RiseGrows ==
  ASSUME NEW p \in Int, NEW q \in Int, p <= q,
         NEW low \in LoadFactor, NEW high \in LoadFactor, low <= high
  PROVE  /\ TopOilRise(p, low) \in Int /\ TopOilRise(q, high) \in Int
         /\ TopOilRise(p, low) <= TopOilRise(q, high)
<1> DEFINE s == SteadyRise[low]
           t == SteadyRise[high]
<1>1. s \in Int /\ t \in Int /\ s <= t /\ OilLag \in Nat \ {0}
  BY ThermalAssumption
<1> HIDE DEF s, t
<1> DEFINE d == q - p
           a == s - q
<1>2. d \in Nat /\ a \in Int /\ a + d = s - p
  BY <1>1
<1>3. (s - p) \div OilLag <= (s - q) \div OilLag + (q - p)
  <2>1. (a + d) \div OilLag <= a \div OilLag + d
    <3> HIDE DEF a, d
    <3> QED BY <1>1, <1>2, QuotientLags
  <2> QED BY <1>2, <2>1
<1>4. (s - q) \div OilLag <= (t - q) \div OilLag
  <2> DEFINE b == t - q
  <2>1. a <= b /\ b \in Int
    BY <1>1
  <2>2. a \div OilLag <= b \div OilLag
    <3> HIDE DEF a, b
    <3> QED BY <1>1, <1>2, <2>1
  <2> QED BY <2>2
<1>5. /\ (s - p) \div OilLag \in Int /\ (s - q) \div OilLag \in Int /\ (t - q) \div OilLag \in Int
  BY <1>1
<1>6. p + (s - p) \div OilLag <= q + (t - q) \div OilLag
  BY <1>3, <1>4, <1>5
<1> QED BY <1>5, <1>6 DEF TopOilRise, s, t

Heat == [rise : Int, peak : Int, aged : Nat]

\* No interval seen, or the higher load has the warmer oil, peak and ageing.
ThermalInv ==
  /\ seen \in Nat /\ estimated \in Heat /\ actual \in Heat
  /\ estimated.rise <= actual.rise /\ estimated.peak <= actual.peak
  /\ estimated.aged <= actual.aged

LEMMA ThermalInitially == ThermalInit => ThermalInv
BY DEF ThermalInit, ThermalInv, Heat

\* An interval keeps the order of what the two computations carry along.
LEMMA ThermalStep ==
  ASSUME ThermalInv, ThermalNext
  PROVE  ThermalInv'
<1>1. PICK low \in LoadFactor, high \in LoadFactor, ambient \in Ambient : LoadInterval(low, high, ambient)
  BY DEF ThermalNext
<1> DEFINE p == IF seen = 0 THEN SteadyRise[low] ELSE estimated.rise
           q == IF seen = 0 THEN SteadyRise[high] ELSE actual.rise
           cooler == TopOilRise(p, low)
           warmer == TopOilRise(q, high)
           cool == ambient + cooler + Gradient[low]
           hot == ambient + warmer + Gradient[high]
<1>2. low <= high /\ ambient \in Int /\ Gradient[low] \in Int /\ Gradient[high] \in Int
      /\ Gradient[low] <= Gradient[high]
  BY <1>1, ThermalAssumption DEF LoadInterval
<1>3. p \in Int /\ q \in Int /\ p <= q
  BY <1>2, ThermalAssumption DEF ThermalInv, Heat
<1>4. cooler \in Int /\ warmer \in Int /\ cooler <= warmer
  <2> HIDE DEF p, q
  <2> QED BY <1>2, <1>3, RiseGrows
<1>5. cool \in Int /\ hot \in Int /\ cool <= hot
  <2> HIDE DEF cooler, warmer
  <2> QED BY <1>2, <1>4
<1>6. AgeingRate(cool) \in Nat /\ AgeingRate(hot) \in Nat /\ AgeingRate(cool) <= AgeingRate(hot)
  <2> HIDE DEF cool, hot
  <2> QED BY <1>5, AgeingGrows
<1>7. /\ estimated' = [rise |-> cooler,
                       peak |-> IF seen = 0 \/ cool > estimated.peak THEN cool ELSE estimated.peak,
                       aged |-> estimated.aged + AgeingRate(cool)]
      /\ actual' = [rise |-> warmer,
                    peak |-> IF seen = 0 \/ hot > actual.peak THEN hot ELSE actual.peak,
                    aged |-> actual.aged + AgeingRate(hot)]
      /\ seen' = seen + 1
  BY <1>1 DEF LoadInterval, Advanced
<1> HIDE DEF cooler, warmer, cool, hot
<1> QED BY <1>4, <1>5, <1>6, <1>7 DEF ThermalInv, Heat

\* What the asset view says of the two states is in the same order.
LEMMA HeatOrdersVerdicts == ThermalInv => UnderestimatedNeverHotter
<1> SUFFICES ASSUME ThermalInv PROVE UnderestimatedNeverHotter
  OBVIOUS
<1>1. /\ MeanAbove(estimated, 4) => MeanAbove(actual, 4)
      /\ MeanAbove(estimated, 2) => MeanAbove(actual, 2)
      /\ MeanAbove(estimated, 1) => MeanAbove(actual, 1)
      /\ ThermallyLimited(estimated) => ThermallyLimited(actual)
  BY DEF ThermalInv, Heat, MeanAbove, ThermallyLimited, DesignRate
<1>2. RiskBand(estimated) <= RiskBand(actual)
  BY <1>1 DEF RiskBand, ThermalInv, Heat
<1> QED BY <1>1, <1>2 DEF UnderestimatedNeverHotter, ThermalInv

\* A transformer whose load is underestimated is never shown hotter, older or
\* nearer its end than it is, for any order of loads, temperatures and lags.
THEOREM NeverShownHotter == AnalyticsSpec => []UnderestimatedNeverHotter
<1>1. AnalyticsInit => ThermalInv
  BY ThermalInitially DEF AnalyticsInit
<1>2. ThermalInv /\ [AnalyticsNext]_analyticsVars => ThermalInv'
  <2> SUFFICES ASSUME ThermalInv, [AnalyticsNext]_analyticsVars PROVE ThermalInv'
    OBVIOUS
  <2>1. CASE UNCHANGED thermalVars
    BY <2>1 DEF ThermalInv, thermalVars
  <2>2. CASE OpenHealth
    BY <2>2, ThermalStep DEF OpenHealth
  <2> QED BY <2>1, <2>2 DEF AnalyticsNext, WalkSchedule, OpenShedding, OpenCases, OpenForecast,
                           OpenEstimate, analyticsVars
<1> QED BY <1>1, <1>2, HeatOrdersVerdicts, PTL DEF AnalyticsSpec

(***************************************************************************)
(* DemandForecast: the usable rows are the last ones, and the three parts  *)
(* are consecutive runs of them.                                           *)
(***************************************************************************)

LEMMA UsableRows ==
  ASSUME rows \in Nat, rows > Week
  PROVE  Usable = (Week + 1)..rows /\ Cardinality(Usable) = rows - Week
<1> Day \in Nat \ {0} /\ Week \in Nat \ {0} /\ 2 * Day <= Week
  BY ForecastAssumption
<1>1. Usable = (Week + 1)..rows
  BY DEF Usable, Demand, Lag
<1>2. Cardinality((Week + 1)..rows) = rows - Week
  <2> DEFINE a == Week + 1
  <2>1. a \in Int /\ rows \in Int /\ a <= rows
    OBVIOUS
  <2>2. Cardinality(a..rows) = rows - a + 1
    <3> HIDE DEF a
    <3> QED BY <2>1, FS_Interval
  <2> QED BY <2>2
<1> QED BY <1>1, <1>2

LEMMA NoUsableRows ==
  ASSUME rows \in Nat, rows <= Week
  PROVE  Cardinality(Usable) = 0
<1>1. Usable = {}
  BY ForecastAssumption DEF Usable, Demand, Lag
<1> QED BY <1>1, FS_EmptySet

\* Where the splits fall among n usable rows: a held-out part of at least two
\* rows leaves rows to calibrate on, and those leave rows to fit.
LEMMA Splits ==
  ASSUME NEW n \in Nat, NEW split, split = (3 * n) \div 4, NEW calib, calib = (4 * split) \div 5
  PROVE  /\ split \in Nat /\ calib \in Nat /\ calib <= split /\ split <= n
         /\ n - split >= 2 => 1 <= calib /\ calib < split
<1>1. split \in Nat /\ 4 * split <= 3 * n /\ 3 * n < 4 * split + 4
  OBVIOUS
<1>2. calib \in Nat /\ 5 * calib <= 4 * split /\ 4 * split < 5 * calib + 5
  BY <1>1
<1> QED BY <1>1, <1>2

\* What the features of a row from Week + 1 on read.
LEMMA FeaturesOfThePast ==
  ASSUME rows \in Nat, NEW t \in Int, Week < t, t <= rows
  PROVE  \A s \in FeatureReads(t) : s \in Int /\ s >= 1 /\ s <= t - Day
<1> Day \in Nat \ {0} /\ Week \in Nat \ {0} /\ 2 * Day <= Week
  BY ForecastAssumption
<1>1. Lag(t, Day) = {t - Day} /\ Lag(t, 2 * Day) = {t - 2 * Day} /\ Lag(t, Week) = {t - Week}
  BY DEF Lag
<1>2. \A s \in Rolling(t, Day) \cup Rolling(t, Week) : s \in Int /\ s >= 1 /\ s <= t - Day
  BY DEF Rolling, Demand
<1>3. /\ t - Day \in Int /\ t - Day >= 1
      /\ t - 2 * Day \in Int /\ t - 2 * Day >= 1 /\ t - 2 * Day <= t - Day
      /\ t - Week \in Int /\ t - Week >= 1 /\ t - Week <= t - Day
  OBVIOUS
<1> QED BY <1>1, <1>2, <1>3 DEF FeatureReads

\* A forecast answered is the three-way split of the series, long enough.
ForecastInv ==
  /\ rows \in Nat
  /\ forecast.verdict = "forecast" =>
       rows # 0 /\ forecast = Fit /\ ~(Cardinality(Fit.test) < MinHeldOut)

LEMMA ForecastHonest == ForecastInv => NothingFromTheFuture
<1> SUFFICES ASSUME ForecastInv, forecast.verdict = "forecast"
             PROVE  LET reads(S) == S \cup UNION {FeatureReads(t) : t \in S}
                    IN  /\ forecast.train # {} /\ forecast.calib # {} /\ Cardinality(forecast.test) >= MinHeldOut
                        /\ \A s \in reads(forecast.train), t \in forecast.calib : s < t
                        /\ \A s \in reads(forecast.train \cup forecast.calib), t \in forecast.test : s < t
                        /\ \A t \in forecast.train \cup forecast.calib \cup forecast.test :
                             \A s \in FeatureReads(t) : s >= 1 /\ s <= t - Day
  BY DEF NothingFromTheFuture
<1> /\ rows \in Nat /\ Day \in Nat \ {0} /\ Week \in Nat \ {0} /\ 2 * Day <= Week
    /\ MinHeldOut \in Nat /\ MinHeldOut >= 2
  BY ForecastAssumption DEF ForecastInv
<1> DEFINE n == Cardinality(Usable)
           split == (3 * n) \div 4
           calib == (4 * split) \div 5
<1>1. /\ forecast = Fit /\ ~(Cardinality(Fit.test) < MinHeldOut)
      /\ Fit.train = {NthUsable(k) : k \in 1..calib}
      /\ Fit.calib = {NthUsable(k) : k \in (calib + 1)..split}
      /\ Fit.test = {NthUsable(k) : k \in (split + 1)..n}
  BY DEF ForecastInv, Fit
<1>2. n \in Nat /\ (rows <= Week => n = 0) /\ (rows > Week => n = rows - Week)
  BY UsableRows, NoUsableRows
<1> HIDE DEF n
<1>3. /\ split \in Nat /\ calib \in Nat /\ calib <= split /\ split <= n
      /\ n - split >= 2 => 1 <= calib /\ calib < split
  BY <1>2, Splits
<1> HIDE DEF split, calib
<1>4. rows > Week
  <2> SUFFICES ASSUME rows <= Week PROVE FALSE
    OBVIOUS
  <2>1. (split + 1)..n = {}
    BY <1>2, <1>3
  <2>2. Fit.test = {}
    BY <1>1, <2>1
  <2>3. Cardinality({}) = 0
    BY FS_EmptySet
  <2>4. Cardinality(Fit.test) = 0
    BY <2>2, <2>3
  <2> QED BY <1>1, <2>4
<1>5. n = rows - Week /\ \A k \in Int : NthUsable(k) = Week + k
  BY <1>2, <1>4 DEF NthUsable, n
<1>6. /\ \A a \in Nat, b \in Nat : {NthUsable(k) : k \in (a + 1)..b} = (Week + a + 1)..(Week + b)
  <2> SUFFICES ASSUME NEW a \in Nat, NEW b \in Nat
               PROVE  {NthUsable(k) : k \in (a + 1)..b} = (Week + a + 1)..(Week + b)
    OBVIOUS
  <2>1. \A k \in (a + 1)..b : NthUsable(k) = Week + k
    BY <1>5
  <2>2. \A k \in (a + 1)..b : NthUsable(k) \in (Week + a + 1)..(Week + b)
    BY <2>1
  <2>3. \A t \in (Week + a + 1)..(Week + b) : t - Week \in (a + 1)..b /\ t = NthUsable(t - Week)
    BY <2>1
  <2> QED BY <2>2, <2>3
<1>7. /\ forecast.train = (Week + 1)..(Week + calib)
      /\ forecast.calib = (Week + calib + 1)..(Week + split)
      /\ forecast.test = (Week + split + 1)..rows
  <2>1. {NthUsable(k) : k \in (0 + 1)..calib} = (Week + 0 + 1)..(Week + calib)
    BY <1>3, <1>6
  <2>2. Week + n = rows /\ Week + 0 + 1 = Week + 1 /\ 0 + 1 = 1
    BY <1>5
  <2>3. Fit.train = (Week + 1)..(Week + calib)
    BY <1>1, <2>1, <2>2
  <2>4. Fit.calib = (Week + calib + 1)..(Week + split)
    BY <1>1, <1>3, <1>6
  <2>5. Fit.test = (Week + split + 1)..(Week + n)
    BY <1>1, <1>2, <1>3, <1>6
  <2> QED BY <1>1, <2>2, <2>3, <2>4, <2>5
<1>8. n - split >= 2
  <2> DEFINE a == Week + split + 1
  <2>1. a \in Int /\ rows \in Int
    BY <1>3
  <2>2. Cardinality(a..rows) = IF a > rows THEN 0 ELSE rows - a + 1
    <3> HIDE DEF a
    <3> QED BY <2>1, FS_Interval
  <2>3. ~(Cardinality(a..rows) < MinHeldOut)
    BY <1>1, <1>7
  <2>4. a <= rows /\ rows - a + 1 >= 2
    <3> HIDE DEF a
    <3> QED BY <2>1, <2>2, <2>3
  <2> QED BY <1>2, <1>3, <1>5, <2>4
<1>9. forecast.train # {} /\ forecast.calib # {}
  <2>1. Week + calib \in forecast.train /\ Week + split \in forecast.calib
    BY <1>3, <1>7, <1>8
  <2> QED BY <2>1
<1>10. \A t \in forecast.train \cup forecast.calib \cup forecast.test : t \in Int /\ Week < t /\ t <= rows
  <2>1. Week + calib <= rows /\ Week + split <= rows
    BY <1>3, <1>5
  <2>2. \A t \in forecast.train : t \in Int /\ Week < t /\ t <= rows
    BY <1>3, <1>7, <2>1
  <2>3. \A t \in forecast.calib : t \in Int /\ Week < t /\ t <= rows
    BY <1>3, <1>7, <2>1
  <2>4. \A t \in forecast.test : t \in Int /\ Week < t /\ t <= rows
    BY <1>3, <1>7
  <2> QED BY <2>2, <2>3, <2>4
<1>11. \A t \in forecast.train \cup forecast.calib \cup forecast.test :
         \A s \in FeatureReads(t) : s \in Int /\ s >= 1 /\ s <= t - Day
  BY <1>10, FeaturesOfThePast
<1>12. \A u \in forecast.train, t \in forecast.calib :
         u < t /\ \A s \in FeatureReads(u) : s < t
  <2> TAKE u \in forecast.train, t \in forecast.calib
  <2>1. u \in Int /\ t \in Int /\ u < t
    BY <1>3, <1>7
  <2>2. \A s \in FeatureReads(u) : s \in Int /\ s <= u - Day
    BY <1>11
  <2> QED BY <2>1, <2>2
<1>13. \A u \in forecast.train \cup forecast.calib, t \in forecast.test :
         u < t /\ \A s \in FeatureReads(u) : s < t
  <2> TAKE u \in forecast.train \cup forecast.calib, t \in forecast.test
  <2>1. u \in Int /\ t \in Int /\ u < t
    BY <1>3, <1>7
  <2>2. \A s \in FeatureReads(u) : s \in Int /\ s <= u - Day
    BY <1>11
  <2> QED BY <2>1, <2>2
<1>14. Cardinality(forecast.test) >= MinHeldOut
  <2>1. forecast.test = (Week + split + 1)..rows /\ Week + split + 1 \in Int
    BY <1>3, <1>7
  <2>2. Cardinality(forecast.test) \in Int
    BY <2>1, FS_Interval
  <2> QED BY <1>1, <2>2
<1> QED BY <1>9, <1>11, <1>12, <1>13, <1>14

LEMMA ForecastStep ==
  ASSUME ForecastInv, \/ \E n \in 1..MaxRows : Reconstructed(n)
                      \/ ViewForecast
  PROVE  ForecastInv'
<1>1. ASSUME NEW n \in 1..MaxRows, Reconstructed(n)
      PROVE  ForecastInv'
  BY <1>1, ForecastAssumption DEF Reconstructed, ForecastInv
<1>2. CASE ViewForecast
  <2>1. rows' = rows /\ Fit' = Fit
    BY <1>2 DEF ViewForecast, Fit, NthUsable, Usable, Demand
  <2>2. CASE rows = 0
    BY <1>2, <2>1, <2>2 DEF ViewForecast, ForecastInv, Refused
  <2>3. CASE rows # 0 /\ rows < MinHistory
    BY <1>2, <2>1, <2>3 DEF ViewForecast, ForecastInv, Refused
  <2>4. CASE rows # 0 /\ ~(rows < MinHistory) /\ Cardinality(Fit.test) < MinHeldOut
    BY <1>2, <2>1, <2>4 DEF ViewForecast, ForecastInv, Refused
  <2>5. CASE rows # 0 /\ ~(rows < MinHistory) /\ ~(Cardinality(Fit.test) < MinHeldOut)
    <3>1. forecast' = Fit
      BY <1>2, <2>5 DEF ViewForecast
    <3> QED BY <1>2, <2>1, <2>5, <3>1 DEF ForecastInv
  <2> QED BY <2>2, <2>3, <2>4, <2>5
<1> QED BY <1>1, <1>2

\* Whatever the length of the scenario, a day and a week, no figure of a
\* forecast is fitted or calibrated on what it is scored on, and no feature
\* reads demand from less than a day before.
THEOREM NothingEverFromTheFuture == AnalyticsSpec => []NothingFromTheFuture
<1>1. AnalyticsInit => ForecastInv
  BY DEF AnalyticsInit, ForecastInit, ForecastInv, Refused
<1>2. ForecastInv /\ [AnalyticsNext]_analyticsVars => ForecastInv'
  <2> SUFFICES ASSUME ForecastInv, [AnalyticsNext]_analyticsVars PROVE ForecastInv'
    OBVIOUS
  <2>1. CASE UNCHANGED forecastVars
    BY <2>1 DEF ForecastInv, forecastVars, Fit, NthUsable, Usable, Demand
  <2>2. CASE OpenForecast
    BY <2>2, ForecastStep DEF OpenForecast
  <2> QED BY <2>1, <2>2 DEF AnalyticsNext, WalkSchedule, OpenShedding, OpenCases, OpenHealth,
                           OpenEstimate, analyticsVars
<1> QED BY <1>1, <1>2, ForecastHonest, PTL DEF AnalyticsSpec

(***************************************************************************)
(* SheddingSchedule: a window of n hours from hour s of day d.  An hour is *)
(* in it by its mask when less than n hours after s on the clock, and as   *)
(* published when less than n hours after s in the week.                   *)
(***************************************************************************)

Hour == 0..23

LEMMA WindowHours ==
  ASSUME NEW d \in DayOfWeek, NEW s \in Hour, NEW n \in {2, 4}
  PROVE  /\ Window(d, s, n).dow = d /\ Window(d, s, n).start = s /\ Window(d, s, n).end \in Hour
         /\ Length(Window(d, s, n)) = n
         /\ \A hour \in Hour :
              InWindow(hour, Window(d, s, n)) <=> (hour >= s /\ hour < s + n) \/ hour + 24 < s + n
<1>1. CASE s + n < 24
  <2>1. s % 24 = s /\ (s + n) % 24 = s + n /\ n % 24 = n
    BY <1>1 DEF Hour
  <2> QED BY <1>1, <2>1 DEF Window, Length, InWindow, Hour
<1>2. CASE s + n >= 24
  <2>1. s % 24 = s /\ (s + n) % 24 = s + n - 24 /\ (n - 24) % 24 = n /\ n < 24
    BY <1>2 DEF Hour
  <2> QED BY <1>2, <2>1 DEF Window, Length, InWindow, Hour
<1> QED BY <1>1, <1>2 DEF Hour

\* Less than n hours after hour s of day d, counted through the week.
LEMMA PublishedHours ==
  ASSUME NEW d \in DayOfWeek, NEW s \in Hour, NEW n \in {2, 4},
         NEW day \in DayOfWeek, NEW hour \in Hour
  PROVE  (24 * (day - d) + hour - s) % 168 < n <=>
           \/ d = day /\ hour >= s /\ hour < s + n
           \/ d = (day + 6) % 7 /\ hour + 24 < s + n
<1> DEFINE x == 24 * (day - d) + hour - s
<1>1. x \in Int /\ x >= -167 /\ x <= 167
  BY DEF Hour, DayOfWeek
<1>2. CASE x >= 0
  <2>1. x % 168 = x
    <3> HIDE DEF x
    <3> QED BY <1>1, <1>2
  <2>2. day > d => d = day - 1 \/ x > 24
    BY <1>2 DEF Hour, DayOfWeek
  <2>3. day >= d
    BY <1>2 DEF Hour, DayOfWeek
  <2>4. CASE day = d
    BY <2>1, <2>4 DEF Hour, DayOfWeek
  <2>5. CASE d = day - 1
    <3>1. (day + 6) % 7 = d
      BY <2>5 DEF DayOfWeek
    <3> QED BY <2>1, <2>5, <3>1 DEF Hour, DayOfWeek
  <2>6. CASE d # day - 1 /\ day > d
    <3>1. day >= 1 /\ (day + 6) % 7 = day - 1
      BY <2>6 DEF DayOfWeek
    <3> QED BY <2>1, <2>2, <2>6, <3>1 DEF Hour, DayOfWeek
  <2> QED BY <2>3, <2>4, <2>5, <2>6 DEF DayOfWeek
<1>3. CASE x < 0
  <2>1. x % 168 = x + 168
    <3> HIDE DEF x
    <3> QED BY <1>1, <1>3
  <2>2. x + 168 < n => day = 0 /\ d = 6
    BY DEF Hour, DayOfWeek
  <2>3. CASE day = 0 /\ d = 6
    <3>1. (day + 6) % 7 = 6
      BY <2>3
    <3> QED BY <2>1, <2>3, <3>1 DEF Hour
  <2>4. CASE ~(day = 0 /\ d = 6)
    <3>1. ~(d = day /\ hour >= s)
      BY <1>3 DEF Hour, DayOfWeek
    <3>2. d = (day + 6) % 7 => d = day - 1
      BY <2>4 DEF DayOfWeek
    <3>3. d = day - 1 => x > 0
      BY DEF Hour, DayOfWeek
    <3> QED BY <1>1, <1>3, <2>1, <2>2, <2>4, <3>1, <3>2, <3>3
  <2> QED BY <2>3, <2>4
<1> QED BY <1>1, <1>2, <1>3

\* The windows of a group: two blocks, half a day apart, on every weekday and
\* one at the weekend.
Blocks(a, b, c) ==
  {Window(day, s, 4) : day \in Weekday, s \in {a, b}}
    \cup {Window(day, c, 2) : day \in DayOfWeek \ Weekday}

LEMMA GroupBlocks ==
  ASSUME NEW g \in GroupId
  PROVE  \E a, b, c \in Hour :
           /\ a # b /\ (b = a + 12 \/ a = b + 12)
           /\ Windows(g) = Blocks(a, b, c)
<1> DEFINE q == 24 \div Groups
           o == q * g
<1>1. q \in Nat /\ g \in Nat /\ o \in Nat
  BY ScheduleAssumption DEF GroupId
<1> HIDE DEF o
<1> DEFINE a == (5 + o) % 24
           b == (17 + o) % 24
           c == (18 + o) % 24
<1>2. a \in Hour /\ b \in Hour /\ c \in Hour
  BY <1>1 DEF Hour
<1>3. b = a + 12 \/ a = b + 12
  BY <1>1
<1>4. a # b
  BY <1>2, <1>3 DEF Hour
<1>5. /\ \A day : Window(day, 5 + o, 4) = Window(day, a, 4)
      /\ \A day : Window(day, 17 + o, 4) = Window(day, b, 4)
      /\ \A day : Window(day, 18 + o, 2) = Window(day, c, 2)
  <2>1. /\ a % 24 = (5 + o) % 24 /\ (5 + o + 4) % 24 = (a + 4) % 24
        /\ b % 24 = (17 + o) % 24 /\ (17 + o + 4) % 24 = (b + 4) % 24
        /\ c % 24 = (18 + o) % 24 /\ (18 + o + 2) % 24 = (c + 2) % 24
    BY <1>1
  <2> HIDE DEF a, b, c
  <2> QED BY <2>1 DEF Window
<1>6. Windows(g) = {Window(day, start + o, 4) : day \in Weekday, start \in {5, 17}}
                     \cup {Window(day, 18 + o, 2) : day \in DayOfWeek \ Weekday}
  BY DEF Windows, o
<1>7. Windows(g) = Blocks(a, b, c)
  <2> HIDE DEF a, b, c
  <2> QED BY <1>5, <1>6 DEF Blocks
<1> HIDE DEF a, b, c
<1> QED BY <1>2, <1>3, <1>4, <1>7

\* The hours a group is off by its mask, and as published.
LEMMA MaskedHours ==
  ASSUME NEW g \in GroupId, NEW a \in Hour, NEW b \in Hour, NEW c \in Hour, Windows(g) = Blocks(a, b, c),
         NEW day \in DayOfWeek, NEW hour \in Hour
  PROVE  Masked(g, day, hour) <=>
           \/ day \in Weekday /\ \E s \in {a, b} : (hour >= s /\ hour < s + 4) \/ hour + 24 < s + 4
           \/ day \notin Weekday /\ ((hour >= c /\ hour < c + 2) \/ hour + 24 < c + 2)
<1>1. Weekday \subseteq DayOfWeek
  BY DEF Weekday, DayOfWeek
<1>2. \A d \in DayOfWeek, s \in Hour, n \in {2, 4} :
        Window(d, s, n).dow = day /\ InWindow(hour, Window(d, s, n)) <=>
          d = day /\ ((hour >= s /\ hour < s + n) \/ hour + 24 < s + n)
  BY WindowHours
<1>3. Masked(g, day, hour) <=>
        \/ \E d \in Weekday, s \in {a, b} :
             Window(d, s, 4).dow = day /\ InWindow(hour, Window(d, s, 4))
        \/ \E d \in DayOfWeek \ Weekday :
             Window(d, c, 2).dow = day /\ InWindow(hour, Window(d, c, 2))
  BY DEF Masked, Blocks
<1>4. Masked(g, day, hour) <=>
        \/ \E d \in Weekday, s \in {a, b} :
             d = day /\ ((hour >= s /\ hour < s + 4) \/ hour + 24 < s + 4)
        \/ \E d \in DayOfWeek \ Weekday :
             d = day /\ ((hour >= c /\ hour < c + 2) \/ hour + 24 < c + 2)
  BY <1>1, <1>2, <1>3
<1> QED BY <1>4

LEMMA PublishedByBlocks ==
  ASSUME NEW g \in GroupId, NEW a \in Hour, NEW b \in Hour, NEW c \in Hour, Windows(g) = Blocks(a, b, c),
         NEW day \in DayOfWeek, NEW hour \in Hour
  PROVE  Published(g, day, hour) <=>
           \/ day \in Weekday /\ \E s \in {a, b} : hour >= s /\ hour < s + 4
           \/ day \notin Weekday /\ hour >= c /\ hour < c + 2
           \/ (day + 6) % 7 \in Weekday /\ \E s \in {a, b} : hour + 24 < s + 4
           \/ (day + 6) % 7 \notin Weekday /\ hour + 24 < c + 2
<1>1. Weekday \subseteq DayOfWeek
  BY DEF Weekday, DayOfWeek
<1>2. \A d \in DayOfWeek, s \in Hour, n \in {2, 4} :
        (24 * (day - Window(d, s, n).dow) + hour - Window(d, s, n).start) % 168 < Length(Window(d, s, n)) <=>
          \/ d = day /\ hour >= s /\ hour < s + n
          \/ d = (day + 6) % 7 /\ hour + 24 < s + n
  BY WindowHours, PublishedHours
<1>3. Published(g, day, hour) <=>
        \/ \E d \in Weekday, s \in {a, b} :
             (24 * (day - Window(d, s, 4).dow) + hour - Window(d, s, 4).start) % 168 < Length(Window(d, s, 4))
        \/ \E d \in DayOfWeek \ Weekday :
             (24 * (day - Window(d, c, 2).dow) + hour - Window(d, c, 2).start) % 168 < Length(Window(d, c, 2))
  BY DEF Published, Blocks
<1> DEFINE yesterday == (day + 6) % 7
<1>4. yesterday \in DayOfWeek
  BY DEF DayOfWeek
<1> HIDE DEF yesterday
<1>5. Published(g, day, hour) <=>
        \/ \E d \in Weekday, s \in {a, b} :
             (d = day /\ hour >= s /\ hour < s + 4) \/ (d = yesterday /\ hour + 24 < s + 4)
        \/ \E d \in DayOfWeek \ Weekday :
             (d = day /\ hour >= c /\ hour < c + 2) \/ (d = yesterday /\ hour + 24 < c + 2)
  BY <1>1, <1>2, <1>3 DEF yesterday
<1> QED BY <1>4, <1>5 DEF yesterday

\* Mask and schedule differ in the small hours after a change of windows only.
LEMMA DifferAfterMidnight ==
  ASSUME NEW g \in GroupId, NEW day \in DayOfWeek, NEW hour \in Hour,
         Masked(g, day, hour) # Published(g, day, hour)
  PROVE  day \in {0, 5} /\ hour < 4
<1>1. PICK a \in Hour, b \in Hour, c \in Hour : Windows(g) = Blocks(a, b, c)
  BY GroupBlocks
<1> DEFINE same == day \in Weekday /\ \E s \in {a, b} : hour >= s /\ hour < s + 4
           weekend == day \notin Weekday /\ hour >= c /\ hour < c + 2
           over(d) == \/ d \in Weekday /\ \E s \in {a, b} : hour + 24 < s + 4
                      \/ d \notin Weekday /\ hour + 24 < c + 2
<1>2. Masked(g, day, hour) <=> same \/ weekend \/ over(day)
  BY <1>1, MaskedHours
<1>3. Published(g, day, hour) <=> same \/ weekend \/ over((day + 6) % 7)
  BY <1>1, PublishedByBlocks
<1>4. ~(over(day) <=> over((day + 6) % 7))
  <2> HIDE DEF same, weekend, over
  <2>1. Masked(g, day, hour) \in BOOLEAN /\ Published(g, day, hour) \in BOOLEAN
    BY DEF Masked, Published
  <2> QED BY <1>2, <1>3, <2>1
<1>5. hour < 4
  <2>1. over(day) \/ over((day + 6) % 7)
    BY <1>4
  <2> QED BY <2>1 DEF Hour
<1>6. day \in {0, 5}
  <2>1. ~(day \in Weekday <=> (day + 6) % 7 \in Weekday)
    BY <1>4
  <2> QED BY <2>1 DEF Weekday, DayOfWeek
<1> QED BY <1>5, <1>6

(***************************************************************************)
(* The hours of a week add up to the lengths of the windows.               *)
(***************************************************************************)

WeekHours == 0..167

\* 1 in an hour of the week the group is off, as PassHour adds it up.
OffIn(g) == [t \in WeekHours |-> IF Masked(g, t \div 24, t % 24) THEN 1 ELSE 0]

\* The hours of the week the mask takes from one window.
HoursOf(w) == {t \in WeekHours : w.dow = t \div 24 /\ InWindow(t % 24, w)}

\* As many hours as the window is long, wherever midnight falls in it.
LEMMA HoursOfWindow ==
  ASSUME NEW d \in DayOfWeek, NEW s \in Hour, NEW n \in {2, 4},
         NEW f, \A t \in HoursOf(Window(d, s, n)) : f[t] = 1
  PROVE  SumFunctionOnSet(f, HoursOf(Window(d, s, n))) = n
<1> DEFINE w == Window(d, s, n)
           at(i) == IF s + i < 24 THEN 24 * d + s + i ELSE 24 * d + s + i - 24
<1>1. \A i \in 0..3 : at(i) \in WeekHours /\ at(i) \div 24 = d
                      /\ at(i) % 24 = IF s + i < 24 THEN s + i ELSE s + i - 24
  <2> TAKE i \in 0..3
  <2> DEFINE h == IF s + i < 24 THEN s + i ELSE s + i - 24
  <2>1. h \in Hour /\ at(i) = 24 * d + h
    BY DEF Hour, DayOfWeek
  <2> HIDE DEF h
  <2>2. at(i) \in WeekHours /\ (24 * d + h) \div 24 = d /\ (24 * d + h) % 24 = h
    BY <2>1 DEF Hour, DayOfWeek, WeekHours
  <2> QED BY <2>1, <2>2 DEF h
<1>2. \A t \in WeekHours : t \div 24 \in DayOfWeek /\ t % 24 \in Hour /\ t = 24 * (t \div 24) + (t % 24)
  BY DEF WeekHours, DayOfWeek, Hour
<1>3. \A t \in WeekHours : t \in HoursOf(w) <=>
        t \div 24 = d /\ (((t % 24) >= s /\ (t % 24) < s + n) \/ (t % 24) + 24 < s + n)
  <2>1. w.dow = d /\ \A hour \in Hour :
          InWindow(hour, w) <=> (hour >= s /\ hour < s + n) \/ hour + 24 < s + n
    BY WindowHours
  <2> HIDE DEF w
  <2>2. \A t \in WeekHours : t \in HoursOf(w) <=> t \div 24 = d /\ InWindow(t % 24, w)
    BY <2>1 DEF HoursOf
  <2> TAKE t \in WeekHours
  <2> DEFINE h == t % 24
  <2>3. h \in Hour /\ (t \in HoursOf(w) <=> t \div 24 = d /\ InWindow(h, w))
    BY <1>2, <2>2, Zenon
  <2>4. t \in HoursOf(w) <=> t \div 24 = d /\ ((h >= s /\ h < s + n) \/ h + 24 < s + n)
    <3> HIDE DEF h
    <3> QED BY <2>1, <2>3
  <2> QED BY <2>4, Zenon
<1>4. \A i \in 0..(n - 1) : at(i) \in HoursOf(w)
  <2> TAKE i \in 0..(n - 1)
  <2> DEFINE h == at(i) % 24
  <2>1. i \in 0..3 /\ i < n
    OBVIOUS
  <2>2. at(i) \in WeekHours /\ at(i) \div 24 = d /\ h = IF s + i < 24 THEN s + i ELSE s + i - 24
    BY <1>1, <2>1
  <2>3. (h >= s /\ h < s + n) \/ h + 24 < s + n
    <3> HIDE DEF h
    <3> QED BY <2>1, <2>2 DEF Hour
  <2> QED BY <1>3, <2>2, <2>3
<1>5. \A t \in HoursOf(w) : \E i \in 0..(n - 1) : t = at(i)
  <2> TAKE t \in HoursOf(w)
  <2> DEFINE h == t % 24
  <2>1. t \in WeekHours /\ h \in Hour /\ t = 24 * d + h /\ ((h >= s /\ h < s + n) \/ h + 24 < s + n)
    <3>1. t \in WeekHours
      BY DEF HoursOf
    <3>2. t \div 24 = d /\ ((h >= s /\ h < s + n) \/ h + 24 < s + n)
      BY <1>3, <3>1
    <3>3. h \in Hour /\ t = 24 * (t \div 24) + h
      BY <1>2, <3>1, Zenon
    <3> HIDE DEF h
    <3> QED BY <3>1, <3>2, <3>3
  <2> HIDE DEF h
  <2>2. CASE h >= s /\ h < s + n
    <3>1. h - s \in 0..(n - 1) /\ t = at(h - s)
      BY <2>1, <2>2 DEF Hour, DayOfWeek
    <3> QED BY <3>1
  <2>3. CASE h + 24 < s + n
    <3>1. h + 24 - s \in 0..(n - 1) /\ t = at(h + 24 - s)
      BY <2>1, <2>3 DEF Hour, DayOfWeek
    <3> QED BY <3>1
  <2> QED BY <2>1, <2>2, <2>3
<1>6. \A i, j \in 0..3 : i # j => at(i) # at(j)
  BY DEF Hour, DayOfWeek
<1> HIDE DEF at
<1>7. CASE n = 2
  <2>1. HoursOf(w) = {at(0), at(1)}
    <3>1. 0..(n - 1) = {0, 1}
      BY <1>7
    <3> QED BY <1>4, <1>5, <3>1
  <2>2. at(0) # at(1) /\ f[at(0)] = 1 /\ f[at(1)] = 1
    BY <1>6, <2>1
  <2>3. SumFunctionOnSet(f, {at(0), at(1)}) = 1 + 1
    <3>1. f[at(0)] \in Int /\ f[at(1)] \in Int
      BY <2>2
    <3>2. SumFunctionOnSet(f, {at(0), at(1)}) = f[at(0)] + f[at(1)]
      BY <2>2, <3>1, SumOfPair
    <3> QED BY <2>2, <3>2
  <2> QED BY <1>7, <2>1, <2>3
<1>8. CASE n = 4
  <2>1. HoursOf(w) = {at(0), at(1)} \cup {at(2), at(3)}
    <3>1. 0..(n - 1) = {0, 1, 2, 3}
      BY <1>8
    <3>2. HoursOf(w) = {at(0), at(1), at(2), at(3)}
      BY <1>4, <1>5, <3>1
    <3> QED BY <3>2
  <2>2. /\ at(0) # at(1) /\ at(2) # at(3) /\ {at(0), at(1)} \cap {at(2), at(3)} = {}
        /\ f[at(0)] = 1 /\ f[at(1)] = 1 /\ f[at(2)] = 1 /\ f[at(3)] = 1
    BY <1>6, <2>1
  <2>3. SumFunctionOnSet(f, {at(0), at(1)}) = 2 /\ SumFunctionOnSet(f, {at(2), at(3)}) = 2
    <3>1. f[at(0)] \in Int /\ f[at(1)] \in Int /\ f[at(2)] \in Int /\ f[at(3)] \in Int
      BY <2>2
    <3>2. /\ SumFunctionOnSet(f, {at(0), at(1)}) = f[at(0)] + f[at(1)]
          /\ SumFunctionOnSet(f, {at(2), at(3)}) = f[at(2)] + f[at(3)]
      BY <2>2, <3>1, SumOfPair
    <3> QED BY <2>2, <3>2
  <2>4. IsFiniteSet({at(0), at(1)}) /\ IsFiniteSet({at(2), at(3)})
    BY PairFinite
  <2>5. \A t \in {at(0), at(1)} \cup {at(2), at(3)} : f[t] \in Int
    BY <2>2
  <2>6. SumFunctionOnSet(f, {at(0), at(1)} \cup {at(2), at(3)})
          = SumFunctionOnSet(f, {at(0), at(1)}) + SumFunctionOnSet(f, {at(2), at(3)})
    BY <2>2, <2>4, <2>5, SumOfUnion
  <2> QED BY <1>8, <2>1, <2>3, <2>6
<1> QED BY <1>7, <1>8

\* Different windows of a group share no hour.
LEMMA BlocksApart ==
  ASSUME NEW a \in Hour, NEW b \in Hour, NEW c \in Hour, b = a + 12 \/ a = b + 12,
         NEW v \in Blocks(a, b, c), NEW w \in Blocks(a, b, c), v # w
  PROVE  HoursOf(v) \cap HoursOf(w) = {}
<1> SUFFICES ASSUME NEW t \in HoursOf(v) \cap HoursOf(w) PROVE FALSE
  OBVIOUS
<1>1. t \div 24 = v.dow /\ t \div 24 = w.dow /\ InWindow(t % 24, v) /\ InWindow(t % 24, w) /\ t % 24 \in Hour
  BY DEF HoursOf, WeekHours, Hour
<1>2. Weekday \subseteq DayOfWeek
  BY DEF Weekday, DayOfWeek
<1> DEFINE h == t % 24
           in(s, n) == (h >= s /\ h < s + n) \/ h + 24 < s + n
           isBlock(u) == \/ \E d \in Weekday, s \in {a, b} : u = Window(d, s, 4) /\ u.dow = d /\ in(s, 4)
                         \/ \E d \in DayOfWeek \ Weekday : u = Window(d, c, 2) /\ u.dow = d
<1>3. \A u \in Blocks(a, b, c) : InWindow(h, u) => isBlock(u)
  <2> TAKE u \in Blocks(a, b, c)
  <2> HAVE InWindow(h, u)
  <2>1. CASE \E d \in Weekday, s \in {a, b} : u = Window(d, s, 4)
    <3>1. PICK d \in Weekday, s \in {a, b} : u = Window(d, s, 4)
      BY <2>1
    <3>2. u.dow = d /\ (InWindow(h, u) <=> in(s, 4))
      BY <1>1, <1>2, <3>1, WindowHours
    <3> QED BY <3>1, <3>2
  <2>2. CASE \E d \in DayOfWeek \ Weekday : u = Window(d, c, 2)
    <3>1. PICK d \in DayOfWeek \ Weekday : u = Window(d, c, 2)
      BY <2>2
    <3>2. u.dow = d
      BY <3>1, WindowHours
    <3> QED BY <3>1, <3>2
  <2> QED BY <2>1, <2>2 DEF Blocks
<1>4. isBlock(v) /\ isBlock(w) /\ v.dow = w.dow
  BY <1>1, <1>3
<1>5. in(a, 4) => ~in(b, 4)
  BY <1>1 DEF Hour
<1> HIDE DEF in, h
<1> QED BY <1>4, <1>5

LEMMA BlocksFinite ==
  ASSUME NEW a \in Hour, NEW b \in Hour, NEW c \in Hour
  PROVE  IsFiniteSet(Blocks(a, b, c))
<1> DEFINE All == (DayOfWeek \X Hour) \X {2, 4}
           f == [p \in All |-> Window(p[1][1], p[1][2], p[2])]
           Im == {f[p] : p \in All}
<1>1. IsFiniteSet(DayOfWeek) /\ IsFiniteSet(Hour)
  <2>1. 0 \in Int /\ 6 \in Int /\ 23 \in Int
    OBVIOUS
  <2>2. IsFiniteSet(0..6) /\ IsFiniteSet(0..23)
    BY <2>1, IntervalFinite, Zenon
  <2> QED BY <2>2 DEF DayOfWeek, Hour
<1>2. IsFiniteSet({2, 4})
  BY PairFinite
<1>3. IsFiniteSet(All)
  BY <1>1, <1>2, FS_Product
<1>4. f \in Surjection(All, Im)
  BY DEF Surjection
<1>5. IsFiniteSet(Im)
  BY <1>3, <1>4, FS_Surjection
<1>6. \A d \in DayOfWeek, s \in Hour, n \in {2, 4} : Window(d, s, n) \in Im
  <2> TAKE d \in DayOfWeek, s \in Hour, n \in {2, 4}
  <2>1. <<<<d, s>>, n>> \in All /\ f[<<<<d, s>>, n>>] = Window(d, s, n)
    OBVIOUS
  <2> QED BY <2>1
<1>7. Blocks(a, b, c) \in SUBSET Im
  <2> HIDE DEF Im
  <2> QED BY <1>6 DEF Blocks, Weekday, DayOfWeek
<1> QED BY <1>5, <1>7, FS_Subset

\* Over a whole week the mask takes as many hours as the windows are long.
LEMMA WeekTotal ==
  ASSUME NEW g \in GroupId
  PROVE  SumFunctionOnSet(OffIn(g), WeekHours) = HoursPerWeek(g) /\ HoursPerWeek(g) \in Int
<1>1. PICK a \in Hour, b \in Hour, c \in Hour :
        (b = a + 12 \/ a = b + 12) /\ Windows(g) = Blocks(a, b, c)
  BY GroupBlocks
<1> DEFINE M == Windows(g)
           f == OffIn(g)
           part == [w \in M |-> HoursOf(w)]
           sums == [w \in M |-> Length(w)]
           off == UNION {part[w] : w \in M}
<1>2. IsFiniteSet(M) /\ IsFiniteSet(WeekHours)
  <2>1. 0 \in Int /\ 167 \in Int
    OBVIOUS
  <2>2. IsFiniteSet(0..167)
    BY <2>1, IntervalFinite, Zenon
  <2> QED BY <1>1, <2>2, BlocksFinite DEF WeekHours
<1>3. \A w \in M : \E d \in DayOfWeek, s \in Hour, n \in {2, 4} : w = Window(d, s, n)
  BY <1>1 DEF Blocks, Weekday, DayOfWeek
<1>4. \A t \in WeekHours : f[t] \in Int
  BY DEF OffIn
<1>5. \A w \in M : part[w] \in SUBSET WeekHours /\ \A t \in part[w] : f[t] = 1
  BY DEF OffIn, HoursOf, Masked
<1>6. \A w \in M : sums[w] = SumFunctionOnSet(f, part[w])
  <2> TAKE w \in M
  <2>1. PICK d \in DayOfWeek, s \in Hour, n \in {2, 4} : w = Window(d, s, n)
    BY <1>3
  <2>2. Length(w) = n
    BY <2>1, WindowHours
  <2>3. \A t \in HoursOf(w) : f[t] = 1
    BY <1>5
  <2>4. SumFunctionOnSet(f, HoursOf(w)) = n
    <3> QED BY <2>1, <2>3, HoursOfWindow
  <2> QED BY <2>2, <2>4
<1>7. \A v, w \in M : v # w => part[v] \cap part[w] = {}
  BY <1>1, BlocksApart
<1>8. \A t \in WeekHours \ off : f[t] = 0
  <2> TAKE t \in WeekHours \ off
  <2>1. \A w \in M : ~(w.dow = t \div 24 /\ InWindow(t % 24, w))
    BY DEF HoursOf
  <2> QED BY <2>1 DEF OffIn, Masked
<1>9. off \in SUBSET WeekHours
  BY <1>5
<1>10. SumFunctionOnSet(sums, M) = SumFunctionOnSet(f, off)
  <2> HIDE DEF M, f, part, sums
  <2> QED BY <1>2, <1>4, <1>5, <1>6, <1>7, SumOfParts
<1>11. SumFunctionOnSet(f, WeekHours) = SumFunctionOnSet(f, off)
  <2> HIDE DEF f, off
  <2> QED BY <1>2, <1>4, <1>8, <1>9, SumDropZeros
<1>12. SumFunctionOnSet(f, WeekHours) \in Int
  <2> HIDE DEF f
  <2> QED BY <1>2, <1>4, SumIsInt
<1>13. HoursPerWeek(g) = SumFunctionOnSet(sums, M)
  BY DEF HoursPerWeek
<1> QED BY <1>10, <1>11, <1>12, <1>13

(***************************************************************************)
(* The walk: whole weeks, and the hours of the week passed since.          *)
(***************************************************************************)

\* The hour of the week k hours after midnight of a day, and those passed by then.
WeekHour(day, k) == (24 * day + k) % 168
PassedHours(day, k) == {WeekHour(day, j) : j \in 0..(k - 1)}

ScheduleInv ==
  /\ startDay \in DayOfWeek \cup {-1} /\ elapsed \in Nat
  /\ startDay = -1 => elapsed = 0
  /\ hoursOff \in [GroupId -> Int]
  /\ startDay = -1 => \A g \in GroupId : hoursOff[g] = 0
  /\ startDay # -1 =>
       \A g \in GroupId :
         hoursOff[g] = (elapsed \div 168) * HoursPerWeek(g)
                         + SumFunctionOnSet(OffIn(g), PassedHours(startDay, elapsed % 168))

LEMMA HoursPass ==
  ASSUME NEW day \in DayOfWeek
  PROVE  /\ PassedHours(day, 0) = {}
         /\ PassedHours(day, 168) = WeekHours
         /\ \A k \in WeekHours :
              /\ WeekHour(day, k) \in WeekHours /\ WeekHour(day, k) \notin PassedHours(day, k)
              /\ PassedHours(day, k + 1) = PassedHours(day, k) \cup {WeekHour(day, k)}
         /\ \A k \in 0..168 : PassedHours(day, k) \subseteq WeekHours
<1>1. \A j \in Nat : WeekHour(day, j) \in WeekHours
  BY DEF WeekHour, WeekHours, DayOfWeek
<1>2. PassedHours(day, 0) = {}
  <2>1. 0..(0 - 1) = {}
    OBVIOUS
  <2> QED BY <2>1 DEF PassedHours
<1>3. \A k \in 0..168 : PassedHours(day, k) \subseteq WeekHours
  BY <1>1 DEF PassedHours
<1>4. WeekHours \subseteq PassedHours(day, 168)
  <2> SUFFICES ASSUME NEW t \in WeekHours PROVE t \in PassedHours(day, 168)
    OBVIOUS
  <2> DEFINE j == IF t >= 24 * day THEN t - 24 * day ELSE t - 24 * day + 168
  <2>1. j \in 0..(168 - 1) /\ (24 * day + j = t \/ 24 * day + j = t + 168)
    BY DEF WeekHours, DayOfWeek
  <2> HIDE DEF j
  <2>2. WeekHour(day, j) = t
    BY <2>1 DEF WeekHour, WeekHours
  <2> QED BY <2>1, <2>2 DEF PassedHours
<1>5. ASSUME NEW k \in WeekHours
      PROVE  /\ WeekHour(day, k) \notin PassedHours(day, k)
             /\ PassedHours(day, k + 1) = PassedHours(day, k) \cup {WeekHour(day, k)}
  <2>1. \A j \in 0..(k - 1) : WeekHour(day, j) # WeekHour(day, k)
    BY DEF WeekHour, WeekHours, DayOfWeek
  <2>2. 0..((k + 1) - 1) = 0..(k - 1) \cup {k}
    BY DEF WeekHours
  <2> QED BY <2>1, <2>2 DEF PassedHours
<1>6. \A k \in WeekHours : k \in Nat /\ k \in 0..168
  BY DEF WeekHours
<1>7. PassedHours(day, 168) = WeekHours
  <2>1. PassedHours(day, 168) \subseteq WeekHours
    BY <1>3
  <2> QED BY <2>1, <1>4
<1> QED BY <1>1, <1>2, <1>3, <1>5, <1>6, <1>7

LEMMA OffFinite ==
  ASSUME NEW S \in SUBSET WeekHours, NEW g
  PROVE  /\ IsFiniteSet(S) /\ \A t \in S : OffIn(g)[t] \in Int
         /\ SumFunctionOnSet(OffIn(g), S) \in Int
<1>1. IsFiniteSet(WeekHours)
  <2>1. 0 \in Int /\ 167 \in Int
    OBVIOUS
  <2> QED BY <2>1, IntervalFinite, Zenon DEF WeekHours
<1>2. IsFiniteSet(S)
  BY <1>1, FS_Subset
<1>3. \A t \in S : OffIn(g)[t] \in Int
  BY DEF OffIn
<1>4. SumFunctionOnSet(OffIn(g), S) \in Int
  BY <1>2, <1>3, SumIsInt
<1> QED BY <1>2, <1>3, <1>4

\* Today and HourNow are the hour of the week the walk has come to.
LEMMA NowInTheWeek ==
  ASSUME startDay \in DayOfWeek, elapsed \in Nat
  PROVE  LET t == WeekHour(startDay, elapsed % 168)
         IN  t \in WeekHours /\ Today = t \div 24 /\ HourNow = t % 24
               /\ Today \in DayOfWeek /\ HourNow \in Hour
<1> DEFINE k == elapsed % 168
           w == elapsed \div 168
           t == WeekHour(startDay, k)
<1>1. k \in WeekHours /\ w \in Nat /\ elapsed = 168 * w + k
  BY DEF WeekHours
<1> HIDE DEF k, w
<1> DEFINE d == k \div 24
           h == k % 24
<1>2. d \in DayOfWeek /\ h \in Hour /\ k = 24 * d + h
  BY <1>1 DEF WeekHours, DayOfWeek, Hour
<1> HIDE DEF d, h
<1>3. elapsed = 24 * (7 * w + d) + h
  BY <1>1, <1>2 DEF DayOfWeek, Hour
<1>4. elapsed \div 24 = 7 * w + d /\ elapsed % 24 = h
  BY <1>1, <1>2, <1>3 DEF DayOfWeek, Hour
<1> DEFINE e == (startDay + d) % 7
<1>5. Today = e
  <2>1. (startDay + (7 * w + d)) % 7 = e
    BY <1>1, <1>2 DEF DayOfWeek
  <2> QED BY <1>4, <2>1 DEF Today
<1>6. e \in DayOfWeek /\ (startDay + d = e \/ startDay + d = e + 7)
  BY <1>2 DEF DayOfWeek
<1> HIDE DEF e
<1>7. 24 * startDay + k = 24 * e + h \/ 24 * startDay + k = 24 * e + h + 168
  BY <1>2, <1>6 DEF DayOfWeek, Hour
<1>8. (24 * startDay + k) % 168 = 24 * e + h
  BY <1>1, <1>2, <1>6, <1>7 DEF DayOfWeek, Hour
<1>9. t = 24 * e + h
  BY <1>8 DEF WeekHour
<1>10. t \in WeekHours /\ t \div 24 = e /\ t % 24 = h
  <2>1. 24 * e + h \in WeekHours /\ (24 * e + h) \div 24 = e /\ (24 * e + h) % 24 = h
    BY <1>2, <1>6 DEF DayOfWeek, Hour, WeekHours
  <2> HIDE DEF t
  <2> QED BY <1>9, <2>1
<1> HIDE DEF t
<1>11. HourNow = h
  BY <1>4 DEF HourNow
<1>12. Today \in DayOfWeek /\ HourNow \in Hour
  BY <1>2, <1>5, <1>6, <1>11
<1> QED BY <1>5, <1>10, <1>11, <1>12 DEF t, k

LEMMA ScheduleInitially == ScheduleInit => ScheduleInv
BY DEF ScheduleInit, ScheduleInv

LEMMA BeginKeeps ==
  ASSUME ScheduleInv, NEW day \in DayOfWeek, Begin(day)
  PROVE  ScheduleInv'
<1>1. startDay' = day /\ elapsed' = 0 /\ hoursOff' = hoursOff /\ day # -1
      /\ \A g \in GroupId : hoursOff[g] = 0
  BY DEF Begin, ScheduleInv, DayOfWeek
<1>2. 0 \div 168 = 0 /\ 0 % 168 = 0
  OBVIOUS
<1>3. ASSUME NEW g \in GroupId
      PROVE  hoursOff'[g] = (elapsed' \div 168) * HoursPerWeek(g)
                              + SumFunctionOnSet(OffIn(g), PassedHours(startDay', elapsed' % 168))
  <2>1. SumFunctionOnSet(OffIn(g), PassedHours(day, 0)) = 0
    BY HoursPass, SumEmpty
  <2> DEFINE sum == SumFunctionOnSet(OffIn(g), PassedHours(day, 0))
             per == HoursPerWeek(g)
  <2>2. per \in Int /\ sum = 0
    BY <2>1, WeekTotal
  <2> HIDE DEF sum, per
  <2>3. 0 * per + sum = 0
    BY <2>2
  <2> QED BY <1>1, <1>2, <2>3 DEF sum, per
<1> QED BY <1>1, <1>3 DEF ScheduleInv

LEMMA PassKeeps ==
  ASSUME ScheduleInv, PassHour
  PROVE  ScheduleInv'
<1> DEFINE k == elapsed % 168
           w == elapsed \div 168
           t == WeekHour(startDay, k)
<1>1. /\ startDay \in DayOfWeek /\ startDay' = startDay /\ startDay # -1
      /\ elapsed \in Nat /\ elapsed' = elapsed + 1
      /\ hoursOff' = [g \in GroupId |-> hoursOff[g] + (IF Masked(g, Today, HourNow) THEN 1 ELSE 0)]
  BY DEF PassHour, ScheduleInv
<1>2. k \in WeekHours /\ w \in Nat /\ elapsed = 168 * w + k
  BY <1>1 DEF WeekHours
<1>3. /\ k # 167 => elapsed' \div 168 = w /\ elapsed' % 168 = k + 1
      /\ k = 167 => elapsed' \div 168 = w + 1 /\ elapsed' % 168 = 0
  <2> HIDE DEF k, w
  <2>1. elapsed' = 168 * w + k + 1
    BY <1>1, <1>2
  <2> QED BY <1>2, <2>1 DEF WeekHours
<1>4. t \in WeekHours /\ Today = t \div 24 /\ HourNow = t % 24
  BY <1>1, NowInTheWeek
<1>5. t \notin PassedHours(startDay, k)
      /\ PassedHours(startDay, k + 1) = PassedHours(startDay, k) \cup {t}
      /\ PassedHours(startDay, k) \subseteq WeekHours
  <2>1. k \in 0..168
    BY <1>2 DEF WeekHours
  <2> HIDE DEF k
  <2> QED BY <1>1, <1>2, <2>1, HoursPass
<1> HIDE DEF k, w, t
<1>6. ASSUME NEW g \in GroupId
      PROVE  /\ hoursOff'[g] \in Int
             /\ hoursOff'[g] = (elapsed' \div 168) * HoursPerWeek(g)
                                + SumFunctionOnSet(OffIn(g), PassedHours(startDay', elapsed' % 168))
  <2> DEFINE per == HoursPerWeek(g)
             Passed(n) == SumFunctionOnSet(OffIn(g), PassedHours(startDay, n))
             one == OffIn(g)[t]
  <2>1. hoursOff'[g] = hoursOff[g] + one /\ one \in Int
    <3>1. one = IF Masked(g, Today, HourNow) THEN 1 ELSE 0
      BY <1>4 DEF OffIn
    <3> QED BY <1>1, <3>1
  <2>2. hoursOff[g] = w * per + Passed(k)
    BY <1>1 DEF ScheduleInv, w, k
  <2>3. Passed(k + 1) = one + Passed(k) /\ Passed(k) \in Int
    <3> DEFINE S == PassedHours(startDay, k)
               f == OffIn(g)
    <3>1. S \cup {t} \in SUBSET WeekHours /\ S \in SUBSET WeekHours
      BY <1>4, <1>5
    <3>2. IsFiniteSet(S) /\ \A u \in S \cup {t} : f[u] \in Int
      BY <3>1, OffFinite
    <3>3. SumFunctionOnSet(f, S \cup {t}) = f[t] + SumFunctionOnSet(f, S)
      <4>1. t \notin S
        BY <1>5
      <4> HIDE DEF S, f
      <4> QED BY <3>2, <4>1, SumPutIn
    <3>4. SumFunctionOnSet(f, S) \in Int
      BY <3>1, OffFinite
    <3> QED BY <1>5, <3>3, <3>4
  <2>4. per \in Int /\ Passed(168) = per /\ Passed(0) = 0
    <3>1. PassedHours(startDay, 168) = WeekHours /\ PassedHours(startDay, 0) = {}
      BY <1>1, HoursPass
    <3>2. SumFunctionOnSet(OffIn(g), WeekHours) = per /\ per \in Int
      BY WeekTotal
    <3>3. SumFunctionOnSet(OffIn(g), {}) = 0
      BY SumEmpty
    <3> QED BY <3>1, <3>2, <3>3
  <2>5. hoursOff'[g] = (elapsed' \div 168) * per + Passed(elapsed' % 168)
    <3> HIDE DEF per, Passed, one
    <3>1. w * per \in Int /\ (w + 1) * per = w * per + per
      BY <1>2, <2>4
    <3>2. CASE k # 167
      BY <1>3, <2>1, <2>2, <2>3, <3>1, <3>2
    <3>3. CASE k = 167
      <4>1. Passed(168) = one + Passed(k)
        BY <2>3, <3>3
      <4>2. hoursOff'[g] = (w + 1) * per + Passed(0)
        BY <2>1, <2>2, <2>3, <2>4, <3>1, <4>1
      <4> QED BY <1>3, <3>3, <4>2
    <3> QED BY <3>2, <3>3
  <2>6. hoursOff'[g] \in Int
    BY <2>1 DEF ScheduleInv
  <2> QED BY <1>1, <2>5, <2>6
<1>7. hoursOff' \in [GroupId -> Int]
  BY <1>1, <1>6
<1> QED BY <1>1, <1>6, <1>7 DEF ScheduleInv

\* After whole weeks nothing of a week is left to add up.
LEMMA WholeWeeks == ScheduleInv => HoursAsPublished /\ MidnightConfined
<1> SUFFICES ASSUME ScheduleInv, startDay # -1
             PROVE  /\ elapsed % 168 = 0 =>
                         \A g \in GroupId : hoursOff[g] = (elapsed \div 168) * HoursPerWeek(g)
                    /\ \A g \in GroupId :
                         (Masked(g, Today, HourNow) # Published(g, Today, HourNow)) =>
                           Today \in {0, 5} /\ HourNow < 4
  BY DEF HoursAsPublished, MidnightConfined
<1>1. startDay \in DayOfWeek /\ elapsed \in Nat
  BY DEF ScheduleInv
<1>2. Today \in DayOfWeek /\ HourNow \in Hour
  BY <1>1, NowInTheWeek
<1>3. ASSUME elapsed % 168 = 0, NEW g \in GroupId
      PROVE  hoursOff[g] = (elapsed \div 168) * HoursPerWeek(g)
  <2> DEFINE w == elapsed \div 168
             per == HoursPerWeek(g)
             sum == SumFunctionOnSet(OffIn(g), PassedHours(startDay, 0))
  <2>1. hoursOff[g] = w * per + sum
    BY <1>3 DEF ScheduleInv
  <2>2. sum = 0 /\ per \in Int /\ w \in Int
    <3>1. PassedHours(startDay, 0) = {}
      BY <1>1, HoursPass
    <3>2. sum = 0
      BY <3>1, SumEmpty
    <3>3. w \in Int
      BY <1>1
    <3> QED BY <3>2, <3>3, WeekTotal
  <2> HIDE DEF w, per, sum
  <2>3. w * per \in Int
    BY <2>2
  <2>4. hoursOff[g] = w * per
    BY <2>1, <2>2, <2>3
  <2> QED BY <2>4 DEF w, per
<1> QED BY <1>2, <1>3, DifferAfterMidnight

LEMMA ScheduleAlways == AnalyticsSpec => []ScheduleInv
<1>1. AnalyticsInit => ScheduleInv
  BY ScheduleInitially DEF AnalyticsInit
<1>2. ScheduleInv /\ [AnalyticsNext]_analyticsVars => ScheduleInv'
  <2> SUFFICES ASSUME ScheduleInv, [AnalyticsNext]_analyticsVars PROVE ScheduleInv'
    OBVIOUS
  <2>1. CASE UNCHANGED scheduleVars
    BY <2>1 DEF ScheduleInv, scheduleVars
  <2>2. CASE WalkSchedule
    BY <2>2, BeginKeeps, PassKeeps DEF WalkSchedule, ScheduleNext
  <2> QED BY <2>1, <2>2 DEF AnalyticsNext, OpenForecast, OpenShedding, OpenCases, OpenHealth,
                           OpenEstimate, analyticsVars
<1> QED BY <1>1, <1>2, PTL DEF AnalyticsSpec

\* For every number of groups that divides the day, every day a scenario
\* begins on and every number of weeks, the mask takes from a group the hours
\* its windows are published with.
THEOREM HoursAlwaysAsPublished == AnalyticsSpec => []HoursAsPublished
<1>1. ScheduleInv => HoursAsPublished
  BY WholeWeeks
<1> QED BY <1>1, ScheduleAlways, PTL

\* For every number of groups that divides the day, matching a window on its
\* own day shows in the small hours of Saturday and of Monday only.
THEOREM MidnightAlwaysConfined == AnalyticsSpec => []MidnightConfined
<1>1. ScheduleInv => MidnightConfined
  BY WholeWeeks
<1> QED BY <1>1, ScheduleAlways, PTL

(***************************************************************************)
(* CaseQueue: the votes cast for a reduction shared with the peers.        *)
(***************************************************************************)

LEMMA SmallerOf ==
  ASSUME NEW m \in Nat, NEW n \in Nat, m < n
  PROVE  Min({m, n}) = m
<1> DEFINE least(x) == x \in {m, n} /\ \A y \in {m, n} : x <= y
<1>1. least(m) /\ ~least(n)
  OBVIOUS
<1>2. \A x : least(x) => x = m
  BY <1>1
<1>3. Min({m, n}) = CHOOSE x : least(x)
  BY DEF Min
<1> HIDE DEF least
<1> QED BY <1>1, <1>2, <1>3

\* Only the vote against a bypass and the one for normal can be cast, and the
\* former is no stronger.
LEMMA VotesForCommonReduction ==
  ASSUME NEW c, features[c] \in ConnectionFeatures, WithPeers(c),
         features[c].change \in -50..-6, features[c].gapRatio <= 40, features[c].irradiance >= -15
  PROVE  \E p \in Nat :
           p <= 6000 /\ Votes(c) = [k \in Cause |-> IF k = "partial_bypass" THEN p ELSE IF k = Normal THEN 6000 ELSE 0]
<1> DEFINE f == features[c]
<1>1. /\ f.change \in Int /\ f.change >= -50 /\ f.change <= -6 /\ f.gapRatio \in Int
      /\ f.irradiance \in Int /\ f.irradiance >= -15 /\ f.gapRatio <= 40
  BY DEF ConnectionFeatures
<1> HIDE DEF f
<1>2. LfSolar(f) = Silent /\ LfVacancy(f) = Silent /\ LfFailureOrFullBypass(f) = Silent
      /\ LfSustainedSilence(f) = Silent
  BY <1>1 DEF LfSolar, LfVacancy, LfFailureOrFullBypass, LfSustainedSilence
<1>3. LfGenuineReduction(c) = For({Normal}, 6000)
  BY <1>1 DEF LfGenuineReduction, f
<1>4. \E p \in Nat : p <= 6000 /\ LfPartialBypass(f) = For({"partial_bypass"}, p)
  <2>1. Silent = For({"partial_bypass"}, 0)
    BY DEF Silent, For
  <2> DEFINE m == 120 * Abs(f.change)
  <2>2. m \in Nat /\ m <= 6000
    BY <1>1 DEF Abs
  <2> HIDE DEF m
  <2>3. Min({m, 10000}) = m
    BY <2>2, SmallerOf
  <2>4. LfPartialBypass(f) = For({"partial_bypass"}, m) \/ LfPartialBypass(f) = Silent
    BY <2>3 DEF LfPartialBypass, m
  <2>5. 0 \in Nat /\ 0 <= 6000
    OBVIOUS
  <2>6. CASE LfPartialBypass(f) = Silent
    BY <2>1, <2>5, <2>6
  <2>7. CASE LfPartialBypass(f) = For({"partial_bypass"}, m)
    BY <2>2, <2>7
  <2> QED BY <2>4, <2>6, <2>7
<1>5. PICK p \in Nat : p <= 6000 /\ LfPartialBypass(f) = For({"partial_bypass"}, p)
  BY <1>4
<1> DEFINE votes == <<Silent, Silent, Silent, Silent, For({"partial_bypass"}, p), For({Normal}, 6000)>>
           count(k) == IF k = "partial_bypass" THEN p ELSE IF k = Normal THEN 6000 ELSE 0
<1>6. Votes(c) = Tally(votes)
  BY <1>2, <1>3, <1>5 DEF Votes, f
<1>7. \A k \in Cause : SumFunctionOnSet([i \in DOMAIN votes |-> votes[i][k]], DOMAIN votes) = count(k)
  <2> TAKE k \in Cause
  <2> DEFINE g == [i \in DOMAIN votes |-> votes[i][k]]
  <2>1. DOMAIN votes = 1..6
    OBVIOUS
  <2>2. g[1] = 0 /\ g[2] = 0 /\ g[3] = 0 /\ g[4] = 0
    BY <2>1 DEF Silent
  <2>3. g[5] = (IF k = "partial_bypass" THEN p ELSE 0) /\ g[6] = (IF k = Normal THEN 6000 ELSE 0)
    BY <2>1 DEF For
  <2> HIDE DEF g
  <2>4. \A i \in 1..6 : g[i] \in Int /\ (i \notin {5, 6} => g[i] = 0)
    <3>1. \A i \in 1..6 : i = 1 \/ i = 2 \/ i = 3 \/ i = 4 \/ i = 5 \/ i = 6
      OBVIOUS
    <3> QED BY <3>1, <2>2, <2>3
  <2>5. SumFunctionOnSet(g, 1..6) = SumFunctionOnSet(g, {5, 6})
    <3>1. 1 \in Int /\ 6 \in Int
      OBVIOUS
    <3>2. IsFiniteSet(1..6)
      BY <3>1, IntervalFinite
    <3>3. {5, 6} \in SUBSET (1..6) /\ \A i \in (1..6) \ {5, 6} : g[i] = 0
      BY <2>4
    <3> QED BY <2>4, <3>2, <3>3, SumDropZeros
  <2>6. SumFunctionOnSet(g, {5, 6}) = g[5] + g[6]
    <3>1. 5 # 6 /\ g[5] \in Int /\ g[6] \in Int
      BY <2>4
    <3> QED BY <3>1, SumOfPair
  <2>7. g[5] + g[6] = count(k)
    <3>1. CASE k = "partial_bypass"
      <4>1. k # Normal
        BY <3>1 DEF Normal
      <4>2. g[5] = p /\ g[6] = 0 /\ count(k) = p
        BY <2>3, <3>1, <4>1
      <4> HIDE DEF count
      <4> QED BY <4>2
    <3>2. CASE k = Normal
      <4>1. k # "partial_bypass"
        BY <3>2 DEF Normal
      <4>2. g[5] = 0 /\ g[6] = 6000 /\ count(k) = 6000
        BY <2>3, <3>2, <4>1
      <4> HIDE DEF count
      <4> QED BY <4>2
    <3>3. CASE k # "partial_bypass" /\ k # Normal
      <4>1. g[5] = 0 /\ g[6] = 0 /\ count(k) = 0
        BY <2>3, <3>3
      <4> HIDE DEF count
      <4> QED BY <4>1
    <3> QED BY <3>1, <3>2, <3>3
  <2>8. SumFunctionOnSet(g, DOMAIN votes) = count(k)
    BY <2>1, <2>5, <2>6, <2>7
  <2> QED BY <2>8 DEF g
<1>8. Votes(c) = [k \in Cause |-> count(k)]
  <2> HIDE DEF votes, count
  <2> QED BY <1>6, <1>7 DEF Tally
<1> QED BY <1>5, <1>8

\* So the mass of the anomalies does not reach the vote for normal.
LEMMA CommonReductionIsNormal ==
  ASSUME NEW c, features[c] \in ConnectionFeatures, WithPeers(c),
         features[c].change \in -50..-6, features[c].gapRatio <= 40, features[c].irradiance >= -15
  PROVE  Label(c).cause = Normal
<1>1. PICK p \in Nat :
        p <= 6000 /\ Votes(c) = [k \in Cause |-> IF k = "partial_bypass" THEN p ELSE IF k = Normal THEN 6000 ELSE 0]
  BY VotesForCommonReduction
<1> DEFINE v == Votes(c)
           A == ToSet(Anomalies)
<1>2. A = {"solar_adoption", "vacancy"} \cup {"meter_failure", "full_bypass"} \cup {"partial_bypass"}
  <2>1. DOMAIN Anomalies = 1..5
    BY DEF Anomalies
  <2>2. \A i \in 1..5 : i = 1 \/ i = 2 \/ i = 3 \/ i = 4 \/ i = 5
    OBVIOUS
  <2>3. A = {Anomalies[1], Anomalies[2], Anomalies[3], Anomalies[4], Anomalies[5]}
    BY <2>1, <2>2 DEF ToSet
  <2> QED BY <2>3 DEF Anomalies
<1>3. A \subseteq Cause /\ Normal \in Cause /\ Normal \notin A
  BY <1>2 DEF Cause, Normal
<1>4. v[Normal] = 6000 /\ v["partial_bypass"] = p /\ "partial_bypass" \in A
  BY <1>1, <1>2, <1>3 DEF Normal
<1>5. \A k \in A \ {"partial_bypass"} : v[k] = 0
  BY <1>1, <1>3
<1>6. IsFiniteSet(A)
  <2>1. IsFiniteSet({"solar_adoption", "vacancy"}) /\ IsFiniteSet({"meter_failure", "full_bypass"})
        /\ IsFiniteSet({"partial_bypass"})
    <3>1. IsFiniteSet({"solar_adoption", "vacancy"}) /\ IsFiniteSet({"meter_failure", "full_bypass"})
      BY PairFinite
    <3> QED BY <3>1, FS_Singleton
  <2>2. IsFiniteSet({"solar_adoption", "vacancy"} \cup {"meter_failure", "full_bypass"})
    BY <2>1, FS_Union
  <2>3. IsFiniteSet(({"solar_adoption", "vacancy"} \cup {"meter_failure", "full_bypass"}) \cup {"partial_bypass"})
    <3> DEFINE S == {"solar_adoption", "vacancy"} \cup {"meter_failure", "full_bypass"}
    <3>1. IsFiniteSet(S) /\ IsFiniteSet({"partial_bypass"})
      BY <2>1, <2>2
    <3> HIDE DEF S
    <3>2. IsFiniteSet(S \cup {"partial_bypass"})
      BY <3>1, FS_Union
    <3> QED BY <3>2 DEF S
  <2> QED BY <1>2, <2>3
<1> HIDE DEF v, A
<1>7. SumFunctionOnSet(v, A) = p
  <2>1. SumFunctionOnSet(v, A) = SumFunctionOnSet(v, {"partial_bypass"})
    <3>1. \A k \in A : v[k] \in Int
      BY <1>4, <1>5
    <3>2. {"partial_bypass"} \in SUBSET A
      BY <1>4
    <3> QED BY <1>5, <1>6, <3>1, <3>2, SumDropZeros
  <2>2. SumFunctionOnSet(v, {"partial_bypass"}) = v["partial_bypass"]
    <3>1. v["partial_bypass"] \in Int
      BY <1>4
    <3> QED BY <3>1, SumOfOne
  <2> QED BY <1>4, <2>1, <2>2
<1>8. Mass(v) = p
  BY <1>7 DEF Mass, A
<1>9. Mass(v) <= v[Normal]
  BY <1>1, <1>4, <1>8
<1> QED BY <1>9 DEF Label, Decide, Classify, Verdict, v

\* Whoever is listed was found anomalous with the features all have by now.
QueueInv ==
  /\ \A c \in DOMAIN features : c \in Connection /\ features[c] \in ConnectionFeatures
  /\ cases # <<>> => pending = {}
  /\ \A c \in ToSet(cases) : c \in DOMAIN features /\ Label(c).cause # Normal

LEMMA QueueInitially == QueueInit => QueueInv
BY DEF QueueInit, QueueInv, ToSet

LEMMA FeaturizeKeeps ==
  ASSUME QueueInv, NEW c \in Connection, Featurize(c)
  PROVE  QueueInv'
<1>1. cases' = <<>>
  BY DEF Featurize, QueueInv
<1>2. ToSet(cases') = {}
  BY <1>1 DEF ToSet
<1>3. \A p \in DOMAIN features' : p \in Connection /\ features'[p] \in ConnectionFeatures
  <2>1. CASE UNCHANGED features
    BY <2>1 DEF QueueInv
  <2>2. CASE \E f \in Observable[c] :
               features' = [p \in DOMAIN features \cup {c} |-> IF p = c THEN f ELSE features[p]]
    BY <2>2, QueueAssumption DEF QueueInv
  <2> QED BY <2>1, <2>2 DEF Featurize
<1> QED BY <1>1, <1>2, <1>3 DEF QueueInv

LEMMA LabelStays ==
  ASSUME features' = features, NEW c
  PROVE  Label(c)' = Label(c)
BY DEF Label, Votes, LfGenuineReduction, WithPeers, Peers, Changes

LEMMA ListKeeps ==
  ASSUME QueueInv, ListCases
  PROVE  QueueInv'
<1>1. pending' = {} /\ features' = features
  BY DEF ListCases
<1> DEFINE label == [c \in DOMAIN features |-> Label(c)]
           n == Cardinality(Listed(label))
<1>2. cases' \in [1..n -> Listed(label)]
  BY DEF ListCases, Ranked
<1> HIDE DEF n
<1>3. \A c \in ToSet(cases') : c \in Listed(label)
  <2> HIDE DEF label
  <2> QED BY <1>2 DEF ToSet
<1>4. \A c \in Listed(label) : c \in DOMAIN features /\ Label(c).cause # Normal
  BY DEF Listed
<1>5. \A c : Label(c)' = Label(c)
  BY <1>1, LabelStays
<1>6. \A c \in ToSet(cases') : c \in DOMAIN features' /\ Label(c)'.cause # Normal
  BY <1>1, <1>3, <1>4, <1>5
<1>7. \A c \in DOMAIN features' : c \in Connection /\ features'[c] \in ConnectionFeatures
  BY <1>1 DEF QueueInv
<1> QED BY <1>1, <1>6, <1>7 DEF QueueInv

\* For any features, peers and order of connections, one whose consumption
\* fell with its peers' by no more than half, with purchases going on and no
\* sun in its load, is never put on the list of suspects.
THEOREM CommonReductionNeverListed == AnalyticsSpec => []CommonReductionNotListed
<1>1. AnalyticsInit => QueueInv
  BY QueueInitially DEF AnalyticsInit
<1>2. QueueInv /\ [AnalyticsNext]_analyticsVars => QueueInv'
  <2> SUFFICES ASSUME QueueInv, [AnalyticsNext]_analyticsVars PROVE QueueInv'
    OBVIOUS
  <2>1. CASE UNCHANGED queueVars
    <3>1. features' = features /\ pending' = pending /\ cases' = cases
      BY <2>1 DEF queueVars
    <3>2. \A c : Label(c)' = Label(c)
      BY <3>1, LabelStays
    <3> QED BY <3>1, <3>2 DEF QueueInv
  <2>2. CASE OpenCases
    BY <2>2, FeaturizeKeeps, ListKeeps DEF OpenCases
  <2> QED BY <2>1, <2>2 DEF AnalyticsNext, WalkSchedule, OpenForecast, OpenShedding, OpenHealth,
                           OpenEstimate, analyticsVars
<1>3. QueueInv => CommonReductionNotListed
  BY CommonReductionIsNormal DEF QueueInv, CommonReductionNotListed
<1> QED BY <1>1, <1>2, <1>3, PTL DEF AnalyticsSpec


(***************************************************************************)
(* SegmentReconstruction: the estimate against the purchases.              *)
(***************************************************************************)

\* What was reconstructed is the clipped levels of the purchases there are.
EstimateInv ==
  /\ vending \in [Tick -> Nat]
  /\ stage = "reconstructed" =>
       /\ weight \in [1..Horizon -> Weights]
       /\ \E middle \in Middles(Theta(Bins, weight)) : level = Winsorized(Theta(Bins, weight), middle)

LEMMA EstimateInitially == EstimateInit => EstimateInv
BY DEF EstimateInit, EstimateInv

LEMMA EstimateStep ==
  ASSUME EstimateInv, EstimateNext
  PROVE  EstimateInv'
<1>1. ASSUME NEW t \in Tick, NEW kwh \in Amounts, Vend(t, kwh)
      PROVE  EstimateInv'
  <2>1. kwh \in Nat
    BY EstimateAssumption
  <2> QED BY <1>1, <2>1 DEF Vend, EstimateInv
<1>2. CASE Refuse
  BY <1>2 DEF Refuse, EstimateInv
<1>3. CASE Reconstruct
  <2>1. Bins' = Bins
    BY <1>3 DEF Reconstruct, Bins
  <2>2. /\ weight' \in [1..Horizon -> Weights] /\ vending' = vending
        /\ \E middle \in Middles(Theta(Bins, weight')) : level' = Winsorized(Theta(Bins, weight'), middle)
    BY <1>3 DEF Reconstruct
  <2> QED BY <2>1, <2>2 DEF EstimateInv
<1> QED BY <1>1, <1>2, <1>3 DEF EstimateNext

LEMMA EstimateSound == EstimateInv => HardBound /\ EnergyKept /\ HalfKeepTheirPurchase
<1> SUFFICES ASSUME EstimateInv, stage = "reconstructed"
             PROVE  HardBound /\ EnergyKept /\ HalfKeepTheirPurchase
  BY DEF HardBound, EnergyKept, HalfKeepTheirPurchase
<1>1. /\ Horizon \in Nat /\ Width \in Nat \ {0}
      /\ vending \in [Tick -> Nat] /\ weight \in [1..Horizon -> Nat \ {0}]
  BY EstimateAssumption DEF EstimateInv
<1>2. IsFiniteSet(Tick) /\ \A t \in Tick : t \in Nat
  <2>1. Horizon * Width - 1 \in Int /\ 0 \in Int
    BY <1>1
  <2>2. IsFiniteSet(0..(Horizon * Width - 1))
    BY <2>1, IntervalFinite, Zenon
  <2>3. Tick \subseteq 0..(Horizon * Width - 1)
    BY EstimateAssumption
  <2>4. IsFiniteSet(Tick)
    BY <2>2, <2>3, FS_Subset, Zenon
  <2> QED BY <2>1, <2>3, <2>4
<1>3. PICK middle : middle \in Middles(Theta(Bins, weight)) /\ level = Winsorized(Theta(Bins, weight), middle)
  BY DEF EstimateInv
<1>4. /\ DOMAIN level = Starts(Bins)
      /\ \A i \in 0..Horizon :
           /\ EstimatedThrough(level, weight, i) \in Rationals
           /\ SoldThrough(vending, Width, i) \in Nat
           /\ AtMost(EstimatedThrough(level, weight, i), Whole(SoldThrough(vending, Width, i)))
      /\ Cardinality(DOMAIN level) < WinsorizeMinSegments =>
           AtMost(Whole(SoldThrough(vending, Width, Horizon)), EstimatedThrough(level, weight, Horizon))
  <2>1. /\ middle \in Middles(Theta(Binned(vending, Width, Horizon), weight))
        /\ level = Winsorized(Theta(Binned(vending, Width, Horizon), weight), middle)
    BY <1>3 DEF Bins
  <2>2. DOMAIN level = Starts(Binned(vending, Width, Horizon))
    BY <1>1, <1>2, <2>1, EstimateOfWindow
  <2>3. \A i \in 0..Horizon :
          /\ EstimatedThrough(level, weight, i) \in Rationals
          /\ SoldThrough(vending, Width, i) \in Nat
          /\ AtMost(EstimatedThrough(level, weight, i), Whole(SoldThrough(vending, Width, i)))
    BY <1>1, <1>2, <2>1, EstimateOfWindow
  <2>4. Cardinality(DOMAIN level) < WinsorizeMinSegments =>
          AtMost(Whole(SoldThrough(vending, Width, Horizon)), EstimatedThrough(level, weight, Horizon))
    BY <1>1, <1>2, <2>1, EstimateOfWindow
  <2> QED BY <2>2, <2>3, <2>4 DEF Bins
<1>5. HardBound
  <2>1. \A i \in 1..Horizon : i \in 0..Horizon
    BY <1>1
  <2> QED BY <1>4, <2>1 DEF HardBound
<1>6. EnergyKept
  <2> SUFFICES ASSUME Cardinality(DOMAIN level) < WinsorizeMinSegments
               PROVE  EstimatedThrough(level, weight, Horizon).num
                        = SoldThrough(vending, Width, Horizon) * EstimatedThrough(level, weight, Horizon).den
    BY DEF EnergyKept
  <2> DEFINE e == EstimatedThrough(level, weight, Horizon)
             k == SoldThrough(vending, Width, Horizon)
  <2>1. e \in Rationals /\ k \in Nat /\ AtMost(e, Whole(k)) /\ AtMost(Whole(k), e)
    <3>1. Horizon \in 0..Horizon
      BY <1>1
    <3> QED BY <1>4, <3>1
  <2> HIDE DEF e, k
  <2>2. e.num * 1 <= k * e.den /\ k * e.den <= e.num * 1 /\ e.num \in Nat /\ e.den \in Nat
    BY <2>1 DEF AtMost, Whole, Rationals
  <2>3. k * e.den \in Nat
    BY <2>1, <2>2
  <2>4. e.num = k * e.den
    BY <2>2, <2>3
  <2> QED BY <2>4 DEF e, k
<1>7. HalfKeepTheirPurchase
  <2>1. Bins \in [1..Horizon -> Nat]
    BY <1>1, <1>2, BinsAddUp DEF Bins
  <2> DEFINE starts == Starts(Bins)
             kept == {s \in starts : ReturnsPurchase(Bins, weight, level, s)}
  <2>2. Horizon \in Nat /\ weight \in [1..Horizon -> Nat \ {0}]
    BY <1>1
  <2>3. PICK sure : /\ sure \subseteq starts /\ IsFiniteSet(starts)
                    /\ 2 * Cardinality(sure) >= Cardinality(starts)
                    /\ \A s \in sure : ReturnsPurchase(Bins, weight, level, s)
    BY <1>3, <2>1, <2>2, HalfUnclipped
  <2>4. sure \subseteq kept
    BY <2>3
  <2>5. 2 * Cardinality(kept) >= Cardinality(starts)
    <3>1. kept \subseteq starts
      OBVIOUS
    <3> HIDE DEF kept, starts
    <3>2. IsFiniteSet(kept) /\ IsFiniteSet(sure)
      BY <2>3, <3>1, FS_Subset
    <3>3. Cardinality(sure) <= Cardinality(kept)
      BY <2>4, <3>2, FS_Subset
    <3>4. Cardinality(sure) \in Nat /\ Cardinality(kept) \in Nat /\ Cardinality(starts) \in Nat
      BY <2>3, <3>2, FS_CardinalityType
    <3> QED BY <2>3, <3>3, <3>4
  <2> QED BY <1>4, <2>5 DEF HalfKeepTheirPurchase
<1> QED BY <1>5, <1>6, <1>7

LEMMA EstimateAlways == AnalyticsSpec => []EstimateInv
<1>1. AnalyticsInit => EstimateInv
  BY EstimateInitially DEF AnalyticsInit
<1>2. EstimateInv /\ [AnalyticsNext]_analyticsVars => EstimateInv'
  <2> SUFFICES ASSUME EstimateInv, [AnalyticsNext]_analyticsVars PROVE EstimateInv'
    OBVIOUS
  <2>1. CASE UNCHANGED estimateVars
    BY <2>1 DEF EstimateInv, estimateVars, Bins
  <2>2. CASE OpenEstimate
    BY <2>2, EstimateStep DEF OpenEstimate
  <2> QED BY <2>1, <2>2 DEF AnalyticsNext, WalkSchedule, OpenShedding, OpenCases, OpenForecast,
                           OpenHealth, analyticsVars
<1> QED BY <1>1, <1>2, PTL DEF AnalyticsSpec

\* Through no interval does the estimate exceed what had been sold by its
\* end, for any purchases, any prior and any interval length.
THEOREM BoundIsHard == AnalyticsSpec => []HardBound
<1> QED BY EstimateAlways, EstimateSound, PTL

\* With fewer than four segments all that was sold in the window is in the
\* estimate.
THEOREM EnergyAlwaysKept == AnalyticsSpec => []EnergyKept
<1> QED BY EstimateAlways, EstimateSound, PTL

\* Clipping leaves at least half of the segments with their whole purchase,
\* whichever of the middle levels the median is.
THEOREM HalfAlwaysKept == AnalyticsSpec => []HalfKeepTheirPurchase
<1> QED BY EstimateAlways, EstimateSound, PTL

(***************************************************************************)
(* SheddingAllocation.  All groups shed 44 hours a week.                   *)
(***************************************************************************)

\* The windows of one day of the week.
OfDay(a, b, c, day) == IF day \in Weekday THEN {Window(day, a, 4), Window(day, b, 4)} ELSE {Window(day, c, 2)}

LEMMA HoursOfDay ==
  ASSUME NEW a \in Hour, NEW b \in Hour, NEW c \in Hour, a # b, NEW day \in DayOfWeek,
         NEW M, OfDay(a, b, c, day) \subseteq M
  PROVE  SumFunctionOnSet([w \in M |-> Length(w)], OfDay(a, b, c, day)) = IF day \in Weekday THEN 8 ELSE 2
<1> DEFINE f == [w \in M |-> Length(w)]
           x == Window(day, a, 4)
           y == Window(day, b, 4)
           z == Window(day, c, 2)
<1>1. /\ Length(x) = 4 /\ Length(y) = 4 /\ Length(z) = 2
      /\ x.start = a /\ y.start = b
  BY WindowHours
<1>2. CASE day \in Weekday
  <2>1. OfDay(a, b, c, day) = {x, y} /\ f[x] = 4 /\ f[y] = 4 /\ x # y
    BY <1>1, <1>2 DEF OfDay
  <2> HIDE DEF f, x, y
  <2>2. SumFunctionOnSet(f, {x, y}) = 4 + 4
    BY <2>1, SumOfPair
  <2> QED BY <1>2, <2>1, <2>2 DEF f
<1>3. CASE day \notin Weekday
  <2>1. OfDay(a, b, c, day) = {z} /\ f[z] = 2
    BY <1>1, <1>3 DEF OfDay
  <2> HIDE DEF f, z
  <2>2. SumFunctionOnSet(f, {z}) = 2
    BY <2>1, SumOfOne
  <2> QED BY <1>3, <2>1, <2>2 DEF f
<1> QED BY <1>2, <1>3

LEMMA SameHours ==
  ASSUME NEW g \in GroupId
  PROVE  HoursPerWeek(g) = 44
<1>1. PICK a \in Hour, b \in Hour, c \in Hour : a # b /\ Windows(g) = Blocks(a, b, c)
  BY GroupBlocks
<1> DEFINE M == Windows(g)
           f == [w \in M |-> Length(w)]
           part == [day \in DayOfWeek |-> OfDay(a, b, c, day)]
           sums == [day \in DayOfWeek |-> IF day \in Weekday THEN 8 ELSE 2]
<1>2. M = UNION {part[day] : day \in DayOfWeek}
  <2>1. \A w : w \in Blocks(a, b, c) <=> \E day \in DayOfWeek : w \in OfDay(a, b, c, day)
    BY DEF Blocks, OfDay, Weekday, DayOfWeek
  <2> QED BY <1>1, <2>1
<1>3. \A day \in DayOfWeek : part[day] \in SUBSET M /\ \A w \in part[day] : w.dow = day
  <2>1. \A day \in DayOfWeek : \A w \in OfDay(a, b, c, day) : w.dow = day
    BY DEF OfDay, Window
  <2> QED BY <1>2, <2>1
<1>4. \A v, w \in DayOfWeek : v # w => part[v] \cap part[w] = {}
  BY <1>3
<1>5. IsFiniteSet(M) /\ \A w \in M : f[w] \in Int
  <2>1. IsFiniteSet(M)
    BY <1>1, BlocksFinite
  <2>2. \A w \in M : \E d \in DayOfWeek, s \in Hour, n \in {2, 4} : w = Window(d, s, n)
    BY <1>1 DEF Blocks, Weekday, DayOfWeek
  <2>3. \A w \in M : Length(w) \in {2, 4}
    BY <2>2, WindowHours
  <2> QED BY <2>1, <2>3
<1>6. \A day \in DayOfWeek : sums[day] = SumFunctionOnSet(f, part[day])
  <2> TAKE day \in DayOfWeek
  <2>1. part[day] = OfDay(a, b, c, day) /\ part[day] \subseteq M
    BY <1>3
  <2> HIDE DEF M, part
  <2> QED BY <1>1, <2>1, HoursOfDay
<1>7. IsFiniteSet(DayOfWeek)
  <2>1. 0 \in Int /\ 6 \in Int
    OBVIOUS
  <2> QED BY <2>1, IntervalFinite DEF DayOfWeek
<1>8. SumFunctionOnSet(sums, DayOfWeek) = SumFunctionOnSet(f, M)
  <2>1. IsFiniteSet(M) /\ \A day \in DayOfWeek : part[day] \in SUBSET M
    BY <1>3, <1>5
  <2>2. \A w \in M : f[w] \in Int
    BY <1>5
  <2> HIDE DEF M, f, part, sums
  <2>3. SumFunctionOnSet(sums, DayOfWeek) = SumFunctionOnSet(f, UNION {part[day] : day \in DayOfWeek})
    BY <1>4, <1>6, <1>7, <2>1, <2>2, SumOfParts
  <2> QED BY <1>2, <2>3
<1>9. SumFunctionOnSet(sums, DayOfWeek) = 44
  <2> DEFINE weekend == {5, 6}
  <2>1. /\ DayOfWeek = Weekday \cup weekend /\ Weekday \cap weekend = {} /\ sums[5] = 2 /\ sums[6] = 2
        /\ \A day \in Weekday : sums[day] = 8
        /\ \A day \in Weekday \cup weekend : sums[day] \in Int
    BY DEF DayOfWeek, Weekday
  <2> HIDE DEF sums
  <2>2. SumFunctionOnSet(sums, weekend) = 4
    <3>1. SumFunctionOnSet(sums, {5, 6}) = 2 + 2
      BY <2>1, SumOfPair
    <3> QED BY <3>1
  <2>3. IsFiniteSet(Weekday) /\ Cardinality(Weekday) = 5 /\ IsFiniteSet(weekend)
    <3>1. 0 \in Int /\ 4 \in Int /\ ~(0 > 4) /\ 4 - 0 + 1 = 5
      OBVIOUS
    <3>2. IsFiniteSet(Weekday) /\ Cardinality(Weekday) = 5
      BY <3>1, FS_Interval DEF Weekday
    <3>3. IsFiniteSet(weekend)
      BY PairFinite
    <3> QED BY <3>2, <3>3
  <2>4. SumFunctionOnSet(sums, Weekday) = 40
    BY <2>1, <2>3, SumOfEqual
  <2> HIDE DEF weekend
  <2> QED BY <2>1, <2>2, <2>3, <2>4, SumOfUnion
<1> QED BY <1>8, <1>9 DEF HoursPerWeek

(***************************************************************************)
(* The cost of an answer.                                                  *)
(***************************************************************************)

\* Any transformers that could be assessed, at loads that occur.
Loaded ==
  /\ \E T \in SUBSET Transformer : loading \in [T -> Peaks]
  /\ stressed \subseteq Assessed

\* What the hours of the schedule weigh for one transformer.
Hours == Policy.equity * (Weeks * 44)

LEMMA AssessedLoads ==
  ASSUME Loaded
  PROVE  /\ IsFiniteSet(Transformer) /\ IsFiniteSet(Assessed) /\ Assessed \subseteq Transformer
         /\ \A u \in Assessed : loading[u] \in Peaks /\ loading[u] \in Nat
         /\ Cardinality(Assessed) <= Cardinality(Transformer)
<1>1. Assessed \subseteq Transformer /\ \A u \in Assessed : loading[u] \in Peaks
  BY DEF Loaded, Assessed
<1>2. IsFiniteSet(Transformer) /\ Peaks \subseteq Nat
  BY AllocationAssumption
<1> QED BY <1>1, <1>2, FS_Subset

LEMMA HoursWeigh == Hours \in Nat /\ \A u \in Transformer : Policy.equity * HoursShed(u) = Hours
<1>1. \A u \in Transformer : HoursPerWeek(Group[u]) = 44
  BY SameHours, AllocationAssumption
<1>2. Weeks \in Nat
  BY ScheduleAssumption
<1> QED BY <1>1, <1>2 DEF HoursShed, Hours, Policy

\* Load, hours and stress of a set of transformers.
LEMMA SizesOf ==
  ASSUME Loaded, NEW S \in SUBSET Assessed
  PROVE  /\ IsFiniteSet(S) /\ Load(S) \in Nat /\ Cardinality(S) \in Nat
         /\ Cardinality(S) <= Cardinality(Assessed)
         /\ Cardinality(S \cap stressed) \in Nat /\ Cardinality(S \cap stressed) <= Cardinality(S)
<1> DEFINE C == S \cap stressed
<1>1. /\ IsFiniteSet(S) /\ Cardinality(S) \in Nat /\ Cardinality(S) <= Cardinality(Assessed)
      /\ IsFiniteSet(C) /\ Cardinality(C) \in Nat /\ Cardinality(C) <= Cardinality(S)
  <2>1. IsFiniteSet(Assessed) /\ C \subseteq S
    BY AssessedLoads
  <2> HIDE DEF C
  <2> QED BY <2>1, FS_Subset, FS_CardinalityType
<1>2. \A u \in S : loading[u] \in Nat
  BY AssessedLoads
<1>3. Load(S) \in Nat
  BY <1>1, <1>2, SumOfNaturals DEF Load
<1> QED BY <1>1, <1>3

LEMMA CostIs ==
  ASSUME Loaded, NEW S \in SUBSET Assessed
  PROVE  Cost(S) = Load(S) + Hours * Cardinality(S) + Policy.thermal * Cardinality(S \cap stressed)
<1> DEFINE f == [u \in Assessed |-> UnitCost(u)]
           base == [u \in Assessed |-> loading[u] + Hours]
           same == [u \in Assessed |-> Hours]
           extra == [u \in Assessed |-> IF u \in stressed THEN Policy.thermal ELSE 0]
           C == S \cap stressed
<1>1. IsFiniteSet(S) /\ IsFiniteSet(C) /\ Cardinality(S) \in Nat /\ Cardinality(C) \in Nat
  BY SizesOf, FS_Subset
<1>2. \A u \in S : loading[u] \in Nat
  BY AssessedLoads
<1>3. Load(S) \in Nat
  BY SizesOf
<1>4. \A u \in Assessed : UnitCost(u) = loading[u] + Hours + (IF u \in stressed THEN Policy.thermal ELSE 0)
  <2> TAKE u \in Assessed
  <2>1. loading[u] \in Nat /\ Policy.equity * HoursShed(u) = Hours /\ Hours \in Nat
    BY AssessedLoads, HoursWeigh
  <2>2. Policy.revenue * loading[u] = loading[u]
    BY <2>1 DEF Policy
  <2>3. UnitCost(u) = loading[u] + Hours + 0 + (IF u \in stressed THEN Policy.thermal ELSE 0)
    BY <2>1, <2>2 DEF UnitCost, Critical
  <2>4. loading[u] + Hours + 0 = loading[u] + Hours
    BY <2>1
  <2> QED BY <2>3, <2>4
<1>5. \A u \in S : /\ f[u] = base[u] + extra[u] /\ base[u] = loading[u] + same[u]
                   /\ base[u] \in Int /\ extra[u] \in Int /\ same[u] \in Int /\ loading[u] \in Int
                   /\ same[u] = Hours
  BY <1>2, <1>4, HoursWeigh DEF Policy
<1>6. \A u \in S \ C : extra[u] = 0
  OBVIOUS
<1>7. \A u \in C : extra[u] = Policy.thermal
  OBVIOUS
<1>8. Policy.thermal \in Nat /\ C \subseteq S
  BY DEF Policy
<1> HIDE DEF f, base, same, extra, C
<1>9. SumFunctionOnSet(f, S) = SumFunctionOnSet(base, S) + SumFunctionOnSet(extra, S)
  BY <1>1, <1>5, SumOfPlus
<1>10. SumFunctionOnSet(base, S) = Load(S) + SumFunctionOnSet(same, S)
  BY <1>1, <1>5, SumOfPlus DEF Load
<1>11. SumFunctionOnSet(same, S) = Hours * Cardinality(S)
  BY <1>1, <1>5, HoursWeigh, SumOfEqual
<1>12. SumFunctionOnSet(extra, S) = SumFunctionOnSet(extra, C)
  BY <1>1, <1>5, <1>6, <1>8, SumDropZeros
<1>13. SumFunctionOnSet(extra, C) = Policy.thermal * Cardinality(C)
  BY <1>1, <1>7, <1>8, SumOfEqual
<1>14. Cost(S) = SumFunctionOnSet(f, S)
  BY DEF Cost, f
<1> QED BY <1>1, <1>3, <1>9, <1>10, <1>11, <1>12, <1>13, <1>14 DEF C

\* Some transformer has the highest load.
LEMMA HighestLoad ==
  ASSUME Loaded, Assessed # {}
  PROVE  \E u \in Assessed : \A v \in Assessed : loading[v] <= loading[u]
<1> DEFINE B == {b \in Nat : \A v \in Assessed : loading[v] <= b}
<1>1. Load(Assessed) \in B
  <2>1. IsFiniteSet(Assessed) /\ \A v \in Assessed : loading[v] \in Nat /\ loading[v] \in Int
    BY AssessedLoads
  <2>2. Load(Assessed) \in Nat /\ \A T \in SUBSET Assessed : SumFunctionOnSet(loading, T) <= Load(Assessed)
    BY <2>1, SumOfNaturals DEF Load
  <2>3. \A v \in Assessed : SumFunctionOnSet(loading, {v}) = loading[v]
    BY <2>1, SumOfOne
  <2>4. \A v \in Assessed : {v} \in SUBSET Assessed
    OBVIOUS
  <2> QED BY <2>2, <2>3, <2>4
<1>2. PICK b \in B : \A y \in B : b <= y
  <2>1. B \in SUBSET Nat /\ B # {}
    BY <1>1
  <2> HIDE DEF B
  <2> QED BY <2>1, LeastNatural
<1> SUFFICES ASSUME \A u \in Assessed : loading[u] # b PROVE FALSE
  BY <1>2
<1>3. \A u \in Assessed : loading[u] <= b - 1 /\ loading[u] \in Nat
  BY <1>2, AssessedLoads
<1>4. PICK u \in Assessed : TRUE
  OBVIOUS
<1>5. b - 1 \in B
  BY <1>2, <1>3, <1>4
<1> QED BY <1>2, <1>5

(***************************************************************************)
(* Why hours outweigh loads: the arithmetic.  n transformers, each with    *)
(* h for its hours, at most p for its load and t if it is stressed.        *)
(***************************************************************************)

\* An answer with one transformer too many is beyond the solver's gap.
LEMMA OneTooMany ==
  ASSUME NEW n \in Nat, NEW h \in Nat, NEW p \in Nat, NEW t \in Nat,
         10000 * n * (p + t) < (9999 - n) * h,
         NEW s \in Nat, NEW k \in Nat, s < k, s <= n,
         NEW small \in Nat, small <= (p + h + t) * s,
         NEW large \in Nat, h * k <= large
  PROVE  ~(9999 * large <= 10000 * small)
<1> DEFINE q == p + t
           qs == q * s
           qn == q * n
           hs == h * s
           hn == h * n
<1>1. q \in Nat /\ qs \in Nat /\ qn \in Nat /\ hs \in Nat /\ hn \in Nat
  OBVIOUS
<1>2. qs <= qn /\ hs <= hn
  <2>1. s * q <= n * q /\ s * h <= n * h
    BY <1>1, TimesGrows
  <2> QED BY <2>1
<1>3. small <= qs + hs
  <2>1. (p + h + t) * s = qs + hs
    OBVIOUS
  <2> QED BY <2>1
<1>4. hs + h <= large
  <2>1. s + 1 <= k /\ s + 1 \in Nat
    OBVIOUS
  <2>2. (s + 1) * h <= k * h
    BY <2>1, TimesGrows
  <2>3. (s + 1) * h = hs + h /\ k * h = h * k
    OBVIOUS
  <2>4. h * k \in Nat
    OBVIOUS
  <2> QED BY <1>1, <2>2, <2>3, <2>4
<1>5. 10000 * qn < 9999 * h - hn
  <2>1. 10000 * n * (p + t) = 10000 * qn
    OBVIOUS
  <2>2. (9999 - n) * h = 9999 * h - hn
    OBVIOUS
  <2> QED BY <2>1, <2>2
<1> HIDE DEF q, qs, qn, hs, hn
<1> QED BY <1>1, <1>2, <1>3, <1>4, <1>5

\* So is one as large with a stressed transformer too many: no more than half
\* of the transformers, d, can be others.
LEMMA OneStressedTooMany ==
  ASSUME NEW n \in Nat, NEW h \in Nat, NEW p \in Nat, NEW t \in Nat,
         9999 * n * p + 2 * n * (p + h + t) < 2 * 9999 * t,
         NEW k \in Nat, k <= n, NEW d \in Nat, 2 * d <= n,
         NEW loadS \in Nat, NEW loadA \in Nat, loadS <= loadA + p * d, loadS <= p * k,
         NEW s \in Nat, NEW a \in Nat, s < a, s <= k
  PROVE  ~(9999 * (loadA + h * k + t * a) <= 10000 * (loadS + h * k + t * s))
<1> DEFINE hk == h * k
           tcs == t * s
           tca == t * a
           pd == p * d
           small == loadS + hk + tcs
           all == n * (p + h + t)
           pn == n * p
<1>1. hk \in Nat /\ tcs \in Nat /\ tca \in Nat /\ pd \in Nat /\ all \in Nat /\ pn \in Nat
  OBVIOUS
<1>2. tcs + t <= tca
  <2>1. s + 1 <= a /\ s + 1 \in Nat
    OBVIOUS
  <2>2. (s + 1) * t <= a * t
    BY <2>1, TimesGrows
  <2>3. (s + 1) * t = tcs + t /\ a * t = tca
    OBVIOUS
  <2> QED BY <2>2, <2>3
<1>3. 2 * pd <= pn
  <2>1. 2 * d \in Nat
    OBVIOUS
  <2>2. (2 * d) * p <= n * p
    BY <2>1, TimesGrows
  <2>3. (2 * d) * p = 2 * pd
    OBVIOUS
  <2> QED BY <2>2, <2>3
<1>4. small <= all
  <2>1. s * t <= k * t
    BY TimesGrows
  <2>2. p + h + t \in Nat
    OBVIOUS
  <2>3. k * (p + h + t) <= n * (p + h + t)
    BY <2>2, TimesGrows
  <2>4. k * (p + h + t) = p * k + hk + k * t
    OBVIOUS
  <2>5. s * t = tcs /\ k * t \in Nat /\ p * k \in Nat
    OBVIOUS
  <2> HIDE DEF hk, tcs, all
  <2>6. small <= p * k + hk + k * t
    BY <1>1, <2>1, <2>5
  <2> QED BY <1>1, <2>3, <2>4, <2>6 DEF all
<1>5. 9999 * pn + 2 * all < 2 * 9999 * t
  <2>1. 9999 * n * p = 9999 * pn
    OBVIOUS
  <2>2. 2 * n * (p + h + t) = 2 * all
    OBVIOUS
  <2> QED BY <2>1, <2>2
<1>6. small \in Nat
  BY <1>1
<1>7. loadA + hk + tca >= small - pd + t
  BY <1>1, <1>2
<1> HIDE DEF hk, tcs, tca, pd, all, pn
<1> SUFFICES ASSUME 9999 * (loadA + hk + tca) <= 10000 * small PROVE FALSE
  BY DEF hk, tca, tcs
<1> HIDE DEF small
<1>8. 9999 * t <= small + 9999 * pd
  BY <1>1, <1>6, <1>7
<1> QED BY <1>1, <1>3, <1>4, <1>5, <1>6, <1>8

(***************************************************************************)
(* The answer.                                                             *)
(***************************************************************************)
LEMMA LoadBounded ==
  ASSUME Loaded, NEW S \in SUBSET Assessed, NEW p \in Nat, \A u \in Assessed : loading[u] <= p
  PROVE  Load(S) <= p * Cardinality(S)
<1> DEFINE g == [u \in Assessed |-> p]
<1>1. IsFiniteSet(S) /\ \A u \in S : loading[u] \in Int /\ g[u] \in Int /\ loading[u] <= g[u] /\ g[u] = p
  <2>1. IsFiniteSet(S)
    BY SizesOf
  <2>2. \A u \in S : loading[u] \in Nat
    BY AssessedLoads
  <2> QED BY <2>1, <2>2
<1> HIDE DEF g
<1>2. SumFunctionOnSet(loading, S) <= SumFunctionOnSet(g, S)
  BY <1>1, SumMonotone
<1>3. SumFunctionOnSet(g, S) = p * Cardinality(S)
  BY <1>1, SumOfEqual
<1> QED BY <1>2, <1>3 DEF Load

\* Two sets of the same size differ in no more than half of all transformers.
LEMMA LoadsDiffer ==
  ASSUME Loaded, NEW S \in SUBSET Assessed, NEW A \in SUBSET Assessed, Cardinality(S) = Cardinality(A),
         NEW p \in Nat, \A u \in Assessed : loading[u] <= p
  PROVE  \E d \in Nat : 2 * d <= Cardinality(Assessed) /\ Load(S) <= Load(A) + p * d
<1> DEFINE D == S \ A
           C == S \cap A
           d == Cardinality(D)
<1>1. /\ D \in SUBSET Assessed /\ C \in SUBSET Assessed /\ C \in SUBSET A
      /\ D \cup C = S /\ D \cap C = {} /\ D \cap A = {} /\ D \subseteq S /\ D \cup A \subseteq Assessed
  OBVIOUS
<1> HIDE DEF D, C
<1>2. /\ IsFiniteSet(D) /\ IsFiniteSet(C) /\ IsFiniteSet(A) /\ IsFiniteSet(S) /\ IsFiniteSet(Assessed)
      /\ d \in Nat /\ Cardinality(A) \in Nat
  BY <1>1, SizesOf, AssessedLoads
<1>3. d <= Cardinality(A)
  BY <1>1, <1>2, FS_Subset
<1>4. d + Cardinality(A) <= Cardinality(Assessed)
  <2>1. Cardinality(D \cup A) = d + Cardinality(A) - Cardinality(D \cap A)
    BY <1>2, FS_Union
  <2>2. Cardinality(D \cap A) = 0
    BY <1>1, FS_EmptySet
  <2>3. Cardinality(D \cup A) <= Cardinality(Assessed)
    BY <1>1, <1>2, FS_Subset
  <2> QED BY <1>2, <2>1, <2>2, <2>3
<1>5. /\ \A u \in D \cup C : loading[u] \in Int
      /\ \A u \in A : loading[u] \in Nat
  BY <1>1, AssessedLoads
<1>6. Load(S) = Load(D) + Load(C)
  BY <1>1, <1>2, <1>5, SumOfUnion DEF Load
<1>7. Load(C) <= Load(A)
  BY <1>1, <1>2, <1>5, SumOfNaturals DEF Load
<1>8. Load(D) <= p * d
  BY <1>1, LoadBounded
<1>9. Load(D) \in Nat /\ Load(C) \in Nat /\ Load(A) \in Nat /\ p * d \in Nat
  <2>1. p * d \in Nat
    BY <1>2
  <2> HIDE DEF d
  <2> QED BY <1>1, <2>1, SizesOf
<1> HIDE DEF d
<1>10. 2 * d <= Cardinality(Assessed)
  <2>1. Cardinality(Assessed) \in Nat
    BY <1>2, FS_CardinalityType
  <2> QED BY <1>2, <1>3, <1>4, <2>1
<1>11. Load(S) <= Load(A) + p * d
  BY <1>6, <1>7, <1>8, <1>9
<1> QED BY <1>2, <1>10, <1>11

\* What the solver's gap lets through is as small as anything that will do,
\* and as little stressed.
LEMMA CheapIsSmall ==
  ASSUME Loaded, HoursOutweighLoads, NEW S \in SUBSET Assessed, NEW A \in SUBSET Assessed,
         9999 * Cost(A) <= 10000 * Cost(S)
  PROVE  \/ Cardinality(S) > Cardinality(A)
         \/ /\ Cardinality(S) = Cardinality(A)
            /\ Cardinality(S \cap stressed) >= Cardinality(A \cap stressed)
<1>1. CASE Assessed = {}
  <2>1. S = A
    BY <1>1
  <2>2. Cardinality(S \cap stressed) \in Nat
    BY SizesOf
  <2> QED BY <2>1, <2>2
<1>2. CASE Assessed # {}
  <2>1. PICK v \in Assessed : \A u \in Assessed : loading[u] <= loading[v]
    BY <1>2, HighestLoad
  <2> DEFINE p == loading[v]
             t == Policy.thermal
             n == Cardinality(Assessed)
  <2>2. p \in Nat /\ v \in Transformer /\ n \in Nat /\ t \in Nat /\ Hours \in Nat
    BY <2>1, AssessedLoads, HoursWeigh, FS_CardinalityType DEF Policy
  <2>3. /\ 10000 * n * (p + t) < (9999 - n) * Hours
        /\ 9999 * n * p + 2 * n * (p + Hours + t) < 2 * 9999 * t
    <3>1. Policy.equity * HoursShed(v) = Hours /\ Policy.revenue * p = p
      BY <2>2, HoursWeigh DEF Policy
    <3>2. /\ 10000 * n * (Policy.revenue * p + Policy.thermal) < (9999 - n) * (Policy.equity * HoursShed(v))
          /\ 9999 * n * (Policy.revenue * p)
               + 2 * n * (Policy.revenue * p + Policy.equity * HoursShed(v) + Policy.thermal)
                 < 2 * 9999 * Policy.thermal
      BY <2>1 DEF HoursOutweighLoads
    <3> HIDE DEF p, n
    <3> QED BY <3>1, <3>2
  <2>4. PICK s \in Nat, k \in Nat, cs \in Nat, ca \in Nat, m \in Nat :
          /\ s = Cardinality(S) /\ cs = Cardinality(S \cap stressed)
          /\ k = Cardinality(A) /\ ca = Cardinality(A \cap stressed)
          /\ m = Cardinality(Assessed)
    <3>1. IsFiniteSet(Assessed)
      BY AssessedLoads
    <3>2. Cardinality(S) \in Nat /\ Cardinality(S \cap stressed) \in Nat
      BY SizesOf
    <3>3. Cardinality(A) \in Nat /\ Cardinality(A \cap stressed) \in Nat
      BY SizesOf
    <3>4. Cardinality(Assessed) \in Nat
      BY <3>1, FS_CardinalityType
    <3> QED BY <3>2, <3>3, <3>4
  <2>5. /\ s <= m /\ k <= m /\ m <= n /\ cs <= s /\ ca <= k
        /\ Load(S) \in Nat /\ Load(A) \in Nat
    BY <2>4, SizesOf, AssessedLoads
  <2>6. PICK hs \in Nat, hk \in Nat, tcs \in Nat, tca \in Nat :
          hs = Hours * s /\ hk = Hours * k /\ tcs = t * cs /\ tca = t * ca
    <3>1. Hours * s \in Nat /\ Hours * k \in Nat
      BY <2>2
    <3>2. t * cs \in Nat /\ t * ca \in Nat
      BY <2>2
    <3> QED BY <3>1, <3>2
  <2>7. Cost(S) = Load(S) + hs + tcs /\ Cost(A) = Load(A) + hk + tca
    <3>1. Cost(S) = Load(S) + Hours * s + t * cs
      BY <2>4, CostIs
    <3>2. Cost(A) = Load(A) + Hours * k + t * ca
      BY <2>4, CostIs
    <3> QED BY <2>6, <3>1, <3>2
  <2> HIDE DEF p, t, n
  <2>8. PICK ps \in Nat : ps = p * s /\ Load(S) <= ps
    BY <2>1, <2>2, <2>4, LoadBounded DEF p
  <2>9. ~(s < k)
    <3> SUFFICES ASSUME s < k PROVE FALSE
      OBVIOUS
    <3>1. Cost(S) \in Nat /\ Cost(A) \in Nat /\ Hours * k <= Cost(A)
      <4>1. Cost(S) \in Nat
        BY <2>5, <2>7
      <4>2. Cost(A) \in Nat /\ hk <= Cost(A)
        BY <2>5, <2>7
      <4> QED BY <2>6, <4>1, <4>2
    <3>2. Cost(S) <= (p + Hours + t) * s
      <4>1. cs * t <= s * t
        BY <2>2, <2>5, TimesGrows
      <4>2. (p + Hours + t) * s = ps + hs + s * t /\ tcs = cs * t /\ s * t \in Nat
        BY <2>2, <2>6, <2>8
      <4> QED BY <2>5, <2>6, <2>7, <2>8, <4>1, <4>2
    <3>3. s <= n
      BY <2>2, <2>5
    <3> QED BY <2>2, <2>3, <3>1, <3>2, <3>3, OneTooMany
  <2>10. ASSUME s = k, cs < ca PROVE FALSE
    <3>1. PICK d \in Nat : 2 * d <= m /\ Load(S) <= Load(A) + p * d
      <4>1. Cardinality(S) = Cardinality(A) /\ \A u \in Assessed : loading[u] <= p
        BY <2>1, <2>4, <2>10 DEF p
      <4>2. \E d \in Nat : 2 * d <= Cardinality(Assessed) /\ Load(S) <= Load(A) + p * d
        BY <2>2, <4>1, LoadsDiffer
      <4> QED BY <2>4, <4>2
    <3>2. 2 * d <= n /\ k <= n /\ cs <= k /\ Load(S) <= p * k
      BY <2>2, <2>5, <2>8, <2>10, <3>1
    <3>3. ~(9999 * (Load(A) + Hours * k + t * ca) <= 10000 * (Load(S) + Hours * k + t * cs))
      <4>1. 9999 * n * p + 2 * n * (p + Hours + t) < 2 * 9999 * t
        BY <2>3
      <4>2. k <= n /\ 2 * d <= n /\ cs < ca /\ cs <= k
        BY <2>10, <3>2
      <4>3. Load(S) \in Nat /\ Load(A) \in Nat /\ Load(S) <= Load(A) + p * d /\ Load(S) <= p * k
        BY <2>5, <3>1, <3>2
      <4>4. p \in Nat /\ n \in Nat /\ t \in Nat /\ Hours \in Nat
        BY <2>2
      <4> QED BY <4>1, <4>2, <4>3, <4>4, OneStressedTooMany
    <3>4. Cost(S) = Load(S) + Hours * k + t * cs /\ Cost(A) = Load(A) + Hours * k + t * ca
      BY <2>6, <2>7, <2>10
    <3> QED BY <3>3, <3>4
  <2>11. s > k \/ (s = k /\ cs >= ca)
    BY <2>9, <2>10
  <2> QED BY <2>4, <2>11
<1> QED BY <1>1, <1>2

ShedInv ==
  /\ Loaded
  /\ loading = <<>> => required = 0 /\ answer = None
  /\ \/ required = 0 /\ answer = None
     \/ required \in Int /\ answer \in Allocations(required)

LEMMA ShedInitially == ShedInit => ShedInv
<1> SUFFICES ASSUME ShedInit PROVE ShedInv
  OBVIOUS
<1>1. loading \in [{} -> Peaks] /\ {} \in SUBSET Transformer
  BY DEF ShedInit
<1>2. stressed \subseteq Assessed
  BY DEF ShedInit
<1>3. Loaded
  BY <1>1, <1>2 DEF Loaded
<1> QED BY <1>3 DEF ShedInit, ShedInv

\* The transformers are ranked.
LEMMA AssessKeeps ==
  ASSUME ShedInv, loading = <<>>, Assess
  PROVE  ShedInv'
<1>1. Loaded'
  BY DEF Assess, Loaded, Assessed
<1>2. required' = 0 /\ answer' = None
  BY DEF ShedInv, Assess
<1> QED BY <1>1, <1>2 DEF ShedInv, None

\* Nothing an answer is computed from changes with it.
LEMMA AllocationsStay ==
  ASSUME UNCHANGED <<loading, stressed>>
  PROVE  \A kw : Allocations(kw)' = Allocations(kw)
BY DEF Allocations, Milp, Meets, Cost, Load, UnitCost, HoursShed, Assessed, None

LEMMA SheddingKeeps ==
  ASSUME ShedInv, NEW share \in Shares, Shedding(share)
  PROVE  ShedInv'
<1> DEFINE kw == Load(Assessed) * (100 - share)
<1>1. Loaded' /\ UNCHANGED <<loading, stressed>>
  BY DEF ShedInv, Shedding, Loaded, Assessed
<1>2. Load(Assessed) \in Nat /\ share \in Int /\ kw \in Int
  <2>1. Load(Assessed) \in Nat
    BY SizesOf DEF ShedInv
  <2> QED BY <2>1, AllocationAssumption
<1>3. required' \in {kw, 0} /\ required' \in Int
  <2>1. required' = Max({kw, 0})
    BY DEF Shedding
  <2>2. \E x \in {kw, 0} : \A y \in {kw, 0} : x >= y
    BY <1>2
  <2> HIDE DEF kw
  <2>3. Max({kw, 0}) \in {kw, 0}
    BY <2>2 DEF Max
  <2> QED BY <1>2, <2>1, <2>3
<1>4. (answer \in Allocations(required))'
  <2>1. answer' \in Allocations(required')
    BY DEF Shedding
  <2> QED BY <1>1, <2>1, AllocationsStay
<1>5. ASSUME loading = <<>> PROVE required' = 0 /\ answer' = None
  <2>1. Assessed = {}
    BY <1>5 DEF Assessed
  <2>2. Load(Assessed) = 0
    BY <2>1, SumEmpty DEF Load
  <2>3. kw = 0
    BY <1>2, <2>2
  <2>4. answer' \in {None}
    BY <2>1 DEF Shedding, Allocations
  <2> QED BY <1>3, <2>3, <2>4
<1> QED BY <1>1, <1>3, <1>4, <1>5 DEF ShedInv, None

LEMMA ShedStays ==
  ASSUME ShedInv, UNCHANGED shedVars
  PROVE  ShedInv'
<1>1. UNCHANGED <<loading, stressed, required, answer>>
  BY DEF shedVars
<1>2. Allocations(required)' = Allocations(required)
  BY <1>1, AllocationsStay
<1>3. Loaded'
  BY <1>1 DEF ShedInv, Loaded, Assessed
<1> QED BY <1>1, <1>2, <1>3 DEF ShedInv, None

\* The solver's answers are compared with everything that would do.
LEMMA CheapestIs ==
  ASSUME Loaded, NEW kw, NEW A \in Milp(kw), NEW S \in SUBSET Assessed, Meets(S, kw)
  PROVE  9999 * Cost(A) <= 10000 * Cost(S)
<1> DEFINE candidates == {T \in SUBSET Assessed : Meets(T, kw)}
           costs == {Cost(T) : T \in candidates}
<1>1. 9999 * Cost(A) <= 10000 * Min(costs) /\ A \in SUBSET Assessed
  BY DEF Milp
<1>2. \A T \in SUBSET Assessed : Cost(T) \in Nat
  <2> TAKE T \in SUBSET Assessed
  <2>1. Load(T) \in Nat /\ Cardinality(T) \in Nat /\ Cardinality(T \cap stressed) \in Nat
    BY SizesOf
  <2>2. Hours * Cardinality(T) \in Nat /\ Policy.thermal * Cardinality(T \cap stressed) \in Nat
    BY <2>1, HoursWeigh DEF Policy
  <2>3. Cost(T) = Load(T) + Hours * Cardinality(T) + Policy.thermal * Cardinality(T \cap stressed)
    BY CostIs
  <2> QED BY <2>1, <2>2, <2>3
<1>3. costs \in SUBSET Nat /\ Cost(S) \in costs
  BY <1>2
<1> HIDE DEF costs
<1>4. \E x \in costs : \A y \in costs : x <= y
  BY <1>3, LeastNatural
<1>5. Min(costs) \in costs /\ Min(costs) <= Cost(S)
  BY <1>3, <1>4 DEF Min
<1>6. Min(costs) \in Nat /\ Cost(S) \in Nat /\ Cost(A) \in Nat
  <2>1. Min(costs) \in Nat
    BY <1>3, <1>5
  <2>2. Cost(S) \in Nat
    BY <1>2
  <2>3. Cost(A) \in Nat
    BY <1>1, <1>2
  <2> QED BY <2>1, <2>2, <2>3
<1> QED BY <1>1, <1>5, <1>6

LEMMA AnswerIsFewest ==
  ASSUME ShedInv
  PROVE  FewestSwitchedOff
<1>1. Loaded /\ Load(Assessed) \in Nat
  BY SizesOf DEF ShedInv
<1>2. CASE required = 0 /\ answer = None
  BY <1>1, <1>2 DEF FewestSwitchedOff
<1>3. CASE required \in Int /\ answer \in Allocations(required)
  <2>1. CASE Assessed = {} \/ required > 100 * Load(Assessed)
    <3>1. answer = None
      <4>1. required > 100 * Load(Assessed) => ~(required <= 0)
        BY <1>1, <1>3
      <4> QED BY <1>3, <2>1, <4>1 DEF Allocations
    <3>2. Assessed = {} => Load(Assessed) = 0
      BY SumEmpty DEF Load
    <3>3. ~None.feasible
      BY DEF None
    <3> QED BY <1>1, <1>3, <2>1, <3>1, <3>2, <3>3 DEF FewestSwitchedOff
  <2>2. CASE Assessed # {} /\ required <= 0
    BY <1>1, <1>3, <2>2 DEF FewestSwitchedOff
  <2>3. CASE Assessed # {} /\ required > 0 /\ required <= 100 * Load(Assessed)
    <3>1. PICK A \in Milp(required) : answer = [feasible |-> TRUE, shed |-> A]
      BY <1>1, <1>3, <2>3 DEF Allocations
    <3>2. A \in SUBSET Assessed /\ Meets(A, required)
      BY <3>1 DEF Milp
    <3>3. ASSUME HoursOutweighLoads, NEW S \in SUBSET Assessed, Meets(S, required)
          PROVE  \/ Cardinality(S) > Cardinality(A)
                 \/ /\ Cardinality(S) = Cardinality(A)
                    /\ Cardinality(S \cap stressed) >= Cardinality(A \cap stressed)
      <4>1. 9999 * Cost(A) <= 10000 * Cost(S)
        BY <1>1, <3>1, <3>3, CheapestIs
      <4>2. Loaded /\ HoursOutweighLoads /\ A \in SUBSET Assessed
        BY <1>1, <3>2, <3>3
      <4> QED BY <4>1, <4>2, CheapIsSmall
    <3>4. answer.shed = A /\ answer.feasible
      BY <3>1
    <3> QED BY <1>1, <1>3, <2>3, <3>2, <3>3, <3>4 DEF FewestSwitchedOff
  <2> QED BY <1>1, <1>3, <2>1, <2>2, <2>3
<1> QED BY <1>2, <1>3 DEF ShedInv

\* For any network, loads, risk bands and shares of generation: an answer meets
\* the requirement, while the hours of the schedule outweigh the loads at hand
\* with as few transformers as can meet it and, among those, as few stressed
\* ones, although the solver may stop short of the cheapest; and there is none
\* exactly when all of them together fall short.
THEOREM FewestAlwaysSwitchedOff == AnalyticsSpec => []FewestSwitchedOff
<1>1. AnalyticsInit => ShedInv
  BY ShedInitially DEF AnalyticsInit
<1>2. ShedInv /\ [AnalyticsNext]_analyticsVars => ShedInv'
  <2> SUFFICES ASSUME ShedInv, [AnalyticsNext]_analyticsVars PROVE ShedInv'
    OBVIOUS
  <2>1. CASE UNCHANGED shedVars
    BY <2>1, ShedStays
  <2>2. CASE OpenShedding
    BY <2>2, AssessKeeps, SheddingKeeps DEF OpenShedding
  <2> QED BY <2>1, <2>2 DEF AnalyticsNext, WalkSchedule, OpenForecast, OpenCases, OpenHealth,
                           OpenEstimate, analyticsVars
<1>3. ShedInv => FewestSwitchedOff
  BY AnswerIsFewest
<1> QED BY <1>1, <1>2, <1>3, PTL DEF AnalyticsSpec
=============================================================================
