------------------------------ MODULE MCAnalytics ------------------------------
(***************************************************************************)
(* Analytics for TLC: four transformers of three shedding groups; three    *)
(* connections of one transformer, of which one may show any signature,    *)
(* and one of another; a transformer from unloaded to well overloaded.    *)
(***************************************************************************)
EXTENDS Analytics, TLC

CONSTANTS t1, t2, t3, t4

MCGroup == (t1 :> 0) @@ (t2 :> 1) @@ (t3 :> 2) @@ (t4 :> 2)

MCShares == {-20, 0, 50, 75, 90, 100, 120}

MCFedBy == <<t1, t1, t1, t2>>

Shape(change, daylight, evening, irradiance) ==
  [change |-> change, daylight |-> daylight, evening |-> evening, irradiance |-> irradiance]

Shapes ==
  {Shape(change, change, change, 0) : change \in {-90, -60, -50, -30, -4}}
    \cup {Shape(-30, -60, -5, -40), Shape(-30, -60, -60, -40)}

With(shape, sharpness, noPurchase, inactive, gapRatio) ==
  [change |-> shape.change, daylight |-> shape.daylight, evening |-> shape.evening,
   irradiance |-> shape.irradiance, sharpness |-> sharpness, noPurchase |-> noPurchase,
   inactive |-> inactive, gapRatio |-> gapRatio]

Anything ==
  {With(s, sharp, no, ina, gap) : s \in Shapes, sharp \in {10, 30}, no \in BOOLEAN, ina \in BOOLEAN, gap \in {0, 70, 100}}

Ordinary(changes) == {With(Shape(change, change, change, 0), 30, FALSE, FALSE, 0) : change \in changes}

MCObservable == <<Anything, Ordinary({-60, -50, -30}), Ordinary({-50, -4}), Ordinary({-30})>>

\* IEC 60076-7 for the 50 kVA unit of the catalog, in tenths of a degree.
MCSteadyRise == (0 :> 118) @@ (60 :> 296) @@ (100 :> 550) @@ (150 :> 982)
MCGradient == (0 :> 0) @@ (60 :> 102) @@ (100 :> 230) @@ (150 :> 440)
=============================================================================
