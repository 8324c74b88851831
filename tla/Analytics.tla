------------------------------- MODULE Analytics -------------------------------
(***************************************************************************)
(* What is computed from a scenario when it is asked for: the shedding     *)
(* schedule over a series, the reconstruction of a connection, and the     *)
(* asset-health, shedding, revenue and forecast views.  Each is computed   *)
(* from the database and keeps nothing, so a behaviour follows one of      *)
(* them, whichever is opened first.                                        *)
(***************************************************************************)
EXTENDS SheddingAllocation, CaseQueue, DemandForecast, ThermalAgeing, SegmentReconstruction

analyticsVars == <<scheduleVars, shedVars, queueVars, forecastVars, thermalVars, estimateVars>>

AnalyticsInit ==
  ScheduleInit /\ ShedInit /\ QueueInit /\ ForecastInit /\ ThermalInit /\ EstimateInit

Views == {"schedule", "shedding", "cases", "forecast", "health", "estimate"}

Closed(view) ==
  CASE view = "schedule" -> startDay = -1
    [] view = "shedding" -> loading = <<>> /\ required = 0
    [] view = "cases"    -> pending = Connection
    [] view = "forecast" -> rows = 0 /\ forecast.verdict = "none"
    [] view = "health"   -> seen = 0
    [] view = "estimate" -> stage = "vending" /\ \A t \in Tick : vending[t] = 0

Alone(view) == \A other \in Views \ {view} : Closed(other)

WalkSchedule ==
  /\ Alone("schedule") /\ ScheduleNext
  /\ UNCHANGED <<shedVars, queueVars, forecastVars, thermalVars, estimateVars>>

OpenShedding ==
  /\ Alone("shedding")
  /\ \/ loading = <<>> /\ Assess
     \/ \E share \in Shares : Shedding(share)
  /\ UNCHANGED <<scheduleVars, queueVars, forecastVars, thermalVars, estimateVars>>

OpenCases ==
  /\ Alone("cases")
  /\ \/ \E c \in Connection : Featurize(c)
     \/ ListCases
  /\ UNCHANGED <<scheduleVars, shedVars, forecastVars, thermalVars, estimateVars>>

OpenForecast ==
  /\ Alone("forecast")
  /\ \/ \E n \in 1..MaxRows : Reconstructed(n)
     \/ ViewForecast
  /\ UNCHANGED <<scheduleVars, shedVars, queueVars, thermalVars, estimateVars>>

OpenHealth ==
  /\ Alone("health") /\ ThermalNext
  /\ UNCHANGED <<scheduleVars, shedVars, queueVars, forecastVars, estimateVars>>

OpenEstimate ==
  /\ Alone("estimate") /\ EstimateNext
  /\ UNCHANGED <<scheduleVars, shedVars, queueVars, forecastVars, thermalVars>>

AnalyticsNext ==
  \/ WalkSchedule \/ OpenShedding \/ OpenCases \/ OpenForecast \/ OpenHealth \/ OpenEstimate

AnalyticsSpec == AnalyticsInit /\ [][AnalyticsNext]_analyticsVars
=============================================================================
