------------------------------ MODULE Dashboard ------------------------------
(***************************************************************************)
(* The browser side: scenario selection and the views (main.js, views.js). *)
(* JavaScript runs one handler at a time, but every await lets others in:  *)
(* a load or a render in progress is a record in pending that says which   *)
(* response it awaits and what it was asked for, and the response may      *)
(* arrive after those of requests made later.                              *)
(*                                                                         *)
(* A panel is described by the scenarios its figures were computed on.     *)
(* Two of the eight views stand for the rest: "executive" and "network".   *)
(***************************************************************************)
EXTENDS Naturals, Sequences, SequencesExt

CONSTANTS Scenario,
          NoScenario,    \* null
          MaxOperations, \* bound: selections and navigations by the user
          Conditions     \* the conditions looked at

\* patient: the user waits until nothing is in flight; ordered: responses
\* arrive in the order of the requests; errors: any request may fail.
Condition == [patient : BOOLEAN, ordered : BOOLEAN, errors : BOOLEAN]

ASSUME DashboardAssumption ==
  /\ NoScenario \notin Scenario /\ MaxOperations \in Nat
  /\ Conditions \subseteq Condition

VARIABLES under,       \* the conditions of this behaviour
          scenarioId, rootId, summary, scenarioConfig, \* State, by the scenario it came from
          header,      \* view-context: the scenarios of its seed and of its counts
          overlay,     \* the element "loading" is shown
          currentView,
          unit,        \* the scenario whose transformers net-transformer-select lists
          painted,     \* painted[p]: the scenarios the figures of panel p come from
          pending,     \* requests in flight, in the order they were made
          operations,  \* bound: user operations so far
          failed       \* history: an error since the last selection

state == <<scenarioId, rootId, summary, scenarioConfig>>
vars == <<under, state, header, overlay, currentView, unit, painted, pending, operations, failed>>

View == {"executive", "network"}

Panels(v) == IF v = "executive" THEN {"kpis", "series", "causes"}
                                 ELSE {"netKpis", "balance", "map", "asset", "thermal"}
Panel == UNION {Panels(v) : v \in View}

\* What a request was asked for, and what its handler keeps in local variables.
Request(stage, scenario, root, kept, of) ==
  [stage |-> stage, scenario |-> scenario, root |-> root, kept |-> kept, of |-> of]

\* An operation of the user.
Operate ==
  /\ operations < MaxOperations
  /\ operations' = operations + 1
  /\ under.patient => pending = <<>>

\* switchView(v) up to its first await, with State as it will be.  The
\* executive view paints its figures from the summary before it asks for the
\* series; without a summary it throws, and the error is only logged.
Render(v, scenario, root, sum, others) ==
  CASE v = "executive" /\ sum # NoScenario ->
         /\ painted' = [painted EXCEPT !["kpis"] = {sum}]
         /\ pending' = Append(others, Request("series", scenario, root, sum, NoScenario))
    [] v = "executive" /\ sum = NoScenario ->
         pending' = others /\ UNCHANGED painted
    [] v = "network" ->
         /\ pending' = Append(others, Request("map", scenario, root, sum, NoScenario))
         /\ UNCHANGED painted

Init ==
  /\ under \in Conditions
  /\ scenarioId \in Scenario /\ rootId = NoScenario
  /\ summary = NoScenario /\ scenarioConfig = NoScenario
  /\ header = <<NoScenario, NoScenario>> /\ overlay = TRUE
  /\ currentView = "executive" /\ unit = NoScenario
  /\ painted = [p \in Panel |-> {}]
  /\ pending = <<Request("scenarios", scenarioId, NoScenario, NoScenario, NoScenario)>>
  /\ operations = 0 /\ failed = FALSE

\* loadScenario(s) up to its first await.
Select(s) ==
  /\ Operate
  /\ s # scenarioId \* "change" fires only if the choice changed
  /\ scenarioId' = s /\ overlay' = TRUE
  /\ pending' = Append(pending, Request("scenarios", s, NoScenario, NoScenario, NoScenario))
  /\ failed' = FALSE
  /\ UNCHANGED <<under, rootId, summary, scenarioConfig, header, currentView, unit, painted>>

\* switchView from the navigation.
Navigate(v) ==
  /\ Operate
  /\ currentView' = v
  /\ Render(v, scenarioId, rootId, summary, pending)
  /\ UNCHANGED <<under, state, header, overlay, unit, failed>>

\* "change" on the select of the network view: renderNonTechnicalLoss alone.
Choose ==
  /\ Operate
  /\ currentView = "network" /\ unit # NoScenario
  /\ pending' = Append(pending, Request("chosen", scenarioId, unit, NoScenario, NoScenario))
  /\ UNCHANGED <<under, state, header, overlay, currentView, unit, painted, failed>>

(***************************************************************************)
(* Responses.  Each continues the handler that awaits it up to its next    *)
(* request; a request is made with State as it is then.                    *)
(***************************************************************************)
Answerable(i) == i \in DOMAIN pending /\ (under.ordered => i = 1)

Awaits(i, stage) == Answerable(i) /\ pending[i].stage = stage

\* What is asked of a node that is not there fails.
Servable(r) == r.stage \in {"series", "map"} => r.root # NoScenario

\* Another scenario's transformer has no data there: the backend answers with
\* an error, the static snapshot has a file if the names happen to agree.
Doubtful(r) == r.stage \in {"balance", "chosen", "thermal"} /\ r.root # r.scenario

Continue(i, request) == pending' = Append(RemoveAt(pending, i), request)

ScenariosArrive(i) ==
  /\ Awaits(i, "scenarios")
  /\ scenarioConfig' = pending[i].scenario
  /\ Continue(i, [pending[i] EXCEPT !.stage = "root"])
  /\ UNCHANGED <<under, scenarioId, rootId, summary, header, overlay, currentView, unit, painted, operations, failed>>

RootArrives(i) ==
  /\ Awaits(i, "root")
  /\ rootId' = pending[i].scenario
  /\ Continue(i, [pending[i] EXCEPT !.stage = "summary"])
  /\ UNCHANGED <<under, scenarioId, summary, scenarioConfig, header, overlay, currentView, unit, painted, operations, failed>>

\* Mutants: the selection in force is not read again; the overlay stays.
SummaryArrivesQuietly(i) ==
  /\ Awaits(i, "summary")
  /\ summary' = pending[i].scenario
  /\ header' = <<pending[i].scenario, pending[i].scenario>>
  /\ overlay' = FALSE
  /\ pending' = RemoveAt(pending, i)
  /\ UNCHANGED <<under, scenarioId, rootId, scenarioConfig, currentView, unit, painted, operations, failed>>

SummaryArrivesUnderOverlay(i) ==
  /\ Awaits(i, "summary")
  /\ summary' = pending[i].scenario
  /\ header' = <<pending[i].scenario, pending[i].scenario>>
  /\ Render(currentView, scenarioId, rootId, summary', RemoveAt(pending, i))
  /\ UNCHANGED <<under, scenarioId, rootId, scenarioConfig, overlay, currentView, unit, operations, failed>>

\* The last step of loadScenario: the header, then the current view again.
SummaryArrives(i) ==
  /\ Awaits(i, "summary")
  /\ summary' = pending[i].scenario
  /\ header' = <<pending[i].scenario, pending[i].scenario>>
  /\ overlay' = FALSE
  /\ Render(currentView, scenarioId, rootId, summary', RemoveAt(pending, i))
  /\ UNCHANGED <<under, scenarioId, rootId, scenarioConfig, currentView, unit, operations, failed>>

SeriesArrives(i) ==
  /\ Awaits(i, "series") /\ Servable(pending[i])
  /\ painted' = [painted EXCEPT !["series"] = {pending[i].root, pending[i].scenario},
                                !["causes"] = {pending[i].kept}]
  /\ pending' = RemoveAt(pending, i)
  /\ UNCHANGED <<under, state, header, overlay, currentView, unit, operations, failed>>

MapArrives(i) ==
  /\ Awaits(i, "map") /\ Servable(pending[i])
  /\ LET r == pending[i] IN
       Continue(i, [r EXCEPT !.stage = "health", !.of = {r.root, r.scenario}, !.scenario = scenarioId])
  /\ UNCHANGED <<under, state, header, overlay, currentView, unit, painted, operations, failed>>

\* The health figures are in: the view's figures are painted, the select is
\* filled the first time only, and the balance of its choice is asked for.
\* An error is caught, and the figures are painted without the health.
HealthArrives(i, served) ==
  /\ Awaits(i, "health") /\ (~served => under.errors)
  /\ LET r == pending[i] IN
       IF r.kept = NoScenario
       THEN /\ pending' = RemoveAt(pending, i)
            /\ UNCHANGED <<unit, painted>>
       ELSE /\ painted' = [painted EXCEPT !["netKpis"] = {r.kept} \cup r.of \cup
                                            IF served THEN {r.scenario} ELSE {}]
            /\ unit' = IF unit = NoScenario THEN r.root ELSE unit
            /\ Continue(i, [r EXCEPT !.stage = "balance", !.root = unit', !.scenario = scenarioId])
  /\ UNCHANGED <<under, state, header, overlay, currentView, operations, failed>>

BalanceArrives(i) ==
  /\ Awaits(i, "balance")
  /\ painted' = [painted EXCEPT !["balance"] = {pending[i].root, pending[i].scenario},
                                !["map"] = pending[i].of]
  /\ Continue(i, [pending[i] EXCEPT !.stage = "asset", !.scenario = scenarioId])
  /\ UNCHANGED <<under, state, header, overlay, currentView, unit, operations, failed>>

\* An error is caught here too, and the panel says that it is unavailable.
\* Otherwise the chart of the first transformer is asked for.
AssetArrives(i, served) ==
  /\ Awaits(i, "asset") /\ (~served => under.errors)
  /\ painted' = [painted EXCEPT !["asset"] = IF served THEN {pending[i].scenario} ELSE {},
                                !["thermal"] = {}]
  /\ IF served
     THEN Continue(i, [pending[i] EXCEPT !.stage = "thermal", !.root = pending[i].scenario,
                                         !.scenario = scenarioId])
     ELSE pending' = RemoveAt(pending, i)
  /\ UNCHANGED <<under, state, header, overlay, currentView, unit, operations, failed>>

\* renderThermalChart and renderNonTechnicalLoss, with nothing left to do.
ChartArrives(i, stage, panel) ==
  /\ Awaits(i, stage)
  /\ painted' = [painted EXCEPT ![panel] = {pending[i].root, pending[i].scenario}]
  /\ pending' = RemoveAt(pending, i)
  /\ UNCHANGED <<under, state, header, overlay, currentView, unit, operations, failed>>

\* An error nobody catches ends the handler: loadScenario leaves the overlay
\* up, switchView logs it.
Fails(i) ==
  /\ Answerable(i)
  /\ pending[i].stage \notin {"health", "asset"}
  /\ (under.errors \/ ~Servable(pending[i]) \/ Doubtful(pending[i]))
  /\ pending' = RemoveAt(pending, i)
  /\ failed' = (failed \/ (Servable(pending[i]) /\ ~Doubtful(pending[i])))
  /\ UNCHANGED <<under, state, header, overlay, currentView, unit, painted, operations>>

Arrives(i) ==
  \/ ScenariosArrive(i) \/ RootArrives(i) \/ SummaryArrives(i)
  \/ SeriesArrives(i) \/ MapArrives(i) \/ (\E served \in BOOLEAN : HealthArrives(i, served))
  \/ BalanceArrives(i) \/ (\E served \in BOOLEAN : AssetArrives(i, served))
  \/ ChartArrives(i, "thermal", "thermal") \/ ChartArrives(i, "chosen", "balance") \/ Fails(i)

Next ==
  \/ \E s \in Scenario : Select(s)
  \/ \E v \in View : Navigate(v)
  \/ Choose
  \/ \E i \in DOMAIN pending : Arrives(i)

Spec == Init /\ [][Next]_vars

\* Every request is answered in the end.
LiveSpec == Spec /\ WF_vars(\E i \in DOMAIN pending : Arrives(i))

(***************************************************************************)
(* Properties.                                                             *)
(***************************************************************************)

Settled == pending = <<>> /\ ~failed

FiguresOf(scenario, view) == \A p \in Panels(view) : painted[p] \subseteq {scenario}

\* "A figure must carry what it was computed on": when responses arrive in
\* order or the user waits for them, then once everything has been answered
\* the state, the header and every figure of the view on screen are of the
\* scenario that is selected.  (The network view only as long as its select
\* lists the transformers of that scenario.)
SettledOnSelection ==
  Settled /\ (under.ordered \/ under.patient) =>
    /\ {rootId, summary, scenarioConfig} = {scenarioId}
    /\ header = <<scenarioId, scenarioId>>
    /\ (currentView = "network" /\ unit # scenarioId) \/ FiguresOf(scenarioId, currentView)

\* "Loading scenario" goes away, whatever the user does meanwhile.
LoadingEnds == overlay ~> (~overlay \/ failed)
=============================================================================
