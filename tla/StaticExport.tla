----------------------------- MODULE StaticExport -----------------------------
(***************************************************************************)
(* scripts/export_static_api.py, while scenarios are being generated: the  *)
(* files it leaves under frontend/data, the payloads it may fail on and    *)
(* when it dies.  Each of its SELECTs sees the latest commit.              *)
(*                                                                         *)
(* A file is a record: what kind of payload, of which scenario or          *)
(* substation its name tells, and the scenario it was computed for.        *)
(***************************************************************************)
EXTENDS ScenarioGeneration

VARIABLES step,     \* "idle", "list", "scenario", "nodes", "done", "died"
          listed,   \* scenarios list_scenarios returned
          todo,     \* of these, not yet exported
          current,  \* the one being exported
          below,    \* substations whose feeders are still to be written
          files     \* what is under frontend/data

expVars == <<step, listed, todo, current, below, files>>
vars == <<genVars, expVars>>

File(kind, of, from) == [kind |-> kind, of |-> of, from |-> from]

\* "analyses" stands for asset_health, forecast and shedding.
Overview == {"root", "summary", "revenue"}
OfNodes  == {"node", "timeseries", "cases", "map"}

Recorded == {x \in Scenario : Record(x) \in rows}
Fed      == {s \in Substation : Feeder(s) \in rows}

\* What write leaves: a file replaces one of the same name.
Written(new) ==
  {f \in files : \A n \in new : <<n.kind, n.of>> # <<f.kind, f.of>>} \cup new

ExpInit ==
  /\ step = "idle" /\ files = {}
  /\ listed = {} /\ todo = {} /\ below = {} /\ current = "none"

\* The directory is removed before the database is opened.
Wipe ==
  /\ step \in {"idle", "done", "died"}
  /\ files' = {} /\ step' = "list"
  /\ listed' = {} /\ todo' = {} /\ below' = {} /\ current' = "none"

\* SystemExit if there is no scenario.
ListScenarios ==
  /\ step = "list"
  /\ listed' = Recorded /\ todo' = Recorded
  /\ IF Recorded = {}
     THEN step' = "died" /\ UNCHANGED files
     ELSE step' = "scenario" /\ files' = {File("scenarios", x, x) : x \in Recorded}
  /\ UNCHANGED <<current, below>>

\* Mutant: modules C, D and E are not guarded.
SurvivesComplete(done) == done # {}

\* An exception of modules C, D and E is caught.
Survives(done) == TRUE

\* Root, summary, revenue and the analyses that do not raise, then descendant_ids
\* of the root, which is the national node.
ExportScenario(x) ==
  /\ step = "scenario" /\ x \in todo
  /\ current' = x /\ below' = Fed
  /\ \E done \in {{}, {"analyses"}} :
       /\ files' = Written({File(k, x, x) : k \in Overview \cup done})
       /\ step' = IF Survives(done) THEN "nodes" ELSE "died"
  /\ UNCHANGED <<listed, todo>>

\* Mutant: a transformer of another scenario is passed over.
EstimatedEverywhere(s) == BOOLEAN

\* compute_nontechnical_loss: a transformer none of whose placed connections has
\* a purchase in the scenario has no modelled loss to index.  This is every
\* transformer of another scenario, and may be one of this scenario's own.
Estimated(s) == IF s = SubstationOf[current] THEN BOOLEAN ELSE {FALSE}

\* The nodes of a substation, down to its transformers; the first transformer
\* without an estimate ends the export.
ExportNodes(s) ==
  /\ step = "nodes" /\ s \in below
  /\ \/ /\ TRUE \in Estimated(s)
        /\ \E thermal \in {{}, {"thermal"}} :
             files' = Written({File(k, s, current) : k \in OfNodes \cup {"ntl"} \cup thermal})
        /\ below' = below \ {s} /\ UNCHANGED step
     \/ /\ FALSE \in Estimated(s)
        /\ files' = Written({File(k, s, current) : k \in OfNodes})
        /\ step' = "died" /\ UNCHANGED below
  /\ UNCHANGED <<listed, todo, current>>

\* The connections of all transformers, and the next scenario or the end.
ExportConnections ==
  /\ step = "nodes" /\ below = {}
  /\ \E case \in {{}, {"case"}} :
       files' = Written({File(k, SubstationOf[current], current) :
                           k \in {"conn_timeseries", "gt"} \cup case})
  /\ todo' = todo \ {current}
  /\ IF todo' = {} THEN step' = "done" ELSE step' = "scenario"
  /\ UNCHANGED <<listed, current, below>>

Render == \/ ListScenarios \/ ExportConnections
          \/ \E x \in Scenario : ExportScenario(x)
          \/ \E s \in Substation : ExportNodes(s)

Init == GenInit /\ ExpInit
Next == (GenNext /\ UNCHANGED expVars) \/ ((Wipe \/ Render) /\ UNCHANGED genVars)

Spec == Init /\ [][Next]_vars

(***************************************************************************)
(* Properties.                                                             *)
(***************************************************************************)

\* An export that comes to its end has written, for every scenario it lists, all
\* but the guarded payloads, computed for that scenario,
\* though feeders and scenarios were committed while it ran.
ExportComplete ==
  step = "done" =>
    \A x \in listed :
      {File(k, x, x) : k \in {"scenarios"} \cup Overview}
        \cup {File(k, SubstationOf[x], x) : k \in OfNodes \cup {"ntl", "conn_timeseries", "gt"}}
      \subseteq files

\* "Rather than the export dying halfway through": a scenario too short or too
\* sparse for modules C, D and E does not end the export.  If it dies, it is on
\* an empty database or at a transformer, with the overview of the scenario at
\* hand and the nodes it came by already on disk.
DiesAtTransformer ==
  step = "died" /\ listed # {} =>
    /\ {File(k, current, current) : k \in Overview} \subseteq files
    /\ \E s \in below : {File(k, s, current) : k \in OfNodes} \subseteq files

\* The export goes down from the national node whichever scenario it is at, so
\* two scenarios, of whatever substations, are never exported together: it dies
\* at the other one's first transformer, and only a database with one scenario
\* is ever exported to the end.
OnlyOneExported == step = "done" => \A x, y \in listed : x = y
=============================================================================
