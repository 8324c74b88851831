------------------------------- MODULE Frontend -------------------------------
(***************************************************************************)
(* The page: the dashboard, and the explorer that is opened in the         *)
(* scenario it has loaded.  Bound: the explorer is opened as soon as the   *)
(* first scenario is in, if at all, and not left again.                    *)
(***************************************************************************)
EXTENDS Dashboard, FiniteSets

CONSTANTS Node, Root, Parent, Connection, At, Nothing, Suspects, Reconstructed, Anomalous, MaxClicks

\* The nodes are a tree: every node is a number of steps up from the root.
ASSUME TreeAssumption ==
  /\ Root \in Node /\ Parent \in [Node -> Node] /\ Nothing \notin Node
  /\ \E depth \in [Node -> 0..Cardinality(Node)] :
       \A n \in Node \ {Root} : depth[n] = depth[Parent[n]] + 1

VARIABLES trail, nav, title, chart, cases, modal, asked, clicks, target, failing

E == INSTANCE Drilldown

explorerVars == <<trail, nav, title, chart, cases, modal, asked, clicks, target, failing>>
allVars == <<vars, explorerVars>>

FrontendInit == Init /\ E!Init

\* switchView("explorer") waits for nothing, but there is no node to show until
\* loadScenario has stored State.rootId.
Explore ==
  /\ operations = 0 /\ Settled /\ rootId # NoScenario
  /\ E!Next /\ UNCHANGED vars

FrontendNext ==
  \/ clicks = 0 /\ Next /\ UNCHANGED explorerVars
  \/ Explore

\* Every request of the dashboard is answered in the end.
Answered == clicks = 0 /\ (\E i \in DOMAIN pending : Arrives(i)) /\ UNCHANGED explorerVars

FrontendSpec == FrontendInit /\ [][FrontendNext]_allVars /\ WF_allVars(Answered)

\* The properties of the explorer.
ExplorerSettled == E!ExplorerSettled
BreadcrumbIsPath == E!BreadcrumbIsPath
ModalSettled == E!ModalSettled
=============================================================================
