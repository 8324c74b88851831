------------------------------ MODULE Drilldown ------------------------------
(***************************************************************************)
(* The network explorer and the case modal (views.js) within one scenario. *)
(* A click starts a handler that asks for one thing after another; what it *)
(* awaits is a record of asked, and a reply may find the page changed by   *)
(* a later click.  The modal covers the page: while it is open only it can *)
(* be clicked.                                                             *)
(***************************************************************************)
EXTENDS Naturals, Sequences, SequencesExt

CONSTANTS Node, Root, Parent,  \* the tree; Parent[Root] = Root
          Connection, At,      \* At[c]: the node that serves connection c
          Nothing,             \* an element that is empty
          Suspects,            \* connections in the case queue
          Reconstructed,       \* connections with a classification
          Anomalous,           \* connections with a ground truth
          MaxClicks            \* bound: clicks

VARIABLES under,    \* the conditions of this behaviour, as in Dashboard
          trail,    \* breadcrumbTrail
          nav,      \* the breadcrumb on the page
          title,    \* node-title, node-type-badge and children-list: the node shown
          chart,    \* node-chart and node-conn-count: the node they are of
          cases,    \* explorer-case-table: the node it is of
          modal,    \* the elements of case-modal, by the connection they are of
          asked,    \* requests in flight, in the order they were made
          clicks, target, failing \* bound; history: last node asked for, an error since

page == <<trail, nav, title, chart, cases>>
vars == <<under, page, modal, asked, clicks, target, failing>>

\* The nodes from the root to n.
Path[n \in Node] == IF n = Root THEN <<Root>> ELSE Append(Path[Parent[n]], n)

Request(stage, of) == [stage |-> stage, of |-> of]

Init ==
  /\ trail = <<>> /\ nav = <<>>
  /\ title = Nothing /\ chart = Nothing /\ cases = Nothing
  /\ modal = [open |-> FALSE, title |-> Nothing, subtitle |-> Nothing,
              evidence |-> Nothing, truth |-> Nothing, chart |-> Nothing]
  /\ asked = <<>> /\ clicks = 0 /\ target = Nothing /\ failing = FALSE

Click ==
  /\ clicks < MaxClicks
  /\ clicks' = clicks + 1
  /\ under.patient => asked = <<>>

\* renderExplorer(n) up to its first await.
Visit(n) ==
  /\ Click /\ ~modal.open
  /\ asked' = Append(asked, Request("node", n))
  /\ target' = n /\ failing' = FALSE
  /\ UNCHANGED <<under, nav, title, chart, cases, modal>>

\* switchView("explorer"): the trail is emptied, the page is not.
OpenExplorer == trail' = <<>> /\ Visit(Root)

\* A row of children-list, a button of the breadcrumb.
ClickChild(n) == title # Nothing /\ n # Root /\ Parent[n] = title /\ UNCHANGED trail /\ Visit(n)
ClickCrumb(n) == Contains(nav, n) /\ UNCHANGED trail /\ Visit(n)

\* Mutant: the evidence of the case before stays.
OpenCaseOver(c) ==
  /\ Click /\ ~modal.open
  /\ At[c] = title \/ (c \in Suspects /\ Contains(Path[At[c]], cases))
  /\ modal' = [modal EXCEPT !.open = TRUE, !.title = c, !.subtitle = Nothing]
  /\ asked' = Append(asked, Request("case", c))
  /\ UNCHANGED <<under, page, target, failing>>

\* openCaseModal(c) up to its await, from a row of the list or of the table.
OpenCase(c) ==
  /\ Click /\ ~modal.open
  /\ At[c] = title \/ (c \in Suspects /\ Contains(Path[At[c]], cases))
  /\ modal' = [modal EXCEPT !.open = TRUE, !.title = c, !.subtitle = Nothing,
                            !.truth = Nothing, !.evidence = Nothing]
  /\ asked' = Append(asked, Request("case", c))
  /\ UNCHANGED <<under, page, target, failing>>

\* closeModal only hides it.
CloseModal ==
  /\ modal.open
  /\ modal' = [modal EXCEPT !.open = FALSE]
  /\ UNCHANGED <<under, page, asked, clicks, target, failing>>

Awaits(i, stage) ==
  /\ i \in DOMAIN asked /\ asked[i].stage = stage
  /\ under.ordered => i = 1

Continue(i, stage) == asked' = Append(RemoveAt(asked, i), Request(stage, asked[i].of))

\* Mutant: no cut back to a node on the trail.
TrailPushed(n) == IF Contains(trail, n) THEN trail ELSE Append(trail, n)

\* Back to n if it is on the trail, one further if it is not.
TrailTo(n) ==
  IF Contains(trail, n)
  THEN SubSeq(trail, 1, SelectInSeq(trail, LAMBDA b : b = n))
  ELSE Append(trail, n)

\* Mutant: a node already on the trail is not painted again.
NodeArrivesOnce(i) ==
  /\ Awaits(i, "node")
  /\ trail' = TrailTo(asked[i].of) /\ nav' = trail'
  /\ title' = IF Contains(trail, asked[i].of) THEN title ELSE asked[i].of
  /\ Continue(i, "series")
  /\ UNCHANGED <<under, chart, cases, modal, clicks, target, failing>>

NodeArrives(i) ==
  /\ Awaits(i, "node")
  /\ trail' = TrailTo(asked[i].of) /\ nav' = trail'
  /\ title' = asked[i].of
  /\ Continue(i, "series")
  /\ UNCHANGED <<under, chart, cases, modal, clicks, target, failing>>

SeriesArrives(i) ==
  /\ Awaits(i, "series")
  /\ chart' = asked[i].of
  /\ Continue(i, "cases")
  /\ UNCHANGED <<under, trail, nav, title, cases, modal, clicks, target, failing>>

CasesArrive(i) ==
  /\ Awaits(i, "cases")
  /\ cases' = asked[i].of
  /\ asked' = RemoveAt(asked, i)
  /\ UNCHANGED <<under, trail, nav, title, chart, modal, clicks, target, failing>>

\* An error ends renderExplorer where it is.
Fails(i) ==
  /\ under.errors
  /\ \E stage \in {"node", "series", "cases"} : Awaits(i, stage)
  /\ asked' = RemoveAt(asked, i)
  /\ failing' = TRUE
  /\ UNCHANGED <<under, page, modal, clicks, target>>

\* All three answers of the modal are in; an error counts as no answer.  What
\* is missing is not painted, and what was there stays.
CaseArrives(i, detail, truth) ==
  /\ Awaits(i, "case")
  /\ LET c == asked[i].of IN
       /\ detail => c \in Reconstructed
       /\ truth => c \in Anomalous
       /\ ~under.errors => detail = (c \in Reconstructed) /\ truth = (c \in Anomalous)
       /\ modal' = [modal EXCEPT !.subtitle = c, !.chart = c,
                                 !.evidence = IF detail THEN c ELSE @,
                                 !.truth = IF truth THEN c ELSE @]
  /\ asked' = RemoveAt(asked, i)
  /\ UNCHANGED <<under, page, clicks, target, failing>>

Next ==
  \/ OpenExplorer
  \/ \E n \in Node : ClickChild(n) \/ ClickCrumb(n)
  \/ \E c \in Connection : OpenCase(c)
  \/ CloseModal
  \/ \E i \in DOMAIN asked :
       \/ NodeArrives(i) \/ SeriesArrives(i) \/ CasesArrive(i) \/ Fails(i)
       \/ \E detail, truth \in BOOLEAN : CaseArrives(i, detail, truth)

Spec == Init /\ [][Next]_vars

(***************************************************************************)
(* Properties.                                                             *)
(***************************************************************************)

\* Once everything has been answered in order, the explorer shows the node of
\* the last click throughout, and the breadcrumb ends in it.
ExplorerSettled ==
  under.ordered /\ asked = <<>> /\ ~failing /\ target # Nothing =>
    /\ {title, chart, cases} = {target}
    /\ Last(nav) = target

\* For a user who waits, and without errors, the breadcrumb on the page is the
\* way from the root to the node it ends in.
BreadcrumbIsPath ==
  under.patient /\ ~under.errors /\ nav # <<>> => nav = Path[Last(nav)]

\* "A figure must carry what it was computed on -- applies to the UI too": for a
\* user who waits, once everything has been answered, an open modal shows what
\* was found out about the connection in its title, and nothing about another.
ModalSettled ==
  under.patient /\ modal.open /\ asked = <<>> =>
    /\ modal.subtitle = modal.title /\ modal.chart = modal.title
    /\ {modal.evidence, modal.truth} \subseteq {modal.title, Nothing}
=============================================================================
