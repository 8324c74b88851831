---------------------------- MODULE Frontend_proofs ----------------------------
(***************************************************************************)
(* Theorems about the page, for any scenarios, network, connections and    *)
(* any number of clicks.                                                   *)
(*                                                                         *)
(* Both halves of the page have the same argument.  While not everything   *)
(* has been answered there is one request in flight, the last choice's,    *)
(* that leads: no handler is behind it that could still paint over what it *)
(* will show, since every other one has come further and finishes what it  *)
(* started first, and what the choice has shown so far is of the choice.   *)
(* When it is answered it leads again, at its next await, or the page is   *)
(* done.  (Leading in the explorer; LoadLeads, SeriesLeads and             *)
(* NetworkLeads in the dashboard.)                                         *)
(***************************************************************************)
EXTENDS Frontend, OperatorTheorems, SequenceTheorems

(***************************************************************************)
(* The explorer and its modal.                                             *)
(***************************************************************************)

\* The way from the root to a node, one step at a time.
IsWay(p) == /\ p # <<>> /\ p[1] = Root
            /\ \A k \in 2..Len(p) : p[k] # Root /\ Parent[p[k]] = p[k - 1]

Asking == [stage : {"node", "series", "cases"}, of : Node] \cup [stage : {"case"}, of : Connection]

\* What an element of the modal is of.
Case == Connection \cup {Nothing}

ExplorerTypeOK ==
  /\ trail \in Seq(Node) /\ nav \in Seq(Node)
  /\ asked \in Seq(Asking)
  /\ modal \in [open : BOOLEAN, title : Case, subtitle : Case, evidence : Case, truth : Case, chart : Case]

\* A user who waits has one request in flight.
OneAsked == under.patient => Len(asked) <= 1

\* Under an open modal, what is in flight is what the modal asked for.
ModalOwns ==
  under.patient /\ modal.open =>
    IF asked = <<>>
    THEN /\ modal.subtitle = modal.title /\ modal.chart = modal.title
         /\ {modal.evidence, modal.truth} \subseteq {modal.title, Nothing}
    ELSE /\ asked[1].stage = "case" /\ asked[1].of = modal.title
         /\ modal.evidence = Nothing /\ modal.truth = Nothing

\* The breadcrumb is a way, and what is asked for next continues it or goes
\* back on it; the trail has been emptied when the root is asked for.
OnTheWay ==
  under.patient /\ ~under.errors =>
    /\ IF nav = <<>> THEN title = Nothing ELSE IsWay(nav) /\ title = Last(nav)
    /\ IF trail = nav
       THEN asked # <<>> /\ asked[1].stage = "node" =>
              \/ nav = <<>> /\ asked[1].of = Root
              \/ nav # <<>> /\ Contains(nav, asked[1].of)
              \/ nav # <<>> /\ asked[1].of # Root /\ Parent[asked[1].of] = Last(nav)
       ELSE trail = <<>> /\ asked # <<>> /\ asked[1].stage = "node" /\ asked[1].of = Root

\* How far a handler of the explorer has come.
Reached(stage) == CASE stage = "node" -> 1 [] stage = "series" -> 2 [] stage = "cases" -> 3 [] OTHER -> 4

\* The request at p is the last click's: nobody will paint over it, since all
\* other handlers have come further, or as far and are answered before.
Leading(p) ==
  /\ asked[p].of = target /\ Reached(asked[p].stage) <= 3
  /\ \A j \in DOMAIN asked :
       /\ j < p => Reached(asked[j].stage) >= Reached(asked[p].stage)
       /\ j > p => Reached(asked[j].stage) > Reached(asked[p].stage)
  /\ Reached(asked[p].stage) >= 2 => title = target /\ Last(nav) = target
  /\ Reached(asked[p].stage) >= 3 => chart = target

AllShown ==
  /\ \A j \in DOMAIN asked : Reached(asked[j].stage) = 4
  /\ title = target /\ chart = target /\ cases = target /\ Last(nav) = target

LastClickLeads ==
  under.ordered /\ ~failing /\ target # Nothing => AllShown \/ \E p \in DOMAIN asked : Leading(p)

ExplorerInv == ExplorerTypeOK /\ OneAsked /\ ModalOwns /\ OnTheWay /\ LastClickLeads

(***************************************************************************)
(* The dashboard.                                                          *)
(***************************************************************************)
Known == Scenario \cup {NoScenario}

Stages == {"scenarios", "root", "summary", "series", "map", "health", "balance", "asset", "thermal", "chosen"}

Requested == [stage : Stages, scenario : Scenario, root : Known, kept : Known,
              of : (SUBSET Known) \cup {NoScenario}]

DashboardTypeOK ==
  /\ under \in Condition
  /\ scenarioId \in Scenario /\ rootId \in Known /\ summary \in Known
  /\ currentView \in View /\ unit \in Known
  /\ DOMAIN painted = Panel
  /\ pending \in Seq(Requested)
  /\ failed \in BOOLEAN
  /\ under.patient => Len(pending) <= 1

\* What is asked of a transformer is asked of the one the select lists.
UnitAsked ==
  \A j \in DOMAIN pending :
    /\ pending[j].stage = "health" => pending[j].root # NoScenario
    /\ pending[j].stage \in {"balance", "chosen"} => pending[j].root = unit /\ unit # NoScenario

\* How far a load has come; a handler of a view is beyond.
Loading(stage) ==
  CASE stage = "scenarios" -> 1 [] stage = "root" -> 2 [] stage = "summary" -> 3 [] OTHER -> 4

\* The request at p is the load of the selected scenario.  Older loads are
\* ahead of it, and so is, after its first answer, every request that was made
\* for an older scenario, and after its second what came of these.
LoadLeads(p) ==
  LET turn(j) == Loading(pending[j].stage) IN
  /\ pending[p].scenario = scenarioId /\ turn(p) <= 3
  /\ \A j \in DOMAIN pending :
       /\ j < p => turn(j) >= turn(p)
       /\ j > p => turn(j) > turn(p)
       /\ turn(j) = 4 => pending[j].scenario = scenarioId \/ (turn(p) = 1 /\ j < p)
       /\ pending[j].stage = "thermal" =>
            pending[j].root = scenarioId \/ turn(p) = 1 \/ (turn(p) = 2 /\ j < p)
  /\ turn(p) >= 2 => scenarioConfig = scenarioId
  /\ turn(p) >= 3 => rootId = scenarioId

\* The executive view: the last request for the series is of the selection.
SeriesLeads(p) ==
  /\ pending[p].stage = "series" /\ pending[p].root = scenarioId /\ pending[p].kept = scenarioId
  /\ \A j \in DOMAIN pending : pending[j].stage = "series" => j <= p

ExecutiveFresh ==
  /\ painted["kpis"] \subseteq {scenarioId}
  /\ \/ \E p \in DOMAIN pending : SeriesLeads(p)
     \/ /\ \A j \in DOMAIN pending : pending[j].stage # "series"
        /\ painted["series"] \subseteq {scenarioId} /\ painted["causes"] \subseteq {scenarioId}

\* The network view: how far a handler has come, and the one that is behind
\* all others and is of the selection.
Drawing(stage) ==
  CASE stage = "map" -> 1 [] stage = "health" -> 2 [] stage = "balance" -> 3 [] stage = "asset" -> 4
    [] OTHER -> 5

NetworkLeads(p) ==
  LET turn(j) == Drawing(pending[j].stage) IN
  /\ turn(p) <= 4
  /\ \A j \in DOMAIN pending : /\ j < p => turn(j) >= turn(p)
                               /\ j > p => turn(j) > turn(p)
  /\ turn(p) <= 2 => pending[p].root = scenarioId /\ pending[p].kept = scenarioId
  /\ turn(p) \in {2, 3} => pending[p].of = {scenarioId}
  /\ turn(p) >= 3 => painted["netKpis"] \subseteq {scenarioId}
  /\ turn(p) >= 4 => painted["balance"] \subseteq {scenarioId} /\ painted["map"] \subseteq {scenarioId}

NetworkShown ==
  \/ \E p \in DOMAIN pending : NetworkLeads(p)
  \/ /\ \A j \in DOMAIN pending : Drawing(pending[j].stage) = 5
     /\ FiguresOf(scenarioId, "network")

NetworkFresh == unit \in {NoScenario, scenarioId} => NetworkShown

\* The selection is loaded, and what is still in flight is of it.
Loaded ==
  /\ rootId = scenarioId /\ summary = scenarioId /\ scenarioConfig = scenarioId
  /\ header = <<scenarioId, scenarioId>>
  /\ \A j \in DOMAIN pending :
       /\ Loading(pending[j].stage) = 4 /\ pending[j].scenario = scenarioId
       /\ pending[j].stage = "thermal" => pending[j].root = scenarioId
  /\ currentView = "executive" => ExecutiveFresh
  /\ currentView = "network" => NetworkFresh

SelectionLeads ==
  (under.ordered \/ under.patient) /\ ~failed => Loaded \/ \E p \in DOMAIN pending : LoadLeads(p)

DashboardInv == DashboardTypeOK /\ UnitAsked /\ SelectionLeads

(***************************************************************************)
(* Sequences.                                                              *)
(***************************************************************************)
Without(s, i) == SubSeq(s, 1, i - 1) \o SubSeq(s, i + 1, Len(s))

LEMMA Removed ==
  ASSUME NEW S, NEW s \in Seq(S), NEW i \in 1..Len(s)
  PROVE  /\ Without(s, i) \in Seq(S)
         /\ Len(Without(s, i)) = Len(s) - 1
         /\ \A k \in 1..(Len(s) - 1) : Without(s, i)[k] = IF k < i THEN s[k] ELSE s[k + 1]
<1> DEFINE a == SubSeq(s, 1, i - 1)
           b == SubSeq(s, i + 1, Len(s))
<1>1. Len(s) \in Nat /\ i \in Nat /\ 1 <= i /\ i <= Len(s)
  OBVIOUS
<1>2. /\ a \in Seq(S) /\ Len(a) = i - 1
      /\ \A k \in 1..(i - 1) : a[k] = s[k]
  BY <1>1
<1>3. /\ b \in Seq(S) /\ Len(b) = Len(s) - i
      /\ \A k \in 1..(Len(s) - i) : b[k] = s[k + i]
  <2>1. i + 1 \in Nat /\ 1 <= i + 1 /\ i + 1 <= Len(s) + 1
    BY <1>1
  <2>2. \A k \in (i + 1)..Len(s) : s[k] \in S
    BY <1>1
  <2>3. /\ b \in Seq(S)
        /\ Len(b) = IF i + 1 <= Len(s) THEN Len(s) - (i + 1) + 1 ELSE 0
        /\ \A k \in 1..(Len(s) - (i + 1) + 1) : b[k] = s[(i + 1) + k - 1]
    <3>1. i + 1 \in Int /\ Len(s) \in Int
      BY <1>1
    <3>2. Len(s) - (i + 1) + 1 = Len(s) - i
      BY <1>1
    <3> QED BY <2>2, <3>1, SubSeqProperties
  <2>4. Len(b) = Len(s) - i /\ Len(s) - (i + 1) + 1 = Len(s) - i
    BY <1>1, <2>1, <2>3
  <2>5. \A k \in 1..(Len(s) - i) : (i + 1) + k - 1 = k + i
    BY <1>1
  <2> QED BY <2>3, <2>4, <2>5
<1> HIDE DEF a, b
<1>4. a \o b \in Seq(S) /\ Len(a \o b) = Len(s) - 1
  <2>1. a \o b \in Seq(S) /\ Len(a \o b) = Len(a) + Len(b)
    BY <1>2, <1>3, ConcatProperties
  <2> QED BY <1>1, <1>2, <1>3, <2>1
<1>5. ASSUME NEW k \in 1..(Len(s) - 1) PROVE (a \o b)[k] = IF k < i THEN s[k] ELSE s[k + 1]
  <2>1. (a \o b)[k] = IF k <= i - 1 THEN a[k] ELSE b[k - (i - 1)]
    BY <1>1, <1>2, <1>3
  <2>2. CASE k < i
    BY <1>1, <1>2, <2>1, <2>2
  <2>3. CASE ~(k < i)
    <3>1. k - (i - 1) \in 1..(Len(s) - i) /\ (k - (i - 1)) + i = k + 1
      BY <1>1, <2>3
    <3> QED BY <1>1, <1>3, <2>1, <2>3, <3>1
  <2> QED BY <2>2, <2>3
<1> QED BY <1>4, <1>5 DEF Without, a, b

\* The first element is taken and another one put at the end.
LEMMA TakenFirst ==
  ASSUME NEW S, NEW s \in Seq(S), s # <<>>, NEW r \in S
  PROVE  /\ Append(Without(s, 1), r) \in Seq(S)
         /\ Len(Append(Without(s, 1), r)) = Len(s)
         /\ \A k \in 1..(Len(s) - 1) : Append(Without(s, 1), r)[k] = s[k + 1]
         /\ Append(Without(s, 1), r)[Len(s)] = r
<1>1. 1 \in 1..Len(s) /\ Len(s) \in Nat
  OBVIOUS
<1>2. /\ Without(s, 1) \in Seq(S) /\ Len(Without(s, 1)) = Len(s) - 1
      /\ \A k \in 1..(Len(s) - 1) : Without(s, 1)[k] = s[k + 1]
  BY <1>1, Removed
<1> QED BY <1>1, <1>2

(***************************************************************************)
(* Paths.                                                                  *)
(***************************************************************************)

\* Path is what its definition says.
LEMMA PathUnfolds ==
  ASSUME NEW n \in Node
  PROVE  E!Path[n] = IF n = Root THEN <<Root>> ELSE Append(E!Path[Parent[n]], n)
<1> DEFINE D == [Node -> Seq(Node)]
           G == [f \in D |-> [m \in Node |-> IF m = Root THEN <<Root>> ELSE Append(f[Parent[m]], m)]]
           b == [m \in Node |-> <<Root>>]
           Unfolds(f) == f = [m \in Node |-> IF m = Root THEN <<Root>> ELSE Append(f[Parent[m]], m)]
<1>1. PICK depth \in [Node -> 0..Cardinality(Node)] :
        \A m \in Node \ {Root} : depth[m] = depth[Parent[m]] + 1
  BY TreeAssumption
<1>2. G \in [D -> D] /\ b \in D
  BY TreeAssumption
<1>3. PICK g \in [Nat -> D] : Iterates(g, G, b)
  <2> HIDE DEF G, b, D
  <2> QED BY <1>2, IterationExists
<1> DEFINE path == [m \in Node |-> g[depth[m] + 1][m]]
<1>4. \A m \in Node : depth[m] \in Nat
  BY <1>1
<1>5. \A k \in Nat : g[k] \in D /\ g[k + 1] = [m \in Node |-> IF m = Root THEN <<Root>> ELSE Append(g[k][Parent[m]], m)]
  BY <1>3 DEF Iterates
<1>6. \A m \in Node : path[m] = IF m = Root THEN <<Root>> ELSE Append(path[Parent[m]], m)
  <2> TAKE m \in Node
  <2>1. path[m] = IF m = Root THEN <<Root>> ELSE Append(g[depth[m]][Parent[m]], m)
    BY <1>4, <1>5
  <2>2. m # Root => Parent[m] \in Node /\ depth[m] = depth[Parent[m]] + 1
    BY <1>1, TreeAssumption
  <2> QED BY <2>1, <2>2
<1>7. Unfolds(path)
  <2> HIDE DEF path
  <2>1. path = [m \in Node |-> path[m]]
    BY DEF path
  <2> QED BY <1>6, <2>1
<1>8. E!Path = CHOOSE f : Unfolds(f)
  BY DEF E!Path
<1>9. Unfolds(E!Path)
  <2> HIDE DEF path, Unfolds
  <2> QED BY <1>7, <1>8
<1> QED BY <1>9

\* A way to a node is the path to it.
LEMMA WayIsPath ==
  ASSUME NEW p \in Seq(Node), IsWay(p)
  PROVE  p = E!Path[p[Len(p)]]
<1> DEFINE Up(k) == SubSeq(p, 1, k)
           F == {k \in 1..Len(p) : Up(k) # E!Path[p[k]]}
<1>1. Len(p) \in 1..Len(p) /\ Len(p) \in Nat /\ \A k \in 1..Len(p) : p[k] \in Node
  BY DEF IsWay
<1>2. F = {}
  <2> SUFFICES ASSUME F # {} PROVE FALSE
    OBVIOUS
  <2>1. PICK x \in F : \A y \in F : x <= y
    <3> HIDE DEF F
    <3>1. F \in SUBSET Nat
      BY DEF F
    <3> QED BY <3>1, LeastNatural
  <2>2. x \in 1..Len(p) /\ Up(x) # E!Path[p[x]]
    OBVIOUS
  <2>3. CASE x = 1
    <3>1. Up(1) = <<Root>>
      <4>1. Up(1) = <<p[1]>>
        <5>1. 1 \in 1..Len(p) /\ Up(1) \in Seq(Node) /\ Len(Up(1)) = 1 /\ Up(1)[1] = p[1]
          <6>1. 1 \in Int /\ 1 - 1 + 1 = 1 /\ 1 + 1 - 1 = 1 /\ 1 \in 1..1
            OBVIOUS
          <6>2. \A i \in 1..1 : p[i] \in Node
            BY <1>1
          <6> QED BY <1>1, <6>1, <6>2, SubSeqProperties
        <5> HIDE DEF Up
        <5>2. <<p[1]>> \in Seq(Node) /\ Len(<<p[1]>>) = 1 /\ <<p[1]>>[1] = p[1]
          BY <1>1, <5>1
        <5> QED BY <5>1, <5>2, SeqEqual
      <4> QED BY <4>1 DEF IsWay
    <3>2. E!Path[p[1]] = <<Root>>
      BY PathUnfolds, TreeAssumption DEF IsWay
    <3> QED BY <2>2, <2>3, <3>1, <3>2
  <2>4. CASE x # 1
    <3>1. x - 1 \in 1..Len(p) /\ x \in 2..Len(p)
      BY <2>2, <2>4
    <3>2. Up(x - 1) = E!Path[p[x - 1]]
      BY <2>1, <3>1
    <3>3. Up(x) = Append(Up(x - 1), p[x])
      BY <3>1
    <3>4. p[x] # Root /\ Parent[p[x]] = p[x - 1]
      BY <3>1 DEF IsWay
    <3>5. E!Path[p[x]] = Append(E!Path[p[x - 1]], p[x])
      BY <1>1, <2>2, <3>4, PathUnfolds
    <3> QED BY <2>2, <3>2, <3>3, <3>5
  <2> QED BY <2>3, <2>4
<1>3. Up(Len(p)) = p
  BY <1>1
<1> QED BY <1>1, <1>2, <1>3

(***************************************************************************)
(* The explorer: types.                                                    *)
(***************************************************************************)

\* The trail to n ends in n; it is cut back to n or goes one further.
LEMMA TrailToEnds ==
  ASSUME trail \in Seq(Node), NEW n \in Node
  PROVE  /\ E!TrailTo(n) \in Seq(Node) /\ E!TrailTo(n) # <<>> /\ E!Last(E!TrailTo(n)) = n
         /\ \/ ~E!Contains(trail, n) /\ E!TrailTo(n) = Append(trail, n)
            \/ \E k \in 1..Len(trail) : trail[k] = n /\ E!TrailTo(n) = SubSeq(trail, 1, k)
<1>1. CASE ~E!Contains(trail, n)
  <2>1. E!TrailTo(n) = Append(trail, n)
    BY <1>1 DEF E!TrailTo
  <2>2. Append(trail, n) \in Seq(Node) /\ Len(Append(trail, n)) = Len(trail) + 1
        /\ Append(trail, n)[Len(trail) + 1] = n
    OBVIOUS
  <2> QED BY <1>1, <2>1, <2>2 DEF E!Last
<1>2. CASE E!Contains(trail, n)
  <2> DEFINE I == {i \in 1..Len(trail) : trail[i] = n}
  <2>1. I # {} /\ I \in SUBSET Nat
    BY <1>2 DEF E!Contains
  <2>2. PICK k \in I : \A y \in I : k <= y
    <3> HIDE DEF I
    <3> QED BY <2>1, LeastNatural
  <2>3. E!SelectInSeq(trail, LAMBDA b : b = n) = E!Min(I)
    BY <2>1 DEF E!SelectInSeq
  <2>4. E!Min(I) \in I
    <3> HIDE DEF I
    <3> QED BY <2>2 DEF E!Min
  <2> DEFINE m == E!Min(I)
  <2>5. m \in 1..Len(trail) /\ trail[m] = n
    BY <2>4
  <2>6. E!TrailTo(n) = SubSeq(trail, 1, m)
    BY <1>2, <2>3 DEF E!TrailTo
  <2> HIDE DEF m
  <2>7. SubSeq(trail, 1, m) \in Seq(Node) /\ Len(SubSeq(trail, 1, m)) = m /\ SubSeq(trail, 1, m)[m] = n
    <3>1. 1 \in Int /\ m \in Int /\ 1 <= m /\ m - 1 + 1 = m /\ m \in 1..m /\ 1 + m - 1 = m
      BY <2>5
    <3>2. \A i \in 1..m : trail[i] \in Node
      BY <2>5
    <3> QED BY <2>5, <3>1, <3>2, SubSeqProperties
  <2>8. SubSeq(trail, 1, m) # <<>>
    BY <2>5, <2>7
  <2> QED BY <2>5, <2>6, <2>7, <2>8 DEF E!Last
<1> QED BY <1>1, <1>2

\* What the actions do to the requests in flight.
LEMMA VisitAsks ==
  ASSUME ExplorerTypeOK, E!OpenExplorer \/ \E m \in Node : E!ClickChild(m) \/ E!ClickCrumb(m)
  PROVE  \E n \in Node :
           /\ asked' = Append(asked, [stage |-> "node", of |-> n]) /\ target' = n /\ ~failing'
           /\ ~modal.open /\ UNCHANGED <<under, nav, title, chart, cases, modal>>
           /\ under.patient => asked = <<>>
           /\ \/ n = Root /\ trail' = <<>>
              \/ UNCHANGED trail /\ title # Nothing /\ n # Root /\ Parent[n] = title
              \/ UNCHANGED trail /\ E!Contains(nav, n)
BY TreeAssumption
   DEF E!OpenExplorer, E!ClickChild, E!ClickCrumb, E!Visit, E!Click, E!Request

LEMMA OpenCaseAsks ==
  ASSUME ExplorerTypeOK, NEW c \in Connection, E!OpenCase(c)
  PROVE  /\ asked' = Append(asked, [stage |-> "case", of |-> c])
         /\ modal' = [modal EXCEPT !.open = TRUE, !.title = c, !.subtitle = Nothing,
                                   !.truth = Nothing, !.evidence = Nothing]
         /\ UNCHANGED <<under, trail, nav, title, chart, cases, target, failing>>
         /\ under.patient => asked = <<>>
BY DEF E!OpenCase, E!Click, E!Request, E!page

LEMMA ArrivalAsks ==
  ASSUME ExplorerTypeOK, NEW i \in DOMAIN asked,
         \/ E!NodeArrives(i) \/ E!SeriesArrives(i) \/ E!CasesArrive(i) \/ E!Fails(i)
         \/ \E detail, truth \in BOOLEAN : E!CaseArrives(i, detail, truth)
  PROVE  /\ i \in 1..Len(asked) /\ asked # <<>> /\ asked[i] \in Asking
         /\ under.ordered => i = 1
         /\ UNCHANGED <<under, target>>
         /\ \/ /\ asked[i].stage = "node"
               /\ trail' = E!TrailTo(asked[i].of) /\ nav' = trail' /\ title' = asked[i].of
               /\ asked' = Append(Without(asked, i), [stage |-> "series", of |-> asked[i].of])
               /\ UNCHANGED <<chart, cases, modal, failing>>
            \/ /\ asked[i].stage = "series"
               /\ chart' = asked[i].of
               /\ asked' = Append(Without(asked, i), [stage |-> "cases", of |-> asked[i].of])
               /\ UNCHANGED <<trail, nav, title, cases, modal, failing>>
            \/ /\ asked[i].stage = "cases"
               /\ cases' = asked[i].of
               /\ asked' = Without(asked, i)
               /\ UNCHANGED <<trail, nav, title, chart, modal, failing>>
            \/ /\ asked[i].stage # "case" /\ under.errors
               /\ failing' = TRUE /\ asked' = Without(asked, i)
               /\ UNCHANGED <<trail, nav, title, chart, cases, modal>>
            \/ /\ asked[i].stage = "case"
               /\ \E detail, truth \in BOOLEAN :
                    modal' = [modal EXCEPT !.subtitle = asked[i].of, !.chart = asked[i].of,
                                !.evidence = IF detail THEN asked[i].of ELSE modal.evidence,
                                !.truth = IF truth THEN asked[i].of ELSE modal.truth]
               /\ asked' = Without(asked, i)
               /\ UNCHANGED <<trail, nav, title, chart, cases, failing>>
<1>1. i \in 1..Len(asked) /\ asked # <<>> /\ asked[i] \in Asking
  BY DEF ExplorerTypeOK
<1>2. ASSUME E!NodeArrives(i)
      PROVE  /\ under.ordered => i = 1
             /\ UNCHANGED <<under, target>> /\ asked[i].stage = "node"
             /\ trail' = E!TrailTo(asked[i].of) /\ nav' = trail' /\ title' = asked[i].of
             /\ asked' = Append(Without(asked, i), [stage |-> "series", of |-> asked[i].of])
             /\ UNCHANGED <<chart, cases, modal, failing>>
  BY <1>2 DEF E!NodeArrives, E!Awaits, E!Continue, E!RemoveAt, E!Request, Without
<1>3. ASSUME E!SeriesArrives(i)
      PROVE  /\ under.ordered => i = 1
             /\ UNCHANGED <<under, target>> /\ asked[i].stage = "series"
             /\ chart' = asked[i].of
             /\ asked' = Append(Without(asked, i), [stage |-> "cases", of |-> asked[i].of])
             /\ UNCHANGED <<trail, nav, title, cases, modal, failing>>
  BY <1>3 DEF E!SeriesArrives, E!Awaits, E!Continue, E!RemoveAt, E!Request, Without
<1>4. ASSUME E!CasesArrive(i)
      PROVE  /\ under.ordered => i = 1
             /\ UNCHANGED <<under, target>> /\ asked[i].stage = "cases"
             /\ cases' = asked[i].of
             /\ asked' = Without(asked, i)
             /\ UNCHANGED <<trail, nav, title, chart, modal, failing>>
  BY <1>4 DEF E!CasesArrive, E!Awaits, E!RemoveAt, Without
<1>5. ASSUME E!Fails(i)
      PROVE  /\ under.ordered => i = 1
             /\ UNCHANGED <<under, target>> /\ asked[i].stage # "case" /\ under.errors
             /\ failing' = TRUE /\ asked' = Without(asked, i)
             /\ UNCHANGED <<trail, nav, title, chart, cases, modal>>
  BY <1>5 DEF E!Fails, E!Awaits, E!RemoveAt, Without, E!page
<1>6. ASSUME NEW detail \in BOOLEAN, NEW truth \in BOOLEAN, E!CaseArrives(i, detail, truth)
      PROVE  /\ under.ordered => i = 1
             /\ UNCHANGED <<under, target>> /\ asked[i].stage = "case"
             /\ modal' = [modal EXCEPT !.subtitle = asked[i].of, !.chart = asked[i].of,
                             !.evidence = IF detail THEN asked[i].of ELSE modal.evidence,
                             !.truth = IF truth THEN asked[i].of ELSE modal.truth]
             /\ asked' = Without(asked, i)
             /\ UNCHANGED <<trail, nav, title, chart, cases, failing>>
  BY <1>6 DEF E!CaseArrives, E!Awaits, E!RemoveAt, Without, E!page
<1> QED BY <1>1, <1>2, <1>3, <1>4, <1>5, <1>6

(***************************************************************************)
(* The explorer: every action preserves the invariant.                     *)
(***************************************************************************)
Arrival(i) ==
  \/ E!NodeArrives(i) \/ E!SeriesArrives(i) \/ E!CasesArrive(i) \/ E!Fails(i)
  \/ \E detail, truth \in BOOLEAN : E!CaseArrives(i, detail, truth)

Visiting == E!OpenExplorer \/ \E n \in Node : E!ClickChild(n) \/ E!ClickCrumb(n)

\* The modal after each action that changes it.
LEMMA ModalOpened ==
  ASSUME ExplorerTypeOK, NEW c \in Connection,
         modal' = [modal EXCEPT !.open = TRUE, !.title = c, !.subtitle = Nothing,
                                !.truth = Nothing, !.evidence = Nothing]
  PROVE  modal' = [open |-> TRUE, title |-> c, subtitle |-> Nothing,
                   evidence |-> Nothing, truth |-> Nothing, chart |-> modal.chart]
BY DEF ExplorerTypeOK

LEMMA ModalFilled ==
  ASSUME ExplorerTypeOK, NEW c, NEW e, NEW f,
         modal' = [modal EXCEPT !.subtitle = c, !.chart = c, !.evidence = e, !.truth = f]
  PROVE  modal' = [open |-> modal.open, title |-> modal.title, subtitle |-> c,
                   evidence |-> e, truth |-> f, chart |-> c]
BY DEF ExplorerTypeOK

\* The types.
LEMMA ExplorerTypeStep ==
  ASSUME ExplorerTypeOK, E!Next
  PROVE  ExplorerTypeOK'
<1>1. CASE Visiting
  <2>1. PICK n \in Node :
          /\ asked' = Append(asked, [stage |-> "node", of |-> n])
          /\ UNCHANGED <<nav, modal>> /\ (UNCHANGED trail \/ trail' = <<>>)
    BY <1>1, VisitAsks DEF Visiting
  <2>2. [stage |-> "node", of |-> n] \in Asking
    BY DEF Asking
  <2>3. asked' \in Seq(Asking)
    BY <2>1, <2>2 DEF ExplorerTypeOK
  <2>4. trail' \in Seq(Node) /\ nav' \in Seq(Node)
    <3>1. trail \in Seq(Node) /\ nav \in Seq(Node) /\ nav' = nav
      BY <2>1 DEF ExplorerTypeOK
    <3>2. CASE trail' = trail
      BY <3>1, <3>2
    <3>3. CASE trail' = <<>>
      BY <3>1, <3>3
    <3> QED BY <2>1, <3>2, <3>3
  <2>5. modal' = modal
    BY <2>1
  <2> QED BY <2>3, <2>4, <2>5 DEF ExplorerTypeOK, Case
<1>2. ASSUME NEW c \in Connection, E!OpenCase(c) PROVE ExplorerTypeOK'
  <2>1. /\ asked' = Append(asked, [stage |-> "case", of |-> c])
        /\ modal' = [modal EXCEPT !.open = TRUE, !.title = c, !.subtitle = Nothing,
                                  !.truth = Nothing, !.evidence = Nothing]
        /\ UNCHANGED <<trail, nav>>
    BY <1>2, OpenCaseAsks
  <2>2. [stage |-> "case", of |-> c] \in Asking
    BY DEF Asking
  <2>3. modal' = [open |-> TRUE, title |-> c, subtitle |-> Nothing,
                  evidence |-> Nothing, truth |-> Nothing, chart |-> modal.chart]
    BY <2>1, ModalOpened
  <2>4. asked' \in Seq(Asking)
    BY <2>1, <2>2 DEF ExplorerTypeOK
  <2>5. modal' \in [open : BOOLEAN, title : Case, subtitle : Case, evidence : Case, truth : Case, chart : Case]
    BY <2>3 DEF ExplorerTypeOK, Case
  <2>6. trail' = trail /\ nav' = nav
    BY <2>1
  <2> QED BY <2>4, <2>5, <2>6 DEF ExplorerTypeOK, Case
<1>3. CASE E!CloseModal
  <2>1. modal' = [modal EXCEPT !.open = FALSE]
    BY <1>3 DEF E!CloseModal
  <2>2. UNCHANGED <<trail, nav, asked>>
    BY <1>3 DEF E!CloseModal, E!page
  <2> QED BY <2>1, <2>2 DEF ExplorerTypeOK
<1>4. ASSUME NEW i \in DOMAIN asked, Arrival(i) PROVE ExplorerTypeOK'
  <2>1. i \in 1..Len(asked) /\ asked[i] \in Asking /\ asked \in Seq(Asking)
    BY <1>4, ArrivalAsks DEF Arrival, ExplorerTypeOK
  <2>2. Without(asked, i) \in Seq(Asking)
    BY <2>1, Removed
  <2>3. /\ asked[i].stage = "node" => asked[i].of \in Node
        /\ asked[i].stage = "series" => asked[i].of \in Node
        /\ asked[i].stage = "case" => asked[i].of \in Case
    BY <2>1 DEF Asking, Case
  <2>4. CASE /\ asked[i].stage = "node" /\ trail' = E!TrailTo(asked[i].of) /\ nav' = trail'
             /\ asked' = Append(Without(asked, i), [stage |-> "series", of |-> asked[i].of])
             /\ UNCHANGED modal
    <3>1. [stage |-> "series", of |-> asked[i].of] \in Asking
      BY <2>3, <2>4 DEF Asking
    <3>2. trail \in Seq(Node)
      BY DEF ExplorerTypeOK
    <3>3. trail' \in Seq(Node)
      BY <2>3, <2>4, <3>2, TrailToEnds
    <3> QED BY <2>2, <2>4, <3>1, <3>3 DEF ExplorerTypeOK
  <2>5. CASE /\ asked[i].stage = "series"
             /\ asked' = Append(Without(asked, i), [stage |-> "cases", of |-> asked[i].of])
             /\ UNCHANGED <<trail, nav, modal>>
    <3>1. [stage |-> "cases", of |-> asked[i].of] \in Asking
      BY <2>3, <2>5 DEF Asking
    <3> QED BY <2>2, <2>5, <3>1 DEF ExplorerTypeOK
  <2>6. CASE asked' = Without(asked, i) /\ UNCHANGED <<trail, nav, modal>>
    BY <2>2, <2>6 DEF ExplorerTypeOK
  <2>7. CASE /\ asked[i].stage = "case" /\ asked' = Without(asked, i) /\ UNCHANGED <<trail, nav>>
             /\ \E detail, truth \in BOOLEAN :
                  modal' = [modal EXCEPT !.subtitle = asked[i].of, !.chart = asked[i].of,
                              !.evidence = IF detail THEN asked[i].of ELSE modal.evidence,
                              !.truth = IF truth THEN asked[i].of ELSE modal.truth]
    <3>1. PICK detail \in BOOLEAN, truth \in BOOLEAN :
            modal' = [modal EXCEPT !.subtitle = asked[i].of, !.chart = asked[i].of,
                        !.evidence = IF detail THEN asked[i].of ELSE modal.evidence,
                        !.truth = IF truth THEN asked[i].of ELSE modal.truth]
      BY <2>7
    <3>2. modal' = [open |-> modal.open, title |-> modal.title, subtitle |-> asked[i].of,
                    evidence |-> IF detail THEN asked[i].of ELSE modal.evidence,
                    truth |-> IF truth THEN asked[i].of ELSE modal.truth, chart |-> asked[i].of]
      BY <3>1, ModalFilled
    <3> QED BY <2>2, <2>3, <2>7, <3>2 DEF ExplorerTypeOK
  <2> QED BY <1>4, <2>4, <2>5, <2>6, <2>7, ArrivalAsks DEF Arrival
<1> QED BY <1>1, <1>2, <1>3, <1>4 DEF E!Next, Visiting, Arrival

\* A user who waits has one request in flight.
LEMMA OneAskedStep ==
  ASSUME ExplorerTypeOK, OneAsked, E!Next
  PROVE  OneAsked'
<1>1. asked \in Seq(Asking) /\ Len(asked) \in Nat
  BY DEF ExplorerTypeOK
<1>2. CASE Visiting
  <2>1. /\ \E r : asked' = Append(asked, r)
        /\ UNCHANGED under /\ (under.patient => asked = <<>>)
    BY <1>2, VisitAsks DEF Visiting
  <2> QED BY <1>1, <2>1 DEF OneAsked
<1>3. ASSUME NEW c \in Connection, E!OpenCase(c) PROVE OneAsked'
  <2>1. /\ \E r : asked' = Append(asked, r)
        /\ UNCHANGED under /\ (under.patient => asked = <<>>)
    BY <1>3, OpenCaseAsks
  <2> QED BY <1>1, <2>1 DEF OneAsked
<1>4. CASE E!CloseModal
  BY <1>4 DEF E!CloseModal, OneAsked
<1>5. ASSUME NEW i \in DOMAIN asked, Arrival(i) PROVE OneAsked'
  <2>1. /\ i \in 1..Len(asked) /\ UNCHANGED under
        /\ asked' = Without(asked, i) \/ \E r : asked' = Append(Without(asked, i), r)
    BY <1>5, ArrivalAsks DEF Arrival
  <2>2. Without(asked, i) \in Seq(Asking) /\ Len(Without(asked, i)) = Len(asked) - 1
    BY <1>1, <2>1, Removed
  <2>3. Len(asked') <= Len(asked)
    BY <1>1, <2>1, <2>2
  <2>4. Len(asked') \in Nat
    BY <2>1, <2>2
  <2> QED BY <1>1, <2>1, <2>3, <2>4 DEF OneAsked
<1> QED BY <1>2, <1>3, <1>4, <1>5 DEF E!Next, Visiting, Arrival

\* One request in flight, and it is answered: it goes on alone or is gone.
LEMMA OnlyOne ==
  ASSUME ExplorerTypeOK, OneAsked, under.patient, NEW i \in 1..Len(asked)
  PROVE  /\ i = 1 /\ Len(asked) = 1 /\ Without(asked, i) = <<>>
         /\ \A r : Append(Without(asked, i), r) = <<r>>
<1>1. asked \in Seq(Asking)
  BY DEF ExplorerTypeOK
<1>2. Len(asked) \in Nat /\ Len(asked) <= 1
  BY <1>1 DEF OneAsked
<1>3. i = 1 /\ Len(asked) = 1
  <2> DEFINE n == Len(asked)
  <2>1. n \in Nat /\ n <= 1 /\ i \in 1..n
    BY <1>2
  <2> HIDE DEF n
  <2>2. i = 1 /\ n = 1
    BY <2>1
  <2> QED BY <2>2 DEF n
<1>4. Without(asked, i) \in Seq(Asking) /\ Len(Without(asked, i)) = 0
  <2>1. Without(asked, i) \in Seq(Asking) /\ Len(Without(asked, i)) = Len(asked) - 1
    BY <1>1, Removed
  <2> QED BY <1>3, <2>1
<1>5. Without(asked, i) = <<>>
  BY <1>4
<1>6. \A r : Append(<<>>, r) = <<r>>
  OBVIOUS
<1> QED BY <1>3, <1>5, <1>6

\* Under an open modal, what is in flight is what the modal asked for.
LEMMA ModalOwnsStep ==
  ASSUME ExplorerTypeOK, OneAsked, ModalOwns, E!Next
  PROVE  ModalOwns'
<1>1. asked \in Seq(Asking)
  BY DEF ExplorerTypeOK
<1>2. CASE Visiting
  <2>1. ~modal.open /\ modal' = modal
    BY <1>2, VisitAsks DEF Visiting
  <2> QED BY <2>1 DEF ModalOwns
<1>3. ASSUME NEW c \in Connection, E!OpenCase(c) PROVE ModalOwns'
  <2>1. /\ asked' = Append(asked, [stage |-> "case", of |-> c])
        /\ modal' = [modal EXCEPT !.open = TRUE, !.title = c, !.subtitle = Nothing,
                                  !.truth = Nothing, !.evidence = Nothing]
        /\ under' = under /\ (under.patient => asked = <<>>)
    BY <1>3, OpenCaseAsks
  <2>2. modal' = [open |-> TRUE, title |-> c, subtitle |-> Nothing,
                  evidence |-> Nothing, truth |-> Nothing, chart |-> modal.chart]
    BY <2>1, ModalOpened
  <2>3. CASE under.patient
    <3>1. asked' = <<[stage |-> "case", of |-> c]>>
      BY <2>1, <2>3
    <3>2. asked' # <<>> /\ asked'[1].stage = "case" /\ asked'[1].of = c
      BY <3>1
    <3> QED BY <2>2, <3>2 DEF ModalOwns
  <2> QED BY <2>1, <2>3 DEF ModalOwns
<1>4. CASE E!CloseModal
  <2>1. modal' = [modal EXCEPT !.open = FALSE]
    BY <1>4 DEF E!CloseModal
  <2>2. modal'.open = FALSE
    BY <2>1 DEF ExplorerTypeOK
  <2> QED BY <2>2 DEF ModalOwns
<1>5. ASSUME NEW i \in DOMAIN asked, Arrival(i), under.patient PROVE ModalOwns'
  <2>1. i \in 1..Len(asked) /\ asked # <<>>
    BY <1>5, ArrivalAsks DEF Arrival
  <2>2. i = 1 /\ Without(asked, i) = <<>>
    BY <1>5, <2>1, OnlyOne
  <2>3. CASE asked[i].stage # "case" /\ UNCHANGED <<under, modal>>
    BY <1>5, <2>1, <2>2, <2>3 DEF ModalOwns
  <2>4. CASE /\ asked[i].stage = "case" /\ asked' = Without(asked, i)
             /\ \E detail, truth \in BOOLEAN :
                  modal' = [modal EXCEPT !.subtitle = asked[i].of, !.chart = asked[i].of,
                              !.evidence = IF detail THEN asked[i].of ELSE modal.evidence,
                              !.truth = IF truth THEN asked[i].of ELSE modal.truth]
    <3>1. PICK detail \in BOOLEAN, truth \in BOOLEAN :
            modal' = [modal EXCEPT !.subtitle = asked[i].of, !.chart = asked[i].of,
                        !.evidence = IF detail THEN asked[i].of ELSE modal.evidence,
                        !.truth = IF truth THEN asked[i].of ELSE modal.truth]
      BY <2>4
    <3>2. modal' = [open |-> modal.open, title |-> modal.title, subtitle |-> asked[i].of,
                    evidence |-> IF detail THEN asked[i].of ELSE modal.evidence,
                    truth |-> IF truth THEN asked[i].of ELSE modal.truth, chart |-> asked[i].of]
      BY <3>1, ModalFilled
    <3>3. asked' = <<>>
      BY <2>2, <2>4
    <3>4. modal.open => asked[i].of = modal.title /\ modal.evidence = Nothing /\ modal.truth = Nothing
      BY <1>5, <2>1, <2>2 DEF ModalOwns
    <3>5. /\ modal'.open = modal.open /\ modal'.title = modal.title
          /\ modal'.subtitle = asked[i].of /\ modal'.chart = asked[i].of
          /\ modal'.evidence = IF detail THEN asked[i].of ELSE modal.evidence
          /\ modal'.truth = IF truth THEN asked[i].of ELSE modal.truth
      BY <3>2
    <3>6. modal.open => {modal'.evidence, modal'.truth} \subseteq {modal'.title, Nothing}
      BY <3>4, <3>5
    <3> QED BY <3>3, <3>4, <3>5, <3>6 DEF ModalOwns
  <2>5. \/ asked[i].stage # "case" /\ UNCHANGED <<under, modal>>
        \/ /\ asked[i].stage = "case" /\ asked' = Without(asked, i)
           /\ \E detail, truth \in BOOLEAN :
                modal' = [modal EXCEPT !.subtitle = asked[i].of, !.chart = asked[i].of,
                            !.evidence = IF detail THEN asked[i].of ELSE modal.evidence,
                            !.truth = IF truth THEN asked[i].of ELSE modal.truth]
    BY <1>5, ArrivalAsks DEF Arrival
  <2> QED BY <2>3, <2>4, <2>5
<1>6. ASSUME NEW i \in DOMAIN asked, Arrival(i) PROVE under' = under
  BY <1>6, ArrivalAsks DEF Arrival
<1>7. ASSUME NEW i \in DOMAIN asked, Arrival(i) PROVE ModalOwns'
  BY <1>5, <1>6, <1>7 DEF ModalOwns
<1> QED BY <1>2, <1>3, <1>4, <1>7 DEF E!Next, Visiting, Arrival

\* A way cut back is a way, and so is one that goes on to a child.
LEMMA WayGoesOn ==
  ASSUME trail \in Seq(Node), NEW n \in Node,
         \/ trail = <<>> /\ n = Root
         \/ /\ IsWay(trail)
            /\ E!Contains(trail, n) \/ (n # Root /\ Parent[n] = trail[Len(trail)])
  PROVE  IsWay(E!TrailTo(n))
<1> DEFINE to == E!TrailTo(n)
<1>1. CASE ~E!Contains(trail, n) /\ to = Append(trail, n)
  <2>1. CASE trail = <<>> /\ n = Root
    <3>1. to = <<Root>>
      BY <1>1, <2>1
    <3> QED BY <3>1 DEF IsWay
  <2>2. CASE IsWay(trail) /\ n # Root /\ Parent[n] = trail[Len(trail)]
    <3>1. /\ Len(trail) \in Nat /\ Len(trail) >= 1 /\ Len(Append(trail, n)) = Len(trail) + 1
          /\ Append(trail, n)[Len(trail) + 1] = n
          /\ \A k \in 1..Len(trail) : Append(trail, n)[k] = trail[k]
      BY <2>2 DEF IsWay
    <3>2. ASSUME NEW k \in 2..(Len(trail) + 1)
          PROVE  Append(trail, n)[k] # Root /\ Parent[Append(trail, n)[k]] = Append(trail, n)[k - 1]
      <4>1. CASE k = Len(trail) + 1
        BY <2>2, <3>1, <4>1
      <4>2. CASE k # Len(trail) + 1
        <5>1. k \in 2..Len(trail) /\ k - 1 \in 1..Len(trail) /\ k \in 1..Len(trail)
          BY <3>1, <4>2
        <5> QED BY <2>2, <3>1, <5>1 DEF IsWay
      <4> QED BY <4>1, <4>2
    <3>3. Append(trail, n) # <<>> /\ Append(trail, n)[1] = Root
      BY <2>2, <3>1 DEF IsWay
    <3> QED BY <1>1, <3>1, <3>2, <3>3 DEF IsWay
  <2> QED BY <1>1, <2>1, <2>2
<1>2. ASSUME NEW k \in 1..Len(trail), trail[k] = n, to = SubSeq(trail, 1, k) PROVE IsWay(to)
  <2>1. IsWay(trail) /\ Len(trail) \in Nat
    BY <1>2
  <2>2. /\ to \in Seq(Node) /\ Len(to) = k
        /\ \A m \in 1..k : to[m] = trail[m]
    <3>1. \A m \in 1..k : trail[m] \in Node
      BY <2>1
    <3>2. 1 \in Int /\ k \in Int /\ 1 <= k /\ k - 1 + 1 = k
      BY <2>1
    <3>3. \A m \in 1..k : 1 + m - 1 = m
      BY <2>1
    <3> QED BY <1>2, <3>1, <3>2, <3>3, SubSeqProperties
  <2>3. to # <<>> /\ to[1] = Root
    BY <2>1, <2>2 DEF IsWay
  <2>4. ASSUME NEW m \in 2..k PROVE to[m] # Root /\ Parent[to[m]] = to[m - 1]
    <3>1. m \in 2..Len(trail) /\ m \in 1..k /\ m - 1 \in 1..k
      BY <2>1
    <3> QED BY <2>1, <2>2, <3>1 DEF IsWay
  <2> QED BY <2>2, <2>3, <2>4 DEF IsWay
<1>3. \/ ~E!Contains(trail, n) /\ to = Append(trail, n)
      \/ \E k \in 1..Len(trail) : trail[k] = n /\ to = SubSeq(trail, 1, k)
  BY TrailToEnds
<1> QED BY <1>1, <1>2, <1>3

\* No step changes the conditions.
LEMMA ConditionsStay ==
  ASSUME ExplorerTypeOK, E!Next
  PROVE  under' = under
<1>1. ASSUME NEW i \in DOMAIN asked, Arrival(i) PROVE under' = under
  BY <1>1, ArrivalAsks DEF Arrival
<1>2. ASSUME NEW c \in Connection, E!OpenCase(c) PROVE under' = under
  BY <1>2, OpenCaseAsks
<1>3. Visiting => under' = under
  BY VisitAsks DEF Visiting
<1>4. E!CloseModal => under' = under
  BY DEF E!CloseModal
<1> QED BY <1>1, <1>2, <1>3, <1>4 DEF E!Next, Visiting, Arrival

\* The breadcrumb stays a way.
LEMMA OnTheWayStep ==
  ASSUME ExplorerTypeOK, OneAsked, OnTheWay, E!Next
  PROVE  OnTheWay'
<1>1. asked \in Seq(Asking) /\ trail \in Seq(Node) /\ nav \in Seq(Node)
  BY DEF ExplorerTypeOK
<1>2. under' = under
  BY ConditionsStay
<1> SUFFICES ASSUME under.patient, ~under.errors PROVE OnTheWay'
  BY <1>2 DEF OnTheWay
<1>3. /\ IF nav = <<>> THEN title = Nothing ELSE IsWay(nav) /\ title = Last(nav)
      /\ trail # nav => trail = <<>> /\ asked # <<>> /\ asked[1].stage = "node" /\ asked[1].of = Root
  BY DEF OnTheWay
<1>4. CASE Visiting
  <2>1. PICK n \in Node :
          /\ asked' = Append(asked, [stage |-> "node", of |-> n]) /\ asked = <<>>
          /\ UNCHANGED <<nav, title>>
          /\ \/ n = Root /\ trail' = <<>>
             \/ UNCHANGED trail /\ title # Nothing /\ n # Root /\ Parent[n] = title
             \/ UNCHANGED trail /\ E!Contains(nav, n)
    BY <1>4, VisitAsks DEF Visiting
  <2>2. asked' # <<>> /\ asked'[1].stage = "node" /\ asked'[1].of = n
    BY <2>1
  <2>3. trail = nav
    BY <1>3, <2>1
  <2>4. CASE n = Root /\ trail' = <<>>
    BY <1>3, <2>1, <2>2, <2>4 DEF OnTheWay, IsWay
  <2>5. CASE UNCHANGED trail /\ title # Nothing /\ n # Root /\ Parent[n] = title
    BY <1>3, <2>1, <2>2, <2>3, <2>5 DEF OnTheWay, IsWay
  <2>6. CASE UNCHANGED trail /\ E!Contains(nav, n)
    <3>1. nav # <<>> /\ Contains(nav, n)
      BY <2>6 DEF E!Contains, Contains
    <3> QED BY <1>3, <2>1, <2>2, <2>3, <2>6, <3>1 DEF OnTheWay, IsWay
  <2> QED BY <2>1, <2>4, <2>5, <2>6
<1>5. ASSUME NEW c \in Connection, E!OpenCase(c) PROVE OnTheWay'
  <2>1. /\ asked' = Append(asked, [stage |-> "case", of |-> c]) /\ asked = <<>>
        /\ UNCHANGED <<trail, nav, title>>
    BY <1>5, OpenCaseAsks
  <2>2. asked' # <<>> /\ asked'[1].stage = "case"
    BY <2>1
  <2> QED BY <1>3, <2>1, <2>2 DEF OnTheWay, IsWay
<1>6. CASE E!CloseModal
  <2>1. UNCHANGED <<under, trail, nav, title, asked>>
    BY <1>6 DEF E!CloseModal, E!page
  <2> QED BY <2>1 DEF OnTheWay, IsWay
<1>7. ASSUME NEW i \in DOMAIN asked, Arrival(i) PROVE OnTheWay'
  <2>1. i \in 1..Len(asked) /\ asked # <<>> /\ asked[i] \in Asking
    BY <1>7, ArrivalAsks DEF Arrival
  <2>2. i = 1 /\ Without(asked, i) = <<>> /\ \A r : Append(Without(asked, i), r) = <<r>>
    BY <2>1, OnlyOne
  <2>3. CASE /\ asked[i].stage # "node" /\ UNCHANGED <<trail, nav, title>>
             /\ asked' = <<>> \/ (asked' # <<>> /\ asked'[1].stage # "node")
    <3>1. trail = nav
      BY <1>3, <2>2, <2>3
    <3> QED BY <1>3, <2>3, <3>1 DEF OnTheWay, IsWay
  <2>4. CASE /\ asked[i].stage = "node"
             /\ trail' = E!TrailTo(asked[i].of) /\ nav' = trail' /\ title' = asked[i].of
             /\ asked' = Append(Without(asked, i), [stage |-> "series", of |-> asked[i].of])
    <3> DEFINE n == asked[i].of
    <3>1. n \in Node
      BY <2>1, <2>4 DEF Asking
    <3>2. \/ trail = <<>> /\ n = Root
          \/ /\ IsWay(trail)
             /\ E!Contains(trail, n) \/ (n # Root /\ Parent[n] = trail[Len(trail)])
      <4>1. CASE trail # nav
        BY <1>3, <2>2, <4>1
      <4>2. CASE trail = nav
        <5>1. \/ nav = <<>> /\ n = Root
              \/ nav # <<>> /\ Contains(nav, n)
              \/ nav # <<>> /\ n # Root /\ Parent[n] = Last(nav)
          BY <2>1, <2>2, <2>4, <4>2 DEF OnTheWay
        <5> QED BY <1>3, <4>2, <5>1 DEF Contains, E!Contains, Last
      <4> QED BY <4>1, <4>2
    <3> HIDE DEF n
    <3>3. IsWay(E!TrailTo(n))
      BY <1>1, <3>1, <3>2, WayGoesOn
    <3>4. E!TrailTo(n) # <<>> /\ E!TrailTo(n)[Len(E!TrailTo(n))] = n
      BY <1>1, <3>1, TrailToEnds DEF E!Last
    <3>5. trail' = E!TrailTo(n) /\ nav' = trail' /\ title' = n
      BY <2>4 DEF n
    <3>6. nav' # <<>> /\ title' = Last(nav') /\ IsWay(nav')
      BY <3>3, <3>4, <3>5 DEF Last
    <3>7. asked' # <<>> /\ asked'[1].stage = "series"
      BY <2>2, <2>4
    <3> QED BY <3>5, <3>6, <3>7 DEF OnTheWay, IsWay
  <2>5. \/ /\ asked[i].stage # "node" /\ UNCHANGED <<trail, nav, title>>
           /\ asked' = Without(asked, i) \/ \E m : asked' = Append(Without(asked, i), [stage |-> "cases", of |-> m])
        \/ /\ asked[i].stage = "node"
           /\ trail' = E!TrailTo(asked[i].of) /\ nav' = trail' /\ title' = asked[i].of
           /\ asked' = Append(Without(asked, i), [stage |-> "series", of |-> asked[i].of])
    BY <1>7, ArrivalAsks DEF Arrival
  <2>6. ASSUME NEW m, asked' = Append(Without(asked, i), [stage |-> "cases", of |-> m])
        PROVE  asked' # <<>> /\ asked'[1].stage # "node"
    <3>1. asked' = <<[stage |-> "cases", of |-> m]>>
      BY <2>2, <2>6
    <3> QED BY <3>1
  <2> QED BY <2>2, <2>3, <2>4, <2>5, <2>6
<1> QED BY <1>4, <1>5, <1>6, <1>7 DEF E!Next, Visiting, Arrival

\* Stages and how far they are.
LEMMA ReachedStages ==
  /\ Reached("node") = 1 /\ Reached("series") = 2 /\ Reached("cases") = 3 /\ Reached("case") = 4
  /\ \A r \in Asking : Reached(r.stage) \in 1..4
  /\ \A r \in Asking : r.stage # "case" => Reached(r.stage) <= 3 /\ r.of \in Node
  /\ \A r \in Asking : r.stage = "case" <=> Reached(r.stage) = 4
BY DEF Reached, Asking

\* The last click's request leads, or is done: a click.
LEMMA LeadsAfterClick ==
  ASSUME ExplorerTypeOK, NEW r \in Asking, asked' = Append(asked, r),
         \/ r.stage = "node" /\ target' = r.of
         \/ /\ r.stage = "case" /\ target' = target /\ target # Nothing
            /\ UNCHANGED <<nav, title, chart, cases>>
            /\ AllShown \/ \E p \in DOMAIN asked : Leading(p)
  PROVE  AllShown' \/ \E p \in DOMAIN asked' : Leading(p)'
<1>1. asked \in Seq(Asking) /\ Len(asked) \in Nat
  BY DEF ExplorerTypeOK
<1>2. /\ asked' \in Seq(Asking) /\ Len(asked') = Len(asked) + 1
      /\ asked'[Len(asked) + 1] = r
      /\ \A j \in 1..Len(asked) : asked'[j] = asked[j]
  BY <1>1
<1>3. DOMAIN asked' = 1..(Len(asked) + 1) /\ DOMAIN asked = 1..Len(asked)
  BY <1>1, <1>2
<1>4. \A j \in 1..Len(asked) : asked[j] \in Asking /\ Reached(asked[j].stage) \in 1..4
  BY <1>1, ReachedStages
<1>5. CASE r.stage = "node" /\ target' = r.of
  <2>0. PICK q : q = Len(asked) + 1
    OBVIOUS
  <2>1. q \in DOMAIN asked' /\ asked'[q].of = target' /\ Reached(asked'[q].stage) = 1
    BY <1>1, <1>2, <1>3, <1>5, <2>0, ReachedStages
  <2>2. \A j \in DOMAIN asked' : (j < q => Reached(asked'[j].stage) >= 1) /\ ~(j > q)
    BY <1>1, <1>2, <1>3, <1>4, <2>0
  <2>3. Leading(q)'
    BY <2>1, <2>2 DEF Leading
  <2> QED BY <2>1, <2>3
<1>6. CASE /\ r.stage = "case" /\ target' = target
           /\ UNCHANGED <<nav, title, chart, cases>>
  <2>1. Reached(r.stage) = 4
    BY <1>6, ReachedStages
  <2>2. CASE AllShown
    <3>1. \A j \in DOMAIN asked' : Reached(asked'[j].stage) = 4
      BY <1>1, <1>2, <1>3, <2>1, <2>2 DEF AllShown
    <3> QED BY <1>6, <2>2, <3>1 DEF AllShown
  <2>3. ASSUME NEW p \in DOMAIN asked, Leading(p) PROVE Leading(p)' /\ p \in DOMAIN asked'
    <3>1. p \in 1..Len(asked) /\ p \in DOMAIN asked' /\ asked'[p] = asked[p]
      BY <1>1, <1>2, <1>3
    <3>2. Reached(asked[p].stage) \in 1..3
      BY <1>4, <2>3, <3>1 DEF Leading
    <3>3. ASSUME NEW j \in DOMAIN asked'
          PROVE  /\ j < p => Reached(asked'[j].stage) >= Reached(asked[p].stage)
                 /\ j > p => Reached(asked'[j].stage) > Reached(asked[p].stage)
      <4>1. CASE j \in 1..Len(asked)
        BY <1>2, <1>3, <2>3, <4>1 DEF Leading
      <4>2. CASE j = Len(asked) + 1
        BY <1>1, <1>2, <2>1, <3>1, <3>2, <4>2
      <4> QED BY <1>1, <1>3, <4>1, <4>2
    <3> QED BY <1>6, <2>3, <3>1, <3>3 DEF Leading, Last
  <2> QED BY <1>5, <1>6, <2>2, <2>3, <2>1, ReachedStages
<1> QED BY <1>5, <1>6

\* The last click's request leads, or is done: the first answer.
LEMMA LeadsAfterAnswer ==
  ASSUME ExplorerTypeOK, asked # <<>>, target # Nothing, UNCHANGED target,
         AllShown \/ \E p \in DOMAIN asked : Leading(p),
         \/ /\ asked[1].stage = "node"
            /\ title' = asked[1].of /\ Last(nav') = asked[1].of
            /\ asked' = Append(Without(asked, 1), [stage |-> "series", of |-> asked[1].of])
            /\ UNCHANGED <<chart, cases>>
         \/ /\ asked[1].stage = "series"
            /\ chart' = asked[1].of
            /\ asked' = Append(Without(asked, 1), [stage |-> "cases", of |-> asked[1].of])
            /\ UNCHANGED <<nav, title, cases>>
         \/ /\ asked[1].stage = "cases"
            /\ cases' = asked[1].of
            /\ asked' = Without(asked, 1)
            /\ UNCHANGED <<nav, title, chart>>
         \/ /\ asked[1].stage = "case"
            /\ asked' = Without(asked, 1)
            /\ UNCHANGED <<nav, title, chart, cases>>
  PROVE  AllShown' \/ \E p \in DOMAIN asked' : Leading(p)'
<1>0. PICK n \in Nat : n = Len(asked)
  BY DEF ExplorerTypeOK
<1> DEFINE turn(j) == Reached(asked[j].stage)
           next == Reached(asked'[n].stage)
<1>1. asked \in Seq(Asking) /\ n >= 1 /\ 1 \in 1..n /\ DOMAIN asked = 1..n
  BY <1>0 DEF ExplorerTypeOK
<1>2. \A j \in 1..n : asked[j] \in Asking /\ turn(j) \in 1..4
  BY <1>1, ReachedStages
<1>3. /\ Without(asked, 1) \in Seq(Asking) /\ Len(Without(asked, 1)) = n - 1
      /\ \A j \in 1..(n - 1) : Without(asked, 1)[j] = asked[j + 1]
  <2>1. /\ Without(asked, 1) \in Seq(Asking) /\ Len(Without(asked, 1)) = n - 1
        /\ \A j \in 1..(n - 1) : Without(asked, 1)[j] = IF j < 1 THEN asked[j] ELSE asked[j + 1]
    BY <1>0, <1>1, Removed
  <2> QED BY <2>1
<1>4. ASSUME NEW r, asked' = Append(Without(asked, 1), r)
      PROVE  /\ DOMAIN asked' = 1..n /\ asked'[n] = r
             /\ \A j \in 1..(n - 1) : asked'[j] = asked[j + 1]
  BY <1>1, <1>3, <1>4
<1>5. ASSUME asked' = Without(asked, 1)
      PROVE  /\ DOMAIN asked' = 1..(n - 1)
             /\ \A j \in 1..(n - 1) : asked'[j] = asked[j + 1]
  BY <1>1, <1>3, <1>5
<1>6. /\ \A j \in 1..(n - 1) : asked'[j] = asked[j + 1]
      /\ \/ /\ DOMAIN asked' = 1..n /\ asked'[n].of = asked[1].of
            /\ next = turn(1) + 1 /\ turn(1) <= 2
         \/ DOMAIN asked' = 1..(n - 1) /\ turn(1) >= 3
  <2>1. CASE /\ asked[1].stage = "node"
             /\ asked' = Append(Without(asked, 1), [stage |-> "series", of |-> asked[1].of])
    <3> DEFINE r == [stage |-> "series", of |-> asked[1].of]
    <3>1. r.stage = "series" /\ r.of = asked[1].of
      OBVIOUS
    <3> HIDE DEF r
    <3>2. /\ DOMAIN asked' = 1..n /\ asked'[n] = r
          /\ \A j \in 1..(n - 1) : asked'[j] = asked[j + 1]
      BY <1>4, <2>1 DEF r
    <3>3. turn(1) = 1 /\ next = 2 /\ asked'[n].of = asked[1].of
      BY <2>1, <3>1, <3>2, ReachedStages
    <3> QED BY <3>2, <3>3
  <2>2. CASE /\ asked[1].stage = "series"
             /\ asked' = Append(Without(asked, 1), [stage |-> "cases", of |-> asked[1].of])
    <3> DEFINE r == [stage |-> "cases", of |-> asked[1].of]
    <3>1. r.stage = "cases" /\ r.of = asked[1].of
      OBVIOUS
    <3> HIDE DEF r
    <3>2. /\ DOMAIN asked' = 1..n /\ asked'[n] = r
          /\ \A j \in 1..(n - 1) : asked'[j] = asked[j + 1]
      BY <1>4, <2>2 DEF r
    <3>3. turn(1) = 2 /\ next = 3 /\ asked'[n].of = asked[1].of
      BY <2>2, <3>1, <3>2, ReachedStages
    <3> QED BY <3>2, <3>3
  <2>3. CASE asked[1].stage \in {"cases", "case"} /\ asked' = Without(asked, 1)
    BY <1>5, <2>3, ReachedStages
  <2> QED BY <2>1, <2>2, <2>3
<1>7. CASE AllShown
  <2>1. \A j \in 1..n : turn(j) = 4
    BY <1>1, <1>7 DEF AllShown
  <2>2. asked[1].stage = "case"
    BY <1>1, <1>2, <2>1, ReachedStages
  <2>3. DOMAIN asked' = 1..(n - 1) /\ \A j \in 1..(n - 1) : asked'[j] = asked[j + 1]
    BY <1>1, <1>2, <1>6, <2>1
  <2>4. \A j \in DOMAIN asked' : Reached(asked'[j].stage) = 4
    <3>1. \A j \in 1..(n - 1) : j + 1 \in 1..n
      BY <1>1
    <3> QED BY <2>1, <2>3, <3>1
  <2> QED BY <1>7, <2>2, <2>4 DEF AllShown
<1>8. ASSUME Leading(1) PROVE AllShown' \/ (Leading(n)' /\ n \in DOMAIN asked')
  <2>1. /\ asked[1].of = target /\ turn(1) \in 1..3
        /\ \A j \in 2..n : turn(j) > turn(1)
        /\ turn(1) >= 2 => title = target /\ Last(nav) = target
        /\ turn(1) >= 3 => chart = target
    BY <1>1, <1>2, <1>8 DEF Leading
  <2>2. \A j \in 1..(n - 1) : Reached(asked'[j].stage) > turn(1) /\ Reached(asked'[j].stage) \in 1..4
    <3>1. \A j \in 1..(n - 1) : j + 1 \in 2..n /\ j + 1 \in 1..n
      BY <1>1
    <3> QED BY <1>2, <1>6, <2>1, <3>1
  <2>3. CASE turn(1) = 3
    <3>1. asked[1].stage = "cases"
      BY <1>1, <1>2, <2>3, ReachedStages
    <3>2. DOMAIN asked' = 1..(n - 1) /\ cases' = target /\ UNCHANGED <<nav, title, chart>>
      BY <1>6, <2>1, <2>3, <3>1
    <3>3. \A j \in DOMAIN asked' : Reached(asked'[j].stage) = 4
      BY <2>2, <2>3, <3>2
    <3> QED BY <2>1, <2>3, <3>2, <3>3 DEF AllShown
  <2>4. CASE turn(1) # 3
    <3>1. turn(1) \in 1..2 /\ DOMAIN asked' = 1..n /\ asked'[n].of = target' /\ next = turn(1) + 1
      BY <1>6, <2>1, <2>4
    <3>2. ASSUME NEW j \in DOMAIN asked' PROVE (j < n => Reached(asked'[j].stage) >= next) /\ ~(j > n)
      <4>1. j \in 1..n /\ (j < n => j \in 1..(n - 1))
        BY <1>1, <3>1
      <4> QED BY <1>1, <2>2, <3>1, <4>1
    <3>3. title' = target' /\ Last(nav') = target' /\ (next >= 3 => chart' = target')
      <4>1. CASE turn(1) = 1
        <5>1. asked[1].stage = "node"
          BY <1>1, <1>2, <4>1, ReachedStages DEF Asking
        <5> QED BY <2>1, <3>1, <4>1, <5>1
      <4>2. CASE turn(1) = 2
        <5>1. asked[1].stage = "series"
          BY <1>1, <1>2, <4>2, ReachedStages DEF Asking
        <5> QED BY <2>1, <4>2, <5>1
      <4> QED BY <3>1, <4>1, <4>2
    <3>4. n \in DOMAIN asked' /\ next <= 3
      BY <1>1, <3>1
    <3> QED BY <3>1, <3>2, <3>3, <3>4 DEF Leading
  <2> QED BY <2>3, <2>4
<1>9. ASSUME NEW p \in 2..n, Leading(p) PROVE Leading(p - 1)' /\ p - 1 \in DOMAIN asked'
  <2>1. /\ asked[p].of = target /\ turn(p) \in 1..3 /\ turn(1) >= turn(p)
        /\ \A j \in 1..n : (j < p => turn(j) >= turn(p)) /\ (j > p => turn(j) > turn(p))
        /\ turn(p) >= 2 => title = target /\ Last(nav) = target
        /\ turn(p) >= 3 => chart = target
    BY <1>1, <1>2, <1>9 DEF Leading
  <2>2. p - 1 \in 1..(n - 1) /\ p - 1 \in DOMAIN asked' /\ asked'[p - 1] = asked[p] /\ p = p - 1 + 1
    BY <1>1, <1>6
  <2>3. ASSUME NEW j \in DOMAIN asked'
        PROVE  /\ j < p - 1 => Reached(asked'[j].stage) >= turn(p)
               /\ j > p - 1 => Reached(asked'[j].stage) > turn(p)
    <3>1. CASE j \in 1..(n - 1)
      <4>1. j + 1 \in 1..n /\ asked'[j] = asked[j + 1]
        BY <1>1, <1>6, <3>1
      <4>2. (j < p - 1 => j + 1 < p) /\ (j > p - 1 => j + 1 > p)
        BY <1>1, <3>1
      <4> QED BY <2>1, <4>1, <4>2
    <3>2. CASE j \notin 1..(n - 1)
      <4>1. DOMAIN asked' = 1..n /\ j = n /\ next = turn(1) + 1
        BY <1>1, <1>6, <3>2
      <4>2. next > turn(p) /\ ~(j < p - 1)
        BY <1>1, <1>2, <2>1, <4>1
      <4> QED BY <4>1, <4>2
    <3> QED BY <3>1, <3>2
  <2>4. turn(p) >= 2 => title' = target' /\ Last(nav') = target'
    <3>1. turn(p) >= 2 => asked[1].stage # "node"
      BY <1>1, <1>2, <2>1, ReachedStages
    <3> QED BY <2>1, <3>1 DEF Last
  <2>5. turn(p) >= 3 => chart' = target'
    <3>1. turn(p) >= 3 => asked[1].stage \notin {"node", "series"}
      BY <1>1, <1>2, <2>1, ReachedStages
    <3> QED BY <2>1, <3>1
  <2> QED BY <2>1, <2>2, <2>3, <2>4, <2>5 DEF Leading
<1>10. PICK p \in DOMAIN asked : AllShown \/ Leading(p)
  BY <1>1
<1>11. p = 1 \/ p \in 2..n
  BY <1>1
<1> QED BY <1>7, <1>8, <1>9, <1>10, <1>11

\* The last click leads until it is done.
LEMMA LastClickLeadsStep ==
  ASSUME ExplorerTypeOK, LastClickLeads, E!Next
  PROVE  LastClickLeads'
<1>1. under' = under
  BY ConditionsStay
<1> SUFFICES ASSUME under.ordered, ~failing', target' # Nothing
             PROVE  AllShown' \/ \E p \in DOMAIN asked' : Leading(p)'
  BY <1>1 DEF LastClickLeads
<1>2. CASE Visiting
  <2>1. PICK n \in Node : asked' = Append(asked, [stage |-> "node", of |-> n]) /\ target' = n
    BY <1>2, VisitAsks DEF Visiting
  <2> DEFINE r == [stage |-> "node", of |-> n]
  <2>2. r \in Asking /\ r.stage = "node" /\ r.of = n
    BY DEF Asking
  <2>3. asked' = Append(asked, r)
    BY <2>1
  <2> HIDE DEF r
  <2> QED BY <2>1, <2>2, <2>3, LeadsAfterClick
<1>3. ASSUME NEW c \in Connection, E!OpenCase(c)
      PROVE  AllShown' \/ \E p \in DOMAIN asked' : Leading(p)'
  <2>1. /\ asked' = Append(asked, [stage |-> "case", of |-> c])
        /\ UNCHANGED <<nav, title, chart, cases, target, failing>>
    BY <1>3, OpenCaseAsks
  <2>2. AllShown \/ \E p \in DOMAIN asked : Leading(p)
    BY <2>1 DEF LastClickLeads
  <2> DEFINE r == [stage |-> "case", of |-> c]
  <2>3. r \in Asking /\ r.stage = "case"
    BY DEF Asking
  <2>4. asked' = Append(asked, r)
    BY <2>1
  <2> HIDE DEF r
  <2> QED BY <2>1, <2>2, <2>3, <2>4, LeadsAfterClick
<1>4. CASE E!CloseModal
  <2>1. UNCHANGED <<nav, title, chart, cases, asked, target, failing>>
    BY <1>4 DEF E!CloseModal, E!page
  <2>2. AllShown \/ \E p \in DOMAIN asked : Leading(p)
    BY <2>1 DEF LastClickLeads
  <2> QED BY <2>1, <2>2 DEF AllShown, Leading, Last
<1>5. ASSUME NEW i \in DOMAIN asked, Arrival(i)
      PROVE  AllShown' \/ \E p \in DOMAIN asked' : Leading(p)'
  <2>1. i = 1 /\ asked # <<>> /\ UNCHANGED target /\ asked \in Seq(Asking) /\ trail \in Seq(Node)
    BY <1>5, ArrivalAsks DEF Arrival, ExplorerTypeOK
  <2>2. asked[1] \in Asking
    BY <1>5, <2>1
  <2>3. \/ /\ asked[1].stage = "node"
           /\ title' = asked[1].of /\ nav' = E!TrailTo(asked[1].of)
           /\ asked' = Append(Without(asked, 1), [stage |-> "series", of |-> asked[1].of])
           /\ UNCHANGED <<chart, cases, failing>>
        \/ /\ asked[1].stage = "series"
           /\ chart' = asked[1].of
           /\ asked' = Append(Without(asked, 1), [stage |-> "cases", of |-> asked[1].of])
           /\ UNCHANGED <<nav, title, cases, failing>>
        \/ /\ asked[1].stage = "cases"
           /\ cases' = asked[1].of
           /\ asked' = Without(asked, 1)
           /\ UNCHANGED <<nav, title, chart, failing>>
        \/ /\ asked[1].stage = "case"
           /\ asked' = Without(asked, 1)
           /\ UNCHANGED <<nav, title, chart, cases, failing>>
    BY <1>5, <2>1, ArrivalAsks DEF Arrival
  <2>4. AllShown \/ \E p \in DOMAIN asked : Leading(p)
    BY <2>1, <2>3 DEF LastClickLeads
  <2>5. asked[1].stage = "node" => Last(E!TrailTo(asked[1].of)) = asked[1].of
    BY <2>1, <2>2, TrailToEnds DEF Asking, Last, E!Last
  <2> QED BY <2>1, <2>3, <2>4, <2>5, LeadsAfterAnswer
<1> QED BY <1>2, <1>3, <1>4, <1>5 DEF E!Next, Visiting, Arrival

LEMMA ExplorerInitial == E!Init => ExplorerInv
<1> SUFFICES ASSUME E!Init PROVE ExplorerInv
  OBVIOUS
<1>1. /\ trail = <<>> /\ nav = <<>> /\ title = Nothing /\ asked = <<>> /\ target = Nothing
      /\ modal = [open |-> FALSE, title |-> Nothing, subtitle |-> Nothing,
                  evidence |-> Nothing, truth |-> Nothing, chart |-> Nothing]
  BY DEF E!Init
<1>2. ExplorerTypeOK
  BY <1>1 DEF ExplorerTypeOK, Case
<1>3. OneAsked /\ ModalOwns
  BY <1>1 DEF OneAsked, ModalOwns
<1>4. OnTheWay /\ LastClickLeads
  BY <1>1 DEF OnTheWay, LastClickLeads
<1> QED BY <1>2, <1>3, <1>4 DEF ExplorerInv

LEMMA ExplorerStep == ExplorerInv /\ E!Next => ExplorerInv'
BY ExplorerTypeStep, OneAskedStep, ModalOwnsStep, OnTheWayStep, LastClickLeadsStep DEF ExplorerInv

LEMMA ExplorerKept == ExplorerInv /\ UNCHANGED <<under, explorerVars>> => ExplorerInv'
<1> SUFFICES ASSUME ExplorerInv, UNCHANGED <<under, explorerVars>> PROVE ExplorerInv'
  OBVIOUS
<1>1. UNCHANGED <<under, trail, nav, title, chart, cases, modal, asked, target, failing>>
  BY DEF explorerVars
<1>2. ExplorerTypeOK'
  BY <1>1 DEF ExplorerInv, ExplorerTypeOK, Case
<1>3. OneAsked' /\ ModalOwns'
  BY <1>1 DEF ExplorerInv, OneAsked, ModalOwns
<1>4. OnTheWay'
  BY <1>1 DEF ExplorerInv, OnTheWay, IsWay
<1>5. LastClickLeads'
  BY <1>1 DEF ExplorerInv, LastClickLeads, AllShown, Leading
<1> QED BY <1>2, <1>3, <1>4, <1>5 DEF ExplorerInv

\* The dashboard does not change the conditions either.
LEMMA DashboardKeepsConditions == Next => under' = under
BY DEF Next, Select, Navigate, Choose, Arrives, ScenariosArrive, RootArrives, SummaryArrives,
       SeriesArrives, MapArrives, HealthArrives, BalanceArrives, AssetArrives, ChartArrives, Fails

LEMMA ExplorerAlways == FrontendSpec => []ExplorerInv
<1>1. FrontendInit => ExplorerInv
  BY ExplorerInitial DEF FrontendInit
<1>2. ExplorerInv /\ [FrontendNext]_allVars => ExplorerInv'
  <2> SUFFICES ASSUME ExplorerInv, [FrontendNext]_allVars PROVE ExplorerInv'
    OBVIOUS
  <2>1. CASE Next /\ UNCHANGED explorerVars
    BY <2>1, DashboardKeepsConditions, ExplorerKept
  <2>2. CASE E!Next
    BY <2>2, ExplorerStep
  <2>3. CASE UNCHANGED allVars
    BY <2>3, ExplorerKept DEF allVars, vars
  <2> QED BY <2>1, <2>2, <2>3 DEF FrontendNext, Explore
<1> QED BY <1>1, <1>2, PTL DEF FrontendSpec

\* Once everything has been answered in order, the explorer shows the node of
\* the last click throughout.
THEOREM ExplorerAlwaysSettles == FrontendSpec => []ExplorerSettled
<1>1. ExplorerInv => ExplorerSettled
  <2> SUFFICES ASSUME ExplorerInv, under.ordered, asked = <<>>, ~failing, target # Nothing
               PROVE  {title, chart, cases} = {target} /\ E!Last(nav) = target
    BY DEF ExplorerSettled, E!ExplorerSettled
  <2>1. DOMAIN asked = {}
    OBVIOUS
  <2>2. AllShown
    BY <2>1 DEF ExplorerInv, LastClickLeads
  <2> QED BY <2>2 DEF AllShown, Last, E!Last
<1> QED BY <1>1, ExplorerAlways, PTL

\* For a user who waits, and without errors, the breadcrumb is the way from the
\* root to the node it ends in.
THEOREM BreadcrumbAlwaysPath == FrontendSpec => []BreadcrumbIsPath
<1>1. ExplorerInv => BreadcrumbIsPath
  <2> SUFFICES ASSUME ExplorerInv, under.patient, ~under.errors, nav # <<>>
               PROVE  nav = E!Path[E!Last(nav)]
    BY DEF BreadcrumbIsPath, E!BreadcrumbIsPath
  <2>1. nav \in Seq(Node) /\ IsWay(nav)
    BY DEF ExplorerInv, ExplorerTypeOK, OnTheWay
  <2>2. nav = E!Path[nav[Len(nav)]]
    BY <2>1, WayIsPath
  <2> QED BY <2>2 DEF E!Last
<1> QED BY <1>1, ExplorerAlways, PTL

\* For a user who waits, an open modal whose answers are in shows what was
\* found out about the connection in its title, and nothing about another.
THEOREM ModalAlwaysSettles == FrontendSpec => []ModalSettled
<1>1. ExplorerInv => ModalSettled
  BY DEF ExplorerInv, ModalOwns, ModalSettled, E!ModalSettled
<1> QED BY <1>1, ExplorerAlways, PTL

(***************************************************************************)
(* The dashboard: what the actions do to the requests in flight.           *)
(***************************************************************************)
Ends(i) == pending' = Without(pending, i)

GoesOn(i, e) == e \in Requested /\ pending' = Append(Without(pending, i), e)

\* What a render asks for next.
Rendered(v, root, sum, others) ==
  \/ /\ v = "executive" /\ sum # NoScenario /\ painted' = [painted EXCEPT !["kpis"] = {sum}]
     /\ \E e \in Requested : /\ pending' = Append(others, e)
                             /\ e.stage = "series" /\ e.scenario = scenarioId
                             /\ e.root = root /\ e.kept = sum
  \/ v = "executive" /\ sum = NoScenario /\ pending' = others /\ UNCHANGED painted
  \/ /\ v = "network" /\ UNCHANGED painted
     /\ \E e \in Requested : /\ pending' = Append(others, e)
                             /\ e.stage = "map" /\ e.scenario = scenarioId
                             /\ e.root = root /\ e.kept = sum

LEMMA RequestFields ==
  ASSUME NEW stage \in Stages, NEW s \in Scenario, NEW root \in Known, NEW kept \in Known
  PROVE  /\ Request(stage, s, root, kept, NoScenario) \in Requested
         /\ Request(stage, s, root, kept, NoScenario).stage = stage
         /\ Request(stage, s, root, kept, NoScenario).scenario = s
         /\ Request(stage, s, root, kept, NoScenario).root = root
         /\ Request(stage, s, root, kept, NoScenario).kept = kept
BY DEF Request, Requested

LEMMA InFlight ==
  ASSUME DashboardTypeOK, NEW i \in DOMAIN pending
  PROVE  /\ pending \in Seq(Requested) /\ Len(pending) \in Nat /\ DOMAIN pending = 1..Len(pending)
         /\ i \in 1..Len(pending) /\ pending[i] \in Requested
         /\ pending[i].scenario \in Scenario /\ pending[i].root \in Known /\ pending[i].kept \in Known
         /\ pending[i].stage \in Stages /\ pending[i].of \in (SUBSET Known) \cup {NoScenario}
<1>1. /\ pending \in Seq(Requested) /\ Len(pending) \in Nat /\ DOMAIN pending = 1..Len(pending)
      /\ i \in 1..Len(pending) /\ pending[i] \in Requested
  BY DEF DashboardTypeOK
<1> QED BY <1>1 DEF Requested

LEMMA RenderAsks ==
  ASSUME DashboardTypeOK, NEW v \in View, NEW root \in Known, NEW sum \in Known, NEW others,
         Render(v, scenarioId, root, sum, others)
  PROVE  Rendered(v, root, sum, others)
<1>1. scenarioId \in Scenario /\ "series" \in Stages /\ "map" \in Stages
  BY DEF DashboardTypeOK, Stages
<1>2. CASE v = "executive" /\ sum # NoScenario
  <2> DEFINE e == Request("series", scenarioId, root, sum, NoScenario)
  <2>1. painted' = [painted EXCEPT !["kpis"] = {sum}] /\ pending' = Append(others, e)
    BY <1>2 DEF Render
  <2>2. e \in Requested /\ e.stage = "series" /\ e.scenario = scenarioId /\ e.root = root /\ e.kept = sum
    BY <1>1, RequestFields
  <2> HIDE DEF e
  <2> QED BY <1>2, <2>1, <2>2 DEF Rendered
<1>3. CASE v = "executive" /\ sum = NoScenario
  BY <1>3 DEF Render, Rendered
<1>4. CASE v = "network"
  <2> DEFINE e == Request("map", scenarioId, root, sum, NoScenario)
  <2>1. UNCHANGED painted /\ pending' = Append(others, e)
    BY <1>4 DEF Render
  <2>2. e \in Requested /\ e.stage = "map" /\ e.scenario = scenarioId /\ e.root = root /\ e.kept = sum
    BY <1>1, RequestFields
  <2> HIDE DEF e
  <2> QED BY <1>4, <2>1, <2>2 DEF Rendered
<1> QED BY <1>2, <1>3, <1>4 DEF View

LEMMA SelectAsks ==
  ASSUME DashboardTypeOK, NEW s \in Scenario, Select(s)
  PROVE  /\ scenarioId' = s /\ failed' = FALSE /\ (under.patient => pending = <<>>)
         /\ UNCHANGED <<under, rootId, summary, scenarioConfig, header, currentView, unit, painted>>
         /\ \E e \in Requested : pending' = Append(pending, e) /\ e.stage = "scenarios" /\ e.scenario = s
<1> DEFINE e == Request("scenarios", s, NoScenario, NoScenario, NoScenario)
<1>1. e \in Requested /\ e.stage = "scenarios" /\ e.scenario = s
  BY RequestFields DEF Stages, Known
<1>2. /\ scenarioId' = s /\ failed' = FALSE /\ (under.patient => pending = <<>>)
      /\ UNCHANGED <<under, rootId, summary, scenarioConfig, header, currentView, unit, painted>>
      /\ pending' = Append(pending, e)
  BY DEF Select, Operate
<1> HIDE DEF e
<1> QED BY <1>1, <1>2

LEMMA NavigateAsks ==
  ASSUME DashboardTypeOK, NEW v \in View, Navigate(v)
  PROVE  /\ currentView' = v /\ (under.patient => pending = <<>>)
         /\ UNCHANGED <<under, scenarioId, rootId, summary, scenarioConfig, header, unit, failed>>
         /\ Rendered(v, rootId, summary, pending)
<1>1. Rendered(v, rootId, summary, pending)
  BY RenderAsks DEF Navigate, DashboardTypeOK
<1> QED BY <1>1 DEF Navigate, Operate, state

LEMMA ChooseAsks ==
  ASSUME DashboardTypeOK, Choose
  PROVE  /\ (under.patient => pending = <<>>) /\ currentView = "network" /\ unit # NoScenario
         /\ UNCHANGED <<under, scenarioId, rootId, summary, scenarioConfig, header, currentView, unit,
                        painted, failed>>
         /\ \E e \in Requested : /\ pending' = Append(pending, e) /\ e.stage = "chosen"
                                 /\ e.scenario = scenarioId /\ e.root = unit
<1> DEFINE e == Request("chosen", scenarioId, unit, NoScenario, NoScenario)
<1>1. e \in Requested /\ e.stage = "chosen" /\ e.scenario = scenarioId /\ e.root = unit
  <2>1. "chosen" \in Stages /\ scenarioId \in Scenario /\ unit \in Known /\ NoScenario \in Known
    BY DEF Stages, Known, DashboardTypeOK
  <2> QED BY <2>1, RequestFields
<1>2. /\ (under.patient => pending = <<>>) /\ currentView = "network" /\ unit # NoScenario
      /\ UNCHANGED <<under, scenarioId, rootId, summary, scenarioConfig, header, currentView, unit,
                     painted, failed>>
      /\ pending' = Append(pending, e)
  BY DEF Choose, Operate, state
<1> HIDE DEF e
<1> QED BY <1>1, <1>2

\* A request that goes on to another stage.
LEMMA Restaged ==
  ASSUME NEW r \in Requested, NEW stage \in Stages
  PROVE  LET e == [r EXCEPT !.stage = stage] IN
           /\ e \in Requested /\ e.stage = stage /\ e.scenario = r.scenario
           /\ e.root = r.root /\ e.kept = r.kept /\ e.of = r.of
BY DEF Requested

LEMMA LoadGoesOn ==
  ASSUME DashboardTypeOK, NEW i \in DOMAIN pending
  PROVE  /\ ScenariosArrive(i) =>
              /\ pending[i].stage = "scenarios" /\ (under.ordered => i = 1)
              /\ scenarioConfig' = pending[i].scenario
              /\ UNCHANGED <<under, scenarioId, rootId, summary, header, currentView, unit, painted, failed>>
              /\ \E e : GoesOn(i, e) /\ e.stage = "root" /\ e.scenario = pending[i].scenario
         /\ RootArrives(i) =>
              /\ pending[i].stage = "root" /\ (under.ordered => i = 1)
              /\ rootId' = pending[i].scenario
              /\ UNCHANGED <<under, scenarioId, scenarioConfig, summary, header, currentView, unit, painted, failed>>
              /\ \E e : GoesOn(i, e) /\ e.stage = "summary" /\ e.scenario = pending[i].scenario
         /\ SummaryArrives(i) =>
              /\ pending[i].stage = "summary" /\ (under.ordered => i = 1)
              /\ summary' = pending[i].scenario /\ header' = <<pending[i].scenario, pending[i].scenario>>
              /\ UNCHANGED <<under, scenarioId, rootId, scenarioConfig, currentView, unit, failed>>
              /\ Rendered(currentView, rootId, pending[i].scenario, Without(pending, i))
<1> DEFINE r == pending[i]
<1>1. r \in Requested /\ r.scenario \in Scenario /\ "root" \in Stages /\ "summary" \in Stages
  BY InFlight DEF Stages
<1> HIDE DEF r
<1>2. ASSUME ScenariosArrive(i)
      PROVE  /\ r.stage = "scenarios" /\ (under.ordered => i = 1) /\ scenarioConfig' = r.scenario
             /\ UNCHANGED <<under, scenarioId, rootId, summary, header, currentView, unit, painted, failed>>
             /\ \E e : GoesOn(i, e) /\ e.stage = "root" /\ e.scenario = r.scenario
  <2>1. /\ r.stage = "scenarios" /\ (under.ordered => i = 1) /\ scenarioConfig' = r.scenario
        /\ UNCHANGED <<under, scenarioId, rootId, summary, header, currentView, unit, painted, failed>>
        /\ pending' = Append(Without(pending, i), [r EXCEPT !.stage = "root"])
    BY <1>2 DEF ScenariosArrive, Awaits, Answerable, Continue, RemoveAt, Without, r
  <2> QED BY <1>1, <2>1, Restaged DEF GoesOn
<1>3. ASSUME RootArrives(i)
      PROVE  /\ r.stage = "root" /\ (under.ordered => i = 1) /\ rootId' = r.scenario
             /\ UNCHANGED <<under, scenarioId, scenarioConfig, summary, header, currentView, unit, painted, failed>>
             /\ \E e : GoesOn(i, e) /\ e.stage = "summary" /\ e.scenario = r.scenario
  <2>1. /\ r.stage = "root" /\ (under.ordered => i = 1) /\ rootId' = r.scenario
        /\ UNCHANGED <<under, scenarioId, scenarioConfig, summary, header, currentView, unit, painted, failed>>
        /\ pending' = Append(Without(pending, i), [r EXCEPT !.stage = "summary"])
    BY <1>3 DEF RootArrives, Awaits, Answerable, Continue, RemoveAt, Without, r
  <2> QED BY <1>1, <2>1, Restaged DEF GoesOn
<1>4. ASSUME SummaryArrives(i)
      PROVE  /\ r.stage = "summary" /\ (under.ordered => i = 1)
             /\ summary' = r.scenario /\ header' = <<r.scenario, r.scenario>>
             /\ UNCHANGED <<under, scenarioId, rootId, scenarioConfig, currentView, unit, failed>>
             /\ Rendered(currentView, rootId, r.scenario, Without(pending, i))
  <2>1. /\ r.stage = "summary" /\ (under.ordered => i = 1)
        /\ summary' = r.scenario /\ header' = <<r.scenario, r.scenario>>
        /\ UNCHANGED <<under, scenarioId, rootId, scenarioConfig, currentView, unit, failed>>
    BY <1>4 DEF SummaryArrives, Awaits, Answerable, r
  <2>2. Render(currentView, scenarioId, rootId, r.scenario, Without(pending, i))
    BY <1>4 DEF SummaryArrives, RemoveAt, Without, r
  <2>3. currentView \in View /\ rootId \in Known /\ r.scenario \in Known
    BY <1>1 DEF DashboardTypeOK, Known
  <2> QED BY <2>1, <2>2, <2>3, RenderAsks
<1> QED BY <1>2, <1>3, <1>4 DEF r

\* The views: what a view leaves alone.
ViewKeeps ==
  UNCHANGED <<under, scenarioId, rootId, summary, scenarioConfig, header, currentView, failed>>

LEMMA SeriesAsks ==
  ASSUME DashboardTypeOK, NEW i \in DOMAIN pending, SeriesArrives(i)
  PROVE  /\ pending[i].stage = "series" /\ (under.ordered => i = 1) /\ ViewKeeps /\ UNCHANGED unit
         /\ painted' = [painted EXCEPT !["series"] = {pending[i].root, pending[i].scenario},
                                       !["causes"] = {pending[i].kept}]
         /\ Ends(i)
BY DEF SeriesArrives, Awaits, Answerable, RemoveAt, Ends, Without, ViewKeeps, state

LEMMA MapAsks ==
  ASSUME DashboardTypeOK, NEW i \in DOMAIN pending, MapArrives(i)
  PROVE  /\ pending[i].stage = "map" /\ (under.ordered => i = 1) /\ ViewKeeps
         /\ UNCHANGED <<unit, painted>> /\ pending[i].root # NoScenario
         /\ \E e : /\ GoesOn(i, e) /\ e.stage = "health" /\ e.scenario = scenarioId
                   /\ e.root = pending[i].root /\ e.kept = pending[i].kept
                   /\ e.of = {pending[i].root, pending[i].scenario}
<1> DEFINE r == pending[i]
<1>1. /\ r \in Requested /\ "health" \in Stages /\ scenarioId \in Scenario
      /\ {r.root, r.scenario} \in SUBSET Known
  BY InFlight DEF Stages, DashboardTypeOK, Known
<1>2. /\ r.stage = "map" /\ (under.ordered => i = 1) /\ ViewKeeps
      /\ UNCHANGED <<unit, painted>> /\ r.root # NoScenario
      /\ pending' = Append(Without(pending, i),
           [r EXCEPT !.stage = "health", !.of = {r.root, r.scenario}, !.scenario = scenarioId])
  BY DEF MapArrives, Awaits, Answerable, Servable, Continue, RemoveAt, Without, ViewKeeps, state
<1> HIDE DEF r
<1>3. \E e : /\ GoesOn(i, e) /\ e.stage = "health" /\ e.scenario = scenarioId
             /\ e.root = r.root /\ e.kept = r.kept /\ e.of = {r.root, r.scenario}
  <2> DEFINE e == [r EXCEPT !.stage = "health", !.of = {r.root, r.scenario}, !.scenario = scenarioId]
  <2>1. /\ e \in Requested /\ e.stage = "health" /\ e.scenario = scenarioId
        /\ e.root = r.root /\ e.kept = r.kept /\ e.of = {r.root, r.scenario}
    BY <1>1 DEF Requested
  <2>2. pending' = Append(Without(pending, i), e)
    BY <1>2
  <2> HIDE DEF e
  <2> QED BY <2>1, <2>2 DEF GoesOn
<1> QED BY <1>2, <1>3 DEF r

LEMMA HealthAsks ==
  ASSUME DashboardTypeOK, NEW i \in DOMAIN pending, NEW served \in BOOLEAN, HealthArrives(i, served),
         pending[i].root # NoScenario
  PROVE  /\ pending[i].stage = "health" /\ (under.ordered => i = 1) /\ ViewKeeps
         /\ \/ pending[i].kept = NoScenario /\ Ends(i) /\ UNCHANGED <<unit, painted>>
            \/ /\ pending[i].kept # NoScenario
               /\ painted' = [painted EXCEPT !["netKpis"] = {pending[i].kept} \cup pending[i].of \cup
                                               IF served THEN {pending[i].scenario} ELSE {}]
               /\ unit' = IF unit = NoScenario THEN pending[i].root ELSE unit
               /\ unit' \in Known \ {NoScenario}
               /\ \E e : /\ GoesOn(i, e) /\ e.stage = "balance" /\ e.scenario = scenarioId
                         /\ e.root = unit' /\ e.kept = pending[i].kept /\ e.of = pending[i].of
<1> DEFINE r == pending[i]
<1>1. r \in Requested /\ "balance" \in Stages /\ scenarioId \in Scenario /\ r.root \in Known /\ unit \in Known
  BY InFlight DEF Stages, DashboardTypeOK
<1>2. r.stage = "health" /\ (under.ordered => i = 1) /\ ViewKeeps
  BY DEF HealthArrives, Awaits, Answerable, ViewKeeps, state
<1>3. CASE r.kept = NoScenario
  <2>1. Ends(i) /\ UNCHANGED <<unit, painted>>
    BY <1>3 DEF HealthArrives, RemoveAt, Without, Ends
  <2> QED BY <1>2, <1>3, <2>1
<1>4. CASE r.kept # NoScenario
  <2>1. /\ painted' = [painted EXCEPT !["netKpis"] = {r.kept} \cup r.of \cup
                                         IF served THEN {r.scenario} ELSE {}]
        /\ unit' = IF unit = NoScenario THEN r.root ELSE unit
        /\ pending' = Append(Without(pending, i),
             [r EXCEPT !.stage = "balance", !.root = unit', !.scenario = scenarioId])
    BY <1>4 DEF HealthArrives, Continue, RemoveAt, Without
  <2>2. unit' \in Known \ {NoScenario}
    BY <1>1, <2>1
  <2> HIDE DEF r
  <2>3. PICK u \in Known : u = unit'
    BY <2>2
  <2> DEFINE e == [r EXCEPT !.stage = "balance", !.root = u, !.scenario = scenarioId]
  <2>4. e \in Requested /\ e.stage = "balance" /\ e.scenario = scenarioId
        /\ e.root = u /\ e.kept = r.kept /\ e.of = r.of
    BY <1>1 DEF Requested
  <2>5. pending' = Append(Without(pending, i), e)
    BY <2>1, <2>3
  <2> HIDE DEF e
  <2>6. \E x : /\ GoesOn(i, x) /\ x.stage = "balance" /\ x.scenario = scenarioId
               /\ x.root = unit' /\ x.kept = r.kept /\ x.of = r.of
    BY <2>3, <2>4, <2>5 DEF GoesOn
  <2> QED BY <1>2, <1>4, <2>1, <2>2, <2>6 DEF r
<1> QED BY <1>3, <1>4

LEMMA BalanceAsks ==
  ASSUME DashboardTypeOK, NEW i \in DOMAIN pending, BalanceArrives(i)
  PROVE  /\ pending[i].stage = "balance" /\ (under.ordered => i = 1) /\ ViewKeeps /\ UNCHANGED unit
         /\ painted' = [painted EXCEPT !["balance"] = {pending[i].root, pending[i].scenario},
                                       !["map"] = pending[i].of]
         /\ \E e : GoesOn(i, e) /\ e.stage = "asset" /\ e.scenario = scenarioId
<1> DEFINE r == pending[i]
<1>1. r \in Requested /\ "asset" \in Stages /\ scenarioId \in Scenario
  BY InFlight DEF Stages, DashboardTypeOK
<1>2. /\ r.stage = "balance" /\ (under.ordered => i = 1) /\ ViewKeeps /\ UNCHANGED unit
      /\ painted' = [painted EXCEPT !["balance"] = {r.root, r.scenario}, !["map"] = r.of]
      /\ pending' = Append(Without(pending, i), [r EXCEPT !.stage = "asset", !.scenario = scenarioId])
  BY DEF BalanceArrives, Awaits, Answerable, Continue, RemoveAt, Without, ViewKeeps, state
<1> HIDE DEF r
<1>3. \E e : GoesOn(i, e) /\ e.stage = "asset" /\ e.scenario = scenarioId
  <2> DEFINE e == [r EXCEPT !.stage = "asset", !.scenario = scenarioId]
  <2>1. e \in Requested /\ e.stage = "asset" /\ e.scenario = scenarioId
    BY <1>1 DEF Requested
  <2>2. pending' = Append(Without(pending, i), e)
    BY <1>2
  <2> HIDE DEF e
  <2> QED BY <2>1, <2>2 DEF GoesOn
<1> QED BY <1>2, <1>3 DEF r

LEMMA AssetAsks ==
  ASSUME DashboardTypeOK, NEW i \in DOMAIN pending, NEW served \in BOOLEAN, AssetArrives(i, served)
  PROVE  /\ pending[i].stage = "asset" /\ (under.ordered => i = 1) /\ ViewKeeps /\ UNCHANGED unit
         /\ painted' = [painted EXCEPT !["asset"] = IF served THEN {pending[i].scenario} ELSE {},
                                       !["thermal"] = {}]
         /\ \/ Ends(i)
            \/ \E e : /\ GoesOn(i, e) /\ e.stage = "thermal" /\ e.scenario = scenarioId
                      /\ e.root = pending[i].scenario
<1> DEFINE r == pending[i]
<1>1. r \in Requested /\ "thermal" \in Stages /\ scenarioId \in Scenario /\ r.scenario \in Known
  BY InFlight DEF Stages, DashboardTypeOK, Known
<1>2. /\ r.stage = "asset" /\ (under.ordered => i = 1) /\ ViewKeeps /\ UNCHANGED unit
      /\ painted' = [painted EXCEPT !["asset"] = IF served THEN {r.scenario} ELSE {}, !["thermal"] = {}]
  BY DEF AssetArrives, Awaits, Answerable, ViewKeeps, state
<1>3. CASE served
  <2>1. pending' = Append(Without(pending, i),
                     [r EXCEPT !.stage = "thermal", !.root = r.scenario, !.scenario = scenarioId])
    BY <1>3 DEF AssetArrives, Continue, RemoveAt, Without
  <2> HIDE DEF r
  <2> DEFINE e == [r EXCEPT !.stage = "thermal", !.root = r.scenario, !.scenario = scenarioId]
  <2>2. e \in Requested /\ e.stage = "thermal" /\ e.scenario = scenarioId /\ e.root = r.scenario
    BY <1>1 DEF Requested
  <2>3. pending' = Append(Without(pending, i), e)
    BY <2>1
  <2> HIDE DEF e
  <2> QED BY <1>2, <2>2, <2>3 DEF GoesOn, r
<1>4. CASE ~served
  <2>1. Ends(i)
    BY <1>4 DEF AssetArrives, RemoveAt, Without, Ends
  <2> QED BY <1>2, <2>1
<1> QED BY <1>3, <1>4

LEMMA ChartAsks ==
  ASSUME DashboardTypeOK, NEW i \in DOMAIN pending, NEW stage, NEW panel, ChartArrives(i, stage, panel)
  PROVE  /\ pending[i].stage = stage /\ (under.ordered => i = 1) /\ ViewKeeps /\ UNCHANGED unit
         /\ painted' = [painted EXCEPT ![panel] = {pending[i].root, pending[i].scenario}]
         /\ Ends(i)
BY DEF ChartArrives, Awaits, Answerable, RemoveAt, Ends, Without, ViewKeeps, state

LEMMA FailAsks ==
  ASSUME DashboardTypeOK, NEW i \in DOMAIN pending, Fails(i)
  PROVE  /\ pending[i].stage \notin {"health", "asset"} /\ (under.ordered => i = 1)
         /\ UNCHANGED <<under, scenarioId, rootId, summary, scenarioConfig, header, currentView, unit, painted>>
         /\ failed' = (failed \/ (Servable(pending[i]) /\ ~Doubtful(pending[i])))
         /\ Ends(i)
BY DEF Fails, Answerable, RemoveAt, Ends, Without, state

(***************************************************************************)
(* The dashboard: types.                                                   *)
(***************************************************************************)

\* The requests after an answer: those before, and at most one in addition.
LEMMA AfterAnswer ==
  ASSUME DashboardTypeOK, NEW i \in DOMAIN pending, Ends(i) \/ \E e : GoesOn(i, e)
  PROVE  /\ pending' \in Seq(Requested) /\ Len(pending') \in Nat /\ Len(pending') <= Len(pending)
         /\ DOMAIN pending' = 1..Len(pending')
<1>1. pending \in Seq(Requested) /\ Len(pending) \in Nat /\ i \in 1..Len(pending)
  BY InFlight
<1>2. Without(pending, i) \in Seq(Requested) /\ Len(Without(pending, i)) = Len(pending) - 1
  BY <1>1, Removed
<1>3. CASE Ends(i)
  BY <1>1, <1>2, <1>3 DEF Ends
<1>4. ASSUME NEW e, GoesOn(i, e)
      PROVE  /\ pending' \in Seq(Requested) /\ Len(pending') \in Nat /\ Len(pending') <= Len(pending)
             /\ DOMAIN pending' = 1..Len(pending')
  <2>1. e \in Requested /\ pending' = Append(Without(pending, i), e)
    BY <1>4 DEF GoesOn
  <2>2. pending' \in Seq(Requested) /\ Len(pending') = Len(Without(pending, i)) + 1
    BY <1>2, <2>1
  <2> QED BY <1>1, <1>2, <2>2
<1> QED BY <1>3, <1>4

LEMMA EndsWhere ==
  ASSUME DashboardTypeOK, NEW i \in DOMAIN pending, Ends(i), NEW j \in DOMAIN pending'
  PROVE  \E k \in DOMAIN pending : pending'[j] = pending[k]
<1>1. pending \in Seq(Requested) /\ Len(pending) \in Nat /\ i \in 1..Len(pending) /\ DOMAIN pending = 1..Len(pending)
  BY InFlight
<1>2. /\ Without(pending, i) \in Seq(Requested) /\ Len(Without(pending, i)) = Len(pending) - 1
      /\ \A k \in 1..(Len(pending) - 1) :
           Without(pending, i)[k] = IF k < i THEN pending[k] ELSE pending[k + 1]
  BY <1>1, Removed
<1>3. j \in 1..(Len(pending) - 1)
  BY <1>1, <1>2 DEF Ends
<1>4. j \in DOMAIN pending /\ j + 1 \in DOMAIN pending
  BY <1>1, <1>3
<1>5. pending'[j] = pending[j] \/ pending'[j] = pending[j + 1]
  BY <1>2, <1>3 DEF Ends
<1> QED BY <1>4, <1>5

LEMMA GoesOnWhere ==
  ASSUME DashboardTypeOK, NEW i \in DOMAIN pending, NEW e, GoesOn(i, e), NEW j \in DOMAIN pending'
  PROVE  pending'[j] = e \/ \E k \in DOMAIN pending : pending'[j] = pending[k]
<1>1. pending \in Seq(Requested) /\ Len(pending) \in Nat /\ i \in 1..Len(pending) /\ DOMAIN pending = 1..Len(pending)
  BY InFlight
<1>2. /\ Without(pending, i) \in Seq(Requested) /\ Len(Without(pending, i)) = Len(pending) - 1
      /\ \A k \in 1..(Len(pending) - 1) :
           Without(pending, i)[k] = IF k < i THEN pending[k] ELSE pending[k + 1]
  BY <1>1, Removed
<1>3. e \in Requested /\ pending' = Append(Without(pending, i), e)
  BY DEF GoesOn
<1>4. /\ DOMAIN pending' = 1..Len(pending) /\ pending'[Len(pending)] = e
      /\ \A k \in 1..(Len(pending) - 1) : pending'[k] = Without(pending, i)[k]
  <2>1. PICK n \in Nat : n = Len(pending)
    BY <1>1
  <2>2. n >= 1 /\ Without(pending, i) \in Seq(Requested) /\ Len(Without(pending, i)) = n - 1
    BY <1>1, <1>2, <2>1
  <2>3. /\ DOMAIN pending' = 1..n /\ pending'[n] = e
        /\ \A k \in 1..(n - 1) : pending'[k] = Without(pending, i)[k]
    BY <1>3, <2>2
  <2> QED BY <2>1, <2>3
<1>5. CASE j = Len(pending)
  BY <1>4, <1>5
<1>6. CASE j # Len(pending)
  <2>1. j \in 1..(Len(pending) - 1)
    BY <1>1, <1>4, <1>6
  <2>2. j \in DOMAIN pending /\ j + 1 \in DOMAIN pending
    BY <1>1, <2>1
  <2>3. pending'[j] = pending[j] \/ pending'[j] = pending[j + 1]
    BY <1>2, <1>4, <2>1
  <2> QED BY <2>2, <2>3
<1> QED BY <1>5, <1>6

\* The requests after an operation of the user: those before, and one more.
LEMMA AfterOperation ==
  ASSUME DashboardTypeOK, NEW e \in Requested, pending' = Append(pending, e)
  PROVE  /\ pending' \in Seq(Requested) /\ DOMAIN pending' = 1..(Len(pending) + 1)
         /\ Len(pending) \in Nat /\ Len(pending') = Len(pending) + 1 /\ DOMAIN pending = 1..Len(pending)
         /\ pending'[Len(pending) + 1] = e
         /\ \A j \in 1..Len(pending) : pending'[j] = pending[j]
BY DEF DashboardTypeOK

LEMMA RenderedForm ==
  ASSUME NEW v, NEW root, NEW sum, NEW others, Rendered(v, root, sum, others)
  PROVE  /\ \/ pending' = others
            \/ \E e \in Requested : /\ pending' = Append(others, e) /\ e.stage \in {"series", "map"}
                                    /\ e.scenario = scenarioId
         /\ DOMAIN painted' = DOMAIN painted
BY DEF Rendered

\* The parts of the type that every step has to show.
LEMMA TypeParts ==
  ASSUME DashboardTypeOK, UNCHANGED under,
         pending' \in Seq(Requested), under.patient => Len(pending') <= 1,
         scenarioId' \in Scenario, rootId' \in Known, summary' \in Known, currentView' \in View,
         unit' \in Known, DOMAIN painted' = Panel, failed' \in BOOLEAN
  PROVE  DashboardTypeOK'
BY DEF DashboardTypeOK, Known, Requested, Stages, Condition, View, Panel, Panels

LEMMA OperationTypes ==
  ASSUME DashboardTypeOK, UnitAsked,
         (\E s \in Scenario : Select(s)) \/ (\E v \in View : Navigate(v)) \/ Choose
  PROVE  DashboardTypeOK' /\ UnitAsked'
<1>0. /\ scenarioId \in Scenario /\ rootId \in Known /\ summary \in Known /\ currentView \in View
      /\ unit \in Known /\ DOMAIN painted = Panel /\ failed \in BOOLEAN /\ pending \in Seq(Requested)
      /\ under.patient => Len(pending) <= 1
  BY DEF DashboardTypeOK
<1>1. ASSUME NEW e \in Requested, pending' = Append(pending, e), under.patient => pending = <<>>,
             UNCHANGED <<under, rootId, summary, unit>>, failed' \in BOOLEAN, scenarioId' \in Scenario,
             currentView' \in View, DOMAIN painted' = DOMAIN painted,
             e.stage \in {"scenarios", "series", "map"} \/ (e.stage = "chosen" /\ e.root = unit /\ unit # NoScenario)
      PROVE  DashboardTypeOK' /\ UnitAsked'
  <2>1. /\ pending' \in Seq(Requested) /\ DOMAIN pending' = 1..(Len(pending) + 1)
        /\ Len(pending) \in Nat /\ Len(pending') = Len(pending) + 1 /\ DOMAIN pending = 1..Len(pending)
        /\ pending'[Len(pending) + 1] = e
        /\ \A j \in 1..Len(pending) : pending'[j] = pending[j]
    BY <1>1, AfterOperation
  <2>2. under.patient => Len(pending') <= 1
    <3>1. under.patient => Len(pending) = 0
      BY <1>1
    <3> QED BY <2>1, <3>1
  <2>3. DashboardTypeOK'
    BY <1>0, <1>1, <2>1, <2>2, TypeParts
  <2>4. ASSUME NEW j \in DOMAIN pending'
        PROVE  /\ pending'[j].stage = "health" => pending'[j].root # NoScenario
               /\ pending'[j].stage \in {"balance", "chosen"} => pending'[j].root = unit' /\ unit' # NoScenario
    <3>1. CASE j = Len(pending) + 1
      BY <1>1, <2>1, <3>1
    <3>2. CASE j # Len(pending) + 1
      <4>1. j \in DOMAIN pending /\ pending'[j] = pending[j]
        BY <2>1, <3>2
      <4> QED BY <1>1, <4>1 DEF UnitAsked
    <3> QED BY <3>1, <3>2
  <2> QED BY <2>3, <2>4 DEF UnitAsked
<1>2. ASSUME NEW s \in Scenario, Select(s) PROVE DashboardTypeOK' /\ UnitAsked'
  <2>1. /\ scenarioId' = s /\ failed' = FALSE /\ (under.patient => pending = <<>>)
        /\ UNCHANGED <<under, rootId, summary, currentView, unit, painted>>
    BY <1>2, SelectAsks
  <2>2. PICK e \in Requested : pending' = Append(pending, e) /\ e.stage = "scenarios"
    BY <1>2, SelectAsks
  <2> QED BY <1>0, <1>1, <2>1, <2>2
<1>3. CASE Choose
  <2>1. /\ (under.patient => pending = <<>>) /\ unit # NoScenario
        /\ UNCHANGED <<under, scenarioId, rootId, summary, currentView, unit, painted, failed>>
    BY <1>3, ChooseAsks
  <2>2. PICK e \in Requested : pending' = Append(pending, e) /\ e.stage = "chosen" /\ e.root = unit
    BY <1>3, ChooseAsks
  <2> QED BY <1>0, <1>1, <2>1, <2>2
<1>4. ASSUME NEW v \in View, Navigate(v) PROVE DashboardTypeOK' /\ UnitAsked'
  <2>1. /\ currentView' = v /\ (under.patient => pending = <<>>)
        /\ UNCHANGED <<under, scenarioId, rootId, summary, unit, failed>>
        /\ DOMAIN painted' = DOMAIN painted
        /\ \/ pending' = pending
           \/ \E e \in Requested : pending' = Append(pending, e) /\ e.stage \in {"series", "map"}
    BY <1>4, NavigateAsks, RenderedForm
  <2>2. CASE pending' = pending
    <3>1. DashboardTypeOK'
      BY <1>0, <2>1, <2>2, TypeParts
    <3> QED BY <2>1, <2>2, <3>1 DEF UnitAsked
  <2>3. ASSUME NEW e \in Requested, pending' = Append(pending, e), e.stage \in {"series", "map"}
        PROVE  DashboardTypeOK' /\ UnitAsked'
    BY <1>0, <1>1, <2>1, <2>3
  <2> QED BY <2>1, <2>2, <2>3
<1> QED BY <1>2, <1>3, <1>4

LEMMA AnswerTypes ==
  ASSUME DashboardTypeOK, UnitAsked, NEW i \in DOMAIN pending, Arrives(i)
  PROVE  DashboardTypeOK' /\ UnitAsked'
<1>0. /\ scenarioId \in Scenario /\ rootId \in Known /\ summary \in Known /\ currentView \in View
      /\ unit \in Known /\ DOMAIN painted = Panel /\ failed \in BOOLEAN /\ pending \in Seq(Requested)
      /\ (under.patient => Len(pending) <= 1) /\ pending[i].scenario \in Known /\ pending[i].root \in Known
  BY InFlight DEF DashboardTypeOK, Known
<1>1. ASSUME Ends(i) \/ \E e : GoesOn(i, e), UNCHANGED under, DOMAIN painted' = DOMAIN painted,
             UNCHANGED <<scenarioId, currentView>>, rootId' \in Known, summary' \in Known,
             unit' \in Known, failed' \in BOOLEAN
      PROVE  DashboardTypeOK'
  <2>1. pending' \in Seq(Requested) /\ Len(pending') \in Nat /\ Len(pending') <= Len(pending) /\ Len(pending) \in Nat
    BY <1>1, AfterAnswer, InFlight
  <2>2. under.patient => Len(pending') <= 1
    BY <1>0, <2>1
  <2> QED BY <1>0, <1>1, <2>1, <2>2, TypeParts
<1>2. ASSUME Ends(i), UNCHANGED unit PROVE UnitAsked'
  BY <1>2, EndsWhere DEF UnitAsked
<1>3. ASSUME NEW e, GoesOn(i, e), UNCHANGED unit,
             e.stage = "health" => e.root # NoScenario, e.stage \notin {"balance", "chosen"}
      PROVE  UnitAsked'
  BY <1>3, GoesOnWhere DEF UnitAsked
<1>4. CASE ScenariosArrive(i)
  <2>1. /\ UNCHANGED <<under, scenarioId, rootId, summary, currentView, unit, painted, failed>>
        /\ \E e : GoesOn(i, e) /\ e.stage = "root"
    BY <1>4, LoadGoesOn
  <2> QED BY <1>0, <1>1, <1>3, <2>1
<1>5. CASE RootArrives(i)
  <2>1. /\ rootId' = pending[i].scenario
        /\ UNCHANGED <<under, scenarioId, summary, currentView, unit, painted, failed>>
        /\ \E e : GoesOn(i, e) /\ e.stage = "summary"
    BY <1>5, LoadGoesOn
  <2> QED BY <1>0, <1>1, <1>3, <2>1
<1>6. CASE SummaryArrives(i)
  <2>1. /\ summary' = pending[i].scenario
        /\ UNCHANGED <<under, scenarioId, rootId, currentView, unit, failed>>
        /\ Rendered(currentView, rootId, pending[i].scenario, Without(pending, i))
    BY <1>6, LoadGoesOn
  <2>2. /\ DOMAIN painted' = DOMAIN painted
        /\ Ends(i) \/ \E e : GoesOn(i, e) /\ e.stage \in {"series", "map"}
    BY <2>1, RenderedForm DEF Ends, GoesOn
  <2> QED BY <1>0, <1>1, <1>2, <1>3, <2>1, <2>2
<1>7. CASE SeriesArrives(i)
  <2>1. ViewKeeps /\ UNCHANGED unit /\ DOMAIN painted' = DOMAIN painted /\ Ends(i)
    BY <1>7, SeriesAsks
  <2> QED BY <1>0, <1>1, <1>2, <2>1 DEF ViewKeeps
<1>8. CASE MapArrives(i)
  <2>1. /\ ViewKeeps /\ UNCHANGED <<unit, painted>>
        /\ \E e : GoesOn(i, e) /\ e.stage = "health" /\ e.root # NoScenario
    BY <1>8, MapAsks
  <2> QED BY <1>0, <1>1, <1>3, <2>1 DEF ViewKeeps
<1>9. ASSUME NEW served \in BOOLEAN, HealthArrives(i, served) PROVE DashboardTypeOK' /\ UnitAsked'
  <2>1. pending[i].root # NoScenario
    <3>1. pending[i].stage = "health"
      BY <1>9 DEF HealthArrives, Awaits
    <3> QED BY <3>1 DEF UnitAsked
  <2>2. ViewKeeps /\ DOMAIN painted' = DOMAIN painted
    BY <1>9, <2>1, HealthAsks
  <2>3. CASE Ends(i) /\ UNCHANGED unit
    BY <1>0, <1>1, <1>2, <2>2, <2>3 DEF ViewKeeps
  <2>4. CASE /\ unit' = IF unit = NoScenario THEN pending[i].root ELSE unit
             /\ unit' \in Known \ {NoScenario}
             /\ \E e : GoesOn(i, e) /\ e.stage = "balance" /\ e.root = unit'
    <3>1. PICK e : GoesOn(i, e) /\ e.stage = "balance" /\ e.root = unit'
      BY <2>4
    <3>2. DashboardTypeOK'
      BY <1>0, <1>1, <2>2, <2>4, <3>1 DEF ViewKeeps
    <3>3. ASSUME NEW j \in DOMAIN pending'
          PROVE  /\ pending'[j].stage = "health" => pending'[j].root # NoScenario
                 /\ pending'[j].stage \in {"balance", "chosen"} => pending'[j].root = unit' /\ unit' # NoScenario
      <4>1. CASE pending'[j] = e
        BY <2>4, <3>1, <4>1
      <4>2. ASSUME NEW k \in DOMAIN pending, pending'[j] = pending[k]
            PROVE  /\ pending'[j].stage = "health" => pending'[j].root # NoScenario
                   /\ pending'[j].stage \in {"balance", "chosen"} => pending'[j].root = unit' /\ unit' # NoScenario
        BY <2>4, <4>2 DEF UnitAsked
      <4> QED BY <3>1, <4>1, <4>2, GoesOnWhere
    <3> QED BY <3>2, <3>3 DEF UnitAsked
  <2> QED BY <1>9, <2>1, <2>3, <2>4, HealthAsks
<1>10. CASE BalanceArrives(i)
  <2>1. /\ ViewKeeps /\ UNCHANGED unit /\ DOMAIN painted' = DOMAIN painted
        /\ \E e : GoesOn(i, e) /\ e.stage = "asset"
    BY <1>10, BalanceAsks
  <2> QED BY <1>0, <1>1, <1>3, <2>1 DEF ViewKeeps
<1>11. ASSUME NEW served \in BOOLEAN, AssetArrives(i, served) PROVE DashboardTypeOK' /\ UnitAsked'
  <2>1. /\ ViewKeeps /\ UNCHANGED unit /\ DOMAIN painted' = DOMAIN painted
        /\ Ends(i) \/ \E e : GoesOn(i, e) /\ e.stage = "thermal"
    BY <1>11, AssetAsks
  <2> QED BY <1>0, <1>1, <1>2, <1>3, <2>1 DEF ViewKeeps
<1>12. ASSUME NEW stage, NEW panel, ChartArrives(i, stage, panel) PROVE DashboardTypeOK' /\ UnitAsked'
  <2>1. ViewKeeps /\ UNCHANGED unit /\ DOMAIN painted' = DOMAIN painted /\ Ends(i)
    BY <1>12, ChartAsks
  <2> QED BY <1>0, <1>1, <1>2, <2>1 DEF ViewKeeps
<1>13. CASE Fails(i)
  <2>1. /\ UNCHANGED <<under, scenarioId, rootId, summary, currentView, unit, painted>>
        /\ failed' = (failed \/ (Servable(pending[i]) /\ ~Doubtful(pending[i]))) /\ Ends(i)
    BY <1>13, FailAsks
  <2> QED BY <1>0, <1>1, <1>2, <2>1
<1> QED BY <1>4, <1>5, <1>6, <1>7, <1>8, <1>9, <1>10, <1>11, <1>12, <1>13 DEF Arrives

(***************************************************************************)
(* The dashboard: the load of the selection leads until it is done.        *)
(***************************************************************************)
LEMMA StageTurns ==
  /\ Loading("scenarios") = 1 /\ Loading("root") = 2 /\ Loading("summary") = 3
  /\ \A s \in Stages \ {"scenarios", "root", "summary"} : Loading(s) = 4
  /\ \A s \in Stages : Loading(s) \in 1..4
  /\ Drawing("map") = 1 /\ Drawing("health") = 2 /\ Drawing("balance") = 3 /\ Drawing("asset") = 4
  /\ \A s \in Stages \ {"map", "health", "balance", "asset"} : Drawing(s) = 5
  /\ \A s \in Stages : Drawing(s) \in 1..5
BY DEF Loading, Drawing, Stages

LEMMA FirstEnds ==
  ASSUME DashboardTypeOK, NEW n \in Nat, n = Len(pending), 1 \in DOMAIN pending, Ends(1)
  PROVE  /\ n >= 1 /\ DOMAIN pending = 1..n /\ DOMAIN pending' = 1..(n - 1)
         /\ \A j \in 1..(n - 1) : pending'[j] = pending[j + 1]
<1>1. pending \in Seq(Requested) /\ n >= 1 /\ DOMAIN pending = 1..n /\ 1 \in 1..Len(pending)
  BY InFlight
<1>2. /\ Without(pending, 1) \in Seq(Requested) /\ Len(Without(pending, 1)) = n - 1
      /\ \A j \in 1..(n - 1) : Without(pending, 1)[j] = IF j < 1 THEN pending[j] ELSE pending[j + 1]
  BY <1>1, Removed
<1>3. \A j \in 1..(n - 1) : Without(pending, 1)[j] = pending[j + 1]
  BY <1>2
<1> QED BY <1>1, <1>2, <1>3 DEF Ends

LEMMA FirstGoesOn ==
  ASSUME DashboardTypeOK, NEW n \in Nat, n = Len(pending), 1 \in DOMAIN pending, NEW e, GoesOn(1, e)
  PROVE  /\ n >= 1 /\ DOMAIN pending = 1..n /\ DOMAIN pending' = 1..n /\ pending'[n] = e
         /\ \A j \in 1..(n - 1) : pending'[j] = pending[j + 1]
<1>1. pending \in Seq(Requested) /\ n >= 1 /\ DOMAIN pending = 1..n /\ 1 \in 1..Len(pending)
  BY InFlight
<1>2. /\ Without(pending, 1) \in Seq(Requested) /\ Len(Without(pending, 1)) = n - 1
      /\ \A j \in 1..(n - 1) : Without(pending, 1)[j] = IF j < 1 THEN pending[j] ELSE pending[j + 1]
  BY <1>1, Removed
<1>3. \A j \in 1..(n - 1) : Without(pending, 1)[j] = pending[j + 1]
  BY <1>2
<1>4. e \in Requested /\ pending' = Append(Without(pending, 1), e)
  BY DEF GoesOn
<1> QED BY <1>1, <1>2, <1>3, <1>4

\* A step of another handler leaves the load in the lead.
LEMMA LoadStays ==
  ASSUME DashboardTypeOK, NEW p \in DOMAIN pending, LoadLeads(p), UNCHANGED <<scenarioId, rootId, scenarioConfig>>,
         \/ pending' = pending
         \/ \E e \in Requested : /\ pending' = Append(pending, e) /\ Loading(e.stage) = 4
                                 /\ e.scenario = scenarioId /\ e.stage # "thermal"
  PROVE  p \in DOMAIN pending' /\ LoadLeads(p)'
<1>1. CASE pending' = pending
  BY <1>1 DEF LoadLeads
<1>2. ASSUME NEW e \in Requested, pending' = Append(pending, e), Loading(e.stage) = 4,
             e.scenario = scenarioId, e.stage # "thermal"
      PROVE  p \in DOMAIN pending' /\ LoadLeads(p)'
  <2>0. PICK n \in Nat : n = Len(pending)
    BY InFlight
  <2>1. /\ DOMAIN pending' = 1..(n + 1) /\ DOMAIN pending = 1..n /\ pending'[n + 1] = e
        /\ \A j \in 1..n : pending'[j] = pending[j]
    BY <1>2, <2>0, AfterOperation
  <2>2. p \in 1..n /\ p \in DOMAIN pending' /\ pending'[p] = pending[p] /\ Loading(pending[p].stage) \in 1..3
    BY <2>1, InFlight, StageTurns DEF LoadLeads
  <2>3. ASSUME NEW j \in DOMAIN pending'
        PROVE  /\ j < p => Loading(pending'[j].stage) >= Loading(pending'[p].stage)
               /\ j > p => Loading(pending'[j].stage) > Loading(pending'[p].stage)
               /\ Loading(pending'[j].stage) = 4 =>
                    pending'[j].scenario = scenarioId' \/ (Loading(pending'[p].stage) = 1 /\ j < p)
               /\ pending'[j].stage = "thermal" =>
                    pending'[j].root = scenarioId' \/ Loading(pending'[p].stage) = 1
                      \/ (Loading(pending'[p].stage) = 2 /\ j < p)
    <3>1. CASE j \in 1..n
      BY <2>1, <2>2, <3>1 DEF LoadLeads
    <3>2. CASE j = n + 1
      BY <1>2, <2>1, <2>2, <3>2
    <3> QED BY <2>1, <3>1, <3>2
  <2> QED BY <2>2, <2>3 DEF LoadLeads
<1> QED BY <1>1, <1>2

\* An answer to an older handler brings the load one place forward.
LEMMA LoadShifts ==
  ASSUME DashboardTypeOK, 1 \in DOMAIN pending, NEW p \in DOMAIN pending, p # 1, LoadLeads(p),
         UNCHANGED scenarioId,
         scenarioConfig' = scenarioConfig \/ Loading(pending[1].stage) = 1,
         rootId' = rootId \/ Loading(pending[1].stage) = 2,
         \/ Ends(1)
         \/ \E e : /\ GoesOn(1, e)
                   /\ \/ Loading(e.stage) = Loading(pending[1].stage) + 1 /\ Loading(e.stage) <= 3
                      \/ /\ Loading(e.stage) = 4 /\ e.scenario = scenarioId
                         /\ e.stage = "thermal" =>
                              Loading(pending[1].stage) = 4 /\ e.root = pending[1].scenario
  PROVE  p - 1 \in DOMAIN pending' /\ LoadLeads(p - 1)'
<1>0. PICK n \in Nat : n = Len(pending)
  BY InFlight
<1> DEFINE turn(j) == Loading(pending[j].stage)
<1>1. n >= 1 /\ DOMAIN pending = 1..n /\ p \in 2..n /\ \A j \in 1..n : turn(j) \in 1..4
  BY <1>0, InFlight, StageTurns
<1>2. /\ pending[p].scenario = scenarioId /\ turn(p) \in 1..3 /\ turn(1) >= turn(p)
      /\ \A j \in 1..n :
           /\ j < p => turn(j) >= turn(p)
           /\ j > p => turn(j) > turn(p)
           /\ turn(j) = 4 => pending[j].scenario = scenarioId \/ (turn(p) = 1 /\ j < p)
           /\ pending[j].stage = "thermal" =>
                pending[j].root = scenarioId \/ turn(p) = 1 \/ (turn(p) = 2 /\ j < p)
      /\ turn(p) >= 2 => scenarioConfig = scenarioId
      /\ turn(p) >= 3 => rootId = scenarioId
  BY <1>1 DEF LoadLeads
<1>3. /\ \A j \in 1..(n - 1) : pending'[j] = pending[j + 1]
      /\ \/ DOMAIN pending' = 1..(n - 1)
         \/ /\ DOMAIN pending' = 1..n
            /\ \/ Loading(pending'[n].stage) = turn(1) + 1 /\ Loading(pending'[n].stage) <= 3
               \/ /\ Loading(pending'[n].stage) = 4 /\ pending'[n].scenario = scenarioId
                  /\ pending'[n].stage = "thermal" =>
                       turn(1) = 4 /\ pending'[n].root = pending[1].scenario
  <2>1. CASE Ends(1)
    BY <1>0, <2>1, FirstEnds
  <2>2. ASSUME NEW e, GoesOn(1, e)
        PROVE  DOMAIN pending' = 1..n /\ pending'[n] = e /\ \A j \in 1..(n - 1) : pending'[j] = pending[j + 1]
    BY <1>0, <2>2, FirstGoesOn
  <2> QED BY <2>1, <2>2
<1>4. p - 1 \in 1..(n - 1) /\ p - 1 \in DOMAIN pending' /\ pending'[p - 1] = pending[p]
  BY <1>1, <1>3
<1>5. ASSUME NEW j \in DOMAIN pending'
      PROVE  /\ j < p - 1 => Loading(pending'[j].stage) >= turn(p)
             /\ j > p - 1 => Loading(pending'[j].stage) > turn(p)
             /\ Loading(pending'[j].stage) = 4 =>
                  pending'[j].scenario = scenarioId \/ (turn(p) = 1 /\ j < p - 1)
             /\ pending'[j].stage = "thermal" =>
                  pending'[j].root = scenarioId \/ turn(p) = 1 \/ (turn(p) = 2 /\ j < p - 1)
  <2>1. CASE j \in 1..(n - 1)
    <3>1. j + 1 \in 1..n /\ pending'[j] = pending[j + 1]
      BY <1>1, <1>3, <2>1
    <3>2. (j < p - 1 <=> j + 1 < p) /\ (j > p - 1 <=> j + 1 > p)
      BY <1>1, <2>1
    <3> QED BY <1>2, <3>1, <3>2
  <2>2. CASE j \notin 1..(n - 1)
    <3>1. j = n /\ DOMAIN pending' = 1..n /\ ~(j < p - 1)
      BY <1>1, <1>3, <2>2
    <3>2. pending'[n].stage = "thermal" => Loading(pending'[n].stage) = 4
      BY StageTurns DEF Stages
    <3>3. CASE Loading(pending'[n].stage) = turn(1) + 1 /\ Loading(pending'[n].stage) <= 3
      <4>1. Loading(pending'[n].stage) > turn(p) /\ Loading(pending'[n].stage) # 4
        BY <1>1, <1>2, <3>3
      <4> QED BY <3>1, <3>2, <4>1
    <3>4. CASE /\ Loading(pending'[n].stage) = 4 /\ pending'[n].scenario = scenarioId
               /\ pending'[n].stage = "thermal" => turn(1) = 4 /\ pending'[n].root = pending[1].scenario
      <4>1. turn(1) = 4 => pending[1].scenario = scenarioId \/ turn(p) = 1
        BY <1>1, <1>2
      <4> QED BY <1>2, <3>1, <3>4, <4>1
    <3> QED BY <1>1, <1>3, <3>1, <3>3, <3>4
  <2> QED BY <2>1, <2>2
<1>6. (turn(p) >= 2 => scenarioConfig' = scenarioId) /\ (turn(p) >= 3 => rootId' = scenarioId)
  BY <1>1, <1>2
<1> QED BY <1>2, <1>4, <1>5, <1>6 DEF LoadLeads

\* What is shown after a render with the state of the selection.
LEMMA RenderedFresh ==
  ASSUME DashboardTypeOK, NEW v \in View, NEW others \in Seq(Requested), UNCHANGED scenarioId,
         Rendered(v, scenarioId, scenarioId, others),
         \A j \in DOMAIN others : /\ Loading(others[j].stage) = 4 /\ others[j].scenario = scenarioId
                                  /\ others[j].stage = "thermal" => others[j].root = scenarioId
  PROVE  /\ v = "executive" => ExecutiveFresh'
         /\ v = "network" => NetworkFresh'
         /\ \A j \in DOMAIN pending' :
              /\ Loading(pending'[j].stage) = 4 /\ pending'[j].scenario = scenarioId
              /\ pending'[j].stage = "thermal" => pending'[j].root = scenarioId
<1>0. PICK n \in Nat : n = Len(others)
  OBVIOUS
<1>1. scenarioId # NoScenario /\ DOMAIN others = 1..n /\ "kpis" \in DOMAIN painted
  BY <1>0, DashboardAssumption DEF DashboardTypeOK, Panel, Panels, View
<1>2. ASSUME NEW e \in Requested, pending' = Append(others, e)
      PROVE  /\ DOMAIN pending' = 1..(n + 1) /\ pending'[n + 1] = e
             /\ \A j \in 1..n : pending'[j] = others[j]
  BY <1>0, <1>2
<1>3. ASSUME NEW e \in Requested, pending' = Append(others, e), e.stage \in {"series", "map"}, e.scenario = scenarioId
      PROVE  \A j \in DOMAIN pending' :
              /\ Loading(pending'[j].stage) = 4 /\ pending'[j].scenario = scenarioId
              /\ pending'[j].stage = "thermal" => pending'[j].root = scenarioId
  <2>1. Loading(e.stage) = 4 /\ e.stage # "thermal"
    BY <1>3, StageTurns DEF Stages
  <2> TAKE j \in DOMAIN pending'
  <2>2. j \in 1..n \/ j = n + 1
    BY <1>2, <1>3
  <2> QED BY <1>1, <1>2, <1>3, <2>1, <2>2
<1>4. CASE v = "executive"
  <2>1. PICK e \in Requested :
          /\ pending' = Append(others, e) /\ e.stage = "series" /\ e.scenario = scenarioId
          /\ e.root = scenarioId /\ e.kept = scenarioId
    BY <1>1, <1>4 DEF Rendered
  <2>2. painted'["kpis"] = {scenarioId}
    <3>1. painted' = [painted EXCEPT !["kpis"] = {scenarioId}]
      BY <1>1, <1>4 DEF Rendered
    <3> QED BY <1>1, <3>1
  <2>3. SeriesLeads(n + 1)' /\ n + 1 \in DOMAIN pending'
    BY <1>2, <2>1 DEF SeriesLeads
  <2> QED BY <1>3, <1>4, <2>1, <2>2, <2>3 DEF ExecutiveFresh
<1>5. CASE v = "network"
  <2>1. PICK e \in Requested :
          /\ pending' = Append(others, e) /\ e.stage = "map" /\ e.scenario = scenarioId
          /\ e.root = scenarioId /\ e.kept = scenarioId
    BY <1>5 DEF Rendered
  <2>2. Drawing(e.stage) = 1
    BY <2>1, StageTurns
  <2>3. \A j \in DOMAIN pending' : Drawing(pending'[j].stage) >= 1 /\ ~(j > n + 1)
    <3> TAKE j \in DOMAIN pending'
    <3>1. j \in 1..n \/ j = n + 1
      BY <1>2, <2>1
    <3>2. \A k \in 1..n : Drawing(others[k].stage) \in 1..5
      <4>1. \A k \in 1..n : others[k] \in Requested
        BY <1>1
      <4>2. \A k \in 1..n : others[k].stage \in Stages
        BY <4>1 DEF Requested
      <4> QED BY <4>2, StageTurns
    <3> QED BY <1>2, <2>1, <2>2, <3>1, <3>2
  <2>4. NetworkLeads(n + 1)' /\ n + 1 \in DOMAIN pending'
    BY <1>2, <2>1, <2>2, <2>3 DEF NetworkLeads
  <2> QED BY <1>3, <1>5, <2>1, <2>4 DEF NetworkFresh, NetworkShown
<1> QED BY <1>4, <1>5 DEF View

\* The load of the selection gets its first, its second and its last answer.
LEMMA LeaderConfigured ==
  ASSUME DashboardTypeOK, 1 \in DOMAIN pending, LoadLeads(1), ScenariosArrive(1)
  PROVE  \E p \in DOMAIN pending' : LoadLeads(p)'
<1>0. PICK n \in Nat : n = Len(pending)
  BY InFlight
<1>1. /\ pending[1].stage = "scenarios" /\ scenarioConfig' = pending[1].scenario /\ UNCHANGED scenarioId
      /\ \E e : GoesOn(1, e) /\ e.stage = "root" /\ e.scenario = pending[1].scenario
  BY LoadGoesOn
<1>2. PICK e : GoesOn(1, e) /\ e.stage = "root" /\ e.scenario = pending[1].scenario
  BY <1>1
<1>3. /\ n >= 1 /\ DOMAIN pending = 1..n /\ DOMAIN pending' = 1..n /\ pending'[n] = e
      /\ \A j \in 1..(n - 1) : pending'[j] = pending[j + 1]
  BY <1>0, <1>2, FirstGoesOn
<1>4. Loading(pending[1].stage) = 1 /\ Loading(e.stage) = 2 /\ pending[1].scenario = scenarioId
      /\ e.scenario = scenarioId
  BY <1>1, <1>2, StageTurns DEF LoadLeads
<1>5. ASSUME NEW j \in DOMAIN pending'
      PROVE  /\ j < n => Loading(pending'[j].stage) >= 2
             /\ ~(j > n)
             /\ Loading(pending'[j].stage) = 4 => pending'[j].scenario = scenarioId
             /\ pending'[j].stage = "thermal" => j < n
  <2>1. CASE j = n
    BY <1>2, <1>3, <1>4, <2>1
  <2>2. CASE j # n
    <3>1. j \in 1..(n - 1) /\ j + 1 \in DOMAIN pending /\ j + 1 > 1 /\ ~(j + 1 < 1)
      BY <1>3, <2>2
    <3>2. Loading(pending[j + 1].stage) > 1 /\ Loading(pending[j + 1].stage) \in 1..4
          /\ (Loading(pending[j + 1].stage) = 4 => pending[j + 1].scenario = scenarioId)
      BY <1>4, <3>1, InFlight, StageTurns DEF LoadLeads
    <3> QED BY <1>3, <3>1, <3>2
  <2> QED BY <2>1, <2>2
<1>6. n \in DOMAIN pending' /\ scenarioConfig' = scenarioId'
  BY <1>1, <1>3, <1>4
<1>7. LoadLeads(n)'
  BY <1>1, <1>3, <1>4, <1>5, <1>6 DEF LoadLeads
<1> QED BY <1>6, <1>7

LEMMA LeaderRooted ==
  ASSUME DashboardTypeOK, 1 \in DOMAIN pending, LoadLeads(1), RootArrives(1)
  PROVE  \E p \in DOMAIN pending' : LoadLeads(p)'
<1>0. PICK n \in Nat : n = Len(pending)
  BY InFlight
<1>1. /\ pending[1].stage = "root" /\ rootId' = pending[1].scenario /\ UNCHANGED <<scenarioId, scenarioConfig>>
      /\ \E e : GoesOn(1, e) /\ e.stage = "summary" /\ e.scenario = pending[1].scenario
  BY LoadGoesOn
<1>2. PICK e : GoesOn(1, e) /\ e.stage = "summary" /\ e.scenario = pending[1].scenario
  BY <1>1
<1>3. /\ n >= 1 /\ DOMAIN pending = 1..n /\ DOMAIN pending' = 1..n /\ pending'[n] = e
      /\ \A j \in 1..(n - 1) : pending'[j] = pending[j + 1]
  BY <1>0, <1>2, FirstGoesOn
<1>4. Loading(pending[1].stage) = 2 /\ Loading(e.stage) = 3 /\ pending[1].scenario = scenarioId
      /\ e.scenario = scenarioId /\ scenarioConfig = scenarioId
  BY <1>1, <1>2, StageTurns DEF LoadLeads
<1>5. ASSUME NEW j \in DOMAIN pending'
      PROVE  /\ j < n => Loading(pending'[j].stage) >= 3
             /\ ~(j > n)
             /\ Loading(pending'[j].stage) = 4 => pending'[j].scenario = scenarioId
             /\ pending'[j].stage = "thermal" => pending'[j].root = scenarioId
  <2>1. CASE j = n
    BY <1>2, <1>3, <1>4, <2>1
  <2>2. CASE j # n
    <3>1. j \in 1..(n - 1) /\ j + 1 \in DOMAIN pending /\ j + 1 > 1 /\ ~(j + 1 < 1)
      BY <1>3, <2>2
    <3>2. Loading(pending[j + 1].stage) > 2 /\ Loading(pending[j + 1].stage) \in 1..4
          /\ (Loading(pending[j + 1].stage) = 4 => pending[j + 1].scenario = scenarioId)
          /\ (pending[j + 1].stage = "thermal" => pending[j + 1].root = scenarioId)
      BY <1>4, <3>1, InFlight, StageTurns DEF LoadLeads
    <3> QED BY <1>3, <3>1, <3>2
  <2> QED BY <2>1, <2>2
<1>6. n \in DOMAIN pending' /\ rootId' = scenarioId' /\ scenarioConfig' = scenarioId'
  BY <1>1, <1>3, <1>4
<1>7. LoadLeads(n)'
  BY <1>1, <1>3, <1>4, <1>5, <1>6 DEF LoadLeads
<1> QED BY <1>6, <1>7

LEMMA LeaderLoaded ==
  ASSUME DashboardTypeOK, 1 \in DOMAIN pending, LoadLeads(1), SummaryArrives(1)
  PROVE  Loaded'
<1>0. PICK n \in Nat : n = Len(pending)
  BY InFlight
<1>1. /\ pending[1].stage = "summary"
      /\ summary' = pending[1].scenario /\ header' = <<pending[1].scenario, pending[1].scenario>>
      /\ UNCHANGED <<scenarioId, rootId, scenarioConfig, currentView>>
      /\ Rendered(currentView, rootId, pending[1].scenario, Without(pending, 1))
  BY LoadGoesOn
<1>2. Loading(pending[1].stage) = 3 /\ pending[1].scenario = scenarioId
      /\ scenarioConfig = scenarioId /\ rootId = scenarioId
  BY <1>1, StageTurns DEF LoadLeads
<1>3. /\ Without(pending, 1) \in Seq(Requested) /\ DOMAIN Without(pending, 1) = 1..(n - 1)
      /\ n >= 1 /\ DOMAIN pending = 1..n
      /\ \A j \in 1..(n - 1) : Without(pending, 1)[j] = pending[j + 1]
  <2>1. pending \in Seq(Requested) /\ n >= 1 /\ DOMAIN pending = 1..n /\ 1 \in 1..Len(pending)
    BY <1>0, InFlight
  <2>2. /\ Without(pending, 1) \in Seq(Requested) /\ Len(Without(pending, 1)) = n - 1
        /\ \A j \in 1..(n - 1) : Without(pending, 1)[j] = IF j < 1 THEN pending[j] ELSE pending[j + 1]
    BY <1>0, <2>1, Removed
  <2> QED BY <2>1, <2>2
<1>4. ASSUME NEW j \in DOMAIN Without(pending, 1)
      PROVE  /\ Loading(Without(pending, 1)[j].stage) = 4 /\ Without(pending, 1)[j].scenario = scenarioId
             /\ Without(pending, 1)[j].stage = "thermal" => Without(pending, 1)[j].root = scenarioId
  <2>1. j \in 1..(n - 1) /\ j + 1 \in DOMAIN pending /\ j + 1 > 1 /\ ~(j + 1 < 1)
    BY <1>3
  <2>2. Loading(pending[j + 1].stage) > 3 /\ Loading(pending[j + 1].stage) \in 1..4
        /\ (Loading(pending[j + 1].stage) = 4 => pending[j + 1].scenario = scenarioId)
        /\ (pending[j + 1].stage = "thermal" => pending[j + 1].root = scenarioId)
    BY <1>2, <2>1, InFlight, StageTurns DEF LoadLeads
  <2> QED BY <1>3, <2>1, <2>2
<1>5. currentView \in View
  BY DEF DashboardTypeOK
<1>6. Rendered(currentView, scenarioId, scenarioId, Without(pending, 1))
  BY <1>1, <1>2
<1>7. /\ currentView = "executive" => ExecutiveFresh'
      /\ currentView = "network" => NetworkFresh'
      /\ \A j \in DOMAIN pending' :
           /\ Loading(pending'[j].stage) = 4 /\ pending'[j].scenario = scenarioId
           /\ pending'[j].stage = "thermal" => pending'[j].root = scenarioId
  BY <1>1, <1>3, <1>4, <1>5, <1>6, RenderedFresh
<1> QED BY <1>1, <1>2, <1>7 DEF Loaded

(***************************************************************************)
(* The dashboard: the views of a loaded selection.                         *)
(***************************************************************************)

\* The panels are the keys of painted.
LEMMA PanelNames ==
  /\ Panels("executive") = {"kpis", "series", "causes"}
  /\ Panels("network") = {"netKpis", "balance", "map", "asset", "thermal"}
  /\ Panel = {"kpis", "series", "causes", "netKpis", "balance", "map", "asset", "thermal"}
BY DEF Panels, Panel, View

\* A view asks on behalf of the selection, and its charts are of it.
AsksOn(e) == /\ Loading(e.stage) = 4 /\ e.scenario = scenarioId
             /\ e.stage = "thermal" => e.root = scenarioId

LEMMA FlightKept ==
  ASSUME DashboardTypeOK, 1 \in DOMAIN pending, Loaded, UNCHANGED scenarioId,
         Ends(1) \/ \E e : GoesOn(1, e) /\ AsksOn(e)
  PROVE  \A j \in DOMAIN pending' :
           /\ Loading(pending'[j].stage) = 4 /\ pending'[j].scenario = scenarioId'
           /\ pending'[j].stage = "thermal" => pending'[j].root = scenarioId'
<1>1. CASE Ends(1)
  BY <1>1, EndsWhere DEF Loaded
<1>2. ASSUME NEW e, GoesOn(1, e), AsksOn(e)
      PROVE  \A j \in DOMAIN pending' :
               /\ Loading(pending'[j].stage) = 4 /\ pending'[j].scenario = scenarioId'
               /\ pending'[j].stage = "thermal" => pending'[j].root = scenarioId'
  BY <1>2, GoesOnWhere DEF Loaded, AsksOn
<1> QED BY <1>1, <1>2

\* The executive view: the last request for the series moves up or is answered.
LEMMA ExecutiveShifts ==
  ASSUME DashboardTypeOK, 1 \in DOMAIN pending, ExecutiveFresh, UNCHANGED scenarioId,
         painted'["kpis"] = painted["kpis"],
         \/ /\ pending[1].stage # "series"
            /\ painted'["series"] = painted["series"] /\ painted'["causes"] = painted["causes"]
            /\ Ends(1) \/ \E e : GoesOn(1, e) /\ e.stage # "series"
         \/ /\ pending[1].stage = "series" /\ pending[1].scenario = scenarioId /\ Ends(1)
            /\ painted'["series"] = {pending[1].root, pending[1].scenario}
            /\ painted'["causes"] = {pending[1].kept}
         \/ /\ ~SeriesLeads(1) /\ pending[1].stage = "series" /\ Ends(1)
  PROVE  ExecutiveFresh'
<1>0. PICK n \in Nat : n = Len(pending)
  BY InFlight
<1>1. /\ n >= 1 /\ DOMAIN pending = 1..n
      /\ \A j \in 1..(n - 1) : pending'[j] = pending[j + 1]
      /\ \/ DOMAIN pending' = 1..(n - 1)
         \/ /\ DOMAIN pending' = 1..n /\ pending'[n].stage # "series" /\ pending[1].stage # "series"
  <2>1. CASE Ends(1)
    BY <1>0, <2>1, FirstEnds
  <2>2. ASSUME NEW e, GoesOn(1, e), e.stage # "series", pending[1].stage # "series"
        PROVE  /\ n >= 1 /\ DOMAIN pending = 1..n /\ DOMAIN pending' = 1..n /\ pending'[n] = e
               /\ \A j \in 1..(n - 1) : pending'[j] = pending[j + 1]
    BY <1>0, <2>2, FirstGoesOn
  <2> QED BY <2>1, <2>2
<1>2. \A j \in DOMAIN pending' : pending'[j].stage = "series" =>
        j \in 1..(n - 1) /\ j + 1 \in 1..n /\ pending[j + 1].stage = "series"
  BY <1>1
<1>3. ASSUME NEW p \in DOMAIN pending, SeriesLeads(p), p # 1
      PROVE  p - 1 \in DOMAIN pending' /\ SeriesLeads(p - 1)'
  <2>1. p \in 2..n /\ p - 1 \in 1..(n - 1) /\ p - 1 \in DOMAIN pending' /\ pending'[p - 1] = pending[p]
    BY <1>1, <1>3
  <2>2. \A j \in DOMAIN pending' : pending'[j].stage = "series" => j <= p - 1
    <3> TAKE j \in DOMAIN pending'
    <3> SUFFICES ASSUME pending'[j].stage = "series" PROVE j <= p - 1
      OBVIOUS
    <3>1. j \in 1..(n - 1) /\ j + 1 \in DOMAIN pending /\ pending[j + 1].stage = "series"
      BY <1>1, <1>2
    <3>2. j + 1 <= p
      BY <1>3, <3>1 DEF SeriesLeads
    <3> QED BY <2>1, <3>1, <3>2
  <2> QED BY <1>3, <2>1, <2>2 DEF SeriesLeads
<1>4. ASSUME SeriesLeads(1)
      PROVE  /\ \A j \in DOMAIN pending' : pending'[j].stage # "series"
             /\ painted'["series"] \subseteq {scenarioId} /\ painted'["causes"] \subseteq {scenarioId}
  <2>1. /\ pending[1].stage = "series" /\ pending[1].root = scenarioId /\ pending[1].kept = scenarioId
        /\ \A j \in DOMAIN pending : pending[j].stage = "series" => j <= 1
    BY <1>4 DEF SeriesLeads
  <2>2. \A j \in DOMAIN pending' : pending'[j].stage # "series"
    <3> TAKE j \in DOMAIN pending'
    <3> SUFFICES ASSUME pending'[j].stage = "series" PROVE FALSE
      OBVIOUS
    <3>1. j \in 1..(n - 1) /\ j + 1 \in DOMAIN pending /\ pending[j + 1].stage = "series"
      BY <1>1, <1>2
    <3>2. j + 1 <= 1
      BY <2>1, <3>1
    <3> QED BY <3>1, <3>2
  <2>3. /\ pending[1].scenario = scenarioId
        /\ painted'["series"] = {pending[1].root, pending[1].scenario}
        /\ painted'["causes"] = {pending[1].kept}
    BY <1>4, <2>1
  <2> QED BY <2>1, <2>2, <2>3
<1>5. ASSUME \A j \in DOMAIN pending : pending[j].stage # "series",
             painted["series"] \subseteq {scenarioId}, painted["causes"] \subseteq {scenarioId}
      PROVE  /\ \A j \in DOMAIN pending' : pending'[j].stage # "series"
             /\ painted'["series"] \subseteq {scenarioId} /\ painted'["causes"] \subseteq {scenarioId}
  <2>1. pending[1].stage # "series"
    BY <1>5
  <2>2. \A j \in DOMAIN pending' : pending'[j].stage # "series"
    BY <1>1, <1>2, <1>5
  <2> QED BY <1>5, <2>1, <2>2
<1> QED BY <1>3, <1>4, <1>5 DEF ExecutiveFresh

\* The network view: the handler that leads moves up, as an older one is answered.
LEMMA NetworkShifts ==
  ASSUME DashboardTypeOK, 1 \in DOMAIN pending, NEW p \in DOMAIN pending, p # 1, NetworkLeads(p),
         UNCHANGED scenarioId,
         Ends(1) \/ \E e : GoesOn(1, e) /\ Drawing(e.stage) = Drawing(pending[1].stage) + 1,
         painted'["netKpis"] = painted["netKpis"] \/ Drawing(pending[1].stage) = 2,
         painted'["balance"] = painted["balance"] \/ painted'["balance"] \subseteq {scenarioId}
           \/ Drawing(pending[1].stage) = 3,
         painted'["map"] = painted["map"] \/ painted'["map"] \subseteq {scenarioId}
           \/ Drawing(pending[1].stage) = 3
  PROVE  p - 1 \in DOMAIN pending' /\ NetworkLeads(p - 1)'
<1>0. PICK n \in Nat : n = Len(pending)
  BY InFlight
<1> DEFINE turn(j) == Drawing(pending[j].stage)
<1>1. n >= 1 /\ DOMAIN pending = 1..n /\ p \in 2..n /\ \A j \in 1..n : turn(j) \in 1..5
  BY <1>0, InFlight, StageTurns
<1>2. /\ turn(p) \in 1..4 /\ turn(1) >= turn(p)
      /\ \A j \in 1..n : (j < p => turn(j) >= turn(p)) /\ (j > p => turn(j) > turn(p))
      /\ turn(p) <= 2 => pending[p].root = scenarioId /\ pending[p].kept = scenarioId
      /\ turn(p) \in {2, 3} => pending[p].of = {scenarioId}
      /\ turn(p) >= 3 => painted["netKpis"] \subseteq {scenarioId}
      /\ turn(p) >= 4 => painted["balance"] \subseteq {scenarioId} /\ painted["map"] \subseteq {scenarioId}
  BY <1>1 DEF NetworkLeads
<1>3. /\ \A j \in 1..(n - 1) : pending'[j] = pending[j + 1]
      /\ \/ DOMAIN pending' = 1..(n - 1)
         \/ DOMAIN pending' = 1..n /\ Drawing(pending'[n].stage) = turn(1) + 1
  <2>1. CASE Ends(1)
    BY <1>0, <2>1, FirstEnds
  <2>2. ASSUME NEW e, GoesOn(1, e)
        PROVE  DOMAIN pending' = 1..n /\ pending'[n] = e /\ \A j \in 1..(n - 1) : pending'[j] = pending[j + 1]
    BY <1>0, <2>2, FirstGoesOn
  <2> QED BY <2>1, <2>2
<1>4. p - 1 \in 1..(n - 1) /\ p - 1 \in DOMAIN pending' /\ pending'[p - 1] = pending[p]
  BY <1>1, <1>3
<1>5. ASSUME NEW j \in DOMAIN pending'
      PROVE  /\ j < p - 1 => Drawing(pending'[j].stage) >= turn(p)
             /\ j > p - 1 => Drawing(pending'[j].stage) > turn(p)
  <2>1. CASE j \in 1..(n - 1)
    <3>1. j + 1 \in 1..n /\ pending'[j] = pending[j + 1]
      BY <1>1, <1>3, <2>1
    <3>2. (j < p - 1 <=> j + 1 < p) /\ (j > p - 1 <=> j + 1 > p)
      BY <1>1, <2>1
    <3> QED BY <1>2, <3>1, <3>2
  <2>2. CASE j \notin 1..(n - 1)
    <3>1. j = n /\ Drawing(pending'[n].stage) = turn(1) + 1 /\ ~(j < p - 1)
      BY <1>1, <1>3, <2>2
    <3>2. Drawing(pending'[n].stage) > turn(p)
      BY <1>1, <1>2, <3>1
    <3> QED BY <3>1, <3>2
  <2> QED BY <2>1, <2>2
<1>6. turn(p) >= 3 => painted'["netKpis"] \subseteq {scenarioId}
  BY <1>1, <1>2
<1>7. turn(p) >= 4 => painted'["balance"] \subseteq {scenarioId} /\ painted'["map"] \subseteq {scenarioId}
  BY <1>1, <1>2
<1>8. turn(p) <= 4
  BY <1>2
<1> QED BY <1>2, <1>4, <1>5, <1>6, <1>7, <1>8 DEF NetworkLeads

\* It is answered itself and goes on.
LEMMA NetworkLeaderMoves ==
  ASSUME DashboardTypeOK, 1 \in DOMAIN pending, NetworkLeads(1), UNCHANGED scenarioId,
         NEW e, GoesOn(1, e), Drawing(e.stage) = Drawing(pending[1].stage) + 1, Drawing(e.stage) <= 4,
         Drawing(e.stage) <= 2 => e.root = scenarioId /\ e.kept = scenarioId,
         Drawing(e.stage) \in {2, 3} => e.of = {scenarioId},
         Drawing(e.stage) >= 3 => painted'["netKpis"] \subseteq {scenarioId},
         Drawing(e.stage) >= 4 => painted'["balance"] \subseteq {scenarioId} /\ painted'["map"] \subseteq {scenarioId}
  PROVE  \E p \in DOMAIN pending' : NetworkLeads(p)'
<1>0. PICK n \in Nat : n = Len(pending)
  BY InFlight
<1>1. /\ n >= 1 /\ DOMAIN pending = 1..n /\ DOMAIN pending' = 1..n /\ pending'[n] = e
      /\ \A j \in 1..(n - 1) : pending'[j] = pending[j + 1]
  BY <1>0, FirstGoesOn
<1>2. ASSUME NEW j \in DOMAIN pending'
      PROVE  (j < n => Drawing(pending'[j].stage) >= Drawing(e.stage)) /\ ~(j > n)
  <2>1. CASE j = n
    BY <1>1, <2>1
  <2>2. CASE j # n
    <3>1. j \in 1..(n - 1) /\ j + 1 \in DOMAIN pending /\ j + 1 > 1
      BY <1>1, <2>2
    <3>2. /\ Drawing(pending[j + 1].stage) > Drawing(pending[1].stage)
          /\ Drawing(pending[j + 1].stage) \in 1..5 /\ Drawing(pending[1].stage) \in 1..5
      BY <3>1, InFlight, StageTurns DEF NetworkLeads
    <3>3. Drawing(pending[j + 1].stage) >= Drawing(pending[1].stage) + 1
      BY <3>2
    <3> QED BY <1>1, <3>1, <3>3
  <2> QED BY <2>1, <2>2
<1>3. n \in DOMAIN pending'
  BY <1>1
<1>4. NetworkLeads(n)'
  BY <1>1, <1>2 DEF NetworkLeads
<1> QED BY <1>3, <1>4

\* It has its last answer; nothing more is to come.
LEMMA NetworkLeaderEnds ==
  ASSUME DashboardTypeOK, 1 \in DOMAIN pending, NetworkLeads(1), Drawing(pending[1].stage) = 4,
         Ends(1) \/ \E e : GoesOn(1, e) /\ Drawing(e.stage) = 5
  PROVE  \A j \in DOMAIN pending' : Drawing(pending'[j].stage) = 5
<1>0. PICK n \in Nat : n = Len(pending)
  BY InFlight
<1>1. n >= 1 /\ DOMAIN pending = 1..n
  BY <1>0, InFlight
<1>2. \A k \in 2..n : Drawing(pending[k].stage) = 5
  <2> TAKE k \in 2..n
  <2>1. k \in DOMAIN pending /\ k > 1
    BY <1>1
  <2>2. Drawing(pending[k].stage) > 4 /\ Drawing(pending[k].stage) \in 1..5
    BY <2>1, InFlight, StageTurns DEF NetworkLeads
  <2> QED BY <2>2
<1>3. \A j \in 1..(n - 1) : j + 1 \in 2..n
  BY <1>1
<1>4. CASE Ends(1)
  <2>1. DOMAIN pending' = 1..(n - 1) /\ \A j \in 1..(n - 1) : pending'[j] = pending[j + 1]
    BY <1>0, <1>4, FirstEnds
  <2> QED BY <1>2, <1>3, <2>1
<1>5. ASSUME NEW e, GoesOn(1, e), Drawing(e.stage) = 5
      PROVE  \A j \in DOMAIN pending' : Drawing(pending'[j].stage) = 5
  <2>1. /\ DOMAIN pending' = 1..n /\ pending'[n] = e
        /\ \A j \in 1..(n - 1) : pending'[j] = pending[j + 1]
    BY <1>0, <1>5, FirstGoesOn
  <2> TAKE j \in DOMAIN pending'
  <2>2. j = n \/ j \in 1..(n - 1)
    BY <1>1, <2>1
  <2> QED BY <1>2, <1>3, <1>5, <2>1, <2>2
<1> QED BY <1>4, <1>5

\* A handler beyond the figures is answered.
LEMMA NetworkPassed ==
  ASSUME DashboardTypeOK, 1 \in DOMAIN pending, NetworkShown, UNCHANGED scenarioId,
         Drawing(pending[1].stage) = 5, Ends(1),
         \A q \in Panels("network") : painted'[q] = painted[q] \/ painted'[q] \subseteq {scenarioId},
         painted'["netKpis"] = painted["netKpis"]
  PROVE  NetworkShown'
<1>1. \A q \in {"balance", "map"} : painted'[q] = painted[q] \/ painted'[q] \subseteq {scenarioId}
  BY PanelNames
<1>2. ASSUME NEW p \in DOMAIN pending, NetworkLeads(p) PROVE NetworkShown'
  <2>1. p # 1
    BY <1>2 DEF NetworkLeads
  <2>2. p - 1 \in DOMAIN pending' /\ NetworkLeads(p - 1)'
    BY <1>1, <1>2, <2>1, NetworkShifts
  <2> QED BY <2>2 DEF NetworkShown
<1>3. ASSUME \A j \in DOMAIN pending : Drawing(pending[j].stage) = 5, FiguresOf(scenarioId, "network")
      PROVE  NetworkShown'
  <2>1. \A j \in DOMAIN pending' : Drawing(pending'[j].stage) = 5
    BY <1>3, EndsWhere
  <2>2. \A q \in Panels("network") : painted'[q] \subseteq {scenarioId}
    BY <1>3 DEF FiguresOf
  <2>3. FiguresOf(scenarioId, "network")'
    BY <2>2 DEF FiguresOf, Panels
  <2> QED BY <2>1, <2>3 DEF NetworkShown
<1> QED BY <1>2, <1>3 DEF NetworkShown

\* A loaded selection stays loaded, whoever is answered.
LEMMA LoadedStays ==
  ASSUME DashboardTypeOK, 1 \in DOMAIN pending, Loaded,
         UNCHANGED <<scenarioId, rootId, summary, scenarioConfig, header, currentView>>,
         Ends(1) \/ \E e : GoesOn(1, e) /\ AsksOn(e),
         currentView = "executive" => ExecutiveFresh',
         currentView = "network" => NetworkFresh'
  PROVE  Loaded'
<1>1. \A j \in DOMAIN pending' :
           /\ Loading(pending'[j].stage) = 4 /\ pending'[j].scenario = scenarioId'
           /\ pending'[j].stage = "thermal" => pending'[j].root = scenarioId'
  BY FlightKept
<1>2. rootId' = scenarioId' /\ summary' = scenarioId' /\ scenarioConfig' = scenarioId'
      /\ header' = <<scenarioId', scenarioId'>> /\ currentView' = currentView
  BY DEF Loaded
<1> QED BY <1>1, <1>2 DEF Loaded

\* What a loaded selection says of the first request.
LEMMA LoadedFirst ==
  ASSUME DashboardTypeOK, 1 \in DOMAIN pending, Loaded
  PROVE  /\ pending[1].stage \notin {"scenarios", "root", "summary"}
         /\ pending[1].scenario = scenarioId /\ scenarioId # NoScenario
         /\ pending[1].stage = "thermal" => pending[1].root = scenarioId
         /\ currentView = "executive" => ExecutiveFresh
         /\ currentView = "network" => NetworkFresh
<1>1. scenarioId # NoScenario
  BY DashboardAssumption DEF DashboardTypeOK
<1> QED BY <1>1, StageTurns DEF Loaded

LEMMA LoadedSeries ==
  ASSUME DashboardTypeOK, 1 \in DOMAIN pending, Loaded, SeriesArrives(1)
  PROVE  Loaded'
<1>1. /\ pending[1].stage = "series" /\ ViewKeeps /\ UNCHANGED unit
      /\ painted' = [painted EXCEPT !["series"] = {pending[1].root, pending[1].scenario},
                                    !["causes"] = {pending[1].kept}]
      /\ Ends(1)
  BY SeriesAsks
<1>2. /\ painted'["kpis"] = painted["kpis"]
      /\ painted'["series"] = {pending[1].root, pending[1].scenario}
      /\ painted'["causes"] = {pending[1].kept}
      /\ \A q \in Panels("network") : painted'[q] = painted[q]
      /\ painted'["netKpis"] = painted["netKpis"]
  BY <1>1, PanelNames DEF DashboardTypeOK
<1>3. currentView = "executive" => ExecutiveFresh'
  BY <1>1, <1>2, LoadedFirst, ExecutiveShifts DEF ViewKeeps
<1>4. currentView = "network" => NetworkFresh'
  <2>1. Drawing(pending[1].stage) = 5
    BY <1>1, StageTurns DEF Stages
  <2>2. currentView = "network" /\ unit \in {NoScenario, scenarioId} => NetworkShown
    BY LoadedFirst DEF NetworkFresh
  <2> QED BY <1>1, <1>2, <2>1, <2>2, NetworkPassed DEF ViewKeeps, NetworkFresh
<1> QED BY <1>1, <1>3, <1>4, LoadedStays DEF ViewKeeps

LEMMA LoadedMap ==
  ASSUME DashboardTypeOK, 1 \in DOMAIN pending, Loaded, MapArrives(1)
  PROVE  Loaded'
<1>1. /\ pending[1].stage = "map" /\ ViewKeeps /\ UNCHANGED <<unit, painted>>
      /\ \E e : /\ GoesOn(1, e) /\ e.stage = "health" /\ e.scenario = scenarioId
                /\ e.root = pending[1].root /\ e.kept = pending[1].kept
                /\ e.of = {pending[1].root, pending[1].scenario}
  BY MapAsks
<1>2. PICK e : /\ GoesOn(1, e) /\ e.stage = "health" /\ e.scenario = scenarioId
               /\ e.root = pending[1].root /\ e.kept = pending[1].kept
               /\ e.of = {pending[1].root, pending[1].scenario}
  BY <1>1
<1>3. Drawing(pending[1].stage) = 1 /\ Drawing(e.stage) = 2 /\ Loading(e.stage) = 4
  BY <1>1, <1>2, StageTurns DEF Stages
<1>4. currentView = "executive" => ExecutiveFresh'
  BY <1>1, <1>2, LoadedFirst, ExecutiveShifts DEF ViewKeeps
<1>5. ASSUME NetworkShown PROVE NetworkShown'
  <2>1. ASSUME NEW p \in DOMAIN pending, p # 1, NetworkLeads(p) PROVE NetworkShown'
    <3>1. p - 1 \in DOMAIN pending' /\ NetworkLeads(p - 1)'
      BY <1>1, <1>2, <1>3, <2>1, NetworkShifts DEF ViewKeeps
    <3> QED BY <3>1 DEF NetworkShown
  <2>2. ASSUME NetworkLeads(1) PROVE NetworkShown'
    <3>1. e.root = scenarioId /\ e.kept = scenarioId
      BY <1>2, <1>3, <2>2 DEF NetworkLeads
    <3>2. e.of = {scenarioId}
      BY <1>2, <3>1, LoadedFirst
    <3>3. \E p \in DOMAIN pending' : NetworkLeads(p)'
      BY <1>1, <1>2, <1>3, <2>2, <3>1, <3>2, NetworkLeaderMoves DEF ViewKeeps
    <3> QED BY <3>3 DEF NetworkShown
  <2> QED BY <1>3, <1>5, <2>1, <2>2 DEF NetworkShown
<1>6. currentView = "network" => NetworkFresh'
  BY <1>1, <1>5, LoadedFirst DEF NetworkFresh, ViewKeeps
<1>7. AsksOn(e)
  BY <1>2, <1>3 DEF AsksOn
<1> QED BY <1>1, <1>2, <1>4, <1>6, <1>7, LoadedStays DEF ViewKeeps

LEMMA LoadedHealth ==
  ASSUME DashboardTypeOK, UnitAsked, 1 \in DOMAIN pending, Loaded, NEW served \in BOOLEAN,
         HealthArrives(1, served)
  PROVE  Loaded'
<1>0. pending[1].stage = "health" /\ pending[1].root # NoScenario
  <2>1. pending[1].stage = "health"
    BY DEF HealthArrives, Awaits
  <2> QED BY <2>1 DEF UnitAsked
<1>1. Drawing(pending[1].stage) = 2 /\ ViewKeeps
  BY <1>0, StageTurns, HealthAsks
<1>2. CASE pending[1].kept = NoScenario /\ Ends(1) /\ UNCHANGED <<unit, painted>>
  <2>1. currentView = "executive" => ExecutiveFresh'
    BY <1>0, <1>1, <1>2, LoadedFirst, ExecutiveShifts DEF ViewKeeps
  <2>2. ASSUME NetworkShown PROVE NetworkShown'
    <3>1. ASSUME NEW p \in DOMAIN pending, p # 1, NetworkLeads(p) PROVE NetworkShown'
      <4>1. p - 1 \in DOMAIN pending' /\ NetworkLeads(p - 1)'
        BY <1>1, <1>2, <3>1, NetworkShifts DEF ViewKeeps
      <4> QED BY <4>1 DEF NetworkShown
    <3>2. ~NetworkLeads(1)
      BY <1>1, <1>2, LoadedFirst DEF NetworkLeads
    <3> QED BY <1>1, <2>2, <3>1, <3>2 DEF NetworkShown
  <2>3. currentView = "network" => NetworkFresh'
    BY <1>1, <1>2, <2>2, LoadedFirst DEF NetworkFresh, ViewKeeps
  <2> QED BY <1>1, <1>2, <2>1, <2>3, LoadedStays DEF ViewKeeps
<1>3. CASE /\ painted' = [painted EXCEPT !["netKpis"] = {pending[1].kept} \cup pending[1].of \cup
                                           IF served THEN {pending[1].scenario} ELSE {}]
           /\ unit' = IF unit = NoScenario THEN pending[1].root ELSE unit
           /\ unit' \in Known \ {NoScenario}
           /\ \E e : /\ GoesOn(1, e) /\ e.stage = "balance" /\ e.scenario = scenarioId
                     /\ e.root = unit' /\ e.kept = pending[1].kept /\ e.of = pending[1].of
  <2>1. PICK e : /\ GoesOn(1, e) /\ e.stage = "balance" /\ e.scenario = scenarioId
                 /\ e.of = pending[1].of
    BY <1>3
  <2>2. Drawing(e.stage) = 3 /\ Loading(e.stage) = 4
    BY <2>1, StageTurns DEF Stages
  <2>3. /\ painted'["kpis"] = painted["kpis"] /\ painted'["series"] = painted["series"]
        /\ painted'["causes"] = painted["causes"]
        /\ painted'["balance"] = painted["balance"] /\ painted'["map"] = painted["map"]
        /\ painted'["netKpis"] \subseteq {pending[1].kept} \cup pending[1].of \cup {pending[1].scenario}
    BY <1>3, PanelNames DEF DashboardTypeOK
  <2>4. currentView = "executive" => ExecutiveFresh'
    BY <1>0, <1>1, <2>1, <2>3, LoadedFirst, ExecutiveShifts DEF ViewKeeps
  <2>5. ASSUME NetworkShown PROVE NetworkShown'
    <3>1. ASSUME NEW p \in DOMAIN pending, p # 1, NetworkLeads(p) PROVE NetworkShown'
      <4>1. p - 1 \in DOMAIN pending' /\ NetworkLeads(p - 1)'
        BY <1>1, <2>1, <2>2, <2>3, <3>1, NetworkShifts DEF ViewKeeps
      <4> QED BY <4>1 DEF NetworkShown
    <3>2. ASSUME NetworkLeads(1) PROVE NetworkShown'
      <4>1. pending[1].kept = scenarioId /\ pending[1].of = {scenarioId}
        BY <1>1, <3>2 DEF NetworkLeads
      <4>2. painted'["netKpis"] \subseteq {scenarioId}
        BY <2>3, <4>1, LoadedFirst
      <4>3. \E p \in DOMAIN pending' : NetworkLeads(p)'
        BY <1>1, <2>1, <2>2, <3>2, <4>1, <4>2, NetworkLeaderMoves DEF ViewKeeps
      <4> QED BY <4>3 DEF NetworkShown
    <3> QED BY <1>1, <2>5, <3>1, <3>2 DEF NetworkShown
  <2>6. currentView = "network" => NetworkFresh'
    BY <1>1, <1>3, <2>5, LoadedFirst DEF NetworkFresh, ViewKeeps
  <2>7. AsksOn(e)
    BY <2>1, <2>2 DEF AsksOn
  <2> QED BY <1>1, <2>1, <2>4, <2>6, <2>7, LoadedStays DEF ViewKeeps
<1> QED BY <1>0, <1>2, <1>3, HealthAsks

LEMMA LoadedBalance ==
  ASSUME DashboardTypeOK, UnitAsked, 1 \in DOMAIN pending, Loaded, BalanceArrives(1)
  PROVE  Loaded'
<1>1. /\ pending[1].stage = "balance" /\ ViewKeeps /\ UNCHANGED unit
      /\ painted' = [painted EXCEPT !["balance"] = {pending[1].root, pending[1].scenario},
                                    !["map"] = pending[1].of]
      /\ \E e : GoesOn(1, e) /\ e.stage = "asset" /\ e.scenario = scenarioId
  BY BalanceAsks
<1>2. PICK e : GoesOn(1, e) /\ e.stage = "asset" /\ e.scenario = scenarioId
  BY <1>1
<1>3. Drawing(pending[1].stage) = 3 /\ Drawing(e.stage) = 4 /\ Loading(e.stage) = 4
  BY <1>1, <1>2, StageTurns DEF Stages
<1>4. /\ painted'["kpis"] = painted["kpis"] /\ painted'["series"] = painted["series"]
      /\ painted'["causes"] = painted["causes"] /\ painted'["netKpis"] = painted["netKpis"]
      /\ painted'["balance"] = {pending[1].root, pending[1].scenario}
      /\ painted'["map"] = pending[1].of
  BY <1>1, PanelNames DEF DashboardTypeOK
<1>5. \E x : GoesOn(1, x) /\ Drawing(x.stage) = Drawing(pending[1].stage) + 1
  BY <1>2, <1>3
<1>6. currentView = "executive" => ExecutiveFresh'
  BY <1>1, <1>2, <1>4, LoadedFirst, ExecutiveShifts DEF ViewKeeps
<1>7. ASSUME NetworkShown, unit \in {NoScenario, scenarioId} PROVE NetworkShown'
  <2>1. ASSUME NEW p \in DOMAIN pending, p # 1, NetworkLeads(p) PROVE NetworkShown'
    <3>1. p - 1 \in DOMAIN pending' /\ NetworkLeads(p - 1)'
      BY <1>1, <1>3, <1>4, <1>5, <2>1, NetworkShifts DEF ViewKeeps
    <3> QED BY <3>1 DEF NetworkShown
  <2>2. ASSUME NetworkLeads(1) PROVE NetworkShown'
    <3>1. pending[1].of = {scenarioId} /\ painted["netKpis"] \subseteq {scenarioId}
      BY <1>3, <2>2 DEF NetworkLeads
    <3>2. pending[1].root = scenarioId /\ pending[1].scenario = scenarioId
      BY <1>1, <1>7, LoadedFirst DEF UnitAsked
    <3>3. /\ painted'["netKpis"] \subseteq {scenarioId} /\ painted'["balance"] \subseteq {scenarioId}
          /\ painted'["map"] \subseteq {scenarioId}
      BY <1>4, <3>1, <3>2
    <3>4. Drawing(e.stage) = Drawing(pending[1].stage) + 1 /\ Drawing(e.stage) = 4 /\ scenarioId' = scenarioId
      BY <1>1, <1>3 DEF ViewKeeps
    <3>5. \E p \in DOMAIN pending' : NetworkLeads(p)'
      BY <1>2, <2>2, <3>3, <3>4, NetworkLeaderMoves
    <3> QED BY <3>5 DEF NetworkShown
  <2> QED BY <1>3, <1>7, <2>1, <2>2 DEF NetworkShown
<1>8. currentView = "network" => NetworkFresh'
  BY <1>1, <1>7, LoadedFirst DEF NetworkFresh, ViewKeeps
<1>9. AsksOn(e)
  BY <1>2, <1>3 DEF AsksOn
<1> QED BY <1>1, <1>2, <1>6, <1>8, <1>9, LoadedStays DEF ViewKeeps

LEMMA LoadedAsset ==
  ASSUME DashboardTypeOK, 1 \in DOMAIN pending, Loaded, NEW served \in BOOLEAN, AssetArrives(1, served)
  PROVE  Loaded'
<1>1. /\ pending[1].stage = "asset" /\ ViewKeeps /\ UNCHANGED unit
      /\ painted' = [painted EXCEPT !["asset"] = IF served THEN {pending[1].scenario} ELSE {},
                                    !["thermal"] = {}]
      /\ \/ Ends(1)
         \/ \E e : /\ GoesOn(1, e) /\ e.stage = "thermal" /\ e.scenario = scenarioId
                   /\ e.root = pending[1].scenario
  BY AssetAsks
<1>2. /\ Drawing(pending[1].stage) = 4 /\ Drawing("thermal") = 5 /\ Loading("thermal") = 4
      /\ pending[1].scenario = scenarioId
  BY <1>1, StageTurns, LoadedFirst DEF Stages
<1>3. /\ painted'["kpis"] = painted["kpis"] /\ painted'["series"] = painted["series"]
      /\ painted'["causes"] = painted["causes"] /\ painted'["netKpis"] = painted["netKpis"]
      /\ painted'["balance"] = painted["balance"] /\ painted'["map"] = painted["map"]
      /\ painted'["asset"] \subseteq {scenarioId} /\ painted'["thermal"] = {}
  BY <1>1, <1>2, PanelNames DEF DashboardTypeOK
<1>4. /\ Ends(1) \/ \E e : GoesOn(1, e) /\ AsksOn(e)
      /\ Ends(1) \/ \E e : GoesOn(1, e) /\ e.stage # "series"
      /\ Ends(1) \/ \E e : GoesOn(1, e) /\ Drawing(e.stage) = Drawing(pending[1].stage) + 1
      /\ Ends(1) \/ \E e : GoesOn(1, e) /\ Drawing(e.stage) = 5
  BY <1>1, <1>2 DEF AsksOn
<1>5. currentView = "executive" => ExecutiveFresh'
  BY <1>1, <1>3, <1>4, LoadedFirst, ExecutiveShifts DEF ViewKeeps
<1>6. ASSUME NetworkShown PROVE NetworkShown'
  <2>1. ASSUME NEW p \in DOMAIN pending, p # 1, NetworkLeads(p) PROVE NetworkShown'
    <3>1. p - 1 \in DOMAIN pending' /\ NetworkLeads(p - 1)'
      BY <1>1, <1>3, <1>4, <2>1, NetworkShifts DEF ViewKeeps
    <3> QED BY <3>1 DEF NetworkShown
  <2>2. ASSUME NetworkLeads(1) PROVE NetworkShown'
    <3>1. /\ painted["netKpis"] \subseteq {scenarioId} /\ painted["balance"] \subseteq {scenarioId}
          /\ painted["map"] \subseteq {scenarioId}
      BY <1>2, <2>2 DEF NetworkLeads
    <3>2. \A q \in Panels("network") : painted'[q] \subseteq {scenarioId'}
      BY <1>1, <1>3, <3>1, PanelNames DEF ViewKeeps
    <3>3. FiguresOf(scenarioId, "network")'
      BY <3>2 DEF FiguresOf, Panels
    <3>4. \A j \in DOMAIN pending' : Drawing(pending'[j].stage) = 5
      BY <1>2, <1>4, <2>2, NetworkLeaderEnds
    <3> QED BY <3>3, <3>4 DEF NetworkShown
  <2> QED BY <1>2, <1>6, <2>1, <2>2 DEF NetworkShown
<1>7. currentView = "network" => NetworkFresh'
  BY <1>1, <1>6, LoadedFirst DEF NetworkFresh, ViewKeeps
<1> QED BY <1>1, <1>4, <1>5, <1>7, LoadedStays DEF ViewKeeps

LEMMA LoadedChart ==
  ASSUME DashboardTypeOK, UnitAsked, 1 \in DOMAIN pending, Loaded,
         ChartArrives(1, "thermal", "thermal") \/ ChartArrives(1, "chosen", "balance")
  PROVE  Loaded'
<1>1. ASSUME NEW stage, NEW panel, ChartArrives(1, stage, panel),
             \/ stage = "thermal" /\ panel = "thermal"
             \/ stage = "chosen" /\ panel = "balance"
      PROVE  Loaded'
  <2>1. /\ pending[1].stage = stage /\ ViewKeeps /\ UNCHANGED unit
        /\ painted' = [painted EXCEPT ![panel] = {pending[1].root, pending[1].scenario}]
        /\ Ends(1)
    BY <1>1, ChartAsks
  <2>2. Drawing(pending[1].stage) = 5 /\ pending[1].stage # "series"
    BY <1>1, <2>1, StageTurns DEF Stages
  <2>3. /\ painted'["kpis"] = painted["kpis"] /\ painted'["series"] = painted["series"]
        /\ painted'["causes"] = painted["causes"] /\ painted'["netKpis"] = painted["netKpis"]
        /\ \A q \in Panels("network") : q # panel => painted'[q] = painted[q]
        /\ painted'[panel] = {pending[1].root, pending[1].scenario}
    BY <1>1, <2>1, PanelNames DEF DashboardTypeOK
  <2>4. currentView = "executive" => ExecutiveFresh'
    BY <2>1, <2>2, <2>3, LoadedFirst, ExecutiveShifts DEF ViewKeeps
  <2>5. ASSUME NetworkShown, unit \in {NoScenario, scenarioId} PROVE NetworkShown'
    <3>1. pending[1].root = scenarioId /\ pending[1].scenario = scenarioId
      BY <1>1, <2>1, <2>5, LoadedFirst DEF UnitAsked
    <3>2. \A q \in Panels("network") : painted'[q] = painted[q] \/ painted'[q] \subseteq {scenarioId}
      BY <2>3, <3>1
    <3> QED BY <2>1, <2>2, <2>3, <2>5, <3>2, NetworkPassed DEF ViewKeeps
  <2>6. currentView = "network" => NetworkFresh'
    BY <2>1, <2>5, LoadedFirst DEF NetworkFresh, ViewKeeps
  <2> QED BY <2>1, <2>4, <2>6, LoadedStays DEF ViewKeeps
<1>2. CASE ChartArrives(1, "thermal", "thermal")
  BY <1>1, <1>2
<1>3. CASE ChartArrives(1, "chosen", "balance")
  BY <1>1, <1>3
<1> QED BY <1>2, <1>3

LEMMA LoadedFails ==
  ASSUME DashboardTypeOK, UnitAsked, 1 \in DOMAIN pending, Loaded, Fails(1), ~failed'
  PROVE  Loaded'
<1>1. /\ pending[1].stage \notin {"health", "asset"}
      /\ UNCHANGED <<scenarioId, rootId, summary, scenarioConfig, header, currentView, unit, painted>>
      /\ Ends(1) /\ ~(Servable(pending[1]) /\ ~Doubtful(pending[1]))
  BY FailAsks
<1>2. ~SeriesLeads(1)
  BY <1>1, LoadedFirst DEF SeriesLeads, Servable, Doubtful
<1>3. currentView = "executive" => ExecutiveFresh'
  BY <1>1, <1>2, LoadedFirst, ExecutiveShifts
<1>4. ASSUME NetworkShown, unit \in {NoScenario, scenarioId} PROVE NetworkShown'
  <2>1. ASSUME NEW p \in DOMAIN pending, p # 1, NetworkLeads(p) PROVE NetworkShown'
    <3>1. p - 1 \in DOMAIN pending' /\ NetworkLeads(p - 1)'
      BY <1>1, <2>1, NetworkShifts
    <3> QED BY <3>1 DEF NetworkShown
  <2>2. ASSUME NetworkLeads(1) PROVE FALSE
    <3>1. pending[1].stage \in {"map", "balance"}
      <4>1. Drawing(pending[1].stage) <= 4 /\ pending[1].stage \in Stages
        BY <2>2, InFlight DEF NetworkLeads
      <4> QED BY <1>1, <4>1, StageTurns
    <3>2. CASE pending[1].stage = "map"
      <4>1. pending[1].root = scenarioId
        BY <2>2, <3>2, StageTurns DEF NetworkLeads
      <4> QED BY <1>1, <3>2, <4>1, LoadedFirst DEF Servable, Doubtful
    <3>3. CASE pending[1].stage = "balance"
      <4>1. pending[1].root = scenarioId
        BY <1>4, <3>3 DEF UnitAsked
      <4> QED BY <1>1, <3>3, <4>1, LoadedFirst DEF Servable, Doubtful
    <3> QED BY <3>1, <3>2, <3>3
  <2>3. CASE Drawing(pending[1].stage) = 5
    BY <1>1, <1>4, <2>3, PanelNames, NetworkPassed
  <2> QED BY <1>4, <2>1, <2>2, <2>3 DEF NetworkShown
<1>5. currentView = "network" => NetworkFresh'
  BY <1>1, <1>4, LoadedFirst DEF NetworkFresh
<1> QED BY <1>1, <1>3, <1>5, LoadedStays

LEMMA LoadedAnswer ==
  ASSUME DashboardTypeOK, UnitAsked, 1 \in DOMAIN pending, Loaded, Arrives(1), ~failed'
  PROVE  Loaded'
<1>1. ~ScenariosArrive(1) /\ ~RootArrives(1) /\ ~SummaryArrives(1)
  BY LoadGoesOn, LoadedFirst
<1> QED BY <1>1, LoadedSeries, LoadedMap, LoadedHealth, LoadedBalance, LoadedAsset, LoadedChart, LoadedFails
        DEF Arrives

(***************************************************************************)
(* The dashboard: every step.                                              *)
(***************************************************************************)
LEMMA SelectLeads ==
  ASSUME DashboardTypeOK, NEW s \in Scenario, Select(s)
  PROVE  \E p \in DOMAIN pending' : LoadLeads(p)'
<1>1. scenarioId' = s
  BY SelectAsks
<1>2. PICK e \in Requested : pending' = Append(pending, e) /\ e.stage = "scenarios" /\ e.scenario = s
  BY SelectAsks
<1>3. PICK n \in Nat : n = Len(pending)
  BY DEF DashboardTypeOK
<1>4. /\ DOMAIN pending' = 1..(n + 1) /\ pending'[n + 1] = e /\ DOMAIN pending = 1..n
      /\ \A j \in 1..n : pending'[j] = pending[j]
  BY <1>2, <1>3, AfterOperation
<1>5. Loading(e.stage) = 1
  BY <1>2, StageTurns
<1>6. \A j \in DOMAIN pending' :
        /\ Loading(pending'[j].stage) >= 1 /\ ~(j > n + 1)
        /\ j < n + 1 \/ (Loading(pending'[j].stage) # 4 /\ pending'[j].stage # "thermal")
  <2> TAKE j \in DOMAIN pending'
  <2>1. CASE j = n + 1
    <3>1. pending'[j] = e /\ ~(j > n + 1)
      BY <1>3, <1>4, <2>1
    <3>2. Loading(e.stage) >= 1 /\ Loading(e.stage) # 4
      BY <1>5
    <3>3. e.stage # "thermal"
      BY <1>2
    <3> QED BY <3>1, <3>2, <3>3
  <2>2. CASE j # n + 1
    <3>1. j \in DOMAIN pending /\ j < n + 1 /\ pending'[j] = pending[j]
      BY <1>4, <2>2
    <3>2. Loading(pending[j].stage) >= 1
      BY <3>1, InFlight, StageTurns
    <3>3. ~(j > n + 1)
      BY <1>4, <3>1
    <3> QED BY <3>1, <3>2, <3>3
  <2> QED BY <2>1, <2>2
<1>7. LoadLeads(n + 1)' /\ n + 1 \in DOMAIN pending'
  BY <1>1, <1>2, <1>4, <1>5, <1>6 DEF LoadLeads
<1> QED BY <1>7

LEMMA NavigateLeads ==
  ASSUME DashboardTypeOK, NEW v \in View, Navigate(v), Loaded \/ \E p \in DOMAIN pending : LoadLeads(p)
  PROVE  Loaded' \/ \E p \in DOMAIN pending' : LoadLeads(p)'
<1>1. /\ currentView' = v
      /\ UNCHANGED <<scenarioId, rootId, summary, scenarioConfig, header>>
      /\ Rendered(v, rootId, summary, pending)
  BY NavigateAsks
<1>2. ASSUME Loaded PROVE Loaded'
  <2>1. Rendered(v, scenarioId, scenarioId, pending)
    BY <1>1, <1>2 DEF Loaded
  <2>2. pending \in Seq(Requested)
    BY DEF DashboardTypeOK
  <2>3. /\ v = "executive" => ExecutiveFresh'
        /\ v = "network" => NetworkFresh'
        /\ \A j \in DOMAIN pending' :
             /\ Loading(pending'[j].stage) = 4 /\ pending'[j].scenario = scenarioId
             /\ pending'[j].stage = "thermal" => pending'[j].root = scenarioId
    BY <1>1, <1>2, <2>1, <2>2, RenderedFresh DEF Loaded
  <2> QED BY <1>1, <1>2, <2>3 DEF Loaded
<1>3. ASSUME NEW p \in DOMAIN pending, LoadLeads(p) PROVE p \in DOMAIN pending' /\ LoadLeads(p)'
  <2>1. \/ pending' = pending
        \/ \E e \in Requested : /\ pending' = Append(pending, e) /\ e.stage \in {"series", "map"}
                                /\ e.scenario = scenarioId
    BY <1>1, RenderedForm
  <2>2. Loading("series") = 4 /\ Loading("map") = 4
    BY StageTurns DEF Stages
  <2>3. \/ pending' = pending
        \/ \E e \in Requested : /\ pending' = Append(pending, e) /\ Loading(e.stage) = 4
                                /\ e.scenario = scenarioId /\ e.stage # "thermal"
    BY <2>1, <2>2
  <2> QED BY <1>1, <1>3, <2>3, LoadStays
<1> QED BY <1>2, <1>3

LEMMA ChooseLeads ==
  ASSUME DashboardTypeOK, Choose, Loaded \/ \E p \in DOMAIN pending : LoadLeads(p)
  PROVE  Loaded' \/ \E p \in DOMAIN pending' : LoadLeads(p)'
<1>1. /\ currentView = "network"
      /\ UNCHANGED <<scenarioId, rootId, summary, scenarioConfig, header, currentView, unit, painted>>
  BY ChooseAsks
<1>2. PICK e \in Requested : pending' = Append(pending, e) /\ e.stage = "chosen" /\ e.scenario = scenarioId
  BY ChooseAsks
<1>3. PICK n \in Nat : n = Len(pending)
  BY DEF DashboardTypeOK
<1>4. /\ DOMAIN pending' = 1..(n + 1) /\ pending'[n + 1] = e /\ DOMAIN pending = 1..n
      /\ \A j \in 1..n : pending'[j] = pending[j]
  BY <1>2, <1>3, AfterOperation
<1>5. Loading(e.stage) = 4 /\ Drawing(e.stage) = 5 /\ e.stage # "thermal"
  BY <1>2, StageTurns DEF Stages
<1>6. ASSUME NEW p \in DOMAIN pending, LoadLeads(p) PROVE p \in DOMAIN pending' /\ LoadLeads(p)'
  BY <1>1, <1>2, <1>5, <1>6, LoadStays
<1>7. \A j \in DOMAIN pending' : j = n + 1 \/ (j \in DOMAIN pending /\ j \in 1..n /\ pending'[j] = pending[j])
  BY <1>4
<1>8. ASSUME NetworkShown PROVE NetworkShown'
  <2>1. ASSUME NEW p \in DOMAIN pending, NetworkLeads(p) PROVE NetworkShown'
    <3>1. p \in 1..n /\ p \in DOMAIN pending' /\ pending'[p] = pending[p] /\ Drawing(pending[p].stage) \in 1..4
      BY <1>4, <2>1, InFlight, StageTurns DEF NetworkLeads
    <3>2. ASSUME NEW j \in DOMAIN pending'
          PROVE  /\ j < p => Drawing(pending'[j].stage) >= Drawing(pending[p].stage)
                 /\ j > p => Drawing(pending'[j].stage) > Drawing(pending[p].stage)
      <4>1. CASE j = n + 1
        BY <1>4, <1>5, <3>1, <4>1
      <4>2. CASE j \in DOMAIN pending /\ pending'[j] = pending[j]
        BY <2>1, <4>2 DEF NetworkLeads
      <4> QED BY <1>7, <4>1, <4>2
    <3>3. NetworkLeads(p)'
      BY <1>1, <2>1, <3>1, <3>2 DEF NetworkLeads
    <3> QED BY <3>1, <3>3 DEF NetworkShown
  <2>2. ASSUME \A j \in DOMAIN pending : Drawing(pending[j].stage) = 5, FiguresOf(scenarioId, "network")
        PROVE  NetworkShown'
    <3>1. \A j \in DOMAIN pending' : Drawing(pending'[j].stage) = 5
      BY <1>4, <1>5, <1>7, <2>2
    <3>2. FiguresOf(scenarioId, "network")'
      BY <1>1, <2>2 DEF FiguresOf, Panels
    <3> QED BY <3>1, <3>2 DEF NetworkShown
  <2> QED BY <1>8, <2>1, <2>2 DEF NetworkShown
<1>9. ASSUME Loaded PROVE Loaded'
  <2>1. \A j \in DOMAIN pending' :
          /\ Loading(pending'[j].stage) = 4 /\ pending'[j].scenario = scenarioId
          /\ pending'[j].stage = "thermal" => pending'[j].root = scenarioId
    BY <1>2, <1>4, <1>5, <1>7, <1>9 DEF Loaded
  <2>2. NetworkFresh'
    BY <1>1, <1>8, <1>9 DEF Loaded, NetworkFresh
  <2> QED BY <1>1, <1>9, <2>1, <2>2 DEF Loaded
<1> QED BY <1>6, <1>9

\* The load that leads, and an answer.
LEMMA AnswerLeads ==
  ASSUME DashboardTypeOK, UnitAsked, 1 \in DOMAIN pending, Arrives(1), ~failed',
         NEW p \in DOMAIN pending, LoadLeads(p)
  PROVE  Loaded' \/ \E q \in DOMAIN pending' : LoadLeads(q)'
<1>1. CASE p = 1
  <2>1. pending[1].stage \in {"scenarios", "root", "summary"}
    <3>1. Loading(pending[1].stage) <= 3 /\ pending[1].stage \in Stages
      BY <1>1, InFlight DEF LoadLeads
    <3> QED BY <3>1, StageTurns
  <2>2. ~Fails(1)
    BY <2>1, FailAsks DEF Servable, Doubtful
  <2>3. \A served \in BOOLEAN : ~HealthArrives(1, served) /\ ~AssetArrives(1, served)
    BY <2>1 DEF HealthArrives, AssetArrives, Awaits
  <2>4. /\ ~SeriesArrives(1) /\ ~MapArrives(1) /\ ~BalanceArrives(1)
        /\ ~ChartArrives(1, "thermal", "thermal") /\ ~ChartArrives(1, "chosen", "balance")
    BY <2>1 DEF SeriesArrives, MapArrives, BalanceArrives, ChartArrives, Awaits
  <2> QED BY <1>1, <2>2, <2>3, <2>4, LeaderConfigured, LeaderRooted, LeaderLoaded DEF Arrives
<1>2. CASE p # 1
  <2> SUFFICES /\ UNCHANGED scenarioId
               /\ scenarioConfig' = scenarioConfig \/ Loading(pending[1].stage) = 1
               /\ rootId' = rootId \/ Loading(pending[1].stage) = 2
               /\ \/ Ends(1)
                  \/ \E e : /\ GoesOn(1, e)
                            /\ \/ Loading(e.stage) = Loading(pending[1].stage) + 1 /\ Loading(e.stage) <= 3
                               \/ /\ Loading(e.stage) = 4 /\ e.scenario = scenarioId
                                  /\ e.stage = "thermal" =>
                                       Loading(pending[1].stage) = 4 /\ e.root = pending[1].scenario
    BY <1>2, LoadShifts
  <2>1. CASE ScenariosArrive(1)
    BY <2>1, LoadGoesOn, StageTurns
  <2>2. CASE RootArrives(1)
    BY <2>2, LoadGoesOn, StageTurns
  <2>3. CASE SummaryArrives(1)
    <3>1. UNCHANGED <<scenarioId, rootId, scenarioConfig>>
          /\ Rendered(currentView, rootId, pending[1].scenario, Without(pending, 1))
      BY <2>3, LoadGoesOn
    <3>2. Ends(1) \/ \E e : GoesOn(1, e) /\ e.stage \in {"series", "map"} /\ e.scenario = scenarioId
      BY <3>1, RenderedForm DEF Ends, GoesOn
    <3>3. Loading("series") = 4 /\ Loading("map") = 4
      BY StageTurns DEF Stages
    <3> QED BY <3>1, <3>2, <3>3
  <2>4. CASE SeriesArrives(1)
    BY <2>4, SeriesAsks DEF ViewKeeps
  <2>5. CASE MapArrives(1)
    <3>1. Loading("health") = 4
      BY StageTurns DEF Stages
    <3> QED BY <2>5, <3>1, MapAsks DEF ViewKeeps
  <2>6. ASSUME NEW served \in BOOLEAN, HealthArrives(1, served)
        PROVE  ViewKeeps /\ (Ends(1) \/ \E e : GoesOn(1, e) /\ e.stage = "balance" /\ e.scenario = scenarioId)
    <3>1. pending[1].root # NoScenario
      <4>1. pending[1].stage = "health"
        BY <2>6 DEF HealthArrives, Awaits
      <4> QED BY <4>1 DEF UnitAsked
    <3> QED BY <2>6, <3>1, HealthAsks
  <2>7. CASE \E served \in BOOLEAN : HealthArrives(1, served)
    <3>1. Loading("balance") = 4
      BY StageTurns DEF Stages
    <3> QED BY <2>6, <2>7, <3>1 DEF ViewKeeps
  <2>8. CASE BalanceArrives(1)
    <3>1. Loading("asset") = 4
      BY StageTurns DEF Stages
    <3> QED BY <2>8, <3>1, BalanceAsks DEF ViewKeeps
  <2>9. CASE \E served \in BOOLEAN : AssetArrives(1, served)
    <3>1. Loading("thermal") = 4 /\ Loading("asset") = 4
      BY StageTurns DEF Stages
    <3> QED BY <2>9, <3>1, AssetAsks DEF ViewKeeps
  <2>10. CASE ChartArrives(1, "thermal", "thermal") \/ ChartArrives(1, "chosen", "balance")
    BY <2>10, ChartAsks DEF ViewKeeps
  <2>11. CASE Fails(1)
    BY <2>11, FailAsks
  <2> QED BY <2>1, <2>2, <2>3, <2>4, <2>5, <2>7, <2>8, <2>9, <2>10, <2>11 DEF Arrives
<1> QED BY <1>1, <1>2

LEMMA FirstAnswered ==
  ASSUME DashboardTypeOK, under.ordered \/ under.patient, NEW i \in DOMAIN pending, Arrives(i)
  PROVE  i = 1 /\ (~failed' => ~failed)
<1>1. under.ordered => i = 1
  BY DEF Arrives, ScenariosArrive, RootArrives, SummaryArrives, SeriesArrives, MapArrives, HealthArrives,
         BalanceArrives, AssetArrives, ChartArrives, Fails, Awaits, Answerable
<1>2. under.patient => i = 1
  <2>1. PICK n \in Nat : n = Len(pending)
    BY InFlight
  <2>2. i \in 1..n /\ (under.patient => n <= 1)
    BY <2>1, InFlight DEF DashboardTypeOK
  <2> QED BY <2>1, <2>2
<1>3. ~failed' => ~failed
  BY DEF Arrives, ScenariosArrive, RootArrives, SummaryArrives, SeriesArrives, MapArrives, HealthArrives,
         BalanceArrives, AssetArrives, ChartArrives, Fails
<1> QED BY <1>1, <1>2, <1>3

LEMMA DashboardStep == DashboardInv /\ Next => DashboardInv'
<1> SUFFICES ASSUME DashboardInv, Next PROVE DashboardInv'
  OBVIOUS
<1>0. DashboardTypeOK /\ UnitAsked /\ SelectionLeads
  BY DEF DashboardInv
<1>1. DashboardTypeOK' /\ UnitAsked'
  BY <1>0, OperationTypes, AnswerTypes DEF Next
<1>2. SelectionLeads'
  <2> SUFFICES ASSUME under.ordered \/ under.patient, ~failed'
               PROVE  Loaded' \/ \E p \in DOMAIN pending' : LoadLeads(p)'
    BY DashboardKeepsConditions DEF SelectionLeads
  <2>1. ~failed => Loaded \/ \E p \in DOMAIN pending : LoadLeads(p)
    BY <1>0 DEF SelectionLeads
  <2>2. ASSUME NEW s \in Scenario, Select(s) PROVE \E p \in DOMAIN pending' : LoadLeads(p)'
    BY <1>0, <2>2, SelectLeads
  <2>3. ASSUME NEW v \in View, Navigate(v) PROVE Loaded' \/ \E p \in DOMAIN pending' : LoadLeads(p)'
    BY <1>0, <2>1, <2>3, NavigateAsks, NavigateLeads
  <2>4. CASE Choose
    BY <1>0, <2>1, <2>4, ChooseAsks, ChooseLeads
  <2>5. ASSUME NEW i \in DOMAIN pending, Arrives(i)
        PROVE  Loaded' \/ \E p \in DOMAIN pending' : LoadLeads(p)'
    <3>1. i = 1 /\ ~failed
      BY <1>0, <2>5, FirstAnswered
    <3>2. 1 \in DOMAIN pending /\ Arrives(1)
      BY <2>5, <3>1
    <3> QED BY <1>0, <2>1, <3>1, <3>2, LoadedAnswer, AnswerLeads
  <2> QED BY <2>2, <2>3, <2>4, <2>5 DEF Next
<1> QED BY <1>1, <1>2 DEF DashboardInv

LEMMA DashboardInitial == Init => DashboardInv
<1> SUFFICES ASSUME Init PROVE DashboardInv
  OBVIOUS
<1> DEFINE r == Request("scenarios", scenarioId, NoScenario, NoScenario, NoScenario)
<1>1. r \in Requested /\ r.stage = "scenarios" /\ r.scenario = scenarioId
  <2>1. scenarioId \in Scenario /\ "scenarios" \in Stages /\ NoScenario \in Known
    BY DEF Init, Stages, Known
  <2> QED BY <2>1, RequestFields
<1>2. /\ under \in Condition /\ scenarioId \in Scenario /\ rootId \in Known /\ summary \in Known
      /\ currentView \in View /\ unit \in Known /\ DOMAIN painted = Panel /\ failed \in BOOLEAN
  BY DashboardAssumption DEF Init, Known, View
<1>3. pending = <<r>>
  BY DEF Init
<1> HIDE DEF r
<1>4. pending \in Seq(Requested) /\ Len(pending) = 1 /\ DOMAIN pending = {1} /\ pending[1] = r
  BY <1>1, <1>3
<1>5. DashboardTypeOK
  BY <1>2, <1>4 DEF DashboardTypeOK
<1>6. UnitAsked
  BY <1>1, <1>4 DEF UnitAsked
<1>7. Loading(r.stage) = 1
  BY <1>1, StageTurns
<1>8. LoadLeads(1)
  BY <1>1, <1>4, <1>7 DEF LoadLeads
<1> QED BY <1>4, <1>5, <1>6, <1>8 DEF DashboardInv, SelectionLeads

LEMMA DashboardKept == DashboardInv /\ UNCHANGED vars => DashboardInv'
<1> SUFFICES ASSUME DashboardInv, UNCHANGED vars PROVE DashboardInv'
  OBVIOUS
<1>1. UNCHANGED <<under, scenarioId, rootId, summary, scenarioConfig, header, currentView, unit, painted,
                  pending, failed>>
  BY DEF vars, state
<1>2. DashboardTypeOK'
  BY <1>1 DEF DashboardInv, DashboardTypeOK, Known, Requested, Stages, Condition, View, Panel, Panels
<1>3. UnitAsked'
  BY <1>1 DEF DashboardInv, UnitAsked
<1>4. SelectionLeads'
  <2>1. \A p : LoadLeads(p) => LoadLeads(p)'
    BY <1>1 DEF LoadLeads
  <2>2. Loaded => Loaded'
    <3>1. ExecutiveFresh => ExecutiveFresh'
      BY <1>1 DEF ExecutiveFresh, SeriesLeads
    <3>2. NetworkFresh => NetworkFresh'
      BY <1>1 DEF NetworkFresh, NetworkShown, NetworkLeads, FiguresOf, Panels
    <3> QED BY <1>1, <3>1, <3>2 DEF Loaded
  <2> QED BY <1>1, <2>1, <2>2 DEF DashboardInv, SelectionLeads
<1> QED BY <1>2, <1>3, <1>4 DEF DashboardInv

LEMMA DashboardAlways == FrontendSpec => []DashboardInv
<1>1. FrontendInit => DashboardInv
  BY DashboardInitial DEF FrontendInit
<1>2. DashboardInv /\ [FrontendNext]_allVars => DashboardInv'
  <2> SUFFICES ASSUME DashboardInv, [FrontendNext]_allVars PROVE DashboardInv'
    OBVIOUS
  <2>1. CASE Next
    BY <2>1, DashboardStep
  <2>2. CASE UNCHANGED vars
    BY <2>2, DashboardKept
  <2> QED BY <2>1, <2>2 DEF FrontendNext, Explore, allVars
<1> QED BY <1>1, <1>2, PTL DEF FrontendSpec

\* When responses arrive in order or the user waits for them, then once
\* everything has been answered the state, the header and every figure of the
\* view on screen are of the scenario that is selected.
THEOREM SelectionAlwaysSettled == FrontendSpec => []SettledOnSelection
<1>1. DashboardInv => SettledOnSelection
  <2> SUFFICES ASSUME DashboardInv, pending = <<>>, ~failed, under.ordered \/ under.patient
               PROVE  /\ {rootId, summary, scenarioConfig} = {scenarioId}
                      /\ header = <<scenarioId, scenarioId>>
                      /\ \/ currentView = "network" /\ unit # scenarioId
                         \/ FiguresOf(scenarioId, currentView)
    BY DEF SettledOnSelection, Settled
  <2>1. DOMAIN pending = {}
    OBVIOUS
  <2>2. Loaded /\ currentView \in View
    BY <2>1 DEF DashboardInv, SelectionLeads, DashboardTypeOK
  <2>3. CASE currentView = "executive"
    <3>1. /\ painted["kpis"] \subseteq {scenarioId} /\ painted["series"] \subseteq {scenarioId}
          /\ painted["causes"] \subseteq {scenarioId}
      BY <2>1, <2>2, <2>3 DEF Loaded, ExecutiveFresh
    <3>2. FiguresOf(scenarioId, currentView)
      BY <2>3, <3>1, PanelNames DEF FiguresOf
    <3> QED BY <2>2, <3>2 DEF Loaded
  <2>4. CASE currentView = "network"
    <3>1. unit = scenarioId => FiguresOf(scenarioId, currentView)
      BY <2>1, <2>2, <2>4 DEF Loaded, NetworkFresh, NetworkShown
    <3> QED BY <2>2, <2>4, <3>1 DEF Loaded
  <2> QED BY <2>2, <2>3, <2>4 DEF View
<1> QED BY <1>1, DashboardAlways, PTL
=============================================================================
