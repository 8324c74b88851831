--------------------------- MODULE StaticExport_proofs ---------------------------
(***************************************************************************)
(* What others see of generated scenarios, and what a static export leaves *)
(* behind while they are generated: for any number of generators,          *)
(* scenarios and substations, on either database.                          *)
(*                                                                         *)
(* Generation: a transaction inserts only keys that nobody has committed   *)
(* or holds uncommitted (Untaken), it carries a feeder of its own from its *)
(* insert to its end, and its figures and its record enter the committed   *)
(* rows together (Progress).                                               *)
(*                                                                         *)
(* Export: a scenario that was listed keeps its substation to itself, so   *)
(* what was written for it is never written over (Exported), and the nodes *)
(* of any other listed one are still ahead (Exporting).                    *)
(***************************************************************************)
EXTENDS StaticExport, TLAPS

Keys(g) == {National, Chain(Sub(g)), Feeder(Sub(g)), Figures(ScenarioOf[g]), Record(ScenarioOf[g])}

\* What generator g has inserted, by the phase it is in.
Progress(g) ==
  /\ own[g] \subseteq Keys(g)
  /\ phase[g] \in {"start", "find national", "done", "failed"} => own[g] = {}
  /\ phase[g] = "chain" => National \in rows \cup own[g]
  /\ phase[g] = "feeder" => Chain(Sub(g)) \in rows \cup own[g]
  /\ phase[g] \in {"figures", "record", "commit"} => Feeder(Sub(g)) \in own[g]
  /\ Figures(ScenarioOf[g]) \in own[g] <=> phase[g] \in {"record", "commit"}
  /\ Record(ScenarioOf[g]) \in own[g] <=> phase[g] = "commit"
  /\ Chain(Sub(g)) \in own[g] => National \in rows \cup own[g]
  /\ Feeder(Sub(g)) \in own[g] => Chain(Sub(g)) \in rows \cup own[g]

\* Nobody holds what is committed or what another holds, and SQLite has one writer.
Untaken ==
  /\ \A g \in Generator : own[g] \cap rows = {}
  /\ \A g, o \in Generator : g # o => own[g] \cap own[o] = {}
  /\ dialect = "sqlite" => \A g, o \in Generator : own[g] # {} /\ own[o] # {} => g = o

\* A committed record stands on a committed feeder.
RecordsOnFeeders == \A x \in Scenario : Record(x) \in rows => Feeder(SubstationOf[x]) \in rows

GenInv ==
  /\ TypeOK /\ Untaken /\ RecordsOnFeeders
  /\ \A g \in Generator : Progress(g)
  /\ TraceableFigures /\ RootedTree /\ OneScenarioPerSubstation

(***************************************************************************)
(* Keys.                                                                   *)
(***************************************************************************)

\* The five keys of a generator are keys, and they are different.
LEMMA KeysAreKeys ==
  ASSUME NEW g \in Generator
  PROVE  /\ Keys(g) \subseteq Key
         /\ Sub(g) \in Substation /\ ScenarioOf[g] \in Scenario
  BY GenerationAssumption DEF Keys, Key, Sub, Substation

\* Keys of different groups differ, and keys of one group differ in what they
\* are of.
LEMMA KeysDiffer ==
  ASSUME NEW a, NEW b
  PROVE  /\ National # Chain(a) /\ National # Feeder(a) /\ National # Figures(a) /\ National # Record(a)
         /\ Chain(a) # Feeder(b) /\ Chain(a) # Figures(b) /\ Chain(a) # Record(b)
         /\ Feeder(a) # Figures(b) /\ Feeder(a) # Record(b)
         /\ Figures(a) # Record(b)
         /\ Chain(a) = Chain(b) => a = b
         /\ Feeder(a) = Feeder(b) => a = b
         /\ Figures(a) = Figures(b) => a = b
         /\ Record(a) = Record(b) => a = b
  BY DEF National, Chain, Feeder, Figures, Record

(***************************************************************************)
(* The steps.                                                              *)
(***************************************************************************)

\* On an empty database with nothing begun, the invariant holds.
LEMMA GenInitially == GenInit => GenInv
<1> SUFFICES ASSUME GenInit PROVE GenInv
  OBVIOUS
<1>1. TypeOK
  BY GenerationAssumption DEF GenInit, TypeOK, Active
<1>2. Untaken /\ RecordsOnFeeders /\ TraceableFigures /\ RootedTree /\ OneScenarioPerSubstation
  BY DEF GenInit, Untaken, RecordsOnFeeders, TraceableFigures, RootedTree, OneScenarioPerSubstation
<1>3. \A g \in Generator : Progress(g)
  BY DEF GenInit, Progress, Keys
<1> QED
  BY <1>1, <1>2, <1>3 DEF GenInv

\* A step that only moves g on, or rolls it back, without a commit: the rest
\* of the invariant is that g still progresses.
LEMMA QuietStep ==
  ASSUME GenInv, NEW g \in Generator, NEW next, UNCHANGED <<dialect, rows>>,
         Go(g, next), TypeOK',
         \A o \in Generator : own'[o] = IF o = g THEN own'[g] ELSE own[o],
         own'[g] \in {own[g], {}},
         Progress(g)'
  PROVE  GenInv'
<1>1. Untaken' /\ RecordsOnFeeders' /\ TraceableFigures' /\ RootedTree' /\ OneScenarioPerSubstation'
  BY DEF GenInv, Untaken, RecordsOnFeeders, TraceableFigures, RootedTree, OneScenarioPerSubstation
<1>2. ASSUME NEW o \in Generator, o # g PROVE Progress(o)'
  BY <1>2 DEF GenInv, TypeOK, Go, Progress, Sub, Keys
<1> QED
  BY <1>1, <1>2 DEF GenInv

\* A rollback leaves g with nothing.
LEMMA FailKeeps ==
  ASSUME GenInv, NEW g \in Generator, Fail(g), UNCHANGED <<dialect, rows, attempts>>
  PROVE  GenInv'
<1>1. TypeOK'
  BY DEF GenInv, TypeOK, Fail, Go, Active
<1>2. Progress(g)'
  BY DEF GenInv, TypeOK, Fail, Go, Progress
<1> QED
  BY <1>1, <1>2, QuietStep DEF Fail, GenInv, TypeOK

\* Looking for the substation and for the national node.
LEMMA FindKeeps ==
  ASSUME GenInv, NEW g \in Generator, FindSubstation(g) \/ FindNational(g)
  PROVE  GenInv'
<1> USE DEF GenInv, FindSubstation, FindNational, Go
<1>1. TypeOK'
  BY DEF TypeOK, Active
<1>2. Progress(g)'
  BY DEF TypeOK, Progress, Sees, Keys, Sub
<1>3. PICK next : Go(g, next)
  OBVIOUS
<1> QED
  BY <1>1, <1>2, <1>3, QuietStep DEF TypeOK

\* Starting again after a failure.
LEMMA RunAgainKeeps ==
  ASSUME GenInv, NEW g \in Generator, RunAgain(g)
  PROVE  GenInv'
<1>1. TypeOK'
  <2>1. attempts' \in [Generator -> 1..MaxRuns]
    <3>1. attempts[g] \in 1..MaxRuns /\ attempts[g] < MaxRuns /\ attempts' = [attempts EXCEPT ![g] = @ + 1]
      BY DEF GenInv, TypeOK, RunAgain
    <3>2. attempts[g] + 1 \in 1..MaxRuns
      BY <3>1, GenerationAssumption
    <3> QED
      BY <3>1, <3>2 DEF GenInv, TypeOK
  <2>2. own' = own /\ phase' = [phase EXCEPT ![g] = "start"] /\ UNCHANGED <<dialect, rows>>
    BY DEF RunAgain, Go
  <2> QED
    BY <2>1, <2>2 DEF GenInv, TypeOK, Active
<1>2. Progress(g)'
  BY DEF GenInv, TypeOK, RunAgain, Go, Progress, Keys, Sub
<1> QED
  BY <1>1, <1>2, QuietStep DEF RunAgain, GenInv, TypeOK

\* The inserts of generate_scenario, with the phases they lead from and to.
Inserts(g) ==
  {<<"national", National, "chain">>, <<"chain", Chain(Sub(g)), "feeder">>,
   <<"feeder", Feeder(Sub(g)), "figures">>, <<"figures", Figures(ScenarioOf[g]), "record">>,
   <<"record", Record(ScenarioOf[g]), "commit">>}

\* An insert adds a key nobody has, or is rolled back.
LEMMA InsertKeeps ==
  ASSUME GenInv, NEW g \in Generator, NEW from, NEW k, NEW next,
         <<from, k, next>> \in Inserts(g), Insert(g, from, k, next)
  PROVE  GenInv'
<1>1. CASE Fail(g)
  BY <1>1, FailKeeps DEF Insert
<1>2. CASE /\ ~Sees(g, k) /\ own' = [own EXCEPT ![g] = @ \cup {k}] /\ Go(g, next)
  <2>1. k \in Keys(g) /\ k \in Key
    BY KeysAreKeys DEF Inserts, Keys
  <2>2. /\ own' \in [Generator -> SUBSET Key] /\ own'[g] = own[g] \cup {k}
        /\ \A o \in Generator \ {g} : own'[o] = own[o] /\ phase'[o] = phase[o]
        /\ phase[g] = from /\ phase'[g] = next
        /\ UNCHANGED <<dialect, rows, attempts>>
    BY <1>2, <2>1 DEF GenInv, TypeOK, Go, Insert
  <2>3. TypeOK'
    BY <1>2, <2>2 DEF GenInv, TypeOK, Go, Insert, Inserts, Active
  <2>4. Untaken'
    <3>1. \A o \in Generator : own'[o] \cap rows' = {}
      BY <1>2, <2>2 DEF GenInv, Untaken, Sees
    <3>2. ASSUME NEW o \in Generator \ {g} PROVE own'[g] \cap own'[o] = {}
      <4>1. k \notin own[o]
        <5>1. CASE dialect = "sqlite"
          BY <5>1, <3>2 DEF Insert, Waits
        <5>2. CASE dialect # "sqlite"
          BY <5>2, <3>2 DEF Insert, Waits
        <5> QED
          BY <5>1, <5>2
      <4>2. own[g] \cap own[o] = {}
        BY <3>2 DEF GenInv, Untaken
      <4> QED
        BY <2>2, <3>2, <4>1, <4>2
    <3>3. \A o, q \in Generator : o # q => own'[o] \cap own'[q] = {}
      BY <2>2, <3>2 DEF GenInv, Untaken
    <3>4. dialect' = "sqlite" => \A o, q \in Generator : own'[o] # {} /\ own'[q] # {} => o = q
      BY <2>2 DEF GenInv, Untaken, Insert, Waits
    <3> QED
      BY <3>1, <3>3, <3>4 DEF Untaken
  <2>5. Progress(g)'
    <3>1. Progress(g) /\ ~Sees(g, k)
      BY <1>2 DEF GenInv
    <3>2. own'[g] \subseteq Keys(g)
      BY <2>1, <2>2, <3>1 DEF Progress
    <3>3. CASE from = "national" /\ k = National /\ next = "chain"
      BY <2>2, <3>1, <3>2, <3>3, KeysDiffer DEF Progress, Keys, Sub
    <3>4. CASE from = "chain" /\ k = Chain(Sub(g)) /\ next = "feeder"
      BY <2>2, <3>1, <3>2, <3>4, KeysDiffer DEF Progress, Keys, Sub
    <3>5. CASE from = "feeder" /\ k = Feeder(Sub(g)) /\ next = "figures"
      BY <2>2, <3>1, <3>2, <3>5, KeysDiffer DEF Progress, Keys, Sub
    <3>6. CASE from = "figures" /\ k = Figures(ScenarioOf[g]) /\ next = "record"
      BY <2>2, <3>1, <3>2, <3>6, KeysDiffer DEF Progress, Keys, Sub
    <3>7. CASE from = "record" /\ k = Record(ScenarioOf[g]) /\ next = "commit"
      BY <2>2, <3>1, <3>2, <3>7, KeysDiffer DEF Progress, Keys, Sub
    <3> QED
      BY <3>3, <3>4, <3>5, <3>6, <3>7 DEF Inserts
  <2>6. ASSUME NEW o \in Generator \ {g} PROVE Progress(o)'
    BY <2>2, <2>6 DEF GenInv, Progress, Keys, Sub
  <2>7. RecordsOnFeeders' /\ TraceableFigures' /\ RootedTree' /\ OneScenarioPerSubstation'
    BY <2>2 DEF GenInv, RecordsOnFeeders, TraceableFigures, RootedTree, OneScenarioPerSubstation
  <2> QED
    BY <2>3, <2>4, <2>5, <2>6, <2>7 DEF GenInv
<1> QED
  BY <1>1, <1>2 DEF Insert

\* A commit makes all of a generator's keys visible at once.
LEMMA CommitKeeps ==
  ASSUME GenInv, NEW g \in Generator, Commit(g)
  PROVE  GenInv'
<1>1. /\ own'[g] = {} /\ rows' = rows \cup own[g] /\ UNCHANGED <<dialect, attempts>>
      /\ \A o \in Generator \ {g} : own'[o] = own[o] /\ phase'[o] = phase[o]
      /\ phase[g] = "commit" /\ phase'[g] = "done"
  BY DEF GenInv, TypeOK, Commit, Go
<1>2. /\ own[g] \subseteq Keys(g)
      /\ Feeder(Sub(g)) \in own[g] /\ Figures(ScenarioOf[g]) \in own[g] /\ Record(ScenarioOf[g]) \in own[g]
      /\ Chain(Sub(g)) \in own[g] => National \in rows \cup own[g]
      /\ Chain(Sub(g)) \in rows \cup own[g]
  BY <1>1 DEF GenInv, Progress
<1>3. TypeOK'
  BY <1>1 DEF GenInv, TypeOK, Commit, Go, Active
<1>4. Untaken'
  BY <1>1 DEF GenInv, Untaken
<1>5. \A o \in Generator : Progress(o)'
  <2>1. Progress(g)'
    BY <1>1 DEF Progress, Keys
  <2>2. ASSUME NEW o \in Generator \ {g} PROVE Progress(o)'
    BY <1>1, <2>2 DEF GenInv, Progress, Keys, Sub
  <2> QED
    BY <2>1, <2>2
<1>6. ASSUME NEW x \in Scenario
      PROVE  /\ Figures(x) \in own[g] <=> x = ScenarioOf[g]
             /\ Record(x) \in own[g] <=> x = ScenarioOf[g]
  BY <1>2, KeysDiffer DEF Keys
<1>7. ASSUME NEW s \in Substation
      PROVE  /\ Feeder(s) \in own[g] <=> s = Sub(g)
             /\ Chain(s) \in own[g] => s = Sub(g)
  BY <1>2, KeysDiffer DEF Keys
<1>8. TraceableFigures'
  BY <1>1, <1>6 DEF GenInv, TraceableFigures
<1>9. RootedTree'
  BY <1>1, <1>2, <1>7 DEF GenInv, RootedTree
<1>10. RecordsOnFeeders'
  BY <1>1, <1>2, <1>6 DEF GenInv, RecordsOnFeeders, Sub
<1>11. OneScenarioPerSubstation'
  <2>1. ASSUME NEW x \in Scenario, Record(x) \in rows PROVE SubstationOf[x] # Sub(g)
    BY <1>2, <2>1 DEF GenInv, RecordsOnFeeders, Untaken
  <2> QED
    BY <1>1, <1>6, <2>1 DEF GenInv, OneScenarioPerSubstation, Sub
<1> QED
  BY <1>3, <1>4, <1>5, <1>8, <1>9, <1>10, <1>11 DEF GenInv

\* Every statement, commit, death and restart of any number of generators keeps
\* the invariant.
LEMMA GenerationKeeps ==
  ASSUME GenInv, [GenNext]_genVars
  PROVE  GenInv'
<1>1. CASE UNCHANGED genVars
  BY <1>1 DEF genVars, GenInv, TypeOK, Active, Untaken, RecordsOnFeeders, Progress, Keys, Sub,
              TraceableFigures, RootedTree, OneScenarioPerSubstation
<1>2. ASSUME NEW g \in Generator, Generate(g) PROVE GenInv'
  <2>1. CASE FindSubstation(g) \/ FindNational(g)
    BY <2>1, FindKeeps
  <2>2. CASE InsertNational(g) \/ InsertChain(g) \/ InsertFeeder(g) \/ InsertFigures(g) \/ InsertRecord(g)
    BY <2>2, InsertKeeps DEF InsertNational, InsertChain, InsertFeeder, InsertFigures, InsertRecord, Inserts
  <2>3. CASE Commit(g)
    BY <2>3, CommitKeeps
  <2> QED
    BY <1>2, <2>1, <2>2, <2>3 DEF Generate
<1>3. ASSUME NEW g \in Generator, LockTimeout(g) \/ Die(g) PROVE GenInv'
  BY <1>3, FailKeeps DEF LockTimeout, Die
<1>4. ASSUME NEW g \in Generator, RunAgain(g) PROVE GenInv'
  BY <1>4, RunAgainKeeps
<1> QED
  BY <1>1, <1>2, <1>3, <1>4 DEF GenNext

\* Nothing that was committed goes away.
LEMMA RowsGrow ==
  ASSUME [GenNext]_genVars
  PROVE  rows \subseteq rows'
BY DEF GenNext, Generate, FindSubstation, FindNational, InsertNational, InsertChain, InsertFeeder,
       InsertFigures, InsertRecord, Insert, Commit, LockTimeout, Die, RunAgain, genVars

(***************************************************************************)
(* The export.                                                             *)
(***************************************************************************)

\* The files of x that are never left out, by the step that writes them.
Overviews(x)   == {File(k, x, x) : k \in Overview}
NodeFiles(x)   == {File(k, SubstationOf[x], x) : k \in OfNodes \cup {"ntl"}}
ConnFiles(x)   == {File(k, SubstationOf[x], x) : k \in {"conn_timeseries", "gt"}}

Exported ==
  step \in {"scenario", "nodes", "done"} =>
    /\ \A x \in listed : File("scenarios", x, x) \in files
    /\ \A x \in listed \ todo : Overviews(x) \cup NodeFiles(x) \cup ConnFiles(x) \subseteq files

Exporting ==
  step = "nodes" =>
    /\ current \in todo
    /\ Overviews(current) \subseteq files
    /\ SubstationOf[current] \in below \/ NodeFiles(current) \subseteq files
    /\ \A x \in listed \ {current} : SubstationOf[x] \in below

ExpInv ==
  /\ listed \subseteq Recorded /\ todo \subseteq listed /\ below \subseteq Fed
  /\ step = "done" => todo = {}
  /\ Exported /\ Exporting /\ DiesAtTransformer /\ OnlyOneExported

\* A file stays that none of the new ones is named like.
LEMMA FileStays ==
  ASSUME NEW k, NEW of, NEW from, File(k, of, from) \in files, NEW new,
         \A n \in new : n.kind # k \/ n.of # of
  PROVE  File(k, of, from) \in Written(new)
BY DEF File, Written

\* No two listed scenarios share a substation.
LEMMA ListedApart ==
  ASSUME GenInv, listed \subseteq Recorded, NEW x \in listed, NEW y \in listed, x # y
  PROVE  SubstationOf[x] # SubstationOf[y]
BY DEF GenInv, OneScenarioPerSubstation, Recorded

\* Generators that go on leave the export what it has.
LEMMA GenerationLeavesExport ==
  ASSUME ExpInv, [GenNext]_genVars, UNCHANGED expVars
  PROVE  ExpInv'
<1>1. rows \subseteq rows'
  BY RowsGrow
<1>2. Recorded \subseteq Recorded' /\ Fed \subseteq Fed'
  BY <1>1 DEF Recorded, Fed
<1> QED BY <1>2 DEF ExpInv, Exported, Exporting, DiesAtTransformer, OnlyOneExported, expVars

LEMMA WipeKeeps ==
  ASSUME ExpInv, Wipe, UNCHANGED genVars
  PROVE  ExpInv'
BY DEF ExpInv, Wipe, Exported, Exporting, DiesAtTransformer, OnlyOneExported

LEMMA ListKeeps ==
  ASSUME ExpInv, ListScenarios, UNCHANGED genVars
  PROVE  ExpInv'
<1>1. Recorded' = Recorded /\ Fed' = Fed
  BY DEF genVars, Recorded, Fed
<1> QED BY <1>1 DEF ExpInv, ListScenarios, Exported, Exporting, DiesAtTransformer, OnlyOneExported

\* The overview of x is named after x.
LEMMA ScenarioKeeps ==
  ASSUME GenInv, ExpInv, NEW x \in Scenario, ExportScenario(x), UNCHANGED genVars
  PROVE  ExpInv'
<1>1. PICK done \in {{}, {"analyses"}} : files' = Written({File(k, x, x) : k \in Overview \cup done})
  BY DEF ExportScenario
<1> DEFINE new == {File(k, x, x) : k \in Overview \cup done}
<1>2. /\ step = "scenario" /\ step' = "nodes" /\ x \in todo /\ current' = x /\ below' = Fed
      /\ UNCHANGED <<listed, todo>> /\ Recorded' = Recorded /\ Fed' = Fed
  BY DEF ExportScenario, Survives, genVars, Recorded, Fed
<1>3. \A n \in new : n.kind \in {"root", "summary", "revenue", "analyses"} /\ n.of = x
  BY DEF File, Overview
<1>4. new \subseteq files'
  BY <1>1 DEF Written
<1> HIDE DEF new
<1>5. files' = Written(new)
  BY <1>1 DEF new
<1>6. \A y \in listed : File("scenarios", y, y) \in files'
  <2> TAKE y \in listed
  <2>1. File("scenarios", y, y) \in files
    BY <1>2 DEF ExpInv, Exported
  <2> QED BY <1>3, <1>5, <2>1, FileStays
<1>7. ASSUME NEW y \in listed \ todo
      PROVE  Overviews(y) \cup NodeFiles(y) \cup ConnFiles(y) \subseteq files'
  <2>1. Overviews(y) \cup NodeFiles(y) \cup ConnFiles(y) \subseteq files /\ y # x
    BY <1>2 DEF ExpInv, Exported
  <2>2. \A k \in Overview : File(k, y, y) \in files'
    BY <1>3, <1>5, <2>1, FileStays DEF Overviews
  <2>3. \A k \in OfNodes \cup {"ntl", "conn_timeseries", "gt"} :
          k \notin {"root", "summary", "revenue", "analyses"}
    BY DEF OfNodes
  <2>4. \A k \in OfNodes \cup {"ntl"} : File(k, SubstationOf[y], y) \in files'
    BY <1>3, <1>5, <2>1, <2>3, FileStays DEF NodeFiles
  <2>5. \A k \in {"conn_timeseries", "gt"} : File(k, SubstationOf[y], y) \in files'
    BY <1>3, <1>5, <2>1, <2>3, FileStays DEF ConnFiles
  <2> QED BY <2>2, <2>4, <2>5 DEF Overviews, NodeFiles, ConnFiles
<1>8. Overviews(x) \subseteq files'
  BY <1>4 DEF Overviews, new
<1>9. \A y \in listed : SubstationOf[y] \in Fed
  BY <1>2 DEF ExpInv, GenInv, RecordsOnFeeders, Recorded, Fed, Substation
<1> QED BY <1>2, <1>6, <1>7, <1>8, <1>9 DEF ExpInv, Exported, Exporting, DiesAtTransformer, OnlyOneExported

\* Files of nodes and connections written for the current scenario are not
\* those of one that is finished, and no overview.
LEMMA OthersStay ==
  ASSUME GenInv, ExpInv, step = "nodes", NEW new, files' = Written(new),
         \A n \in new : n.kind \notin {"scenarios", "root", "summary", "revenue"}
                        /\ n.of = SubstationOf[current]
  PROVE  /\ \A x \in listed : File("scenarios", x, x) \in files'
         /\ \A x \in listed \ todo : Overviews(x) \cup NodeFiles(x) \cup ConnFiles(x) \subseteq files'
         /\ Overviews(current) \subseteq files'
<1>1. current \in todo /\ todo \subseteq listed
  BY DEF ExpInv, Exporting
<1>2. \A x \in listed : File("scenarios", x, x) \in files'
  <2> TAKE x \in listed
  <2>1. File("scenarios", x, x) \in files
    BY DEF ExpInv, Exported
  <2> QED BY <2>1, FileStays
<1>3. ASSUME NEW x, Overviews(x) \subseteq files PROVE Overviews(x) \subseteq files'
  <2>1. \A k \in Overview : k \in {"scenarios", "root", "summary", "revenue"}
    BY DEF Overview
  <2>2. \A k \in Overview : File(k, x, x) \in files'
    BY <1>3, <2>1, FileStays DEF Overviews
  <2> QED BY <2>2 DEF Overviews
<1>4. ASSUME NEW x \in listed \ todo
      PROVE  Overviews(x) \cup NodeFiles(x) \cup ConnFiles(x) \subseteq files'
  <2>1. Overviews(x) \cup NodeFiles(x) \cup ConnFiles(x) \subseteq files
    BY DEF ExpInv, Exported
  <2>2. SubstationOf[x] # SubstationOf[current]
    BY <1>1, ListedApart DEF ExpInv
  <2>3. \A k \in OfNodes \cup {"ntl"} : File(k, SubstationOf[x], x) \in files'
    BY <2>1, <2>2, FileStays DEF NodeFiles
  <2>4. \A k \in {"conn_timeseries", "gt"} : File(k, SubstationOf[x], x) \in files'
    BY <2>1, <2>2, FileStays DEF ConnFiles
  <2>5. Overviews(x) \subseteq files'
    BY <1>3, <2>1
  <2> QED BY <2>3, <2>4, <2>5 DEF NodeFiles, ConnFiles
<1>5. Overviews(current) \subseteq files
  BY DEF ExpInv, Exporting
<1> QED BY <1>2, <1>3, <1>4, <1>5

LEMMA NodesKeep ==
  ASSUME GenInv, ExpInv, NEW s \in Substation, ExportNodes(s), UNCHANGED genVars
  PROVE  ExpInv'
<1>1. /\ step = "nodes" /\ s \in below /\ UNCHANGED <<listed, todo, current>>
      /\ Recorded' = Recorded /\ Fed' = Fed
  BY DEF ExportNodes, genVars, Recorded, Fed
<1>2. CASE /\ files' = Written({File(k, s, current) : k \in OfNodes})
           /\ step' = "died" /\ UNCHANGED below
  <2> DEFINE new == {File(k, s, current) : k \in OfNodes}
  <2>1. \A n \in new : n.kind \notin Overview
    BY DEF File, OfNodes, Overview
  <2>2. new \subseteq files'
    BY <1>2 DEF Written
  <2> HIDE DEF new
  <2>3. files' = Written(new)
    BY <1>2 DEF new
  <2>4. Overviews(current) \subseteq files
    BY <1>1 DEF ExpInv, Exporting
  <2>5. \A k \in Overview : File(k, current, current) \in files'
    BY <2>1, <2>3, <2>4, FileStays DEF Overviews
  <2>6. DiesAtTransformer'
    BY <1>1, <1>2, <2>2, <2>5 DEF DiesAtTransformer, new
  <2> QED BY <1>1, <1>2, <2>6 DEF ExpInv, Exported, Exporting, OnlyOneExported
<1>3. CASE /\ TRUE \in Estimated(s)
           /\ \E thermal \in {{}, {"thermal"}} :
                files' = Written({File(k, s, current) : k \in OfNodes \cup {"ntl"} \cup thermal})
           /\ below' = below \ {s} /\ UNCHANGED step
  <2>1. s = SubstationOf[current] /\ below' = below \ {s} /\ step' = step
    BY <1>3 DEF Estimated
  <2>2. PICK thermal \in {{}, {"thermal"}} :
          files' = Written({File(k, s, current) : k \in OfNodes \cup {"ntl"} \cup thermal})
    BY <1>3
  <2> DEFINE new == {File(k, s, current) : k \in OfNodes \cup {"ntl"} \cup thermal}
  <2>3. \A n \in new : n.kind \notin {"scenarios", "root", "summary", "revenue"}
                       /\ n.of = SubstationOf[current]
    BY <2>1 DEF File, OfNodes
  <2>4. new \subseteq files'
    BY <2>2 DEF Written
  <2>5. NodeFiles(current) \subseteq files'
    BY <2>1, <2>4 DEF NodeFiles
  <2> HIDE DEF new
  <2>6. files' = Written(new)
    BY <2>2 DEF new
  <2>7. /\ \A x \in listed : File("scenarios", x, x) \in files'
        /\ \A x \in listed \ todo : Overviews(x) \cup NodeFiles(x) \cup ConnFiles(x) \subseteq files'
        /\ Overviews(current) \subseteq files'
    BY <1>1, <2>3, <2>6, OthersStay
  <2>8. \A x \in listed \ {current} : SubstationOf[x] \in below'
    <3>1. current \in listed
      BY <1>1 DEF ExpInv, Exporting
    <3>2. \A x \in listed \ {current} : SubstationOf[x] \in below /\ SubstationOf[x] # s
      BY <1>1, <2>1, <3>1, ListedApart DEF ExpInv, Exporting
    <3> QED BY <2>1, <3>2
  <2> QED BY <1>1, <2>1, <2>5, <2>7, <2>8 DEF ExpInv, Exported, Exporting, DiesAtTransformer, OnlyOneExported
<1> QED BY <1>2, <1>3 DEF ExportNodes

LEMMA ConnectionsKeep ==
  ASSUME GenInv, ExpInv, ExportConnections, UNCHANGED genVars
  PROVE  ExpInv'
<1>1. /\ step = "nodes" /\ below = {} /\ todo' = todo \ {current}
      /\ step' = IF todo' = {} THEN "done" ELSE "scenario"
      /\ UNCHANGED <<listed, current, below>>
      /\ Recorded' = Recorded /\ Fed' = Fed
  BY DEF ExportConnections, genVars, Recorded, Fed
<1>2. PICK case \in {{}, {"case"}} :
        files' = Written({File(k, SubstationOf[current], current) :
                            k \in {"conn_timeseries", "gt"} \cup case})
  BY DEF ExportConnections
<1> DEFINE new == {File(k, SubstationOf[current], current) : k \in {"conn_timeseries", "gt"} \cup case}
<1>3. \A n \in new : n.kind \in {"conn_timeseries", "gt", "case"} /\ n.of = SubstationOf[current]
  BY DEF File
<1>4. new \subseteq files'
  BY <1>2 DEF Written
<1>5. ConnFiles(current) \subseteq files'
  BY <1>4 DEF ConnFiles
<1> HIDE DEF new
<1>6. files' = Written(new)
  BY <1>2 DEF new
<1>7. /\ \A x \in listed : File("scenarios", x, x) \in files'
      /\ \A x \in listed \ todo : Overviews(x) \cup NodeFiles(x) \cup ConnFiles(x) \subseteq files'
      /\ Overviews(current) \subseteq files'
  BY <1>1, <1>3, <1>6, OthersStay
<1>8. NodeFiles(current) \subseteq files'
  <2>1. NodeFiles(current) \subseteq files
    BY <1>1 DEF ExpInv, Exporting
  <2>2. \A k \in OfNodes \cup {"ntl"} : k \notin {"conn_timeseries", "gt", "case"}
    BY DEF OfNodes
  <2>3. \A k \in OfNodes \cup {"ntl"} : File(k, SubstationOf[current], current) \in files'
    BY <1>3, <1>6, <2>1, <2>2, FileStays DEF NodeFiles
  <2> QED BY <2>3 DEF NodeFiles
<1>9. listed = {current}
  BY <1>1 DEF ExpInv, Exporting
<1> QED BY <1>1, <1>5, <1>7, <1>8, <1>9 DEF ExpInv, Exported, Exporting, DiesAtTransformer, OnlyOneExported

(***************************************************************************)
(* Theorems.                                                               *)
(***************************************************************************)

\* The generators are not disturbed by the export.
THEOREM GenerationInvariance == Spec => []GenInv
<1>1. Init => GenInv
  BY GenInitially DEF Init
<1>2. [Next]_vars => [GenNext]_genVars
  BY DEF Next, vars
<1>3. GenInv /\ [Next]_vars => GenInv'
  BY <1>2, GenerationKeeps
<1> QED
  BY <1>1, <1>3, PTL DEF Spec

\* Whatever is generated while an export runs, what the export has written for
\* the scenarios it finished stays.
THEOREM ExportInvariance == Spec => []ExpInv
<1>1. Init => ExpInv
  BY DEF Init, ExpInit, ExpInv, Exported, Exporting, DiesAtTransformer, OnlyOneExported
<1>2. GenInv /\ ExpInv /\ [Next]_vars => ExpInv'
  <2> SUFFICES ASSUME GenInv, ExpInv, [Next]_vars PROVE ExpInv'
    OBVIOUS
  <2>1. CASE [GenNext]_genVars /\ UNCHANGED expVars
    BY <2>1, GenerationLeavesExport
  <2>2. ASSUME Wipe, UNCHANGED genVars PROVE ExpInv'
    BY <2>2, WipeKeeps
  <2>3. ASSUME ListScenarios, UNCHANGED genVars PROVE ExpInv'
    BY <2>3, ListKeeps
  <2>4. ASSUME NEW x \in Scenario, ExportScenario(x), UNCHANGED genVars PROVE ExpInv'
    BY <2>4, ScenarioKeeps
  <2>5. ASSUME NEW s \in Substation, ExportNodes(s), UNCHANGED genVars PROVE ExpInv'
    BY <2>5, NodesKeep
  <2>6. ASSUME ExportConnections, UNCHANGED genVars PROVE ExpInv'
    BY <2>6, ConnectionsKeep
  <2> QED BY <2>1, <2>2, <2>3, <2>4, <2>5, <2>6 DEF Next, Render, vars
<1> QED
  BY <1>1, <1>2, GenerationInvariance, PTL DEF Spec

\* Figures are never visible without the record of the run that made them.
THEOREM FiguresAlwaysTraceable == Spec => []TraceableFigures
<1>1. GenInv => TraceableFigures
  BY DEF GenInv
<1> QED
  BY <1>1, GenerationInvariance, PTL

\* The committed hierarchy always hangs on the national node.
THEOREM TreeAlwaysRooted == Spec => []RootedTree
<1>1. GenInv => RootedTree
  BY DEF GenInv
<1> QED
  BY <1>1, GenerationInvariance, PTL

\* No feeder ever serves two committed scenarios.
THEOREM OneScenarioAlways == Spec => []OneScenarioPerSubstation
<1>1. GenInv => OneScenarioPerSubstation
  BY DEF GenInv
<1> QED
  BY <1>1, GenerationInvariance, PTL

\* An export that ends well is complete, for every scenario it listed.
THEOREM ExportAlwaysComplete == Spec => []ExportComplete
<1>1. ExpInv => ExportComplete
  <2> SUFFICES ASSUME ExpInv, step = "done", NEW x \in listed
               PROVE  /\ \A k \in {"scenarios"} \cup Overview : File(k, x, x) \in files
                      /\ \A k \in OfNodes \cup {"ntl", "conn_timeseries", "gt"} :
                           File(k, SubstationOf[x], x) \in files
    BY DEF ExportComplete
  <2> QED BY DEF ExpInv, Exported, Overviews, NodeFiles, ConnFiles
<1> QED
  BY <1>1, ExportInvariance, PTL

\* An export dies of an empty database or at a transformer, with what came
\* before it on disk.
THEOREM ExportDiesAtTransformer == Spec => []DiesAtTransformer
<1>1. ExpInv => DiesAtTransformer
  BY DEF ExpInv
<1> QED
  BY <1>1, ExportInvariance, PTL

\* Two scenarios are never exported together, by any number of generators.
THEOREM OnlyOneEverExported == Spec => []OnlyOneExported
<1>1. ExpInv => OnlyOneExported
  BY DEF ExpInv
<1> QED
  BY <1>1, ExportInvariance, PTL
=============================================================================
