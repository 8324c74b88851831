-------------------------- MODULE ScenarioGeneration --------------------------
(***************************************************************************)
(* Concurrent runs of seed_demo_scenario.py: generate_scenario             *)
(* (gridsynth/scenario.py) and the commit of its caller, statement by      *)
(* statement as far as one run can see or stop another.                    *)
(*                                                                         *)
(* Rows are grouped into the keys that are written together: the national  *)
(* node every substation shares, the chain of nodes down to a substation,  *)
(* the feeder below it (transformers, LV feeders, connections and their    *)
(* associations, whose ids depend on the substation alone), the figures of *)
(* a scenario (ground truth and vending events) and its synthetic_scenario *)
(* row.                                                                    *)
(***************************************************************************)
EXTENDS Naturals, FiniteSets

CONSTANTS Generator,     \* runs of the script
          Scenario,      \* scenario ids: a digest of the configuration and the seed
          ScenarioOf,    \* ScenarioOf[g]: the scenario g was asked for
          SubstationOf,  \* SubstationOf[x]: its config.substation_id
          MaxRuns        \* bound: attempts of one generator

ASSUME GenerationAssumption ==
  /\ ScenarioOf \in [Generator -> Scenario]
  /\ DOMAIN SubstationOf = Scenario
  /\ MaxRuns \in Nat \ {0}

National    == <<"national">>
Chain(s)    == <<"chain", s>>
Feeder(s)   == <<"feeder", s>>
Figures(x)  == <<"figures", x>>
Record(x)   == <<"scenario", x>>

Substation == {SubstationOf[x] : x \in Scenario}
Key == {National} \cup {Chain(s) : s \in Substation} \cup {Feeder(s) : s \in Substation}
         \cup {Figures(x) : x \in Scenario} \cup {Record(x) : x \in Scenario}

VARIABLES dialect,  \* the database of make_engine: "sqlite" or "postgresql"
          rows,     \* committed keys
          own,      \* own[g]: keys g has inserted and not committed
          phase,    \* phase[g]: what g does next
          attempts  \* bound

genVars == <<dialect, rows, own, phase, attempts>>

Sub(g) == SubstationOf[ScenarioOf[g]]

GenInit ==
  /\ dialect \in {"sqlite", "postgresql"}
  /\ rows = {}
  /\ own = [g \in Generator |-> {}]
  /\ phase = [g \in Generator |-> "start"]
  /\ attempts = [g \in Generator |-> 1]

Active(g) == phase[g] \notin {"done", "failed"}

Go(g, next) == phase' = [phase EXCEPT ![g] = next]

\* Mutant: reads see what other runs have not committed.
SeesUncommitted(g, k) == k \in rows \cup UNION {own[o] : o \in Generator}

\* What a statement of g finds: READ COMMITTED, or the latest commit in SQLite.
Sees(g, k) == k \in rows \cup own[g]

\* The foreign keys of db/models.py between the groups.
References(k) ==
  CASE k[1] = "chain"   -> {National}
    [] k[1] = "feeder"  -> {Chain(k[2])}
    [] k[1] = "figures" -> {Record(k[2]), Feeder(SubstationOf[k[2]])}
    [] OTHER            -> {}

\* Foreign keys are checked at the end of the statement; SQLite is never told
\* to enforce them.
ReferencesFound(g, k) ==
  dialect = "postgresql" => \A p \in References(k) : Sees(g, p)

\* Another run holds the lock an insert of k needs: the one write lock of
\* SQLite, or the same primary key.
Waits(g, k) ==
  \E o \in Generator \ {g} : IF dialect = "sqlite" THEN own[o] # {} ELSE k \in own[o]

\* An exception leaves the `with Session()` block: rollback.
Fail(g) == Go(g, "failed") /\ own' = [own EXCEPT ![g] = {}]

\* Mutant: rows that are there already are taken over.
InsertOrIgnore(g, from, k, next) ==
  /\ phase[g] = from /\ ~Waits(g, k)
  /\ IF ReferencesFound(g, k)
     THEN own' = [own EXCEPT ![g] = @ \cup {k}] /\ Go(g, next)
     ELSE Fail(g)
  /\ UNCHANGED <<dialect, rows, attempts>>

\* A flush or an INSERT: IntegrityError if the key exists or a reference does not.
Insert(g, from, k, next) ==
  /\ phase[g] = from /\ ~Waits(g, k)
  /\ IF ~Sees(g, k) /\ ReferencesFound(g, k)
     THEN own' = [own EXCEPT ![g] = @ \cup {k}] /\ Go(g, next)
     ELSE Fail(g)
  /\ UNCHANGED <<dialect, rows, attempts>>

\* _ensure_minimal_ancestor_chain returns early for a substation that exists.
FindSubstation(g) ==
  /\ phase[g] = "start"
  /\ Go(g, IF Sees(g, Chain(Sub(g))) THEN "feeder" ELSE "find national")
  /\ UNCHANGED <<dialect, rows, own, attempts>>

FindNational(g) ==
  /\ phase[g] = "find national"
  /\ Go(g, IF Sees(g, National) THEN "chain" ELSE "national")
  /\ UNCHANGED <<dialect, rows, own, attempts>>

\* Mutant: the figures, the bulk of the rows, are committed on their own.
InsertFiguresCommitted(g) ==
  /\ phase[g] = "figures" /\ ~Waits(g, Figures(ScenarioOf[g]))
  /\ IF ~Sees(g, Figures(ScenarioOf[g])) /\ ReferencesFound(g, Figures(ScenarioOf[g]))
     THEN /\ rows' = rows \cup own[g] \cup {Figures(ScenarioOf[g])}
          /\ own' = [own EXCEPT ![g] = {}] /\ Go(g, "record")
     ELSE Fail(g) /\ UNCHANGED rows
  /\ UNCHANGED <<dialect, attempts>>

InsertNational(g) == Insert(g, "national", National, "chain")
InsertChain(g)    == Insert(g, "chain", Chain(Sub(g)), "feeder")
InsertFeeder(g)   == Insert(g, "feeder", Feeder(Sub(g)), "figures")
InsertFigures(g)  == Insert(g, "figures", Figures(ScenarioOf[g]), "record")
InsertRecord(g)   == Insert(g, "record", Record(ScenarioOf[g]), "commit")

Commit(g) ==
  /\ phase[g] = "commit" /\ Go(g, "done")
  /\ rows' = rows \cup own[g] /\ own' = [own EXCEPT ![g] = {}]
  /\ UNCHANGED <<dialect, attempts>>

\* SQLite gives up waiting for its write lock after a few seconds.
LockTimeout(g) ==
  /\ dialect = "sqlite" /\ Active(g) /\ own[g] = {} /\ phase[g] \notin {"start", "find national"}
  /\ \E o \in Generator \ {g} : own[o] # {}
  /\ Fail(g) /\ UNCHANGED <<dialect, rows, attempts>>

\* The process dies; or it is started again.
Die(g) == Active(g) /\ Fail(g) /\ UNCHANGED <<dialect, rows, attempts>>

RunAgain(g) ==
  /\ phase[g] = "failed" /\ attempts[g] < MaxRuns
  /\ attempts' = [attempts EXCEPT ![g] = @ + 1] /\ Go(g, "start")
  /\ UNCHANGED <<dialect, rows, own>>

Generate(g) == FindSubstation(g) \/ FindNational(g) \/ InsertNational(g) \/ InsertChain(g)
                 \/ InsertFeeder(g) \/ InsertFigures(g) \/ InsertRecord(g) \/ Commit(g)

GenNext == \E g \in Generator : Generate(g) \/ LockTimeout(g) \/ Die(g) \/ RunAgain(g)

GenSpec == GenInit /\ [][GenNext]_genVars

(***************************************************************************)
(* Properties.                                                             *)
(***************************************************************************)
TypeOK ==
  /\ dialect \in {"sqlite", "postgresql"}
  /\ rows \in SUBSET Key /\ own \in [Generator -> SUBSET Key]
  /\ phase \in [Generator -> {"start", "find national", "national", "chain", "feeder",
                              "figures", "record", "commit", "done", "failed"}]
  /\ attempts \in [Generator -> 1..MaxRuns]
  /\ \A g \in Generator : own[g] # {} => Active(g)

\* Every synthetic figure is traceable to a scenario: others see the figures of a
\* scenario and its record together or neither, whichever run dies where, and
\* though SQLite enforces no reference.
TraceableFigures ==
  \A x \in Scenario : (Figures(x) \in rows) = (Record(x) \in rows)

\* What is committed of the hierarchy hangs on the national node, though the runs
\* look for it at one time and build on it at another.
RootedTree ==
  \A s \in Substation :
    /\ Feeder(s) \in rows => Chain(s) \in rows
    /\ Chain(s) \in rows => National \in rows

\* A feeder is used by one scenario: no second one mixes its figures with those
\* of the first, as node and connection ids would let it.
OneScenarioPerSubstation ==
  \A x, y \in Scenario :
    Record(x) \in rows /\ Record(y) \in rows /\ SubstationOf[x] = SubstationOf[y] => x = y

\* models.py: the same models run against SQLite and PostgreSQL.  Nothing but
\* another run, or its own death, makes a generation fail.
AloneSucceeds ==
  [][Cardinality(Generator) = 1 => \A g \in Generator : Generate(g) => phase'[g] # "failed"]_genVars
=============================================================================
