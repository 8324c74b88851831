# TLA+ models of the National Grid Intelligence Platform

This directory keeps the formal models of the platform in `src/src/gridintel`:
TLA+ modules, the TLC configurations that check them on small instances, and
proofs checked by TLAPS. `PROJECT.json` ties every definition to the lines it
models, every property to the run that checks it and to a mutation of the code
that the run catches.

## 1. The system

A Python package over one relational database (SQLite or PostgreSQL), a
read-only HTTP API for the drill-down interface, an HTTP and an MQTT ingestion
service, a synthetic feeder generator, five analysis modules (A to E) and a
JavaScript frontend.

| Part | Code | State it keeps | Operations |
|---|---|---|---|
| network hierarchy | `hierarchy/aggregate.py` | `network_node` | `add_node`, `descendant_ids`, `ancestor_chain`, `resolve_connections`, `aggregate_consumption_kw`, `find_orphans` |
| association history | `hierarchy/aggregate.py`, `db/models.py` | `connection_association` (versioned rows, partial unique index) | `set_association` |
| ingestion | `ingestion/` | `sensor_reading` | `POST /telemetry`, MQTT `on_message`, both through `store_reading` |
| scenario generation | `gridsynth/scenario.py` | every table, in one transaction of the caller | `generate_scenario` |
| prepaid meters and vending | `gridsynth/purchasing.py` | token balance per connection, `vending_event` | `simulate_connection` |
| shedding schedule | `gridsynth/shedding.py`, `shedding_schedule.py` | weekly windows per group | `generate_shedding_schedule`, `shed_mask_for_group`, `apply_shedding` |
| anomalies and losses | `gridsynth/anomalies.py`, `gridsynth/lossmodel.py` | none: columns `kw` and `metered_kw` and the labels | `inject_anomalies`, `compute_technical_losses` |
| topology, archetypes, load shapes | `gridsynth/` | none (pure functions of a seed) | `build_feeder_topology`, `generate_true_consumption` |
| module A, reconstruction | `module_a/` | none | `reconstruct_for_connection` |
| module B, case queue and energy balance | `module_b/` | none | `build_case_queue`, `classify`, `compute_nontechnical_loss` |
| module C, transformer health | `module_c/` | none | `assess_transformer`, `rank_transformers` |
| module D, forecast | `module_d/` | none | `forecast_demand` |
| module E, shedding allocation | `module_e/` | none | `allocate_shedding` |
| digital twin | `digitaltwin/` | an OpenDSS circuit per call | `compute_modelled_loss` |
| presentation | `presentation/api.py` | none | the report endpoints |
| static export | `scripts/export_static_api.py` | a directory of JSON files | `main` |

How they interact: everything meets in the database. Generators, ingestion and
association corrections write it, each in a transaction of its caller; reports
only read, one `SELECT` after another at READ COMMITTED, so a report is not a
snapshot. Module A is called by B, C, D, E and the reports; B's energy balance
calls the digital twin. The frontend calls the API (or reads the files of the
static export) through `fetch`, with callbacks that share one global state. No
component calls another asynchronously except through HTTP and MQTT.

### What is hard in it, and what would make it right

| Component | Hard behaviour | Properties |
|---|---|---|
| association history | two statements per correction, several sessions, locks, an index that refuses, deadlock, commit or rollback at any point | one current row per connection, no gap in the history, history only appended to, transactions end |
| network hierarchy | rows are built in any order by many callers, and five queries must agree on them | roll-up and drill-down agree, totals add up |
| subtree reports | queries spread over time while corrections move connections | what does not move is reported once; what moves, boundedly often |
| ingestion | commit and answer are two steps; retries; a broker that forgets; errors in the middle | an acknowledgement means stored; nothing is stored without being sent; the subscriber recovers; no message blocks the next |
| scenario generation | one transaction over every table, beside others like it, on two databases with different rules | figures and their record appear together; the tree has a root; one scenario per substation |
| static export | hours of queries and files without a snapshot, and payloads that raise | a finished export is complete, and of one scenario; modules C, D and E do not end it |
| meter and reconstruction | rounding, binning and clipping of energy over a window | energy conserved, cumulative bounds, bounded error |
| shedding schedule | windows past midnight, matched against the day they are named for | a group is off for as many hours as published; only the small hours of Saturday and Monday differ |
| anomaly injection | five kinds, shedding before them, the meter and the account status after them, all rewriting two columns | every label says what was done, and nothing unlabelled was |
| energy balance, digital twin | one side told from names, the other from records that are wrong and change, resolved twice | wrong records create no energy; the residual shows what is hidden and nothing else |
| transformer health | a recursion with memory, then a peak, a mean and a band | more load never looks healthier |
| analyses | weights and votes of different scales, rows of time series one off | who is switched off, who is not accused, nothing learnt from the future |
| frontend | awaits between a change of state and its use, answers out of order, errors halfway | what is on screen belongs to what is selected; the overlay ends |

`PROJECT.json` lists the hazards one by one at the line where they bite, with
the property that guards each, or why none does.

## 2. Modules

| Module | Models | Built on |
|---|---|---|
| `AssociationLog` | abstract: one append-only log of nodes per connection and the current belief | |
| `Association` | `set_association` statement by statement in concurrent sessions; the mapping to `AssociationLog` | `AssociationLog` |
| `MCAssociation` | TLC instance: which corrections the sessions ask for | `Association` |
| `Association_proofs` | theorems | `Association` |
| `NetworkHierarchy` | `add_node`, corrections as one step, all queries | |
| `SubtreeReport` | a report over a subtree, query by query | `NetworkHierarchy` |
| `NetworkHierarchy_proofs` | theorems of hierarchy and reports | `SubtreeReport`, `OperatorTheorems` |
| `PrepaidMeter` | `simulate_connection` | |
| `Segments` | the arithmetic of module A: bins, segments, levels, clipping | |
| `SegmentReconstruction` | module A | `Segments` |
| `MeteredReconstruction` | the meter to its end, then module A on its recorded events, by `INSTANCE` | `PrepaidMeter`, `SegmentReconstruction` |
| `SensorLedger` | abstract: readings sent, stored, acknowledged | |
| `Ingestion` | HTTP endpoint, MQTT service, broker, devices, database errors, crashes; the mapping to `SensorLedger` | `SensorLedger` |
| `ScenarioGeneration` | `generate_scenario` in concurrent transactions, SQLite and PostgreSQL | |
| `StaticExport` | the export while generators run | `ScenarioGeneration` |
| `StaticExport_proofs` | theorems of generation and export | `StaticExport` |
| `Ingestion_proofs` | theorems | `Ingestion` |
| `FeederTruth` | what the generator does to the draw of every connection: shedding, anomalies, meter, labels | |
| `EnergyBalance` | the balance of every transformer, with the digital twin, while records are corrected | `FeederTruth` |
| `Energy_proofs` | theorems of the meter, its reconstruction, the feeder's truth and its balances | `MeteredReconstruction`, `EnergyBalance`, `OperatorTheorems` |
| `SheddingSchedule` | windows, mask, and a scenario walked hour by hour | |
| `SheddingAllocation` | module E and its view | `SheddingSchedule` |
| `CaseQueue`, `DemandForecast`, `ThermalAgeing` | modules B, D and C | |
| `Analytics` | what is computed on demand, one computation per behaviour | those five, and `SegmentReconstruction` |
| `Analytics_proofs` | theorems | `Analytics`, `OperatorTheorems` |
| `OperatorTheorems` | lemmas on finite sets, sums, fractions and the operators of `Segments` | `Segments` |
| `Dashboard`, `Drilldown` | the frontend's overview pages, and its explorer with the case modal | |
| `Frontend` | the page: dashboard, and the explorer by `INSTANCE` | both |
| `Frontend_proofs` | theorems of dashboard, explorer and modal | `Frontend`, `OperatorTheorems` |
| `MC*` | constants for TLC | |

### State and actions against the code

**`Association`.** `table` is the committed `connection_association`, `writes[s]`
the uncommitted rows of session s, `pend[s]` the statements SQLAlchemy has
queued. `Start` reads the clock (`aggregate.py:193`), `SelectCurrent` is the
`SELECT` of 194-198, with the autoflush it causes; `FlushUpdate` and
`FlushInsert` are the two statements of the flush in the order the unit of work
sends them; `FlushRefused` is the `IntegrityError` of the partial unique index;
`Commit` and `Rollback` are the end of the caller's session: the one caller in the
repository is `generate_scenario`, within the `with Session()` of
`seed_demo_scenario.py:35-37`. `Locked` is the row
lock, `MustWait` the wait of an insert for a rival's uncommitted key, and
`DeadlockAbort` the database breaking a cycle of waits.

**`NetworkHierarchy`.** `nodes` maps ids to type and parent, `assoc` holds the
current association. `AddNode` has the guards of `validate_parent_child`;
`Generation`, `Descendants` and `AncestorChain` are the recursive queries as
recursive functions (`Upward` is one step of the chain), `ResolveConnections` and
`AggregateConsumption` the joins over them, `TransformersUnder` and `ConnectionsOf` what the reports use.

**`SubtreeReport`.** `Begin` lists the transformers; `ResolveTransformer` and
`Reconstruct` are the two queries of the loop body; `Grow` and `Correct` are
other sessions' commits, possible between any two of them.

**`PrepaidMeter`.** One interval is `Supply` (the meter disconnects at zero) and
then `Buy` or `Pass`. The order of credit, rounding and record in `Buy` is the
code's, and `AmountPaid` rounds as `_snap_to_denomination` does: to the nearest
note, or else to the cent (half to even). `snaps` and `rounds` count the two, for `Rounding`.
The probability of buying is strictly between 0 and 1 at all times, so
both are always possible; sizes and demands are free.

**`Segments`, `SegmentReconstruction`.** Events at clock ticks are binned by forward fill,
levels are exact fractions (records `num`, `den`), `Winsorized` clips above twice the median from four
segments on. The median of an even count is taken in log space in the code; it
lies between the middle levels, so the model allows either. The shape prior is
any positive weight per interval.

**`MeteredReconstruction`** runs the meter to the horizon, hands its recorded
events over, and lets `FeedsReconstruction` say that the whole implements
`SegmentReconstruction`.

**`Ingestion`.** A request goes from `sent` to `flushed` or `refused` to
`committed`, and is answered from the stage `Ready` names. `order` covers both
behaviours of FastAPI, which ends a `yield` dependency before or after it sends the
response depending on the version; `requirements.txt` pins none. `OnConnect`
subscribes on every connect, `OnMessage` commits or logs and forgets,
`Disconnect` and `Crash` lose what is on the way (QoS 0, clean session).
`SensorLedger` forgets requests, link and inbox: `SentOf` counts postings and
publications of a reading, `AckedOf` the readings answered 201 after their commit (a
201 given before it promises nothing, so it does not count).

**`ScenarioGeneration`.** A key stands for the rows of one table of one
scenario. `Insert` fails if the key is visible, or if the database enforces
references and one is missing; it waits where PostgreSQL waits for an
uncommitted key and where SQLite waits for its only writer (`LockTimeout`).
`FindSubstation` and `FindNational` are the look-ups of
`_ensure_minimal_ancestor_chain`, separate from the inserts that rely on them.
`Commit` and `Fail` belong to `seed_demo_scenario.py`.

**`StaticExport`.** `Wipe`, `ListScenarios`, then per scenario `ExportScenario`,
one `ExportNodes` per substation and `ExportConnections`; a file is what kind of
payload it is, whose name it bears and the scenario it was computed for.
`Estimated` is where the energy balance raises: for a transformer of another scenario
always, as none of its placed connections has a row in this one, and for one of
this scenario possibly. Corrections of associations during an export are left out, as is a
record that puts a connection of one scenario beneath a transformer of another.

**`FeederTruth`.** One interval of a scenario. `ApplyShedding` leaves standby
draw, or catch-up after a restoration; `Inject` is one turn of the loop over
`anomaly_rates` with any targets among those not yet used, any of them past
its random start, any size; `Store` is the prepaid meter (with any
balance), the insert and the update of the account status. Loads are whole units of
10 W, so that shares are rounded down.

**`EnergyBalance`.** `ResolveAccounted` is `_measured_inflow_kw` and
`_accounted_consumption`, `ResolveTwin` is `compute_modelled_loss` with its own
`resolve_connections`, and a correction may come between. A wrong initial record has no
electrical placement. Module A's answer for a prepaid connection is free
(`Estimates`), or a `ValueError` that leaves it out. `NetworkLoss` stands for the
OpenDSS solution of a star of service drops: a sum over connections that grows
with each load. `failed` is where a twin without loads makes
`compute_nontechnical_loss` raise.

**`SheddingSchedule`.** `Windows` and `InWindow` are the code's, `Published` what
a window means that starts on its day and ends `Length` later. `PassHour` is one more
hour of the mask. Windows begin on the hour when the number of groups
divides 24, which the assumption asks for (the default is 4).

**`ThermalAgeing`.** `Advanced` is one turn of the loop of
`compute_thermal_ageing` for two loadings at once, `Assessable` the refusal of
fewer than two intervals. The ageing rate doubles with every six degrees; it is
counted in whole doublings, from a 4096th of the design rate (26 degrees) up. The powers of IEC 60076-7 are tables of
which only the order is assumed; temperatures are in tenths of a degree.

**`SheddingAllocation`.** `HoursShed` adds up the hours of the published windows,
`UnitCost` the objective, `Milp` any answer the solver may give within its
default gap, `Allocations` the early returns. **`CaseQueue`.** Six labelling
functions with their thresholds, the peer comparison on twice the median (so
that halves stay whole numbers), the two-stage decision and the stable ranking (`Ranked`: the listings of the anomalous in that order).
**`DemandForecast`.** Rows by number: what a feature reads, what `dropna`
leaves, where the two splits fall, and the three refusals.

**`Dashboard`, `Drilldown`.** A pending request is a continuation: its `stage`
names the `await` it stands at, so that each answer runs the code up to the
next `await`. A condition of the behaviour says whether the user is patient,
answers come in order and requests may fail.

## 3. Runs

| Run | Question | Bounds, and why they are enough |
|---|---|---|
| `association` | Do concurrent corrections keep one current row, the whole history, and end? `ImplementsLog` is the refinement of `AssociationLog`; `TransactionsEnd` is liveness | two sessions, two connections, two corrections each, four rows: both sessions race for one connection, hold two in opposite order (deadlock), and take one connection twice in a transaction. Two nodes, between which one connection is moved, so a history with the wrong node in it, or its entries in the wrong order, is told from the right one; the other connection, there for the deadlock, stays on one node (`Asked`) |
| `association_intervals` | Does an interval of belief end before it starts? (violation) | as above |
| `subtree_report` | Do all queries agree on every network, and what does a report show when the network changes under it? | every tree of four nodes over the four lower levels: branching, two transformers, depth four; two connections on any node, two confidences, two corrections of each during one report; kW values of which no two sums coincide |
| `metered_reconstruction` | What relation do estimate and truth have? | four intervals; demands below, at and above the stock; sizes between denominations and above the largest; a cent of four units, so that rounding to it goes up, down and, half way, to even |
| `prepaid_meter_recorded` | Is consumption bounded by the recorded purchases? (violation) | four intervals |
| `frontend` | Is what is on screen of what is selected, and does the overlay end? | two scenarios, two operations on the dashboard or four clicks in a tree of four nodes and two connections; four combinations of patience, order and errors |
| `ingestion` | What is stored, acknowledged, handled? `KeepsLedger` is the refinement of `SensorLedger` | two postings, two publications of each of two readings, two troubles: a retry after a lost answer, trouble during the recovery from trouble |
| `scenarios` | What do others see of generated scenarios; what does an export leave? | three generators (two for one substation), started twice each, both databases, any number of exports |
| `generation_alone` | Does one generator on an empty database succeed? (violation) | one generator, once |
| `feeder_balance` | Do the labels say what was done, and what do energy balances taken one by one add up to? | two transformers, two households and a plant; every initial record right or wrong; off or just restored; five configurations of anomalies with every target and start; a meter that runs out and one that does not; every estimate missing or 1 kW, so below and above the draw; one correction anywhere, between two balances or within one. Symmetric in the households |
| `equity_note` | Do load size and stress alone decide who is switched off? (violation) | as `analytics` |
| `analytics` | When is a group off, who is switched off, who is accused, what does a forecast rest on, what does ageing follow, what may an estimate spend? | two weeks from each day of the week, four groups, of which the last two have windows past midnight; four transformers of three groups with loads 0, 20, 110 and 300 (up to what the hours outweigh, and beyond), any of them stressed, seven shares of generation (none needed, met exactly, out of reach); any of 168 signatures for one connection among two peers of its transformer; histories of up to 60 intervals, with a day of 2, a week of 6, 10 intervals of history and 3 held out standing for 48, 336, 200 and 10; three intervals of four loadings, idle to half above the rating, and two temperatures; five intervals of two ticks, six of them to buy at (on and off the grid, two in one interval), two amounts, two weights: five segments, so clipping happens (it takes four) and does not |

`CHECK_DEADLOCK FALSE` stands where the modelled part of the system stops: the
transactions of a run are used up (`MaxRows`, `MaxCalls`), the tree is full, the
horizon is reached, the postings and publications are spent, the view has been
answered. `scenarios` can always export again, and there deadlock is checked.

The passing runs show that the properties hold at these bounds under the
concurrency modelled; each property has a mutation of one definition
(the operators commented "Mutant") that makes its run fail. Four further runs show
where the code and what it says of itself part:

* `association_intervals`: `set_association` reads the clock before it selects
  the row it closes (`aggregate.py:193`); a row committed in between is closed
  earlier than it began, and no as-of query finds it, though `models.py:148-151`
  promises the full history.
* `prepaid_meter_recorded`: the balance is credited before rounding
  (`purchasing.py:177`), the event records the rounded amount, so "a hard
  cumulative-purchases-bound-cumulative-consumption constraint"
  (`purchasing.py:11-12`) fails. What holds instead is `BoundWithRounding`.
* `equity_note`: the view of module E calls its equity term inert and says that load
  size and stress drive the allocation (`api.py:622-628`, shown by `views.js:350`).
  All groups have 44 hours a week, but the objective adds the hours of every transformer
  switched off (`allocation.py:122-129`), so the answer can be one large transformer where two
  small ones meet the requirement with less load. `FewestSwitchedOff` states what
  the term does instead while the hours outweigh the loads.
* `generation_alone`: rows referring to the scenario are inserted before it
  (`scenario.py:281`), which PostgreSQL refuses.

Other disagreements met on the way, without a run of their own:

* `views.js:151` fills the select of transformers once; in the next scenario the
  network view asks for the balance of a transformer of the previous one.
  `SettledOnSelection` leaves that view out from then on. `views.js:607` paints a
  ground truth only if there is one, so for an impatient user it can stay from
  the connection opened before; `ModalSettled` is for the patient one.
* `set_association` accepts a node of any level, while connections are to hang
  from transformers only; `QueuesReachEveryConnection` states what depends on it.
* The critical term of 100 is not out of reach of the others (`allocation.py:49-51`):
  eight weeks of 44 hours weigh 352. No transformer carries the flag yet.
* two scenarios are never exported together: `list_scenarios` offers them all, and the
  export of the first one walks into the substation of the second and ends there
  (`OnlyOneExported`).
* the summary (`api.py:684-687`) still answers that modules C, D and E are not
  built, while they are.
* `FULL_BYPASS` is never predicted: it gets the votes `METER_FAILURE` gets, and the
  first maximum wins.
* `metered_kw` differs from `kw` for connections without an anomaly when the meter
  runs out (`scenario.py:252-276`), though `models.py:287-288` calls them equal there:
  `LabelsTrue` says so only until the meter has counted.
* `_pick_targets` picks one connection at rate 0 (`anomalies.py:62`).
* A window past midnight is matched on its own day of the week
  (`shedding_schedule.py:35`), so its small hours come before its evening;
  `MidnightConfined` says where this shows. "Offset by group so groups don't all shed
  simultaneously" (`gridsynth/shedding.py:39`): two groups are offset by 12 hours, as
  far as their two blocks are apart, and shed the same hours of every weekday;
  so do opposite groups of four.
* `health.py:62-63` calls its input the one the digital twin runs on, but module C
  reconstructs industrial connections, which the balance takes from their meters.
* `twin.py:54-56` treats a missing row as zero load; a connection without any row
  gets one, but a hole in a row that exists is left as it is. Without any row the balance raises, while
  `coverage_fraction` provides for the case.
* `thermal.py:114` tiles the temperatures by rows, and interpolation leaves
  out the end of the last hour, so each tile moves the hours of the day.
* an MQTT message that meets a database error is lost.

### Fairness

* `association`: every session goes on with a statement that can run, and commits
  or rolls back (weak fairness of `Progress`); the database wakes a statement that
  waits for a lock again and again (strong fairness of `Flush`), and breaks a
  cycle of waits. No fairness for starting a transaction. The
  caller is a script whose `with Session()` always ends the session.
* `ingestion`: weak fairness of the services' own steps (`Serve`), of `Connect`
  (`loop_forever` reconnects) and of `OnConnect`. The bound on troubles says that the
  broker and the database are reachable in the end; nothing is assumed of clients.
* `frontend`: weak fairness of `Answered`: every request of the dashboard is
  answered or fails. Browser and server see to that with timeouts.

## 4. Proofs

All for every value of the constants that their assumptions allow. The bounds (`MaxRows`,
`MaxNodes`, `Horizon`, ...) are constants of the theorems too, any natural number.

**`Association_proofs`**: `TypeCorrect`, `OneCurrentAlways`, `NoGapAlways`,
`HistoryPreserved`, from `Invariance` of `IInv`. That one current row is
committed is not inductive: a commit publishes what a session wrote, so `IInv`
says that rows are written by one session at a time (`RowLocksExclusive`), that
a session's view (`VisibleUnique`) and any two sessions' writes
(`UncommittedUnique`) have one current row, that a queued `UPDATE` names a row that
was current or is closed by now (`QueuedUpdate`), that writes only close
committed rows (`WritesCloseOnly`), and that a session that closed a row
either still has its `INSERT` to send or has its replacement among its writes
(`WritesLeaveCurrent`, `WritesLeaveNoGap`). Assumes `AssocAssumption`: `None` and `Open` are no
rows and no times.
`LogImplemented` is the refinement of `AssociationLog`. The mapping reads the history of a
connection off its committed rows in the order of their ids (`LogOf`; the place of a row is the
number of ids up to it). That a commit appends needs `InsertedLast`: a new row has a higher id than
every committed row of its connection, although the id was drawn before the commit and a
rival may have drawn and committed others since; the exception is a session whose `INSERT` is
about to be refused. That the open row is the newest follows from `NoGapInHistory`.

**`OperatorTheorems`** holds the lemmas the others share. Induction over the
natural numbers and over finite sets is proved as it is needed, by the least
counterexample: the set of the numbers at which a claim fails has a least element
(`IntervalFinite` and the theorems of the library on finite sets). On it rest the
unfolding of recursive functions, the sums over finite sets (`SumAdd`, `SumOfParts`,
`SumDropZeros`, `SumOfNaturals`, ...), the same for sums of fractions, and what
binning, segments and levels do: every tick is in one bin (`BinsAddUp`), segments part
the window (`SegmentLevels`), clipping never raises a level (`ClippedFromAbove`) and
leaves half of them alone (`HalfUnclipped`).

**`NetworkHierarchy_proofs`**, from `TreeInv`: parents are
older and one level up (`LevelsOrdered`), for any injective order of levels. `SubtreesAlwaysNest`: as an
induction on rounds, m is in round k of the query below n exactly if k
steps of `Upward` lead from m to n, and a round is never reached twice since each lowers
the level by one. `AggregateAlwaysAdditive`: the subtrees of two children are
disjoint, so a sum over the union is the sum of their sums.
`QueuesAlwaysReach`: what hangs from a transformer beneath n is what the joins find.
Assumes that `Conn` is finite. All three carry over to `ReportSpec` by `ReportsOnlyRead`. `UnmovedAlwaysReportedOnce` and `RepeatsAlwaysBounded`, from
`ReportInv`, whose idea is `Expected(c)`: the entries c has, the one being made and
the one to come if nobody moves it again. A correction raises it by one at
most, every other step keeps it.

**`StaticExport_proofs`**. `FiguresAlwaysTraceable`, `TreeAlwaysRooted` and
`OneScenarioAlways`, from `GenInv`: what a transaction holds is determined by its
phase and stands on what it sees (`Progress`), nobody holds what is committed or held
by another (`Untaken`), and a committed record stands on a committed feeder
(`RecordsOnFeeders`). `ExportAlwaysComplete`, `ExportDiesAtTransformer` and
`OnlyOneEverExported`, from `ExpInv`: what is finished is on disk (`Exported`, `Exporting`), and
stays, as two scenarios listed never share a substation, which is `OneScenarioAlways`: files
bear the name of the substation, so otherwise one would overwrite the other. For the same reason
the substation of every other listed scenario is among those still to be
written until the export dies there: its nodes come off the list with an estimate
only, which they have in their own scenario alone.

**`Ingestion_proofs`**: `TypesAlways`, `AcknowledgedAlwaysStored` and
`RowAlwaysPerSending`, from `IngestInv`. Neither promise is inductive: that 201
means stored rests on the stage the answer was given from and that `committed`
is never left (`AnsweredFromCommitted`, `CommittedStored`), and rows are counted
together with the messages that may still become one (`Counted`: rows and messages
waiting are no more than committed postings and publications). The lemmas say
how many messages of a reading a sequence has after `Append` and `Tail`.
`LedgerAlwaysKept` is the refinement of `SensorLedger`: posting and publishing send,
a commit and a handled message store, an answer acknowledges, and all else (failures, lost
links, crashes) leaves the ledger alone. That a row is stored only for a sending
that has none is `RowPerSending` of the state after the step.

**`Energy_proofs`**, of the meter: `EnergyConserved` and `BoundAlwaysHolds`, from
`MeterInv`: energy is conserved, and twice what credits and record differ by is at
most `Rounding`: `WorstSnap` twice for a purchase rounded to a note, a cent for
one rounded to a cent, which is off by half of it at most (`CentsCloseToSize`). `MeterAssumption`
names the error of a note, and sells nothing below a cent.
`FeedsReconstructionAlways`, the composition implements `SegmentReconstruction`: a
`Buy` is a `Vend`, all else of the meter a stutter, as events of intervals to come
are zero and none changes once the reconstruction has run (`MeteredInv`).
`ErrorAlwaysBounded`, from `ErrorInv`: the record is the sum of the events
(`RecordSums`), and the estimate is made of the events as they are now
(`EstimateFollows`), so its total is at most the record, and the record is
the credits up to rounding. Assumes positive weights (`PriorAssumption`).
Of the feeder: `LabelsAlwaysTrue`, from `FeederInv`, which adds that no
connection has two labels: the targets of a kind are those no kind has used, so
an earlier label is about columns no later kind rewrites. `EnergyAlwaysAccountedOnce`,
from `Balanced`: what the balances taken have accounted for and what the records
still lead to in those to come is the credit of all connections, up to that of the moved ones.
`ResidualAlwaysTracks`, from `Undisturbed`: without corrections an
answer was computed from the rows the records give now; then the losses are compared, which
grow with each load. `Connection` and `Transformer` are finite, estimates natural numbers.

**`Analytics_proofs`**: one invariant per computation, kept by its own steps and
out of reach of the others.

* `NeverShownHotter`, from `ThermalInv`: rise, peak and ageing of the higher loading are
  no lower. The step needs that one turn of the lag, a rounded division, is monotone in what went before.
* `NothingEverFromTheFuture`, from `ForecastInv`: the answer is the split of
  enough usable rows. Assumes at least two rows to score on (`MinHeldOut`; 10 in the code): with
  none, the calibration would be empty.
* `HoursAlwaysAsPublished` and `MidnightAlwaysConfined`, from `ScheduleInv`: a group has been off
  for whole weeks of its published hours and the hours of the current week
  passed. Two windows of a group never take the same hour of the mask (`BlocksApart`),
  so a week has as many hours off as the windows are long. Assumes that the number of groups divides 24.
* `CommonReductionNeverListed`, from `QueueInv`: the listed were found
  anomalous with the features they have; with a common reduction the votes for an anomaly
  are at most the 6000 for a genuine one. `Observable` is any set of
  features of the right type.
* `BoundIsHard`, `EnergyAlwaysKept` and `HalfAlwaysKept`, from `EstimateInv`: the levels are the
  clipped ones of the purchases there are, for either middle.

* `FewestAlwaysSwitchedOff`, from `ShedInv`: the answer is one the solver may give to
  the requirement, within its relative gap of 1e-4. Every group sheds 44 hours a week, for any
  number of groups (`SameHours`), so answers differ in cost by their sizes, the stressed
  among them and their loads, and `CheapIsSmall`: one transformer more (`OneTooMany`), or as many and
  one more stressed (`OneStressedTooMany`), costs more than the gap lets through. There is no
  hypothesis on constants: `HoursOutweighLoads` is part of the property and about the loads
  at hand, since the code bounds none: the hours of one
  transformer outweigh the loads and the stress of all with the gap, and the stress of one half
  the loads. Two transformers over four weeks (the defaults of `ScenarioConfig`) are in it up to
  397 kW each, the three of the demo over eight weeks up to 262 kW; the catalogue's largest
  transformer has 200 kVA. `analytics` has states on both sides.

**`Frontend_proofs`**: `SelectionAlwaysSettled`, `ExplorerAlwaysSettles`,
`BreadcrumbAlwaysPath`, `ModalAlwaysSettles`. None is inductive: three of them are about
moments when nothing is in flight, so their invariants say which request in flight will
still put right what is shown. That is the leading one: it is of the last choice, and the
handlers of all other requests have come further, or as far and are answered before, so none paints
over it (`LoadLeads`, `SeriesLeads`, `NetworkLeads` on the dashboard, `Leading` in the
explorer). The modal is for the patient user, who has one request at most in flight
(`OneAsked`), by which the modal is of the connection opened last (`ModalOwns`). The breadcrumb
is a way down from the root (`IsWay`), and there is one to each node: the
depth counts the steps. `TreeAssumption`, any tree: every node has a depth.

Only model-checked is liveness under fairness (`TransactionsEnd`, `SubscribedAgain`,
`InboxDrains`, `LoadingEnds`), for which the prover has no rules. Every invariant and action
property of a passing run is stated by a theorem.

## 5. Not modelled

* **The power flow**: OpenDSS is an external numerical solver; `EnergyBalance` keeps of it that
  losses add up over service drops and grow with each load.
* **The temperature record and the formulas of IEC 60076-7**: inputs and monotone tables of `ThermalAgeing`.
* **Series of balances**: `EnergyBalance` is one interval; a series is those, joined on the instants
  that all three sides have.
* **Topology, archetypes, load shapes**: random draws and
  formulas without state. What they produce is free in the models.
* **Validation and evaluation reports**: statistics over floating-point series.
* **Rendering, wording, map projection** in the frontend: no state.
* **Migrations**: the constraints they create are modelled where they act.
* **The isolation forest, the regressors and the MILP solver** are libraries: any
  output their contracts allow.

## 6. Plan

Done: the association history with its refinement and proofs; hierarchy and reports; meter and
reconstruction composed; ingestion as a refinement of its ledger; generation and export; the feeder's truth and its
balances; the schedule, and the analyses; the frontend; proofs of their safety properties.

Next:

1. A series of balances: one interval after another, joined on the instants all three sides have.
2. The settling of the frontend for an impatient user, as far as the code provides for it.
3. Corrections of associations during a static export, which the energy balance meets.
