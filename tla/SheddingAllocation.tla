-------------------------- MODULE SheddingAllocation --------------------------
(***************************************************************************)
(* module_e and the shedding view: which transformers to switch off so     *)
(* that the load shed meets the shortfall of generation, at the least      *)
(* policy cost.  Money-like quantities are in fiftieths of a cost unit,    *)
(* shares in percent, loads in kW.                                         *)
(***************************************************************************)
EXTENDS SheddingSchedule

CONSTANTS Transformer,
          Group,       \* shedding group of a transformer
          Peaks,       \* bound: peak loads considered
          Shares       \* bound: available_generation_fraction considered

ASSUME AllocationAssumption ==
  /\ IsFiniteSet(Transformer) /\ Group \in [Transformer -> GroupId]
  /\ Peaks \subseteq Nat /\ Shares \subseteq Int

VARIABLES loading,   \* peak kW of every transformer that could be assessed
          stressed,  \* those in risk band high or critical
          required,  \* requirement_kw in hundredths
          answer     \* AllocationResult

shedVars == <<loading, stressed, required, answer>>

None == [feasible |-> FALSE, shed |-> {}]

Assessed == DOMAIN loading

\* hours_shed_recently.
HoursShed(u) == Weeks * HoursPerWeek(Group[u])

\* The generator has no critical customers: the view passes False throughout.
Critical == {}

Policy == [revenue |-> 1, equity |-> 50, thermal |-> 400, critical |-> 5000]

\* Mutant, and what the view's note on equity takes the objective for: load and
\* stress only.
UnitCostNoEquity(u) == Policy.revenue * loading[u] + (IF u \in stressed THEN Policy.thermal ELSE 0)

UnitCost(u) ==
  Policy.revenue * loading[u] + Policy.equity * HoursShed(u)
    + (IF u \in Critical THEN Policy.critical ELSE 0)
    + (IF u \in stressed THEN Policy.thermal ELSE 0)

Cost(S) == SumFunctionOnSet([u \in Assessed |-> UnitCost(u)], S)
Load(S) == SumFunctionOnSet(loading, S)

Meets(S, kw) == 100 * Load(S) >= kw

\* scipy.optimize.milp: some set that meets the requirement, within the
\* solver's default relative gap of 1e-4 of the cheapest.
Milp(kw) ==
  LET candidates == {S \in SUBSET Assessed : Meets(S, kw)}
      least == Min({Cost(S) : S \in candidates})
  IN  {S \in candidates : 9999 * Cost(S) <= 10000 * least}

\* allocate_shedding, its early returns first.
Allocations(kw) ==
  IF Assessed = {} THEN {None}
  ELSE IF kw <= 0 THEN {[feasible |-> TRUE, shed |-> {}]}
  ELSE IF kw > 100 * Load(Assessed) THEN {None}
  ELSE {[feasible |-> TRUE, shed |-> S] : S \in Milp(kw)}

ShedInit ==
  /\ loading = <<>> /\ stressed = {}
  /\ required = 0 /\ answer = None

\* rank_transformers: a transformer without two points of load is left out.
Assess ==
  /\ \E T \in SUBSET Transformer : loading' \in [T -> Peaks]
  /\ stressed' \in SUBSET DOMAIN loading'
  /\ UNCHANGED <<required, answer>>

\* view_shedding for one share of generation available.
Shedding(share) ==
  /\ required' = Max({Load(Assessed) * (100 - share), 0})
  /\ answer' \in Allocations(required')
  /\ UNCHANGED <<loading, stressed>>

(***************************************************************************)
(* Properties.                                                             *)
(***************************************************************************)

\* The hours of the schedule outweigh the loads at hand.  They are the same for
\* all, so with one transformer less in the answer they stand against all its
\* loads and stress and the gap the solver may leave; and the stress of one
\* against the load of half of the transformers.
HoursOutweighLoads ==
  LET n == Cardinality(Assessed) IN
  \A u \in Assessed :
    LET hours == Policy.equity * HoursShed(u)
        load  == Policy.revenue * loading[u]
    IN /\ 10000 * n * (load + Policy.thermal) < (9999 - n) * hours
       /\ 9999 * n * load + 2 * n * (load + hours + Policy.thermal) < 2 * 9999 * Policy.thermal

\* What the equity term does although no group is behind any other: while the
\* hours outweigh the loads, nobody is switched off who could be spared.  An
\* answer meets the requirement with as few transformers as can meet it and,
\* among those, as few stressed ones, even if the solver stops short of the
\* cheapest.  A requirement is refused exactly when all of them together fall
\* short of it, whatever the loads.
FewestSwitchedOff ==
  /\ answer.feasible /\ required > 0 =>
       /\ Meets(answer.shed, required)
       /\ HoursOutweighLoads =>
            \A S \in SUBSET Assessed :
              Meets(S, required) =>
                \/ Cardinality(S) > Cardinality(answer.shed)
                \/ /\ Cardinality(S) = Cardinality(answer.shed)
                   /\ Cardinality(S \cap stressed) >= Cardinality(answer.shed \cap stressed)
  /\ required > 100 * Load(Assessed) => ~answer.feasible
  /\ required > 0 /\ ~answer.feasible => required > 100 * Load(Assessed)

\* "The equity term is also inert here": the answer is one that load size and
\* thermal stress alone lead to, within the solver's gap.
EquityTermInert ==
  LET LoadAndStress(S) == SumFunctionOnSet([u \in Assessed |-> UnitCostNoEquity(u)], S)
  IN  answer.feasible /\ required > 0 =>
        \A S \in SUBSET Assessed :
          Meets(S, required) => 9999 * LoadAndStress(answer.shed) <= 10000 * LoadAndStress(S)
=============================================================================
