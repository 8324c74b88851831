---------------------------- MODULE OperatorTheorems ----------------------------
(***************************************************************************)
(* What the proofs need of the operators the models are built from:        *)
(* recursive functions, sums over finite sets (SumFunctionOnSet of the     *)
(* community modules), sums of rationals and the segments of module A.     *)
(* Induction is by a least counterexample: a set of naturals that is not   *)
(* empty has a least member, a set of finite sets a minimal one.           *)
(***************************************************************************)
EXTENDS Segments, FiniteSetTheorems, TLAPS

(***************************************************************************)
(* Finite sets.                                                            *)
(***************************************************************************)
LEMMA IntervalFinite ==
  ASSUME NEW m \in Int, NEW n \in Int
  PROVE  IsFiniteSet(m..n)
BY FS_Interval

LEMMA PairFinite == \A x, y : IsFiniteSet({x, y})
<1> TAKE x, y
<1>1. IsFiniteSet({x} \cup {y})
  BY FS_Singleton, FS_Union
<1>2. {x} \cup {y} = {x, y}
  OBVIOUS
<1> QED BY <1>1, <1>2

(***************************************************************************)
(* Induction.                                                              *)
(***************************************************************************)

\* The least member of a set of naturals.
LEMMA LeastNatural ==
  ASSUME NEW T \in SUBSET Nat, T # {}
  PROVE  \E x \in T : \A y \in T : x <= y
<1> DEFINE R == {ss \in Nat \X Nat : ss[1] < ss[2]}
<1>1. IsWellFoundedOn(R, Nat)
  BY NatLessThanWellFounded DEF OpToRel
<1>2. \E x \in T : \A y \in T : ~ (<<y, x>> \in R)
  <2> HIDE DEF R
  <2> QED BY <1>1, WFMin
<1>3. PICK x \in T : \A y \in T : ~ (<<y, x>> \in R)
  BY <1>2
<1>4. \A y \in T : ~ (y < x)
  <2> TAKE y \in T
  <2>1. <<y, x>> \in Nat \X Nat
    OBVIOUS
  <2> QED BY <1>3, <2>1
<1>5. \A y \in T : x <= y
  BY <1>4
<1> QED BY <1>5

\* A set of naturals with 0 in it and, with every member, the next.
LEMMA InductiveSet ==
  ASSUME NEW T \in SUBSET Nat, 0 \in T, \A k \in T : k + 1 \in T
  PROVE  T = Nat
<1> DEFINE F == Nat \ T
<1> SUFFICES ASSUME F # {} PROVE FALSE
  OBVIOUS
<1>1. PICK x \in F : \A y \in F : x <= y
  <2> HIDE DEF F
  <2>1. F \in SUBSET Nat
    BY DEF F
  <2> QED BY <2>1, LeastNatural
<1>2. x - 1 \in Nat /\ x - 1 \notin F /\ (x - 1) + 1 = x
  BY <1>1
<1> QED BY <1>2

\* A minimal member of a set of subsets of a finite set.
LEMMA LeastSubset ==
  ASSUME NEW S, IsFiniteSet(S), NEW F \in SUBSET SUBSET S, F # {}
  PROVE  \E X \in F : \A Y \in F : Y \subseteq X => Y = X
<1>1. IsWellFoundedOn(StrictSubsetOrdering(S), SUBSET S)
  BY FS_StrictSubsetOrderingWellFounded, FS_FiniteSubsetsOfFinite
<1>2. \E X \in F : \A Y \in F : ~ (<<Y, X>> \in StrictSubsetOrdering(S))
  BY <1>1, WFMin
<1> QED BY <1>2 DEF StrictSubsetOrdering

(***************************************************************************)
(* Iteration of a function.                                                *)
(***************************************************************************)

\* f runs through b, G[b], G[G[b]] and so on, n times.
Runs(f, G, b, n) == f[0] = b /\ \A k \in 0..(n - 1) : f[k + 1] = G[f[k]]

LEMMA RunsOfEveryLength ==
  ASSUME NEW D, NEW G \in [D -> D], NEW b \in D, NEW n \in Nat
  PROVE  \E f \in [Nat -> D] : Runs(f, G, b, n)
<1> DEFINE F == {i \in Nat : ~ \E f \in [Nat -> D] : Runs(f, G, b, i)}
<1> SUFFICES ASSUME F # {} PROVE FALSE
  OBVIOUS
<1>1. PICK x \in F : \A y \in F : x <= y
  <2> HIDE DEF F
  <2>1. F \in SUBSET Nat
    BY DEF F
  <2> QED BY <2>1, LeastNatural
<1>2. x # 0
  <2>1. Runs([k \in Nat |-> b], G, b, 0)
    BY DEF Runs
  <2> QED BY <2>1
<1>3. x - 1 \in Nat /\ x \in Nat /\ x - 1 \notin F
  BY <1>1, <1>2
<1>4. PICK f \in [Nat -> D] : Runs(f, G, b, x - 1)
  BY <1>3
<1> DEFINE g == [f EXCEPT ![x] = G[f[x - 1]]]
<1>5. g \in [Nat -> D]
  BY <1>3
<1>6. Runs(g, G, b, x)
  <2>1. g[0] = b
    BY <1>2, <1>3, <1>4 DEF Runs
  <2>2. \A k \in 0..(x - 1) : g[k + 1] = G[g[k]]
    <3> TAKE k \in 0..(x - 1)
    <3>1. k \in Nat /\ k # x /\ k + 1 \in Nat
      BY <1>3
    <3>2. CASE k = x - 1
      BY <3>1, <3>2, <1>3
    <3>3. CASE k # x - 1
      BY <3>1, <3>3, <1>3, <1>4 DEF Runs
    <3> QED BY <3>2, <3>3
  <2> QED BY <2>1, <2>2 DEF Runs
<1> QED BY <1>5, <1>6

\* Two runs agree as far as both go.
LEMMA RunsAgree ==
  ASSUME NEW G, NEW b, NEW n \in Nat, NEW f, NEW g, Runs(f, G, b, n), Runs(g, G, b, n)
  PROVE  \A k \in 0..n : f[k] = g[k]
<1> DEFINE F == {k \in 0..n : f[k] # g[k]}
<1> SUFFICES ASSUME F # {} PROVE FALSE
  OBVIOUS
<1>1. PICK x \in F : \A y \in F : x <= y
  <2> HIDE DEF F
  <2>1. F \in SUBSET Nat
    BY DEF F
  <2> QED BY <2>1, LeastNatural
<1>2. x # 0
  BY DEF Runs
<1>3. x - 1 \in 0..(n - 1) /\ x - 1 \notin F /\ (x - 1) + 1 = x
  BY <1>1, <1>2
<1> QED BY <1>3 DEF Runs

\* There is a run without end.
Iterates(f, G, b) == f[0] = b /\ \A k \in Nat : f[k + 1] = G[f[k]]

LEMMA IterationExists ==
  ASSUME NEW D, NEW G \in [D -> D], NEW b \in D
  PROVE  \E f \in [Nat -> D] : Iterates(f, G, b)
<1> DEFINE run(n) == CHOOSE f \in [Nat -> D] : Runs(f, G, b, n)
           f == [k \in Nat |-> run(k)[k]]
<1>1. \A n \in Nat : run(n) \in [Nat -> D] /\ Runs(run(n), G, b, n)
  BY RunsOfEveryLength
<1> HIDE DEF run
<1>2. f \in [Nat -> D]
  BY <1>1
<1>3. f[0] = b
  BY <1>1 DEF Runs
<1>4. ASSUME NEW k \in Nat PROVE f[k + 1] = G[f[k]]
  <2>1. Runs(run(k), G, b, k) /\ Runs(run(k + 1), G, b, k + 1)
    BY <1>1
  <2>2. Runs(run(k + 1), G, b, k)
    BY <2>1 DEF Runs
  <2>3. run(k + 1)[k] = run(k)[k]
    BY <2>1, <2>2, RunsAgree
  <2>4. run(k + 1)[k + 1] = G[run(k + 1)[k]]
    BY <2>1 DEF Runs
  <2> QED BY <2>3, <2>4
<1> QED BY <1>2, <1>3, <1>4 DEF Iterates

(***************************************************************************)
(* The recursion behind a sum.                                             *)
(***************************************************************************)
Chosen(S) == CHOOSE x \in S : TRUE

\* it is a table of the sums of f over the subsets of S.
SumsTabled(it, f, S) ==
  it = [s \in SUBSET S |-> IF s = {} THEN 0 ELSE f[Chosen(s)] + it[s \ {Chosen(s)}]]

Table(f, S) == CHOOSE it : SumsTabled(it, f, S)

LEMMA SumIsTabled ==
  ASSUME NEW f, NEW S
  PROVE  SumFunctionOnSet(f, S) = Table(f, S)[S]
BY DEF SumFunctionOnSet, FoldFunctionOnSet, MapThenFoldSet, Table, SumsTabled, Chosen

\* The rows of a table that belong to a subset are a table of it.
LEMMA TablesAgree ==
  ASSUME NEW f, NEW S, IsFiniteSet(S), NEW T \in SUBSET S, NEW it, NEW other,
         SumsTabled(it, f, S), SumsTabled(other, f, T)
  PROVE  \A U \in SUBSET T : it[U] = other[U]
<1> DEFINE F == {U \in SUBSET T : it[U] # other[U]}
<1> SUFFICES ASSUME F # {} PROVE FALSE
  OBVIOUS
<1>1. PICK X \in F : \A Y \in F : Y \subseteq X => Y = X
  <2>1. IsFiniteSet(T)
    BY FS_Subset
  <2> HIDE DEF F
  <2>2. F \in SUBSET SUBSET T
    BY DEF F
  <2> QED BY <2>1, <2>2, LeastSubset
<1>2. X # {}
  BY DEF SumsTabled
<1>3. Chosen(X) \in X
  BY <1>2 DEF Chosen
<1>4. it[X \ {Chosen(X)}] = other[X \ {Chosen(X)}]
  BY <1>1, <1>3
<1> QED BY <1>1, <1>2, <1>4 DEF SumsTabled

\* Every finite set has a table.
LEMMA TableExists ==
  ASSUME NEW f, NEW S, IsFiniteSet(S)
  PROVE  \A T \in SUBSET S : SumsTabled(Table(f, T), f, T)
<1> DEFINE F == {T \in SUBSET S : ~SumsTabled(Table(f, T), f, T)}
<1> SUFFICES ASSUME F # {} PROVE FALSE
  OBVIOUS
<1>1. PICK X \in F : \A Y \in F : Y \subseteq X => Y = X
  <2> HIDE DEF F
  <2>2. F \in SUBSET SUBSET S
    BY DEF F
  <2> QED BY <2>2, LeastSubset
<1>2. IsFiniteSet(X)
  BY FS_Subset
<1>3. \A Y \in SUBSET X : Y # X => SumsTabled(Table(f, Y), f, Y)
  BY <1>1
<1> DEFINE val(s) == Table(f, s)[s]
           it == [s \in SUBSET X |-> IF s = {} THEN 0
                                     ELSE f[Chosen(s)] + val(s \ {Chosen(s)})]
<1>4. \A s \in SUBSET X : s # {} => s \ {Chosen(s)} \in SUBSET X /\ s \ {Chosen(s)} # X /\ s \ {Chosen(s)} # s /\ Chosen(s) \in s
  BY DEF Chosen
<1>5. \A s \in SUBSET X : s # X => it[s] = val(s)
  <2> TAKE s \in SUBSET X
  <2> HAVE s # X
  <2>1. SumsTabled(Table(f, s), f, s)
    BY <1>3
  <2>2. CASE s = {}
    BY <2>1, <2>2 DEF SumsTabled
  <2>3. CASE s # {}
    <3> DEFINE r == s \ {Chosen(s)}
    <3>1. r \in SUBSET s /\ r \in SUBSET X /\ r # X
      BY <1>4, <2>3
    <3>2. IsFiniteSet(s)
      BY <1>2, FS_Subset
    <3>3. SumsTabled(Table(f, r), f, r)
      BY <3>1, <1>3
    <3>4. Table(f, s)[r] = Table(f, r)[r]
      BY <3>1, <3>2, <3>3, <2>1, TablesAgree
    <3>5. val(s) = f[Chosen(s)] + Table(f, s)[r]
      BY <2>1, <2>3 DEF SumsTabled
    <3> QED BY <3>4, <3>5, <2>3
  <2> QED BY <2>2, <2>3
<1>6. SumsTabled(it, f, X)
  <2>1. \A s \in SUBSET X : s # {} => it[s \ {Chosen(s)}] = val(s \ {Chosen(s)})
    BY <1>4, <1>5
  <2> HIDE DEF val
  <2> QED BY <2>1 DEF SumsTabled
<1>7. SumsTabled(Table(f, X), f, X)
  <2> HIDE DEF it
  <2> QED BY <1>6 DEF Table
<1> QED BY <1>7

(***************************************************************************)
(* Sums.                                                                   *)
(***************************************************************************)
LEMMA SumEmpty ==
  ASSUME NEW f
  PROVE  SumFunctionOnSet(f, {}) = 0
<1>1. SumsTabled(Table(f, {}), f, {})
  BY TableExists, FS_EmptySet
<1> QED BY <1>1, SumIsTabled DEF SumsTabled

LEMMA SumAny ==
  ASSUME NEW f, NEW S, IsFiniteSet(S), S # {}
  PROVE  /\ Chosen(S) \in S
         /\ SumFunctionOnSet(f, S) = f[Chosen(S)] + SumFunctionOnSet(f, S \ {Chosen(S)})
<1> DEFINE r == S \ {Chosen(S)}
<1>1. Chosen(S) \in S
  BY DEF Chosen
<1>2. SumsTabled(Table(f, S), f, S) /\ SumsTabled(Table(f, r), f, r)
  BY TableExists
<1>3. Table(f, S)[r] = Table(f, r)[r]
  <2>1. r \in SUBSET S /\ r \in SUBSET r
    OBVIOUS
  <2> HIDE DEF r
  <2> QED BY <1>2, <2>1, TablesAgree
<1>4. Table(f, S)[S] = f[Chosen(S)] + Table(f, S)[r]
  BY <1>2 DEF SumsTabled
<1> QED BY <1>1, <1>3, <1>4, SumIsTabled

\* Of integers the sum is an integer, and any member can be taken out of it.
LEMMA SumRemove ==
  ASSUME NEW S, IsFiniteSet(S), NEW f, \A x \in S : f[x] \in Int
  PROVE  \A T \in SUBSET S :
           /\ SumFunctionOnSet(f, T) \in Int
           /\ \A x \in T : SumFunctionOnSet(f, T) = f[x] + SumFunctionOnSet(f, T \ {x})
<1> DEFINE Sum(T) == SumFunctionOnSet(f, T)
           P(T) == Sum(T) \in Int /\ \A x \in T : Sum(T) = f[x] + Sum(T \ {x})
           F == {T \in SUBSET S : ~P(T)}
<1> SUFFICES ASSUME F # {} PROVE FALSE
  OBVIOUS
<1>1. PICK X \in F : \A Y \in F : Y \subseteq X => Y = X
  <2> HIDE DEF F
  <2>1. F \in SUBSET SUBSET S
    BY DEF F
  <2> QED BY <2>1, LeastSubset
<1>2. \A Y \in SUBSET X : Y # X => P(Y)
  BY <1>1
<1>3. X # {}
  BY SumEmpty
<1>4. IsFiniteSet(X)
  BY FS_Subset
<1> DEFINE a == Chosen(X)
<1>5. a \in X /\ Sum(X) = f[a] + Sum(X \ {a})
  BY <1>3, <1>4, SumAny
<1> HIDE DEF a, P, Sum
<1>6. P(X \ {a})
  BY <1>2, <1>5
<1>7. Sum(X \ {a}) \in Int /\ f[a] \in Int
  BY <1>5, <1>6 DEF P
<1>8. ASSUME NEW x \in X, x # a
      PROVE  Sum(X) = f[x] + Sum(X \ {x})
  <2> DEFINE r == Sum((X \ {a}) \ {x})
  <2>1. Sum(X \ {a}) = f[x] + r
    BY <1>6, <1>8 DEF P
  <2>2. P(X \ {x})
    BY <1>2
  <2>3. (X \ {x}) \ {a} = (X \ {a}) \ {x}
    OBVIOUS
  <2>4. Sum(X \ {x}) = f[a] + r
    BY <1>5, <1>8, <2>2, <2>3 DEF P
  <2>5. f[x] \in Int /\ r \in Int
    <3>1. P((X \ {a}) \ {x})
      BY <1>2, <1>5
    <3> QED BY <3>1 DEF P
  <2> HIDE DEF r
  <2> QED BY <1>5, <1>7, <2>1, <2>4, <2>5
<1>9. Sum(X) \in Int
  BY <1>5, <1>7
<1>10. \A x \in X : Sum(X) = f[x] + Sum(X \ {x})
  BY <1>5, <1>8
<1>11. P(X)
  BY <1>9, <1>10 DEF P
<1> QED BY <1>11 DEF P

LEMMA SumIsInt ==
  ASSUME NEW S, IsFiniteSet(S), NEW f, \A x \in S : f[x] \in Int
  PROVE  SumFunctionOnSet(f, S) \in Int
BY SumRemove

LEMMA SumTakeOut ==
  ASSUME NEW S, IsFiniteSet(S), NEW f, \A x \in S : f[x] \in Int, NEW x \in S
  PROVE  SumFunctionOnSet(f, S) = f[x] + SumFunctionOnSet(f, S \ {x})
BY SumRemove

LEMMA SumPutIn ==
  ASSUME NEW S, IsFiniteSet(S), NEW f, NEW x, x \notin S, \A y \in S \cup {x} : f[y] \in Int
  PROVE  SumFunctionOnSet(f, S \cup {x}) = f[x] + SumFunctionOnSet(f, S)
<1>1. IsFiniteSet(S \cup {x}) /\ (S \cup {x}) \ {x} = S
  BY FS_AddElement
<1> QED BY <1>1, SumTakeOut

\* A sum of one term, and of two.
LEMMA SumOfOne ==
  ASSUME NEW f, NEW x, f[x] \in Int
  PROVE  SumFunctionOnSet(f, {x}) = f[x]
<1>1. IsFiniteSet({}) /\ x \notin {} /\ \A z \in {} \cup {x} : f[z] \in Int
  BY FS_EmptySet
<1>2. SumFunctionOnSet(f, {} \cup {x}) = f[x] + SumFunctionOnSet(f, {})
  BY <1>1, SumPutIn
<1>3. {} \cup {x} = {x} /\ SumFunctionOnSet(f, {}) = 0
  BY SumEmpty
<1> QED BY <1>2, <1>3

LEMMA SumOfPair ==
  ASSUME NEW f, NEW x, NEW y, x # y, f[x] \in Int, f[y] \in Int
  PROVE  SumFunctionOnSet(f, {x, y}) = f[x] + f[y]
<1>1. IsFiniteSet({y}) /\ x \notin {y} /\ \A z \in {y} \cup {x} : f[z] \in Int
  BY FS_Singleton
<1>2. SumFunctionOnSet(f, {y} \cup {x}) = f[x] + SumFunctionOnSet(f, {y})
  BY <1>1, SumPutIn
<1>3. {y} \cup {x} = {x, y} /\ SumFunctionOnSet(f, {y}) = f[y]
  BY SumOfOne
<1> QED BY <1>2, <1>3

\* Larger terms make no smaller a sum.
LEMMA SumMonotone ==
  ASSUME NEW S, IsFiniteSet(S), NEW f, NEW g,
         \A x \in S : f[x] \in Int /\ g[x] \in Int /\ f[x] <= g[x]
  PROVE  SumFunctionOnSet(f, S) <= SumFunctionOnSet(g, S)
<1> DEFINE F == {T \in SUBSET S : ~(SumFunctionOnSet(f, T) <= SumFunctionOnSet(g, T))}
<1> SUFFICES ASSUME F # {} PROVE FALSE
  OBVIOUS
<1>1. PICK X \in F : \A Y \in F : Y \subseteq X => Y = X
  <2> HIDE DEF F
  <2>1. F \in SUBSET SUBSET S
    BY DEF F
  <2> QED BY <2>1, LeastSubset
<1>2. X # {}
  BY SumEmpty
<1>3. PICK x \in X : TRUE
  BY <1>2
<1>4. SumFunctionOnSet(f, X \ {x}) <= SumFunctionOnSet(g, X \ {x})
  BY <1>1, <1>3
<1>5. IsFiniteSet(X) /\ IsFiniteSet(X \ {x})
  BY FS_Subset
<1>6. /\ SumFunctionOnSet(f, X) = f[x] + SumFunctionOnSet(f, X \ {x})
      /\ SumFunctionOnSet(g, X) = g[x] + SumFunctionOnSet(g, X \ {x})
  BY <1>5, SumTakeOut
<1>7. SumFunctionOnSet(f, X \ {x}) \in Int /\ SumFunctionOnSet(g, X \ {x}) \in Int
  BY <1>5, SumIsInt
<1>8. SumFunctionOnSet(f, X) <= SumFunctionOnSet(g, X)
  BY <1>4, <1>6, <1>7
<1> QED BY <1>1, <1>8

\* Only the terms matter, not the function they come from.
LEMMA SumSameTerms ==
  ASSUME NEW S, IsFiniteSet(S), NEW f, NEW g, \A x \in S : f[x] \in Int /\ f[x] = g[x]
  PROVE  SumFunctionOnSet(f, S) = SumFunctionOnSet(g, S)
<1>1. SumFunctionOnSet(f, S) <= SumFunctionOnSet(g, S) /\ SumFunctionOnSet(g, S) <= SumFunctionOnSet(f, S)
  BY SumMonotone
<1>2. SumFunctionOnSet(f, S) \in Int /\ SumFunctionOnSet(g, S) \in Int
  BY SumIsInt
<1> QED BY <1>1, <1>2

\* The sum of sums of two functions.
LEMMA SumOfPlus ==
  ASSUME NEW S, IsFiniteSet(S), NEW f, NEW g, NEW h,
         \A x \in S : f[x] \in Int /\ g[x] \in Int /\ h[x] = f[x] + g[x]
  PROVE  SumFunctionOnSet(h, S) = SumFunctionOnSet(f, S) + SumFunctionOnSet(g, S)
<1> DEFINE Adds(T) == SumFunctionOnSet(h, T) = SumFunctionOnSet(f, T) + SumFunctionOnSet(g, T)
           F == {T \in SUBSET S : ~Adds(T)}
<1> SUFFICES ASSUME F # {} PROVE FALSE
  OBVIOUS
<1>1. PICK X \in F : \A Y \in F : Y \subseteq X => Y = X
  <2> HIDE DEF F
  <2>1. F \in SUBSET SUBSET S
    BY DEF F
  <2> QED BY <2>1, LeastSubset
<1>2. X # {}
  <2>1. Adds({})
    <3>1. SumFunctionOnSet(f, {}) = 0 /\ SumFunctionOnSet(g, {}) = 0 /\ SumFunctionOnSet(h, {}) = 0
      BY SumEmpty
    <3> QED BY <3>1
  <2> QED BY <2>1
<1>3. PICK x \in X : TRUE
  BY <1>2
<1>4. Adds(X \ {x})
  BY <1>1, <1>3
<1>5. IsFiniteSet(X) /\ IsFiniteSet(X \ {x})
  BY FS_Subset
<1>6. /\ SumFunctionOnSet(f, X) = f[x] + SumFunctionOnSet(f, X \ {x})
      /\ SumFunctionOnSet(g, X) = g[x] + SumFunctionOnSet(g, X \ {x})
      /\ SumFunctionOnSet(h, X) = h[x] + SumFunctionOnSet(h, X \ {x})
  BY <1>5, SumTakeOut
<1>7. SumFunctionOnSet(f, X \ {x}) \in Int /\ SumFunctionOnSet(g, X \ {x}) \in Int
  BY <1>5, SumIsInt
<1>8. Adds(X)
  BY <1>4, <1>6, <1>7
<1> QED BY <1>1, <1>8

\* The sum over two sets with nothing in common.
LEMMA SumOfUnion ==
  ASSUME NEW S, IsFiniteSet(S), NEW T, IsFiniteSet(T), S \cap T = {},
         NEW f, \A x \in S \cup T : f[x] \in Int
  PROVE  SumFunctionOnSet(f, S \cup T) = SumFunctionOnSet(f, S) + SumFunctionOnSet(f, T)
<1> DEFINE Adds(U) == SumFunctionOnSet(f, U \cup T) = SumFunctionOnSet(f, U) + SumFunctionOnSet(f, T)
           F == {U \in SUBSET S : ~Adds(U)}
<1> SUFFICES ASSUME F # {} PROVE FALSE
  OBVIOUS
<1>1. PICK X \in F : \A Y \in F : Y \subseteq X => Y = X
  <2> HIDE DEF F
  <2>1. F \in SUBSET SUBSET S
    BY DEF F
  <2> QED BY <2>1, LeastSubset
<1>2. X # {}
  <2>1. SumFunctionOnSet(f, {} \cup T) = 0 + SumFunctionOnSet(f, T)
    <3>1. {} \cup T = T
      OBVIOUS
    <3> QED BY <3>1, SumIsInt
  <2> QED BY <2>1, SumEmpty
<1>3. PICK x \in X : TRUE
  BY <1>2
<1>4. Adds(X \ {x})
  BY <1>1, <1>3
<1>5. IsFiniteSet(X) /\ IsFiniteSet(X \ {x}) /\ IsFiniteSet(X \cup T)
  BY FS_Subset, FS_Union
<1>6. SumFunctionOnSet(f, X) = f[x] + SumFunctionOnSet(f, X \ {x})
  BY <1>5, SumTakeOut
<1>7. SumFunctionOnSet(f, X \cup T) = f[x] + SumFunctionOnSet(f, (X \ {x}) \cup T)
  <2>1. (X \cup T) \ {x} = (X \ {x}) \cup T
    OBVIOUS
  <2>2. x \in X \cup T /\ \A y \in X \cup T : f[y] \in Int
    OBVIOUS
  <2> QED BY <1>5, <2>1, <2>2, SumTakeOut
<1>8. /\ SumFunctionOnSet(f, X \ {x}) \in Int
      /\ SumFunctionOnSet(f, T) \in Int
  BY <1>5, SumIsInt
<1>9. Adds(X)
  BY <1>4, <1>6, <1>7, <1>8
<1> QED BY <1>1, <1>9

\* Terms of zero add nothing.
LEMMA SumOfZeros ==
  ASSUME NEW S, IsFiniteSet(S), NEW f, \A x \in S : f[x] = 0
  PROVE  SumFunctionOnSet(f, S) = 0
<1> DEFINE s == SumFunctionOnSet(f, S)
<1>1. s = s + s
  BY SumOfPlus
<1>2. s \in Int
  BY SumIsInt
<1> HIDE DEF s
<1>3. s = 0
  BY <1>1, <1>2
<1> QED BY <1>3 DEF s

\* Equal terms add up to so many times one of them.
LEMMA SumOfEqual ==
  ASSUME NEW S, IsFiniteSet(S), NEW f, NEW c \in Nat, \A x \in S : f[x] = c
  PROVE  SumFunctionOnSet(f, S) = c * Cardinality(S)
<1> DEFINE Equal(T) == SumFunctionOnSet(f, T) = c * Cardinality(T)
           F == {T \in SUBSET S : ~Equal(T)}
<1> SUFFICES ASSUME F # {} PROVE FALSE
  OBVIOUS
<1>1. PICK X \in F : \A Y \in F : Y \subseteq X => Y = X
  <2> HIDE DEF F
  <2>1. F \in SUBSET SUBSET S
    BY DEF F
  <2> QED BY <2>1, LeastSubset
<1>2. X # {}
  <2>1. SumFunctionOnSet(f, {}) = 0 /\ Cardinality({}) = 0
    BY SumEmpty, FS_EmptySet
  <2>2. c * 0 = 0
    OBVIOUS
  <2>3. Equal({})
    BY <2>1, <2>2
  <2> QED BY <2>3
<1>3. PICK x \in X : TRUE
  BY <1>2
<1>4. Equal(X \ {x})
  BY <1>1, <1>3
<1>5. IsFiniteSet(X) /\ IsFiniteSet(X \ {x})
  BY FS_Subset
<1>6. SumFunctionOnSet(f, X) = c + SumFunctionOnSet(f, X \ {x})
  BY <1>5, SumTakeOut
<1>7. Cardinality(X) = Cardinality(X \ {x}) + 1 /\ Cardinality(X \ {x}) \in Nat
  BY <1>3, <1>5, FS_RemoveElement, FS_CardinalityType
<1>8. \A m \in Nat : c * (m + 1) = c + c * m
  OBVIOUS
<1>9. Equal(X)
  BY <1>4, <1>6, <1>7, <1>8
<1> QED BY <1>1, <1>9

LEMMA SumDropZeros ==
  ASSUME NEW S, IsFiniteSet(S), NEW T \in SUBSET S, NEW f, \A x \in S : f[x] \in Int,
         \A x \in S \ T : f[x] = 0
  PROVE  SumFunctionOnSet(f, S) = SumFunctionOnSet(f, T)
<1> DEFINE U == S \ T
<1>1. IsFiniteSet(T) /\ IsFiniteSet(U) /\ T \cap U = {} /\ S = T \cup U
  BY FS_Subset
<1>2. SumFunctionOnSet(f, U) = 0
  BY <1>1, SumOfZeros
<1>3. SumFunctionOnSet(f, T \cup U) = SumFunctionOnSet(f, T) + SumFunctionOnSet(f, U)
  <2> HIDE DEF U
  <2> QED BY <1>1, SumOfUnion
<1>4. SumFunctionOnSet(f, T) \in Int
  BY <1>1, SumIsInt
<1> HIDE DEF U
<1> QED BY <1>1, <1>2, <1>3, <1>4

\* A sum over sets with nothing in common is the sum of their sums.
LEMMA SumOfParts ==
  ASSUME NEW M, IsFiniteSet(M), NEW C, IsFiniteSet(C), NEW f, \A x \in C : f[x] \in Int,
         NEW part, \A m \in M : part[m] \in SUBSET C,
         \A m, k \in M : m # k => part[m] \cap part[k] = {},
         NEW sums, \A m \in M : sums[m] = SumFunctionOnSet(f, part[m])
  PROVE  SumFunctionOnSet(sums, M) = SumFunctionOnSet(f, UNION {part[m] : m \in M})
<1> DEFINE whole(L) == UNION {part[m] : m \in L}
           Adds(L) == SumFunctionOnSet(sums, L) = SumFunctionOnSet(f, whole(L))
           F == {L \in SUBSET M : ~Adds(L)}
<1> SUFFICES ASSUME F # {} PROVE FALSE
  OBVIOUS
<1>1. PICK X \in F : \A Y \in F : Y \subseteq X => Y = X
  <2> HIDE DEF F
  <2>1. F \in SUBSET SUBSET M
    BY DEF F
  <2> QED BY <2>1, LeastSubset
<1>2. X # {}
  <2>1. whole({}) = {}
    OBVIOUS
  <2> HIDE DEF whole
  <2>2. Adds({})
    BY <2>1, SumEmpty
  <2> QED BY <2>2
<1>3. PICK x \in X : TRUE
  BY <1>2
<1>4. Adds(X \ {x})
  BY <1>1, <1>3
<1>5. \A m \in M : IsFiniteSet(part[m]) /\ sums[m] \in Int
  <2> TAKE m \in M
  <2>1. IsFiniteSet(part[m])
    BY FS_Subset
  <2> QED BY <2>1, SumIsInt
<1>6. IsFiniteSet(X) /\ IsFiniteSet(X \ {x})
  BY FS_Subset
<1>7. SumFunctionOnSet(sums, X) = sums[x] + SumFunctionOnSet(sums, X \ {x})
  BY <1>5, <1>6, SumTakeOut
<1>8. /\ whole(X) = part[x] \cup whole(X \ {x})
      /\ part[x] \cap whole(X \ {x}) = {}
      /\ whole(X \ {x}) \in SUBSET C
  OBVIOUS
<1> HIDE DEF whole
<1>9. IsFiniteSet(whole(X \ {x}))
  BY <1>8, FS_Subset
<1>10. SumFunctionOnSet(f, whole(X)) = SumFunctionOnSet(f, part[x]) + SumFunctionOnSet(f, whole(X \ {x}))
  <2> DEFINE p == part[x]
             w == whole(X \ {x})
  <2>1. /\ IsFiniteSet(p) /\ IsFiniteSet(w)
        /\ p \cap w = {} /\ whole(X) = p \cup w
        /\ \A y \in p \cup w : f[y] \in Int
    <3>1. x \in M
      OBVIOUS
    <3> QED BY <1>5, <1>8, <1>9, <3>1
  <2> HIDE DEF p, w
  <2>2. SumFunctionOnSet(f, p \cup w) = SumFunctionOnSet(f, p) + SumFunctionOnSet(f, w)
    BY <2>1, SumOfUnion
  <2>3. SumFunctionOnSet(f, whole(X)) = SumFunctionOnSet(f, p) + SumFunctionOnSet(f, w)
    BY <2>1, <2>2
  <2> QED BY <2>3 DEF p, w
<1>11. Adds(X)
  BY <1>4, <1>7, <1>10
<1> QED BY <1>1, <1>11

\* Of naturals the sum is a natural, over fewer of them no larger.
LEMMA SumOfNaturals ==
  ASSUME NEW S, IsFiniteSet(S), NEW f, \A x \in S : f[x] \in Nat
  PROVE  /\ SumFunctionOnSet(f, S) \in Nat
         /\ \A T \in SUBSET S : SumFunctionOnSet(f, T) <= SumFunctionOnSet(f, S)
<1> DEFINE zeros == [x \in S |-> 0]
<1>1. ASSUME NEW T \in SUBSET S
      PROVE  SumFunctionOnSet(f, T) \in Nat
  <2>1. IsFiniteSet(T) /\ \A x \in T : f[x] \in Int /\ zeros[x] \in Int /\ zeros[x] <= f[x]
    BY FS_Subset
  <2>2. \A x \in T : zeros[x] = 0
    OBVIOUS
  <2> HIDE DEF zeros
  <2>3. SumFunctionOnSet(zeros, T) = 0
    BY <2>1, <2>2, SumOfZeros
  <2>4. SumFunctionOnSet(zeros, T) <= SumFunctionOnSet(f, T)
    BY <2>1, SumMonotone
  <2>5. SumFunctionOnSet(f, T) \in Int
    BY <2>1, SumIsInt
  <2> QED BY <2>3, <2>4, <2>5
<1>2. ASSUME NEW T \in SUBSET S
      PROVE  SumFunctionOnSet(f, T) <= SumFunctionOnSet(f, S)
  <2> DEFINE U == S \ T
  <2>1. IsFiniteSet(T) /\ IsFiniteSet(U) /\ T \cap U = {} /\ S = T \cup U /\ U \in SUBSET S
    BY FS_Subset
  <2>2. SumFunctionOnSet(f, T) \in Nat /\ SumFunctionOnSet(f, U) \in Nat
    BY <1>1, <2>1
  <2>3. \A x \in T \cup U : f[x] \in Int
    OBVIOUS
  <2> HIDE DEF U
  <2>4. SumFunctionOnSet(f, T \cup U) = SumFunctionOnSet(f, T) + SumFunctionOnSet(f, U)
    BY <2>1, <2>3, SumOfUnion
  <2> QED BY <2>1, <2>2, <2>4
<1> QED BY <1>1, <1>2

(***************************************************************************)
(* Sums of rationals (module Segments), by the same recursion.             *)
(***************************************************************************)
RationalsTabled(it, f, S) ==
  it = [s \in SUBSET S |-> IF s = {} THEN Whole(0) ELSE Plus(f[Chosen(s)], it[s \ {Chosen(s)}])]

RationalTable(f, S) == CHOOSE it : RationalsTabled(it, f, S)

LEMMA RationalsAreTabled ==
  ASSUME NEW f, NEW S
  PROVE  SumOfRationals(f, S) = RationalTable(f, S)[S]
BY DEF SumOfRationals, FoldFunctionOnSet, MapThenFoldSet, RationalTable, RationalsTabled, Chosen

LEMMA RationalTablesAgree ==
  ASSUME NEW f, NEW S, IsFiniteSet(S), NEW T \in SUBSET S, NEW it, NEW other,
         RationalsTabled(it, f, S), RationalsTabled(other, f, T)
  PROVE  \A U \in SUBSET T : it[U] = other[U]
<1> DEFINE F == {U \in SUBSET T : it[U] # other[U]}
<1> SUFFICES ASSUME F # {} PROVE FALSE
  OBVIOUS
<1>1. PICK X \in F : \A Y \in F : Y \subseteq X => Y = X
  <2>1. IsFiniteSet(T)
    BY FS_Subset
  <2> HIDE DEF F
  <2>2. F \in SUBSET SUBSET T
    BY DEF F
  <2> QED BY <2>1, <2>2, LeastSubset
<1>2. X # {}
  BY DEF RationalsTabled
<1>3. Chosen(X) \in X
  BY <1>2 DEF Chosen
<1>4. it[X \ {Chosen(X)}] = other[X \ {Chosen(X)}]
  BY <1>1, <1>3
<1> QED BY <1>1, <1>2, <1>4 DEF RationalsTabled

LEMMA RationalTableExists ==
  ASSUME NEW f, NEW S, IsFiniteSet(S)
  PROVE  \A T \in SUBSET S : RationalsTabled(RationalTable(f, T), f, T)
<1> DEFINE F == {T \in SUBSET S : ~RationalsTabled(RationalTable(f, T), f, T)}
<1> SUFFICES ASSUME F # {} PROVE FALSE
  OBVIOUS
<1>1. PICK X \in F : \A Y \in F : Y \subseteq X => Y = X
  <2> HIDE DEF F
  <2>2. F \in SUBSET SUBSET S
    BY DEF F
  <2> QED BY <2>2, LeastSubset
<1>2. IsFiniteSet(X)
  BY FS_Subset
<1>3. \A Y \in SUBSET X : Y # X => RationalsTabled(RationalTable(f, Y), f, Y)
  BY <1>1
<1> DEFINE val(s) == RationalTable(f, s)[s]
           it == [s \in SUBSET X |-> IF s = {} THEN Whole(0)
                                     ELSE Plus(f[Chosen(s)], val(s \ {Chosen(s)}))]
<1>4. \A s \in SUBSET X : s # {} => s \ {Chosen(s)} \in SUBSET X /\ s \ {Chosen(s)} # X /\ s \ {Chosen(s)} # s /\ Chosen(s) \in s
  BY DEF Chosen
<1>5. \A s \in SUBSET X : s # X => it[s] = val(s)
  <2> TAKE s \in SUBSET X
  <2> HAVE s # X
  <2>1. RationalsTabled(RationalTable(f, s), f, s)
    BY <1>3
  <2>2. CASE s = {}
    BY <2>1, <2>2 DEF RationalsTabled
  <2>3. CASE s # {}
    <3> DEFINE r == s \ {Chosen(s)}
    <3>1. r \in SUBSET s /\ r \in SUBSET X /\ r # X
      BY <1>4, <2>3
    <3>2. IsFiniteSet(s)
      BY <1>2, FS_Subset
    <3>3. RationalsTabled(RationalTable(f, r), f, r)
      BY <3>1, <1>3
    <3>4. RationalTable(f, s)[r] = RationalTable(f, r)[r]
      BY <3>1, <3>2, <3>3, <2>1, RationalTablesAgree
    <3>5. val(s) = Plus(f[Chosen(s)], RationalTable(f, s)[r])
      BY <2>1, <2>3 DEF RationalsTabled
    <3> QED BY <3>4, <3>5, <2>3
  <2> QED BY <2>2, <2>3
<1>6. RationalsTabled(it, f, X)
  <2>1. \A s \in SUBSET X : s # {} => it[s \ {Chosen(s)}] = val(s \ {Chosen(s)})
    BY <1>4, <1>5
  <2> HIDE DEF val
  <2> QED BY <2>1 DEF RationalsTabled
<1>7. RationalsTabled(RationalTable(f, X), f, X)
  <2> HIDE DEF it
  <2> QED BY <1>6 DEF RationalTable
<1> QED BY <1>7

LEMMA RationalsEmpty ==
  ASSUME NEW f
  PROVE  SumOfRationals(f, {}) = Whole(0)
<1>1. RationalsTabled(RationalTable(f, {}), f, {})
  BY RationalTableExists, FS_EmptySet
<1> QED BY <1>1, RationalsAreTabled DEF RationalsTabled

LEMMA RationalsAny ==
  ASSUME NEW f, NEW S, IsFiniteSet(S), S # {}
  PROVE  /\ Chosen(S) \in S
         /\ SumOfRationals(f, S) = Plus(f[Chosen(S)], SumOfRationals(f, S \ {Chosen(S)}))
<1> DEFINE r == S \ {Chosen(S)}
<1>1. Chosen(S) \in S
  BY DEF Chosen
<1>2. RationalsTabled(RationalTable(f, S), f, S) /\ RationalsTabled(RationalTable(f, r), f, r)
  BY RationalTableExists
<1>3. RationalTable(f, S)[r] = RationalTable(f, r)[r]
  <2>1. r \in SUBSET S /\ r \in SUBSET r
    OBVIOUS
  <2> HIDE DEF r
  <2> QED BY <1>2, <2>1, RationalTablesAgree
<1>4. RationalTable(f, S)[S] = Plus(f[Chosen(S)], RationalTable(f, S)[r])
  BY <1>2 DEF RationalsTabled
<1> QED BY <1>1, <1>3, <1>4, RationalsAreTabled

LEMMA TimesGrows ==
  ASSUME NEW a \in Nat, NEW b \in Nat, NEW c \in Nat, a <= b
  PROVE  a * c \in Nat /\ b * c \in Nat /\ a * c <= b * c
<1> DEFINE d == b - a
<1>1. d \in Nat /\ b = a + d
  OBVIOUS
<1> HIDE DEF d
<1>2. b * c = a * c + d * c
  BY <1>1
<1>3. a * c \in Nat /\ d * c \in Nat
  BY <1>1
<1> QED BY <1>2, <1>3

\* A sum of two rationals, held against the sum of two naturals.
LEMMA PlusBounds ==
  ASSUME NEW a \in Rationals, NEW b \in Rationals, NEW m \in Nat, NEW k \in Nat
  PROVE  /\ Plus(a, b) \in Rationals
         /\ AtMost(a, Whole(m)) /\ AtMost(b, Whole(k)) => AtMost(Plus(a, b), Whole(m + k))
         /\ AtMost(Whole(m), a) /\ AtMost(Whole(k), b) => AtMost(Whole(m + k), Plus(a, b))
<1> DEFINE n1 == a.num  d1 == a.den  n2 == b.num  d2 == b.den
<1>1. n1 \in Nat /\ d1 \in Nat /\ d1 > 0 /\ n2 \in Nat /\ d2 \in Nat /\ d2 > 0
  BY DEF Rationals
<1>2. /\ AtMost(a, Whole(m)) <=> n1 * 1 <= m * d1
      /\ AtMost(b, Whole(k)) <=> n2 * 1 <= k * d2
      /\ AtMost(Whole(m), a) <=> m * d1 <= n1 * 1
      /\ AtMost(Whole(k), b) <=> k * d2 <= n2 * 1
      /\ AtMost(Plus(a, b), Whole(m + k)) <=> (n1 * d2 + n2 * d1) * 1 <= (m + k) * (d1 * d2)
      /\ AtMost(Whole(m + k), Plus(a, b)) <=> (m + k) * (d1 * d2) <= (n1 * d2 + n2 * d1) * 1
      /\ Plus(a, b) = [num |-> n1 * d2 + n2 * d1, den |-> d1 * d2]
  BY DEF AtMost, Whole, Plus
<1> HIDE DEF n1, d1, n2, d2
<1> DEFINE md == m * d1
           kd == k * d2
<1>3. md \in Nat /\ kd \in Nat /\ (m + k) * (d1 * d2) = md * d2 + kd * d1
  BY <1>1
<1>4. n1 * d2 \in Nat /\ n2 * d1 \in Nat /\ d1 * d2 \in Nat /\ d1 * d2 > 0
  BY <1>1
<1>5. Plus(a, b) \in Rationals
  BY <1>2, <1>4 DEF Rationals
<1> HIDE DEF md, kd
<1>6. ASSUME n1 <= md, n2 <= kd
      PROVE  n1 * d2 + n2 * d1 <= md * d2 + kd * d1
  <2>1. n1 * d2 <= md * d2 /\ n2 * d1 <= kd * d1 /\ md * d2 \in Nat /\ kd * d1 \in Nat
    BY <1>1, <1>3, <1>6, TimesGrows
  <2> QED BY <2>1, <1>4
<1>7. ASSUME md <= n1, kd <= n2
      PROVE  md * d2 + kd * d1 <= n1 * d2 + n2 * d1
  <2>1. md * d2 <= n1 * d2 /\ kd * d1 <= n2 * d1 /\ md * d2 \in Nat /\ kd * d1 \in Nat
    BY <1>1, <1>3, <1>7, TimesGrows
  <2> QED BY <2>1, <1>4
<1>8. /\ AtMost(a, Whole(m)) <=> n1 <= md
      /\ AtMost(b, Whole(k)) <=> n2 <= kd
      /\ AtMost(Whole(m), a) <=> md <= n1
      /\ AtMost(Whole(k), b) <=> kd <= n2
  BY <1>1, <1>2 DEF md, kd
<1>9. /\ AtMost(Plus(a, b), Whole(m + k)) <=> n1 * d2 + n2 * d1 <= md * d2 + kd * d1
      /\ AtMost(Whole(m + k), Plus(a, b)) <=> md * d2 + kd * d1 <= n1 * d2 + n2 * d1
  <2>1. (n1 * d2 + n2 * d1) * 1 = n1 * d2 + n2 * d1
    BY <1>4
  <2> QED BY <1>2, <1>3, <2>1
<1> QED BY <1>5, <1>6, <1>7, <1>8, <1>9

\* A sum of rationals, each held against a natural.
LEMMA RationalsBounded ==
  ASSUME NEW S, IsFiniteSet(S), NEW f, NEW g, \A x \in S : f[x] \in Rationals /\ g[x] \in Nat
  PROVE  /\ SumOfRationals(f, S) \in Rationals
         /\ SumFunctionOnSet(g, S) \in Nat
         /\ (\A x \in S : AtMost(f[x], Whole(g[x]))) =>
              AtMost(SumOfRationals(f, S), Whole(SumFunctionOnSet(g, S)))
         /\ (\A x \in S : AtMost(Whole(g[x]), f[x])) =>
              AtMost(Whole(SumFunctionOnSet(g, S)), SumOfRationals(f, S))
<1> DEFINE Total(T) == SumOfRationals(f, T)
           Sum(T) == SumFunctionOnSet(g, T)
           Over(T) == \A x \in T : AtMost(f[x], Whole(g[x]))
           Under(T) == \A x \in T : AtMost(Whole(g[x]), f[x])
           P(T) == /\ Total(T) \in Rationals /\ Sum(T) \in Nat
                   /\ Over(T) => AtMost(Total(T), Whole(Sum(T)))
                   /\ Under(T) => AtMost(Whole(Sum(T)), Total(T))
           F == {T \in SUBSET S : ~P(T)}
<1> SUFFICES ASSUME F # {} PROVE FALSE
  <2>1. CASE F # {}
    BY <2>1
  <2>2. CASE F = {}
    <3>1. P(S)
      BY <2>2
    <3> QED BY <3>1
  <2> QED BY <2>1, <2>2
<1>1. PICK X \in F : \A Y \in F : Y \subseteq X => Y = X
  <2> HIDE DEF F
  <2>1. F \in SUBSET SUBSET S
    BY DEF F
  <2> QED BY <2>1, LeastSubset
<1>2. X # {}
  <2>1. Total({}) = Whole(0) /\ Sum({}) = 0
    BY RationalsEmpty, SumEmpty
  <2>2. Whole(0) \in Rationals /\ AtMost(Whole(0), Whole(0))
    BY DEF Whole, Rationals, AtMost
  <2> HIDE DEF Total, Sum, Over, Under
  <2>3. P({})
    BY <2>1, <2>2
  <2> QED BY <2>3
<1> DEFINE a == Chosen(X)
           r == X \ {a}
<1>3. IsFiniteSet(X)
  BY FS_Subset
<1>4. a \in X /\ Total(X) = Plus(f[a], Total(r))
  BY <1>2, <1>3, RationalsAny
<1>5. Sum(X) = g[a] + Sum(r)
  <2>1. \A x \in X : g[x] \in Int
    OBVIOUS
  <2> QED BY <1>3, <1>4, <2>1, SumTakeOut
<1>6. P(r)
  BY <1>1, <1>4
<1>7. /\ f[a] \in Rationals /\ g[a] \in Nat
      /\ Over(X) => Over(r) /\ AtMost(f[a], Whole(g[a]))
      /\ Under(X) => Under(r) /\ AtMost(Whole(g[a]), f[a])
  BY <1>4
<1>8. X \in SUBSET S /\ ~P(X)
  BY <1>1
<1> HIDE DEF Total, Sum, Over, Under, a, r, F
<1>9. P(X)
  BY <1>4, <1>5, <1>6, <1>7, PlusBounds
<1> QED BY <1>8, <1>9

(***************************************************************************)
(* Segments of module A.                                                   *)
(***************************************************************************)

\* A tick is in interval i or before exactly if it comes before the end of i.
LEMMA IntervalEnds ==
  ASSUME NEW t \in Nat, NEW width \in Nat \ {0}, NEW i \in Nat
  PROVE  IntervalOf(t, width) \in Nat \ {0} /\ (IntervalOf(t, width) <= i <=> t < i * width)
<1> DEFINE q == t \div width
<1>1. q \in Nat /\ q * width <= t /\ t < q * width + width
  OBVIOUS
<1>2. IntervalOf(t, width) = q + 1
  BY DEF IntervalOf
<1> HIDE DEF q
<1>3. i * width \in Nat /\ q * width \in Nat
  BY <1>1
<1>4. ASSUME q + 1 <= i PROVE t < i * width
  <2>1. (q + 1) * width <= i * width
    BY <1>1, <1>4, TimesGrows
  <2>2. (q + 1) * width = q * width + width
    BY <1>1
  <2> QED BY <1>1, <1>3, <2>1, <2>2
<1>5. ASSUME ~(q + 1 <= i) PROVE ~(t < i * width)
  <2>1. i * width <= q * width
    BY <1>1, <1>5, TimesGrows
  <2> QED BY <1>1, <1>3, <2>1
<1> QED BY <1>1, <1>2, <1>4, <1>5

\* Terms summed part by part.
LEMMA SumByPart ==
  ASSUME NEW C, IsFiniteSet(C), NEW f, \A x \in C : f[x] \in Int, NEW M, IsFiniteSet(M),
         NEW part, NEW sums, \A m \in M : part[m] \in SUBSET C /\ sums[m] = SumFunctionOnSet(f, part[m]),
         \A m, k \in M : m # k => part[m] \cap part[k] = {},
         NEW whole \in SUBSET C, \A x \in C : x \in whole <=> \E m \in M : x \in part[m]
  PROVE  SumFunctionOnSet(sums, M) = SumFunctionOnSet(f, whole)
<1>1. SumFunctionOnSet(sums, M) = SumFunctionOnSet(f, UNION {part[m] : m \in M})
  BY SumOfParts
<1>2. UNION {part[m] : m \in M} = whole
  OBVIOUS
<1> QED BY <1>1, <1>2

\* What was sold until the end of interval i is what the segments that start
\* until then were sold.
LEMMA BinsAddUp ==
  ASSUME NEW T, IsFiniteSet(T), \A t \in T : t \in Nat, NEW sold \in [T -> Nat],
         NEW width \in Nat \ {0}, NEW n \in Nat
  PROVE  LET bins == Binned(sold, width, n)
         IN  /\ bins \in [1..n -> Nat]
             /\ \A i \in 0..n : /\ SoldThrough(sold, width, i) \in Nat
                                /\ SumFunctionOnSet(bins, {s \in Starts(bins) : s <= i})
                                     = SoldThrough(sold, width, i)
<1> DEFINE bins == Binned(sold, width, n)
           at(i) == {t \in T : IntervalOf(t, width) = i}
<1>1. \A i \in 1..n : at(i) \in SUBSET T /\ bins[i] = SumFunctionOnSet(sold, at(i))
  BY DEF Binned
<1>2. \A t \in T : sold[t] \in Nat /\ sold[t] \in Int
  OBVIOUS
<1>3. \A U \in SUBSET T : IsFiniteSet(U) /\ SumFunctionOnSet(sold, U) \in Nat
  <2> TAKE U \in SUBSET T
  <2>1. IsFiniteSet(U)
    BY FS_Subset
  <2> QED BY <2>1, <1>2, SumOfNaturals
<1>4. bins \in [1..n -> Nat]
  <2>1. \A i \in 1..n : SumFunctionOnSet(sold, at(i)) \in Nat
    BY <1>3
  <2> QED BY <2>1 DEF Binned
<1>5. ASSUME NEW i \in 0..n
      PROVE  /\ SoldThrough(sold, width, i) \in Nat
             /\ SumFunctionOnSet(bins, {s \in Starts(bins) : s <= i}) = SoldThrough(sold, width, i)
  <2> DEFINE M == 1..i
             part == [m \in M |-> at(m)]
             early == {t \in T : t < i * width}
             S == {s \in Starts(bins) : s <= i}
  <2>1. IsFiniteSet(M) /\ \A m \in M : m \in 1..n
    BY FS_Interval
  <2>2. \A t \in T : t \in early <=> \E m \in M : t \in part[m]
    <3>1. \A t \in T : IntervalOf(t, width) \in Nat \ {0} /\ (IntervalOf(t, width) <= i <=> t < i * width)
      <4> TAKE t \in T
      <4>1. t \in Nat /\ i \in Nat
        OBVIOUS
      <4> QED BY <4>1, IntervalEnds
    <3>2. \A q \in Nat \ {0} : q \in M <=> q <= i
      OBVIOUS
    <3> HIDE DEF M
    <3>3. \A t \in T : IntervalOf(t, width) \in M <=> t < i * width
      BY <3>1, <3>2, Zenon
    <3> QED BY <3>3
  <2>3. SumFunctionOnSet(bins, M) = SumFunctionOnSet(sold, early)
    <3>1. \A m \in M : part[m] \in SUBSET T /\ bins[m] = SumFunctionOnSet(sold, part[m])
      <4> HIDE DEF bins, at, M
      <4> QED BY <1>1, <2>1
    <3>2. \A m, k \in M : m # k => part[m] \cap part[k] = {}
      OBVIOUS
    <3>3. early \in SUBSET T
      OBVIOUS
    <3> HIDE DEF M, part, bins, at, early, S
    <3>4. IsFiniteSet(T) /\ IsFiniteSet(M) /\ \A t \in T : sold[t] \in Int
      BY <2>1, <1>2
    <3> QED BY <2>2, <3>1, <3>2, <3>3, <3>4, SumByPart
  <2>4. SumFunctionOnSet(bins, M) = SumFunctionOnSet(bins, S)
    <3>1. S \in SUBSET M
      BY <1>4 DEF Starts
    <3>2. \A m \in M : bins[m] \in Int
      BY <1>4
    <3>3. \A m \in M \ S : bins[m] = 0
      BY <1>4 DEF Starts
    <3> HIDE DEF M, S, bins
    <3> QED BY <2>1, <3>1, <3>2, <3>3, SumDropZeros
  <2>5. SoldThrough(sold, width, i) = SumFunctionOnSet(sold, early) /\ early \in SUBSET T
    BY DEF SoldThrough
  <2> HIDE DEF early, S, bins, M, part
  <2> QED BY <2>2, <2>3, <2>4, <2>5, <1>3 DEF S
<1> QED BY <1>4, <1>5

\* The segments of a window: their weights and their levels.
LEMMA SegmentLevels ==
  ASSUME NEW n \in Nat, NEW bins \in [1..n -> Nat], NEW w \in [1..n -> Nat \ {0}]
  PROVE  LET starts == Starts(bins)
             theta == Theta(bins, w)
         IN  /\ starts \in SUBSET 1..n /\ IsFiniteSet(starts) /\ DOMAIN theta = starts
             /\ \A s \in starts :
                  /\ Segment(starts, s, w) \in SUBSET 1..n
                  /\ WeightOf(Segment(starts, s, w), w) \in Nat \ {0}
                  /\ theta[s] = [num |-> bins[s], den |-> WeightOf(Segment(starts, s, w), w)]
                  /\ theta[s] \in Rationals
                  /\ \A I \in SUBSET Nat :
                       /\ WeightOf(Segment(starts, s, w) \cap I, w) \in Nat
                       /\ WeightOf(Segment(starts, s, w) \cap I, w) <= WeightOf(Segment(starts, s, w), w)
<1> DEFINE starts == Starts(bins)
           theta == Theta(bins, w)
<1>1. starts \in SUBSET 1..n /\ IsFiniteSet(1..n) /\ DOMAIN theta = starts
  BY FS_Interval DEF Starts, Theta
<1>2. IsFiniteSet(starts)
  BY <1>1, FS_Subset
<1>3. ASSUME NEW s \in starts
      PROVE  /\ Segment(starts, s, w) \in SUBSET 1..n
             /\ WeightOf(Segment(starts, s, w), w) \in Nat \ {0}
             /\ theta[s] = [num |-> bins[s], den |-> WeightOf(Segment(starts, s, w), w)]
             /\ theta[s] \in Rationals
             /\ \A I \in SUBSET Nat :
                  /\ WeightOf(Segment(starts, s, w) \cap I, w) \in Nat
                  /\ WeightOf(Segment(starts, s, w) \cap I, w) <= WeightOf(Segment(starts, s, w), w)
  <2> DEFINE seg == Segment(starts, s, w)
  <2>1. seg \in SUBSET 1..n
    BY DEF Segment
  <2>2. s \in seg
    <3>1. s \in 1..n /\ (s + 1)..s = {}
      BY <1>1
    <3> QED BY <3>1 DEF Segment
  <2> HIDE DEF seg
  <2>3. IsFiniteSet(seg) /\ \A x \in seg : w[x] \in Nat /\ w[x] \in Int
    <3>1. IsFiniteSet(seg)
      BY <1>1, <2>1, FS_Subset
    <3> QED BY <2>1, <3>1
  <2>4. WeightOf(seg, w) \in Nat /\ \A U \in SUBSET seg : WeightOf(U, w) <= WeightOf(seg, w)
    BY <2>3, SumOfNaturals DEF WeightOf
  <2>5. WeightOf(seg, w) # 0
    <3>1. SumFunctionOnSet(w, seg) = w[s] + SumFunctionOnSet(w, seg \ {s})
      BY <2>2, <2>3, SumTakeOut
    <3>2. IsFiniteSet(seg \ {s}) /\ \A x \in seg \ {s} : w[x] \in Nat
      BY <2>3, FS_Subset
    <3>3. SumFunctionOnSet(w, seg \ {s}) \in Nat
      BY <3>2, SumOfNaturals
    <3>4. w[s] \in Nat \ {0}
      BY <2>1, <2>2
    <3> QED BY <3>1, <3>3, <3>4 DEF WeightOf
  <2>6. \A I \in SUBSET Nat : WeightOf(seg \cap I, w) \in Nat /\ WeightOf(seg \cap I, w) <= WeightOf(seg, w)
    <3> TAKE I \in SUBSET Nat
    <3>1. seg \cap I \in SUBSET seg /\ IsFiniteSet(seg \cap I)
      BY <2>3, FS_Subset
    <3>2. \A x \in seg \cap I : w[x] \in Nat
      BY <2>3
    <3>3. WeightOf(seg \cap I, w) \in Nat
      <4> DEFINE U == seg \cap I
      <4>1. IsFiniteSet(U) /\ \A x \in U : w[x] \in Nat
        BY <3>1, <3>2
      <4> HIDE DEF U
      <4>2. SumFunctionOnSet(w, U) \in Nat
        BY <4>1, SumOfNaturals
      <4> QED BY <4>2 DEF WeightOf, U
    <3> QED BY <3>1, <3>3, <2>4
  <2>7. theta[s] = [num |-> bins[s], den |-> WeightOf(seg, w)]
    BY DEF Theta, seg
  <2>8. theta[s] \in Rationals
    <3>1. bins[s] \in Nat
      BY <1>1
    <3> HIDE DEF theta
    <3> QED BY <2>4, <2>5, <2>7, <3>1 DEF Rationals
  <2> QED BY <2>1, <2>4, <2>5, <2>6, <2>7, <2>8 DEF seg
<1> QED BY <1>1, <1>2, <1>3

\* Clipping lowers levels and changes those only that lie above the middle.
LEMMA ClippedFromAbove ==
  ASSUME NEW D, NEW theta, DOMAIN theta = D, \A s \in D : theta[s] \in Rationals,
         NEW middle \in D
  PROVE  LET level == Winsorized(theta, middle)
         IN  /\ DOMAIN level = D
             /\ \A s \in D : /\ level[s] \in Rationals
                             /\ AtMost(level[s], theta[s])
                             /\ level[s] = theta[s] \/ Below(theta[middle], theta[s])
             /\ Cardinality(D) < WinsorizeMinSegments => \A s \in D : level[s] = theta[s]
<1> DEFINE level == Winsorized(theta, middle)
           cap == Scaled(theta[middle], 2)
<1>1. \A s \in D : AtMost(theta[s], theta[s])
  BY DEF AtMost, Rationals
<1>2. cap \in Rationals
  BY DEF Scaled, Rationals
<1>3. \A s \in D : Below(cap, theta[s]) => AtMost(cap, theta[s])
  BY <1>2 DEF Below, AtMost, Rationals
<1>4. \A s \in D : Below(cap, theta[s]) => Below(theta[middle], theta[s])
  <2> TAKE s \in D
  <2> HAVE Below(cap, theta[s])
  <2> DEFINE m == theta[middle].num  dm == theta[middle].den
             k == theta[s].num       dk == theta[s].den
  <2>1. m \in Nat /\ dm \in Nat /\ k \in Nat /\ dk \in Nat
    BY DEF Rationals
  <2>2. (2 * m) * dk < k * dm
    BY DEF Below, Scaled
  <2>3. Below(theta[middle], theta[s]) <=> m * dk < k * dm
    BY DEF Below
  <2> HIDE DEF m, dm, k, dk
  <2>4. (2 * m) * dk = m * dk + m * dk /\ m * dk \in Nat /\ k * dm \in Nat
    BY <2>1
  <2> QED BY <2>2, <2>3, <2>4
<1>5. DOMAIN level = D
  BY DEF Winsorized
<1>6. \A s \in D : level[s] = theta[s] \/ (Below(cap, theta[s]) /\ level[s] = cap)
  BY DEF Winsorized
<1>7. Cardinality(D) < WinsorizeMinSegments => level = theta
  BY DEF Winsorized
<1> HIDE DEF level, cap
<1>8. \A s \in D : /\ level[s] \in Rationals
                   /\ AtMost(level[s], theta[s])
                   /\ level[s] = theta[s] \/ Below(theta[middle], theta[s])
  BY <1>1, <1>2, <1>3, <1>4, <1>6
<1> QED BY <1>5, <1>7, <1>8 DEF level

\* What the segments up to interval i were estimated at, at levels that are
\* no higher than their own, is no more than what they were sold; over the
\* whole window, at their own levels, it is no less either.
LEMMA EstimateIsPurchase ==
  ASSUME NEW n \in Nat, NEW bins \in [1..n -> Nat], NEW w \in [1..n -> Nat \ {0}],
         NEW level, DOMAIN level = Starts(bins),
         \A s \in Starts(bins) : level[s] \in Rationals /\ AtMost(level[s], Theta(bins, w)[s]),
         NEW i \in 0..n, NEW S, S = {s \in Starts(bins) : s <= i}
  PROVE  /\ EstimatedThrough(level, w, i) \in Rationals
         /\ AtMost(EstimatedThrough(level, w, i), Whole(SumFunctionOnSet(bins, S)))
         /\ i = n /\ (\A s \in Starts(bins) : level[s] = Theta(bins, w)[s]) =>
              AtMost(Whole(SumFunctionOnSet(bins, S)), EstimatedThrough(level, w, i))
<1> DEFINE starts == Starts(bins)
           theta == Theta(bins, w)
           seg(s) == Segment(starts, s, w)
           part(s) == WeightOf(seg(s) \cap 1..i, w)
           term == [s \in starts |-> Scaled(level[s], part(s))]
           Own == i = n /\ \A s \in starts : level[s] = theta[s]
<1>1. /\ starts \in SUBSET 1..n /\ IsFiniteSet(starts)
      /\ \A s \in starts :
           /\ seg(s) \in SUBSET 1..n
           /\ WeightOf(seg(s), w) \in Nat \ {0}
           /\ theta[s] = [num |-> bins[s], den |-> WeightOf(seg(s), w)]
           /\ part(s) \in Nat /\ part(s) <= WeightOf(seg(s), w)
  <2>1. 1..i \in SUBSET Nat
    OBVIOUS
  <2> QED BY <2>1, SegmentLevels
<1>2. IsFiniteSet(S) /\ S \in SUBSET starts
  BY <1>1, FS_Subset
<1>3. EstimatedThrough(level, w, i) = SumOfRationals(term, S)
  BY DEF EstimatedThrough
<1>4. ASSUME NEW s \in S
      PROVE  /\ term[s] \in Rationals /\ bins[s] \in Nat
             /\ AtMost(term[s], Whole(bins[s]))
             /\ Own => AtMost(Whole(bins[s]), term[s])
  <2> DEFINE p == part(s)  W == WeightOf(seg(s), w)
             num == level[s].num  den == level[s].den  b == bins[s]
  <2>1. /\ p \in Nat /\ W \in Nat \ {0} /\ p <= W
        /\ theta[s] = [num |-> b, den |-> W]
    BY <1>1, <1>2
  <2>2. s \in 1..n /\ b \in Nat
    BY <1>1, <1>2
  <2>3. num \in Nat /\ den \in Nat \ {0}
    BY <1>2 DEF Rationals
  <2>4. num * W <= b * den
    <3>1. AtMost(level[s], theta[s])
      BY <1>2
    <3> HIDE DEF W, b, theta
    <3> QED BY <2>1, <3>1 DEF AtMost
  <2>5. term[s] = [num |-> p * num, den |-> den]
    BY <1>2 DEF Scaled
  <2>6. Own => p = W /\ num = b /\ den = W
    <3> SUFFICES ASSUME Own PROVE p = W /\ num = b /\ den = W
      OBVIOUS
    <3>1. level[s] = theta[s]
      BY <1>2
    <3>2. num = b /\ den = W
      <4> HIDE DEF theta, W, b
      <4> QED BY <2>1, <3>1
    <3>3. seg(s) \cap 1..i = seg(s)
      <4>1. seg(s) \in SUBSET 1..n /\ i = n
        BY <1>1, <1>2
      <4> HIDE DEF seg
      <4> QED BY <4>1
    <3> QED BY <3>2, <3>3
  <2> HIDE DEF p, W, num, den, b, term, Own
  <2>7. p * num \in Nat /\ p * num <= W * num /\ W * num = num * W
    <3>1. p \in Nat /\ W \in Nat /\ num \in Nat /\ p <= W
      BY <2>1, <2>3
    <3>2. p * num \in Nat /\ p * num <= W * num
      BY <3>1, TimesGrows
    <3> QED BY <3>1, <3>2
  <2>8. term[s] \in Rationals
    BY <2>3, <2>5, <2>7 DEF Rationals
  <2>9. AtMost(term[s], Whole(b)) <=> p * num <= b * den
    <3>1. AtMost(term[s], Whole(b)) <=> (p * num) * 1 <= b * den
      BY <2>5 DEF AtMost, Whole
    <3> QED BY <3>1, <2>7
  <2>10. AtMost(Whole(b), term[s]) <=> b * den <= p * num
    <3>1. AtMost(Whole(b), term[s]) <=> b * den <= (p * num) * 1
      BY <2>5 DEF AtMost, Whole
    <3> QED BY <3>1, <2>7
  <2>11. p * num <= b * den
    <3>1. b * den \in Nat /\ num * W \in Nat
      BY <2>1, <2>2, <2>3
    <3> QED BY <2>4, <2>7, <3>1
  <2>12. Own => b * den <= p * num
    <3> SUFFICES ASSUME Own PROVE b * den <= p * num
      OBVIOUS
    <3>1. b * den = p * num
      BY <2>1, <2>2, <2>6
    <3> QED BY <3>1, <2>7
  <2> QED BY <2>2, <2>8, <2>9, <2>10, <2>11, <2>12 DEF b
<1> DEFINE sold == SumFunctionOnSet(bins, S)
<1>5. /\ sold \in Nat /\ SumOfRationals(term, S) \in Rationals
      /\ AtMost(SumOfRationals(term, S), Whole(sold))
      /\ Own => AtMost(Whole(sold), SumOfRationals(term, S))
  <2> HIDE DEF term, Own
  <2> QED BY <1>2, <1>4, RationalsBounded
<1> HIDE DEF term
<1> QED BY <1>3, <1>5

\* At least half of the segments keep their level, and with it their purchase.
LEMMA HalfUnclipped ==
  ASSUME NEW n \in Nat, NEW bins \in [1..n -> Nat], NEW w \in [1..n -> Nat \ {0}],
         NEW middle, middle \in Middles(Theta(bins, w)),
         NEW level, level = Winsorized(Theta(bins, w), middle)
  PROVE  \E kept : /\ kept \subseteq Starts(bins) /\ IsFiniteSet(Starts(bins))
                   /\ 2 * Cardinality(kept) >= Cardinality(Starts(bins))
                   /\ \A s \in kept : ReturnsPurchase(bins, w, level, s)
<1> DEFINE starts == Starts(bins)
           theta == Theta(bins, w)
           W(s) == WeightOf(Segment(starts, s, w), w)
           above == {t \in starts : Below(theta[middle], theta[t])}
           kept == starts \ above
<1>1. /\ starts \in SUBSET 1..n /\ IsFiniteSet(starts) /\ DOMAIN theta = starts
      /\ \A s \in starts : /\ W(s) \in Nat \ {0}
                           /\ theta[s] = [num |-> bins[s], den |-> W(s)]
                           /\ theta[s] \in Rationals
  BY SegmentLevels
<1>2. middle \in starts /\ 2 * Cardinality(above) <= Cardinality(starts)
  <2> HIDE DEF theta
  <2>1. DOMAIN theta = starts /\ middle \in Middles(theta)
    BY <1>1 DEF theta
  <2> QED BY <2>1 DEF Middles
<1>3. \A s \in starts : level[s] = theta[s] \/ Below(theta[middle], theta[s])
  <2> HIDE DEF theta, starts
  <2>1. DOMAIN theta = starts /\ \A s \in starts : theta[s] \in Rationals
    BY <1>1
  <2>2. \A s \in starts : Winsorized(theta, middle)[s] = theta[s] \/ Below(theta[middle], theta[s])
    BY <1>2, <2>1, ClippedFromAbove
  <2> QED BY <2>2 DEF theta
<1>4. ASSUME NEW s \in kept
      PROVE  ReturnsPurchase(bins, w, level, s)
  <2>1. level[s] = theta[s]
    BY <1>3
  <2>2. theta[s] = [num |-> bins[s], den |-> W(s)]
    BY <1>1
  <2>3. DOMAIN level = starts
    <3> HIDE DEF theta, starts
    <3>1. DOMAIN theta = starts
      BY <1>1
    <3> QED BY <3>1 DEF Winsorized, theta
  <2> HIDE DEF theta, starts
  <2>4. level[s].num = bins[s] /\ level[s].den = WeightOf(Segment(DOMAIN level, s, w), w)
    BY <2>1, <2>2, <2>3
  <2> QED BY <2>4 DEF ReturnsPurchase
<1>5. 2 * Cardinality(kept) >= Cardinality(starts)
  <2> DEFINE c == Cardinality(starts)  a == Cardinality(above)  k == Cardinality(kept)
  <2>1. above \subseteq starts /\ IsFiniteSet(above)
    BY <1>1, FS_Subset
  <2>2. k = c - Cardinality(starts \cap above)
    BY <1>1, <2>1, FS_Difference
  <2>3. starts \cap above = above
    BY <2>1
  <2>4. c \in Nat /\ a \in Nat /\ k = c - a
    BY <1>1, <2>1, <2>2, <2>3, FS_CardinalityType
  <2>5. 2 * a <= c
    BY <1>2
  <2> HIDE DEF c, a, k
  <2>6. 2 * k >= c
    BY <2>4, <2>5
  <2> QED BY <2>6 DEF c, k
<1> HIDE DEF above
<1> QED BY <1>1, <1>4, <1>5

\* The estimate of a window against what was sold in it.
LEMMA EstimateOfWindow ==
  ASSUME NEW T, IsFiniteSet(T), \A t \in T : t \in Nat, NEW sold \in [T -> Nat],
         NEW width \in Nat \ {0}, NEW n \in Nat, NEW w \in [1..n -> Nat \ {0}],
         NEW middle \in Middles(Theta(Binned(sold, width, n), w)),
         NEW level, level = Winsorized(Theta(Binned(sold, width, n), w), middle)
  PROVE  /\ DOMAIN level = Starts(Binned(sold, width, n))
         /\ \A i \in 0..n :
              /\ EstimatedThrough(level, w, i) \in Rationals
              /\ SoldThrough(sold, width, i) \in Nat
              /\ AtMost(EstimatedThrough(level, w, i), Whole(SoldThrough(sold, width, i)))
         /\ Cardinality(DOMAIN level) < WinsorizeMinSegments =>
              AtMost(Whole(SoldThrough(sold, width, n)), EstimatedThrough(level, w, n))
<1> DEFINE bins == Binned(sold, width, n)
           starts == Starts(bins)
           theta == Theta(bins, w)
           through(i) == {s \in starts : s <= i}
<1>1. /\ bins \in [1..n -> Nat]
      /\ \A i \in 0..n : /\ SoldThrough(sold, width, i) \in Nat
                         /\ SumFunctionOnSet(bins, through(i)) = SoldThrough(sold, width, i)
  BY BinsAddUp
<1> HIDE DEF bins
<1>2. DOMAIN theta = starts /\ \A s \in starts : theta[s] \in Rationals
  BY <1>1, SegmentLevels
<1>3. middle \in starts
  <2>1. middle \in Middles(theta)
    BY DEF bins
  <2> HIDE DEF theta, starts
  <2> QED BY <1>2, <2>1 DEF Middles
<1>4. /\ DOMAIN level = starts
      /\ \A s \in starts : level[s] \in Rationals /\ AtMost(level[s], theta[s])
      /\ Cardinality(starts) < WinsorizeMinSegments => \A s \in starts : level[s] = theta[s]
  <2>1. level = Winsorized(theta, middle)
    BY DEF bins
  <2> HIDE DEF theta, starts
  <2> QED BY <1>2, <1>3, <2>1, ClippedFromAbove
<1>5. ASSUME NEW i \in 0..n
      PROVE  /\ EstimatedThrough(level, w, i) \in Rationals
             /\ AtMost(EstimatedThrough(level, w, i), Whole(SumFunctionOnSet(bins, through(i))))
             /\ i = n /\ (\A s \in starts : level[s] = theta[s]) =>
                  AtMost(Whole(SumFunctionOnSet(bins, through(i))), EstimatedThrough(level, w, i))
  <2>1. /\ bins \in [1..n -> Nat]
        /\ DOMAIN level = Starts(bins)
        /\ \A s \in Starts(bins) : level[s] \in Rationals /\ AtMost(level[s], Theta(bins, w)[s])
    BY <1>1, <1>4
  <2> DEFINE S == through(i)
  <2>2. S = {s \in Starts(bins) : s <= i}
    OBVIOUS
  <2> HIDE DEF S
  <2>3. /\ EstimatedThrough(level, w, i) \in Rationals
        /\ AtMost(EstimatedThrough(level, w, i), Whole(SumFunctionOnSet(bins, S)))
        /\ i = n /\ (\A s \in Starts(bins) : level[s] = Theta(bins, w)[s]) =>
             AtMost(Whole(SumFunctionOnSet(bins, S)), EstimatedThrough(level, w, i))
    BY <2>1, <2>2, EstimateIsPurchase
  <2> QED BY <2>3 DEF S
<1>6. \A i \in 0..n : /\ EstimatedThrough(level, w, i) \in Rationals
                      /\ SoldThrough(sold, width, i) \in Nat
                      /\ AtMost(EstimatedThrough(level, w, i), Whole(SoldThrough(sold, width, i)))
  <2> TAKE i \in 0..n
  <2> HIDE DEF theta, starts, through
  <2> QED BY <1>1, <1>5
<1>7. Cardinality(DOMAIN level) < WinsorizeMinSegments =>
        AtMost(Whole(SoldThrough(sold, width, n)), EstimatedThrough(level, w, n))
  <2>1. n \in 0..n
    OBVIOUS
  <2> HIDE DEF theta, starts, through
  <2> QED BY <1>1, <1>4, <1>5, <2>1
<1> QED BY <1>4, <1>6, <1>7 DEF bins
=============================================================================
