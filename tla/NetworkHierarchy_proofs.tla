------------------------ MODULE NetworkHierarchy_proofs ------------------------
(***************************************************************************)
(* Whatever nodes are added and connections corrected, for every order of  *)
(* levels and any number of nodes, the network is a forest with one level  *)
(* per generation; so the recursive queries agree with one another and     *)
(* totals add up at every node; and a report over the changing hierarchy   *)
(* keeps its two promises.                                                 *)
(***************************************************************************)
EXTENDS SubtreeReport, OperatorTheorems

TreeInv == TypeOK /\ LevelsOrdered

\* Every level name has a position in the order.
LEMMA LevelPosition ==
  ASSUME NEW t \in NodeType
  PROVE  Level(t) \in DOMAIN NodeTypeOrder /\ Level(t) \in Nat
BY HierarchyAssumption DEF Level, NodeType

\* Appending a row leaves the rows before it as they are.
LEMMA AppendedRows ==
  ASSUME NEW type \in NodeType, NEW parent, TypeOK, AddNode(type, parent)
  PROVE  /\ Len(nodes') = Len(nodes) + 1
         /\ DOMAIN nodes' = 1..(Len(nodes) + 1)
         /\ DOMAIN nodes = 1..Len(nodes)
         /\ \A n \in DOMAIN nodes : nodes'[n] = nodes[n]
         /\ nodes'[Len(nodes) + 1] = [type |-> type, parent |-> parent]
BY DEF TypeOK, AddNode

\* The empty network is well formed.
LEMMA TreeInit == Init => TreeInv
BY HierarchyAssumption DEF Init, TreeInv, TypeOK, LevelsOrdered, NoOrphans, Confidence, NoNode

\* add_node keeps the types of the rows.
LEMMA AddNodeType ==
  ASSUME NEW type \in NodeType, NEW parent \in 0..MaxNodes, TypeOK, AddNode(type, parent)
  PROVE  TypeOK'
<1>1. nodes' \in Seq([type : NodeType, parent : 0..MaxNodes])
  BY DEF TypeOK, AddNode
<1>2. Len(nodes') <= MaxNodes
  BY AppendedRows, HierarchyAssumption DEF AddNode, TypeOK
<1>3. NoOrphans'
  BY AppendedRows DEF TypeOK, NoOrphans, AddNode
<1> QED BY <1>1, <1>2, <1>3 DEF TypeOK, AddNode

\* validate_parent_child is what keeps the levels in order.
LEMMA AddNodeLevels ==
  ASSUME NEW type \in NodeType, NEW parent \in 0..MaxNodes,
         TreeInv, AddNode(type, parent)
  PROVE  LevelsOrdered'
<1> DEFINE new == Len(nodes) + 1
<1>0. TypeOK BY DEF TreeInv
<1>1. \A n \in DOMAIN nodes : nodes'[n] = nodes[n]
  BY <1>0, AppendedRows
<1>2. DOMAIN nodes = 1..Len(nodes) /\ DOMAIN nodes' = 1..new /\ Len(nodes) \in Nat
  <2>1. Len(nodes) \in Nat
    BY <1>0 DEF TypeOK
  <2>2. DOMAIN nodes = 1..Len(nodes) /\ DOMAIN nodes' = 1..new
    BY <1>0, AppendedRows
  <2> QED BY <2>1, <2>2
<1>3. nodes'[new] = [type |-> type, parent |-> parent]
  BY <1>0, AppendedRows
<1> SUFFICES ASSUME NEW n \in DOMAIN nodes'
             PROVE  LET p == nodes'[n].parent IN
                      IF p = NoNode THEN Level(nodes'[n].type) = 1
                      ELSE /\ p \in 1..(n - 1)
                           /\ Level(nodes'[n].type) = Level(nodes'[p].type) + 1
  BY DEF LevelsOrdered
<1>4. CASE n \in DOMAIN nodes
  <2>1. nodes'[n] = nodes[n]
    BY <1>1, <1>4
  <2>2. CASE nodes[n].parent = NoNode
    BY <1>4, <2>1, <2>2 DEF TreeInv, LevelsOrdered
  <2>3. CASE nodes[n].parent # NoNode
    <3>1. /\ nodes[n].parent \in 1..(n - 1)
          /\ Level(nodes[n].type) = Level(nodes[nodes[n].parent].type) + 1
      BY <1>4, <2>3 DEF TreeInv, LevelsOrdered
    <3>2. nodes[n].parent \in DOMAIN nodes
      BY <1>2, <1>4, <3>1
    <3>3. nodes'[nodes[n].parent] = nodes[nodes[n].parent]
      BY <1>1, <3>2
    <3> QED BY <2>1, <2>3, <3>1, <3>3
  <2> QED BY <2>2, <2>3
<1>5. CASE n = new
  <2>1. nodes'[n].parent = parent /\ nodes'[n].type = type
    BY <1>3, <1>5
  <2>2. CASE parent = NoNode
    <3>1. Level(type) = 1
      BY <2>2 DEF AddNode, ValidParentChild
    <3> QED BY <2>1, <2>2, <3>1
  <2>3. CASE parent # NoNode
    <3>1. parent \in DOMAIN nodes
      BY <2>3 DEF AddNode
    <3>2. parent \in 1..(n - 1)
      BY <1>2, <1>5, <3>1
    <3>3. Level(nodes[parent].type) + 1 = Level(type)
      BY <2>3 DEF AddNode, ValidParentChild
    <3>4. nodes'[parent] = nodes[parent]
      BY <1>1, <3>1
    <3> QED BY <2>1, <2>3, <3>2, <3>3, <3>4
  <2> QED BY <2>2, <2>3
<1> QED BY <1>2, <1>4, <1>5

\* set_association touches no node.
LEMMA SetAssociationTree ==
  ASSUME NEW c \in Conn, NEW n \in NodeId, NEW confidence \in Confidence,
         TreeInv, SetAssociation(c, n, confidence)
  PROVE  TreeInv'
<1>1. nodes' = nodes
  BY DEF SetAssociation
<1>2. assoc' \in [Conn -> [node : 0..MaxNodes, confidence : Confidence]]
  BY HierarchyAssumption DEF TreeInv, TypeOK, SetAssociation, NodeId
<1>3. NoOrphans'
  BY DEF TreeInv, TypeOK, NoOrphans, SetAssociation
<1> QED BY <1>1, <1>2, <1>3 DEF TreeInv, TypeOK, LevelsOrdered

\* The types and the level order hold in every reachable state.
THEOREM TreeInvariance == Spec => []TreeInv
<1>1. Init => TreeInv
  BY TreeInit
<1>2. TreeInv /\ [Next]_hierarchyVars => TreeInv'
  <2> SUFFICES ASSUME TreeInv, [Next]_hierarchyVars PROVE TreeInv'
    OBVIOUS
  <2>1. ASSUME NEW type \in NodeType, NEW parent \in 0..MaxNodes, AddNode(type, parent)
        PROVE  TreeInv'
    BY <2>1, AddNodeType, AddNodeLevels DEF TreeInv
  <2>2. ASSUME NEW c \in Conn, NEW n \in NodeId, NEW confidence \in Confidence,
               SetAssociation(c, n, confidence)
        PROVE  TreeInv'
    BY <2>2, SetAssociationTree
  <2>3. CASE UNCHANGED hierarchyVars
    BY <2>3 DEF TreeInv, TypeOK, NoOrphans, LevelsOrdered, hierarchyVars
  <2> QED BY <2>1, <2>2, <2>3 DEF Next
<1> QED BY <1>1, <1>2, PTL DEF Spec

(***************************************************************************)
(* The path to the root.                                                   *)
(***************************************************************************)

\* The rows of the network are numbered 1, 2, ...
LEMMA Rows ==
  ASSUME TypeOK
  PROVE  /\ Len(nodes) \in Nat /\ DOMAIN nodes = 1..Len(nodes)
         /\ \A n \in DOMAIN nodes : nodes[n].parent \in DOMAIN nodes \cup {NoNode}
BY DEF TypeOK, NoOrphans

\* The recursion of ancestor_chain is defined.
LEMMA UpwardRule ==
  ASSUME TypeOK, NEW n \in DOMAIN nodes
  PROVE  /\ Upward(n) \in [Nat -> DOMAIN nodes \cup {NoNode}]
         /\ Upward(n)[0] = n
         /\ \A k \in Nat : Upward(n)[k + 1] = IF Upward(n)[k] = NoNode THEN NoNode
                                              ELSE nodes[Upward(n)[k]].parent
<1> DEFINE D == DOMAIN nodes \cup {NoNode}
           G == [x \in D |-> IF x = NoNode THEN NoNode ELSE nodes[x].parent]
           Ends(up) == up = [k \in Nat |-> IF k = 0 THEN n
                                          ELSE IF up[k-1] = NoNode THEN NoNode
                                          ELSE nodes[up[k-1]].parent]
<1>1. G \in [D -> D]
  BY Rows
<1>2. PICK f \in [Nat -> D] : Iterates(f, G, n)
  <2>1. n \in D
    OBVIOUS
  <2> HIDE DEF D, G
  <2> QED BY <1>1, <2>1, IterationExists
<1>3. \A k \in Nat : k # 0 => k - 1 \in Nat /\ (k - 1) + 1 = k
  OBVIOUS
<1>4. Ends(f)
  <2>1. \A k \in Nat : k # 0 => f[k] = G[f[k - 1]] /\ f[k - 1] \in D
    BY <1>2, <1>3 DEF Iterates
  <2> QED BY <1>2, <2>1 DEF Iterates
<1>5. Upward(n) = CHOOSE up : Ends(up)
  BY DEF Upward
<1>6. Ends(Upward(n))
  BY <1>4, <1>5
<1> DEFINE up == Upward(n)
<1> HIDE DEF up
<1>7. up = [k \in Nat |-> IF k = 0 THEN n ELSE IF up[k-1] = NoNode THEN NoNode
                          ELSE nodes[up[k-1]].parent]
  BY <1>6 DEF up
<1>8. up[0] = n
  BY <1>7
<1>9. \A k \in Nat : up[k + 1] = IF up[k] = NoNode THEN NoNode ELSE nodes[up[k]].parent
  <2> TAKE k \in Nat
  <2>1. k + 1 \in Nat /\ k + 1 # 0 /\ (k + 1) - 1 = k
    OBVIOUS
  <2> QED BY <1>7, <2>1
<1> DEFINE T == {k \in Nat : up[k] \in D}
<1>10. T = Nat
  <2>1. 0 \in T
    BY <1>8
  <2>2. ASSUME NEW k \in T PROVE k + 1 \in T
    <3>1. k + 1 \in Nat /\ up[k] \in D
      OBVIOUS
    <3>2. up[k + 1] \in D
      <4>1. up[k + 1] = IF up[k] = NoNode THEN NoNode ELSE nodes[up[k]].parent
        BY <1>9
      <4> DEFINE x == up[k]
      <4> HIDE DEF x
      <4>2. x \in D /\ up[k + 1] = IF x = NoNode THEN NoNode ELSE nodes[x].parent
        BY <3>1, <4>1 DEF x
      <4> QED BY <4>2, Rows
    <3> QED BY <3>1, <3>2
  <2> HIDE DEF T
  <2>3. T \in SUBSET Nat
    BY DEF T
  <2> QED BY <2>1, <2>2, <2>3, InductiveSet
<1>11. up \in [Nat -> D]
  <2>1. up = [k \in Nat |-> up[k]]
    BY <1>7
  <2>2. \A k \in Nat : up[k] \in D
    BY <1>10
  <2> QED BY <2>1, <2>2
<1> QED BY <1>8, <1>9, <1>11 DEF up

\* Every step up leads to an older node, so a path comes to nothing twice.
LEMMA UpwardFalls ==
  ASSUME TreeInv, NEW n \in DOMAIN nodes
  PROVE  /\ \A j, k \in Nat : j < k => \/ Upward(n)[k] = NoNode
                                       \/ Upward(n)[j] # NoNode /\ Upward(n)[k] < Upward(n)[j]
         /\ \A k \in Nat : Upward(n)[k] = NoNode \/ Upward(n)[k] + k <= n
<1> DEFINE up == Upward(n)
<1>0. TypeOK
  BY DEF TreeInv
<1>1. /\ up \in [Nat -> DOMAIN nodes \cup {NoNode}] /\ up[0] = n
      /\ \A k \in Nat : up[k + 1] = IF up[k] = NoNode THEN NoNode ELSE nodes[up[k]].parent
  BY <1>0, UpwardRule
<1>2. DOMAIN nodes = 1..Len(nodes) /\ Len(nodes) \in Nat
  BY <1>0, Rows
<1> HIDE DEF up
<1>3. \A k \in Nat : up[k] \in Nat
  <2>1. \A x \in DOMAIN nodes \cup {NoNode} : x \in Nat
    BY <1>2 DEF NoNode
  <2> QED BY <1>1, <2>1
<1>4. \A x \in DOMAIN nodes : nodes[x].parent = NoNode \/ nodes[x].parent <= x - 1
  BY <1>2 DEF TreeInv, LevelsOrdered
<1>5. \A k \in Nat : up[k + 1] = NoNode \/ (up[k] # NoNode /\ up[k + 1] <= up[k] - 1)
  BY <1>1, <1>4
<1> DEFINE T == {k \in Nat : \A j \in 0..(k - 1) :
                   up[k] = NoNode \/ (up[j] # NoNode /\ up[k] < up[j])}
           U == {k \in Nat : up[k] = NoNode \/ up[k] + k <= n}
<1>6. T = Nat
  <2>1. 0 \in T
    OBVIOUS
  <2>2. ASSUME NEW k \in T PROVE k + 1 \in T
    <3> SUFFICES ASSUME NEW j \in 0..k, up[k + 1] # NoNode
                 PROVE  up[j] # NoNode /\ up[k + 1] < up[j]
      OBVIOUS
    <3>1. up[k] # NoNode /\ up[k + 1] <= up[k] - 1
      BY <1>5
    <3>2. CASE j = k
      BY <3>1, <3>2, <1>3
    <3>3. CASE j # k
      <4>1. j \in 0..(k - 1) /\ j \in Nat /\ k + 1 \in Nat
        BY <3>3
      <4>2. up[j] # NoNode /\ up[k] < up[j]
        BY <3>1, <4>1
      <4>3. up[j] \in Nat /\ up[k] \in Nat /\ up[k + 1] \in Nat
        BY <1>3, <4>1
      <4> QED BY <3>1, <4>2, <4>3
    <3> QED BY <3>2, <3>3
  <2> HIDE DEF T
  <2>3. T \in SUBSET Nat
    BY DEF T
  <2> QED BY <2>1, <2>2, <2>3, InductiveSet
<1>7. U = Nat
  <2>1. 0 \in U
    BY <1>1, <1>2
  <2>2. ASSUME NEW k \in U PROVE k + 1 \in U
    <3> SUFFICES ASSUME up[k + 1] # NoNode PROVE up[k + 1] + (k + 1) <= n
      OBVIOUS
    <3>1. up[k] # NoNode /\ up[k + 1] <= up[k] - 1
      BY <1>5
    <3>2. up[k] + k <= n
      BY <3>1
    <3>3. up[k] \in Nat /\ up[k + 1] \in Nat /\ n \in Nat
      BY <1>2, <1>3
    <3> QED BY <3>1, <3>2, <3>3
  <2> HIDE DEF U
  <2>3. U \in SUBSET Nat
    BY DEF U
  <2> QED BY <2>1, <2>2, <2>3, InductiveSet
<1>8. \A j, k \in Nat : j < k => j \in 0..(k - 1)
  OBVIOUS
<1> QED BY <1>6, <1>7, <1>8 DEF up

(***************************************************************************)
(* Drill-down.                                                             *)
(***************************************************************************)

\* The recursive query is defined: every round lists rows of the network.
LEMMA GenerationRule ==
  ASSUME TypeOK, NEW n \in DOMAIN nodes
  PROVE  /\ \A k \in Nat : Generation(n)[k] \subseteq DOMAIN nodes
         /\ Generation(n)[0] = {n}
         /\ \A k \in Nat : Generation(n)[k + 1] = UNION {Children(x) : x \in Generation(n)[k]}
<1> DEFINE D == SUBSET DOMAIN nodes
           G == [s \in D |-> UNION {Children(x) : x \in s}]
           Lists(gen) == gen = [k \in Nat |-> IF k = 0 THEN {n}
                                            ELSE UNION {Children(x) : x \in gen[k-1]}]
<1>1. G \in [D -> D]
  BY DEF Children
<1>2. PICK f \in [Nat -> D] : Iterates(f, G, {n})
  <2>1. {n} \in D
    OBVIOUS
  <2> HIDE DEF D, G
  <2> QED BY <1>1, <2>1, IterationExists
<1>3. \A k \in Nat : k # 0 => k - 1 \in Nat /\ (k - 1) + 1 = k
  OBVIOUS
<1>4. Lists(f)
  <2>1. \A k \in Nat : k # 0 => f[k] = G[f[k - 1]] /\ f[k - 1] \in D
    BY <1>2, <1>3 DEF Iterates
  <2>2. \A k \in Nat : f[k] = IF k = 0 THEN {n} ELSE UNION {Children(x) : x \in f[k - 1]}
    BY <1>2, <2>1 DEF Iterates
  <2> QED BY <1>2, <2>2
<1>5. Generation(n) = CHOOSE gen : Lists(gen)
  BY DEF Generation
<1>6. Lists(Generation(n))
  BY <1>4, <1>5
<1> DEFINE gen == Generation(n)
<1> HIDE DEF gen
<1>7. gen = [k \in Nat |-> IF k = 0 THEN {n} ELSE UNION {Children(x) : x \in gen[k-1]}]
  BY <1>6 DEF gen
<1>8. gen[0] = {n}
  BY <1>7
<1>9. \A k \in Nat : gen[k + 1] = UNION {Children(x) : x \in gen[k]}
  <2> TAKE k \in Nat
  <2>1. k + 1 \in Nat /\ k + 1 # 0 /\ (k + 1) - 1 = k
    OBVIOUS
  <2> QED BY <1>7, <2>1
<1>10. \A k \in Nat : gen[k] \subseteq DOMAIN nodes
  <2> TAKE k \in Nat
  <2>1. CASE k = 0
    BY <1>8, <2>1
  <2>2. CASE k # 0
    <3>1. gen[k] = UNION {Children(x) : x \in gen[k - 1]}
      BY <1>3, <1>9, <2>2
    <3> QED BY <3>1 DEF Children
  <2> QED BY <2>1, <2>2
<1> QED BY <1>8, <1>9, <1>10 DEF gen

\* A path starts with the path of the parent.
LEMMA UpwardFromParent ==
  ASSUME TreeInv, NEW m \in DOMAIN nodes
  PROVE  \A k \in Nat : Upward(m)[k + 1] =
           IF nodes[m].parent = NoNode THEN NoNode ELSE Upward(nodes[m].parent)[k]
<1> DEFINE p == nodes[m].parent
           up == Upward(m)
           upp == Upward(p)
           T == {k \in Nat : up[k + 1] = IF p = NoNode THEN NoNode ELSE upp[k]}
<1>0. TypeOK
  BY DEF TreeInv
<1>1. p = NoNode \/ p \in DOMAIN nodes
  BY <1>0, Rows
<1>2. m # NoNode
  BY <1>0, Rows DEF NoNode
<1>3. up[0] = m /\ \A k \in Nat : up[k + 1] = IF up[k] = NoNode THEN NoNode ELSE nodes[up[k]].parent
  BY <1>0, UpwardRule
<1>4. p # NoNode => upp[0] = p /\ \A k \in Nat : upp[k + 1] = IF upp[k] = NoNode THEN NoNode
                                                            ELSE nodes[upp[k]].parent
  BY <1>0, <1>1, UpwardRule
<1> HIDE DEF up, upp, p
<1>5. 0 \in T
  <2>1. up[0 + 1] = nodes[m].parent
    BY <1>2, <1>3
  <2> QED BY <1>4, <2>1 DEF p
<1>6. ASSUME NEW k \in T PROVE k + 1 \in T
  <2>1. k \in Nat /\ k + 1 \in Nat /\ up[k + 1] = IF p = NoNode THEN NoNode ELSE upp[k]
    OBVIOUS
  <2>2. up[(k + 1) + 1] = IF up[k + 1] = NoNode THEN NoNode ELSE nodes[up[k + 1]].parent
    BY <1>3, <2>1
  <2>3. p # NoNode => upp[k + 1] = IF upp[k] = NoNode THEN NoNode ELSE nodes[upp[k]].parent
    BY <1>4, <2>1
  <2>4. up[(k + 1) + 1] = IF p = NoNode THEN NoNode ELSE upp[k + 1]
    BY <2>1, <2>2, <2>3
  <2> QED BY <2>1, <2>4
<1>7. T = Nat
  <2> HIDE DEF T
  <2>1. T \in SUBSET Nat
    BY DEF T
  <2> QED BY <1>5, <1>6, <2>1, InductiveSet
<1> QED BY <1>7 DEF p, up, upp

\* The k-th round of n lists those that come to n in k steps up.
LEMMA RoundIsDistance ==
  ASSUME TreeInv, NEW n \in DOMAIN nodes
  PROVE  \A k \in Nat : \A m \in DOMAIN nodes : m \in Generation(n)[k] <=> Upward(m)[k] = n
<1> DEFINE gen == Generation(n)
           T == {k \in Nat : \A m \in DOMAIN nodes : m \in gen[k] <=> Upward(m)[k] = n}
<1>0. TypeOK /\ n # NoNode
  BY Rows DEF TreeInv, NoNode
<1>1. gen[0] = {n} /\ \A k \in Nat : /\ gen[k] \subseteq DOMAIN nodes
                                    /\ gen[k + 1] = UNION {Children(x) : x \in gen[k]}
  BY <1>0, GenerationRule
<1> HIDE DEF gen
<1>2. 0 \in T
  <2>1. \A m \in DOMAIN nodes : Upward(m)[0] = m
    BY <1>0, UpwardRule
  <2> QED BY <1>1, <2>1
<1>3. ASSUME NEW k \in T PROVE k + 1 \in T
  <2> SUFFICES ASSUME NEW m \in DOMAIN nodes
               PROVE  m \in gen[k + 1] <=> Upward(m)[k + 1] = n
    OBVIOUS
  <2> DEFINE p == nodes[m].parent
  <2>1. m \in gen[k + 1] <=> p \in gen[k]
    <3>1. gen[k + 1] = UNION {Children(x) : x \in gen[k]}
      BY <1>1
    <3> QED BY <3>1 DEF Children
  <2>2. Upward(m)[k + 1] = IF p = NoNode THEN NoNode ELSE Upward(p)[k]
    BY UpwardFromParent
  <2>3. p = NoNode \/ p \in DOMAIN nodes
    BY <1>0, Rows
  <2>4. CASE p = NoNode
    <3>1. NoNode \notin DOMAIN nodes
      BY <1>0, Rows DEF NoNode
    <3> QED BY <1>0, <1>1, <2>1, <2>2, <2>4, <3>1
  <2>5. CASE p # NoNode
    <3>1. p \in gen[k] <=> Upward(p)[k] = n
      BY <2>3, <2>5
    <3> QED BY <2>1, <2>2, <2>5, <3>1
  <2> QED BY <2>4, <2>5
<1>4. T = Nat
  <2> HIDE DEF T
  <2>1. T \in SUBSET Nat
    BY DEF T
  <2> QED BY <1>2, <1>3, <2>1, InductiveSet
<1> QED BY <1>4 DEF gen

\* A path meets no node twice, and only in its first Len(nodes) steps.
LEMMA MetOnce ==
  ASSUME TreeInv, NEW n \in DOMAIN nodes, NEW m \in DOMAIN nodes
  PROVE  /\ \A j, k \in Nat : Upward(m)[j] = n /\ Upward(m)[k] = n => j = k
         /\ \A k \in Nat : Upward(m)[k] = n => k \in 0..Len(nodes)
<1> DEFINE up == Upward(m)
<1>0. TypeOK
  BY DEF TreeInv
<1>1. DOMAIN nodes = 1..Len(nodes) /\ Len(nodes) \in Nat /\ n # NoNode
  BY <1>0, Rows DEF NoNode
<1>2. /\ \A j, k \in Nat : j < k => up[k] = NoNode \/ (up[j] # NoNode /\ up[k] < up[j])
      /\ \A k \in Nat : up[k] = NoNode \/ up[k] + k <= m
  BY UpwardFalls
<1> HIDE DEF up
<1>3. \A j, k \in Nat : j < k /\ up[k] = n => up[j] # n
  BY <1>1, <1>2
<1>4. \A j, k \in Nat : up[j] = n /\ up[k] = n => j = k
  BY <1>3
<1>5. \A k \in Nat : up[k] = n => k \in 0..Len(nodes)
  <2> TAKE k \in Nat
  <2> HAVE up[k] = n
  <2>1. n + k <= m
    BY <1>1, <1>2
  <2> QED BY <1>1, <2>1
<1> QED BY <1>4, <1>5 DEF up

\* Beneath n are those whose path comes to n.
LEMMA DescendantsClimb ==
  ASSUME TreeInv, NEW n \in DOMAIN nodes
  PROVE  /\ Descendants(n) \subseteq DOMAIN nodes
         /\ \A m \in DOMAIN nodes : m \in Descendants(n) <=> \E k \in Nat : Upward(m)[k] = n
<1>0. TypeOK /\ Len(nodes) \in Nat
  BY Rows DEF TreeInv
<1>1. \A k \in 0..Len(nodes) : k \in Nat
  OBVIOUS
<1>2. Descendants(n) \subseteq DOMAIN nodes
  <2>1. \A k \in Nat : Generation(n)[k] \subseteq DOMAIN nodes
    BY <1>0, GenerationRule
  <2> QED BY <1>1, <2>1 DEF Descendants
<1>3. ASSUME NEW m \in DOMAIN nodes
      PROVE  m \in Descendants(n) <=> \E k \in Nat : Upward(m)[k] = n
  <2>1. m \in Descendants(n) <=> \E k \in 0..Len(nodes) : m \in Generation(n)[k]
    BY DEF Descendants
  <2>2. \A k \in Nat : m \in Generation(n)[k] <=> Upward(m)[k] = n
    BY RoundIsDistance
  <2>3. \A k \in Nat : Upward(m)[k] = n => k \in 0..Len(nodes)
    BY MetOnce
  <2> QED BY <1>1, <2>1, <2>2, <2>3
<1> QED BY <1>2, <1>3

\* The chain of m lists the nodes its path comes to.
LEMMA ChainClimbs ==
  ASSUME TreeInv, NEW n \in DOMAIN nodes, NEW m \in DOMAIN nodes
  PROVE  n \in Range(AncestorChain(m)) <=> \E k \in Nat : Upward(m)[k] = n
<1> DEFINE up == Upward(m)
           Ends == {k \in 0..Len(nodes) + 1 : up[k] = NoNode}
           length == Min(Ends)
<1>0. TypeOK
  BY DEF TreeInv
<1>1. DOMAIN nodes = 1..Len(nodes) /\ Len(nodes) \in Nat /\ n # NoNode
  BY <1>0, Rows DEF NoNode
<1>2. /\ \A j, k \in Nat : j < k => up[k] = NoNode \/ (up[j] # NoNode /\ up[k] < up[j])
      /\ \A k \in Nat : up[k] = NoNode \/ up[k] + k <= m
  BY UpwardFalls
<1>3. \A k \in Nat : up[k] = NoNode \/ up[k] \in DOMAIN nodes
  BY <1>0, UpwardRule
<1>4. Range(AncestorChain(m)) = {up[length - i] : i \in 1..length}
  BY DEF AncestorChain, Range
<1> HIDE DEF up
<1>5. Len(nodes) \in Ends
  BY <1>1, <1>2, <1>3
<1>6. \E x \in Ends : \A y \in Ends : x <= y
  <2>1. Ends \in SUBSET Nat /\ Ends # {}
    BY <1>1, <1>5
  <2> HIDE DEF Ends
  <2> QED BY <2>1, LeastNatural
<1>7. length \in Ends /\ \A y \in Ends : length <= y
  <2> HIDE DEF Ends
  <2> QED BY <1>6 DEF Min
<1> HIDE DEF length
<1>8. length \in 0..Len(nodes) + 1 /\ up[length] = NoNode
  BY <1>7
<1>9. length \in Nat
  BY <1>8, <1>1
<1>10. ASSUME n \in Range(AncestorChain(m)) PROVE \E k \in Nat : up[k] = n
  <2>1. PICK i \in 1..length : up[length - i] = n
    BY <1>4, <1>10
  <2>2. length - i \in Nat
    BY <1>9
  <2> QED BY <2>1, <2>2
<1>11. ASSUME NEW k \in Nat, up[k] = n PROVE n \in Range(AncestorChain(m))
  <2>1. k < length
    <3> SUFFICES ASSUME ~(k < length) PROVE FALSE
      OBVIOUS
    <3>1. k = length \/ length < k
      BY <1>9
    <3> QED BY <1>1, <1>2, <1>8, <1>9, <1>11, <3>1
  <2>2. length - k \in 1..length /\ length - (length - k) = k
    BY <1>9, <2>1
  <2> QED BY <1>4, <1>11, <2>2
<1> QED BY <1>10, <1>11 DEF up

\* The drill-down and roll-up queries agree in every reachable network.
LEMMA TreeNests ==
  ASSUME TreeInv
  PROVE  SubtreesNest
<1> SUFFICES ASSUME NEW n \in DOMAIN nodes, NEW m \in DOMAIN nodes
             PROVE  /\ Cardinality({k \in 0..Len(nodes) : m \in Generation(n)[k]}) <= 1
                    /\ m \in Descendants(n) <=> n \in Range(AncestorChain(m))
  BY DEF SubtreesNest
<1> DEFINE rounds == {k \in 0..Len(nodes) : m \in Generation(n)[k]}
<1>1. \A j, k \in rounds : j = k
  <2>1. \A k \in rounds : k \in Nat /\ Upward(m)[k] = n
    BY RoundIsDistance
  <2> QED BY <2>1, MetOnce
<1>2. Cardinality(rounds) <= 1
  <2> HIDE DEF rounds
  <2>1. CASE rounds = {}
    BY <2>1, FS_EmptySet
  <2>2. CASE rounds # {}
    <3>1. PICK k \in rounds : TRUE
      BY <2>2
    <3>2. rounds = {k}
      BY <1>1, <3>1
    <3>3. Cardinality({k}) = 1
      BY FS_Singleton
    <3> QED BY <3>2, <3>3
  <2> QED BY <2>1, <2>2
<1>3. m \in Descendants(n) <=> n \in Range(AncestorChain(m))
  BY DescendantsClimb, ChainClimbs
<1> QED BY <1>2, <1>3

(***************************************************************************)
(* Totals.                                                                 *)
(***************************************************************************)

\* The subtree of n is n and the subtrees of its children, no two of which
\* share a node.
LEMMA SubtreeSplits ==
  ASSUME TreeInv, NEW n \in DOMAIN nodes
  PROVE  /\ Descendants(n) = {n} \cup UNION {Descendants(x) : x \in Children(n)}
         /\ \A x \in Children(n) : n \notin Descendants(x)
         /\ \A x, y \in Children(n) : x # y => Descendants(x) \cap Descendants(y) = {}
<1>0. TypeOK /\ n # NoNode
  BY Rows DEF TreeInv, NoNode
<1>1. Children(n) \subseteq DOMAIN nodes /\ \A x \in Children(n) : nodes[x].parent = n /\ x # NoNode
  BY <1>0, Rows DEF Children, NoNode
<1>2. \A x \in DOMAIN nodes :
        /\ Descendants(x) \subseteq DOMAIN nodes
        /\ \A m \in DOMAIN nodes : m \in Descendants(x) <=> \E k \in Nat : Upward(m)[k] = x
  BY DescendantsClimb
<1>3. \A m \in DOMAIN nodes : Upward(m)[0] = m
  BY <1>0, UpwardRule
\* The next node up from a child of n is n.
<1>4. \A m \in DOMAIN nodes, x \in Children(n), k \in Nat : Upward(m)[k] = x => Upward(m)[k + 1] = n
  BY <1>0, <1>1, UpwardRule
<1>5. \A m \in DOMAIN nodes : m \in Descendants(n) <=>
        m = n \/ \E x \in Children(n) : m \in Descendants(x)
  <2> TAKE m \in DOMAIN nodes
  <2>1. ASSUME m \in Descendants(n), m # n PROVE \E x \in Children(n) : m \in Descendants(x)
    <3>1. PICK k \in Nat : Upward(m)[k] = n
      BY <1>2, <2>1
    <3>2. k # 0
      BY <1>3, <2>1, <3>1
    <3>3. k - 1 \in Nat /\ (k - 1) + 1 = k
      BY <3>2
    <3> DEFINE x == Upward(m)[k - 1]
    <3>4. Upward(m)[k] = IF x = NoNode THEN NoNode ELSE nodes[x].parent
      BY <1>0, <3>3, UpwardRule
    <3>5. x # NoNode /\ nodes[x].parent = n
      BY <1>0, <3>1, <3>4
    <3>6. x \in DOMAIN nodes
      BY <1>0, <3>3, <3>5, UpwardRule
    <3>7. x \in Children(n)
      BY <3>5, <3>6 DEF Children
    <3>8. m \in Descendants(x)
      BY <1>2, <3>3, <3>6
    <3> QED BY <3>7, <3>8
  <2>2. ASSUME NEW x \in Children(n), m \in Descendants(x) PROVE m \in Descendants(n)
    <3>1. PICK k \in Nat : Upward(m)[k] = x
      BY <1>1, <1>2, <2>2
    <3>2. Upward(m)[k + 1] = n
      BY <1>4, <3>1
    <3> QED BY <1>2, <3>2
  <2>3. n \in Descendants(n)
    BY <1>2, <1>3
  <2> QED BY <2>1, <2>2, <2>3
<1>6. Descendants(n) = {n} \cup UNION {Descendants(x) : x \in Children(n)}
  BY <1>1, <1>2, <1>5
<1>7. ASSUME NEW x \in Children(n), n \in Descendants(x) PROVE FALSE
  <2>1. PICK k \in Nat : Upward(n)[k] = x
    BY <1>1, <1>2, <1>7
  <2>2. Upward(n)[k + 1] = n
    BY <1>4, <2>1
  <2>3. k + 1 = 0
    BY <1>3, <2>2, MetOnce
  <2> QED BY <2>3
<1>8. ASSUME NEW x \in Children(n), NEW y \in Children(n), NEW m \in Descendants(x) \cap Descendants(y)
      PROVE  x = y
  <2>0. m \in DOMAIN nodes
    BY <1>1, <1>2
  <2>1. PICK j \in Nat : Upward(m)[j] = x
    BY <1>1, <1>2, <2>0
  <2>2. PICK k \in Nat : Upward(m)[k] = y
    BY <1>1, <1>2, <2>0
  <2>3. Upward(m)[j + 1] = n /\ Upward(m)[k + 1] = n
    BY <1>4, <2>0, <2>1, <2>2
  <2>4. j + 1 = k + 1
    BY <2>0, <2>3, MetOnce
  <2>5. j = k
    BY <2>4
  <2> QED BY <2>1, <2>2, <2>5
<1> QED BY <1>6, <1>7, <1>8

\* Totals add up at every node of every reachable network.
LEMMA TreeAdds ==
  ASSUME TreeInv
  PROVE  AggregateAdditive
<1> SUFFICES ASSUME NEW n \in DOMAIN nodes, NEW conf \in Confidence
             PROVE  AggregateConsumption(n, conf) =
                      SumFunctionOnSet(Kw, {c \in ConnectionsOf(n) : assoc[c].confidence >= conf})
                      + SumFunctionOnSet([m \in Children(n) |-> AggregateConsumption(m, conf)],
                                         Children(n))
  BY DEF AggregateAdditive
<1> DEFINE kids == Children(n)
           own == {c \in ConnectionsOf(n) : assoc[c].confidence >= conf}
           part == [m \in kids |-> ResolveConnections(m, conf)]
           sums == [m \in kids |-> AggregateConsumption(m, conf)]
           below == UNION {part[m] : m \in kids}
<1>0. TypeOK
  BY DEF TreeInv
<1>1. IsFiniteSet(Conn) /\ \A c \in Conn : Kw[c] \in Int
  BY HierarchyAssumption
<1>2. IsFiniteSet(kids)
  <2>1. Len(nodes) \in Nat /\ DOMAIN nodes = 1..Len(nodes)
    BY <1>0, Rows
  <2>2. IsFiniteSet(1..Len(nodes))
    BY <2>1, FS_Interval
  <2> QED BY <2>1, <2>2, FS_Subset DEF Children
<1>3. own \in SUBSET Conn /\ \A m \in kids : part[m] \in SUBSET Conn
  BY DEF ResolveConnections, ConnectionsOf
<1>4. \A m, k \in kids : m # k => part[m] \cap part[k] = {}
  BY SubtreeSplits DEF ResolveConnections
<1>5. own \cap below = {}
  BY SubtreeSplits DEF ResolveConnections, ConnectionsOf
<1>6. ResolveConnections(n, conf) = own \cup below
  <2>1. Descendants(n) = {n} \cup UNION {Descendants(x) : x \in kids}
    BY SubtreeSplits
  <2> QED BY <2>1 DEF ResolveConnections, ConnectionsOf
<1>7. \A m \in kids : sums[m] = SumFunctionOnSet(Kw, part[m])
  BY DEF AggregateConsumption
<1>8. below \in SUBSET Conn
  BY <1>3
<1> HIDE DEF kids, own, part, sums, below
<1>9. SumFunctionOnSet(sums, kids) = SumFunctionOnSet(Kw, below)
  <2>1. SumFunctionOnSet(sums, kids) = SumFunctionOnSet(Kw, UNION {part[m] : m \in kids})
    BY <1>1, <1>2, <1>3, <1>4, <1>7, SumOfParts
  <2> QED BY <2>1 DEF below
<1>10. SumFunctionOnSet(Kw, own \cup below) = SumFunctionOnSet(Kw, own) + SumFunctionOnSet(Kw, below)
  <2>1. IsFiniteSet(own) /\ IsFiniteSet(below)
    BY <1>1, <1>3, <1>8, FS_Subset
  <2>2. \A c \in own \cup below : Kw[c] \in Int
    BY <1>1, <1>3, <1>8
  <2> QED BY <1>5, <2>1, <2>2, SumOfUnion
<1>11. AggregateConsumption(n, conf) = SumFunctionOnSet(Kw, own) + SumFunctionOnSet(sums, kids)
  BY <1>6, <1>9, <1>10 DEF AggregateConsumption
<1> QED BY <1>11 DEF own, sums, kids

\* What hangs from a transformer of a subtree is what hangs in the subtree,
\* when nothing hangs from anything but transformers.
LEMMA TreeReaches ==
  ASSUME TreeInv
  PROVE  QueuesReachEveryConnection
<1> SUFFICES ASSUME \A c \in Conn : assoc[c].node # NoNode =>
                                     nodes[assoc[c].node].type = Transformer,
                    NEW n \in DOMAIN nodes
             PROVE  ResolveConnections(n, 0) = UNION {ConnectionsOf(t) : t \in TransformersUnder(n)}
  BY DEF QueuesReachEveryConnection
<1>1. Descendants(n) \subseteq DOMAIN nodes /\ NoNode \notin DOMAIN nodes
  BY DescendantsClimb, Rows DEF TreeInv, NoNode
<1>2. \A c \in Conn : assoc[c].confidence >= 0
  BY HierarchyAssumption DEF TreeInv, TypeOK, Confidence
<1> QED BY <1>1, <1>2 DEF ResolveConnections, ConnectionsOf, TransformersUnder

\* Drill-down and roll-up always agree, and the recursive query never lists a
\* node twice, although nothing removes duplicates.
THEOREM SubtreesAlwaysNest == Spec => []SubtreesNest
BY TreeInvariance, TreeNests, PTL

\* The total of a node is always what hangs from it and the totals of its
\* children, at every confidence asked for.
THEOREM AggregateAlwaysAdditive == Spec => []AggregateAdditive
BY TreeInvariance, TreeAdds, PTL

\* Per-transformer reports reach what the subtree's total counts, as long as
\* callers hang connections from transformers.
THEOREM QueuesAlwaysReach == Spec => []QueuesReachEveryConnection
BY TreeInvariance, TreeReaches, PTL

(***************************************************************************)
(* A report over the changing hierarchy.                                   *)
(***************************************************************************)

\* The transformers a request lists are nodes of the network.
LEMMA ScopeIsNodes ==
  ASSUME TypeOK, NEW root
  PROVE  TransformersUnder(root) \subseteq NodeId
BY HierarchyAssumption DEF TypeOK, TransformersUnder, NodeId

\* A report has not begun: nothing is counted and nothing has moved.
LEMMA ReportStart == ReportInit => ReportInv
<1> SUFFICES ASSUME ReportInit PROVE ReportInv
  OBVIOUS
<1>1. ReportTypeOK
  BY HierarchyAssumption, ReportAssumption
  DEF ReportInit, Init, ReportTypeOK, TypeOK, NoOrphans, Confidence, NodeId, NoNode
<1>2. StagesAgree
  BY DEF ReportInit, StagesAgree
<1>3. WithinBudget
  BY DEF ReportInit, WithinBudget, Expected
<1>4. UnmovedSettled
  BY DEF ReportInit, UnmovedSettled
<1> QED BY <1>1, <1>2, <1>3, <1>4 DEF ReportInv

LEMMA BeginStep ==
  ASSUME ReportInv, NEW root, Begin(root)
  PROVE  ReportInv'
<1> USE DEF ReportInv
<1>1. ReportTypeOK'
  BY ScopeIsNodes DEF Begin, ReportTypeOK, TypeOK, NoOrphans
<1>2. StagesAgree'
  BY DEF Begin, StagesAgree
<1>3. \A c \in Conn : /\ counted[c] = 0 /\ moved[c] = 0 /\ c \notin doing
                      /\ counted' = counted /\ moved' = moved /\ doing' = doing
                      /\ assoc' = assoc
  BY DEF Begin, StagesAgree
<1>4. \A c \in Conn : Expected(c)' = IF assoc[c].node \in todo' THEN 1 ELSE 0
  BY <1>3 DEF Expected
<1>5. WithinBudget'
  BY <1>3, <1>4 DEF WithinBudget
<1>6. UnmovedSettled'
  BY <1>3, <1>4 DEF UnmovedSettled, Begin
<1> QED BY <1>1, <1>2, <1>5, <1>6

\* The bit of every connection of t passes from todo to doing.
LEMMA ResolveStep ==
  ASSUME ReportInv, NEW t, ResolveTransformer(t)
  PROVE  ReportInv'
<1> USE DEF ReportInv
<1>1. ReportTypeOK'
  BY DEF ResolveTransformer, ReportTypeOK, TypeOK, NoOrphans, ConnectionsOf
<1>2. StagesAgree'
  BY DEF ResolveTransformer, StagesAgree
<1>3. \A c \in Conn : Expected(c)' = Expected(c)
  BY DEF ResolveTransformer, Expected, ConnectionsOf, ReportTypeOK
<1>4. WithinBudget'
  BY <1>3 DEF WithinBudget, ResolveTransformer
<1>5. UnmovedSettled'
  BY <1>3 DEF UnmovedSettled, ResolveTransformer
<1> QED BY <1>1, <1>2, <1>4, <1>5

\* The entry being made becomes an entry made.
LEMMA ReconstructStep ==
  ASSUME ReportInv, NEW d \in Conn, Reconstruct(d)
  PROVE  ReportInv'
<1> USE DEF ReportInv
<1>0. stage = "reading"
  BY DEF Reconstruct, StagesAgree
<1>1. ReportTypeOK'
  BY DEF Reconstruct, ReportTypeOK, TypeOK, NoOrphans
<1>2. StagesAgree'
  BY <1>0 DEF Reconstruct, StagesAgree
<1>3. \A c \in Conn : Expected(c)' = Expected(c)
  BY DEF Reconstruct, Expected, ReportTypeOK
<1>4. WithinBudget'
  BY <1>3 DEF WithinBudget, Reconstruct
<1>5. UnmovedSettled'
  <2> SUFFICES ASSUME NEW c \in Conn, moved[c] = 0
               PROVE  /\ Expected(c)' = IF assoc[c].node \in scope THEN 1 ELSE 0
                      /\ counted'[c] = 1 => windows'[c] = assoc[c].node
    BY DEF UnmovedSettled, Reconstruct
  <2>1. Expected(c)' = IF assoc[c].node \in scope THEN 1 ELSE 0
    BY <1>0, <1>3 DEF UnmovedSettled
  <2>2. counted'[c] = 1 => windows'[c] = assoc[c].node
    BY <1>0 DEF UnmovedSettled, Reconstruct, ReportTypeOK
  <2> QED BY <2>1, <2>2
<1> QED BY <1>1, <1>2, <1>4, <1>5

LEMMA AnswerStep ==
  ASSUME ReportInv, Answer
  PROVE  ReportInv'
<1> USE DEF ReportInv
<1>1. ReportTypeOK'
  BY DEF Answer, ReportTypeOK, TypeOK, NoOrphans
<1>2. StagesAgree'
  BY DEF Answer, StagesAgree
<1>3. \A c \in Conn : Expected(c)' = Expected(c)
  BY DEF Answer, Expected
<1>4. WithinBudget'
  BY <1>3 DEF WithinBudget, Answer
<1>5. UnmovedSettled'
  BY <1>3 DEF UnmovedSettled, Answer
<1> QED BY <1>1, <1>2, <1>4, <1>5

\* A node added during the report is not in its scope.
LEMMA GrowStep ==
  ASSUME ReportInv, NEW type \in NodeType, NEW parent \in 0..MaxNodes, Grow(type, parent)
  PROVE  ReportInv'
<1> USE DEF ReportInv
<1>1. TypeOK'
  BY AddNodeType DEF Grow, ReportTypeOK
<1>2. assoc' = assoc
  BY DEF Grow, AddNode
<1>3. ReportTypeOK'
  BY <1>1 DEF Grow, ReportTypeOK
<1>4. StagesAgree' /\ WithinBudget' /\ UnmovedSettled'
  BY <1>2 DEF Grow, StagesAgree, WithinBudget, UnmovedSettled, Expected
<1> QED BY <1>3, <1>4

\* A correction can bring one more entry, and pays for it.
LEMMA CorrectStep ==
  ASSUME ReportInv, NEW d \in Conn, NEW n \in NodeId, NEW confidence \in Confidence,
         Correct(d, n, confidence)
  PROVE  ReportInv'
<1> USE DEF ReportInv
<1>1. ReportTypeOK'
  <2>1. assoc' \in [Conn -> [node : 0..MaxNodes, confidence : Confidence]]
    BY HierarchyAssumption DEF Correct, SetAssociation, ReportTypeOK, TypeOK, NoOrphans, NodeId
  <2>2. moved' \in [Conn -> 0..MaxMoves]
    BY ReportAssumption DEF Correct, ReportTypeOK
  <2> QED BY <2>1, <2>2 DEF Correct, SetAssociation, ReportTypeOK, TypeOK, NoOrphans
<1>2. StagesAgree'
  BY DEF Correct, StagesAgree
<1>3. \A c \in Conn \ {d} : Expected(c)' = Expected(c) /\ moved'[c] = moved[c]
                            /\ assoc'[c] = assoc[c]
  BY DEF Correct, SetAssociation, Expected, ReportTypeOK, TypeOK, NoOrphans
<1>4. CASE stage = "idle"
  <2>1. \A c \in Conn : Expected(c)' = 0 /\ moved'[c] = 0
    BY <1>4 DEF Correct, Expected, StagesAgree
  <2>2. WithinBudget'
    BY <2>1 DEF WithinBudget
  <2>3. UnmovedSettled'
    BY <1>4 DEF UnmovedSettled, Correct
  <2> QED BY <1>1, <1>2, <2>2, <2>3
<1>5. CASE stage # "idle"
  <2>1. moved'[d] = moved[d] + 1
    BY <1>5 DEF Correct, ReportTypeOK
  <2>2. Expected(d)' <= Expected(d) + 1
    BY DEF Correct, Expected, ReportTypeOK
  <2>3. Expected(d) \in Nat /\ Expected(d)' \in Nat /\ moved[d] \in Nat
    BY ReportAssumption DEF Expected, ReportTypeOK, Correct
  <2>4. WithinBudget'
    BY <1>3, <2>1, <2>2, <2>3 DEF WithinBudget
  <2>5. UnmovedSettled'
    BY <1>3, <1>5, <2>1, <2>3 DEF UnmovedSettled, Correct
  <2> QED BY <1>1, <1>2, <2>4, <2>5
<1> QED BY <1>4, <1>5

\* A report only reads: what always holds of the hierarchy holds while reports
\* are made of it.
THEOREM ReportsOnlyRead == ReportSpec => Spec
<1>1. ReportInit => Init
  BY DEF ReportInit
<1>2. [ReportNext]_reportVars => [Next]_hierarchyVars
  BY DEF ReportNext, Begin, ResolveTransformer, Reconstruct, Answer, Grow, Correct, Next,
         reportVars, hierarchyVars
<1> QED BY <1>1, <1>2, PTL DEF ReportSpec, Spec

\* The strengthening holds in every reachable state.
THEOREM ReportInvariance == ReportSpec => []ReportInv
<1>1. ReportInit => ReportInv
  BY ReportStart
<1>2. ReportInv /\ [ReportNext]_reportVars => ReportInv'
  <2> SUFFICES ASSUME ReportInv, [ReportNext]_reportVars PROVE ReportInv'
    OBVIOUS
  <2>1. ASSUME NEW n \in NodeId, Begin(n) \/ ResolveTransformer(n) PROVE ReportInv'
    BY <2>1, BeginStep, ResolveStep
  <2>2. ASSUME NEW c \in Conn, Reconstruct(c) PROVE ReportInv'
    BY <2>2, ReconstructStep
  <2>3. ASSUME Answer PROVE ReportInv'
    BY <2>3, AnswerStep
  <2>4. ASSUME NEW type \in NodeType, NEW parent \in 0..MaxNodes, Grow(type, parent)
        PROVE  ReportInv'
    BY <2>4, GrowStep
  <2>5. ASSUME NEW c \in Conn, NEW n \in NodeId, NEW confidence \in Confidence,
               Correct(c, n, confidence)
        PROVE  ReportInv'
    BY <2>5, CorrectStep
  <2>6. CASE UNCHANGED reportVars
    BY <2>6 DEF ReportInv, ReportTypeOK, TypeOK, NoOrphans, StagesAgree, WithinBudget, UnmovedSettled,
                Expected, reportVars
  <2> QED BY <2>1, <2>2, <2>3, <2>4, <2>5, <2>6 DEF ReportNext
<1> QED BY <1>1, <1>2, PTL DEF ReportSpec

\* Once the report has answered nothing is pending, so what is expected of a
\* connection nobody moved is what the report says of it.
THEOREM UnmovedAlwaysReportedOnce == ReportSpec => []UnmovedReportedOnce
<1>1. ReportInv => UnmovedReportedOnce
  BY DEF ReportInv, ReportTypeOK, StagesAgree, UnmovedSettled, Expected, UnmovedReportedOnce
<1> QED BY <1>1, ReportInvariance, PTL

\* Corrections bound the repeats of a connection in one report.
THEOREM RepeatsAlwaysBounded == ReportSpec => []RepeatsBoundedByMoves
<1>1. ReportInv => RepeatsBoundedByMoves
  <2> SUFFICES ASSUME ReportInv, NEW c \in Conn PROVE counted[c] <= moved[c] + 1
    BY DEF RepeatsBoundedByMoves
  <2>1. counted[c] \in Nat /\ moved[c] \in Nat
    BY ReportAssumption DEF ReportInv, ReportTypeOK
  <2>2. counted[c] <= Expected(c)
    BY <2>1 DEF Expected
  <2>3. Expected(c) \in Nat
    BY <2>1 DEF Expected
  <2> QED BY <2>1, <2>2, <2>3 DEF ReportInv, WithinBudget
<1> QED BY <1>1, ReportInvariance, PTL
=============================================================================
