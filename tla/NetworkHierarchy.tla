--------------------------- MODULE NetworkHierarchy ---------------------------
(***************************************************************************)
(* The network tree and what is read from it: add_node, which refuses a    *)
(* parent of any level but the one just above, set_association seen as one *)
(* step (Association has its statements), and the drill-down, roll-up and  *)
(* resolution queries of hierarchy.aggregate.                              *)
(*                                                                         *)
(* Node ids are named by their order of insertion, nodes[i] being the i-th *)
(* row; nothing in the code deletes a node or changes its parent.          *)
(***************************************************************************)
EXTENDS Naturals, Sequences, FiniteSets, FiniteSetsExt, Functions

CONSTANTS NodeTypeOrder,  \* the levels of the tree, root first
          Transformer,    \* the level connections are meant to hang from
          Conn,           \* connection ids
          Kw,             \* Kw[c]: ground-truth kW of c at the timestamp asked for
          MaxConfidence,  \* confidence 1.0; confidences are 0..MaxConfidence
          MaxNodes        \* bound: nodes added

NodeType   == {NodeTypeOrder[i] : i \in DOMAIN NodeTypeOrder}
Confidence == 0..MaxConfidence
NodeId     == 1..MaxNodes
NoNode     == 0            \* parent_id IS NULL; no current association

ASSUME HierarchyAssumption ==
  /\ NodeTypeOrder \in Seq(NodeType) /\ NodeTypeOrder # <<>>
  /\ IsInjective(NodeTypeOrder)
  /\ Transformer \in NodeType
  /\ MaxNodes \in Nat /\ MaxConfidence \in Nat
  /\ Kw \in [Conn -> Nat] /\ IsFiniteSet(Conn)

VARIABLES nodes,   \* the rows of network_node: [type, parent]
          assoc    \* assoc[c]: the current row of connection_association

hierarchyVars == <<nodes, assoc>>

\* find_orphans returns nothing: every parent and every associated node exists.
NoOrphans ==
  /\ \A n \in DOMAIN nodes : nodes[n].parent \in DOMAIN nodes \cup {NoNode}
  /\ \A c \in Conn : assoc[c].node \in DOMAIN nodes \cup {NoNode}

TypeOK ==
  /\ nodes \in Seq([type : NodeType, parent : 0..MaxNodes])
  /\ Len(nodes) <= MaxNodes
  /\ assoc \in [Conn -> [node : 0..MaxNodes, confidence : Confidence]]
  /\ NoOrphans

Level(t) == CHOOSE i \in DOMAIN NodeTypeOrder : NodeTypeOrder[i] = t

\* validate_parent_child: the root level has no parent, every other level a
\* parent exactly one level up.
ValidParentChild(parent, child) ==
  IF Level(child) = 1
  THEN parent = NoNode
  ELSE parent # NoNode /\ Level(nodes[parent].type) + 1 = Level(child)

AddNode(type, parent) ==
  /\ Len(nodes) < MaxNodes
  /\ parent \in DOMAIN nodes \cup {NoNode}
  /\ ValidParentChild(parent, type)
  /\ nodes' = Append(nodes, [type |-> type, parent |-> parent])
  /\ UNCHANGED assoc

\* The level of the node is not looked at.
SetAssociation(c, n, confidence) ==
  /\ n \in DOMAIN nodes
  /\ assoc' = [assoc EXCEPT ![c] = [node |-> n, confidence |-> confidence]]
  /\ UNCHANGED nodes

Init == /\ nodes = <<>>
        /\ assoc = [c \in Conn |-> [node |-> NoNode, confidence |-> 0]]

Next == \/ \E type \in NodeType, parent \in 0..MaxNodes : AddNode(type, parent)
        \/ \E c \in Conn, n \in NodeId, confidence \in Confidence :
             SetAssociation(c, n, confidence)

Spec == Init /\ [][Next]_hierarchyVars

(***************************************************************************)
(* Queries.                                                                *)
(***************************************************************************)

Children(n) == {m \in DOMAIN nodes : nodes[m].parent = n}

\* The recursive CTE: each round joins the rows of the round before with
\* their children (UNION ALL: nothing removes duplicates), until a round is
\* empty.  A round is a set because a node has one parent.
Generation(root) ==
  LET gen[k \in Nat] == IF k = 0 THEN {root} ELSE UNION {Children(n) : n \in gen[k-1]}
  IN gen

\* Mutants: the query is not recursive; the root is left out.
DescendantsOneLevel(root) == {root} \cup Children(root)
DescendantsWithoutRoot(root) == UNION {Generation(root)[k] : k \in 1..Len(nodes)}

Descendants(root) == UNION {Generation(root)[k] : k \in 0..Len(nodes)}

\* The parent pointers followed up from n, NoNode from the end on.
Upward(n) ==
  LET up[k \in Nat] == IF k = 0 THEN n
                       ELSE IF up[k-1] = NoNode THEN NoNode ELSE nodes[up[k-1]].parent
  IN up

\* ancestor_chain, root first.
AncestorChain(n) ==
  LET length == Min({k \in 0..Len(nodes) + 1 : Upward(n)[k] = NoNode})
  IN [i \in 1..length |-> Upward(n)[length - i]]

ResolveConnections(root, minConfidence) ==
  {c \in Conn : assoc[c].node \in Descendants(root) /\ assoc[c].confidence >= minConfidence}

AggregateConsumption(root, minConfidence) ==
  SumFunctionOnSet(Kw, ResolveConnections(root, minConfidence))

\* Mutant: the transformers right below the root only.
TransformersOneLevel(root) ==
  {n \in DOMAIN nodes : n \in Children(root) /\ nodes[n].type = Transformer}

TransformersUnder(root) ==
  {n \in DOMAIN nodes : n \in Descendants(root) /\ nodes[n].type = Transformer}

\* The connections the case queue, the energy balance and the thermal model
\* of transformer t look at: of those resolved beneath it (its subtree has t in
\* it) only the ones associated with t itself.
ConnectionsOf(t) == {c \in Conn : assoc[c].node = t}

(***************************************************************************)
(* Properties.                                                             *)
(***************************************************************************)

\* Drill-down and roll-up agree: m is listed beneath n exactly when n is on
\* m's path to the root, and the recursive query lists it in one round only.
SubtreesNest ==
  \A n, m \in DOMAIN nodes :
    LET rounds == {k \in 0..Len(nodes) : m \in Generation(n)[k]}
        chain == AncestorChain(m)
    IN /\ Cardinality(rounds) <= 1
       /\ m \in Descendants(n) <=> n \in Range(chain)

\* "Aggregation must work upward from any level": the total at a node is what
\* hangs from the node itself plus the totals of its children, in the
\* confirmed-only view as in the inferred one, so no correction, unplaced
\* feeder or extra level makes a connection count twice or disappear.
AggregateAdditive ==
  \A n \in DOMAIN nodes, minConfidence \in Confidence :
    AggregateConsumption(n, minConfidence) =
      SumFunctionOnSet(Kw, {c \in ConnectionsOf(n) : assoc[c].confidence >= minConfidence})
      + SumFunctionOnSet([m \in Children(n) |-> AggregateConsumption(m, minConfidence)],
                         Children(n))

\* "Connections associate directly with a TRANSFORMER, never with an LV
\* feeder": as long as callers keep to that, which set_association does not
\* check, the per-transformer reports of a subtree together reach every
\* connection that the subtree's total counts.
QueuesReachEveryConnection ==
  (\A c \in Conn : assoc[c].node # NoNode => nodes[assoc[c].node].type = Transformer) =>
    \A n \in DOMAIN nodes :
      Level(nodes[n].type) < Level(Transformer) =>
        ResolveConnections(n, 0) = UNION {ConnectionsOf(t) : t \in TransformersUnder(n)}

(***************************************************************************)
(* The inductive strengthening.  Every parent was inserted before its      *)
(* child and is one level up, so there is no cycle and the queries end.    *)
(***************************************************************************)
LevelsOrdered ==
  \A n \in DOMAIN nodes :
    LET p == nodes[n].parent IN
      IF p = NoNode THEN Level(nodes[n].type) = 1
      ELSE /\ p \in 1..(n - 1)
           /\ Level(nodes[n].type) = Level(nodes[p].type) + 1
=============================================================================
