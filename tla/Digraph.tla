------------------------------- MODULE Digraph -------------------------------
(***************************************************************************)
(* What the graphs of src/tiger/util/graph.h promise: disjoint graphs,     *)
(* each a set of nodes numbered in the order they were made in and a set   *)
(* of edges between its own nodes, which only grow while it exists.        *)
(***************************************************************************)
EXTENDS Integers, Sequences

CONSTANTS
  Graph,
  Node

VARIABLES
  nodes,    \* the nodes of each graph, in the order of their keys
  edges

Init == nodes = [g \in {} |-> <<>>] /\ edges = {}

Exists(g) == g \in DOMAIN nodes
Of(g) == {nodes[g][p] : p \in DOMAIN nodes[g]}
All == UNION {Of(g) : g \in DOMAIN nodes}

Make(g) ==
  /\ g \notin DOMAIN nodes
  /\ nodes' = [h \in DOMAIN nodes \union {g} |-> IF h = g THEN <<>> ELSE nodes[h]]
  /\ UNCHANGED edges

Grow(g, n) ==
  /\ Exists(g) /\ n \notin All
  /\ nodes' = [nodes EXCEPT ![g] = Append(@, n)]
  /\ UNCHANGED edges

Join(g, from, to) ==
  /\ Exists(g) /\ {from, to} \subseteq Of(g)
  /\ edges' = edges \union {<<from, to>>}
  /\ UNCHANGED nodes

Destroy(g) ==
  /\ Exists(g)
  /\ nodes' = [h \in DOMAIN nodes \ {g} |-> nodes[h]]
  /\ edges' = {e \in edges : e[1] \notin Of(g)}

Next ==
  \E g \in Graph :
    \/ Make(g) \/ Destroy(g)
    \/ \E n \in Node : Grow(g, n)
    \/ \E from, to \in Node : Join(g, from, to)

Spec == Init /\ [][Next]_<<nodes, edges>>
=============================================================================
