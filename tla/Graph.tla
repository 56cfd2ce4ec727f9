-------------------------------- MODULE Graph --------------------------------
(***************************************************************************)
(* graph::Graph, Node and NodeList (src/tiger/util/graph.h), used by a     *)
(* client that keeps lists of its own.                                     *)
(*                                                                         *)
(* Node is the set of the addresses a node may have: destroying a graph    *)
(* frees those of its nodes, and NewNode takes any that is free.  A list   *)
(* is the sequence of its nodes.  The client changes its own lists only,   *)
(* but any list may be an operand, and it may keep in its lists the nodes  *)
(* of a graph destroyed, which no operation on lists reads through.        *)
(* The asserts are guards: the client passes nodes of the graph at hand.   *)
(*                                                                         *)
(* A definition whose comment begins with "Slip" is a variant of the one   *)
(* after it, with a mistake in it.                                         *)
(***************************************************************************)
EXTENDS Integers, Sequences, SequencesExt, FiniteSets

CONSTANTS
  Graphs,      \* the addresses of graphs
  Nodes,       \* the addresses of nodes
  List,        \* the client's lists
  Null,        \* the null pointer
  MaxLength,   \* bound: the length of a client's list
  MaxEdges     \* bound: the edges there are at a time

ASSUME NullAssumption == Null \notin Graphs
ASSUME BoundsAssumption == MaxLength \in Nat /\ MaxEdges \in Nat

VARIABLES
  nodecount_,   \* of the graphs there are
  my_nodes_,
  my_graph_,    \* of each node; null for a free address
  my_key_,
  succs_,
  preds_,
  node_list_,   \* the client's lists
  asked         \* history: the edges AddEdge was asked for, of the graphs there are

graphVars == <<nodecount_, my_nodes_, my_graph_, my_key_, succs_, preds_, asked>>
allVars == <<graphVars, node_list_>>

live == {n \in Nodes : my_graph_[n] # Null}
graphs == DOMAIN my_nodes_

GraphInit ==
  /\ nodecount_ = [g \in {} |-> 0]
  /\ my_nodes_ = [g \in {} |-> <<>>]
  /\ my_graph_ = [n \in Nodes |-> Null]
  /\ my_key_ = [n \in Nodes |-> 0]
  /\ succs_ = [n \in Nodes |-> <<>>]
  /\ preds_ = [n \in Nodes |-> <<>>]
  /\ node_list_ = [l \in List |-> <<>>]
  /\ asked = {}

-----------------------------------------------------------------------------
(* Operations that change no state *)

\* NodeList::Contain
Contain(list, n) == \E p \in DOMAIN list : list[p] = n

\* Node::GoesTo and Node::Adj(n)
GoesTo(n, m) == Contain(succs_[n], m)
AdjTo(n, m) == Contain(succs_[n], m) \/ Contain(preds_[n], m)

InDegree(n) == Len(preds_[n])
OutDegree(n) == Len(succs_[n])
Degree(n) == InDegree(n) + OutDegree(n)

\* NodeList::CatList, the list it leaves
CatList(a, b) == a \o b

\* Node::Adj()
Adj(n) == CatList(succs_[n], preds_[n])

\* The elements of a list at the places K, in their order.
Keeping(s, K) ==
  [i \in 1..Cardinality(K) |-> s[CHOOSE p \in K : Cardinality({q \in K : q <= p}) = i]]

\* Slip: both of two equal neighbours go.
UniqueDropsBoth(s) ==
  Keeping(s, {p \in DOMAIN s : (p = 1 \/ s[p - 1] # s[p]) /\ (p = Len(s) \/ s[p + 1] # s[p])})

\* list::unique drops an element equal to the one before it, and no other.
Unique(s) == Keeping(s, {p \in DOMAIN s : p = 1 \/ s[p - 1] # s[p]})

Union(a, b) == Unique(CatList(a, b))

Diff(a, b) == Keeping(a, {p \in DOMAIN a : ~Contain(b, a[p])})

-----------------------------------------------------------------------------
(* Operations on graphs *)

edgeCount == Cardinality({e \in live \X live : GoesTo(e[1], e[2])})

NewGraph(g) ==
  /\ g \notin graphs
  /\ nodecount_' = [h \in graphs \union {g} |-> IF h = g THEN 0 ELSE nodecount_[h]]
  /\ my_nodes_' = [h \in graphs \union {g} |-> IF h = g THEN <<>> ELSE my_nodes_[h]]
  /\ UNCHANGED <<my_graph_, my_key_, succs_, preds_, node_list_, asked>>

\* Slip: the count of another graph is used.
NewNodeSharedCount(g, n) ==
  /\ g \in graphs /\ my_graph_[n] = Null
  /\ my_graph_' = [my_graph_ EXCEPT ![n] = g]
  /\ my_key_' = [my_key_ EXCEPT ![n] = Cardinality(live)]
  /\ nodecount_' = [nodecount_ EXCEPT ![g] = @ + 1]
  /\ my_nodes_' = [my_nodes_ EXCEPT ![g] = Append(@, n)]
  /\ succs_' = [succs_ EXCEPT ![n] = <<>>]
  /\ preds_' = [preds_ EXCEPT ![n] = <<>>]
  /\ UNCHANGED <<node_list_, asked>>

NewNode(g, n) ==
  /\ g \in graphs /\ my_graph_[n] = Null
  /\ my_graph_' = [my_graph_ EXCEPT ![n] = g]
  /\ my_key_' = [my_key_ EXCEPT ![n] = nodecount_[g]]
  /\ nodecount_' = [nodecount_ EXCEPT ![g] = @ + 1]
  /\ my_nodes_' = [my_nodes_ EXCEPT ![g] = Append(@, n)]
  /\ succs_' = [succs_ EXCEPT ![n] = <<>>]
  /\ preds_' = [preds_ EXCEPT ![n] = <<>>]
  /\ UNCHANGED <<node_list_, asked>>

\* Slip: the second assert is of from again.
AddEdgeAcross(g, from, to) ==
  /\ g \in graphs /\ my_graph_[from] = g /\ to \in live
  /\ IF GoesTo(from, to) THEN UNCHANGED <<preds_, succs_>>
     ELSE /\ edgeCount < MaxEdges
          /\ preds_' = [preds_ EXCEPT ![to] = Append(@, from)]
          /\ succs_' = [succs_ EXCEPT ![from] = Append(@, to)]
  /\ asked' = asked \union {<<from, to>>}
  /\ UNCHANGED <<nodecount_, my_nodes_, my_graph_, my_key_, node_list_>>

\* Slip: Adj is asked, and an edge is not added when there is one the other way.
AddEdgeOneWay(g, from, to) ==
  /\ g \in graphs /\ my_graph_[from] = g /\ my_graph_[to] = g
  /\ IF AdjTo(from, to) THEN UNCHANGED <<preds_, succs_>>
     ELSE /\ edgeCount < MaxEdges
          /\ preds_' = [preds_ EXCEPT ![to] = Append(@, from)]
          /\ succs_' = [succs_ EXCEPT ![from] = Append(@, to)]
  /\ asked' = asked \union {<<from, to>>}
  /\ UNCHANGED <<nodecount_, my_nodes_, my_graph_, my_key_, node_list_>>

AddEdge(g, from, to) ==
  /\ g \in graphs /\ my_graph_[from] = g /\ my_graph_[to] = g
  /\ IF GoesTo(from, to) THEN UNCHANGED <<preds_, succs_>>
     ELSE /\ edgeCount < MaxEdges
          /\ preds_' = [preds_ EXCEPT ![to] = Append(@, from)]
          /\ succs_' = [succs_ EXCEPT ![from] = Append(@, to)]
  /\ asked' = asked \union {<<from, to>>}
  /\ UNCHANGED <<nodecount_, my_nodes_, my_graph_, my_key_, node_list_>>

\* Slip: the nodes are not deleted.
DeleteGraphLeaks(g) ==
  /\ g \in graphs
  /\ nodecount_' = [h \in graphs \ {g} |-> nodecount_[h]]
  /\ my_nodes_' = [h \in graphs \ {g} |-> my_nodes_[h]]
  /\ UNCHANGED <<my_graph_, my_key_, succs_, preds_, node_list_, asked>>

\* ~Graph deletes the nodes, ~Node their lists.
DeleteGraph(g) ==
  /\ g \in graphs
  /\ LET gone == {n \in Nodes : Contain(my_nodes_[g], n)}
     IN  /\ my_graph_' = [n \in Nodes |-> IF n \in gone THEN Null ELSE my_graph_[n]]
         /\ succs_' = [n \in Nodes |-> IF n \in gone THEN <<>> ELSE succs_[n]]
         /\ preds_' = [n \in Nodes |-> IF n \in gone THEN <<>> ELSE preds_[n]]
         /\ my_key_' = [n \in Nodes |-> IF n \in gone THEN 0 ELSE my_key_[n]]
         /\ asked' = {e \in asked : e[1] \notin gone}
  /\ nodecount_' = [h \in graphs \ {g} |-> nodecount_[h]]
  /\ my_nodes_' = [h \in graphs \ {g} |-> my_nodes_[h]]
  /\ UNCHANGED node_list_

-----------------------------------------------------------------------------
(* The client's lists *)

\* What a list operation may be given: any list there is, and what Adj returns.
Operands ==
  {node_list_[l] : l \in List} \union {my_nodes_[g] : g \in graphs}
    \union UNION {{succs_[n], preds_[n], Adj(n)} : n \in live}

Becomes(l, list) ==
  /\ Len(list) <= MaxLength
  /\ node_list_' = [node_list_ EXCEPT ![l] = list]
  /\ UNCHANGED graphVars

Clear(l) == Becomes(l, <<>>)
InsertNode(l, n) == n \in live /\ Becomes(l, <<n>> \o node_list_[l])
AppendNode(l, n) == n \in live /\ Becomes(l, Append(node_list_[l], n))
DeleteNode(l, n) == Becomes(l, RemoveFirst(node_list_[l], n))
CatListInto(l) == \E b \in Operands : Becomes(l, CatList(node_list_[l], b))
UnionInto(l) == \E a, b \in Operands : Becomes(l, Union(a, b))
DiffInto(l) == \E a, b \in Operands : Becomes(l, Diff(a, b))

ListNext ==
  \E l \in List :
    \/ Clear(l)
    \/ \E n \in Nodes : InsertNode(l, n) \/ AppendNode(l, n) \/ DeleteNode(l, n)
    \/ CatListInto(l) \/ UnionInto(l) \/ DiffInto(l)

-----------------------------------------------------------------------------

GraphNext ==
  \/ \E g \in Graphs :
       \/ NewGraph(g) \/ DeleteGraph(g)
       \/ \E n \in Nodes : NewNode(g, n)
       \/ \E from, to \in Nodes : AddEdge(g, from, to)
  \/ ListNext

GraphSpec == GraphInit /\ [][GraphNext]_allVars

-----------------------------------------------------------------------------
(* Properties *)

GraphPartTypeOK ==
  /\ graphs \subseteq Graphs
  /\ my_nodes_ \in [graphs -> Seq(Nodes)]
  /\ nodecount_ \in [graphs -> Nat]
  /\ my_graph_ \in [Nodes -> graphs \union {Null}]
  /\ my_key_ \in [Nodes -> Nat]
  /\ succs_ \in [Nodes -> Seq(Nodes)]
  /\ preds_ \in [Nodes -> Seq(Nodes)]
  /\ asked \subseteq Nodes \X Nodes

\* Every variable has its type.
GraphTypeOK == GraphPartTypeOK /\ node_list_ \in [List -> Seq(Nodes)]

NoRepeats(list) == \A p, q \in DOMAIN list : list[p] = list[q] => p = q

\* The key of a node is its place in the list of its graph, and the only place it has
\* in the list of any graph: the keys of a graph are 0, 1, ... and none is used twice,
\* whatever other graphs are made and destroyed meanwhile.
KeysNumber ==
  /\ \A g \in graphs :
       /\ nodecount_[g] = Len(my_nodes_[g])
       /\ \A p \in DOMAIN my_nodes_[g] :
            my_graph_[my_nodes_[g][p]] = g /\ my_key_[my_nodes_[g][p]] = p - 1
  /\ \A n \in live : my_graph_[n] \in graphs /\ Contain(my_nodes_[my_graph_[n]], n)

\* m is a successor of n exactly when n is a predecessor of m, once; an edge joins
\* nodes of one graph, so that no list of a node of another graph is left pointing at
\* nodes when a graph is destroyed.
EdgesMirror ==
  /\ \A n, m \in Nodes : Contain(succs_[n], m) <=> Contain(preds_[m], n)
  /\ \A n \in Nodes : NoRepeats(succs_[n]) /\ NoRepeats(preds_[n])
  /\ \A n, m \in Nodes : GoesTo(n, m) => n \in live /\ my_graph_[n] = my_graph_[m]

Edges == {e \in Nodes \X Nodes : GoesTo(e[1], e[2])}
D == INSTANCE Digraph WITH nodes <- my_nodes_, edges <- Edges, Graph <- Graphs, Node <- Nodes

DigraphStep ==
  \/ \E g \in Graphs :
       \/ NewGraph(g) /\ D!Make(g)
       \/ DeleteGraph(g) /\ D!Destroy(g)
       \/ \E n \in Nodes : NewNode(g, n) /\ D!Grow(g, n)
       \/ \E from, to \in Nodes : AddEdge(g, from, to) /\ D!Join(g, from, to)
  \/ ListNext /\ UNCHANGED <<my_nodes_, Edges>>

\* The graphs are disjoint sets of nodes with a set of edges each, operation by
\* operation: AddEdge adds the edge it is given and no other, also when an edge the
\* other way or from a node to itself is there, and destroying a graph takes away its
\* edges and no other graph's.
ImplementsDigraph == D!Spec /\ [][DigraphStep]_allVars

\* Whatever lists the graphs and the client have come to hold, with repeats or not,
\* Union and Diff have the members of the union and of the difference, Union of lists
\* without a common node repeats none that they do not, and a list without repeats is
\* rid of a node by one DeleteNode.
ListsAsSets ==
  \A a, b \in Operands :
    /\ ToSet(Union(a, b)) = ToSet(a) \union ToSet(b)
    /\ ToSet(Diff(a, b)) = ToSet(a) \ ToSet(b)
    /\ ToSet(a) \intersect ToSet(b) = {} /\ NoRepeats(a) /\ NoRepeats(b) =>
         NoRepeats(Union(a, b))
    /\ NoRepeats(a) => \A n \in ToSet(a) : ~Contain(RemoveFirst(a, n), n)

\* "Set operation on two lists" (graph.h:109), said of Union: from lists without
\* repeats it makes a list without repeats.
UnionIsSet ==
  \A a, b \in Operands : NoRepeats(a) /\ NoRepeats(b) => NoRepeats(Union(a, b))
=============================================================================
