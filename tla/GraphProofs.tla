----------------------------- MODULE GraphProofs -----------------------------
(***************************************************************************)
(* Theorems about Graph, for any sets of graphs, nodes and lists and any   *)
(* bounds.                                                                 *)
(***************************************************************************)
EXTENDS Graph, SequenceTheorems, FiniteSetTheorems, WellFoundedInduction, TLAPS

\* The inductive invariant.  The three parts need one another: a new node is at a free
\* address, whose lists are empty because an edge joins nodes that exist, and the nodes
\* a graph frees are those of its list because the keys number exactly those.
GInv == GraphPartTypeOK /\ KeysNumber /\ EdgesMirror

LEMMA InitInv == GraphInit => GInv
  BY NullAssumption DEF GraphInit, GInv, GraphPartTypeOK, KeysNumber, EdgesMirror, graphs,
     live, Contain, GoesTo, NoRepeats

\* The nodes of a graph's list are the nodes whose graph it is.
LEMMA Members ==
  ASSUME GInv, NEW g \in graphs, NEW n \in Nodes
  PROVE  Contain(my_nodes_[g], n) <=> my_graph_[n] = g
  <1>1. g # Null
    BY NullAssumption DEF GInv, GraphPartTypeOK
  <1> QED
    BY <1>1 DEF GInv, GraphPartTypeOK, KeysNumber, Contain, live

\* What appending does to a list.
LEMMA Appended ==
  ASSUME NEW S, NEW s \in Seq(S), NEW x \in S
  PROVE  /\ \A y : Contain(Append(s, x), y) <=> Contain(s, y) \/ y = x
         /\ NoRepeats(s) /\ ~Contain(s, x) => NoRepeats(Append(s, x))
  <1>1. /\ Append(s, x) \in Seq(S)
        /\ DOMAIN Append(s, x) = 1..(Len(s) + 1)
        /\ DOMAIN s = 1..Len(s)
        /\ \A p \in DOMAIN s : Append(s, x)[p] = s[p]
        /\ Append(s, x)[Len(s) + 1] = x
        /\ Len(s) \in Nat
    OBVIOUS
  <1> QED
    BY <1>1 DEF Contain, NoRepeats

LEMMA EmptyList == (\A x : ~Contain(<<>>, x)) /\ NoRepeats(<<>>)
  BY DEF Contain, NoRepeats

-----------------------------------------------------------------------------

LEMMA NewGraphInv == ASSUME GInv, NEW g \in Graphs, NewGraph(g) PROVE GInv'
  <1> USE NullAssumption DEF GInv, NewGraph
  <1>1. GraphPartTypeOK'
    BY DEF GraphPartTypeOK, graphs
  <1>2. KeysNumber'
    BY DEF GraphPartTypeOK, KeysNumber, graphs, live, Contain
  <1>3. EdgesMirror'
    BY DEF EdgesMirror, GoesTo, live
  <1> QED
    BY <1>1, <1>2, <1>3

\* The lists of a free address are empty.
LEMMA FreeIsEmpty ==
  ASSUME GInv, NEW n \in Nodes, my_graph_[n] = Null
  PROVE  \A m \in Nodes : ~Contain(succs_[n], m) /\ ~Contain(preds_[n], m)
  BY DEF GInv, EdgesMirror, GoesTo, live

LEMMA NewNodeInv ==
  ASSUME GInv, NEW g \in Graphs, NEW n \in Nodes, NewNode(g, n) PROVE GInv'
  <1> USE DEF GInv, NewNode
  <1>g. g # Null /\ g \in graphs
    BY NullAssumption
  <1>1. GraphPartTypeOK'
    <2>1. graphs' = graphs /\ graphs \subseteq Graphs
      BY DEF GraphPartTypeOK, graphs
    <2>2. my_nodes_' \in [graphs -> Seq(Nodes)]
      BY <1>g DEF GraphPartTypeOK
    <2>3. nodecount_' \in [graphs -> Nat] /\ my_key_' \in [Nodes -> Nat]
      BY <1>g DEF GraphPartTypeOK
    <2>4. my_graph_' \in [Nodes -> graphs \union {Null}]
      BY <1>g DEF GraphPartTypeOK
    <2>5. succs_' \in [Nodes -> Seq(Nodes)] /\ preds_' \in [Nodes -> Seq(Nodes)]
      BY DEF GraphPartTypeOK
    <2>6. asked' \subseteq Nodes \X Nodes
      BY DEF GraphPartTypeOK
    <2> QED
      BY <2>1, <2>2, <2>3, <2>4, <2>5, <2>6 DEF GraphPartTypeOK
  <1>2. KeysNumber'
    <2>1. graphs' = graphs
      BY DEF GraphPartTypeOK, graphs
    <2>2. ASSUME NEW h \in graphs
          PROVE  /\ nodecount_'[h] = Len(my_nodes_'[h])
                 /\ \A p \in DOMAIN my_nodes_'[h] :
                      /\ my_graph_'[my_nodes_'[h][p]] = h
                      /\ my_key_'[my_nodes_'[h][p]] = p - 1
      <3>0. my_nodes_[h] \in Seq(Nodes) /\ nodecount_[h] = Len(my_nodes_[h]) /\ h # Null
        BY NullAssumption DEF GraphPartTypeOK, KeysNumber
      <3>1. \A p \in DOMAIN my_nodes_[h] :
              /\ my_nodes_[h][p] \in Nodes
              /\ my_graph_[my_nodes_[h][p]] = h
              /\ my_key_[my_nodes_[h][p]] = p - 1
              /\ my_nodes_[h][p] # n
        <4>1. \A p \in DOMAIN my_nodes_[h] : my_nodes_[h][p] \in Nodes
          BY <3>0
        <4>2. \A p \in DOMAIN my_nodes_[h] :
                my_graph_[my_nodes_[h][p]] = h /\ my_key_[my_nodes_[h][p]] = p - 1
          BY DEF KeysNumber
        <4> QED
          BY <3>0, <4>1, <4>2
      <3>2. CASE h # g
        BY <3>0, <3>1, <3>2, <2>1 DEF GraphPartTypeOK, graphs
      <3>3. CASE h = g
        <4>1. my_nodes_'[h] = Append(my_nodes_[h], n) /\ nodecount_'[h] = nodecount_[h] + 1
          BY <3>3, <2>1 DEF GraphPartTypeOK, graphs
        <4>2. DOMAIN my_nodes_'[h] = 1..(Len(my_nodes_[h]) + 1)
          BY <4>1, <3>0
        <4>3. \A p \in DOMAIN my_nodes_[h] : my_nodes_'[h][p] = my_nodes_[h][p]
          BY <4>1, <3>0
        <4>4. my_nodes_'[h][Len(my_nodes_[h]) + 1] = n
          BY <4>1, <3>0
        <4>5. /\ my_graph_'[n] = g /\ my_key_'[n] = Len(my_nodes_[h])
              /\ \A m \in Nodes : m # n => my_graph_'[m] = my_graph_[m] /\ my_key_'[m] = my_key_[m]
          BY <3>0, <3>3 DEF GraphPartTypeOK
        <4>6. DOMAIN my_nodes_[h] = 1..Len(my_nodes_[h]) /\ Len(my_nodes_[h]) \in Nat
          BY <3>0
        <4>7. Len(my_nodes_'[h]) = Len(my_nodes_[h]) + 1
          BY <4>1, <3>0
        <4> QED
          BY <3>0, <3>1, <3>3, <4>1, <4>2, <4>3, <4>4, <4>5, <4>6, <4>7
      <3> QED
        BY <3>2, <3>3
    <2>3. ASSUME NEW m \in live'
          PROVE  my_graph_'[m] \in graphs /\ Contain(my_nodes_'[my_graph_'[m]], m)
      <3>1. CASE m = n
        BY <3>1, <1>g, Appended DEF GraphPartTypeOK, graphs
      <3>2. CASE m # n
        <4>1. m \in live /\ my_graph_'[m] = my_graph_[m]
          BY <3>2 DEF live, GraphPartTypeOK
        <4>2. my_graph_[m] \in graphs /\ Contain(my_nodes_[my_graph_[m]], m)
          BY <4>1 DEF KeysNumber
        <4>3. my_nodes_[my_graph_[m]] \in Seq(Nodes)
          BY <4>2 DEF GraphPartTypeOK
        <4> QED
          BY <4>1, <4>2, <4>3, Appended DEF GraphPartTypeOK, graphs
      <3> QED
        BY <3>1, <3>2
    <2> QED
      BY <2>1, <2>2, <2>3 DEF KeysNumber
  <1>3. EdgesMirror'
    <2>1. \A m \in Nodes : /\ Contain(succs_'[m], n) <=> Contain(succs_[m], n)
                           /\ \A k \in Nodes : Contain(succs_'[m], k) <=> Contain(succs_[m], k)
                           /\ \A k \in Nodes : Contain(preds_'[m], k) <=> Contain(preds_[m], k)
      BY FreeIsEmpty, EmptyList DEF GraphPartTypeOK
    <2>2. \A m \in Nodes : NoRepeats(succs_'[m]) /\ NoRepeats(preds_'[m])
      BY EmptyList DEF GraphPartTypeOK, EdgesMirror
    <2>3. ASSUME NEW a \in Nodes, NEW b \in Nodes, Contain(succs_[a], b)
          PROVE  a \in live' /\ my_graph_'[a] = my_graph_'[b]
      <3>1. a \in live /\ my_graph_[a] = my_graph_[b]
        BY <2>3 DEF EdgesMirror, GoesTo
      <3> QED
        BY <3>1 DEF live, GraphPartTypeOK
    <2> QED
      BY <2>1, <2>2, <2>3 DEF EdgesMirror, GoesTo
  <1> QED
    BY <1>1, <1>2, <1>3

\* What AddEdge makes of the lists, when it adds an edge.
LEMMA AddEdgeLists ==
  ASSUME GInv, NEW g \in Graphs, NEW from \in Nodes, NEW to \in Nodes,
         AddEdge(g, from, to), ~GoesTo(from, to)
  PROVE  \A n, m \in Nodes :
           /\ Contain(succs_'[n], m) <=> Contain(succs_[n], m) \/ (n = from /\ m = to)
           /\ Contain(preds_'[n], m) <=> Contain(preds_[n], m) \/ (n = to /\ m = from)
  <1> SUFFICES ASSUME NEW n \in Nodes, NEW m \in Nodes
               PROVE  /\ Contain(succs_'[n], m) <=> Contain(succs_[n], m) \/ (n = from /\ m = to)
                      /\ Contain(preds_'[n], m) <=> Contain(preds_[n], m) \/ (n = to /\ m = from)
    OBVIOUS
  <1>1. succs_'[n] = IF n = from THEN Append(succs_[n], to) ELSE succs_[n]
    BY DEF AddEdge, GInv, GraphPartTypeOK
  <1>2. preds_'[n] = IF n = to THEN Append(preds_[n], from) ELSE preds_[n]
    BY DEF AddEdge, GInv, GraphPartTypeOK
  <1>3. succs_[n] \in Seq(Nodes) /\ preds_[n] \in Seq(Nodes)
    BY DEF GInv, GraphPartTypeOK
  <1> QED
    BY <1>1, <1>2, <1>3, Appended

LEMMA AddEdgeInv ==
  ASSUME GInv, NEW g \in Graphs, NEW from \in Nodes, NEW to \in Nodes, AddEdge(g, from, to)
  PROVE  GInv'
  <1>1. GraphPartTypeOK'
    <2>1. succs_ \in [Nodes -> Seq(Nodes)] /\ preds_ \in [Nodes -> Seq(Nodes)]
      BY DEF GInv, GraphPartTypeOK
    <2>2. preds_' \in [Nodes -> Seq(Nodes)] /\ succs_' \in [Nodes -> Seq(Nodes)]
      <3>1. CASE GoesTo(from, to)
        BY <2>1, <3>1 DEF AddEdge
      <3>2. CASE ~GoesTo(from, to)
        <4>1. Append(preds_[to], from) \in Seq(Nodes) /\ Append(succs_[from], to) \in Seq(Nodes)
          BY <2>1
        <4> QED
          BY <2>1, <3>2, <4>1 DEF AddEdge
      <3> QED
        BY <3>1, <3>2
    <2>3. graphs' = graphs /\ asked' \subseteq Nodes \X Nodes
      BY DEF GInv, AddEdge, GraphPartTypeOK, graphs
    <2> QED
      BY <2>2, <2>3 DEF GInv, AddEdge, GraphPartTypeOK
  <1>2. KeysNumber'
    BY DEF GInv, AddEdge, KeysNumber, graphs, live
  <1>3. EdgesMirror'
    <2>1. CASE GoesTo(from, to)
      BY <2>1 DEF GInv, AddEdge, EdgesMirror, GoesTo, live
    <2>2. CASE ~GoesTo(from, to)
      <3>1. \A n, m \in Nodes : Contain(succs_'[n], m) <=> Contain(preds_'[m], n)
        BY <2>2, AddEdgeLists DEF GInv, EdgesMirror
      <3>2. ASSUME NEW n \in Nodes PROVE NoRepeats(succs_'[n]) /\ NoRepeats(preds_'[n])
        <4>1. succs_'[n] = IF n = from THEN Append(succs_[n], to) ELSE succs_[n]
          BY <2>2 DEF AddEdge, GInv, GraphPartTypeOK
        <4>2. preds_'[n] = IF n = to THEN Append(preds_[n], from) ELSE preds_[n]
          BY <2>2 DEF AddEdge, GInv, GraphPartTypeOK
        <4>3. succs_[n] \in Seq(Nodes) /\ preds_[n] \in Seq(Nodes)
          BY DEF GInv, GraphPartTypeOK
        <4>4. ~Contain(succs_[from], to) /\ ~Contain(preds_[to], from)
          BY <2>2 DEF GInv, EdgesMirror, GoesTo
        <4>5. NoRepeats(succs_[n]) /\ NoRepeats(preds_[n])
          BY DEF GInv, EdgesMirror
        <4> QED
          BY <4>1, <4>2, <4>3, <4>4, <4>5, Appended
      <3>3. my_graph_[from] = g /\ my_graph_[to] = g /\ my_graph_' = my_graph_ /\ g # Null
        BY NullAssumption DEF AddEdge
      <3>4. \A n, m \in Nodes : Contain(succs_'[n], m) =>
              n \in live' /\ my_graph_'[n] = my_graph_'[m]
        BY <2>2, <3>3, AddEdgeLists DEF GInv, EdgesMirror, GoesTo, live
      <3> QED
        BY <3>1, <3>2, <3>4 DEF EdgesMirror, GoesTo
    <2> QED
      BY <2>1, <2>2
  <1> QED
    BY <1>1, <1>2, <1>3 DEF GInv

\* What DeleteGraph makes of the nodes and their lists.
LEMMA DeleteGraphLists ==
  ASSUME GInv, NEW g \in Graphs, DeleteGraph(g), NEW n \in Nodes
  PROVE  IF my_graph_[n] = g
           THEN my_graph_'[n] = Null /\ succs_'[n] = <<>> /\ preds_'[n] = <<>> /\ my_key_'[n] = 0
           ELSE /\ my_graph_'[n] = my_graph_[n] /\ succs_'[n] = succs_[n]
                /\ preds_'[n] = preds_[n] /\ my_key_'[n] = my_key_[n]
  BY Members DEF DeleteGraph

LEMMA DeleteGraphInv == ASSUME GInv, NEW g \in Graphs, DeleteGraph(g) PROVE GInv'
  <1>0. g \in graphs /\ graphs' = graphs \ {g}
    BY DEF DeleteGraph, graphs
  <1>1. GraphPartTypeOK'
    <2>1. my_graph_' \in [Nodes -> graphs' \union {Null}]
      <3>1. \A n \in Nodes : my_graph_'[n] \in graphs' \union {Null}
        BY <1>0, DeleteGraphLists DEF GInv, GraphPartTypeOK
      <3>2. my_graph_' = [n \in Nodes |-> my_graph_'[n]]
        BY DEF DeleteGraph
      <3> QED
        BY <3>1, <3>2
    <2> QED
      BY <1>0, <2>1 DEF GInv, GraphPartTypeOK, DeleteGraph, graphs
  <1>2. KeysNumber'
    <2>1. ASSUME NEW h \in graphs'
          PROVE  /\ nodecount_'[h] = Len(my_nodes_'[h])
                 /\ \A p \in DOMAIN my_nodes_'[h] :
                      /\ my_graph_'[my_nodes_'[h][p]] = h
                      /\ my_key_'[my_nodes_'[h][p]] = p - 1
      <3>1. h \in graphs /\ h # g /\ my_nodes_'[h] = my_nodes_[h] /\ nodecount_'[h] = nodecount_[h]
        BY <1>0 DEF DeleteGraph, graphs
      <3>2. nodecount_[h] = Len(my_nodes_[h])
        BY <3>1 DEF GInv, KeysNumber
      <3>3. ASSUME NEW p \in DOMAIN my_nodes_[h]
            PROVE  my_graph_'[my_nodes_[h][p]] = h /\ my_key_'[my_nodes_[h][p]] = p - 1
        <4>1. my_nodes_[h][p] \in Nodes /\ my_graph_[my_nodes_[h][p]] = h
              /\ my_key_[my_nodes_[h][p]] = p - 1
          BY <3>1 DEF GInv, GraphPartTypeOK, KeysNumber
        <4> QED
          BY <3>1, <4>1, DeleteGraphLists
      <3> QED
        BY <3>1, <3>2, <3>3
    <2>2. ASSUME NEW n \in live'
          PROVE  my_graph_'[n] \in graphs' /\ Contain(my_nodes_'[my_graph_'[n]], n)
      <3>1. n \in Nodes /\ my_graph_'[n] # Null
        BY DEF live
      <3>2. my_graph_[n] # g /\ my_graph_'[n] = my_graph_[n]
        BY <3>1, DeleteGraphLists
      <3>3. my_graph_[n] \in graphs /\ Contain(my_nodes_[my_graph_[n]], n)
        BY <3>1, <3>2 DEF GInv, KeysNumber, live
      <3> QED
        BY <1>0, <3>2, <3>3 DEF DeleteGraph, graphs
    <2> QED
      BY <2>1, <2>2 DEF KeysNumber
  <1>3. EdgesMirror'
    <2>1. \A n, m \in Nodes :
            /\ Contain(succs_'[n], m) <=> Contain(succs_[n], m) /\ my_graph_[n] # g
            /\ Contain(preds_'[n], m) <=> Contain(preds_[n], m) /\ my_graph_[n] # g
      BY DeleteGraphLists, EmptyList
    <2>2. \A n, m \in Nodes : Contain(succs_[n], m) => my_graph_[n] = my_graph_[m] /\ n \in live
      BY DEF GInv, EdgesMirror, GoesTo
    <2>3. \A n, m \in Nodes : Contain(succs_[n], m) <=> Contain(preds_[m], n)
      BY DEF GInv, EdgesMirror
    <2>4. \A n, m \in Nodes : Contain(succs_'[n], m) <=> Contain(preds_'[m], n)
      BY <2>1, <2>2, <2>3
    <2>5. \A n \in Nodes : NoRepeats(succs_'[n]) /\ NoRepeats(preds_'[n])
      BY DeleteGraphLists, EmptyList DEF GInv, EdgesMirror
    <2>6. \A n, m \in Nodes : Contain(succs_'[n], m) =>
            n \in live' /\ my_graph_'[n] = my_graph_'[m]
      BY <2>1, <2>2, DeleteGraphLists DEF live
    <2> QED
      BY <2>4, <2>5, <2>6 DEF EdgesMirror, GoesTo
  <1> QED
    BY <1>1, <1>2, <1>3 DEF GInv

\* The operations on the client's lists leave the graphs alone.
LEMMA ListNextKeeps == ListNext => UNCHANGED graphVars
  BY DEF ListNext, Clear, InsertNode, AppendNode, DeleteNode, CatListInto, UnionInto,
     DiffInto, Becomes

LEMMA UnchangedInv == GInv /\ UNCHANGED graphVars => GInv'
  BY DEF GInv, graphVars, GraphPartTypeOK, KeysNumber, EdgesMirror, graphs, live, GoesTo

LEMMA NextInv == GInv /\ [GraphNext]_allVars => GInv'
  <1> SUFFICES ASSUME GInv, [GraphNext]_allVars PROVE GInv'
    OBVIOUS
  <1>1. ASSUME NEW g \in Graphs, NewGraph(g) PROVE GInv'
    BY <1>1, NewGraphInv
  <1>2. ASSUME NEW g \in Graphs, DeleteGraph(g) PROVE GInv'
    BY <1>2, DeleteGraphInv
  <1>3. ASSUME NEW g \in Graphs, NEW n \in Nodes, NewNode(g, n) PROVE GInv'
    BY <1>3, NewNodeInv
  <1>4. ASSUME NEW g \in Graphs, NEW from \in Nodes, NEW to \in Nodes, AddEdge(g, from, to)
        PROVE GInv'
    BY <1>4, AddEdgeInv
  <1>5. CASE ListNext
    BY <1>5, ListNextKeeps, UnchangedInv
  <1>6. CASE UNCHANGED allVars
    BY <1>6, UnchangedInv DEF allVars
  <1> QED
    BY <1>1, <1>2, <1>3, <1>4, <1>5, <1>6 DEF GraphNext

\* The inductive invariant holds in every state.
THEOREM GraphInvariance == GraphSpec => []GInv
  BY InitInv, NextInv, PTL DEF GraphSpec

\* NewNode's keys are the places of the nodes in their graphs, whatever graphs are
\* destroyed and addresses reused.
THEOREM KeysNumberAlways == GraphSpec => []KeysNumber
  <1>1. GInv => KeysNumber
    BY DEF GInv
  <1> QED
    BY <1>1, GraphInvariance, PTL

\* AddEdge keeps the lists of successors and predecessors each other's mirror image,
\* without repeats and within one graph.
THEOREM EdgesMirrorAlways == GraphSpec => []EdgesMirror
  <1>1. GInv => EdgesMirror
    BY DEF GInv
  <1> QED
    BY <1>1, GraphInvariance, PTL

-----------------------------------------------------------------------------
(* The refinement *)

LEMMA InitRefines == GraphInit => D!Init
  BY DEF GraphInit, D!Init, Edges, GoesTo, Contain

LEMMA StepRefines == GInv /\ [GraphNext]_allVars =>
                       [DigraphStep]_allVars /\ [D!Next]_<<my_nodes_, Edges>>
  <1> SUFFICES ASSUME GInv, [GraphNext]_allVars
               PROVE  [DigraphStep]_allVars /\ [D!Next]_<<my_nodes_, Edges>>
    OBVIOUS
  <1>1. ASSUME NEW g \in Graphs, NewGraph(g) PROVE D!Make(g)
    BY <1>1 DEF NewGraph, D!Make, graphs, Edges, GoesTo
  <1>2. ASSUME NEW g \in Graphs, DeleteGraph(g) PROVE D!Destroy(g)
    <2>1. D!Exists(g) /\ my_nodes_' = [h \in DOMAIN my_nodes_ \ {g} |-> my_nodes_[h]]
      BY <1>2 DEF DeleteGraph, D!Exists, graphs
    <2>2. ASSUME NEW a \in Nodes, NEW b \in Nodes
          PROVE  GoesTo(a, b)' <=> GoesTo(a, b) /\ a \notin D!Of(g)
      <3>1. a \in D!Of(g) <=> my_graph_[a] = g
        BY <2>1, Members DEF D!Of, D!Exists, Contain, graphs
      <3> QED
        BY <1>2, <3>1, DeleteGraphLists, EmptyList DEF GoesTo
    <2>3. Edges' = {e \in Edges : e[1] \notin D!Of(g)}
      BY <2>2 DEF Edges
    <2> QED
      BY <2>1, <2>3 DEF D!Destroy
  <1>3. ASSUME NEW g \in Graphs, NEW n \in Nodes, NewNode(g, n) PROVE D!Grow(g, n)
    <2>1. D!Exists(g) /\ my_nodes_' = [my_nodes_ EXCEPT ![g] = Append(@, n)]
      BY <1>3 DEF NewNode, D!Exists, graphs
    <2>2. n \notin D!All
      <3>1. ASSUME NEW h \in DOMAIN my_nodes_, n \in D!Of(h) PROVE FALSE
        <4>1. Contain(my_nodes_[h], n)
          BY <3>1 DEF D!Of, Contain
        <4>2. my_graph_[n] = h /\ h # Null
          BY <4>1, Members, NullAssumption DEF graphs, GInv, GraphPartTypeOK
        <4> QED
          BY <4>2, <1>3 DEF NewNode
      <3> QED
        BY <3>1 DEF D!All
    <2>3. ASSUME NEW a \in Nodes, NEW b \in Nodes PROVE GoesTo(a, b)' <=> GoesTo(a, b)
      BY <1>3, FreeIsEmpty, EmptyList DEF GoesTo, NewNode, GInv, GraphPartTypeOK
    <2>4. Edges' = Edges
      BY <2>3 DEF Edges
    <2> QED
      BY <2>1, <2>2, <2>4 DEF D!Grow
  <1>4. ASSUME NEW g \in Graphs, NEW from \in Nodes, NEW to \in Nodes, AddEdge(g, from, to)
        PROVE  D!Join(g, from, to)
    <2>1. D!Exists(g) /\ my_nodes_' = my_nodes_
      BY <1>4 DEF AddEdge, D!Exists, graphs
    <2>2. {from, to} \subseteq D!Of(g)
      BY <1>4, Members DEF AddEdge, D!Of, Contain
    <2>3. ASSUME NEW a \in Nodes, NEW b \in Nodes
          PROVE  GoesTo(a, b)' <=> GoesTo(a, b) \/ (a = from /\ b = to)
      <3>1. CASE GoesTo(from, to)
        BY <1>4, <3>1 DEF AddEdge, GoesTo
      <3>2. CASE ~GoesTo(from, to)
        BY <1>4, <3>2, AddEdgeLists DEF GoesTo
      <3> QED
        BY <3>1, <3>2
    <2>4. Edges' = Edges \union {<<from, to>>}
      BY <2>3 DEF Edges
    <2> QED
      BY <2>1, <2>2, <2>4 DEF D!Join
  <1>5. CASE ListNext
    <2>1. UNCHANGED <<my_nodes_, Edges>>
      BY <1>5, ListNextKeeps DEF graphVars, Edges, GoesTo
    <2> QED
      BY <1>5, <2>1 DEF DigraphStep
  <1>6. CASE UNCHANGED allVars
    BY <1>6 DEF allVars, graphVars, Edges, GoesTo
  <1> QED
    BY <1>1, <1>2, <1>3, <1>4, <1>5, <1>6 DEF GraphNext, DigraphStep, D!Next

\* The graphs implement Digraph, operation by operation.
THEOREM GraphImplementsDigraph == GraphSpec => ImplementsDigraph
  BY InitRefines, StepRefines, GraphInvariance, PTL DEF GraphSpec, ImplementsDigraph, D!Spec

-----------------------------------------------------------------------------
(* The client's lists *)

\* A non-empty set of places has a first one.
LEMMA FirstPlace ==
  ASSUME NEW n \in Nat, NEW P, P \subseteq 1..n, P # {}
  PROVE  \E m \in P : \A k \in P : m <= k
  <1> DEFINE R == OpToRel(<, Nat)
  <1>1. IsWellFoundedOn(R, Nat)
    BY NatLessThanWellFounded
  <1>2. P \subseteq Nat
    OBVIOUS
  <1>3. PICK m \in P : \A k \in P : ~(<<k, m>> \in R)
    <2> HIDE DEF R
    <2> QED
      BY <1>1, <1>2, WFMin
  <1>4. \A k \in P : ~(k < m)
    BY <1>2, <1>3 DEF OpToRel
  <1> QED
    BY <1>2, <1>4

\* The places of K up to p, and how many they are.
Upto(K, p) == {q \in K : q <= p}

\* A place of K is known by how many places of K there are up to it.
LEMMA PlacesCount ==
  ASSUME NEW n \in Nat, NEW K, K \subseteq 1..n
  PROVE  /\ Cardinality(K) \in Nat
         /\ \A p \in K : Cardinality(Upto(K, p)) \in 1..Cardinality(K)
         /\ \A p, q \in K : Cardinality(Upto(K, p)) = Cardinality(Upto(K, q)) => p = q
         /\ \A i \in 1..Cardinality(K) : \E p \in K : Cardinality(Upto(K, p)) = i
  <1> DEFINE f == [p \in K |-> Cardinality(Upto(K, p))]
             c == Cardinality(K)
  <1>1. IsFiniteSet(K) /\ c \in Nat
    <2>1. IsFiniteSet(1..n) /\ K \in SUBSET (1..n)
      BY FS_Interval
    <2> QED
      BY <2>1, FS_Subset, FS_CardinalityType
  <1>2. \A p : /\ IsFiniteSet(Upto(K, p)) /\ Cardinality(Upto(K, p)) \in Nat
               /\ Cardinality(Upto(K, p)) <= c
    <2>1. \A p : Upto(K, p) \in SUBSET K
      BY DEF Upto
    <2> QED
      BY <2>1, <1>1, FS_Subset, FS_CardinalityType
  <1>3. ASSUME NEW p \in K PROVE Cardinality(Upto(K, p)) # 0
    <2>1. p \in Upto(K, p)
      BY DEF Upto
    <2> QED
      BY <2>1, <1>2, FS_EmptySet
  <1>4. ASSUME NEW p \in K, NEW q \in K, p < q
        PROVE  Cardinality(Upto(K, p)) # Cardinality(Upto(K, q))
    <2>0. \A x \in K : x \in Nat
      OBVIOUS
    <2>1. Upto(K, p) \in SUBSET Upto(K, q)
      <3>1. \A x \in K : x <= p => x <= q
        BY <1>4, <2>0
      <3> QED
        BY <3>1 DEF Upto
    <2>2. q \in Upto(K, q) /\ q \notin Upto(K, p)
      BY <1>4, <2>0 DEF Upto
    <2> QED
      BY <2>1, <2>2, <1>2, FS_Subset
  <1>5. \A p, q \in K : Cardinality(Upto(K, p)) = Cardinality(Upto(K, q)) => p = q
    BY <1>4
  <1>6. \A p \in K : Cardinality(Upto(K, p)) \in 1..c
    BY <1>1, <1>2, <1>3
  <1> HIDE DEF c
  <1>7. f \in Injection(K, 1..c)
    BY <1>5, <1>6 DEF Injection, IsInjective
  <1>8. IsFiniteSet(1..c) /\ Cardinality(1..c) = c
    BY <1>1, FS_Interval
  <1>9. f \in Surjection(K, 1..c)
    <2> HIDE DEF f
    <2> QED
      BY <1>7, <1>8, FS_Injection DEF c
  <1>10. \A i \in 1..c : \E p \in K : Cardinality(Upto(K, p)) = i
    BY <1>9 DEF Surjection
  <1> QED
    BY <1>1, <1>5, <1>6, <1>10 DEF c

\* Keeping has the elements at the places kept, and no others; it repeats none that the
\* list does not repeat there.
LEMMA KeepingKeeps ==
  ASSUME NEW S, NEW s \in Seq(S), NEW K, K \subseteq DOMAIN s
  PROVE  /\ Keeping(s, K) \in Seq(S)
         /\ ToSet(Keeping(s, K)) = {s[p] : p \in K}
         /\ (\A p, q \in K : s[p] = s[q] => p = q) => NoRepeats(Keeping(s, K))
  <1> DEFINE at(i) == CHOOSE p \in K : Cardinality(Upto(K, p)) = i
             c == Cardinality(K)
             t == Keeping(s, K)
  <1>1. K \subseteq 1..Len(s) /\ Len(s) \in Nat
    OBVIOUS
  <1>2. c \in Nat /\ \A i \in 1..c : at(i) \in K /\ Cardinality(Upto(K, at(i))) = i
    BY <1>1, PlacesCount
  <1>3. \A p \in K : Cardinality(Upto(K, p)) \in 1..c /\ at(Cardinality(Upto(K, p))) = p
    BY <1>1, PlacesCount
  <1>4. t = [i \in 1..c |-> s[at(i)]]
    BY DEF Keeping, Upto
  <1> HIDE DEF at, c, t
  <1>5. DOMAIN t = 1..c /\ \A i \in 1..c : t[i] = s[at(i)]
    BY <1>4
  <1>6. \A p \in K : s[p] \in S
    BY <1>1
  <1>7. t \in Seq(S)
    BY <1>2, <1>4, <1>6
  <1>8. ToSet(t) = {s[p] : p \in K}
    <2>1. \A i \in 1..c : \E p \in K : t[i] = s[p]
      BY <1>2, <1>5
    <2>2. \A p \in K : \E i \in 1..c : t[i] = s[p]
      BY <1>3, <1>5
    <2>3. \A x : x \in ToSet(t) <=> \E i \in 1..c : x = t[i]
      BY <1>5 DEF ToSet
    <2>4. \A x : x \in {s[p] : p \in K} <=> \E p \in K : x = s[p]
      OBVIOUS
    <2> QED
      BY <2>1, <2>2, <2>3, <2>4
  <1>9. ASSUME \A p, q \in K : s[p] = s[q] => p = q PROVE NoRepeats(t)
    BY <1>2, <1>5, <1>9 DEF NoRepeats
  <1> QED
    BY <1>7, <1>8, <1>9 DEF t

LEMMA Concatenated ==
  ASSUME NEW S, NEW a \in Seq(S), NEW b \in Seq(S)
  PROVE  /\ a \o b \in Seq(S)
         /\ ToSet(a \o b) = ToSet(a) \union ToSet(b)
         /\ ToSet(a) \intersect ToSet(b) = {} /\ NoRepeats(a) /\ NoRepeats(b) =>
              NoRepeats(a \o b)
  <1> DEFINE m == Len(a)
             n == Len(b)
             s == a \o b
  <1>1. /\ m \in Nat /\ n \in Nat /\ DOMAIN a = 1..m /\ DOMAIN b = 1..n
        /\ s \in Seq(S) /\ DOMAIN s = 1..(m + n)
        /\ \A p \in 1..(m + n) : s[p] = IF p <= m THEN a[p] ELSE b[p - m]
    OBVIOUS
  <1> HIDE DEF m, n, s
  <1>2. \A p \in 1..m : p \in 1..(m + n) /\ s[p] = a[p]
    BY <1>1
  <1>3. ASSUME NEW p \in 1..n PROVE m + p \in 1..(m + n) /\ s[m + p] = b[p]
    <2>1. m + p \in 1..(m + n) /\ ~(m + p <= m) /\ (m + p) - m = p
      BY <1>1
    <2> QED
      BY <2>1, <1>1
  <1>4. ASSUME NEW p \in 1..(m + n)
        PROVE  p \in 1..m \/ \E q \in 1..n : p = m + q
    <2>1. CASE p <= m
      BY <2>1, <1>1
    <2>2. CASE ~(p <= m)
      <3>1. p - m \in 1..n /\ p = m + (p - m)
        BY <2>2, <1>1
      <3> QED
        BY <3>1
    <2> QED
      BY <2>1, <2>2
  <1>5. ToSet(s) = ToSet(a) \union ToSet(b)
    <2>1. /\ \A x : x \in ToSet(s) <=> \E p \in 1..(m + n) : x = s[p]
          /\ \A x : x \in ToSet(a) <=> \E p \in 1..m : x = a[p]
          /\ \A x : x \in ToSet(b) <=> \E p \in 1..n : x = b[p]
      BY <1>1 DEF ToSet
    <2>2. \A x : x \in ToSet(s) => x \in ToSet(a) \/ x \in ToSet(b)
      BY <2>1, <1>2, <1>3, <1>4
    <2>3. \A x : x \in ToSet(a) \/ x \in ToSet(b) => x \in ToSet(s)
      BY <2>1, <1>2, <1>3
    <2> QED
      BY <2>2, <2>3
  <1>6. ASSUME ToSet(a) \intersect ToSet(b) = {}, NoRepeats(a), NoRepeats(b)
        PROVE  NoRepeats(s)
    <2>1. \A p \in 1..m : \A q \in 1..n : a[p] # b[q]
      BY <1>1, <1>6 DEF ToSet
    <2>2. /\ \A p, q \in 1..m : a[p] = a[q] => p = q
          /\ \A p, q \in 1..n : b[p] = b[q] => p = q
      BY <1>1, <1>6 DEF NoRepeats
    <2>3. ASSUME NEW p \in 1..(m + n), NEW q \in 1..(m + n), s[p] = s[q]
          PROVE  p = q
      BY <2>1, <2>2, <2>3, <1>2, <1>3, <1>4
    <2> QED
      BY <2>3, <1>1 DEF NoRepeats
  <1> QED
    BY <1>1, <1>5, <1>6 DEF s

\* What goes from a list is equal to what stays before it.
LEMMA UniqueIs ==
  ASSUME NEW S, NEW s \in Seq(S)
  PROVE  /\ Unique(s) \in Seq(S)
         /\ ToSet(Unique(s)) = ToSet(s)
         /\ NoRepeats(s) => NoRepeats(Unique(s))
  <1> DEFINE K == {p \in DOMAIN s : p = 1 \/ s[p - 1] # s[p]}
  <1>1. K \subseteq DOMAIN s /\ DOMAIN s = 1..Len(s) /\ Len(s) \in Nat
    OBVIOUS
  <1>2. Unique(s) = Keeping(s, K)
    BY DEF Unique
  <1>3. ASSUME NEW p \in DOMAIN s PROVE \E q \in K : s[q] = s[p]
    <2> DEFINE P == {q \in 1..Len(s) : s[q] = s[p]}
    <2>1. P \subseteq 1..Len(s) /\ P # {}
      BY <1>1
    <2>2. PICK q \in P : \A k \in P : q <= k
      <3> HIDE DEF P
      <3> QED
        BY <2>1, <1>1, FirstPlace
    <2>3. q \in 1..Len(s) /\ s[q] = s[p]
      OBVIOUS
    <2>4. q = 1 \/ s[q - 1] # s[q]
      <3>1. SUFFICES ASSUME q # 1, s[q - 1] = s[q] PROVE FALSE
        OBVIOUS
      <3>2. q - 1 \in 1..Len(s) /\ ~(q <= q - 1)
        BY <2>3, <3>1, <1>1
      <3> QED
        BY <2>2, <2>3, <3>1, <3>2
    <2> QED
      BY <2>3, <2>4, <1>1
  <1> HIDE DEF K
  <1>4. /\ Keeping(s, K) \in Seq(S) /\ ToSet(Keeping(s, K)) = {s[p] : p \in K}
        /\ (\A p, q \in K : s[p] = s[q] => p = q) => NoRepeats(Keeping(s, K))
    BY <1>1, KeepingKeeps
  <1>5. {s[p] : p \in K} = ToSet(s)
    <2>1. \A x : x \in ToSet(s) <=> \E p \in DOMAIN s : x = s[p]
      BY DEF ToSet
    <2>2. \A x : x \in {s[p] : p \in K} <=> \E p \in K : x = s[p]
      OBVIOUS
    <2> QED
      BY <2>1, <2>2, <1>1, <1>3
  <1>6. NoRepeats(s) => \A p, q \in K : s[p] = s[q] => p = q
    BY <1>1 DEF NoRepeats
  <1> QED
    BY <1>2, <1>4, <1>5, <1>6

LEMMA UnionIs ==
  ASSUME NEW S, NEW a \in Seq(S), NEW b \in Seq(S)
  PROVE  /\ Union(a, b) \in Seq(S)
         /\ ToSet(Union(a, b)) = ToSet(a) \union ToSet(b)
         /\ ToSet(a) \intersect ToSet(b) = {} /\ NoRepeats(a) /\ NoRepeats(b) =>
              NoRepeats(Union(a, b))
  <1> DEFINE s == a \o b
  <1>1. /\ s \in Seq(S) /\ ToSet(s) = ToSet(a) \union ToSet(b)
        /\ ToSet(a) \intersect ToSet(b) = {} /\ NoRepeats(a) /\ NoRepeats(b) => NoRepeats(s)
    BY Concatenated
  <1>2. Union(a, b) = Unique(s)
    BY DEF Union, CatList
  <1> HIDE DEF s
  <1> QED
    BY <1>1, <1>2, UniqueIs

LEMMA DiffIs ==
  ASSUME NEW S, NEW a \in Seq(S), NEW b \in Seq(S)
  PROVE  /\ Diff(a, b) \in Seq(S)
         /\ ToSet(Diff(a, b)) = ToSet(a) \ ToSet(b)
  <1> DEFINE K == {p \in DOMAIN a : ~Contain(b, a[p])}
  <1>1. K \subseteq DOMAIN a /\ Diff(a, b) = Keeping(a, K)
    BY DEF Diff
  <1>2. \A x : Contain(b, x) <=> x \in ToSet(b)
    BY DEF Contain, ToSet
  <1>3. {a[p] : p \in K} = ToSet(a) \ ToSet(b)
    <2>1. \A x : x \in {a[p] : p \in K} <=> \E p \in DOMAIN a : x = a[p] /\ ~Contain(b, a[p])
      OBVIOUS
    <2>2. \A x : x \in ToSet(a) <=> \E p \in DOMAIN a : x = a[p]
      BY DEF ToSet
    <2> QED
      BY <2>1, <2>2, <1>2
  <1> HIDE DEF K
  <1> QED
    BY <1>1, <1>3, KeepingKeeps

\* Without the first place of x, a list that does not repeat x is rid of it.
LEMMA RemoveFirstIs ==
  ASSUME NEW S, NEW s \in Seq(S), NEW x
  PROVE  /\ RemoveFirst(s, x) \in Seq(S)
         /\ NoRepeats(s) => ~Contain(RemoveFirst(s, x), x)
  <1> DEFINE P == {p \in 1..Len(s) : s[p] = x}
             n == Len(s)
  <1>1. n \in Nat /\ DOMAIN s = 1..n
    OBVIOUS
  <1>2. CASE P = {}
    <2>1. RemoveFirst(s, x) = s
      BY <1>2 DEF RemoveFirst
    <2> QED
      BY <2>1, <1>1, <1>2 DEF Contain
  <1>3. CASE P # {}
    <2> DEFINE k == Min(P)
               a == SubSeq(s, 1, k - 1)
               b == SubSeq(s, k + 1, n)
    <2>1. RemoveFirst(s, x) = a \o b
      BY <1>3 DEF RemoveFirst, RemoveAt, SelectInSeq
    <2>2. k \in P
      <3>1. P \subseteq 1..n
        OBVIOUS
      <3>2. \E m \in P : \A q \in P : m <= q
        <4> HIDE DEF P
        <4> QED
          BY <3>1, <1>1, <1>3, FirstPlace
      <3> QED
        BY <3>2 DEF Min
    <2>3. k \in 1..n /\ s[k] = x
      BY <2>2
    <2> HIDE DEF k, P
    <2>4. /\ a \in Seq(S) /\ Len(a) = k - 1 /\ \A p \in 1..(k - 1) : a[p] = s[p]
      BY <1>1, <2>3
    <2>5. /\ b \in Seq(S) /\ Len(b) = n - k /\ \A p \in 1..(n - k) : b[p] = s[k + p]
      <3>1. k + 1 \in 1..(n + 1) /\ n \in (k + 1 - 1)..n
        BY <1>1, <2>3
      <3>2. /\ b \in Seq(S) /\ Len(b) = (IF k + 1 <= n THEN n - (k + 1) + 1 ELSE 0)
            /\ \A p \in 1..(n - (k + 1) + 1) : b[p] = s[k + 1 + p - 1]
        BY <1>1, <2>3, <3>1, SubSeqProperties
      <3>3. /\ (IF k + 1 <= n THEN n - (k + 1) + 1 ELSE 0) = n - k
            /\ n - (k + 1) + 1 = n - k
            /\ \A p \in 1..(n - k) : k + 1 + p - 1 = k + p
        <4>1. k \in Nat /\ n \in Nat /\ k <= n
          BY <1>1, <2>3
        <4> HIDE DEF n
        <4> QED
          BY <4>1
      <3> QED
        BY <3>2, <3>3
    <2> HIDE DEF a, b
    <2>6. ASSUME NoRepeats(s) PROVE x \notin ToSet(a) \union ToSet(b)
      <3>1. \A p \in 1..n : s[p] = x => p = k
        BY <2>3, <2>6, <1>1 DEF NoRepeats
      <3>2. \A p \in 1..(k - 1) : p \in 1..n /\ p # k
        BY <2>3, <1>1
      <3>3. \A p \in 1..(n - k) : k + p \in 1..n /\ k + p # k
        BY <2>3, <1>1
      <3>4. DOMAIN a = 1..(k - 1) /\ DOMAIN b = 1..(n - k)
        BY <2>4, <2>5
      <3>5. x \notin ToSet(a)
        BY <3>1, <3>2, <3>4, <2>4 DEF ToSet
      <3>6. x \notin ToSet(b)
        BY <3>1, <3>3, <3>4, <2>5 DEF ToSet
      <3> QED
        BY <3>5, <3>6
    <2>7. a \o b \in Seq(S) /\ ToSet(a \o b) = ToSet(a) \union ToSet(b)
      BY <2>4, <2>5, Concatenated
    <2>8. \A y : Contain(a \o b, y) <=> y \in ToSet(a \o b)
      BY DEF Contain, ToSet
    <2> QED
      BY <2>1, <2>6, <2>7, <2>8
  <1> QED
    BY <1>2, <1>3

-----------------------------------------------------------------------------
(* Types and lists *)

\* All there are to operate on are lists of nodes.
LEMMA OperandsAreLists == GraphTypeOK => Operands \subseteq Seq(Nodes)
  <1> SUFFICES ASSUME GraphTypeOK, NEW a \in Operands PROVE a \in Seq(Nodes)
    OBVIOUS
  <1> USE DEF GraphTypeOK, GraphPartTypeOK
  <1>1. ASSUME NEW l \in List, a = node_list_[l] PROVE a \in Seq(Nodes)
    BY <1>1
  <1>2. ASSUME NEW g \in graphs, a = my_nodes_[g] PROVE a \in Seq(Nodes)
    BY <1>2
  <1>3. ASSUME NEW n \in live, a \in {succs_[n], preds_[n], Adj(n)} PROVE a \in Seq(Nodes)
    <2>1. succs_[n] \in Seq(Nodes) /\ preds_[n] \in Seq(Nodes)
      BY DEF live
    <2>2. succs_[n] \o preds_[n] \in Seq(Nodes)
      BY <2>1, Concatenated
    <2> QED
      BY <1>3, <2>1, <2>2 DEF Adj, CatList
  <1> QED
    BY <1>1, <1>2, <1>3 DEF Operands

LEMMA ListTypes == GInv /\ GraphTypeOK /\ [GraphNext]_allVars => GraphTypeOK'
  <1> SUFFICES ASSUME GInv, GraphTypeOK, [GraphNext]_allVars PROVE GraphTypeOK'
    OBVIOUS
  <1>1. GraphPartTypeOK'
    BY NextInv DEF GInv
  <1>2. node_list_ \in [List -> Seq(Nodes)]
    BY DEF GraphTypeOK
  <1>3. ASSUME NEW l \in List, NEW s \in Seq(Nodes), Becomes(l, s)
        PROVE  node_list_' \in [List -> Seq(Nodes)]
    BY <1>2, <1>3 DEF Becomes
  <1>4. CASE ListNext
    <2>1. PICK l \in List :
            \/ Clear(l)
            \/ \E n \in Nodes : InsertNode(l, n) \/ AppendNode(l, n) \/ DeleteNode(l, n)
            \/ CatListInto(l) \/ UnionInto(l) \/ DiffInto(l)
      BY <1>4 DEF ListNext
    <2>2. node_list_[l] \in Seq(Nodes) /\ Operands \subseteq Seq(Nodes)
      BY <1>2, OperandsAreLists
    <2>3. ASSUME Clear(l) PROVE node_list_' \in [List -> Seq(Nodes)]
      <3>1. <<>> \in Seq(Nodes)
        OBVIOUS
      <3> QED
        BY <2>3, <3>1, <1>3 DEF Clear
    <2>4. ASSUME NEW n \in Nodes, InsertNode(l, n) PROVE node_list_' \in [List -> Seq(Nodes)]
      <3>1. <<n>> \o node_list_[l] \in Seq(Nodes)
        BY <2>2
      <3> QED
        BY <2>4, <3>1, <1>3 DEF InsertNode
    <2>5. ASSUME NEW n \in Nodes, AppendNode(l, n) PROVE node_list_' \in [List -> Seq(Nodes)]
      <3>1. Append(node_list_[l], n) \in Seq(Nodes)
        BY <2>2
      <3> QED
        BY <2>5, <3>1, <1>3 DEF AppendNode
    <2>6. ASSUME NEW n \in Nodes, DeleteNode(l, n) PROVE node_list_' \in [List -> Seq(Nodes)]
      BY <2>2, <2>6, <1>3, RemoveFirstIs DEF DeleteNode
    <2>7. ASSUME CatListInto(l) PROVE node_list_' \in [List -> Seq(Nodes)]
      BY <2>2, <2>7, <1>3, Concatenated DEF CatListInto, CatList
    <2>8. ASSUME UnionInto(l) PROVE node_list_' \in [List -> Seq(Nodes)]
      <3>1. \A a, b \in Operands : Union(a, b) \in Seq(Nodes)
        BY <2>2, UnionIs
      <3> QED
        BY <2>8, <3>1, <1>3 DEF UnionInto
    <2>9. ASSUME DiffInto(l) PROVE node_list_' \in [List -> Seq(Nodes)]
      <3>1. \A a, b \in Operands : Diff(a, b) \in Seq(Nodes)
        BY <2>2, DiffIs
      <3> QED
        BY <2>9, <3>1, <1>3 DEF DiffInto
    <2>10. node_list_' \in [List -> Seq(Nodes)]
      BY <2>1, <2>3, <2>4, <2>5, <2>6, <2>7, <2>8, <2>9
    <2> QED
      BY <2>10, <1>1 DEF GraphTypeOK
  <1>5. CASE UNCHANGED node_list_
    BY <1>1, <1>2, <1>5 DEF GraphTypeOK
  <1> QED
    BY <1>4, <1>5 DEF GraphNext, NewGraph, DeleteGraph, NewNode, AddEdge, allVars

\* Graphs, nodes and lists keep their types, also across a destroyed graph.
THEOREM GraphTypeCorrect == GraphSpec => []GraphTypeOK
  <1>1. GraphInit => GraphTypeOK
    <2>1. <<>> \in Seq(Nodes)
      OBVIOUS
    <2> QED
      BY <2>1, InitInv DEF GraphInit, GInv, GraphTypeOK
  <1> QED
    BY <1>1, ListTypes, GraphInvariance, PTL DEF GraphSpec

\* NodeList's operations are those of sets, with repeats as Union's comment has them:
\* on every list a graph or the client comes to hold.
THEOREM ListsAsSetsAlways == GraphSpec => []ListsAsSets
  <1>1. GraphTypeOK => ListsAsSets
    <2> SUFFICES ASSUME GraphTypeOK, NEW a \in Operands, NEW b \in Operands
                 PROVE  /\ ToSet(Union(a, b)) = ToSet(a) \union ToSet(b)
                        /\ ToSet(Diff(a, b)) = ToSet(a) \ ToSet(b)
                        /\ ToSet(a) \intersect ToSet(b) = {} /\ NoRepeats(a) /\ NoRepeats(b) =>
                             NoRepeats(Union(a, b))
                        /\ NoRepeats(a) => \A n \in ToSet(a) : ~Contain(RemoveFirst(a, n), n)
      BY DEF ListsAsSets
    <2>1. a \in Seq(Nodes) /\ b \in Seq(Nodes)
      BY OperandsAreLists
    <2> QED
      BY <2>1, UnionIs, DiffIs, RemoveFirstIs
  <1> QED
    BY <1>1, GraphTypeCorrect, PTL
=============================================================================
