------------------------------- MODULE MCGraph -------------------------------
(***************************************************************************)
(* Two graphs and three addresses for nodes, which any node may reuse.     *)
(***************************************************************************)
EXTENDS Graph, TLC

CONSTANTS g1, g2, n1, n2, n3, null

GraphSet == {g1, g2}
NodeSet == {n1, n2, n3}
\* The addresses of nodes are interchangeable, and so are those of graphs.
Symmetric == Permutations(GraphSet) \union Permutations(NodeSet)
=============================================================================
