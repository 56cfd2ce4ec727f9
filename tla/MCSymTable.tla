----------------------------- MODULE MCSymTable ------------------------------
(***************************************************************************)
(* A mark and two symbols; one of them shares its chain with the mark, the *)
(* other with the null pointer.                                            *)
(***************************************************************************)
EXTENDS SymTable, TLC

CONSTANTS mark, s1, s2, null

Keys == {mark, s1, s2}
Buckets == {0, 1}
Hash == mark :> 1 @@ s1 :> 1 @@ s2 :> 0 @@ null :> 0
=============================================================================
