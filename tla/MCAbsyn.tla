------------------------------- MODULE MCAbsyn ------------------------------
(***************************************************************************)
(* Two names in one bucket.                                                *)
(***************************************************************************)
EXTENDS Absyn, TLC

CONSTANTS n1, n2

Names == {n1, n2}
Hash == n1 :> 0 @@ n2 :> 0
AllClasses == DOMAIN Params \union Lists
\* Constants are as integers, a while as an operation, an array's type as a name.
Classes == AllClasses \ {"NilExp", "StringExp", "BreakExp", "VoidExp", "WhileExp", "ArrayTy"}
=============================================================================
