------------------------------ MODULE MCRuntime -----------------------------
(***************************************************************************)
(* Two variables, bytes 0 and 1, ints from -5 to 4, and a literal long     *)
(* enough for two of it to be longer than the largest int.  The program    *)
(* passes the numbers at which a check of the library turns.               *)
(***************************************************************************)
EXTENDS Runtime, TLC

CONSTANTS v1, v2

Variables == {v1, v2}
Literals == << <<0, 1, 1>> >>
Args == {-1, 0, 1, 2, 4}
Symmetry == Permutations(Variables)
=============================================================================
