------------------------------ MODULE Interning -----------------------------
(***************************************************************************)
(* What UniqueSymbol promises: a name has one symbol, found again whenever *)
(* the name is, and two names have two.                                    *)
(***************************************************************************)
EXTENDS Integers

CONSTANT Name

VARIABLE symbolOf   \* the address of each name's symbol, 0 for none yet

Init == symbolOf = [n \in Name |-> 0]

\* The symbol of n is asked for, and a is the answer.
Intern(n, a) ==
  /\ a > 0
  /\ \/ symbolOf[n] = a /\ UNCHANGED symbolOf
     \/ /\ symbolOf[n] = 0 /\ \A m \in Name : symbolOf[m] # a
        /\ symbolOf' = [symbolOf EXCEPT ![n] = a]

Next == \E n \in Name : \E a \in Nat : Intern(n, a)

Spec == Init /\ [][Next]_symbolOf
=============================================================================
