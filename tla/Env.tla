--------------------------------- MODULE Env --------------------------------
(***************************************************************************)
(* What a table of src/tiger/util/table.h promises: a stack of bindings.   *)
(* A binding hides the earlier ones of its key until it is undone, and     *)
(* bindings are undone in the reverse of the order they were made in.      *)
(***************************************************************************)
EXTENDS Integers, Sequences

CONSTANTS
  Key,
  Value,
  Null       \* the null pointer

VARIABLE stack   \* the bindings, the latest last

Binding == [key : Key, value : Value \union {Null}]

Init == stack = <<>>

Bind(k, v) == stack' = Append(stack, [key |-> k, value |-> v])

\* d is the latest binding of k.
Latest(k, d) ==
  /\ d \in DOMAIN stack /\ stack[d].key = k
  /\ \A e \in DOMAIN stack : stack[e].key = k => e <= d

\* The latest binding of k gets the value v.
Assign(k, v) == \E d \in DOMAIN stack : Latest(k, d) /\ stack' = [stack EXCEPT ![d].value = v]

Unbind == stack # <<>> /\ stack' = SubSeq(stack, 1, Len(stack) - 1)

\* v is what a lookup of k returns.
Finds(k, v) ==
  \/ \E d \in DOMAIN stack : Latest(k, d) /\ v = stack[d].value
  \/ v = Null /\ \A d \in DOMAIN stack : stack[d].key # k

Next ==
  \/ \E k \in Key, v \in Value \union {Null} : Bind(k, v) \/ Assign(k, v)
  \/ Unbind

Spec == Init /\ [][Next]_stack
=============================================================================
