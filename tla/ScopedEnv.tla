------------------------------ MODULE ScopedEnv ------------------------------
(***************************************************************************)
(* What a symbol table of src/tiger/symbol/symbol.h promises: nested       *)
(* scopes, each a stack of bindings.  Closing the innermost scope undoes   *)
(* its bindings and no other; closing the outermost leaves nothing to work *)
(* with.                                                                   *)
(***************************************************************************)
EXTENDS Integers, Sequences

CONSTANTS
  Key,
  Value,
  Null       \* the null pointer

VARIABLE scopes   \* the open scopes, the innermost last

Init == scopes = << <<>> >>

inner == scopes[Len(scopes)]
Outer == SubSeq(scopes, 1, Len(scopes) - 1)
WithInner(s) == [scopes EXCEPT ![Len(scopes)] = s]

Open == scopes # <<>> /\ scopes' = Append(scopes, <<>>)

Close == scopes # <<>> /\ scopes' = Outer

Bind(k, v) ==
  scopes # <<>> /\ scopes' = WithInner(Append(inner, [key |-> k, value |-> v]))

\* The latest binding undone by hand; in an empty scope, its opening.
Undo ==
  \/ scopes # <<>> /\ inner # <<>>
     /\ scopes' = WithInner(SubSeq(inner, 1, Len(inner) - 1))
  \/ Len(scopes) > 1 /\ inner = <<>> /\ scopes' = Outer

\* The latest binding of k is the d-th of scope i.
Latest(k, i, d) ==
  /\ i \in DOMAIN scopes /\ d \in DOMAIN scopes[i] /\ scopes[i][d].key = k
  /\ \A e \in DOMAIN scopes[i] : scopes[i][e].key = k => e <= d
  /\ \A j \in (i + 1)..Len(scopes) : \A e \in DOMAIN scopes[j] : scopes[j][e].key # k

Assign(k, v) ==
  \E i \in DOMAIN scopes : \E d \in DOMAIN scopes[i] :
    Latest(k, i, d) /\ scopes' = [scopes EXCEPT ![i][d].value = v]

Next ==
  \/ Open \/ Close \/ Undo
  \/ \E k \in Key, v \in Value \union {Null} : Bind(k, v) \/ Assign(k, v)

Spec == Init /\ [][Next]_scopes
=============================================================================
