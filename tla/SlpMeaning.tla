----------------------------- MODULE SlpMeaning ------------------------------
(***************************************************************************)
(* What a straight-line program means, by recursion on its tree, as the    *)
(* reference the interpreter of Slp is checked against; and MaxArgs, the   *)
(* other operation of the tree's classes.                                  *)
(***************************************************************************)
EXTENDS Slp

-----------------------------------------------------------------------------
(* MaxArgs *)

NumExps[n \in Trees] == IF n.kind = "PairExpList" THEN 1 + NumExps[n.tail] ELSE 1

\* The MaxArgs of the statement and expression classes.
MaxArgs[n \in Trees] ==
  CASE n.kind = "CompoundStm" -> Max({MaxArgs[n.stm1], MaxArgs[n.stm2]})
    [] n.kind = "AssignStm"   -> MaxArgs[n.exp]
    [] n.kind = "PrintStm"    -> NumExps[n.exps]
    [] n.kind = "EseqExp"     -> Max({MaxArgs[n.stm], MaxArgs[n.exp]})
    [] OTHER                  -> 1

-----------------------------------------------------------------------------
(* The subtrees of a tree *)

Subtrees[n \in Trees] == {n} \union UNION {Subtrees[c] : c \in Children(n)}

Has(n, kind) == \E m \in Subtrees[n] : m.kind = kind

\* No expression of the program assigns.
AssignsOutside ==
  \A m \in Subtrees[program] : m.kind = "EseqExp" => ~Has(m.stm, "AssignStm")

\* No operand and no argument of a print statement prints.
PrintsOutside ==
  \A m \in Subtrees[program] :
    m.kind \in {"OpExp", "PairExpList", "LastExpList"} => ~Has(m, "PrintStm")

-----------------------------------------------------------------------------
(* The imperative reading: one store, which every assignment changes *)

\* A store has the value of each identifier, if it has been assigned.
Stores == [Id -> SUBSET Int_]
EmptyStore == [x \in Id |-> {}]
Store(s, id, v) == [s EXCEPT ![id] = {v}]

\* What is left of running a part: the store, what was printed, and the value.
Outcome(s, o, v) == [store |-> s, out |-> o, i |-> v]

\* What r leaves when o was printed before it.
After(o, r) == [r EXCEPT !.out = o \o @]

\* A lookup or a division that fails ends the program: any value stands for its own.
Fetched(s, id) == IF s[id] = {} THEN 0 ELSE CHOOSE v \in s[id] : TRUE
Computed(oper, m, n) == IF Traps(oper, m, n) THEN 0 ELSE Apply(oper, m, n)

\* What running n from store s leaves.
Runs[n \in Trees] ==
  [s \in Stores |->
     CASE n.kind = "CompoundStm" ->
            LET first == Runs[n.stm1][s] IN After(first.out, Runs[n.stm2][first.store])
       [] n.kind = "AssignStm" ->
            LET e == Runs[n.exp][s] IN Outcome(Store(e.store, n.id, e.i), e.out, 0)
       [] n.kind = "PrintStm" -> Runs[n.exps][s]
       [] n.kind = "IdExp"  -> Outcome(s, <<>>, Fetched(s, n.id))
       [] n.kind = "NumExp" -> Outcome(s, <<>>, n.num)
       [] n.kind = "OpExp" ->
            LET l == Runs[n.left][s]
                r == Runs[n.right][l.store]
            IN  Outcome(r.store, l.out \o r.out, Computed(n.oper, l.i, r.i))
       [] n.kind = "EseqExp" ->
            LET first == Runs[n.stm][s] IN After(first.out, Runs[n.exp][first.store])
       [] n.kind = "LastExpList" ->
            LET e == Runs[n.exp][s]
            IN  Outcome(e.store, Append(e.out, [i |-> e.i, ends |-> TRUE]), e.i)
       [] n.kind = "PairExpList" ->
            LET e == Runs[n.exp][s]
            IN  After(Append(e.out, [i |-> e.i, ends |-> FALSE]), Runs[n.tail][e.store])]

\* The store a table stands for.
StoreOf(t) == [x \in Id |-> {t[p].value : p \in {q \in DOMAIN t : Lookup(t, x, q)}}]

\* The tables passed around are as good as one store that assignments change: a
\* program whose expressions do not assign, once it has ended, has printed what it
\* prints with a store, in that order, and leaves the store's last contents.
StoreSemantics ==
  status = "done" /\ AssignsOutside =>
    LET meant == Runs[program][EmptyStore]
    IN  out = meant.out /\ StoreOf(ret.t) = meant.store

-----------------------------------------------------------------------------
(* Which identifiers are bound, from the text of the program alone *)

\* The identifiers a statement binds for the statements after it.
Binds[n \in Trees] ==
  CASE n.kind = "CompoundStm" -> Binds[n.stm1] \union Binds[n.stm2]
    [] n.kind = "AssignStm"   -> {n.id}
    [] OTHER                  -> {}

\* The identifiers n mentions where n does not itself bind them.
Free[n \in Trees] ==
  CASE n.kind = "IdExp"       -> {n.id}
    [] n.kind = "CompoundStm" -> Free[n.stm1] \union (Free[n.stm2] \ Binds[n.stm1])
    [] OTHER                  -> UNION {Free[c] : c \in Children(n)}

\* A lookup fails in no program whose identifiers are all assigned by a statement
\* before they are used, the assignments inside expressions left aside; nor does it
\* succeed throughout in a program that ends and has one that is not.
LookupsSucceed ==
  /\ Free[program] = {} => sought = {}
  /\ status = "done" => Free[program] = {}

-----------------------------------------------------------------------------
(* Which programs trap *)

\* Running n from store s, with one store, comes to a division that traps.
Faults[n \in Trees] ==
  [s \in Stores |->
     CASE n.kind = "CompoundStm" ->
            Faults[n.stm1][s] \/ Faults[n.stm2][Runs[n.stm1][s].store]
       [] n.kind = "OpExp" ->
            LET l == Runs[n.left][s]
            IN  \/ Faults[n.left][s] \/ Faults[n.right][l.store]
                \/ Traps(n.oper, l.i, Runs[n.right][l.store].i)
       [] n.kind = "EseqExp" ->
            Faults[n.stm][s] \/ Faults[n.exp][Runs[n.stm][s].store]
       [] n.kind = "PairExpList" ->
            Faults[n.exp][s] \/ Faults[n.tail][Runs[n.exp][s].store]
       [] OTHER -> \E c \in Children(n) : Faults[c][s]]

\* A program whose lookups succeed and whose expressions do not assign is killed by a
\* division exactly when it divides, with one store, by zero or the smallest int by -1:
\* every divisor is the one last assigned.  It has then printed the beginning of what it
\* would print if divisions never failed.
TrapsAsMeant ==
  AssignsOutside /\ Free[program] = {} =>
    /\ status = "done" => ~Faults[program][EmptyStore]
    /\ status = "trapped" =>
         Faults[program][EmptyStore] /\ IsPrefix(out, Runs[program][EmptyStore].out)

-----------------------------------------------------------------------------
(* The lines printed *)

\* The places of a sequence of output after which a line begins.
Breaks(o) == {0} \union {p \in DOMAIN o : o[p].ends}

\* The line that ends with the p-th number has w of them.
Line(o, p, w) ==
  /\ p \in Breaks(o) /\ p - w \in Breaks(o)
  /\ \A q \in (p - w + 1)..(p - 1) : q \notin Breaks(o)

Widths(o) == {w \in 1..Len(o) : \E p \in DOMAIN o : Line(o, p, w)}

\* What MaxArgs counts is the width of the widest line the program prints, if it
\* prints and no print statement is nested in an operand or in another's arguments.
WidestLine ==
  status = "done" /\ PrintsOutside /\ out # <<>> => MaxArgs[program] = Max(Widths(out))
=============================================================================
