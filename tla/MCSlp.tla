------------------------------- MODULE MCSlp ---------------------------------
(***************************************************************************)
(* The three programs of src/straightline/prog1.cc, and every program of   *)
(* up to three statements over small expressions, the first of which gives *)
(* a value to a; and programs at the edges of the arithmetic.              *)
(***************************************************************************)
EXTENDS SlpMeaning

Compound(s1, s2) == [kind |-> "CompoundStm", stm1 |-> s1, stm2 |-> s2]
Assign(id, e) == [kind |-> "AssignStm", id |-> id, exp |-> e]
PrintOf(l) == [kind |-> "PrintStm", exps |-> l]
Var(id) == [kind |-> "IdExp", id |-> id]
Num(n) == [kind |-> "NumExp", num |-> n]
Op(l, o, r) == [kind |-> "OpExp", left |-> l, oper |-> o, right |-> r]
Eseq(s, e) == [kind |-> "EseqExp", stm |-> s, exp |-> e]
Pair(e, l) == [kind |-> "PairExpList", exp |-> e, tail |-> l]
LastOf(e) == [kind |-> "LastExpList", exp |-> e]

A == Var("a")
B == Var("b")
Ids == {"a", "b"}

\* prog1.cc
TenA == Op(Num(10), "TIMES", A)
Shown(l) == Assign("b", Eseq(PrintOf(l), TenA))
ALessOne == LastOf(Op(A, "MINUS", Num(1)))
Prog == Compound(Assign("a", Op(Num(5), "PLUS", Num(3))),
                 Compound(Shown(Pair(A, ALessOne)), PrintOf(LastOf(B))))
ProgProg == Compound(Prog,
              Compound(Assign("a", Op(Num(5), "PLUS", B)),
                Compound(Shown(Pair(A, Pair(A, ALessOne))), PrintOf(LastOf(B)))))
RightProg == Compound(ProgProg, Assign("a", Eseq(Assign("a", Op(A, "PLUS", B)), A)))

\* Small programs
Atoms == {A, Num(2)}
Simple == {Assign(i, e) : i \in Ids, e \in Atoms}
            \union {PrintOf(LastOf(e)) : e \in Atoms}
            \union {PrintOf(Pair(e, LastOf(A))) : e \in Atoms}
SmallExps == {Op(e, o, A) : e \in Atoms, o \in {"PLUS", "DIV"}}
               \union {Eseq(s, e) : s \in Simple, e \in {A, B}}
               \union {Op(A, "MINUS", Eseq(s, B)) : s \in Simple}
SmallStms == Simple \union {Assign(i, e) : i \in Ids, e \in SmallExps}
                    \union {PrintOf(LastOf(e)) : e \in SmallExps}
                    \union {PrintOf(Pair(e, LastOf(A))) : e \in SmallExps}
AIs3(s) == Compound(Assign("a", Num(3)), s)
Small == Simple \union {AIs3(s) : s \in SmallStms}
                \union {AIs3(Compound(s1, s2)) : s1 \in Simple, s2 \in SmallStms}
                \union {Compound(AIs3(s1), s2) : s1, s2 \in Simple}

\* A divisor that is assigned twice, and one that is printed before the division
Sevenths == Op(Num(7), "DIV", A)
Divisors == {0, 5}
Divisions ==
  {Compound(Assign("a", Num(d)), Compound(Assign("a", Num(e)), Assign("b", Sevenths))) :
     d, e \in Divisors}
    \union {Compound(Assign("a", Num(d)), PrintOf(Pair(A, LastOf(Sevenths)))) :
              d \in Divisors}

\* Overflow, a division by zero, a quotient rounded towards zero, one that is no int
Edges == {Compound(Assign("a", e), Assign("b", Op(A, o, d))) :
            e \in {Num(60), Op(Num(1), "MINUS", Num(60)),
                   Op(Op(Num(-32), "TIMES", Num(32)), "TIMES", Num(2))},
            o \in {"TIMES", "DIV"},
            d \in {A, Num(0), Num(-1), Num(7)}}

Sample == {Prog, ProgProg, RightProg} \union Small \union Edges \union Divisions

\* The objects of all these programs, and how deep each is.
RECURSIVE WithParts(_), Deep(_)
WithParts(S) ==
  LET parts == UNION {Children(n) : n \in S}
  IN  IF parts = {} THEN S ELSE S \union WithParts(parts)
Deep(n) == IF Children(n) = {} THEN 0 ELSE 1 + Max({Deep(c) : c \in Children(n)})

SampleTrees == WithParts(Sample)
SampleDepths == [n \in SampleTrees |-> Deep(n)]

\* The constants, as names of the above: TLC evaluates a definition once, but one that
\* stands for a constant again and again.
AllPrograms == Sample
AllTrees == SampleTrees
Depths == SampleDepths
=============================================================================
