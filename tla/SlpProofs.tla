------------------------------ MODULE SlpProofs ------------------------------
(***************************************************************************)
(* Theorems about the interpreter of Slp, for any programs and ints of any *)
(* width: what SlpMeaning says of a program is what the interpreter does.  *)
(***************************************************************************)
EXTENDS SlpMeaning, WellFoundedInduction, TLAPS

-----------------------------------------------------------------------------
(* Recursion on trees *)

\* What the classes have, one by one.
LEMMA PartsOf ==
  ASSUME NEW n \in Trees
  PROVE  /\ Height[n] \in Nat /\ n.kind \in Stms \union Exps \union ExpLists
         /\ Children(n) \subseteq Trees /\ \A c \in Children(n) : Height[c] < Height[n]
         /\ n.kind = "CompoundStm" => /\ Children(n) = {n.stm1, n.stm2}
                                      /\ n.stm1.kind \in Stms /\ n.stm2.kind \in Stms
         /\ n.kind = "AssignStm" => Children(n) = {n.exp} /\ n.id \in Id /\ n.exp.kind \in Exps
         /\ n.kind = "PrintStm" => Children(n) = {n.exps} /\ n.exps.kind \in ExpLists
         /\ n.kind = "IdExp" => Children(n) = {} /\ n.id \in Id
         /\ n.kind = "NumExp" => Children(n) = {} /\ n.num \in Int_
         /\ n.kind = "OpExp" => /\ Children(n) = {n.left, n.right} /\ n.oper \in BinOp
                                /\ n.left.kind \in Exps /\ n.right.kind \in Exps
         /\ n.kind = "EseqExp" => /\ Children(n) = {n.stm, n.exp}
                                  /\ n.stm.kind \in Stms /\ n.exp.kind \in Exps
         /\ n.kind = "PairExpList" => /\ Children(n) = {n.exp, n.tail}
                                      /\ n.exp.kind \in Exps /\ n.tail.kind \in ExpLists
         /\ n.kind = "LastExpList" => Children(n) = {n.exp} /\ n.exp.kind \in Exps
  <1>1. /\ Height[n] \in Nat /\ WellMade(n)
        /\ \A c \in Children(n) : c \in Trees /\ Height[c] < Height[n]
    BY TreesAssumption
  <1>2. n.kind \in Stms \union Exps \union ExpLists
    BY <1>1 DEF WellMade, Stms, Exps, ExpLists
  <1>. QED BY <1>1, <1>2 DEF WellMade, Children

\* A set that has a tree as soon as it has the trees below it has all.
LEMMA TreeInduction ==
  ASSUME NEW G, \A n \in Trees : Children(n) \subseteq G => n \in G
  PROVE  Trees \subseteq G
  <1>0. \A n \in Trees : /\ Height[n] \in Nat
                         /\ \A c \in Children(n) : c \in Trees /\ Height[c] < Height[n]
    BY TreesAssumption
  <1>. DEFINE R == OpToRel(<, Nat)
              H == {Height[n] : n \in Trees \ G}
  <1>. SUFFICES ASSUME H # {} PROVE FALSE
    OBVIOUS
  <1>1. IsWellFoundedOn(R, Nat) /\ H \subseteq Nat
    <2>1. IsWellFoundedOn(R, Nat)
      BY NatLessThanWellFounded
    <2>2. H \subseteq Nat
      <3>. HIDE DEF R
      <3>. QED BY <1>0
    <2>. HIDE DEF R, H
    <2>. QED BY <2>1, <2>2
  <1>2. PICK h \in H : \A k \in H : ~(<<k, h>> \in R)
    <2>. HIDE DEF R, H
    <2>. QED BY <1>1, WFMin
  <1>3. PICK n \in Trees \ G : h = Height[n]
    OBVIOUS
  <1>4. PICK c \in Children(n) : c \notin G
    OBVIOUS
  <1>5. c \in Trees \ G /\ Height[c] < Height[n] /\ Height[c] \in Nat /\ Height[n] \in Nat
    BY <1>0, <1>4
  <1>6. Height[c] \in H /\ <<Height[c], h>> \in R
    BY <1>3, <1>5 DEF OpToRel
  <1>. QED BY <1>2, <1>6

\* F gives the value of a tree from the values of the trees, and looks only at those
\* of the trees below it.
Recursive(V, F) ==
  /\ V # {} /\ F \in [Trees -> [[Trees -> V] -> V]]
  /\ \A n \in Trees : \A g, h \in [Trees -> V] :
       (\A c \in Children(n) : g[c] = h[c]) => F[n][g] = F[n][h]

\* There are values that F gives for one another.
Solvable(V, F) == \E f \in [Trees -> V] : \A n \in Trees : f[n] = F[n][f]

LEMMA Recursion == \A V, F : Recursive(V, F) => Solvable(V, F)
  <1>. SUFFICES ASSUME NEW V, NEW F, Recursive(V, F) PROVE Solvable(V, F)
    OBVIOUS
  <1>r. /\ V # {} /\ F \in [Trees -> [[Trees -> V] -> V]]
        /\ \A n \in Trees : \A g, h \in [Trees -> V] :
             (\A c \in Children(n) : g[c] = h[c]) => F[n][g] = F[n][h]
    BY DEF Recursive
  <1>. DEFINE Ok(k, g) == \A n \in Trees : Height[n] < k => g[n] = F[n][g]
              R == OpToRel(<, Nat)
  <1>0. \A n \in Trees : /\ Height[n] \in Nat
                         /\ \A c \in Children(n) : c \in Trees /\ Height[c] < Height[n]
    BY TreesAssumption
  <1>t. \A n \in Trees : \A g \in [Trees -> V] : F[n][g] \in V
    BY <1>r
  <1>1. ASSUME NEW k \in Nat, NEW g \in [Trees -> V], Ok(k, g)
        PROVE  \E h \in [Trees -> V] : Ok(k + 1, h)
    <2>. DEFINE h == [n \in Trees |-> F[n][g]]
    <2>1. h \in [Trees -> V]
      BY <1>t
    <2>2. ASSUME NEW n \in Trees, Height[n] < k + 1 PROVE h[n] = F[n][h]
      <3>1. \A c \in Children(n) : c \in Trees /\ Height[c] < k
        BY <1>0, <2>2
      <3>2. \A c \in Children(n) : h[c] = g[c]
        BY <1>1, <3>1
      <3>3. F[n][g] = F[n][h]
        <4>. HIDE DEF h
        <4>. QED BY <1>r, <2>1, <3>2
      <3>. QED BY <3>3
    <2>. HIDE DEF h
    <2>. QED BY <2>1, <2>2
  <1>2. ASSUME NEW k \in Nat PROVE \E g \in [Trees -> V] : Ok(k, g)
    <2>. DEFINE N == {j \in Nat : ~\E g \in [Trees -> V] : Ok(j, g)}
    <2>. HIDE DEF Ok
    <2>. SUFFICES ASSUME N # {} PROVE FALSE
      OBVIOUS
    <2>1. IsWellFoundedOn(R, Nat) /\ N \subseteq Nat
      <3>1. IsWellFoundedOn(R, Nat)
        BY NatLessThanWellFounded
      <3>. HIDE DEF R
      <3>. QED BY <3>1
    <2>2. PICK m \in N : \A j \in N : ~(<<j, m>> \in R)
      <3>. HIDE DEF R, N
      <3>. QED BY <2>1, WFMin
    <2>3. CASE m = 0
      <3>1. PICK v \in V : TRUE
        BY <1>r
      <3>2. [n \in Trees |-> v] \in [Trees -> V]
        OBVIOUS
      <3>3. \A g : Ok(0, g)
        BY <1>0 DEF Ok
      <3>. QED BY <2>3, <3>2, <3>3
    <2>4. CASE m # 0
      <3>1. m \in Nat /\ m - 1 \in Nat /\ (m - 1) + 1 = m
        BY <2>4
      <3>2. <<m - 1, m>> \in R
        BY <3>1 DEF OpToRel
      <3>3. m - 1 \notin N
        BY <2>2, <3>2
      <3>. QED BY <1>1, <3>1, <3>3
    <2>. QED BY <2>3, <2>4
  <1>3. ASSUME NEW k \in Nat, NEW g \in [Trees -> V], NEW h \in [Trees -> V], Ok(k, g), Ok(k, h)
        PROVE  \A n \in Trees : Height[n] < k => g[n] = h[n]
    <2>. DEFINE G == {n \in Trees : Height[n] < k => g[n] = h[n]}
    <2>1. \A n \in Trees : Children(n) \subseteq G => n \in G
      <3>. SUFFICES ASSUME NEW n \in Trees, Children(n) \subseteq G, Height[n] < k
                    PROVE  g[n] = h[n]
        OBVIOUS
      <3>1. \A c \in Children(n) : Height[c] < k
        BY <1>0
      <3>2. \A c \in Children(n) : g[c] = h[c]
        BY <3>1
      <3>3. F[n][g] = F[n][h]
        BY <1>r, <3>2
      <3>. QED BY <1>3, <3>3
    <2>2. Trees \subseteq G
      <3>. HIDE DEF G
      <3>. QED BY <2>1, TreeInduction
    <2>. QED BY <2>2
  <1>. DEFINE at(k) == CHOOSE g \in [Trees -> V] : Ok(k, g)
              f == [n \in Trees |-> at(Height[n] + 1)[n]]
  <1>4. \A k \in Nat : at(k) \in [Trees -> V] /\ Ok(k, at(k))
    <2>. HIDE DEF Ok
    <2>. QED BY <1>2
  <1>. HIDE DEF at
  <1>5. f \in [Trees -> V]
    BY <1>0, <1>4
  <1>6. ASSUME NEW n \in Trees PROVE f[n] = F[n][f]
    <2>. DEFINE k == Height[n] + 1
                g == at(k)
    <2>1. k \in Nat /\ g \in [Trees -> V] /\ Ok(k, g) /\ f[n] = g[n] /\ Height[n] < k
      BY <1>0, <1>4
    <2>2. g[n] = F[n][g]
      BY <2>1
    <2>3. ASSUME NEW c \in Children(n) PROVE g[c] = f[c]
      <3>. DEFINE j == Height[c] + 1
      <3>1. c \in Trees /\ j \in Nat /\ Height[c] < j /\ j <= k
        BY <1>0
      <3>2. at(j) \in [Trees -> V] /\ Ok(j, at(j)) /\ f[c] = at(j)[c]
        BY <1>4, <3>1
      <3>3. Ok(j, g)
        BY <1>0, <2>1, <3>1
      <3>. HIDE DEF j, g, Ok
      <3>. QED BY <1>3, <2>1, <3>1, <3>2, <3>3
    <2>. HIDE DEF g, f
    <2>4. F[n][g] = F[n][f]
      BY <1>r, <1>5, <2>1, <2>3
    <2>. QED BY <2>1, <2>2, <2>4
  <1>. HIDE DEF f
  <1>. QED BY <1>5, <1>6 DEF Solvable

-----------------------------------------------------------------------------
(* What SlpMeaning defines by recursion *)

\* The identifiers a statement binds.
LEMMA BindsIs ==
  /\ \A n \in Trees : Binds[n] =
       CASE n.kind = "CompoundStm" -> Binds[n.stm1] \union Binds[n.stm2]
         [] n.kind = "AssignStm"   -> {n.id}
         [] OTHER                  -> {}
  /\ \A n \in Trees : Binds[n] \in SUBSET Id
  <1>. DEFINE Step(g, n) ==
                CASE n.kind = "CompoundStm" -> g[n.stm1] \union g[n.stm2]
                  [] n.kind = "AssignStm"   -> {n.id}
                  [] OTHER                  -> {}
              V == SUBSET Id
              F == [n \in Trees |-> [g \in [Trees -> V] |-> Step(g, n)]]
  <1>1. \A n \in Trees : \A g \in [Trees -> V] : Step(g, n) \in V
    BY PartsOf
  <1>2. \A n \in Trees : \A g, h \in [Trees -> V] :
          (\A c \in Children(n) : g[c] = h[c]) => Step(g, n) = Step(h, n)
    BY PartsOf
  <1>3. Recursive(V, F)
    <2>1. V # {}
      OBVIOUS
    <2>. HIDE DEF Step, V
    <2>. QED BY <1>1, <1>2, <2>1 DEF Recursive
  <1>4. PICK f \in [Trees -> V] : \A n \in Trees : f[n] = Step(f, n)
    <2>1. Solvable(V, F)
      <3>. HIDE DEF V, F
      <3>. QED BY <1>3, Recursion
    <2>. HIDE DEF Step, V
    <2>. QED BY <2>1 DEF Solvable
  <1>5. f = [n \in Trees |-> Step(f, n)]
    <2>. HIDE DEF Step
    <2>. QED BY <1>4
  <1>6. Binds = [n \in Trees |-> Step(Binds, n)]
    BY <1>5 DEF Binds
  <1>7. \A n \in Trees : Binds[n] = Step(Binds, n)
    <2>. HIDE DEF Step
    <2>. QED BY <1>6
  <1>8. \A n \in Trees : Binds[n] \in V
    <2>. DEFINE G == {n \in Trees : Binds[n] \in V}
    <2>1. \A n \in Trees : Children(n) \subseteq G => n \in G
      BY ZenonT(60), <1>7, PartsOf
    <2>2. Trees \subseteq G
      <3>. HIDE DEF G
      <3>. QED BY <2>1, TreeInduction
    <2>. QED BY <2>2
  <1>. QED BY <1>7, <1>8

\* The identifiers a tree needs.
LEMMA FreeIs ==
  /\ \A n \in Trees : Free[n] =
       CASE n.kind = "IdExp"       -> {n.id}
         [] n.kind = "CompoundStm" -> Free[n.stm1] \union (Free[n.stm2] \ Binds[n.stm1])
         [] OTHER                  -> UNION {Free[c] : c \in Children(n)}
  /\ \A n \in Trees : Free[n] \in SUBSET Id
  <1>. DEFINE Step(g, n) ==
                CASE n.kind = "IdExp"       -> {n.id}
                  [] n.kind = "CompoundStm" -> g[n.stm1] \union (g[n.stm2] \ Binds[n.stm1])
                  [] OTHER                  -> UNION {g[c] : c \in Children(n)}
              V == SUBSET Id
              F == [n \in Trees |-> [g \in [Trees -> V] |-> Step(g, n)]]
  <1>1. \A n \in Trees : \A g \in [Trees -> V] : Step(g, n) \in V
    BY PartsOf
  <1>2. \A n \in Trees : \A g, h \in [Trees -> V] :
          (\A c \in Children(n) : g[c] = h[c]) => Step(g, n) = Step(h, n)
    <2>. SUFFICES ASSUME NEW n \in Trees, NEW g \in [Trees -> V], NEW h \in [Trees -> V],
                         \A c \in Children(n) : g[c] = h[c]
                  PROVE  Step(g, n) = Step(h, n)
      OBVIOUS
    <2>1. {g[c] : c \in Children(n)} = {h[c] : c \in Children(n)}
      OBVIOUS
    <2>2. CASE n.kind = "CompoundStm"
      BY <2>2, PartsOf
    <2>. QED BY <2>1, <2>2
  <1>3. Recursive(V, F)
    <2>1. V # {}
      OBVIOUS
    <2>. HIDE DEF Step, V
    <2>. QED BY <1>1, <1>2, <2>1 DEF Recursive
  <1>4. PICK f \in [Trees -> V] : \A n \in Trees : f[n] = Step(f, n)
    <2>1. Solvable(V, F)
      <3>. HIDE DEF V, F
      <3>. QED BY <1>3, Recursion
    <2>. HIDE DEF Step, V
    <2>. QED BY <2>1 DEF Solvable
  <1>5. f = [n \in Trees |-> Step(f, n)]
    <2>. HIDE DEF Step
    <2>. QED BY <1>4
  <1>6. Free = [n \in Trees |-> Step(Free, n)]
    BY ZenonT(60), <1>5 DEF Free
  <1>7. \A n \in Trees : Free[n] = Step(Free, n)
    <2>. HIDE DEF Step
    <2>. QED BY <1>6
  <1>8. \A n \in Trees : Free[n] \in V
    <2>. DEFINE G == {n \in Trees : Free[n] \in V}
    <2>1. \A n \in Trees : Children(n) \subseteq G => n \in G
      <3>. SUFFICES ASSUME NEW n \in Trees, \A c \in Children(n) : Free[c] \subseteq Id
                    PROVE  Step(Free, n) \subseteq Id
        BY <1>7
      <3>1. UNION {Free[c] : c \in Children(n)} \subseteq Id
        OBVIOUS
      <3>2. CASE n.kind = "CompoundStm"
        BY <3>2, PartsOf
      <3>3. CASE n.kind = "IdExp"
        BY <3>3, PartsOf
      <3>. QED BY <3>1, <3>2, <3>3
    <2>2. Trees \subseteq G
      <3>. HIDE DEF G
      <3>. QED BY <2>1, TreeInduction
    <2>. QED BY <2>2
  <1>. QED BY <1>7, <1>8

\* The subtrees of a tree.
LEMMA SubtreesIs ==
  /\ \A n \in Trees : Subtrees[n] =
       {n} \union UNION {Subtrees[c] : c \in Children(n)}
  /\ \A n \in Trees : Subtrees[n] \in SUBSET Trees
  <1>. DEFINE Step(g, n) ==
                {n} \union UNION {g[c] : c \in Children(n)}
              V == SUBSET Trees
              F == [n \in Trees |-> [g \in [Trees -> V] |-> Step(g, n)]]
  <1>1. \A n \in Trees : \A g \in [Trees -> V] : Step(g, n) \in V
    BY PartsOf
  <1>2. \A n \in Trees : \A g, h \in [Trees -> V] :
          (\A c \in Children(n) : g[c] = h[c]) => Step(g, n) = Step(h, n)
    BY PartsOf
  <1>3. Recursive(V, F)
    <2>1. V # {}
      OBVIOUS
    <2>. HIDE DEF Step, V
    <2>. QED BY <1>1, <1>2, <2>1 DEF Recursive
  <1>4. PICK f \in [Trees -> V] : \A n \in Trees : f[n] = Step(f, n)
    <2>1. Solvable(V, F)
      <3>. HIDE DEF V, F
      <3>. QED BY <1>3, Recursion
    <2>. HIDE DEF Step, V
    <2>. QED BY <2>1 DEF Solvable
  <1>5. f = [n \in Trees |-> Step(f, n)]
    <2>. HIDE DEF Step
    <2>. QED BY <1>4
  <1>6. Subtrees = [n \in Trees |-> Step(Subtrees, n)]
    BY <1>5 DEF Subtrees
  <1>7. \A n \in Trees : Subtrees[n] = Step(Subtrees, n)
    <2>. HIDE DEF Step
    <2>. QED BY <1>6
  <1>8. \A n \in Trees : Subtrees[n] \in V
    <2>. DEFINE G == {n \in Trees : Subtrees[n] \in V}
    <2>1. \A n \in Trees : Children(n) \subseteq G => n \in G
      BY <1>7, PartsOf
    <2>2. Trees \subseteq G
      <3>. HIDE DEF G
      <3>. QED BY <2>1, TreeInduction
    <2>. QED BY <2>2
  <1>. QED BY <1>7, <1>8

\* The expressions of a list.
LEMMA NumExpsIs ==
  /\ \A n \in Trees : NumExps[n] =
       IF n.kind = "PairExpList" THEN 1 + NumExps[n.tail] ELSE 1
  /\ \A n \in Trees : NumExps[n] \in Nat
  <1>. DEFINE Step(g, n) ==
                IF n.kind = "PairExpList" THEN 1 + g[n.tail] ELSE 1
              V == Nat
              F == [n \in Trees |-> [g \in [Trees -> V] |-> Step(g, n)]]
  <1>1. \A n \in Trees : \A g \in [Trees -> V] : Step(g, n) \in V
    BY PartsOf
  <1>2. \A n \in Trees : \A g, h \in [Trees -> V] :
          (\A c \in Children(n) : g[c] = h[c]) => Step(g, n) = Step(h, n)
    BY PartsOf
  <1>3. Recursive(V, F)
    <2>1. V # {}
      OBVIOUS
    <2>. HIDE DEF Step, V
    <2>. QED BY <1>1, <1>2, <2>1 DEF Recursive
  <1>4. PICK f \in [Trees -> V] : \A n \in Trees : f[n] = Step(f, n)
    <2>1. Solvable(V, F)
      <3>. HIDE DEF V, F
      <3>. QED BY <1>3, Recursion
    <2>. HIDE DEF Step, V
    <2>. QED BY <2>1 DEF Solvable
  <1>5. f = [n \in Trees |-> Step(f, n)]
    <2>. HIDE DEF Step
    <2>. QED BY <1>4
  <1>6. NumExps = [n \in Trees |-> Step(NumExps, n)]
    BY <1>5 DEF NumExps
  <1>7. \A n \in Trees : NumExps[n] = Step(NumExps, n)
    <2>. HIDE DEF Step
    <2>. QED BY <1>6
  <1>8. \A n \in Trees : NumExps[n] \in V
    <2>. DEFINE G == {n \in Trees : NumExps[n] \in V}
    <2>1. \A n \in Trees : Children(n) \subseteq G => n \in G
      BY <1>7, PartsOf
    <2>2. Trees \subseteq G
      <3>. HIDE DEF G
      <3>. QED BY <2>1, TreeInduction
    <2>. QED BY <2>2
  <1>. QED BY <1>7, <1>8

\* The larger of two numbers.
LEMMA MaxOfTwo ==
  ASSUME NEW a \in Nat, NEW b \in Nat
  PROVE  Max({a, b}) = IF a >= b THEN a ELSE b
  <1>. DEFINE m == IF a >= b THEN a ELSE b
  <1>1. m \in {a, b} /\ \A y \in {a, b} : m >= y
    OBVIOUS
  <1>2. \A x \in {a, b} : (\A y \in {a, b} : x >= y) => x = m
    OBVIOUS
  <1>. HIDE DEF m
  <1>. QED BY <1>1, <1>2 DEF Max, m

\* The arguments of the widest print statement.
LEMMA MaxArgsIs ==
  /\ \A n \in Trees : MaxArgs[n] =
       CASE n.kind = "CompoundStm" -> Max({MaxArgs[n.stm1], MaxArgs[n.stm2]})
         [] n.kind = "AssignStm"   -> MaxArgs[n.exp]
         [] n.kind = "PrintStm"    -> NumExps[n.exps]
         [] n.kind = "EseqExp"     -> Max({MaxArgs[n.stm], MaxArgs[n.exp]})
         [] OTHER                  -> 1
  /\ \A n \in Trees : MaxArgs[n] \in Nat
  <1>. DEFINE Step(g, n) ==
                CASE n.kind = "CompoundStm" -> Max({g[n.stm1], g[n.stm2]})
                  [] n.kind = "AssignStm"   -> g[n.exp]
                  [] n.kind = "PrintStm"    -> NumExps[n.exps]
                  [] n.kind = "EseqExp"     -> Max({g[n.stm], g[n.exp]})
                  [] OTHER                  -> 1
              V == Nat
              F == [n \in Trees |-> [g \in [Trees -> V] |-> Step(g, n)]]
  <1>m. \A x, y \in Nat : Max({x, y}) \in Nat
    BY MaxOfTwo
  <1>0. ASSUME NEW n \in Trees, NEW g, \A c \in Children(n) : g[c] \in Nat
        PROVE  Step(g, n) \in V
    <2>1. CASE n.kind = "CompoundStm"
      BY <1>m, <1>0, <2>1, PartsOf
    <2>2. CASE n.kind = "AssignStm"
      BY <1>0, <2>2, PartsOf
    <2>3. CASE n.kind = "PrintStm"
      BY <2>3, PartsOf, NumExpsIs
    <2>4. CASE n.kind = "EseqExp"
      BY <1>m, <1>0, <2>4, PartsOf
    <2>. QED BY <2>1, <2>2, <2>3, <2>4
  <1>1. \A n \in Trees : \A g \in [Trees -> V] : Step(g, n) \in V
    <2>. SUFFICES ASSUME NEW n \in Trees, NEW g \in [Trees -> V] PROVE Step(g, n) \in V
      OBVIOUS
    <2>1. \A c \in Children(n) : g[c] \in Nat
      BY PartsOf
    <2>. HIDE DEF Step, V
    <2>. QED BY <1>0, <2>1
  <1>2. \A n \in Trees : \A g, h \in [Trees -> V] :
          (\A c \in Children(n) : g[c] = h[c]) => Step(g, n) = Step(h, n)
    <2>. SUFFICES ASSUME NEW n \in Trees, NEW g \in [Trees -> V], NEW h \in [Trees -> V],
                         \A c \in Children(n) : g[c] = h[c]
                  PROVE  Step(g, n) = Step(h, n)
      OBVIOUS
    <2>1. CASE n.kind = "CompoundStm"
      <3>1. g[n.stm1] = h[n.stm1] /\ g[n.stm2] = h[n.stm2]
        BY <2>1, PartsOf
      <3>. QED BY <2>1, <3>1
    <2>2. CASE n.kind = "AssignStm"
      <3>1. g[n.exp] = h[n.exp]
        BY <2>2, PartsOf
      <3>. QED BY <2>2, <3>1
    <2>3. CASE n.kind = "PrintStm"
      BY <2>3
    <2>4. CASE n.kind = "EseqExp"
      <3>1. g[n.stm] = h[n.stm] /\ g[n.exp] = h[n.exp]
        BY <2>4, PartsOf
      <3>. QED BY <2>4, <3>1
    <2>5. CASE n.kind \notin {"CompoundStm", "AssignStm", "PrintStm", "EseqExp"}
      BY <2>5
    <2>. QED BY <2>1, <2>2, <2>3, <2>4, <2>5
  <1>3. Recursive(V, F)
    <2>1. V # {}
      OBVIOUS
    <2>. HIDE DEF Step, V
    <2>. QED BY <1>1, <1>2, <2>1 DEF Recursive
  <1>4. PICK f \in [Trees -> V] : \A n \in Trees : f[n] = Step(f, n)
    <2>1. Solvable(V, F)
      <3>. HIDE DEF V, F
      <3>. QED BY <1>3, Recursion
    <2>. HIDE DEF Step, V
    <2>. QED BY <2>1 DEF Solvable
  <1>5. f = [n \in Trees |-> Step(f, n)]
    <2>. HIDE DEF Step
    <2>. QED BY <1>4
  <1>6. MaxArgs = [n \in Trees |-> Step(MaxArgs, n)]
    BY <1>5 DEF MaxArgs
  <1>7. \A n \in Trees : MaxArgs[n] = Step(MaxArgs, n)
    <2>. HIDE DEF Step
    <2>. QED BY <1>6
  <1>8. \A n \in Trees : MaxArgs[n] \in V
    <2>. DEFINE G == {n \in Trees : MaxArgs[n] \in V}
    <2>1. \A n \in Trees : Children(n) \subseteq G => n \in G
      <3>. SUFFICES ASSUME NEW n \in Trees, Children(n) \subseteq G PROVE Step(MaxArgs, n) \in V
        BY <1>7
      <3>1. \A c \in Children(n) : MaxArgs[c] \in Nat
        OBVIOUS
      <3>. HIDE DEF Step, V
      <3>. QED BY <1>0, <3>1
    <2>2. Trees \subseteq G
      <3>. HIDE DEF G
      <3>. QED BY <2>1, TreeInduction
    <2>. QED BY <2>2
  <1>. QED BY <1>7, <1>8

-----------------------------------------------------------------------------
(* The activations *)

Value == [i : Int_, t : TableType]
Frame == [node : Trees, t : TableType, left : Value \union {None}]
Printed == [i : Int_, ends : BOOLEAN]

\* The activations that wait for a call to return.
Waiting == IF ret = None THEN Front(frames) ELSE frames

\* Only an operation keeps an operand, and it does so while it waits for the other.
FramesOK ==
  /\ frames \in Seq(Frame)
  /\ ret \in Value \union {None}
  /\ \A j \in DOMAIN frames : frames[j].left # None => frames[j].node.kind = "OpExp"
  /\ ret = None => frames # <<>> /\ Top.left = None

TypeInv ==
  /\ program \in Programs
  /\ FramesOK
  /\ out \in Seq(Printed)
  /\ status \in {"running", "done", "crashed", "aborted", "trapped"}
  /\ assigned \in SUBSET Id
  /\ sought \in SUBSET Id
  /\ status = "done" => frames = <<>>

LEMMA ElementOf ==
  ASSUME NEW S, NEW s \in Seq(S), NEW p \in DOMAIN s
  PROVE  s[p] \in S /\ p \in Nat /\ p >= 1 /\ p <= Len(s)
  OBVIOUS

\* A stack and its top.
LEMMA Pushed ==
  ASSUME NEW S, NEW s \in Seq(S), NEW a \in S
  PROVE  /\ Append(s, a) \in Seq(S) /\ Append(s, a) # <<>> /\ Len(Append(s, a)) = Len(s) + 1
         /\ Front(Append(s, a)) = s /\ Last(Append(s, a)) = a
         /\ Append(s, a)[Len(s) + 1] = a
         /\ \A j \in DOMAIN s : j \in DOMAIN Append(s, a) /\ Append(s, a)[j] = s[j]
  <1>1. Front(Append(s, a)) = s
    BY DEF Front
  <1>2. /\ Append(s, a) \in Seq(S) /\ Len(Append(s, a)) = Len(s) + 1 /\ Len(s) \in Nat
        /\ Append(s, a)[Len(s) + 1] = a
        /\ \A j \in 1..Len(s) : j \in 1..(Len(s) + 1) /\ Append(s, a)[j] = s[j]
    OBVIOUS
  <1>3. Append(s, a) # <<>> /\ Last(Append(s, a)) = a
    BY <1>2 DEF Last
  <1>. QED BY <1>1, <1>2, <1>3

LEMMA Stacks ==
  ASSUME NEW S, NEW s \in Seq(S), s # <<>>
  PROVE  /\ Front(s) \in Seq(S) /\ Last(s) \in S /\ s = Append(Front(s), Last(s))
         /\ Len(s) \in DOMAIN s /\ Last(s) = s[Len(s)]
         /\ Len(s) \in Nat /\ Len(Front(s)) = Len(s) - 1
         /\ \A j \in DOMAIN Front(s) : j \in DOMAIN s /\ Front(s)[j] = s[j]
  <1>1. s = Append(Front(s), Last(s)) /\ Front(s) \in Seq(S)
    BY DEF Front, Last
  <1>. QED BY <1>1 DEF Front, Last

\* A value is no None.
LEMMA ValueIsSome ==
  ASSUME NEW v \in Value PROVE v # None /\ v.i \in Int_ /\ v.t \in TableType
  <1>1. "i" \in DOMAIN v /\ "i" \notin DOMAIN None
    BY DEF Value, None
  <1>. QED BY <1>1 DEF Value

\* A value made of its parts.
LEMMA ValueOf ==
  ASSUME NEW i \in Int_, NEW t \in TableType
  PROVE  [i |-> i, t |-> t] \in Value
  BY DEF Value

LEMMA ActivationOK ==
  ASSUME NEW n \in Trees, NEW t \in TableType
  PROVE  /\ Activation(n, t) \in Frame /\ Activation(n, t).left = None
         /\ Activation(n, t).node = n /\ Activation(n, t).t = t
  BY DEF Activation, Frame

LEMMA CallMoves ==
  ASSUME FramesOK, ret = None, NEW n \in Trees, Call(n, Top.t)
  PROVE  /\ FramesOK' /\ Top \in Frame
         /\ Waiting' = Append(Waiting, Top) /\ Waiting \in Seq(Frame)
         /\ ret' = None /\ Top' = Activation(n, Top.t)
  <1>1. frames \in Seq(Frame) /\ frames # <<>> /\ ret' = None
        /\ frames' = Append(frames, Activation(n, Top.t))
    BY DEF FramesOK, Call
  <1>2. Top \in Frame /\ Front(frames) \in Seq(Frame) /\ frames = Append(Front(frames), Top)
    BY <1>1, Stacks DEF Top
  <1>3. Top.t \in TableType
    BY <1>2 DEF Frame
  <1>4. Activation(n, Top.t) \in Frame /\ Activation(n, Top.t).left = None
    BY <1>3, ActivationOK
  <1>5. Top' = Activation(n, Top.t) /\ Front(frames') = frames /\ frames' \in Seq(Frame)
        /\ frames' # <<>>
    <2>1. Last(frames') = Activation(n, Top.t) /\ Front(frames') = frames
          /\ frames' \in Seq(Frame) /\ frames' # <<>>
      BY <1>1, <1>4, Pushed
    <2>. QED BY <2>1 DEF Top, Last
  <1>6. \A j \in DOMAIN frames' : frames'[j].left # None => frames'[j].node.kind = "OpExp"
    <2>. SUFFICES ASSUME NEW j \in DOMAIN frames', frames'[j].left # None
                  PROVE  frames'[j].node.kind = "OpExp"
      OBVIOUS
    <2>1. j \in 1..(Len(frames) + 1)
      BY <1>1, <1>5
    <2>2. CASE j \in DOMAIN frames
      BY <1>1, <2>2 DEF FramesOK
    <2>3. CASE j = Len(frames) + 1
      BY <1>1, <1>4, <2>3
    <2>. QED BY <1>1, <2>1, <2>2, <2>3
  <1>7. FramesOK'
    BY <1>1, <1>4, <1>5, <1>6 DEF FramesOK
  <1>. QED BY <1>1, <1>2, <1>5, <1>7 DEF Waiting

LEMMA CallInsteadMoves ==
  ASSUME FramesOK, frames # <<>>, NEW n \in Trees, NEW t \in TableType, CallInstead(n, t)
  PROVE  /\ FramesOK' /\ Top \in Frame
         /\ Waiting' = Front(frames) /\ Waiting' \in Seq(Frame)
         /\ ret' = None /\ Top' = Activation(n, t)
  <1>1. frames \in Seq(Frame) /\ ret' = None
        /\ frames' = Append(Front(frames), Activation(n, t))
    BY DEF FramesOK, CallInstead
  <1>2. Top \in Frame /\ Front(frames) \in Seq(Frame)
        /\ \A j \in DOMAIN Front(frames) : j \in DOMAIN frames /\ Front(frames)[j] = frames[j]
    BY <1>1, Stacks DEF Top
  <1>3. Activation(n, t) \in Frame /\ Activation(n, t).left = None
    BY ActivationOK
  <1>4. Top' = Activation(n, t) /\ Front(frames') = Front(frames) /\ frames' \in Seq(Frame)
        /\ frames' # <<>>
    <2>1. Last(frames') = Activation(n, t) /\ Front(frames') = Front(frames)
          /\ frames' \in Seq(Frame) /\ frames' # <<>>
      BY <1>1, <1>2, <1>3, Pushed
    <2>. QED BY <2>1 DEF Top, Last
  <1>5. \A j \in DOMAIN frames' : frames'[j].left # None => frames'[j].node.kind = "OpExp"
    <2>. SUFFICES ASSUME NEW j \in DOMAIN frames', frames'[j].left # None
                  PROVE  frames'[j].node.kind = "OpExp"
      OBVIOUS
    <2>1. j \in 1..(Len(Front(frames)) + 1)
      BY <1>1, <1>2, <1>4
    <2>2. CASE j \in DOMAIN Front(frames)
      BY <1>1, <1>2, <2>2 DEF FramesOK
    <2>3. CASE j = Len(Front(frames)) + 1
      BY <1>1, <1>2, <1>3, <2>3
    <2>. QED BY <1>2, <2>1, <2>2, <2>3
  <1>6. FramesOK'
    BY <1>1, <1>3, <1>4, <1>5 DEF FramesOK
  <1>. QED BY <1>1, <1>2, <1>4, <1>6 DEF Waiting

LEMMA ReturnMoves ==
  ASSUME FramesOK, frames # <<>>, NEW i \in Int_, NEW t \in TableType, Return(i, t)
  PROVE  /\ FramesOK' /\ Top \in Frame
         /\ Waiting' = Front(frames) /\ Waiting' \in Seq(Frame)
         /\ ret' # None /\ ret'.i = i /\ ret'.t = t
  <1>1. frames \in Seq(Frame) /\ ret' = [i |-> i, t |-> t] /\ frames' = Front(frames)
    BY DEF FramesOK, Return
  <1>2. Top \in Frame /\ Front(frames) \in Seq(Frame)
        /\ \A j \in DOMAIN Front(frames) : j \in DOMAIN frames /\ Front(frames)[j] = frames[j]
    BY <1>1, Stacks DEF Top
  <1>3. ret' \in Value /\ ret' # None
    <2>1. ret' \in Value
      BY <1>1, ValueOf
    <2>. QED BY <2>1, ValueIsSome
  <1>4. FramesOK'
    BY <1>1, <1>2, <1>3 DEF FramesOK
  <1>. QED BY <1>1, <1>2, <1>3, <1>4 DEF Waiting

\* The other operand: the operation keeps the first.
LEMMA RightMoves ==
  ASSUME FramesOK, ret # None, OpExpRight
  PROVE  LET kept == [Top EXCEPT !.left = ret]
         IN  /\ FramesOK' /\ Top \in Frame /\ kept \in Frame
             /\ frames # <<>> /\ Waiting = frames /\ Top.left = None /\ Top.node.kind = "OpExp"
             /\ Waiting' = Append(Front(frames), kept) /\ Front(frames) \in Seq(Frame)
             /\ ret' = None /\ Top' = Activation(Top.node.right, ret.t)
             /\ Top.node.right \in Trees /\ ret \in Value
  <1>. DEFINE kept == [Top EXCEPT !.left = ret]
              a == Activation(Top.node.right, ret.t)
  <1>1. /\ frames \in Seq(Frame) /\ frames # <<>> /\ ret \in Value /\ ret' = None
        /\ Top.left = None /\ Top.node.kind = "OpExp"
        /\ frames' = Front(frames) \o <<kept, a>>
    BY DEF FramesOK, OpExpRight, Resumed
  <1>2. Top \in Frame /\ Front(frames) \in Seq(Frame)
        /\ \A j \in DOMAIN Front(frames) : j \in DOMAIN frames /\ Front(frames)[j] = frames[j]
    BY <1>1, Stacks DEF Top
  <1>3. kept \in Frame /\ kept.node = Top.node /\ Top.node \in Trees
    BY <1>1, <1>2 DEF Frame
  <1>4. Top.node.right \in Trees
    BY <1>1, <1>3, PartsOf
  <1>5. a \in Frame /\ a.left = None
    BY <1>1, <1>4, ActivationOK, ValueIsSome
  <1>. DEFINE w == Append(Front(frames), kept)
  <1>6. w \in Seq(Frame) /\ frames' = Append(w, a)
    <2>. HIDE DEF kept, a
    <2>. QED BY <1>1, <1>2, <1>3, <1>5
  <1>7. Top' = a /\ Front(frames') = w /\ frames' \in Seq(Frame) /\ frames' # <<>>
    <2>. HIDE DEF a, w
    <2>1. Last(frames') = a /\ Front(frames') = w /\ frames' \in Seq(Frame) /\ frames' # <<>>
      BY <1>5, <1>6, Pushed
    <2>. QED BY <2>1 DEF Top, Last
  <1>8. \A j \in DOMAIN frames' : frames'[j].left # None => frames'[j].node.kind = "OpExp"
    <2>. SUFFICES ASSUME NEW j \in DOMAIN frames', frames'[j].left # None
                  PROVE  frames'[j].node.kind = "OpExp"
      OBVIOUS
    <2>. DEFINE k == Len(Front(frames))
    <2>0. k \in Nat /\ Len(w) = k + 1 /\ w[k + 1] = kept
          /\ \A l \in 1..k : w[l] = Front(frames)[l]
      <3>. HIDE DEF kept
      <3>. QED BY <1>2, <1>3
    <2>1. j \in 1..(k + 2)
      <3>. HIDE DEF a, w, k
      <3>. QED BY <1>5, <1>6, <1>7, <2>0
    <2>2. CASE j \in 1..k
      <3>1. frames'[j] = frames[j] /\ j \in DOMAIN frames
        <4>. HIDE DEF a, w
        <4>. QED BY <1>2, <1>5, <1>6, <2>0, <2>2
      <3>. QED BY <3>1 DEF FramesOK
    <2>3. CASE j = k + 1
      <3>1. frames'[j] = kept
        <4>. HIDE DEF a, w, k, kept
        <4>. QED BY <1>5, <1>6, <2>0, <2>3
      <3>. HIDE DEF kept
      <3>. QED BY <1>1, <1>3, <3>1
    <2>4. CASE j = k + 2
      <3>1. frames'[j] = a
        <4>. HIDE DEF a, w, k
        <4>. QED BY <1>5, <1>6, <2>0, <2>4
      <3>. HIDE DEF a
      <3>. QED BY <1>5, <3>1
    <2>. QED BY <2>0, <2>1, <2>2, <2>3, <2>4
  <1>9. FramesOK'
    <2>. HIDE DEF a, w
    <2>. QED BY <1>1, <1>5, <1>7, <1>8 DEF FramesOK
  <1>. QED BY <1>1, <1>2, <1>3, <1>4, <1>7, <1>9 DEF Waiting

-----------------------------------------------------------------------------
(* The numbers and the tables *)

LEMMA WrapInts == ASSUME NEW n \in Int PROVE Wrap(n) \in Int_
  <1>. DEFINE w == 2 * (IntMax + 1)
              c == n + IntMax + 1
  <1>1. w \in Int /\ w > 0 /\ c \in Int
    BY IntMaxAssumption
  <1>2. c % w \in 0..(w - 1)
    <2>. HIDE DEF c, w
    <2>. QED BY <1>1
  <1>3. Wrap(n) = (c % w) - (IntMax + 1)
    BY DEF Wrap
  <1>. HIDE DEF c
  <1>. QED BY <1>2, <1>3, IntMaxAssumption DEF Int_

LEMMA ApplyInts ==
  ASSUME NEW oper \in BinOp, NEW m \in Int_, NEW n \in Int_, ~Traps(oper, m, n)
  PROVE  Apply(oper, m, n) \in Int_
  <1>1. m \in Int /\ n \in Int
    BY IntMaxAssumption DEF Int_
  <1>2. m + n \in Int /\ m - n \in Int /\ m * n \in Int
    BY <1>1
  <1>3. oper = "DIV" => Quotient(m, n) \in Int_
    BY DEF Traps
  <1>4. oper \in {"PLUS", "MINUS", "TIMES", "DIV"}
    BY DEF BinOp
  <1>. QED BY <1>2, <1>3, <1>4, WrapInts DEF Apply

LEMMA ComputedInts ==
  ASSUME NEW oper \in BinOp, NEW m \in Int_, NEW n \in Int_
  PROVE  Computed(oper, m, n) \in Int_
  <1>1. 0 \in Int_
    BY IntMaxAssumption DEF Int_
  <1>. QED BY <1>1, ApplyInts DEF Computed

LEMMA UpdateType ==
  ASSUME NEW t \in TableType, NEW id \in Id, NEW v \in Int_
  PROVE  Update(t, id, v) \in TableType
  <1>1. << [id |-> id, value |-> v] >> \in TableType
    BY DEF TableType
  <1>. QED BY <1>1 DEF Update, TableType

LEMMA EntryType ==
  ASSUME NEW t \in TableType, NEW p \in DOMAIN t
  PROVE  t[p].id \in Id /\ t[p].value \in Int_
  <1>1. t[p] \in [id : Id, value : Int_]
    BY ElementOf DEF TableType
  <1>. QED BY <1>1

-----------------------------------------------------------------------------
(* The steps *)

\* What only the end of the process changes.
Stays == UNCHANGED <<program, status, sought>>

\* The activations that wait become w, and n is called with t.
StartsAt(w, n, t) ==
  /\ TypeInv' /\ Stays
  /\ Waiting' = w /\ Waiting' \in Seq(Frame) /\ ret' = None /\ Top' = Activation(n, t)

\* The activations that wait become w, and they are given i and t.
EndsWith(w, i, t) ==
  /\ TypeInv' /\ Stays
  /\ Waiting' = w /\ Waiting' \in Seq(Frame) /\ ret' # None /\ ret'.i = i /\ ret'.t = t

\* An activation has just been called.
CalledOK(kind) ==
  /\ ret = None /\ Waiting = Front(frames) /\ Waiting \in Seq(Frame)
  /\ Top \in Frame /\ Top.node \in Trees /\ Top.t \in TableType /\ Top.left = None
  /\ Top.node.kind = kind /\ status = "running"

\* An activation that waited is resumed.
ResumedOK(kind) ==
  /\ ret \in Value /\ ret # None /\ ret.i \in Int_ /\ ret.t \in TableType
  /\ Waiting = frames /\ frames # <<>> /\ frames \in Seq(Frame)
  /\ Top \in Frame /\ Top.node \in Trees /\ Top.t \in TableType
  /\ Top.node.kind = kind /\ status = "running"

LEMMA CalledIs ==
  ASSUME TypeInv, NEW kind, Called(kind)
  PROVE  CalledOK(kind)
  <1>1. ret = None /\ frames \in Seq(Frame) /\ frames # <<>> /\ Top.node.kind = kind
        /\ status = "running" /\ Top.left = None
    BY DEF TypeInv, FramesOK, Called
  <1>2. Top \in Frame /\ Front(frames) \in Seq(Frame)
    BY <1>1, Stacks DEF Top
  <1>3. Top.node \in Trees /\ Top.t \in TableType
    BY <1>2 DEF Frame
  <1>. QED BY <1>1, <1>2, <1>3 DEF CalledOK, Waiting

LEMMA ResumedIs ==
  ASSUME TypeInv, NEW kind, Resumed(kind)
  PROVE  ResumedOK(kind)
  <1>1. ret \in Value /\ ret # None /\ frames \in Seq(Frame) /\ frames # <<>>
        /\ Top.node.kind = kind /\ status = "running"
    BY DEF TypeInv, FramesOK, Resumed
  <1>2. Top \in Frame
    BY <1>1, Stacks DEF Top
  <1>3. Top.node \in Trees /\ Top.t \in TableType
    BY <1>2 DEF Frame
  <1>. QED BY <1>1, <1>2, <1>3, ValueIsSome DEF ResumedOK, Waiting

\* The variables besides the activations.
RestOK ==
  /\ program \in Programs /\ out \in Seq(Printed)
  /\ status \in {"running", "done", "crashed", "aborted", "trapped"}
  /\ assigned \in SUBSET Id /\ sought \in SUBSET Id
  /\ status = "done" => frames = <<>>

LEMMA QuietKeeps ==
  ASSUME TypeInv, status = "running", Quiet
  PROVE  RestOK' /\ Stays /\ out' = out
  BY DEF TypeInv, Quiet, RestOK, Stays

\* The calls of the part that is run first.
LEMMA CallOK ==
  ASSUME TypeInv, NEW kind, Called(kind), Quiet, NEW n \in Children(Top.node), Call(n, Top.t)
  PROVE  CalledOK(kind) /\ StartsAt(Append(Waiting, Top), n, Top.t) /\ out' = out
  <1>1. CalledOK(kind)
    BY CalledIs
  <1>2. n \in Trees /\ FramesOK /\ ret = None /\ status = "running"
    BY <1>1, PartsOf DEF CalledOK, TypeInv
  <1>3. FramesOK' /\ Waiting' = Append(Waiting, Top) /\ ret' = None
        /\ Top' = Activation(n, Top.t)
    BY <1>2, CallMoves
  <1>4. RestOK' /\ Stays /\ out' = out
    BY <1>2, QuietKeeps
  <1>5. Waiting' \in Seq(Frame)
    <2>1. Append(Waiting, Top) \in Seq(Frame)
      BY <1>1, Pushed DEF CalledOK
    <2>. QED BY <1>3, <2>1
  <1>. QED BY <1>1, <1>3, <1>4, <1>5 DEF StartsAt, TypeInv, RestOK

\* The calls in place of the caller.
LEMMA CallInsteadOK ==
  ASSUME TypeInv, frames # <<>>, NEW n \in Trees, NEW t \in TableType, CallInstead(n, t), RestOK', Stays
  PROVE  StartsAt(Front(frames), n, t)
  <1>1. FramesOK' /\ Waiting' = Front(frames) /\ Waiting' \in Seq(Frame) /\ ret' = None
        /\ Top' = Activation(n, t)
    BY CallInsteadMoves DEF TypeInv
  <1>. QED BY <1>1 DEF StartsAt, TypeInv, RestOK

LEMMA ReturnOK ==
  ASSUME TypeInv, frames # <<>>, NEW i \in Int_, NEW t \in TableType, Return(i, t), RestOK', Stays
  PROVE  EndsWith(Front(frames), i, t)
  <1>1. FramesOK' /\ Waiting' = Front(frames) /\ Waiting' \in Seq(Frame) /\ ret' # None
        /\ ret'.i = i /\ ret'.t = t
    BY ReturnMoves DEF TypeInv
  <1>. QED BY <1>1 DEF EndsWith, TypeInv, RestOK

LEMMA CompoundStmIs ==
  ASSUME TypeInv, CompoundStm
  PROVE  /\ CalledOK("CompoundStm") /\ Top.node.stm1 \in Children(Top.node)
         /\ StartsAt(Append(Waiting, Top), Top.node.stm1, Top.t) /\ out' = out
  <1>1. Called("CompoundStm") /\ Call(Top.node.stm1, Top.t) /\ Quiet
    BY DEF CompoundStm
  <1>2. Top.node.stm1 \in Children(Top.node)
    BY <1>1, CalledIs, PartsOf DEF CalledOK
  <1>. QED BY <1>1, <1>2, CallOK

LEMMA AssignStmIs ==
  ASSUME TypeInv, AssignStm
  PROVE  /\ CalledOK("AssignStm") /\ Top.node.exp \in Children(Top.node)
         /\ StartsAt(Append(Waiting, Top), Top.node.exp, Top.t) /\ out' = out
  <1>1. Called("AssignStm") /\ Call(Top.node.exp, Top.t) /\ Quiet
    BY DEF AssignStm
  <1>2. Top.node.exp \in Children(Top.node)
    BY <1>1, CalledIs, PartsOf DEF CalledOK
  <1>. QED BY <1>1, <1>2, CallOK

LEMMA OpExpIs ==
  ASSUME TypeInv, OpExp
  PROVE  /\ CalledOK("OpExp") /\ Top.node.left \in Children(Top.node)
         /\ StartsAt(Append(Waiting, Top), Top.node.left, Top.t) /\ out' = out
  <1>1. Called("OpExp") /\ Call(Top.node.left, Top.t) /\ Quiet
    BY DEF OpExp
  <1>2. Top.node.left \in Children(Top.node)
    BY <1>1, CalledIs, PartsOf DEF CalledOK
  <1>. QED BY <1>1, <1>2, CallOK

LEMMA EseqExpIs ==
  ASSUME TypeInv, EseqExp
  PROVE  /\ CalledOK("EseqExp") /\ Top.node.stm \in Children(Top.node)
         /\ StartsAt(Append(Waiting, Top), Top.node.stm, Top.t) /\ out' = out
  <1>1. Called("EseqExp") /\ Call(Top.node.stm, Top.t) /\ Quiet
    BY DEF EseqExp
  <1>2. Top.node.stm \in Children(Top.node)
    BY <1>1, CalledIs, PartsOf DEF CalledOK
  <1>. QED BY <1>1, <1>2, CallOK

LEMMA ExpListIs ==
  ASSUME TypeInv, NEW kind \in ExpLists, ExpList(kind)
  PROVE  /\ CalledOK(kind) /\ Top.node.exp \in Children(Top.node)
         /\ StartsAt(Append(Waiting, Top), Top.node.exp, Top.t) /\ out' = out
  <1>1. Called(kind) /\ Call(Top.node.exp, Top.t) /\ Quiet
    BY DEF ExpList
  <1>2. Top.node.exp \in Children(Top.node)
    BY <1>1, CalledIs, PartsOf DEF CalledOK, ExpLists
  <1>. QED BY <1>1, <1>2, CallOK

LEMMA PrintStmIs ==
  ASSUME TypeInv, PrintStm
  PROVE  /\ CalledOK("PrintStm") /\ Top.node.exps \in Children(Top.node)
         /\ StartsAt(Waiting, Top.node.exps, Top.t) /\ out' = out
  <1>1. Called("PrintStm") /\ CallInstead(Top.node.exps, Top.t) /\ Quiet
    BY DEF PrintStm
  <1>2. CalledOK("PrintStm")
    BY <1>1, CalledIs
  <1>3. Top.node.exps \in Children(Top.node) /\ Top.node.exps \in Trees
    BY <1>2, PartsOf DEF CalledOK
  <1>4. RestOK' /\ Stays /\ out' = out /\ frames # <<>>
    BY <1>1, QuietKeeps DEF Called
  <1>5. StartsAt(Front(frames), Top.node.exps, Top.t)
    BY <1>1, <1>2, <1>3, <1>4, CallInsteadOK DEF CalledOK
  <1>. QED BY <1>2, <1>3, <1>4, <1>5 DEF CalledOK

LEMMA IdExpIs ==
  ASSUME TypeInv, IdExp
  PROVE  /\ CalledOK("IdExp") /\ Top.node.id \in Id /\ out' = out
         /\ \E p \in DOMAIN Top.t : /\ Lookup(Top.t, Top.node.id, p)
                                    /\ EndsWith(Waiting, Top.t[p].value, Top.t)
  <1>1. Called("IdExp") /\ Quiet
    BY DEF IdExp
  <1>2. PICK p \in DOMAIN Top.t : Lookup(Top.t, Top.node.id, p) /\ Return(Top.t[p].value, Top.t)
    BY DEF IdExp
  <1>3. CalledOK("IdExp")
    BY <1>1, CalledIs
  <1>4. Top.node.id \in Id /\ Top.t \in TableType
    BY <1>3, PartsOf DEF CalledOK
  <1>5. Top.t[p].value \in Int_
    BY <1>4, EntryType
  <1>6. RestOK' /\ Stays /\ out' = out /\ frames # <<>>
    BY <1>1, QuietKeeps DEF Called
  <1>7. EndsWith(Front(frames), Top.t[p].value, Top.t)
    BY <1>2, <1>4, <1>5, <1>6, ReturnOK
  <1>. QED BY <1>2, <1>3, <1>4, <1>6, <1>7 DEF CalledOK

LEMMA NumExpIs ==
  ASSUME TypeInv, NumExp
  PROVE  CalledOK("NumExp") /\ EndsWith(Waiting, Top.node.num, Top.t) /\ out' = out
  <1>1. Called("NumExp") /\ Quiet /\ Return(Top.node.num, Top.t)
    BY DEF NumExp
  <1>2. CalledOK("NumExp")
    BY <1>1, CalledIs
  <1>3. Top.node.num \in Int_ /\ Top.t \in TableType
    BY <1>2, PartsOf DEF CalledOK
  <1>4. RestOK' /\ Stays /\ out' = out /\ frames # <<>>
    BY <1>1, QuietKeeps DEF Called
  <1>5. EndsWith(Front(frames), Top.node.num, Top.t)
    BY <1>1, <1>3, <1>4, ReturnOK
  <1>. QED BY <1>2, <1>4, <1>5 DEF CalledOK

LEMMA CompoundStmSecondIs ==
  ASSUME TypeInv, CompoundStmSecond
  PROVE  /\ ResumedOK("CompoundStm") /\ Top.node.stm2 \in Children(Top.node)
         /\ StartsAt(Front(frames), Top.node.stm2, ret.t) /\ out' = out
  <1>1. Resumed("CompoundStm") /\ CallInstead(Top.node.stm2, ret.t) /\ Quiet
    BY DEF CompoundStmSecond
  <1>2. ResumedOK("CompoundStm")
    BY <1>1, ResumedIs
  <1>3. Top.node.stm2 \in Children(Top.node) /\ Top.node.stm2 \in Trees
    BY <1>2, PartsOf DEF ResumedOK
  <1>4. RestOK' /\ Stays /\ out' = out /\ frames # <<>>
    BY <1>1, QuietKeeps DEF Resumed
  <1>5. StartsAt(Front(frames), Top.node.stm2, ret.t)
    BY <1>1, <1>2, <1>3, <1>4, CallInsteadOK DEF ResumedOK
  <1>. QED BY <1>2, <1>3, <1>4, <1>5

LEMMA EseqExpEndIs ==
  ASSUME TypeInv, EseqExpEnd
  PROVE  /\ ResumedOK("EseqExp") /\ Top.node.exp \in Children(Top.node)
         /\ StartsAt(Front(frames), Top.node.exp, Top.t) /\ out' = out
  <1>1. Resumed("EseqExp") /\ CallInstead(Top.node.exp, Top.t) /\ Quiet
    BY DEF EseqExpEnd
  <1>2. ResumedOK("EseqExp")
    BY <1>1, ResumedIs
  <1>3. Top.node.exp \in Children(Top.node) /\ Top.node.exp \in Trees
    BY <1>2, PartsOf DEF ResumedOK
  <1>4. RestOK' /\ Stays /\ out' = out /\ frames # <<>>
    BY <1>1, QuietKeeps DEF Resumed
  <1>5. StartsAt(Front(frames), Top.node.exp, Top.t)
    BY <1>1, <1>2, <1>3, <1>4, CallInsteadOK DEF ResumedOK
  <1>. QED BY <1>2, <1>3, <1>4, <1>5

LEMMA AssignStmEndIs ==
  ASSUME TypeInv, AssignStmEnd
  PROVE  /\ ResumedOK("AssignStm") /\ Top.node.id \in Id /\ out' = out
         /\ EndsWith(Front(frames), 0, Update(Top.t, Top.node.id, ret.i))
  <1>1. Resumed("AssignStm") /\ Return(0, Update(Top.t, Top.node.id, ret.i))
    BY DEF AssignStmEnd, ReturnTable
  <1>2. ResumedOK("AssignStm")
    BY <1>1, ResumedIs
  <1>3. Top.node.id \in Id /\ Top.t \in TableType /\ ret.i \in Int_
    BY <1>2, PartsOf DEF ResumedOK
  <1>4. Update(Top.t, Top.node.id, ret.i) \in TableType
    BY <1>3, UpdateType
  <1>5. RestOK' /\ Stays /\ out' = out /\ frames # <<>> /\ 0 \in Int_
    BY <1>1, <1>3, IntMaxAssumption DEF Stays, Resumed, AssignStmEnd, TypeInv, RestOK, Int_
  <1>6. EndsWith(Front(frames), 0, Update(Top.t, Top.node.id, ret.i))
    BY <1>1, <1>4, <1>5, ReturnOK
  <1>. QED BY <1>2, <1>3, <1>5, <1>6

LEMMA OpExpApplyIs ==
  ASSUME TypeInv, OpExpApply
  PROVE  /\ ResumedOK("OpExp") /\ Top.left \in Value /\ Top.left # None
         /\ ~Traps(Top.node.oper, Top.left.i, ret.i) /\ out' = out
         /\ EndsWith(Front(frames), Apply(Top.node.oper, Top.left.i, ret.i), ret.t)
  <1>1. /\ Resumed("OpExp") /\ ~Traps(Top.node.oper, Top.left.i, ret.i) /\ Quiet
        /\ Return(Apply(Top.node.oper, Top.left.i, ret.i), ret.t) /\ Top.left # None
    BY DEF OpExpApply
  <1>2. ResumedOK("OpExp")
    BY <1>1, ResumedIs
  <1>3. Top.left \in Value /\ Top.node.oper \in BinOp /\ ret.i \in Int_ /\ ret.t \in TableType
    BY <1>1, <1>2, PartsOf DEF ResumedOK, Frame
  <1>4. Apply(Top.node.oper, Top.left.i, ret.i) \in Int_
    BY <1>1, <1>3, ApplyInts, ValueIsSome
  <1>5. RestOK' /\ Stays /\ out' = out /\ frames # <<>>
    BY <1>1, QuietKeeps DEF Resumed
  <1>6. EndsWith(Front(frames), Apply(Top.node.oper, Top.left.i, ret.i), ret.t)
    BY <1>1, <1>3, <1>4, <1>5, ReturnOK
  <1>. QED BY <1>1, <1>2, <1>3, <1>5, <1>6

LEMMA OpExpRightIs ==
  ASSUME TypeInv, OpExpRight
  PROVE  /\ ResumedOK("OpExp") /\ Top.left = None /\ Top.node.right \in Children(Top.node)
         /\ [Top EXCEPT !.left = ret] \in Frame /\ out' = out
         /\ StartsAt(Append(Front(frames), [Top EXCEPT !.left = ret]), Top.node.right, ret.t)
  <1>. DEFINE kept == [Top EXCEPT !.left = ret]
  <1>1. Resumed("OpExp") /\ Quiet
    BY DEF OpExpRight
  <1>2. ResumedOK("OpExp")
    BY <1>1, ResumedIs
  <1>3. /\ FramesOK' /\ kept \in Frame /\ Top.left = None
        /\ Waiting' = Append(Front(frames), kept) /\ Front(frames) \in Seq(Frame)
        /\ ret' = None /\ Top' = Activation(Top.node.right, ret.t)
    BY <1>2, RightMoves DEF TypeInv, ResumedOK
  <1>4. RestOK' /\ Stays /\ out' = out /\ Top.node.right \in Children(Top.node)
    BY <1>1, <1>2, QuietKeeps, PartsOf DEF Resumed, ResumedOK
  <1>5. Waiting' \in Seq(Frame)
    <2>. HIDE DEF kept
    <2>1. Append(Front(frames), kept) \in Seq(Frame)
      BY <1>3, Pushed
    <2>. QED BY <1>3, <2>1
  <1>. HIDE DEF kept
  <1>6. StartsAt(Append(Front(frames), kept), Top.node.right, ret.t)
    BY <1>3, <1>4, <1>5 DEF StartsAt, TypeInv, RestOK
  <1>. QED BY <1>2, <1>3, <1>4, <1>6 DEF kept

LEMMA PrintedType ==
  ASSUME out \in Seq(Printed), NEW i \in Int_, NEW ends \in BOOLEAN, Output(i, ends)
  PROVE  out' \in Seq(Printed) /\ [i |-> i, ends |-> ends] \in Printed
  BY DEF Output, Printed

LEMMA LastExpListEndIs ==
  ASSUME TypeInv, LastExpListEnd
  PROVE  ResumedOK("LastExpList") /\ Output(ret.i, TRUE) /\ EndsWith(Front(frames), ret.i, ret.t)
  <1>1. Resumed("LastExpList") /\ Output(ret.i, TRUE) /\ Return(ret.i, ret.t)
        /\ UNCHANGED <<program, status, assigned, sought>>
    BY DEF LastExpListEnd
  <1>2. ResumedOK("LastExpList")
    BY <1>1, ResumedIs
  <1>3. out' \in Seq(Printed)
    BY <1>1, <1>2, PrintedType DEF ResumedOK, TypeInv
  <1>4. RestOK' /\ Stays /\ frames # <<>>
    BY <1>1, <1>3 DEF Stays, RestOK, TypeInv, Resumed
  <1>5. EndsWith(Front(frames), ret.i, ret.t)
    BY <1>1, <1>2, <1>4, ReturnOK DEF ResumedOK
  <1>. QED BY <1>1, <1>2, <1>5

LEMMA PairExpListTailIs ==
  ASSUME TypeInv, PairExpListTail
  PROVE  /\ ResumedOK("PairExpList") /\ Output(ret.i, FALSE)
         /\ Top.node.tail \in Children(Top.node)
         /\ StartsAt(Front(frames), Top.node.tail, ret.t)
  <1>1. Resumed("PairExpList") /\ Output(ret.i, FALSE) /\ CallInstead(Top.node.tail, ret.t)
        /\ UNCHANGED <<program, status, assigned, sought>>
    BY DEF PairExpListTail
  <1>2. ResumedOK("PairExpList")
    BY <1>1, ResumedIs
  <1>3. out' \in Seq(Printed)
    BY <1>1, <1>2, PrintedType DEF ResumedOK, TypeInv
  <1>4. RestOK' /\ Stays /\ frames # <<>>
    BY <1>1, <1>3 DEF Stays, RestOK, TypeInv, Resumed
  <1>5. Top.node.tail \in Children(Top.node) /\ Top.node.tail \in Trees
    BY <1>2, PartsOf DEF ResumedOK
  <1>6. StartsAt(Front(frames), Top.node.tail, ret.t)
    BY <1>1, <1>2, <1>4, <1>5, CallInsteadOK DEF ResumedOK
  <1>. QED BY <1>1, <1>2, <1>5, <1>6

\* The steps that end the process, and its return to main.
LEMMA IdExpUnboundIs ==
  ASSUME TypeInv, IdExpUnbound
  PROVE  /\ TypeInv' /\ status' \in {"crashed", "aborted"}
         /\ CalledOK("IdExp") /\ ~Bound(Top.t, Top.node.id)
         /\ sought' = {Top.node.id} /\ program' = program
  <1>1. Called("IdExp") /\ status' \in {"crashed", "aborted"} /\ sought' = {Top.node.id}
        /\ UNCHANGED <<program, frames, ret, out, assigned>> /\ ~Bound(Top.t, Top.node.id)
    BY DEF IdExpUnbound, Dies
  <1>2. CalledOK("IdExp")
    BY <1>1, CalledIs
  <1>3. Top.node.id \in Id
    BY <1>2, PartsOf DEF CalledOK
  <1>4. FramesOK'
    BY <1>1 DEF TypeInv, FramesOK, Top, Last
  <1>. QED BY <1>1, <1>2, <1>3, <1>4 DEF TypeInv

LEMMA OpExpTrapIs ==
  ASSUME TypeInv, OpExpTrap
  PROVE  TypeInv' /\ status = "running" /\ status' = "trapped" /\ UNCHANGED <<program, sought>>
  <1>1. status = "running" /\ status' = "trapped" /\ sought' = sought
        /\ UNCHANGED <<program, frames, ret, out, assigned>>
    BY DEF OpExpTrap, Dies, Resumed
  <1>2. FramesOK'
    BY <1>1 DEF TypeInv, FramesOK, Top, Last
  <1>. QED BY <1>1, <1>2 DEF TypeInv

LEMMA DoneIs ==
  ASSUME TypeInv, Done
  PROVE  /\ TypeInv' /\ status = "running" /\ status' = "done" /\ frames = <<>> /\ ret # None
         /\ Waiting = <<>> /\ ret \in Value /\ UNCHANGED <<program, out, ret, sought>>
  <1>1. status = "running" /\ status' = "done" /\ frames = <<>>
        /\ UNCHANGED <<program, frames, ret, out, assigned, sought>>
    BY DEF Done
  <1>2. FramesOK' /\ ret # None /\ ret \in Value
    BY <1>1 DEF TypeInv, FramesOK, Top, Last
  <1>. QED BY <1>1, <1>2 DEF TypeInv, Waiting

LEMMA TypeInit == SlpInit => TypeInv
  <1>. SUFFICES ASSUME SlpInit PROVE TypeInv
    OBVIOUS
  <1>. DEFINE a == Activation(program, <<>>)
  <1>1. program \in Trees /\ program \in Programs
    BY ProgramsAssumption DEF SlpInit
  <1>2. <<>> \in TableType
    BY DEF TableType
  <1>3. a \in Frame /\ a.left = None
    BY <1>1, <1>2, ActivationOK
  <1>4. frames = <<a>> /\ ret = None /\ out = <<>> /\ status = "running"
        /\ assigned = {} /\ sought = {}
    BY DEF SlpInit
  <1>. HIDE DEF a
  <1>5. frames \in Seq(Frame) /\ frames # <<>> /\ Len(frames) = 1 /\ frames[1] = a
    BY <1>3, <1>4
  <1>6. FramesOK
    BY <1>3, <1>4, <1>5 DEF FramesOK, Top, Last
  <1>. QED BY <1>1, <1>4, <1>6 DEF TypeInv

LEMMA TypeStep == TypeInv /\ [SlpNext]_slpVars => TypeInv'
  <1>. SUFFICES ASSUME TypeInv, [SlpNext]_slpVars PROVE TypeInv'
    OBVIOUS
  <1>1. CASE CompoundStm
    BY <1>1, CompoundStmIs DEF StartsAt
  <1>2. CASE CompoundStmSecond
    BY <1>2, CompoundStmSecondIs DEF StartsAt
  <1>3. CASE AssignStm
    BY <1>3, AssignStmIs DEF StartsAt
  <1>4. CASE AssignStmEnd
    BY <1>4, AssignStmEndIs DEF EndsWith
  <1>5. CASE PrintStm
    BY <1>5, PrintStmIs DEF StartsAt
  <1>6. CASE IdExp
    BY <1>6, IdExpIs DEF EndsWith
  <1>7. CASE IdExpUnbound
    BY <1>7, IdExpUnboundIs
  <1>8. CASE NumExp
    BY <1>8, NumExpIs DEF EndsWith
  <1>9. CASE OpExp
    BY <1>9, OpExpIs DEF StartsAt
  <1>10. CASE OpExpRight
    BY <1>10, OpExpRightIs DEF StartsAt
  <1>11. CASE OpExpApply
    BY <1>11, OpExpApplyIs DEF EndsWith
  <1>12. CASE OpExpTrap
    BY <1>12, OpExpTrapIs
  <1>13. CASE EseqExp
    BY <1>13, EseqExpIs DEF StartsAt
  <1>14. CASE EseqExpEnd
    BY <1>14, EseqExpEndIs DEF StartsAt
  <1>15. CASE ExpList("LastExpList") \/ ExpList("PairExpList")
    BY <1>15, ExpListIs DEF StartsAt, ExpLists
  <1>16. CASE LastExpListEnd
    BY <1>16, LastExpListEndIs DEF EndsWith
  <1>17. CASE PairExpListTail
    BY <1>17, PairExpListTailIs DEF StartsAt
  <1>18. CASE Done
    BY <1>18, DoneIs
  <1>19. CASE UNCHANGED slpVars
    BY <1>19 DEF slpVars, TypeInv, FramesOK, Top, Last
  <1>. QED BY <1>1, <1>2, <1>3, <1>4, <1>5, <1>6, <1>7, <1>8, <1>9, <1>10, <1>11, <1>12, <1>13,
              <1>14, <1>15, <1>16, <1>17, <1>18, <1>19 DEF SlpNext, SlpStep

LEMMA TypeInvAlways == SlpSpec => []TypeInv
  BY TypeInit, TypeStep, PTL DEF SlpSpec

\* The types, whatever the program: a number kept in a table, returned or printed fits
\* an int, whatever overflowed on the way to it.
THEOREM SlpTypeCorrect == SlpSpec => []SlpTypeOK
  <1>1. TypeInv => SlpTypeOK
    <2>. SUFFICES ASSUME TypeInv PROVE SlpTypeOK
      OBVIOUS
    <2>1. ASSUME NEW j \in DOMAIN frames
          PROVE  /\ frames[j].node \in Trees /\ frames[j].t \in TableType
                 /\ frames[j].left # None => frames[j].left \in Value
      <3>1. frames[j] \in Frame
        BY ElementOf DEF TypeInv, FramesOK
      <3>. QED BY <3>1 DEF Frame
    <2>2. ret # None => ret \in Value
      BY DEF TypeInv, FramesOK
    <2>. QED BY <2>1, <2>2, ValueIsSome DEF SlpTypeOK, TypeInv, Printed
  <1>. QED BY <1>1, TypeInvAlways, PTL

-----------------------------------------------------------------------------
(* What the waiting activations make of what they are given *)

\* L has <<f, a, b>> if the activation f, given a, itself gives b: the activations w, the
\* last of them given a, give b in the end, by way of the members of X.
Chain(X, L, w, a, b) ==
  \E E \in [Nat -> X] : /\ E[Len(w)] = a /\ E[0] = b
                        /\ \A j \in DOMAIN w : <<w[j], E[j], E[j - 1]>> \in L

LEMMA ChainEmpty ==
  ASSUME NEW X, NEW L, NEW a \in X, NEW b
  PROVE  Chain(X, L, <<>>, a, b) <=> a = b
  <1>1. ASSUME a = b PROVE Chain(X, L, <<>>, a, b)
    <2>. DEFINE E == [j \in Nat |-> a]
    <2>1. E \in [Nat -> X] /\ E[0] = a /\ Len(<<>>) = 0
      OBVIOUS
    <2>. HIDE DEF E
    <2>. QED BY <1>1, <2>1 DEF Chain
  <1>. QED BY <1>1 DEF Chain

LEMMA ChainPush ==
  ASSUME NEW X, NEW L, NEW S, NEW w \in Seq(S), NEW f \in S, NEW a \in X, NEW b, NEW c,
         Chain(X, L, w, c, b), <<f, a, c>> \in L
  PROVE  Chain(X, L, Append(w, f), a, b)
  <1>1. PICK E \in [Nat -> X] : /\ E[Len(w)] = c /\ E[0] = b
                                /\ \A j \in DOMAIN w : <<w[j], E[j], E[j - 1]>> \in L
    BY DEF Chain
  <1>. DEFINE k == Len(w) + 1
              v == Append(w, f)
              G == [E EXCEPT ![k] = a]
  <1>2. Len(w) \in Nat /\ k \in Nat /\ k # 0 /\ Len(v) = k /\ v[k] = f
        /\ \A j \in 1..Len(w) : v[j] = w[j] /\ j \in DOMAIN w
    OBVIOUS
  <1>3. G \in [Nat -> X] /\ G[k] = a /\ \A j \in Nat : j # k => G[j] = E[j]
    BY <1>2
  <1>4. G[Len(w)] = c /\ G[0] = b
    BY <1>1, <1>2, <1>3
  <1>5. ASSUME NEW j \in DOMAIN v PROVE <<v[j], G[j], G[j - 1]>> \in L
    <2>1. j \in 1..k
      BY <1>2
    <2>2. CASE j = k
      <3>1. v[j] = f /\ G[j] = a /\ G[j - 1] = c
        <4>. HIDE DEF v, G
        <4>. QED BY <1>2, <1>3, <1>4, <2>2
      <3>. HIDE DEF v, G
      <3>. QED BY <3>1
    <2>3. CASE j # k
      <3>1. j \in DOMAIN w /\ v[j] = w[j] /\ j - 1 \in Nat /\ j - 1 # k /\ j \in Nat
        <4>. HIDE DEF v, G
        <4>. QED BY <1>2, <2>1, <2>3
      <3>2. G[j] = E[j] /\ G[j - 1] = E[j - 1]
        <4>. HIDE DEF v, G, k
        <4>. QED BY <1>3, <2>3, <3>1
      <3>. HIDE DEF v, G
      <3>. QED BY <1>1, <3>1, <3>2
    <2>. QED BY <2>2, <2>3
  <1>. HIDE DEF v, G
  <1>6. Chain(X, L, v, a, b)
    BY <1>2, <1>3, <1>4, <1>5 DEF Chain
  <1>. QED BY <1>6 DEF v

LEMMA ChainPop ==
  ASSUME NEW X, NEW L, NEW S, NEW w \in Seq(S), w # <<>>, NEW a, NEW b, Chain(X, L, w, a, b)
  PROVE  \E c \in X : <<Last(w), a, c>> \in L /\ Chain(X, L, Front(w), c, b)
  <1>1. PICK E \in [Nat -> X] : /\ E[Len(w)] = a /\ E[0] = b
                                /\ \A j \in DOMAIN w : <<w[j], E[j], E[j - 1]>> \in L
    BY DEF Chain
  <1>. DEFINE k == Len(w) - 1
  <1>2. /\ Len(w) \in DOMAIN w /\ Last(w) = w[Len(w)] /\ Len(Front(w)) = k
        /\ \A j \in DOMAIN Front(w) : j \in DOMAIN w /\ Front(w)[j] = w[j]
    BY Stacks
  <1>3. k \in Nat
    BY <1>2
  <1>4. E[k] \in X /\ <<Last(w), a, E[k]>> \in L
    BY <1>1, <1>2, <1>3
  <1>. HIDE DEF k
  <1>5. Chain(X, L, Front(w), E[k], b)
    BY <1>1, <1>2 DEF Chain
  <1>. QED BY <1>4, <1>5

\* If no activation gives a member of P unless it was given one, neither do all of them.
LEMMA ChainBack ==
  ASSUME NEW X, NEW L, NEW S, NEW w \in Seq(S), NEW a, NEW b, Chain(X, L, w, a, b),
         NEW P, b \in P, \A f, c, d : <<f, c, d>> \in L /\ d \in P => c \in P
  PROVE  a \in P
  <1>1. PICK E \in [Nat -> X] : /\ E[Len(w)] = a /\ E[0] = b
                                /\ \A j \in DOMAIN w : <<w[j], E[j], E[j - 1]>> \in L
    BY DEF Chain
  <1>. DEFINE R == OpToRel(<, Nat)
              N == {j \in 0..Len(w) : E[j] \notin P}
  <1>. SUFFICES ASSUME N # {} PROVE FALSE
    <2>1. Len(w) \in 0..Len(w)
      OBVIOUS
    <2>. QED BY <1>1, <2>1
  <1>2. IsWellFoundedOn(R, Nat)
    BY NatLessThanWellFounded
  <1>3. N \subseteq Nat
    OBVIOUS
  <1>4. PICK m \in N : \A j \in N : ~(<<j, m>> \in R)
    <2>. HIDE DEF R, N
    <2>. QED BY <1>2, <1>3, WFMin
  <1>5. m \in 0..Len(w) /\ E[m] \notin P /\ m # 0
    BY <1>1
  <1>6. m \in DOMAIN w /\ m - 1 \in 0..Len(w) /\ m - 1 \in Nat /\ m \in Nat
    BY <1>5
  <1>7. E[m - 1] \notin P
    BY <1>1, <1>5, <1>6
  <1>8. m - 1 \in N /\ <<m - 1, m>> \in R
    BY <1>6, <1>7 DEF OpToRel
  <1>. QED BY <1>4, <1>8

-----------------------------------------------------------------------------
(* Lookups *)

\* The identifiers a table has.
IdsOf(t) == {t[p].id : p \in DOMAIN t}

LEMMA IdsOfEmpty == IdsOf(<<>>) = {}
  BY DEF IdsOf

LEMMA IdsOfType == ASSUME NEW t \in TableType PROVE IdsOf(t) \in SUBSET Id
  BY EntryType DEF IdsOf

LEMMA IdsOfUpdate ==
  ASSUME NEW t \in TableType, NEW id \in Id, NEW v \in Int_
  PROVE  IdsOf(Update(t, id, v)) = IdsOf(t) \union {id}
  <1>. DEFINE e == [id |-> id, value |-> v]
              u == <<e>> \o t
  <1>1. /\ Len(t) \in Nat /\ DOMAIN t = 1..Len(t) /\ DOMAIN u = 1..(Len(t) + 1) /\ u[1] = e
        /\ \A p \in 1..Len(t) : u[p + 1] = t[p]
    <2>. HIDE DEF e
    <2>. QED BY DEF TableType
  <1>2. e.id = id
    OBVIOUS
  <1>. HIDE DEF e, u
  <1>3. IdsOf(u) \subseteq IdsOf(t) \union {id}
    <2>. SUFFICES ASSUME NEW p \in DOMAIN u PROVE u[p].id \in IdsOf(t) \union {id}
      BY DEF IdsOf
    <2>1. CASE p = 1
      BY <1>1, <1>2, <2>1
    <2>2. CASE p # 1
      <3>1. p - 1 \in 1..Len(t) /\ (p - 1) + 1 = p
        BY <1>1, <2>2
      <3>2. u[p] = t[p - 1] /\ p - 1 \in DOMAIN t
        BY <1>1, <3>1
      <3>. QED BY <3>2 DEF IdsOf
    <2>. QED BY <2>1, <2>2
  <1>4. id \in IdsOf(u)
    <2>1. 1 \in DOMAIN u
      BY <1>1
    <2>. QED BY <1>1, <1>2, <2>1 DEF IdsOf
  <1>5. ASSUME NEW p \in DOMAIN t PROVE t[p].id \in IdsOf(u)
    <2>1. p + 1 \in DOMAIN u /\ u[p + 1] = t[p]
      BY <1>1
    <2>. QED BY <2>1 DEF IdsOf
  <1>6. IdsOf(t) \subseteq IdsOf(u)
    BY <1>5 DEF IdsOf
  <1>. QED BY <1>3, <1>4, <1>6 DEF Update, u, e

LEMMA BoundIs ==
  ASSUME NEW t, NEW x
  PROVE  /\ Bound(t, x) <=> x \in IdsOf(t)
         /\ \A p \in DOMAIN t : Lookup(t, x, p) => x \in IdsOf(t)
  BY DEF Bound, Lookup, IdsOf

\* What is bound and free, class by class.
LEMMA BindsParts ==
  ASSUME NEW n \in Trees
  PROVE  /\ n.kind = "CompoundStm" => Binds[n] = Binds[n.stm1] \union Binds[n.stm2]
         /\ n.kind = "AssignStm" => Binds[n] = {n.id}
         /\ n.kind \notin {"CompoundStm", "AssignStm"} => Binds[n] = {}
         /\ n.kind \in Exps \union ExpLists => Binds[n] = {}
         /\ Binds[n] \in SUBSET Id
  BY BindsIs DEF Exps, ExpLists

LEMMA FreeParts ==
  ASSUME NEW n \in Trees
  PROVE  /\ n.kind = "CompoundStm" =>
              Free[n] = Free[n.stm1] \union (Free[n.stm2] \ Binds[n.stm1])
         /\ n.kind = "IdExp" => Free[n] = {n.id}
         /\ n.kind = "NumExp" => Free[n] = {}
         /\ n.kind = "PrintStm" => Free[n] = Free[n.exps]
         /\ n.kind \in {"AssignStm", "LastExpList"} => Free[n] = Free[n.exp]
         /\ n.kind = "OpExp" => Free[n] = Free[n.left] \union Free[n.right]
         /\ n.kind = "EseqExp" => Free[n] = Free[n.stm] \union Free[n.exp]
         /\ n.kind = "PairExpList" => Free[n] = Free[n.exp] \union Free[n.tail]
         /\ Free[n] \in SUBSET Id
  <1>1. n.kind \notin {"IdExp", "CompoundStm"} => Free[n] = UNION {Free[c] : c \in Children(n)}
    BY FreeIs
  <1>2. \A c, d : /\ UNION {Free[x] : x \in {c}} = Free[c]
                  /\ UNION {Free[x] : x \in {c, d}} = Free[c] \union Free[d]
    OBVIOUS
  <1>3. n.kind \in {"CompoundStm", "IdExp"} \/ n.kind \in {"PrintStm", "NumExp"}
          \/ n.kind \in {"AssignStm", "LastExpList"}
          \/ n.kind \in {"OpExp", "EseqExp", "PairExpList"}
    BY PartsOf DEF Stms, Exps, ExpLists
  <1>4. CASE n.kind \in {"CompoundStm", "IdExp"}
    BY <1>4, FreeIs
  <1>5. CASE n.kind = "PrintStm"
    BY <1>1, <1>2, <1>5, FreeIs, PartsOf
  <1>6. CASE n.kind = "NumExp"
    BY <1>1, <1>6, FreeIs, PartsOf
  <1>7. CASE n.kind \in {"AssignStm", "LastExpList"}
    BY <1>1, <1>2, <1>7, FreeIs, PartsOf
  <1>8. CASE n.kind = "OpExp"
    BY <1>1, <1>2, <1>8, FreeIs, PartsOf
  <1>9. CASE n.kind = "EseqExp"
    BY <1>1, <1>2, <1>9, FreeIs, PartsOf
  <1>10. CASE n.kind = "PairExpList"
    BY <1>1, <1>2, <1>10, FreeIs, PartsOf
  <1>. QED BY <1>3, <1>4, <1>5, <1>6, <1>7, <1>8, <1>9, <1>10

\* The identifiers of the table returned, and those looked up that are not bound.
Flows == [ids : SUBSET Id, lacks : SUBSET Id]

\* What comes of calling n with t, and of having returned t.
Calling(n, t) == [ids |-> IdsOf(t) \union Binds[n], lacks |-> Free[n] \ IdsOf(t)]
Having(t) == [ids |-> IdsOf(t), lacks |-> {}]

\* The part an activation waits for, and the identifiers it needs afterwards.
Part(f) ==
  CASE f.node.kind = "CompoundStm" -> f.node.stm1
    [] f.node.kind = "EseqExp"     -> f.node.stm
    [] f.node.kind = "OpExp"       -> IF f.left = None THEN f.node.left ELSE f.node.right
    [] OTHER                       -> f.node.exp

Later(f) ==
  CASE f.node.kind = "CompoundStm"             -> Free[f.node.stm2] \ Binds[f.node.stm1]
    [] f.node.kind = "EseqExp"                 -> Free[f.node.exp]
    [] f.node.kind = "OpExp" /\ f.left = None  -> Free[f.node.right]
    [] f.node.kind = "PairExpList"             -> Free[f.node.tail]
    [] OTHER                                   -> {}

\* The activation f is given a, and so gives b.
IsFlow(f, a, b) ==
  /\ a.ids = IdsOf(f.t) \union Binds[Part(f)]
  /\ b.ids = IdsOf(f.t) \union Binds[f.node]
  /\ b.lacks = a.lacks \union (Later(f) \ IdsOf(f.t))

FlowLinks == {l \in Frame \X Flows \X Flows : IsFlow(l[1], l[2], l[3])}

LEMMA FlowLink ==
  ASSUME NEW f, NEW a, NEW b
  PROVE  <<f, a, b>> \in FlowLinks <=> f \in Frame /\ a \in Flows /\ b \in Flows /\ IsFlow(f, a, b)
  BY DEF FlowLinks

LEMMA FlowTypes ==
  ASSUME NEW n \in Trees, NEW t \in TableType
  PROVE  Calling(n, t) \in Flows /\ Having(t) \in Flows
  BY IdsOfType, BindsParts, FreeParts DEF Calling, Having, Flows

\* Two flows with the same parts are the same.
LEMMA SameFlow ==
  ASSUME NEW a \in Flows, NEW b \in Flows, a.ids = b.ids, a.lacks = b.lacks
  PROVE  a = b
  BY DEF Flows

FlowNow == IF ret = None THEN Calling(Top.node, Top.t) ELSE Having(ret.t)

FlowInv ==
  /\ status = "running" =>
       sought = {} /\ Chain(Flows, FlowLinks, Waiting, FlowNow, Calling(program, <<>>))
  /\ LookupsSucceed

\* Nothing has failed, and the end has not come.
LEMMA FlowRuns ==
  ASSUME status' = "running", sought' = {}, program' = program, NEW a, FlowNow' = a,
         NEW w, Waiting' = w, Chain(Flows, FlowLinks, w, a, Calling(program, <<>>))
  PROVE  FlowInv'
  BY DEF FlowInv, LookupsSucceed

LEMMA FlowStarts ==
  ASSUME NEW w, NEW n, NEW t, StartsAt(w, n, t), status = "running", sought = {},
         Chain(Flows, FlowLinks, w, Calling(n, t), Calling(program, <<>>))
  PROVE  FlowInv'
  <1>1. ret' = None /\ Top' = Activation(n, t) /\ Waiting' = w /\ status' = "running"
        /\ sought' = {} /\ program' = program
    BY DEF StartsAt, Stays
  <1>2. FlowNow' = Calling(n, t)
    BY <1>1 DEF FlowNow, Activation
  <1>. QED BY <1>1, <1>2, FlowRuns

LEMMA FlowEnds ==
  ASSUME NEW w, NEW i, NEW t, EndsWith(w, i, t), status = "running", sought = {},
         Chain(Flows, FlowLinks, w, Having(t), Calling(program, <<>>))
  PROVE  FlowInv'
  <1>1. ret' # None /\ ret'.t = t /\ Waiting' = w /\ status' = "running"
        /\ sought' = {} /\ program' = program
    BY DEF EndsWith, Stays
  <1>2. FlowNow' = Having(t)
    BY <1>1 DEF FlowNow
  <1>. QED BY <1>1, <1>2, FlowRuns

\* A call of the part that is run first.
LEMMA FlowCall ==
  ASSUME NEW kind, CalledOK(kind), FlowInv, NEW n \in Trees, n = Part(Top),
         Free[Top.node] \ IdsOf(Top.t) = (Free[n] \ IdsOf(Top.t)) \union (Later(Top) \ IdsOf(Top.t)),
         StartsAt(Append(Waiting, Top), n, Top.t)
  PROVE  FlowInv'
  <1>1. status = "running" /\ ret = None /\ Waiting \in Seq(Frame) /\ Top \in Frame
        /\ Top.node \in Trees /\ Top.t \in TableType
    BY DEF CalledOK
  <1>2. sought = {} /\ Chain(Flows, FlowLinks, Waiting, Calling(Top.node, Top.t),
                             Calling(program, <<>>))
    BY <1>1 DEF FlowInv, FlowNow
  <1>3. Calling(n, Top.t) \in Flows /\ Calling(Top.node, Top.t) \in Flows
    BY <1>1, FlowTypes
  <1>4. IsFlow(Top, Calling(n, Top.t), Calling(Top.node, Top.t))
    BY DEF IsFlow, Calling
  <1>5. <<Top, Calling(n, Top.t), Calling(Top.node, Top.t)>> \in FlowLinks
    BY <1>1, <1>3, <1>4, FlowLink
  <1>6. Chain(Flows, FlowLinks, Append(Waiting, Top), Calling(n, Top.t), Calling(program, <<>>))
    BY <1>1, <1>2, <1>3, <1>5, ChainPush
  <1>. QED BY <1>1, <1>2, <1>6, FlowStarts

\* A return: what the activation gives.
LEMMA FlowReturn ==
  ASSUME NEW kind, ResumedOK(kind), FlowInv
  PROVE  /\ sought = {} /\ IdsOf(ret.t) = IdsOf(Top.t) \union Binds[Part(Top)]
         /\ \A a \in Flows : /\ a.ids = IdsOf(Top.t) \union Binds[Top.node]
                             /\ a.lacks = Later(Top) \ IdsOf(Top.t)
              => Chain(Flows, FlowLinks, Front(frames), a, Calling(program, <<>>))
  <1>1. status = "running" /\ ret # None /\ Waiting = frames /\ frames \in Seq(Frame)
        /\ frames # <<>> /\ Top \in Frame /\ ret.t \in TableType
    BY DEF ResumedOK
  <1>2. sought = {} /\ Chain(Flows, FlowLinks, frames, Having(ret.t), Calling(program, <<>>))
    BY <1>1 DEF FlowInv, FlowNow
  <1>3. PICK c \in Flows : /\ <<Last(frames), Having(ret.t), c>> \in FlowLinks
                           /\ Chain(Flows, FlowLinks, Front(frames), c, Calling(program, <<>>))
    BY <1>1, <1>2, ChainPop
  <1>4. IsFlow(Top, Having(ret.t), c)
    BY <1>3, FlowLink DEF Top
  <1>5. /\ IdsOf(ret.t) = IdsOf(Top.t) \union Binds[Part(Top)]
        /\ c.ids = IdsOf(Top.t) \union Binds[Top.node]
        /\ c.lacks = Later(Top) \ IdsOf(Top.t)
    BY <1>4 DEF IsFlow, Having
  <1>6. ASSUME NEW a \in Flows, a.ids = IdsOf(Top.t) \union Binds[Top.node],
               a.lacks = Later(Top) \ IdsOf(Top.t)
        PROVE  Chain(Flows, FlowLinks, Front(frames), a, Calling(program, <<>>))
    <2>1. a = c
      BY <1>5, <1>6, SameFlow
    <2>. QED BY <1>3, <2>1
  <1>. QED BY <1>2, <1>5, <1>6

\* A called activation that calls nothing.
LEMMA FlowCalled ==
  ASSUME NEW kind, CalledOK(kind), FlowInv
  PROVE  /\ sought = {} /\ Calling(Top.node, Top.t) \in Flows
         /\ Chain(Flows, FlowLinks, Waiting, Calling(Top.node, Top.t), Calling(program, <<>>))
  BY FlowTypes DEF CalledOK, FlowInv, FlowNow

LEMMA FlowInit == SlpInit => FlowInv
  <1>. SUFFICES ASSUME SlpInit PROVE FlowInv
    OBVIOUS
  <1>. DEFINE a == Activation(program, <<>>)
  <1>1. TypeInv /\ program \in Trees /\ <<>> \in TableType
    BY TypeInit, ProgramsAssumption DEF SlpInit, TableType
  <1>2. frames = <<a>> /\ ret = None /\ status = "running" /\ sought = {}
    BY DEF SlpInit
  <1>3. Top = a /\ Front(<<a>>) = <<>>
    BY <1>2 DEF Top, Last, Front
  <1>4. Waiting = <<>> /\ FlowNow = Calling(program, <<>>)
    BY <1>2, <1>3 DEF Waiting, FlowNow, Activation
  <1>5. Chain(Flows, FlowLinks, <<>>, Calling(program, <<>>), Calling(program, <<>>))
    BY <1>1, FlowTypes, ChainEmpty
  <1>. QED BY <1>2, <1>4, <1>5 DEF FlowInv, LookupsSucceed

\* No lookup fails unless an identifier is free in the program.
LEMMA FlowFails ==
  ASSUME TypeInv, FlowInv, IdExpUnbound
  PROVE  FlowInv'
  <1>1. /\ status' # "running" /\ status' # "done" /\ CalledOK("IdExp")
        /\ ~Bound(Top.t, Top.node.id) /\ program' = program
    BY IdExpUnboundIs
  <1>2. Chain(Flows, FlowLinks, Waiting, Calling(Top.node, Top.t), Calling(program, <<>>))
    BY <1>1, FlowCalled
  <1>3. Top.node.id \in Calling(Top.node, Top.t).lacks
    BY <1>1, FreeParts, BoundIs DEF CalledOK, Calling
  <1>4. ASSUME Free[program] = {} PROVE FALSE
    <2>. DEFINE P == {a \in Flows : a.lacks = {}}
    <2>1. \A f, c, d : <<f, c, d>> \in FlowLinks /\ d \in P => c \in P
      BY FlowLink DEF IsFlow
    <2>2. program \in Trees /\ <<>> \in TableType
      BY ProgramsAssumption DEF TypeInv, TableType
    <2>3. Calling(program, <<>>) \in P
      BY <1>4, <2>2, FlowTypes DEF Calling
    <2>4. Waiting \in Seq(Frame)
      BY <1>1 DEF CalledOK
    <2>5. Calling(Top.node, Top.t) \in P
      <3>. HIDE DEF P
      <3>. QED BY <1>2, <2>1, <2>3, <2>4, ChainBack
    <2>. QED BY <1>3, <2>5
  <1>. QED BY <1>1, <1>4 DEF FlowInv, LookupsSucceed

LEMMA FlowStep == TypeInv /\ FlowInv /\ [SlpNext]_slpVars => FlowInv'
  <1>. SUFFICES ASSUME TypeInv, FlowInv, [SlpNext]_slpVars PROVE FlowInv'
    OBVIOUS
  <1>1. CASE CompoundStm
    <2>1. /\ CalledOK("CompoundStm") /\ Top.node.stm1 \in Trees /\ Top.node \in Trees
          /\ StartsAt(Append(Waiting, Top), Top.node.stm1, Top.t) /\ Top.node.kind = "CompoundStm"
      BY <1>1, CompoundStmIs, PartsOf DEF CalledOK
    <2>2. Part(Top) = Top.node.stm1 /\ Later(Top) = Free[Top.node.stm2] \ Binds[Top.node.stm1]
      BY <2>1 DEF Part, Later
    <2>3. Free[Top.node] = Free[Top.node.stm1] \union Later(Top)
      BY <2>1, <2>2, FreeParts
    <2>. QED BY <2>1, <2>2, <2>3, FlowCall
  <1>2. CASE CompoundStmSecond
    <2>. DEFINE n == Top.node.stm2
    <2>1. /\ ResumedOK("CompoundStm") /\ Top.node \in Trees /\ Top.node.kind = "CompoundStm"
          /\ StartsAt(Front(frames), n, ret.t) /\ n \in Trees /\ ret.t \in TableType
          /\ Top.t \in TableType /\ status = "running"
      BY <1>2, CompoundStmSecondIs, PartsOf DEF ResumedOK
    <2>2. Part(Top) = Top.node.stm1 /\ Later(Top) = Free[n] \ Binds[Top.node.stm1]
      BY <2>1 DEF Part, Later
    <2>3. IdsOf(ret.t) = IdsOf(Top.t) \union Binds[Top.node.stm1]
      BY <2>1, <2>2, FlowReturn
    <2>4. Binds[Top.node] = Binds[Top.node.stm1] \union Binds[n]
      BY <2>1, BindsParts
    <2>5. Calling(n, ret.t) \in Flows
      BY <2>1, FlowTypes
    <2>6. /\ Calling(n, ret.t).ids = IdsOf(Top.t) \union Binds[Top.node]
          /\ Calling(n, ret.t).lacks = Later(Top) \ IdsOf(Top.t)
      BY <2>2, <2>3, <2>4 DEF Calling
    <2>7. sought = {} /\ Chain(Flows, FlowLinks, Front(frames), Calling(n, ret.t),
                               Calling(program, <<>>))
      BY <2>1, <2>5, <2>6, FlowReturn
    <2>. QED BY <2>1, <2>7, FlowStarts
  <1>3. CASE AssignStm
    <2>1. /\ CalledOK("AssignStm") /\ Top.node.exp \in Trees /\ Top.node \in Trees
          /\ StartsAt(Append(Waiting, Top), Top.node.exp, Top.t) /\ Top.node.kind = "AssignStm"
      BY <1>3, AssignStmIs, PartsOf DEF CalledOK
    <2>2. Part(Top) = Top.node.exp /\ Later(Top) = {}
      BY <2>1 DEF Part, Later
    <2>3. Free[Top.node] = Free[Top.node.exp] \union Later(Top)
      BY <2>1, <2>2, FreeParts
    <2>. QED BY <2>1, <2>2, <2>3, FlowCall
  <1>4. CASE AssignStmEnd
    <2>. DEFINE t == Update(Top.t, Top.node.id, ret.i)
    <2>1. /\ ResumedOK("AssignStm") /\ Top.node \in Trees /\ Top.node.kind = "AssignStm"
          /\ EndsWith(Front(frames), 0, t) /\ Top.node.id \in Id /\ ret.i \in Int_
          /\ Top.t \in TableType /\ status = "running"
      BY <1>4, AssignStmEndIs DEF ResumedOK
    <2>2. t \in TableType /\ IdsOf(t) = IdsOf(Top.t) \union {Top.node.id}
      BY <2>1, UpdateType, IdsOfUpdate
    <2>3. Later(Top) = {} /\ Binds[Top.node] = {Top.node.id}
      BY <2>1, BindsParts DEF Later
    <2>. HIDE DEF t
    <2>4. Having(t) \in Flows
      BY <2>1, <2>2, FlowTypes
    <2>5. /\ Having(t).ids = IdsOf(Top.t) \union Binds[Top.node]
          /\ Having(t).lacks = Later(Top) \ IdsOf(Top.t)
      BY <2>2, <2>3 DEF Having
    <2>6. sought = {} /\ Chain(Flows, FlowLinks, Front(frames), Having(t), Calling(program, <<>>))
      BY <2>1, <2>4, <2>5, FlowReturn
    <2>. QED BY <2>1, <2>6, FlowEnds
  <1>5. CASE PrintStm
    <2>1. /\ CalledOK("PrintStm") /\ Top.node.exps \in Trees /\ Top.node \in Trees
          /\ StartsAt(Waiting, Top.node.exps, Top.t) /\ Top.node.kind = "PrintStm"
          /\ Top.node.exps.kind \in ExpLists /\ Top.t \in TableType /\ status = "running"
      BY <1>5, PrintStmIs, PartsOf DEF CalledOK
    <2>2. Free[Top.node] = Free[Top.node.exps] /\ Binds[Top.node] = {}
          /\ Binds[Top.node.exps] = {}
      BY <2>1, FreeParts, BindsParts
    <2>3. Calling(Top.node, Top.t) = Calling(Top.node.exps, Top.t)
      BY <2>2 DEF Calling
    <2>. QED BY <2>1, <2>3, FlowCalled, FlowStarts
  <1>6. CASE IdExp
    <2>1. CalledOK("IdExp") /\ Top.node \in Trees /\ Top.node.kind = "IdExp"
          /\ Top.t \in TableType /\ status = "running"
      BY <1>6, IdExpIs DEF CalledOK
    <2>2. PICK p \in DOMAIN Top.t : /\ Lookup(Top.t, Top.node.id, p)
                                    /\ EndsWith(Waiting, Top.t[p].value, Top.t)
      BY <1>6, IdExpIs
    <2>3. Top.node.id \in IdsOf(Top.t) /\ Free[Top.node] = {Top.node.id} /\ Binds[Top.node] = {}
      BY <2>1, <2>2, BoundIs, FreeParts, BindsParts
    <2>4. Calling(Top.node, Top.t) = Having(Top.t)
      BY <2>3 DEF Calling, Having
    <2>. QED BY <2>1, <2>2, <2>4, FlowCalled, FlowEnds
  <1>7. CASE IdExpUnbound
    BY <1>7, FlowFails
  <1>8. CASE NumExp
    <2>1. CalledOK("NumExp") /\ Top.node \in Trees /\ Top.node.kind = "NumExp"
          /\ Top.t \in TableType /\ status = "running"
          /\ EndsWith(Waiting, Top.node.num, Top.t)
      BY <1>8, NumExpIs DEF CalledOK
    <2>2. Free[Top.node] = {} /\ Binds[Top.node] = {}
      BY <2>1, FreeParts, BindsParts
    <2>3. Calling(Top.node, Top.t) = Having(Top.t)
      BY <2>2 DEF Calling, Having
    <2>. QED BY <2>1, <2>3, FlowCalled, FlowEnds
  <1>9. CASE OpExp
    <2>1. /\ CalledOK("OpExp") /\ Top.node.left \in Trees /\ Top.node \in Trees
          /\ StartsAt(Append(Waiting, Top), Top.node.left, Top.t) /\ Top.node.kind = "OpExp"
          /\ Top.left = None
      BY <1>9, OpExpIs, PartsOf DEF CalledOK
    <2>2. Part(Top) = Top.node.left /\ Later(Top) = Free[Top.node.right]
      BY <2>1 DEF Part, Later
    <2>3. Free[Top.node] = Free[Top.node.left] \union Later(Top)
      BY <2>1, <2>2, FreeParts
    <2>. QED BY <2>1, <2>2, <2>3, FlowCall
  <1>10. CASE OpExpRight
    <2>. DEFINE n == Top.node.right
                kept == [Top EXCEPT !.left = ret]
    <2>1. /\ ResumedOK("OpExp") /\ Top.node \in Trees /\ Top.node.kind = "OpExp"
          /\ StartsAt(Append(Front(frames), kept), n, ret.t) /\ n \in Trees
          /\ ret.t \in TableType /\ ret # None /\ Top.t \in TableType /\ status = "running"
          /\ Top.left = None /\ kept \in Frame /\ Top \in Frame /\ Front(frames) \in Seq(Frame)
      BY <1>10, OpExpRightIs, PartsOf, Stacks DEF ResumedOK
    <2>2. kept.node = Top.node /\ kept.t = Top.t /\ kept.left = ret
      BY <2>1 DEF Frame
    <2>. HIDE DEF kept
    <2>3. Part(Top) = Top.node.left /\ Later(Top) = Free[n] /\ Part(kept) = n /\ Later(kept) = {}
      BY <2>1, <2>2 DEF Part, Later
    <2>4. Top.node.left \in Trees /\ Top.node.left.kind \in Exps /\ n.kind \in Exps
      BY <2>1, PartsOf
    <2>5. Binds[Top.node.left] = {} /\ Binds[n] = {} /\ Binds[Top.node] = {}
      BY <2>1, <2>4, BindsParts
    <2>6. IdsOf(ret.t) = IdsOf(Top.t) \union Binds[Top.node.left]
      BY <2>1, <2>3, FlowReturn
    <2>7. Calling(n, ret.t) \in Flows
      BY <2>1, FlowTypes
    <2>8. /\ Calling(n, ret.t).ids = IdsOf(Top.t) \union Binds[Top.node]
          /\ Calling(n, ret.t).lacks = Later(Top) \ IdsOf(Top.t)
      BY <2>3, <2>5, <2>6 DEF Calling
    <2>9. sought = {} /\ Chain(Flows, FlowLinks, Front(frames), Calling(n, ret.t),
                               Calling(program, <<>>))
      BY <2>1, <2>7, <2>8, FlowReturn
    <2>10. IsFlow(kept, Calling(n, ret.t), Calling(n, ret.t))
      BY <2>2, <2>3, <2>5, <2>6 DEF IsFlow, Calling
    <2>11. <<kept, Calling(n, ret.t), Calling(n, ret.t)>> \in FlowLinks
      BY <2>1, <2>7, <2>10, FlowLink
    <2>12. Chain(Flows, FlowLinks, Append(Front(frames), kept), Calling(n, ret.t),
                 Calling(program, <<>>))
      BY <2>1, <2>7, <2>9, <2>11, ChainPush
    <2>. QED BY <2>1, <2>9, <2>12, FlowStarts
  <1>11. CASE OpExpApply
    <2>. DEFINE v == Apply(Top.node.oper, Top.left.i, ret.i)
    <2>1. /\ ResumedOK("OpExp") /\ Top.node \in Trees /\ Top.node.kind = "OpExp"
          /\ EndsWith(Front(frames), v, ret.t) /\ Top.left # None
          /\ ret.t \in TableType /\ status = "running"
      BY <1>11, OpExpApplyIs DEF ResumedOK
    <2>2. Part(Top) = Top.node.right /\ Later(Top) = {}
      BY <2>1 DEF Part, Later
    <2>3. Top.node.right \in Trees /\ Top.node.right.kind \in Exps
      BY <2>1, PartsOf
    <2>4. Binds[Top.node.right] = {} /\ Binds[Top.node] = {}
      BY <2>1, <2>3, BindsParts
    <2>5. IdsOf(ret.t) = IdsOf(Top.t) \union Binds[Top.node.right]
      BY <2>1, <2>2, FlowReturn
    <2>6. Having(ret.t) \in Flows
      BY <2>1, FlowTypes
    <2>7. /\ Having(ret.t).ids = IdsOf(Top.t) \union Binds[Top.node]
          /\ Having(ret.t).lacks = Later(Top) \ IdsOf(Top.t)
      BY <2>2, <2>4, <2>5 DEF Having
    <2>8. sought = {} /\ Chain(Flows, FlowLinks, Front(frames), Having(ret.t),
                               Calling(program, <<>>))
      BY <2>1, <2>6, <2>7, FlowReturn
    <2>. HIDE DEF v
    <2>. QED BY <2>1, <2>8, FlowEnds
  <1>12. CASE OpExpTrap
    <2>1. status' = "trapped" /\ UNCHANGED <<program, sought>> /\ LookupsSucceed
      BY <1>12, OpExpTrapIs DEF FlowInv
    <2>. QED BY <2>1 DEF FlowInv, LookupsSucceed
  <1>13. CASE EseqExp
    <2>1. /\ CalledOK("EseqExp") /\ Top.node.stm \in Trees /\ Top.node \in Trees
          /\ StartsAt(Append(Waiting, Top), Top.node.stm, Top.t) /\ Top.node.kind = "EseqExp"
      BY <1>13, EseqExpIs, PartsOf DEF CalledOK
    <2>2. Part(Top) = Top.node.stm /\ Later(Top) = Free[Top.node.exp]
      BY <2>1 DEF Part, Later
    <2>3. Free[Top.node] = Free[Top.node.stm] \union Later(Top)
      BY <2>1, <2>2, FreeParts
    <2>. QED BY <2>1, <2>2, <2>3, FlowCall
  <1>14. CASE EseqExpEnd
    <2>. DEFINE n == Top.node.exp
    <2>1. /\ ResumedOK("EseqExp") /\ Top.node \in Trees /\ Top.node.kind = "EseqExp"
          /\ StartsAt(Front(frames), n, Top.t) /\ n \in Trees /\ n.kind \in Exps
          /\ Top.t \in TableType /\ status = "running"
      BY <1>14, EseqExpEndIs, PartsOf DEF ResumedOK
    <2>2. Later(Top) = Free[n]
      BY <2>1 DEF Later
    <2>3. Binds[Top.node] = {} /\ Binds[n] = {}
      BY <2>1, BindsParts
    <2>4. Calling(n, Top.t) \in Flows
      BY <2>1, FlowTypes
    <2>5. /\ Calling(n, Top.t).ids = IdsOf(Top.t) \union Binds[Top.node]
          /\ Calling(n, Top.t).lacks = Later(Top) \ IdsOf(Top.t)
      BY <2>2, <2>3 DEF Calling
    <2>6. sought = {} /\ Chain(Flows, FlowLinks, Front(frames), Calling(n, Top.t),
                               Calling(program, <<>>))
      BY <2>1, <2>4, <2>5, FlowReturn
    <2>. QED BY <2>1, <2>6, FlowStarts
  <1>15. ASSUME NEW kind \in ExpLists, ExpList(kind) PROVE FlowInv'
    <2>1. /\ CalledOK(kind) /\ Top.node.exp \in Trees /\ Top.node \in Trees
          /\ StartsAt(Append(Waiting, Top), Top.node.exp, Top.t) /\ Top.node.kind = kind
      BY <1>15, ExpListIs, PartsOf DEF CalledOK
    <2>2. kind = "PairExpList" \/ kind = "LastExpList"
      BY DEF ExpLists
    <2>3. Part(Top) = Top.node.exp
          /\ Later(Top) = IF kind = "PairExpList" THEN Free[Top.node.tail] ELSE {}
      BY <2>1, <2>2 DEF Part, Later
    <2>4. Free[Top.node] = Free[Top.node.exp] \union Later(Top)
      BY <2>1, <2>2, <2>3, FreeParts
    <2>. QED BY <2>1, <2>3, <2>4, FlowCall
  <1>16. CASE LastExpListEnd
    <2>1. /\ ResumedOK("LastExpList") /\ Top.node \in Trees /\ Top.node.kind = "LastExpList"
          /\ EndsWith(Front(frames), ret.i, ret.t) /\ ret.t \in TableType /\ status = "running"
      BY <1>16, LastExpListEndIs DEF ResumedOK
    <2>2. Part(Top) = Top.node.exp /\ Later(Top) = {}
      BY <2>1 DEF Part, Later
    <2>3. Top.node.exp \in Trees /\ Top.node.exp.kind \in Exps
      BY <2>1, PartsOf
    <2>4. Binds[Top.node.exp] = {} /\ Binds[Top.node] = {}
      BY <2>1, <2>3, BindsParts
    <2>5. IdsOf(ret.t) = IdsOf(Top.t) \union Binds[Top.node.exp]
      BY <2>1, <2>2, FlowReturn
    <2>6. Having(ret.t) \in Flows
      BY <2>1, FlowTypes
    <2>7. /\ Having(ret.t).ids = IdsOf(Top.t) \union Binds[Top.node]
          /\ Having(ret.t).lacks = Later(Top) \ IdsOf(Top.t)
      BY <2>2, <2>4, <2>5 DEF Having
    <2>8. sought = {} /\ Chain(Flows, FlowLinks, Front(frames), Having(ret.t),
                               Calling(program, <<>>))
      BY <2>1, <2>6, <2>7, FlowReturn
    <2>. QED BY <2>1, <2>8, FlowEnds
  <1>17. CASE PairExpListTail
    <2>. DEFINE n == Top.node.tail
    <2>1. /\ ResumedOK("PairExpList") /\ Top.node \in Trees /\ Top.node.kind = "PairExpList"
          /\ StartsAt(Front(frames), n, ret.t) /\ n \in Trees /\ n.kind \in ExpLists
          /\ ret.t \in TableType /\ status = "running"
      BY <1>17, PairExpListTailIs, PartsOf DEF ResumedOK
    <2>2. Part(Top) = Top.node.exp /\ Later(Top) = Free[n]
      BY <2>1 DEF Part, Later
    <2>3. Top.node.exp \in Trees /\ Top.node.exp.kind \in Exps
      BY <2>1, PartsOf
    <2>4. Binds[Top.node.exp] = {} /\ Binds[Top.node] = {} /\ Binds[n] = {}
      BY <2>1, <2>3, BindsParts
    <2>5. IdsOf(ret.t) = IdsOf(Top.t) \union Binds[Top.node.exp]
      BY <2>1, <2>2, FlowReturn
    <2>6. Calling(n, ret.t) \in Flows
      BY <2>1, FlowTypes
    <2>7. /\ Calling(n, ret.t).ids = IdsOf(Top.t) \union Binds[Top.node]
          /\ Calling(n, ret.t).lacks = Later(Top) \ IdsOf(Top.t)
      BY <2>2, <2>4, <2>5 DEF Calling
    <2>8. sought = {} /\ Chain(Flows, FlowLinks, Front(frames), Calling(n, ret.t),
                               Calling(program, <<>>))
      BY <2>1, <2>6, <2>7, FlowReturn
    <2>. QED BY <2>1, <2>8, FlowStarts
  <1>18. CASE Done
    <2>1. status = "running" /\ status' = "done" /\ ret # None /\ Waiting = <<>>
          /\ UNCHANGED <<program, sought>> /\ ret \in Value /\ program \in Trees
      BY <1>18, DoneIs, ProgramsAssumption DEF TypeInv
    <2>2. sought = {} /\ Chain(Flows, FlowLinks, <<>>, Having(ret.t), Calling(program, <<>>))
      BY <2>1 DEF FlowInv, FlowNow
    <2>3. Having(ret.t) = Calling(program, <<>>)
      BY <2>1, <2>2, FlowTypes, ValueIsSome, ChainEmpty
    <2>4. Free[program] = {}
      BY <2>3, IdsOfEmpty DEF Having, Calling
    <2>. QED BY <2>1, <2>2, <2>4 DEF FlowInv, LookupsSucceed
  <1>19. CASE UNCHANGED slpVars
    BY <1>19 DEF slpVars, FlowInv, FlowNow, Waiting, LookupsSucceed, Top, Last
  <1>20. "LastExpList" \in ExpLists /\ "PairExpList" \in ExpLists
    BY DEF ExpLists
  <1>. QED BY <1>1, <1>2, <1>3, <1>4, <1>5, <1>6, <1>7, <1>8, <1>9, <1>10, <1>11, <1>12, <1>13,
              <1>14, <1>15, <1>16, <1>17, <1>18, <1>19, <1>20 DEF SlpNext, SlpStep

\* Which programs a lookup makes fail can be read off their text: no other one does, and
\* one that ends has no identifier that is used before it is assigned.
THEOREM LookupsSucceedAlways == SlpSpec => []LookupsSucceed
  <1>1. FlowInv => LookupsSucceed
    BY DEF FlowInv
  <1>. QED BY <1>1, TypeInvAlways, FlowInit, FlowStep, PTL DEF SlpSpec

-----------------------------------------------------------------------------
(* What running a part leaves *)

Results == [store : Stores, out : Seq(Printed), i : Int_]

LEMMA OutcomeType ==
  ASSUME NEW s \in Stores, NEW o \in Seq(Printed), NEW v \in Int_
  PROVE  /\ Outcome(s, o, v) \in Results /\ Outcome(s, o, v).store = s
         /\ Outcome(s, o, v).out = o /\ Outcome(s, o, v).i = v
  BY DEF Outcome, Results

LEMMA ResultParts ==
  ASSUME NEW r \in Results
  PROVE  /\ r.store \in Stores /\ r.out \in Seq(Printed) /\ r.i \in Int_
         /\ r = Outcome(r.store, r.out, r.i)
  BY DEF Results, Outcome

LEMMA AfterIs ==
  ASSUME NEW o \in Seq(Printed), NEW r \in Results
  PROVE  After(o, r) = Outcome(r.store, o \o r.out, r.i) /\ After(o, r) \in Results
  <1>. DEFINE q == o \o r.out
  <1>1. r \in [store : Stores, out : Seq(Printed), i : Int_]
    BY DEF Results
  <1>2. After(o, r) = [r EXCEPT !.out = q]
    BY DEF After
  <1>3. q \in Seq(Printed) /\ r.store \in Stores /\ r.i \in Int_
    BY <1>1
  <1>. HIDE DEF q
  <1>4. [r EXCEPT !.out = q] = [store |-> r.store, out |-> q, i |-> r.i]
    BY <1>1
  <1>5. Outcome(r.store, q, r.i) \in Results
    BY <1>3, OutcomeType
  <1>6. After(o, r) = Outcome(r.store, q, r.i)
    BY <1>2, <1>4 DEF Outcome
  <1>. QED BY <1>5, <1>6 DEF q

LEMMA StoreType ==
  ASSUME NEW s \in Stores, NEW id \in Id, NEW v \in Int_
  PROVE  Store(s, id, v) \in Stores
  BY DEF Store, Stores

LEMMA FetchedType ==
  ASSUME NEW s \in Stores, NEW id \in Id
  PROVE  Fetched(s, id) \in Int_
  <1>1. s[id] \in SUBSET Int_ /\ 0 \in Int_
    BY IntMaxAssumption DEF Stores, Int_
  <1>2. CASE s[id] = {}
    BY <1>1, <1>2 DEF Fetched
  <1>3. CASE s[id] # {}
    <2>1. \E v : v \in s[id]
      BY <1>3
    <2>2. (CHOOSE v \in s[id] : TRUE) \in s[id]
      BY <2>1
    <2>3. Fetched(s, id) = CHOOSE v \in s[id] : TRUE
      BY <1>3 DEF Fetched
    <2>. QED BY <1>1, <2>2, <2>3
  <1>. QED BY <1>2, <1>3

\* What Runs says of n, with g in its place for the trees below n.
RunStep(g, n, s) ==
     CASE n.kind = "CompoundStm" ->
            LET first == g[n.stm1][s] IN After(first.out, g[n.stm2][first.store])
       [] n.kind = "AssignStm" ->
            LET e == g[n.exp][s] IN Outcome(Store(e.store, n.id, e.i), e.out, 0)
       [] n.kind = "PrintStm" -> g[n.exps][s]
       [] n.kind = "IdExp"  -> Outcome(s, <<>>, Fetched(s, n.id))
       [] n.kind = "NumExp" -> Outcome(s, <<>>, n.num)
       [] n.kind = "OpExp" ->
            LET l == g[n.left][s]
                r == g[n.right][l.store]
            IN  Outcome(r.store, l.out \o r.out, Computed(n.oper, l.i, r.i))
       [] n.kind = "EseqExp" ->
            LET first == g[n.stm][s] IN After(first.out, g[n.exp][first.store])
       [] n.kind = "LastExpList" ->
            LET e == g[n.exp][s]
            IN  Outcome(e.store, Append(e.out, [i |-> e.i, ends |-> TRUE]), e.i)
       [] n.kind = "PairExpList" ->
            LET e == g[n.exp][s]
            IN  After(Append(e.out, [i |-> e.i, ends |-> FALSE]), g[n.tail][e.store])

LEMMA LongerOutput ==
  ASSUME NEW o \in Seq(Printed), NEW v \in Int_, NEW b \in BOOLEAN
  PROVE  Append(o, [i |-> v, ends |-> b]) \in Seq(Printed)
  <1>1. [i |-> v, ends |-> b] \in Printed
    BY DEF Printed
  <1>. QED BY <1>1

LEMMA KindOf ==
  ASSUME NEW n \in Trees
  PROVE  \/ n.kind = "CompoundStm" \/ n.kind = "AssignStm" \/ n.kind = "PrintStm"
         \/ n.kind = "IdExp" \/ n.kind = "NumExp" \/ n.kind = "OpExp" \/ n.kind = "EseqExp"
         \/ n.kind = "LastExpList" \/ n.kind = "PairExpList"
  BY PartsOf DEF Stms, Exps, ExpLists

LEMMA RunStepType ==
  ASSUME NEW n \in Trees, NEW g, \A c \in Children(n) : g[c] \in [Stores -> Results],
         NEW s \in Stores
  PROVE  RunStep(g, n, s) \in Results
  <1>0. \A c \in Children(n) : \A x \in Stores : g[c][x] \in Results
    OBVIOUS
  <1>1. CASE n.kind = "CompoundStm"
    <2>1. n.stm1 \in Children(n) /\ n.stm2 \in Children(n)
      BY <1>1, PartsOf
    <2>2. g[n.stm1][s] \in Results
      BY <1>0, <2>1
    <2>3. g[n.stm2][g[n.stm1][s].store] \in Results
      BY <1>0, <2>1, <2>2, ResultParts
    <2>4. After(g[n.stm1][s].out, g[n.stm2][g[n.stm1][s].store]) \in Results
      BY <2>2, <2>3, ResultParts, AfterIs
    <2>. QED BY <1>1, <2>4 DEF RunStep
  <1>2. CASE n.kind = "AssignStm"
    <2>1. n.exp \in Children(n) /\ n.id \in Id /\ 0 \in Int_
      BY <1>2, PartsOf, IntMaxAssumption DEF Int_
    <2>2. g[n.exp][s] \in Results
      BY <1>0, <2>1
    <2>3. Store(g[n.exp][s].store, n.id, g[n.exp][s].i) \in Stores
      BY <2>1, <2>2, ResultParts, StoreType
    <2>4. Outcome(Store(g[n.exp][s].store, n.id, g[n.exp][s].i), g[n.exp][s].out, 0) \in Results
      BY <2>1, <2>2, <2>3, ResultParts, OutcomeType
    <2>. QED BY <1>2, <2>4 DEF RunStep
  <1>3. CASE n.kind = "PrintStm"
    BY <1>0, <1>3, PartsOf DEF RunStep
  <1>4. CASE n.kind = "IdExp"
    <2>1. <<>> \in Seq(Printed) /\ Fetched(s, n.id) \in Int_
      BY <1>4, PartsOf, FetchedType
    <2>2. Outcome(s, <<>>, Fetched(s, n.id)) \in Results
      BY <2>1, OutcomeType
    <2>. QED BY <1>4, <2>2 DEF RunStep
  <1>5. CASE n.kind = "NumExp"
    <2>1. <<>> \in Seq(Printed) /\ n.num \in Int_
      BY <1>5, PartsOf
    <2>2. Outcome(s, <<>>, n.num) \in Results
      BY <2>1, OutcomeType
    <2>. QED BY <1>5, <2>2 DEF RunStep
  <1>6. CASE n.kind = "OpExp"
    <2>. DEFINE l == g[n.left][s]
                r == g[n.right][l.store]
    <2>1. n.left \in Children(n) /\ n.right \in Children(n) /\ n.oper \in BinOp
      BY <1>6, PartsOf
    <2>2. l \in Results
      BY <1>0, <2>1
    <2>3. r \in Results
      BY <1>0, <2>1, <2>2, ResultParts
    <2>4. RunStep(g, n, s) = Outcome(r.store, l.out \o r.out, Computed(n.oper, l.i, r.i))
      BY <1>6 DEF RunStep
    <2>. HIDE DEF l, r
    <2>5. r.store \in Stores /\ l.out \in Seq(Printed) /\ r.out \in Seq(Printed)
          /\ l.i \in Int_ /\ r.i \in Int_
      BY <2>2, <2>3, ResultParts
    <2>6. l.out \o r.out \in Seq(Printed) /\ Computed(n.oper, l.i, r.i) \in Int_
      BY <2>1, <2>5, ComputedInts
    <2>. DEFINE o == l.out \o r.out
                v == Computed(n.oper, l.i, r.i)
    <2>. HIDE DEF o, v
    <2>7. Outcome(r.store, o, v) \in Results
      BY <2>5, <2>6, OutcomeType DEF o, v
    <2>. QED BY <2>4, <2>7 DEF o, v
  <1>7. CASE n.kind = "EseqExp"
    <2>1. n.stm \in Children(n) /\ n.exp \in Children(n)
      BY <1>7, PartsOf
    <2>2. g[n.stm][s] \in Results
      BY <1>0, <2>1
    <2>3. g[n.exp][g[n.stm][s].store] \in Results
      BY <1>0, <2>1, <2>2, ResultParts
    <2>4. After(g[n.stm][s].out, g[n.exp][g[n.stm][s].store]) \in Results
      BY <2>2, <2>3, ResultParts, AfterIs
    <2>. QED BY <1>7, <2>4 DEF RunStep
  <1>8. CASE n.kind = "LastExpList"
    <2>. DEFINE e == g[n.exp][s]
    <2>1. e \in Results
      BY <1>0, <1>8, PartsOf
    <2>2. RunStep(g, n, s) = Outcome(e.store, Append(e.out, [i |-> e.i, ends |-> TRUE]), e.i)
      BY <1>8 DEF RunStep
    <2>. HIDE DEF e
    <2>3. Append(e.out, [i |-> e.i, ends |-> TRUE]) \in Seq(Printed)
      BY <2>1, ResultParts, LongerOutput
    <2>. DEFINE o == Append(e.out, [i |-> e.i, ends |-> TRUE])
    <2>. HIDE DEF o
    <2>4. o \in Seq(Printed) /\ e.store \in Stores /\ e.i \in Int_
      BY <2>1, <2>3, ResultParts DEF o
    <2>5. Outcome(e.store, o, e.i) \in Results
      BY <2>4, OutcomeType
    <2>. QED BY <2>2, <2>5 DEF o
  <1>9. CASE n.kind = "PairExpList"
    <2>. DEFINE e == g[n.exp][s]
                q == g[n.tail][e.store]
    <2>0. n.exp \in Children(n) /\ n.tail \in Children(n)
      BY <1>9, PartsOf
    <2>1. e \in Results
      BY <1>0, <2>0
    <2>2. q \in Results
      BY <1>0, <2>0, <2>1, ResultParts
    <2>3. RunStep(g, n, s) = After(Append(e.out, [i |-> e.i, ends |-> FALSE]), q)
      BY <1>9 DEF RunStep
    <2>. HIDE DEF e, q
    <2>4. Append(e.out, [i |-> e.i, ends |-> FALSE]) \in Seq(Printed)
      BY <2>1, ResultParts, LongerOutput
    <2>. QED BY <2>2, <2>3, <2>4, AfterIs
  <1>. QED BY <1>1, <1>2, <1>3, <1>4, <1>5, <1>6, <1>7, <1>8, <1>9, KindOf

LEMMA RunStepSame ==
  ASSUME NEW n \in Trees, NEW g, NEW h, \A c \in Children(n) : g[c] = h[c], NEW s
  PROVE  RunStep(g, n, s) = RunStep(h, n, s)
  <1>1. CASE n.kind = "CompoundStm"
    <2>1. g[n.stm1] = h[n.stm1] /\ g[n.stm2] = h[n.stm2]
      BY <1>1, PartsOf
    <2>. QED BY <1>1, <2>1 DEF RunStep
  <1>2. CASE n.kind = "AssignStm" \/ n.kind = "LastExpList"
    <2>1. g[n.exp] = h[n.exp]
      BY <1>2, PartsOf
    <2>. QED BY <1>2, <2>1 DEF RunStep
  <1>3. CASE n.kind = "PrintStm"
    BY <1>3, PartsOf DEF RunStep
  <1>4. CASE n.kind = "IdExp" \/ n.kind = "NumExp"
    BY <1>4 DEF RunStep
  <1>5. CASE n.kind = "OpExp"
    <2>1. g[n.left] = h[n.left] /\ g[n.right] = h[n.right]
      BY <1>5, PartsOf
    <2>. QED BY <1>5, <2>1 DEF RunStep
  <1>6. CASE n.kind = "EseqExp"
    <2>1. g[n.stm] = h[n.stm] /\ g[n.exp] = h[n.exp]
      BY <1>6, PartsOf
    <2>. QED BY <1>6, <2>1 DEF RunStep
  <1>7. CASE n.kind = "PairExpList"
    <2>1. g[n.exp] = h[n.exp] /\ g[n.tail] = h[n.tail]
      BY <1>7, PartsOf
    <2>. QED BY <1>7, <2>1 DEF RunStep
  <1>. QED BY <1>1, <1>2, <1>3, <1>4, <1>5, <1>6, <1>7, KindOf

\* What running a tree leaves.
LEMMA RunsIs ==
  /\ \A n \in Trees : \A s \in Stores : Runs[n][s] = RunStep(Runs, n, s)
  /\ \A n \in Trees : Runs[n] \in [Stores -> Results]
  <1>. DEFINE Step(g, n) == [s \in Stores |-> RunStep(g, n, s)]
              V == [Stores -> Results]
              F == [n \in Trees |-> [g \in [Trees -> V] |-> Step(g, n)]]
  <1>0. ASSUME NEW n \in Trees, NEW g, \A c \in Children(n) : g[c] \in V
        PROVE  Step(g, n) \in V
    BY <1>0, RunStepType
  <1>1. \A n \in Trees : \A g \in [Trees -> V] : Step(g, n) \in V
    <2>. SUFFICES ASSUME NEW n \in Trees, NEW g \in [Trees -> V] PROVE Step(g, n) \in V
      OBVIOUS
    <2>1. \A c \in Children(n) : g[c] \in V
      BY PartsOf
    <2>. HIDE DEF Step, V
    <2>. QED BY <1>0, <2>1
  <1>2. \A n \in Trees : \A g, h \in [Trees -> V] :
          (\A c \in Children(n) : g[c] = h[c]) => Step(g, n) = Step(h, n)
    <2>. SUFFICES ASSUME NEW n \in Trees, NEW g \in [Trees -> V], NEW h \in [Trees -> V],
                         \A c \in Children(n) : g[c] = h[c]
                  PROVE  Step(g, n) = Step(h, n)
      OBVIOUS
    <2>1. \A s \in Stores : RunStep(g, n, s) = RunStep(h, n, s)
      BY RunStepSame
    <2>. QED BY <2>1
  <1>3. Recursive(V, F)
    <2>1. V # {}
      <3>1. EmptyStore \in Stores /\ <<>> \in Seq(Printed) /\ 0 \in Int_
        BY IntMaxAssumption DEF EmptyStore, Stores, Int_
      <3>2. Outcome(EmptyStore, <<>>, 0) \in Results
        BY <3>1, OutcomeType
      <3>3. [s \in Stores |-> Outcome(EmptyStore, <<>>, 0)] \in V
        BY <3>2
      <3>. QED BY <3>3
    <2>. HIDE DEF Step, V
    <2>. QED BY <1>1, <1>2, <2>1 DEF Recursive
  <1>4. PICK f \in [Trees -> V] : \A n \in Trees : f[n] = Step(f, n)
    <2>1. Solvable(V, F)
      <3>. HIDE DEF V, F
      <3>. QED BY <1>3, Recursion
    <2>. HIDE DEF Step, V
    <2>. QED BY <2>1 DEF Solvable
  <1>5. f = [n \in Trees |-> Step(f, n)]
    <2>. HIDE DEF Step
    <2>. QED BY <1>4
  <1>6. Runs = [n \in Trees |-> Step(Runs, n)]
    <2>1. \E r : r = [n \in Trees |-> Step(r, n)]
      BY <1>5
    <2>. QED BY <2>1 DEF Runs, RunStep
  <1>7. \A n \in Trees : Runs[n] = Step(Runs, n)
    <2>. HIDE DEF Step
    <2>. QED BY <1>6
  <1>8. \A n \in Trees : Runs[n] \in V
    <2>. DEFINE G == {n \in Trees : Runs[n] \in V}
    <2>1. \A n \in Trees : Children(n) \subseteq G => n \in G
      <3>. SUFFICES ASSUME NEW n \in Trees, Children(n) \subseteq G PROVE Step(Runs, n) \in V
        BY <1>7
      <3>1. \A c \in Children(n) : Runs[c] \in V
        OBVIOUS
      <3>. HIDE DEF Step, V
      <3>. QED BY <1>0, <3>1
    <2>2. Trees \subseteq G
      <3>. HIDE DEF G
      <3>. QED BY <2>1, TreeInduction
    <2>. QED BY <2>2
  <1>9. \A n \in Trees : \A s \in Stores : Runs[n][s] = RunStep(Runs, n, s)
    BY <1>7
  <1>. QED BY <1>8, <1>9

\* What was printed before and after.
LEMMA Concats ==
  ASSUME NEW o \in Seq(Printed), NEW p \in Seq(Printed), NEW q \in Seq(Printed)
  PROVE  o \o (p \o q) = (o \o p) \o q /\ o \o <<>> = o /\ o \o p \in Seq(Printed)
  OBVIOUS

LEMMA Appends ==
  ASSUME NEW o \in Seq(Printed), NEW p \in Seq(Printed), NEW e \in Printed
  PROVE  o \o Append(p, e) = Append(o \o p, e) /\ Append(o, e) \in Seq(Printed)
  OBVIOUS

LEMMA AfterAfter ==
  ASSUME NEW o \in Seq(Printed), NEW p \in Seq(Printed), NEW r \in Results
  PROVE  After(o, After(p, r)) = After(o \o p, r)
  <1>1. After(p, r) = Outcome(r.store, p \o r.out, r.i) /\ After(p, r) \in Results
    BY AfterIs
  <1>. DEFINE q == p \o r.out
  <1>2. r.store \in Stores /\ r.out \in Seq(Printed) /\ r.i \in Int_ /\ q \in Seq(Printed)
        /\ o \o p \in Seq(Printed)
    BY ResultParts
  <1>3. o \o q = (o \o p) \o r.out
    <2>1. \A x \in Seq(Printed) : o \o (p \o x) = (o \o p) \o x
      BY Concats
    <2>. QED BY <1>2, <2>1
  <1>. HIDE DEF q
  <1>4. After(p, r).store = r.store /\ After(p, r).out = q /\ After(p, r).i = r.i
    <2>1. After(p, r) = Outcome(r.store, q, r.i)
      BY <1>1 DEF q
    <2>. QED BY <1>2, <2>1, OutcomeType
  <1>5. After(o, After(p, r)) = Outcome(r.store, o \o q, r.i)
    BY <1>1, <1>4, AfterIs
  <1>6. After(o \o p, r) = Outcome(r.store, (o \o p) \o r.out, r.i)
    BY <1>2, AfterIs
  <1>. QED BY <1>3, <1>5, <1>6

\* The parts of what is left when o was printed before.
LEMMA AfterParts ==
  ASSUME NEW o \in Seq(Printed), NEW r \in Results
  PROVE  /\ After(o, r) \in Results /\ After(o, r).store = r.store
         /\ After(o, r).out = o \o r.out /\ After(o, r).i = r.i
  <1>. DEFINE q == o \o r.out
  <1>1. r.store \in Stores /\ r.i \in Int_ /\ q \in Seq(Printed)
    BY ResultParts
  <1>2. After(o, r) = Outcome(r.store, q, r.i) /\ After(o, r) \in Results
    BY AfterIs
  <1>. HIDE DEF q
  <1>3. After(o, r).store = r.store /\ After(o, r).out = q /\ After(o, r).i = r.i
    BY <1>1, <1>2, OutcomeType
  <1>. QED BY <1>2, <1>3 DEF q

LEMMA AfterOutcome ==
  ASSUME NEW o \in Seq(Printed), NEW s \in Stores, NEW p \in Seq(Printed), NEW v \in Int_
  PROVE  After(o, Outcome(s, p, v)) = Outcome(s, o \o p, v)
  <1>1. /\ Outcome(s, p, v) \in Results /\ Outcome(s, p, v).store = s
        /\ Outcome(s, p, v).out = p /\ Outcome(s, p, v).i = v
    BY OutcomeType
  <1>. QED BY <1>1, AfterIs

LEMMA RunsType ==
  ASSUME NEW n \in Trees, NEW s \in Stores
  PROVE  Runs[n][s] \in Results
  BY RunsIs

\* What is left, class by class.
LEMMA RunsParts ==
  ASSUME NEW n \in Trees, NEW s \in Stores
  PROVE  /\ n.kind = "CompoundStm" =>
              Runs[n][s] = After(Runs[n.stm1][s].out, Runs[n.stm2][Runs[n.stm1][s].store])
         /\ n.kind = "AssignStm" =>
              Runs[n][s] = Outcome(Store(Runs[n.exp][s].store, n.id, Runs[n.exp][s].i),
                                   Runs[n.exp][s].out, 0)
         /\ n.kind = "PrintStm" => Runs[n][s] = Runs[n.exps][s]
         /\ n.kind = "IdExp" => Runs[n][s] = Outcome(s, <<>>, Fetched(s, n.id))
         /\ n.kind = "NumExp" => Runs[n][s] = Outcome(s, <<>>, n.num)
         /\ n.kind = "OpExp" =>
              LET l == Runs[n.left][s]
                  r == Runs[n.right][l.store]
              IN  Runs[n][s] = Outcome(r.store, l.out \o r.out, Computed(n.oper, l.i, r.i))
         /\ n.kind = "EseqExp" =>
              Runs[n][s] = After(Runs[n.stm][s].out, Runs[n.exp][Runs[n.stm][s].store])
         /\ n.kind = "LastExpList" =>
              LET e == Runs[n.exp][s]
              IN  Runs[n][s] = Outcome(e.store, Append(e.out, [i |-> e.i, ends |-> TRUE]), e.i)
         /\ n.kind = "PairExpList" =>
              LET e == Runs[n.exp][s]
              IN  Runs[n][s] = After(Append(e.out, [i |-> e.i, ends |-> FALSE]),
                                     Runs[n.tail][e.store])
  <1>0. Runs[n][s] = RunStep(Runs, n, s)
    BY RunsIs
  <1>1. CASE n.kind = "CompoundStm"
    BY <1>0, <1>1 DEF RunStep
  <1>2. CASE n.kind = "AssignStm"
    BY <1>0, <1>2 DEF RunStep
  <1>3. CASE n.kind = "PrintStm"
    BY <1>0, <1>3 DEF RunStep
  <1>4. CASE n.kind = "IdExp"
    BY <1>0, <1>4 DEF RunStep
  <1>5. CASE n.kind = "NumExp"
    BY <1>0, <1>5 DEF RunStep
  <1>6. CASE n.kind = "OpExp"
    BY <1>0, <1>6 DEF RunStep
  <1>7. CASE n.kind = "EseqExp"
    BY <1>0, <1>7 DEF RunStep
  <1>8. CASE n.kind = "LastExpList"
    BY <1>0, <1>8 DEF RunStep
  <1>9. CASE n.kind = "PairExpList"
    BY <1>0, <1>9 DEF RunStep
  <1>. QED BY <1>1, <1>2, <1>3, <1>4, <1>5, <1>6, <1>7, <1>8, <1>9, KindOf

-----------------------------------------------------------------------------
(* The store a table stands for *)

LEMMA StoreOfType == ASSUME NEW t \in TableType PROVE StoreOf(t) \in Stores
  <1>1. \A x \in Id : {t[p].value : p \in {q \in DOMAIN t : Lookup(t, x, q)}} \in SUBSET Int_
    BY EntryType
  <1>. QED BY <1>1 DEF StoreOf, Stores

LEMMA StoreOfEmpty == StoreOf(<<>>) = EmptyStore
  BY DEF StoreOf, EmptyStore

\* There is one latest binding.
LEMMA OneLookup ==
  ASSUME NEW t \in TableType, NEW x, NEW p \in DOMAIN t, NEW q \in DOMAIN t,
         Lookup(t, x, p), Lookup(t, x, q)
  PROVE  p = q
  <1>1. p \in Nat /\ q \in Nat /\ p >= 1 /\ q >= 1
    BY ElementOf DEF TableType
  <1>. QED BY <1>1 DEF Lookup

LEMMA FetchedIs ==
  ASSUME NEW t \in TableType, NEW x \in Id, NEW p \in DOMAIN t, Lookup(t, x, p)
  PROVE  Fetched(StoreOf(t), x) = t[p].value
  <1>1. {q \in DOMAIN t : Lookup(t, x, q)} = {p}
    BY OneLookup
  <1>2. StoreOf(t)[x] = {t[p].value}
    BY <1>1 DEF StoreOf
  <1>. QED BY <1>2 DEF Fetched

LEMMA StoreOfUpdate ==
  ASSUME NEW t \in TableType, NEW id \in Id, NEW v \in Int_
  PROVE  StoreOf(Update(t, id, v)) = Store(StoreOf(t), id, v)
  <1>. DEFINE e == [id |-> id, value |-> v]
              u == <<e>> \o t
              At(s, x) == {s[p].value : p \in {q \in DOMAIN s : Lookup(s, x, q)}}
  <1>1. /\ Len(t) \in Nat /\ DOMAIN t = 1..Len(t) /\ DOMAIN u = 1..(Len(t) + 1) /\ u[1] = e
        /\ \A p \in 1..Len(t) : u[p + 1] = t[p]
    <2>. HIDE DEF e
    <2>. QED BY DEF TableType
  <1>2. e.id = id /\ e.value = v
    OBVIOUS
  <1>3. Update(t, id, v) = u
    BY DEF Update
  <1>. HIDE DEF e, u
  <1>4. At(u, id) = {v}
    <2>1. 1 \in DOMAIN u /\ Lookup(u, id, 1)
      BY <1>1, <1>2 DEF Lookup
    <2>2. \A q \in DOMAIN u : Lookup(u, id, q) => q = 1
      <3>. SUFFICES ASSUME NEW q \in DOMAIN u, Lookup(u, id, q), q # 1 PROVE FALSE
        OBVIOUS
      <3>1. 1 \in 1..(q - 1)
        BY <1>1
      <3>. QED BY <1>1, <1>2, <3>1 DEF Lookup
    <2>3. {q \in DOMAIN u : Lookup(u, id, q)} = {1}
      BY <2>1, <2>2
    <2>. QED BY <1>1, <1>2, <2>3
  <1>5. ASSUME NEW x \in Id, x # id PROVE At(u, x) = At(t, x)
    <2>1. ASSUME NEW p \in DOMAIN t PROVE Lookup(u, x, p + 1) <=> Lookup(t, x, p)
      <3>1. p + 1 \in DOMAIN u /\ u[p + 1] = t[p] /\ p \in Nat /\ p <= Len(t)
        BY <1>1
      <3>2. ASSUME Lookup(t, x, p) PROVE Lookup(u, x, p + 1)
        <4>. SUFFICES ASSUME NEW q \in 1..((p + 1) - 1) PROVE u[q].id # x
          BY <3>1, <3>2 DEF Lookup
        <4>1. CASE q = 1
          BY <1>1, <1>2, <1>5, <4>1
        <4>2. CASE q # 1
          <5>1. q - 1 \in 1..(p - 1) /\ q - 1 \in 1..Len(t) /\ (q - 1) + 1 = q
            BY <3>1, <4>2
          <5>2. u[q] = t[q - 1] /\ t[q - 1].id # x
            BY <1>1, <3>2, <5>1 DEF Lookup
          <5>. QED BY <5>2
        <4>. QED BY <4>1, <4>2
      <3>3. ASSUME Lookup(u, x, p + 1) PROVE Lookup(t, x, p)
        <4>. SUFFICES ASSUME NEW q \in 1..(p - 1) PROVE t[q].id # x
          BY <3>1, <3>3 DEF Lookup
        <4>1. q + 1 \in 1..((p + 1) - 1) /\ q \in 1..Len(t)
          BY <3>1
        <4>2. u[q + 1] = t[q] /\ u[q + 1].id # x
          BY <1>1, <3>3, <4>1 DEF Lookup
        <4>. QED BY <4>2
      <3>. QED BY <3>2, <3>3
    <2>2. ~Lookup(u, x, 1)
      BY <1>1, <1>2, <1>5 DEF Lookup
    <2>3. ASSUME NEW y \in At(u, x) PROVE y \in At(t, x)
      <3>1. PICK q \in DOMAIN u : Lookup(u, x, q) /\ y = u[q].value
        BY <2>3
      <3>2. q # 1
        BY <2>2, <3>1
      <3>3. q - 1 \in DOMAIN t /\ (q - 1) + 1 = q
        BY <1>1, <3>2
      <3>4. Lookup(t, x, q - 1) /\ t[q - 1] = u[q]
        BY <1>1, <2>1, <3>1, <3>3
      <3>. QED BY <3>1, <3>3, <3>4
    <2>4. ASSUME NEW y \in At(t, x) PROVE y \in At(u, x)
      <3>1. PICK q \in DOMAIN t : Lookup(t, x, q) /\ y = t[q].value
        BY <2>4
      <3>2. q + 1 \in DOMAIN u /\ u[q + 1] = t[q] /\ Lookup(u, x, q + 1)
        BY <1>1, <2>1, <3>1
      <3>. QED BY <3>1, <3>2
    <2>. QED BY <2>3, <2>4
  <1>6. StoreOf(t) = [x \in Id |-> At(t, x)] /\ StoreOf(u) = [x \in Id |-> At(u, x)]
    BY DEF StoreOf
  <1>. HIDE DEF At
  <1>7. StoreOf(u) = [StoreOf(t) EXCEPT ![id] = {v}]
    BY <1>4, <1>5, <1>6
  <1>. QED BY <1>3, <1>7 DEF Store

-----------------------------------------------------------------------------
(* The parts of a tree *)

LEMMA HasParts ==
  ASSUME NEW n \in Trees, NEW kind
  PROVE  /\ Has(n, kind) <=> n.kind = kind \/ \E c \in Children(n) : Has(c, kind)
         /\ n \in Subtrees[n]
  <1>1. Subtrees[n] = {n} \union UNION {Subtrees[c] : c \in Children(n)}
    BY SubtreesIs
  <1>. QED BY <1>1 DEF Has

LEMMA SubtreesOfSubtree ==
  \A n \in Trees : \A m \in Subtrees[n] : m \in Trees /\ Subtrees[m] \subseteq Subtrees[n]
  <1>. DEFINE G == {n \in Trees : \A m \in Subtrees[n] : Subtrees[m] \subseteq Subtrees[n]}
  <1>1. \A n \in Trees : Children(n) \subseteq G => n \in G
    BY SubtreesIs
  <1>2. Trees \subseteq G
    <2>. HIDE DEF G
    <2>. QED BY <1>1, TreeInduction
  <1>. QED BY <1>2, SubtreesIs

LEMMA ChildInProgram ==
  ASSUME NEW p \in Trees, NEW n \in Subtrees[p], NEW c \in Children(n)
  PROVE  c \in Subtrees[p] /\ c \in Trees /\ n \in Trees
  <1>1. n \in Trees /\ Subtrees[n] \subseteq Subtrees[p]
    BY SubtreesOfSubtree
  <1>2. c \in Trees
    BY <1>1, PartsOf
  <1>3. c \in Subtrees[c]
    BY <1>2, HasParts
  <1>4. Subtrees[n] = {n} \union UNION {Subtrees[d] : d \in Children(n)}
    BY <1>1, SubtreesIs
  <1>. QED BY <1>1, <1>2, <1>3, <1>4

\* No expression of the tree p assigns.
NoneAssigns(p) ==
  \A m \in Subtrees[p] : m.kind = "EseqExp" => ~Has(m.stm, "AssignStm")

\* Then no expression has an assignment in it.
LEMMA ExpsDoNotAssign ==
  \A n \in Trees :
    n.kind \in Exps \union ExpLists /\ NoneAssigns(n) => ~Has(n, "AssignStm")
  <1>. DEFINE P(n) == n.kind \in Exps \union ExpLists /\ NoneAssigns(n)
              G == {n \in Trees : P(n) => ~Has(n, "AssignStm")}
  <1>1. ASSUME NEW n \in Trees, Children(n) \subseteq G, P(n) PROVE ~Has(n, "AssignStm")
    <2>. SUFFICES ASSUME NEW c \in Children(n), Has(c, "AssignStm") PROVE FALSE
      BY <1>1, HasParts DEF Exps, ExpLists
    <2>1. c \in Trees /\ Subtrees[c] \subseteq Subtrees[n] /\ n \in Subtrees[n]
      BY HasParts, ChildInProgram, SubtreesOfSubtree
    <2>2. NoneAssigns(c)
      BY <1>1, <2>1 DEF NoneAssigns
    <2>3. c.kind \notin Exps \union ExpLists
      BY <1>1, <2>2
    <2>4. n.kind = "EseqExp" /\ c = n.stm
      BY <1>1, <2>3, PartsOf, KindOf DEF Exps, ExpLists
    <2>. QED BY <1>1, <2>1, <2>4 DEF NoneAssigns
  <1>2. \A n \in Trees : Children(n) \subseteq G => n \in G
    <2>. HIDE DEF P
    <2>. QED BY <1>1
  <1>3. Trees \subseteq G
    <2>. HIDE DEF G
    <2>. QED BY <1>2, TreeInduction
  <1>. QED BY <1>3

\* What has no assignment in it leaves the store as it was.
LEMMA StoreStays ==
  \A n \in Trees : ~Has(n, "AssignStm") => \A s \in Stores : Runs[n][s].store = s
  <1>. DEFINE P(n) == \A s \in Stores : Runs[n][s].store = s
              G == {n \in Trees : ~Has(n, "AssignStm") => P(n)}
  <1>1. ASSUME NEW n \in Trees, Children(n) \subseteq G, ~Has(n, "AssignStm"), NEW s \in Stores
        PROVE  Runs[n][s].store = s
    <2>1. \A c \in Children(n) : c \in Trees /\ P(c)
      BY <1>1, HasParts
    <2>2. n.kind # "AssignStm"
      BY <1>1, HasParts
    <2>4. CASE n.kind = "CompoundStm"
      <3>. DEFINE first == Runs[n.stm1][s]
                  then == Runs[n.stm2][first.store]
      <3>1. n.stm1 \in Children(n) /\ n.stm2 \in Children(n)
        BY <2>4, PartsOf
      <3>2. first.store = s /\ first \in Results
        BY <2>1, <3>1, RunsType
      <3>3. then.store = s /\ then \in Results
        BY <2>1, <3>1, <3>2, RunsType
      <3>4. Runs[n][s] = After(first.out, then)
        BY <2>4, RunsParts
      <3>. HIDE DEF first, then
      <3>. QED BY <3>2, <3>3, <3>4, AfterParts, ResultParts
    <2>5. CASE n.kind = "PrintStm"
      <3>1. Runs[n][s] = Runs[n.exps][s] /\ n.exps \in Children(n)
        BY <2>5, PartsOf, RunsParts
      <3>. QED BY <2>1, <3>1
    <2>6. CASE n.kind = "IdExp" \/ n.kind = "NumExp"
      <3>1. \/ Runs[n][s] = Outcome(s, <<>>, Fetched(s, n.id))
            \/ Runs[n][s] = Outcome(s, <<>>, n.num)
        BY <2>6, RunsParts
      <3>. QED BY <3>1 DEF Outcome
    <2>7. CASE n.kind = "OpExp"
      <3>1. n.left \in Children(n) /\ n.right \in Children(n)
        BY <2>7, PartsOf
      <3>2. Runs[n.left][s].store = s /\ Runs[n.right][s].store = s
        BY <2>1, <3>1
      <3>. DEFINE l == Runs[n.left][s]
                  r == Runs[n.right][l.store]
      <3>3. Runs[n][s] = Outcome(r.store, l.out \o r.out, Computed(n.oper, l.i, r.i))
        BY <2>7, RunsParts
      <3>4. r.store = s
        BY <3>2
      <3>. HIDE DEF l, r
      <3>. QED BY <3>3, <3>4 DEF Outcome
    <2>8. CASE n.kind = "EseqExp"
      <3>. DEFINE first == Runs[n.stm][s]
                  then == Runs[n.exp][first.store]
      <3>1. n.stm \in Children(n) /\ n.exp \in Children(n)
        BY <2>8, PartsOf
      <3>2. first.store = s /\ first \in Results
        BY <2>1, <3>1, RunsType
      <3>3. then.store = s /\ then \in Results
        BY <2>1, <3>1, <3>2, RunsType
      <3>4. Runs[n][s] = After(first.out, then)
        BY <2>8, RunsParts
      <3>. HIDE DEF first, then
      <3>. QED BY <3>2, <3>3, <3>4, AfterParts, ResultParts
    <2>9. CASE n.kind = "LastExpList"
      <3>1. Runs[n.exp][s].store = s
        BY <2>1, <2>9, PartsOf
      <3>. DEFINE e == Runs[n.exp][s]
      <3>2. Runs[n][s] = Outcome(e.store, Append(e.out, [i |-> e.i, ends |-> TRUE]), e.i)
        BY <2>9, RunsParts
      <3>. QED BY <3>1, <3>2 DEF Outcome
    <2>10. CASE n.kind = "PairExpList"
      <3>. DEFINE e == Runs[n.exp][s]
                  then == Runs[n.tail][e.store]
                  o == Append(e.out, [i |-> e.i, ends |-> FALSE])
      <3>1. n.exp \in Children(n) /\ n.tail \in Children(n)
        BY <2>10, PartsOf
      <3>2. e.store = s /\ e \in Results
        BY <2>1, <3>1, RunsType
      <3>3. then.store = s /\ then \in Results
        BY <2>1, <3>1, <3>2, RunsType
      <3>4. Runs[n][s] = After(o, then)
        BY <2>10, RunsParts
      <3>5. o \in Seq(Printed)
        <4>. HIDE DEF e
        <4>. QED BY <3>2, ResultParts, LongerOutput
      <3>. HIDE DEF e, then, o
      <3>. QED BY <3>2, <3>3, <3>4, <3>5, AfterParts
    <2>. QED BY <2>2, <2>4, <2>5, <2>6, <2>7, <2>8, <2>9, <2>10, KindOf
  <1>2. \A n \in Trees : Children(n) \subseteq G => n \in G
    BY <1>1
  <1>3. Trees \subseteq G
    <2>. HIDE DEF G
    <2>. QED BY <1>2, TreeInduction
  <1>. QED BY <1>3

-----------------------------------------------------------------------------
(* One store, although tables are passed around *)

\* What an activation leaves once the part it waits for has left r.
Finish(f, r) ==
  CASE f.node.kind = "CompoundStm" -> After(r.out, Runs[f.node.stm2][r.store])
    [] f.node.kind = "AssignStm"   -> Outcome(Store(r.store, f.node.id, r.i), r.out, 0)
    [] f.node.kind = "EseqExp"     -> After(r.out, Runs[f.node.exp][r.store])
    [] f.node.kind = "OpExp" /\ f.left = None ->
         LET q == Runs[f.node.right][r.store]
         IN  Outcome(q.store, r.out \o q.out, Computed(f.node.oper, r.i, q.i))
    [] f.node.kind = "OpExp" /\ f.left # None ->
         Outcome(r.store, r.out, Computed(f.node.oper, f.left.i, r.i))
    [] f.node.kind = "LastExpList" ->
         Outcome(r.store, Append(r.out, [i |-> r.i, ends |-> TRUE]), r.i)
    [] f.node.kind = "PairExpList" ->
         After(Append(r.out, [i |-> r.i, ends |-> FALSE]), Runs[f.node.tail][r.store])

\* The classes that go on from the table they were called with.
FromCall == {"AssignStm", "EseqExp"}

IsRun(f, a, b) == b = Finish(f, a) /\ (f.node.kind \in FromCall => a.store = StoreOf(f.t))

RunLinks(p) ==
  {l \in Frame \X Results \X Results : l[1].node \in Subtrees[p] /\ IsRun(l[1], l[2], l[3])}

LEMMA RunLink ==
  ASSUME NEW p, NEW f, NEW a, NEW b
  PROVE  <<f, a, b>> \in RunLinks(p) <=>
           /\ f \in Frame /\ a \in Results /\ b \in Results
           /\ f.node \in Subtrees[p] /\ IsRun(f, a, b)
  BY DEF RunLinks

\* What comes of calling n with t, and of having returned i and t, when o has been printed.
Ran(o, n, t) == After(o, Runs[n][StoreOf(t)])
Gave(o, i, t) == Outcome(StoreOf(t), o, i)

RunNow == IF ret = None THEN Ran(out, Top.node, Top.t) ELSE Gave(out, ret.i, ret.t)

Meant == Runs[program][EmptyStore]

RunInv ==
  /\ status = "running" /\ AssignsOutside =>
       /\ Chain(Results, RunLinks(program), Waiting, RunNow, Meant)
       /\ ret = None => Top.node \in Subtrees[program]
  /\ StoreSemantics

LEMMA RanIs ==
  ASSUME NEW o \in Seq(Printed), NEW n \in Trees, NEW t \in TableType
  PROVE  /\ Ran(o, n, t) \in Results /\ Runs[n][StoreOf(t)] \in Results
         /\ Ran(o, n, t).store = Runs[n][StoreOf(t)].store
         /\ Ran(o, n, t).out = o \o Runs[n][StoreOf(t)].out
         /\ Ran(o, n, t).i = Runs[n][StoreOf(t)].i
  <1>1. Runs[n][StoreOf(t)] \in Results
    BY StoreOfType, RunsType
  <1>. QED BY <1>1, AfterParts DEF Ran

LEMMA GaveIs ==
  ASSUME NEW o \in Seq(Printed), NEW i \in Int_, NEW t \in TableType
  PROVE  /\ Gave(o, i, t) \in Results /\ Gave(o, i, t).store = StoreOf(t)
         /\ Gave(o, i, t).out = o /\ Gave(o, i, t).i = i
  <1>1. StoreOf(t) \in Stores
    BY StoreOfType
  <1>. QED BY <1>1, OutcomeType DEF Gave

-----------------------------------------------------------------------------

LEMMA RunStarts ==
  ASSUME NEW w, NEW n, NEW t, StartsAt(w, n, t), status = "running", AssignsOutside,
         n \in Subtrees[program], Chain(Results, RunLinks(program), w, Ran(out', n, t), Meant)
  PROVE  RunInv'
  <1>1. ret' = None /\ Top' = Activation(n, t) /\ Waiting' = w /\ status' = "running"
        /\ program' = program
    BY DEF StartsAt, Stays
  <1>2. Top'.node = n /\ Top'.t = t
    BY <1>1 DEF Activation
  <1>3. RunNow' = Ran(out', n, t)
    BY <1>1, <1>2 DEF RunNow
  <1>. QED BY <1>1, <1>2, <1>3 DEF RunInv, StoreSemantics, Meant

LEMMA RunEnds ==
  ASSUME NEW w, NEW i, NEW t, EndsWith(w, i, t), status = "running", AssignsOutside,
         Chain(Results, RunLinks(program), w, Gave(out', i, t), Meant)
  PROVE  RunInv'
  <1>1. ret' # None /\ ret'.t = t /\ ret'.i = i /\ Waiting' = w /\ status' = "running"
        /\ program' = program
    BY DEF EndsWith, Stays
  <1>2. RunNow' = Gave(out', i, t)
    BY <1>1 DEF RunNow
  <1>. QED BY <1>1, <1>2 DEF RunInv, StoreSemantics, Meant

\* A called activation.
LEMMA RunCalled ==
  ASSUME TypeInv, NEW kind, CalledOK(kind), RunInv, AssignsOutside
  PROVE  /\ program \in Trees /\ Top.node \in Subtrees[program] /\ out \in Seq(Printed)
         /\ StoreOf(Top.t) \in Stores
         /\ Chain(Results, RunLinks(program), Waiting, Ran(out, Top.node, Top.t), Meant)
  BY ProgramsAssumption, StoreOfType DEF CalledOK, TypeInv, RunInv, RunNow

\* A call of the part that is run first.
LEMMA RunCall ==
  ASSUME TypeInv, NEW kind, CalledOK(kind), RunInv, AssignsOutside, NEW n \in Children(Top.node),
         Ran(out, Top.node, Top.t) = Finish(Top, Ran(out, n, Top.t)),
         kind \in FromCall => Runs[n][StoreOf(Top.t)].store = StoreOf(Top.t),
         StartsAt(Append(Waiting, Top), n, Top.t), out' = out
  PROVE  RunInv'
  <1>1. status = "running" /\ ret = None /\ Waiting \in Seq(Frame) /\ Top \in Frame
        /\ Top.node \in Trees /\ Top.t \in TableType /\ Top.node.kind = kind
    BY DEF CalledOK
  <1>2. /\ program \in Trees /\ Top.node \in Subtrees[program] /\ out \in Seq(Printed)
        /\ Chain(Results, RunLinks(program), Waiting, Ran(out, Top.node, Top.t), Meant)
    BY RunCalled
  <1>3. n \in Subtrees[program] /\ n \in Trees
    BY <1>2, ChildInProgram
  <1>4. Ran(out, n, Top.t) \in Results /\ Ran(out, Top.node, Top.t) \in Results
        /\ Ran(out, n, Top.t).store = Runs[n][StoreOf(Top.t)].store
    BY <1>1, <1>2, <1>3, RanIs
  <1>5. IsRun(Top, Ran(out, n, Top.t), Ran(out, Top.node, Top.t))
    BY <1>1, <1>4 DEF IsRun
  <1>6. <<Top, Ran(out, n, Top.t), Ran(out, Top.node, Top.t)>> \in RunLinks(program)
    BY <1>1, <1>2, <1>4, <1>5, RunLink
  <1>7. Chain(Results, RunLinks(program), Append(Waiting, Top), Ran(out, n, Top.t), Meant)
    BY <1>1, <1>2, <1>4, <1>6, ChainPush
  <1>. QED BY <1>1, <1>3, <1>7, RunStarts

\* A return: what the activation leaves.
LEMMA RunReturn ==
  ASSUME TypeInv, NEW kind, ResumedOK(kind), RunInv, AssignsOutside
  PROVE  LET a == Gave(out, ret.i, ret.t)
         IN  /\ a \in Results /\ a.store = StoreOf(ret.t) /\ a.out = out /\ a.i = ret.i
             /\ program \in Trees /\ Top.node \in Subtrees[program] /\ out \in Seq(Printed)
             /\ StoreOf(ret.t) \in Stores /\ StoreOf(Top.t) \in Stores
             /\ kind \in FromCall => StoreOf(ret.t) = StoreOf(Top.t)
             /\ Finish(Top, a) \in Results
             /\ Chain(Results, RunLinks(program), Front(frames), Finish(Top, a), Meant)
  <1>. DEFINE a == Gave(out, ret.i, ret.t)
  <1>1. status = "running" /\ ret # None /\ Waiting = frames /\ frames \in Seq(Frame)
        /\ frames # <<>> /\ Top \in Frame /\ ret.t \in TableType /\ ret.i \in Int_
        /\ Top.node.kind = kind /\ Top.t \in TableType
    BY DEF ResumedOK
  <1>2. /\ program \in Trees /\ out \in Seq(Printed)
        /\ Chain(Results, RunLinks(program), frames, a, Meant)
    BY <1>1, ProgramsAssumption DEF TypeInv, RunInv, RunNow
  <1>3. a \in Results /\ a.store = StoreOf(ret.t) /\ a.out = out /\ a.i = ret.i
    BY <1>1, <1>2, GaveIs
  <1>. HIDE DEF a
  <1>4. PICK c \in Results : /\ <<Last(frames), a, c>> \in RunLinks(program)
                             /\ Chain(Results, RunLinks(program), Front(frames), c, Meant)
    BY <1>1, <1>2, ChainPop
  <1>5. Top.node \in Subtrees[program] /\ IsRun(Top, a, c)
    BY <1>4, RunLink DEF Top
  <1>6. c = Finish(Top, a) /\ (kind \in FromCall => a.store = StoreOf(Top.t))
    BY <1>1, <1>5 DEF IsRun
  <1>7. StoreOf(ret.t) \in Stores /\ StoreOf(Top.t) \in Stores
    BY <1>1, StoreOfType
  <1>. QED BY <1>2, <1>3, <1>4, <1>5, <1>6, <1>7 DEF a

-----------------------------------------------------------------------------
(* What a class leaves is what it makes of what its first part leaves *)

LEMMA FinishTwo ==
  ASSUME NEW o \in Seq(Printed), NEW f \in Frame,
         NEW m \in Trees, NEW n \in Trees,
         Finish(f, Ran(o, m, f.t)) = After(Ran(o, m, f.t).out, Runs[n][Ran(o, m, f.t).store]),
         Runs[f.node][StoreOf(f.t)] =
           After(Runs[m][StoreOf(f.t)].out, Runs[n][Runs[m][StoreOf(f.t)].store])
  PROVE  Ran(o, f.node, f.t) = Finish(f, Ran(o, m, f.t))
  <1>. DEFINE x == Runs[m][StoreOf(f.t)]
              a == Ran(o, m, f.t)
              y == Runs[n][x.store]
  <1>0. f.t \in TableType
    BY DEF Frame
  <1>1. a.store = x.store /\ a.out = o \o x.out /\ x \in Results
    BY <1>0, RanIs
  <1>2. x.store \in Stores /\ x.out \in Seq(Printed)
    <2>. HIDE DEF x
    <2>. QED BY <1>1, ResultParts
  <1>3. y \in Results
    <2>. HIDE DEF x
    <2>. QED BY <1>2, RunsType
  <1>4. Finish(f, a) = After(o \o x.out, y)
    BY <1>1
  <1>5. Ran(o, f.node, f.t) = After(o, After(x.out, y))
    BY DEF Ran
  <1>. HIDE DEF x, a, y
  <1>6. After(o, After(x.out, y)) = After(o \o x.out, y)
    BY <1>2, <1>3, AfterAfter
  <1>. QED BY <1>4, <1>5, <1>6 DEF a

LEMMA FinishAssign ==
  ASSUME NEW o \in Seq(Printed), NEW f \in Frame, f.node.kind = "AssignStm"
  PROVE  Ran(o, f.node, f.t) = Finish(f, Ran(o, f.node.exp, f.t))
  <1>. DEFINE x == Runs[f.node.exp][StoreOf(f.t)]
              a == Ran(o, f.node.exp, f.t)
              s == Store(x.store, f.node.id, x.i)
  <1>0. f.t \in TableType /\ f.node \in Trees
    BY DEF Frame
  <1>p. f.node.exp \in Trees /\ f.node.id \in Id /\ 0 \in Int_ /\ StoreOf(f.t) \in Stores
    BY <1>0, PartsOf, StoreOfType, IntMaxAssumption DEF Int_
  <1>1. a.store = x.store /\ a.out = o \o x.out /\ a.i = x.i /\ x \in Results
    BY <1>0, <1>p, RanIs
  <1>2. Runs[f.node][StoreOf(f.t)] = Outcome(s, x.out, 0)
    BY <1>0, <1>p, RunsParts
  <1>3. Finish(f, a) = Outcome(Store(a.store, f.node.id, a.i), a.out, 0)
    BY DEF Finish
  <1>4. s \in Stores /\ x.out \in Seq(Printed)
    <2>. HIDE DEF x
    <2>. QED BY <1>1, <1>p, ResultParts, StoreType
  <1>5. Finish(f, a) = Outcome(s, o \o x.out, 0)
    BY <1>1, <1>3
  <1>6. Ran(o, f.node, f.t) = After(o, Outcome(s, x.out, 0))
    BY <1>2 DEF Ran
  <1>. HIDE DEF x, a, s
  <1>7. After(o, Outcome(s, x.out, 0)) = Outcome(s, o \o x.out, 0)
    BY <1>4, <1>p, AfterOutcome
  <1>. QED BY <1>5, <1>6, <1>7 DEF a

LEMMA FinishOp ==
  ASSUME NEW o \in Seq(Printed), NEW f \in Frame, f.node.kind = "OpExp", f.left = None
  PROVE  Ran(o, f.node, f.t) = Finish(f, Ran(o, f.node.left, f.t))
  <1>. DEFINE x == Runs[f.node.left][StoreOf(f.t)]
              a == Ran(o, f.node.left, f.t)
              y == Runs[f.node.right][x.store]
              v == Computed(f.node.oper, x.i, y.i)
              p == x.out \o y.out
  <1>0. f.t \in TableType /\ f.node \in Trees
    BY DEF Frame
  <1>p. f.node.left \in Trees /\ f.node.right \in Trees /\ f.node.oper \in BinOp
        /\ StoreOf(f.t) \in Stores
    BY <1>0, PartsOf, StoreOfType
  <1>1. a.store = x.store /\ a.out = o \o x.out /\ a.i = x.i /\ x \in Results
    BY <1>0, <1>p, RanIs
  <1>2. x.store \in Stores /\ x.out \in Seq(Printed) /\ x.i \in Int_
    <2>. HIDE DEF x
    <2>. QED BY <1>1, ResultParts
  <1>3. y \in Results
    <2>. HIDE DEF x
    <2>. QED BY <1>2, <1>p, RunsType
  <1>4. y.store \in Stores /\ y.out \in Seq(Printed) /\ y.i \in Int_
    <2>. HIDE DEF y
    <2>. QED BY <1>3, ResultParts
  <1>5. Runs[f.node][StoreOf(f.t)] = Outcome(y.store, p, v)
    BY <1>0, <1>p, RunsParts
  <1>6. Finish(f, a) = Outcome(y.store, a.out \o y.out, v)
    <2>1. Finish(f, a) = LET q == Runs[f.node.right][a.store]
                         IN  Outcome(q.store, a.out \o q.out, Computed(f.node.oper, a.i, q.i))
      <3>. HIDE DEF a
      <3>. QED BY DEF Finish
    <2>. QED BY <1>1, <2>1
  <1>7. Ran(o, f.node, f.t) = After(o, Outcome(y.store, p, v))
    BY <1>5 DEF Ran
  <1>8. v \in Int_ /\ p \in Seq(Printed) /\ o \o p = (o \o x.out) \o y.out
    <2>. DEFINE j == x.out
                k == y.out
    <2>. HIDE DEF x, y
    <2>1. v \in Int_
      BY <1>2, <1>4, <1>p, ComputedInts
    <2>2. j \in Seq(Printed) /\ k \in Seq(Printed)
      BY <1>2, <1>4
    <2>. HIDE DEF j, k
    <2>3. o \o (j \o k) = (o \o j) \o k /\ j \o k \in Seq(Printed)
      BY <2>2, Concats
    <2>. QED BY <2>1, <2>3 DEF j, k
  <1>. HIDE DEF x, a, y, v, p
  <1>9. After(o, Outcome(y.store, p, v)) = Outcome(y.store, o \o p, v)
    BY <1>4, <1>8, AfterOutcome
  <1>. QED BY <1>1, <1>6, <1>7, <1>8, <1>9 DEF a

LEMMA FinishLast ==
  ASSUME NEW o \in Seq(Printed), NEW f \in Frame, f.node.kind = "LastExpList"
  PROVE  Ran(o, f.node, f.t) = Finish(f, Ran(o, f.node.exp, f.t))
  <1>. DEFINE x == Runs[f.node.exp][StoreOf(f.t)]
              a == Ran(o, f.node.exp, f.t)
              e == [i |-> x.i, ends |-> TRUE]
              p == Append(x.out, e)
  <1>0. f.t \in TableType /\ f.node \in Trees
    BY DEF Frame
  <1>p. f.node.exp \in Trees /\ StoreOf(f.t) \in Stores
    BY <1>0, PartsOf, StoreOfType
  <1>1. a.store = x.store /\ a.out = o \o x.out /\ a.i = x.i /\ x \in Results
    BY <1>0, <1>p, RanIs
  <1>2. x.store \in Stores /\ x.out \in Seq(Printed) /\ x.i \in Int_
    <2>. HIDE DEF x
    <2>. QED BY <1>1, ResultParts
  <1>3. Runs[f.node][StoreOf(f.t)] = Outcome(x.store, p, x.i)
    BY <1>0, <1>p, RunsParts
  <1>4. Finish(f, a) = Outcome(x.store, Append(a.out, e), x.i)
    <2>1. Finish(f, a) = Outcome(a.store, Append(a.out, [i |-> a.i, ends |-> TRUE]), a.i)
      <3>. HIDE DEF a
      <3>. QED BY DEF Finish
    <2>. QED BY <1>1, <2>1
  <1>5. Ran(o, f.node, f.t) = After(o, Outcome(x.store, p, x.i))
    BY <1>3 DEF Ran
  <1>6. p \in Seq(Printed) /\ o \o p = Append(o \o x.out, e)
    <2>. HIDE DEF x
    <2>1. e \in Printed
      BY <1>2 DEF Printed
    <2>. HIDE DEF e
    <2>. QED BY <1>2, <2>1, Appends
  <1>. HIDE DEF x, a, e, p
  <1>7. After(o, Outcome(x.store, p, x.i)) = Outcome(x.store, o \o p, x.i)
    BY <1>2, <1>6, AfterOutcome
  <1>. QED BY <1>1, <1>4, <1>5, <1>6, <1>7 DEF a

LEMMA FinishPair ==
  ASSUME NEW o \in Seq(Printed), NEW f \in Frame, f.node.kind = "PairExpList"
  PROVE  Ran(o, f.node, f.t) = Finish(f, Ran(o, f.node.exp, f.t))
  <1>. DEFINE x == Runs[f.node.exp][StoreOf(f.t)]
              a == Ran(o, f.node.exp, f.t)
              e == [i |-> x.i, ends |-> FALSE]
              p == Append(x.out, e)
              y == Runs[f.node.tail][x.store]
  <1>0. f.t \in TableType /\ f.node \in Trees
    BY DEF Frame
  <1>p. f.node.exp \in Trees /\ f.node.tail \in Trees /\ StoreOf(f.t) \in Stores
    BY <1>0, PartsOf, StoreOfType
  <1>1. a.store = x.store /\ a.out = o \o x.out /\ a.i = x.i /\ x \in Results
    BY <1>0, <1>p, RanIs
  <1>2. x.store \in Stores /\ x.out \in Seq(Printed) /\ x.i \in Int_
    <2>. HIDE DEF x
    <2>. QED BY <1>1, ResultParts
  <1>3. y \in Results
    <2>. HIDE DEF x
    <2>. QED BY <1>2, <1>p, RunsType
  <1>4. Runs[f.node][StoreOf(f.t)] = After(p, y)
    BY <1>0, <1>p, RunsParts
  <1>5. Finish(f, a) = After(Append(a.out, e), y)
    <2>1. Finish(f, a) = After(Append(a.out, [i |-> a.i, ends |-> FALSE]),
                               Runs[f.node.tail][a.store])
      <3>. HIDE DEF a
      <3>. QED BY DEF Finish
    <2>. QED BY <1>1, <2>1
  <1>6. Ran(o, f.node, f.t) = After(o, After(p, y))
    BY <1>4 DEF Ran
  <1>7. p \in Seq(Printed) /\ o \o p = Append(o \o x.out, e)
    <2>. HIDE DEF x
    <2>1. e \in Printed
      BY <1>2 DEF Printed
    <2>. HIDE DEF e
    <2>. QED BY <1>2, <2>1, Appends
  <1>. HIDE DEF x, a, e, p, y
  <1>8. After(o, After(p, y)) = After(o \o p, y)
    BY <1>3, <1>7, AfterAfter
  <1>. QED BY <1>1, <1>5, <1>6, <1>7, <1>8 DEF a

LEMMA RunInit == SlpInit => RunInv
  <1>. SUFFICES ASSUME SlpInit PROVE RunInv
    OBVIOUS
  <1>. DEFINE a == Activation(program, <<>>)
  <1>1. TypeInv /\ program \in Trees /\ <<>> \in TableType /\ <<>> \in Seq(Printed)
    BY TypeInit, ProgramsAssumption DEF SlpInit, TableType
  <1>2. frames = <<a>> /\ ret = None /\ status = "running" /\ out = <<>>
    BY DEF SlpInit
  <1>3. Top = a /\ Front(<<a>>) = <<>>
    BY <1>2 DEF Top, Last, Front
  <1>4. Waiting = <<>> /\ RunNow = Ran(<<>>, program, <<>>) /\ Top.node = program
    BY <1>2, <1>3 DEF Waiting, RunNow, Activation
  <1>5. EmptyStore \in Stores
    BY <1>1, StoreOfType, StoreOfEmpty
  <1>6. Meant \in Results
    BY <1>1, <1>5, RunsType DEF Meant
  <1>7. After(<<>>, Meant) = Meant
    <2>1. After(<<>>, Meant) = Outcome(Meant.store, <<>> \o Meant.out, Meant.i)
      BY <1>1, <1>6, AfterIs
    <2>2. Meant.out \in Seq(Printed) /\ Meant = Outcome(Meant.store, Meant.out, Meant.i)
      BY <1>6, ResultParts
    <2>3. <<>> \o Meant.out = Meant.out
      BY <2>2
    <2>. QED BY <2>1, <2>2, <2>3
  <1>8. Ran(<<>>, program, <<>>) = Meant
    BY <1>7, StoreOfEmpty DEF Ran, Meant
  <1>9. Chain(Results, RunLinks(program), <<>>, Meant, Meant)
    BY <1>6, ChainEmpty
  <1>10. program \in Subtrees[program]
    BY <1>1, HasParts
  <1>. QED BY <1>2, <1>4, <1>8, <1>9, <1>10 DEF RunInv, StoreSemantics

LEMMA RunGoesOn ==
  ASSUME TypeInv, RunInv, SlpStep, status = "running", status' = "running", AssignsOutside
  PROVE  RunInv'
  <1>1. CASE CompoundStm
    <2>1. /\ CalledOK("CompoundStm") /\ Top.node.stm1 \in Children(Top.node) /\ Top \in Frame
          /\ StartsAt(Append(Waiting, Top), Top.node.stm1, Top.t) /\ out' = out
          /\ Top.node.kind = "CompoundStm" /\ Top.node \in Trees
          /\ Top.node.stm1 \in Trees /\ Top.node.stm2 \in Trees
      BY <1>1, CompoundStmIs, PartsOf DEF CalledOK
    <2>2. out \in Seq(Printed) /\ StoreOf(Top.t) \in Stores
      BY <2>1, RunCalled
    <2>3. Finish(Top, Ran(out, Top.node.stm1, Top.t)) =
            After(Ran(out, Top.node.stm1, Top.t).out,
                  Runs[Top.node.stm2][Ran(out, Top.node.stm1, Top.t).store])
      BY <2>1 DEF Finish
    <2>4. Runs[Top.node][StoreOf(Top.t)] =
            After(Runs[Top.node.stm1][StoreOf(Top.t)].out,
                  Runs[Top.node.stm2][Runs[Top.node.stm1][StoreOf(Top.t)].store])
      BY <2>1, <2>2, RunsParts
    <2>5. Ran(out, Top.node, Top.t) = Finish(Top, Ran(out, Top.node.stm1, Top.t))
      BY <2>1, <2>2, <2>3, <2>4, FinishTwo
    <2>6. "CompoundStm" \notin FromCall
      BY DEF FromCall
    <2>. QED BY <2>1, <2>5, <2>6, RunCall
  <1>2. CASE CompoundStmSecond
    <2>. DEFINE a == Gave(out, ret.i, ret.t)
    <2>1. /\ ResumedOK("CompoundStm") /\ Top.node.stm2 \in Children(Top.node)
          /\ StartsAt(Front(frames), Top.node.stm2, ret.t) /\ out' = out
          /\ Top.node.kind = "CompoundStm"
      BY <1>2, CompoundStmSecondIs DEF ResumedOK
    <2>2. /\ a.store = StoreOf(ret.t) /\ a.out = out
          /\ program \in Trees /\ Top.node \in Subtrees[program]
          /\ Chain(Results, RunLinks(program), Front(frames), Finish(Top, a), Meant)
      BY <2>1, RunReturn
    <2>3. Finish(Top, a) = After(a.out, Runs[Top.node.stm2][a.store])
      BY <2>1 DEF Finish
    <2>4. Finish(Top, a) = Ran(out', Top.node.stm2, ret.t)
      BY <2>1, <2>2, <2>3 DEF Ran
    <2>5. Top.node.stm2 \in Subtrees[program]
      BY <2>1, <2>2, ChildInProgram
    <2>. HIDE DEF a
    <2>. QED BY <2>1, <2>2, <2>4, <2>5, RunStarts
  <1>3. CASE AssignStm
    <2>1. /\ CalledOK("AssignStm") /\ Top.node.exp \in Children(Top.node) /\ Top \in Frame
          /\ StartsAt(Append(Waiting, Top), Top.node.exp, Top.t) /\ out' = out
          /\ Top.node.kind = "AssignStm" /\ Top.node \in Trees
          /\ Top.node.exp \in Trees /\ Top.node.exp.kind \in Exps
      BY <1>3, AssignStmIs, PartsOf DEF CalledOK
    <2>2. out \in Seq(Printed) /\ StoreOf(Top.t) \in Stores /\ Top.node \in Subtrees[program]
          /\ program \in Trees
      BY <2>1, RunCalled
    <2>3. Ran(out, Top.node, Top.t) = Finish(Top, Ran(out, Top.node.exp, Top.t))
      BY <2>1, <2>2, FinishAssign
    <2>4. Top.node.exp \in Subtrees[program]
      BY <2>1, <2>2, ChildInProgram
    <2>5. NoneAssigns(Top.node.exp)
      BY <2>2, <2>4, SubtreesOfSubtree DEF AssignsOutside, NoneAssigns
    <2>6. ~Has(Top.node.exp, "AssignStm")
      BY <2>1, <2>5, ExpsDoNotAssign
    <2>7. Runs[Top.node.exp][StoreOf(Top.t)].store = StoreOf(Top.t)
      BY <2>1, <2>2, <2>6, StoreStays
    <2>. QED BY <2>1, <2>3, <2>7, RunCall
  <1>4. CASE AssignStmEnd
    <2>. DEFINE a == Gave(out, ret.i, ret.t)
                t == Update(Top.t, Top.node.id, ret.i)
    <2>1. /\ ResumedOK("AssignStm") /\ Top.node.id \in Id /\ out' = out
          /\ EndsWith(Front(frames), 0, t) /\ Top.t \in TableType /\ ret.i \in Int_
          /\ Top.node.kind = "AssignStm" /\ status = "running"
      BY <1>4, AssignStmEndIs DEF ResumedOK
    <2>2. /\ a.store = StoreOf(Top.t) /\ a.out = out /\ a.i = ret.i
          /\ Chain(Results, RunLinks(program), Front(frames), Finish(Top, a), Meant)
      BY <2>1, RunReturn DEF FromCall
    <2>3. Finish(Top, a) = Outcome(Store(a.store, Top.node.id, a.i), a.out, 0)
      BY <2>1 DEF Finish
    <2>4. StoreOf(t) = Store(StoreOf(Top.t), Top.node.id, ret.i)
      BY <2>1, StoreOfUpdate
    <2>. HIDE DEF a, t
    <2>5. Finish(Top, a) = Gave(out', 0, t)
      BY <2>1, <2>2, <2>3, <2>4 DEF Gave
    <2>. QED BY <2>1, <2>2, <2>5, RunEnds
  <1>5. CASE PrintStm
    <2>1. /\ CalledOK("PrintStm") /\ Top.node.exps \in Children(Top.node)
          /\ StartsAt(Waiting, Top.node.exps, Top.t) /\ out' = out
          /\ Top.node.kind = "PrintStm" /\ Top.node \in Trees
      BY <1>5, PrintStmIs DEF CalledOK
    <2>2. /\ program \in Trees /\ Top.node \in Subtrees[program] /\ StoreOf(Top.t) \in Stores
          /\ Chain(Results, RunLinks(program), Waiting, Ran(out, Top.node, Top.t), Meant)
      BY <2>1, RunCalled
    <2>3. Runs[Top.node][StoreOf(Top.t)] = Runs[Top.node.exps][StoreOf(Top.t)]
      BY <2>1, <2>2, RunsParts
    <2>4. Ran(out, Top.node, Top.t) = Ran(out', Top.node.exps, Top.t)
      BY <2>1, <2>3 DEF Ran
    <2>5. Top.node.exps \in Subtrees[program]
      BY <2>1, <2>2, ChildInProgram
    <2>. QED BY <2>1, <2>2, <2>4, <2>5, RunStarts
  <1>6. CASE IdExp
    <2>1. CalledOK("IdExp") /\ Top.node.id \in Id /\ out' = out /\ Top.node \in Trees
          /\ Top.node.kind = "IdExp" /\ Top.t \in TableType
      BY <1>6, IdExpIs DEF CalledOK
    <2>2. PICK p \in DOMAIN Top.t : /\ Lookup(Top.t, Top.node.id, p)
                                    /\ EndsWith(Waiting, Top.t[p].value, Top.t)
      BY <1>6, IdExpIs
    <2>. DEFINE v == Top.t[p].value
    <2>3. /\ out \in Seq(Printed) /\ StoreOf(Top.t) \in Stores
          /\ Chain(Results, RunLinks(program), Waiting, Ran(out, Top.node, Top.t), Meant)
      BY <2>1, RunCalled
    <2>4. Fetched(StoreOf(Top.t), Top.node.id) = v /\ v \in Int_
      BY <2>1, <2>2, FetchedIs, EntryType
    <2>5. Runs[Top.node][StoreOf(Top.t)] = Outcome(StoreOf(Top.t), <<>>, v)
      BY <2>1, <2>3, <2>4, RunsParts
    <2>. HIDE DEF v
    <2>6. After(out, Outcome(StoreOf(Top.t), <<>>, v)) = Outcome(StoreOf(Top.t), out \o <<>>, v)
      <3>1. <<>> \in Seq(Printed)
        OBVIOUS
      <3>. QED BY <2>3, <2>4, <3>1, AfterOutcome
    <2>7. out \o <<>> = out
      BY <2>3
    <2>8. Ran(out, Top.node, Top.t) = Gave(out', v, Top.t)
      BY <2>1, <2>5, <2>6, <2>7 DEF Ran, Gave
    <2>9. EndsWith(Waiting, v, Top.t)
      BY <2>2 DEF v
    <2>. QED BY <2>3, <2>8, <2>9, RunEnds
  <1>7. CASE NumExp
    <2>1. CalledOK("NumExp") /\ out' = out /\ Top.node \in Trees /\ Top.node.num \in Int_
          /\ Top.node.kind = "NumExp" /\ Top.t \in TableType
          /\ EndsWith(Waiting, Top.node.num, Top.t)
      BY <1>7, NumExpIs, PartsOf DEF CalledOK
    <2>2. /\ out \in Seq(Printed) /\ StoreOf(Top.t) \in Stores
          /\ Chain(Results, RunLinks(program), Waiting, Ran(out, Top.node, Top.t), Meant)
      BY <2>1, RunCalled
    <2>3. Runs[Top.node][StoreOf(Top.t)] = Outcome(StoreOf(Top.t), <<>>, Top.node.num)
      BY <2>1, <2>2, RunsParts
    <2>4. After(out, Outcome(StoreOf(Top.t), <<>>, Top.node.num))
            = Outcome(StoreOf(Top.t), out \o <<>>, Top.node.num)
      <3>1. <<>> \in Seq(Printed)
        OBVIOUS
      <3>. QED BY <2>1, <2>2, <3>1, AfterOutcome
    <2>5. out \o <<>> = out
      BY <2>2
    <2>6. Ran(out, Top.node, Top.t) = Gave(out', Top.node.num, Top.t)
      BY <2>1, <2>3, <2>4, <2>5 DEF Ran, Gave
    <2>. QED BY <2>1, <2>2, <2>6, RunEnds
  <1>8. CASE OpExp
    <2>1. /\ CalledOK("OpExp") /\ Top.node.left \in Children(Top.node) /\ Top \in Frame
          /\ StartsAt(Append(Waiting, Top), Top.node.left, Top.t) /\ out' = out
          /\ Top.node.kind = "OpExp" /\ Top.left = None
      BY <1>8, OpExpIs DEF CalledOK
    <2>2. Ran(out, Top.node, Top.t) = Finish(Top, Ran(out, Top.node.left, Top.t))
      BY <2>1, RunCalled, FinishOp
    <2>3. "OpExp" \notin FromCall
      BY DEF FromCall
    <2>. QED BY <2>1, <2>2, <2>3, RunCall
  <1>9. CASE OpExpRight
    <2>. DEFINE a == Gave(out, ret.i, ret.t)
                n == Top.node.right
                kept == [Top EXCEPT !.left = ret]
                q == Runs[n][StoreOf(ret.t)]
                b == Ran(out, n, ret.t)
    <2>1. /\ ResumedOK("OpExp") /\ Top.left = None /\ n \in Children(Top.node)
          /\ kept \in Frame /\ StartsAt(Append(Front(frames), kept), n, ret.t) /\ out' = out
      BY <1>9, OpExpRightIs
    <2>2. /\ ret # None /\ ret.t \in TableType /\ ret.i \in Int_ /\ Top.node \in Trees
          /\ Top \in Frame /\ Top.node.kind = "OpExp" /\ Front(frames) \in Seq(Frame)
          /\ status = "running" /\ n \in Trees
      BY <2>1, Stacks, PartsOf DEF ResumedOK
    <2>3. kept.node = Top.node /\ kept.left = ret
      BY <2>2 DEF Frame
    <2>4. /\ a.store = StoreOf(ret.t) /\ a.out = out /\ a.i = ret.i
          /\ program \in Trees /\ Top.node \in Subtrees[program] /\ out \in Seq(Printed)
          /\ Finish(Top, a) \in Results
          /\ Chain(Results, RunLinks(program), Front(frames), Finish(Top, a), Meant)
      BY <2>1, RunReturn
    <2>5. b \in Results /\ b.store = q.store /\ b.out = out \o q.out /\ b.i = q.i
      BY <2>2, <2>4, RanIs
    <2>6. n \in Subtrees[program]
      BY <2>1, <2>4, ChildInProgram
    <2>. HIDE DEF kept, a, b
    <2>7. Finish(Top, a) = Outcome(q.store, out \o q.out, Computed(Top.node.oper, ret.i, q.i))
      <3>1. Finish(Top, a) = LET r == Runs[n][a.store]
                             IN  Outcome(r.store, a.out \o r.out,
                                         Computed(Top.node.oper, a.i, r.i))
        BY <2>1, <2>2 DEF Finish
      <3>. QED BY <2>4, <3>1
    <2>8. Finish(kept, b) = Outcome(b.store, b.out, Computed(Top.node.oper, ret.i, b.i))
      BY <2>2, <2>3 DEF Finish
    <2>9. Finish(kept, b) = Finish(Top, a)
      <3>. HIDE DEF q
      <3>. QED BY <2>5, <2>7, <2>8
    <2>10. IsRun(kept, b, Finish(Top, a))
      BY <2>2, <2>3, <2>9 DEF IsRun, FromCall
    <2>11. <<kept, b, Finish(Top, a)>> \in RunLinks(program)
      BY <2>1, <2>3, <2>4, <2>5, <2>10, RunLink
    <2>. HIDE DEF q
    <2>12. Chain(Results, RunLinks(program), Append(Front(frames), kept), b, Meant)
      BY <2>1, <2>2, <2>4, <2>5, <2>11, ChainPush
    <2>13. b = Ran(out', n, ret.t)
      BY <2>1 DEF b
    <2>. QED BY <2>1, <2>2, <2>6, <2>12, <2>13, RunStarts
  <1>10. CASE OpExpApply
    <2>. DEFINE a == Gave(out, ret.i, ret.t)
                v == Apply(Top.node.oper, Top.left.i, ret.i)
    <2>1. /\ ResumedOK("OpExp") /\ Top.left # None /\ out' = out
          /\ ~Traps(Top.node.oper, Top.left.i, ret.i)
          /\ EndsWith(Front(frames), v, ret.t) /\ Top.node.kind = "OpExp" /\ status = "running"
      BY <1>10, OpExpApplyIs DEF ResumedOK
    <2>2. /\ a.store = StoreOf(ret.t) /\ a.out = out /\ a.i = ret.i
          /\ Chain(Results, RunLinks(program), Front(frames), Finish(Top, a), Meant)
      BY <2>1, RunReturn
    <2>. HIDE DEF a
    <2>3. Finish(Top, a) = Outcome(a.store, a.out, Computed(Top.node.oper, Top.left.i, a.i))
      BY <2>1 DEF Finish
    <2>4. Computed(Top.node.oper, Top.left.i, ret.i) = v
      BY <2>1 DEF Computed
    <2>. HIDE DEF v
    <2>5. Finish(Top, a) = Gave(out', v, ret.t)
      BY <2>1, <2>2, <2>3, <2>4 DEF Gave
    <2>. QED BY <2>1, <2>2, <2>5, RunEnds
  <1>11. CASE EseqExp
    <2>1. /\ CalledOK("EseqExp") /\ Top.node.stm \in Children(Top.node) /\ Top \in Frame
          /\ StartsAt(Append(Waiting, Top), Top.node.stm, Top.t) /\ out' = out
          /\ Top.node.kind = "EseqExp" /\ Top.node \in Trees
          /\ Top.node.stm \in Trees /\ Top.node.exp \in Trees
      BY <1>11, EseqExpIs, PartsOf DEF CalledOK
    <2>2. out \in Seq(Printed) /\ StoreOf(Top.t) \in Stores /\ Top.node \in Subtrees[program]
      BY <2>1, RunCalled
    <2>3. Finish(Top, Ran(out, Top.node.stm, Top.t)) =
            After(Ran(out, Top.node.stm, Top.t).out,
                  Runs[Top.node.exp][Ran(out, Top.node.stm, Top.t).store])
      BY <2>1 DEF Finish
    <2>4. Runs[Top.node][StoreOf(Top.t)] =
            After(Runs[Top.node.stm][StoreOf(Top.t)].out,
                  Runs[Top.node.exp][Runs[Top.node.stm][StoreOf(Top.t)].store])
      BY <2>1, <2>2, RunsParts
    <2>5. Ran(out, Top.node, Top.t) = Finish(Top, Ran(out, Top.node.stm, Top.t))
      BY <2>1, <2>2, <2>3, <2>4, FinishTwo
    <2>6. ~Has(Top.node.stm, "AssignStm")
      BY <2>1, <2>2 DEF AssignsOutside
    <2>7. Runs[Top.node.stm][StoreOf(Top.t)].store = StoreOf(Top.t)
      BY <2>1, <2>2, <2>6, StoreStays
    <2>. QED BY <2>1, <2>5, <2>7, RunCall
  <1>12. CASE EseqExpEnd
    <2>. DEFINE a == Gave(out, ret.i, ret.t)
    <2>1. /\ ResumedOK("EseqExp") /\ Top.node.exp \in Children(Top.node)
          /\ StartsAt(Front(frames), Top.node.exp, Top.t) /\ out' = out
          /\ Top.node.kind = "EseqExp"
      BY <1>12, EseqExpEndIs DEF ResumedOK
    <2>2. /\ a.store = StoreOf(Top.t) /\ a.out = out
          /\ program \in Trees /\ Top.node \in Subtrees[program]
          /\ Chain(Results, RunLinks(program), Front(frames), Finish(Top, a), Meant)
      BY <2>1, RunReturn DEF FromCall
    <2>3. Finish(Top, a) = After(a.out, Runs[Top.node.exp][a.store])
      BY <2>1 DEF Finish
    <2>4. Finish(Top, a) = Ran(out', Top.node.exp, Top.t)
      BY <2>1, <2>2, <2>3 DEF Ran
    <2>5. Top.node.exp \in Subtrees[program]
      BY <2>1, <2>2, ChildInProgram
    <2>. HIDE DEF a
    <2>. QED BY <2>1, <2>2, <2>4, <2>5, RunStarts
  <1>13. ASSUME NEW kind \in ExpLists, ExpList(kind) PROVE RunInv'
    <2>1. /\ CalledOK(kind) /\ Top.node.exp \in Children(Top.node) /\ Top \in Frame
          /\ StartsAt(Append(Waiting, Top), Top.node.exp, Top.t) /\ out' = out
          /\ Top.node.kind = kind
      BY <1>13, ExpListIs DEF CalledOK
    <2>2. kind = "PairExpList" \/ kind = "LastExpList"
      BY DEF ExpLists
    <2>3. Ran(out, Top.node, Top.t) = Finish(Top, Ran(out, Top.node.exp, Top.t))
      BY <2>1, <2>2, RunCalled, FinishLast, FinishPair
    <2>4. kind \notin FromCall
      BY <2>2 DEF FromCall
    <2>. QED BY <2>1, <2>3, <2>4, RunCall
  <1>14. CASE LastExpListEnd
    <2>. DEFINE a == Gave(out, ret.i, ret.t)
    <2>1. /\ ResumedOK("LastExpList") /\ Output(ret.i, TRUE)
          /\ EndsWith(Front(frames), ret.i, ret.t)
          /\ Top.node.kind = "LastExpList" /\ status = "running"
      BY <1>14, LastExpListEndIs DEF ResumedOK
    <2>2. /\ a.store = StoreOf(ret.t) /\ a.out = out /\ a.i = ret.i
          /\ Chain(Results, RunLinks(program), Front(frames), Finish(Top, a), Meant)
      BY <2>1, RunReturn
    <2>. HIDE DEF a
    <2>3. Finish(Top, a) = Outcome(a.store, Append(a.out, [i |-> a.i, ends |-> TRUE]), a.i)
      BY <2>1 DEF Finish
    <2>4. Finish(Top, a) = Gave(out', ret.i, ret.t)
      BY <2>1, <2>2, <2>3 DEF Gave, Output
    <2>. QED BY <2>1, <2>2, <2>4, RunEnds
  <1>15. CASE PairExpListTail
    <2>. DEFINE a == Gave(out, ret.i, ret.t)
    <2>1. /\ ResumedOK("PairExpList") /\ Output(ret.i, FALSE)
          /\ Top.node.tail \in Children(Top.node)
          /\ StartsAt(Front(frames), Top.node.tail, ret.t)
          /\ Top.node.kind = "PairExpList" /\ status = "running"
      BY <1>15, PairExpListTailIs DEF ResumedOK
    <2>2. /\ a.store = StoreOf(ret.t) /\ a.out = out /\ a.i = ret.i
          /\ program \in Trees /\ Top.node \in Subtrees[program]
          /\ Chain(Results, RunLinks(program), Front(frames), Finish(Top, a), Meant)
      BY <2>1, RunReturn
    <2>. HIDE DEF a
    <2>3. Finish(Top, a) = After(Append(a.out, [i |-> a.i, ends |-> FALSE]),
                                 Runs[Top.node.tail][a.store])
      BY <2>1 DEF Finish
    <2>4. Finish(Top, a) = Ran(out', Top.node.tail, ret.t)
      BY <2>1, <2>2, <2>3 DEF Ran, Output
    <2>5. Top.node.tail \in Subtrees[program]
      BY <2>1, <2>2, ChildInProgram
    <2>. QED BY <2>1, <2>2, <2>4, <2>5, RunStarts
  <1>16. CASE IdExpUnbound
    BY <1>16, IdExpUnboundIs
  <1>17. CASE OpExpTrap
    BY <1>17, OpExpTrapIs
  <1>18. CASE Done
    BY <1>18, DoneIs
  <1>19. "LastExpList" \in ExpLists /\ "PairExpList" \in ExpLists
    BY DEF ExpLists
  <1>. QED BY <1>1, <1>2, <1>3, <1>4, <1>5, <1>6, <1>7, <1>8, <1>9, <1>10, <1>11, <1>12, <1>13,
              <1>14, <1>15, <1>16, <1>17, <1>18, <1>19 DEF SlpStep

\* A step is taken while the program runs, and goes on, returns to main or ends it.
LEMMA StepGoesOn ==
  ASSUME SlpStep
  PROVE  /\ status = "running" /\ program' = program
         /\ status' = "running" \/ Done \/ status' \in {"crashed", "aborted", "trapped"}
  <1>1. CASE CompoundStm \/ CompoundStmSecond \/ AssignStm \/ PrintStm
    BY <1>1 DEF CompoundStm, CompoundStmSecond, AssignStm, PrintStm, Called, Resumed, Quiet
  <1>2. CASE AssignStmEnd
    BY <1>2 DEF AssignStmEnd, Resumed
  <1>3. CASE IdExp \/ NumExp
    BY <1>3 DEF IdExp, NumExp, Called, Quiet
  <1>4. CASE IdExpUnbound
    BY <1>4 DEF IdExpUnbound, Called, Dies
  <1>5. CASE OpExp \/ OpExpRight \/ OpExpApply
    BY <1>5 DEF OpExp, OpExpRight, OpExpApply, Called, Resumed, Quiet
  <1>6. CASE OpExpTrap
    BY <1>6 DEF OpExpTrap, Resumed, Dies
  <1>7. CASE EseqExp \/ EseqExpEnd
    BY <1>7 DEF EseqExp, EseqExpEnd, Called, Resumed, Quiet
  <1>8. CASE ExpList("LastExpList") \/ ExpList("PairExpList")
    BY <1>8 DEF ExpList, Called, Quiet
  <1>9. CASE LastExpListEnd \/ PairExpListTail
    BY <1>9 DEF LastExpListEnd, PairExpListTail, Resumed
  <1>10. CASE Done
    BY <1>10 DEF Done
  <1>. QED BY <1>1, <1>2, <1>3, <1>4, <1>5, <1>6, <1>7, <1>8, <1>9, <1>10 DEF SlpStep

LEMMA RunDone ==
  ASSUME TypeInv, RunInv, Done
  PROVE  RunInv'
  <1>1. /\ status = "running" /\ status' = "done" /\ ret # None /\ Waiting = <<>>
        /\ UNCHANGED <<program, out, ret>> /\ ret \in Value
    BY DoneIs
  <1>2. ASSUME AssignsOutside PROVE out = Meant.out /\ StoreOf(ret.t) = Meant.store
    <2>. DEFINE a == Gave(out, ret.i, ret.t)
    <2>1. Chain(Results, RunLinks(program), <<>>, a, Meant)
      BY <1>1, <1>2 DEF RunInv, RunNow
    <2>2. a \in Results /\ a.store = StoreOf(ret.t) /\ a.out = out
      BY <1>1, ValueIsSome, GaveIs DEF TypeInv
    <2>. HIDE DEF a
    <2>3. a = Meant
      BY <2>1, <2>2, ChainEmpty
    <2>. QED BY <2>2, <2>3
  <1>3. StoreSemantics'
    BY <1>1, <1>2 DEF StoreSemantics, Meant, AssignsOutside
  <1>. QED BY <1>1, <1>3 DEF RunInv

LEMMA RunKept == TypeInv /\ RunInv /\ [SlpNext]_slpVars => RunInv'
  <1>. SUFFICES ASSUME TypeInv, RunInv, [SlpNext]_slpVars PROVE RunInv'
    OBVIOUS
  <1>1. CASE SlpStep
    <2>1. status = "running" /\ program' = program
      BY <1>1, StepGoesOn
    <2>2. CASE Done
      BY <2>2, RunDone
    <2>3. CASE status' \in {"crashed", "aborted", "trapped"}
      BY <2>3 DEF RunInv, StoreSemantics
    <2>4. CASE status' = "running" /\ AssignsOutside
      BY <1>1, <2>1, <2>4, RunGoesOn
    <2>5. CASE status' = "running" /\ ~AssignsOutside
      <3>1. ~AssignsOutside'
        BY <2>1, <2>5 DEF AssignsOutside
      <3>. QED BY <2>5, <3>1 DEF RunInv, StoreSemantics
    <2>. QED BY <1>1, <2>2, <2>3, <2>4, <2>5, StepGoesOn
  <1>2. CASE UNCHANGED slpVars
    BY <1>2 DEF slpVars, RunInv, RunNow, Waiting, StoreSemantics, Top, Last, Meant, AssignsOutside
  <1>. QED BY <1>1, <1>2 DEF SlpNext

\* The tables passed around amount to one store: a program whose expressions do not
\* assign, and that ends, has printed what it prints with a store that every assignment
\* changes, and the table it returns stands for what that store holds at the end.
THEOREM StoreSemanticsAlways == SlpSpec => []StoreSemantics
  <1>1. RunInv => StoreSemantics
    BY DEF RunInv
  <1>. QED BY <1>1, TypeInvAlways, RunInit, RunKept, PTL DEF SlpSpec

-----------------------------------------------------------------------------
(* The widest line *)

Larger(a, b) == IF a >= b THEN a ELSE b

LEMMA LargerIs ==
  ASSUME NEW a \in Nat, NEW b \in Nat
  PROVE  /\ Larger(a, b) \in Nat /\ Larger(a, b) >= a /\ Larger(a, b) >= b
         /\ Larger(a, b) = a \/ Larger(a, b) = b
         /\ a >= b => Larger(a, b) = a
         /\ Max({a, b}) = Larger(a, b)
  BY MaxOfTwo DEF Larger

LEMMA LargerOfThree ==
  ASSUME NEW a \in Nat, NEW b \in Nat, NEW c \in Nat
  PROVE  Larger(Larger(a, b), c) = Larger(a, Larger(b, c))
  BY DEF Larger

\* What has been printed: the width of the widest line, and of the one not yet ended.
Lines == [most : Nat \ {0}, open : Nat]
Lin(m, u) == [most |-> m, open |-> u]

LEMMA LinType ==
  ASSUME NEW m \in Nat \ {0}, NEW u \in Nat
  PROVE  Lin(m, u) \in Lines /\ Lin(m, u).most = m /\ Lin(m, u).open = u
  BY DEF Lin, Lines

LEMMA LinParts ==
  ASSUME NEW c \in Lines
  PROVE  /\ c.most \in Nat /\ c.most >= 1 /\ c.most # 0 /\ c.open \in Nat
         /\ c = Lin(c.most, c.open)
  BY DEF Lin, Lines

\* The line not yet ended begins after a break, and has no break in it.
OpenLine(o, u) ==
  /\ u <= Len(o) /\ Len(o) - u \in Breaks(o)
  /\ \A q \in (Len(o) - u + 1)..Len(o) : q \notin Breaks(o)

\* While no line has ended the widest counts as one number.
AreLines(o, c) ==
  /\ OpenLine(o, c.open)
  /\ c.most = 1 \/ c.most \in Widths(o)
  /\ \A w \in Widths(o) : w <= c.most
  /\ c.open = 0 /\ o # <<>> => Widths(o) # {}

\* What a number more makes of the lines.
More(c, ends) ==
  IF ends THEN Lin(Larger(c.most, c.open + 1), 0) ELSE Lin(c.most, c.open + 1)

LEMMA MoreIs ==
  ASSUME NEW c \in Lines
  PROVE  /\ More(c, TRUE) = Lin(Larger(c.most, c.open + 1), 0)
         /\ More(c, FALSE) = Lin(c.most, c.open + 1)
         /\ More(c, TRUE) \in Lines /\ More(c, FALSE) \in Lines
         /\ More(c, TRUE).most = Larger(c.most, c.open + 1) /\ More(c, TRUE).open = 0
         /\ More(c, FALSE).most = c.most /\ More(c, FALSE).open = c.open + 1
  <1>1. c.most \in Nat /\ c.most >= 1 /\ c.most # 0 /\ c.open \in Nat /\ c.open + 1 \in Nat
    BY LinParts
  <1>2. Larger(c.most, c.open + 1) \in Nat /\ Larger(c.most, c.open + 1) >= c.most
    BY <1>1, LargerIs
  <1>3. Larger(c.most, c.open + 1) \in Nat \ {0}
    BY <1>1, <1>2
  <1>. QED BY <1>1, <1>3, LinType DEF More

LEMMA BreaksOfAppend ==
  ASSUME NEW o \in Seq(Printed), NEW e \in Printed
  PROVE  /\ \A q \in 0..Len(o) : q \in Breaks(Append(o, e)) <=> q \in Breaks(o)
         /\ Len(o) + 1 \in Breaks(Append(o, e)) <=> e.ends
         /\ \A q \in Breaks(o) : q \in Nat /\ q <= Len(o)
         /\ \A q \in Breaks(Append(o, e)) : q \in Nat /\ q <= Len(o) + 1
         /\ Len(Append(o, e)) = Len(o) + 1 /\ Len(o) \in Nat
  <1>. DEFINE p == Append(o, e)
  <1>1. /\ Len(p) = Len(o) + 1 /\ Len(o) \in Nat /\ p[Len(o) + 1] = e
        /\ \A q \in 1..Len(o) : p[q] = o[q]
        /\ DOMAIN p = 1..(Len(o) + 1) /\ DOMAIN o = 1..Len(o)
    OBVIOUS
  <1>. HIDE DEF p
  <1>2. ASSUME NEW q \in 0..Len(o) PROVE q \in Breaks(p) <=> q \in Breaks(o)
    <2>1. CASE q = 0
      BY <2>1 DEF Breaks
    <2>2. CASE q # 0
      BY <1>1, <2>2 DEF Breaks
    <2>. QED BY <2>1, <2>2
  <1>3. Len(o) + 1 \in Breaks(p) <=> e.ends
    BY <1>1 DEF Breaks
  <1>4. /\ \A q \in Breaks(o) : q \in Nat /\ q <= Len(o)
        /\ \A q \in Breaks(p) : q \in Nat /\ q <= Len(o) + 1
    BY <1>1 DEF Breaks
  <1>. QED BY <1>1, <1>2, <1>3, <1>4 DEF p

\* A line that ended is as wide as before.
LEMMA LineOfAppend ==
  ASSUME NEW o \in Seq(Printed), NEW e \in Printed, NEW q \in 1..Len(o), NEW w \in Nat \ {0}
  PROVE  Line(Append(o, e), q, w) <=> Line(o, q, w)
  <1>. DEFINE p == Append(o, e)
  <1>1. /\ \A r \in 0..Len(o) : r \in Breaks(p) <=> r \in Breaks(o)
        /\ \A r \in Breaks(o) : r \in Nat /\ r <= Len(o)
        /\ \A r \in Breaks(p) : r \in Nat
        /\ Len(o) \in Nat
    BY BreaksOfAppend
  <1>. HIDE DEF p
  <1>2. q \in Breaks(p) <=> q \in Breaks(o)
    BY <1>1
  <1>3. q - w \in Breaks(p) <=> q - w \in Breaks(o)
    <2>1. q - w \in Int /\ q - w <= Len(o) /\ (q - w >= 0 => q - w \in 0..Len(o))
      BY <1>1
    <2>2. ~(q - w >= 0) => q - w \notin Breaks(p) /\ q - w \notin Breaks(o)
      BY <1>1, <2>1
    <2>. QED BY <1>1, <2>1, <2>2
  <1>4. q - w \in Breaks(o) =>
          ((\A r \in (q - w + 1)..(q - 1) : r \notin Breaks(p)) <=>
           (\A r \in (q - w + 1)..(q - 1) : r \notin Breaks(o)))
    <2>. SUFFICES ASSUME q - w \in Breaks(o), NEW r \in (q - w + 1)..(q - 1)
                  PROVE  r \in Breaks(p) <=> r \in Breaks(o)
      OBVIOUS
    <2>1. r \in 0..Len(o)
      BY <1>1
    <2>. QED BY <1>1, <2>1
  <1>5. Line(p, q, w) <=> Line(o, q, w)
    BY <1>2, <1>3, <1>4 DEF Line
  <1>. QED BY <1>5 DEF p

\* The line that a number ends.
LEMMA LineThatEnds ==
  ASSUME NEW o \in Seq(Printed), NEW e \in Printed, NEW u \in Nat, OpenLine(o, u),
         NEW w \in Nat \ {0}
  PROVE  Line(Append(o, e), Len(o) + 1, w) <=> e.ends /\ w = u + 1
  <1>. DEFINE p == Append(o, e)
              k == Len(o)
  <1>1. /\ \A r \in 0..k : r \in Breaks(p) <=> r \in Breaks(o)
        /\ \A r \in Breaks(p) : r \in Nat
        /\ k \in Nat /\ (k + 1 \in Breaks(p) <=> e.ends)
    BY BreaksOfAppend
  <1>2. u <= k /\ k - u \in Breaks(o) /\ \A q \in (k - u + 1)..k : q \notin Breaks(o)
    BY DEF OpenLine
  <1>. HIDE DEF p, k
  <1>3. k - u \in 0..k /\ k - u \in Breaks(p)
    BY <1>1, <1>2
  <1>4. ASSUME Line(p, k + 1, w) PROVE e.ends /\ w = u + 1
    <2>1. /\ k + 1 \in Breaks(p) /\ (k + 1) - w \in Breaks(p)
          /\ \A q \in ((k + 1) - w + 1)..((k + 1) - 1) : q \notin Breaks(p)
      BY <1>4 DEF Line
    <2>2. (k + 1) - w \in 0..k /\ (k + 1) - w \in Breaks(o)
      <3>1. (k + 1) - w \in Nat
        BY <1>1, <2>1
      <3>2. (k + 1) - w \in 0..k
        BY <1>1, <3>1
      <3>. QED BY <1>1, <2>1, <3>2
    <2>3. ~(w < u + 1)
      <3>. SUFFICES ASSUME w < u + 1 PROVE FALSE
        OBVIOUS
      <3>1. (k + 1) - w \in (k - u + 1)..k
        BY <1>1, <2>2
      <3>. QED BY <1>2, <2>2, <3>1
    <2>4. ~(w > u + 1)
      <3>. SUFFICES ASSUME w > u + 1 PROVE FALSE
        OBVIOUS
      <3>1. k - u \in ((k + 1) - w + 1)..((k + 1) - 1)
        BY <1>1, <1>3
      <3>. QED BY <1>3, <2>1, <3>1
    <2>. QED BY <1>1, <2>1, <2>3, <2>4
  <1>5. ASSUME e.ends, w = u + 1 PROVE Line(p, k + 1, w)
    <2>1. k + 1 \in Breaks(p)
      BY <1>1, <1>5
    <2>2. (k + 1) - w = k - u
      BY <1>1, <1>5
    <2>3. ASSUME NEW q \in ((k + 1) - w + 1)..((k + 1) - 1) PROVE q \notin Breaks(p)
      <3>1. q \in (k - u + 1)..k /\ q \in 0..k
        BY <1>1, <1>3, <2>2
      <3>. QED BY <1>1, <1>2, <3>1
    <2>. QED BY <1>3, <2>1, <2>2, <2>3 DEF Line
  <1>6. Line(p, k + 1, w) <=> e.ends /\ w = u + 1
    BY <1>4, <1>5
  <1>. QED BY <1>6 DEF p, k

LEMMA WidthsOfAppend ==
  ASSUME NEW o \in Seq(Printed), NEW e \in Printed, NEW u \in Nat, OpenLine(o, u)
  PROVE  Widths(Append(o, e)) = Widths(o) \union (IF e.ends THEN {u + 1} ELSE {})
  <1>. DEFINE p == Append(o, e)
              k == Len(o)
              W == Widths(o) \union (IF e.ends THEN {u + 1} ELSE {})
  <1>1. k \in Nat /\ Len(p) = k + 1 /\ DOMAIN p = 1..(k + 1) /\ DOMAIN o = 1..k /\ u <= k
    BY DEF OpenLine
  <1>2. \A w \in Nat \ {0} : \A q \in 1..k : Line(p, q, w) <=> Line(o, q, w)
    BY LineOfAppend
  <1>3. \A w \in Nat \ {0} : Line(p, k + 1, w) <=> e.ends /\ w = u + 1
    BY LineThatEnds
  <1>4. \A q \in Breaks(o) : q \in Nat
    BY BreaksOfAppend
  <1>. HIDE DEF p, k
  <1>5. ASSUME NEW w \in Widths(p) PROVE w \in W
    <2>1. PICK q \in 1..(k + 1) : Line(p, q, w)
      BY <1>1 DEF Widths
    <2>2. w \in 1..(k + 1) /\ w \in Nat \ {0}
      BY <1>1 DEF Widths
    <2>3. CASE q = k + 1
      BY <1>3, <2>1, <2>2, <2>3
    <2>4. CASE q # k + 1
      <3>1. q \in 1..k /\ Line(o, q, w)
        BY <1>1, <1>2, <2>1, <2>2, <2>4
      <3>2. q - w \in Nat
        BY <1>4, <3>1 DEF Line
      <3>3. w \in 1..k
        BY <1>1, <2>2, <3>1, <3>2
      <3>. QED BY <1>1, <3>1, <3>3 DEF Widths, k
    <2>. QED BY <2>3, <2>4
  <1>6. ASSUME NEW w \in Widths(o) PROVE w \in Widths(p)
    <2>1. w \in 1..k /\ \E q \in 1..k : Line(o, q, w)
      BY <1>1 DEF Widths, k
    <2>2. PICK q \in 1..k : Line(o, q, w)
      BY <2>1
    <2>3. w \in Nat \ {0} /\ w \in 1..(k + 1) /\ q \in 1..(k + 1)
      BY <1>1, <2>1
    <2>4. Line(p, q, w)
      BY <1>2, <2>2, <2>3
    <2>. QED BY <1>1, <2>3, <2>4 DEF Widths
  <1>7. e.ends => u + 1 \in Widths(p)
    <2>1. u + 1 \in 1..(k + 1) /\ u + 1 \in Nat \ {0} /\ k + 1 \in 1..(k + 1)
      BY <1>1
    <2>. QED BY <1>1, <1>3, <2>1 DEF Widths
  <1>8. Widths(p) = W
    BY <1>5, <1>6, <1>7
  <1>. QED BY <1>8 DEF p

\* The open line after a number more.
LEMMA OpenAfter ==
  ASSUME NEW o \in Seq(Printed), NEW e \in Printed, NEW u \in Nat, OpenLine(o, u)
  PROVE  OpenLine(Append(o, e), IF e.ends THEN 0 ELSE u + 1)
  <1>. DEFINE p == Append(o, e)
              k == Len(o)
  <1>1. /\ \A r \in 0..k : r \in Breaks(p) <=> r \in Breaks(o)
        /\ k \in Nat /\ (k + 1 \in Breaks(p) <=> e.ends) /\ Len(p) = k + 1
    BY BreaksOfAppend
  <1>2. u <= k /\ k - u \in Breaks(o) /\ \A q \in (k - u + 1)..k : q \notin Breaks(o)
    BY DEF OpenLine
  <1>. HIDE DEF p, k
  <1>3. CASE e.ends
    <2>1. (k + 1) - 0 = k + 1 /\ 0 <= k + 1 /\ ((k + 1) - 0 + 1)..(k + 1) = {}
      BY <1>1
    <2>2. OpenLine(p, 0)
      BY <1>1, <1>3, <2>1 DEF OpenLine
    <2>. QED BY <1>3, <2>2 DEF p
  <1>4. CASE ~e.ends
    <2>1. (k + 1) - (u + 1) = k - u /\ k - u \in 0..k /\ u + 1 <= k + 1
      BY <1>1, <1>2
    <2>2. ASSUME NEW q \in ((k + 1) - (u + 1) + 1)..(k + 1) PROVE q \notin Breaks(p)
      <3>1. CASE q = k + 1
        BY <1>1, <1>4, <3>1
      <3>2. CASE q # k + 1
        <4>1. q \in (k - u + 1)..k /\ q \in 0..k
          BY <1>1, <1>2, <2>1, <3>2
        <4>. QED BY <1>1, <1>2, <4>1
      <3>. QED BY <3>1, <3>2
    <2>3. OpenLine(p, u + 1)
      BY <1>1, <1>2, <2>1, <2>2 DEF OpenLine
    <2>. QED BY <1>4, <2>3 DEF p
  <1>. QED BY <1>3, <1>4

\* What More makes of the lines are the lines there are.
LEMMA LinesOfAppend ==
  ASSUME NEW o \in Seq(Printed), NEW e \in Printed, NEW c \in Lines, AreLines(o, c)
  PROVE  AreLines(Append(o, e), More(c, e.ends)) /\ More(c, e.ends) \in Lines
  <1>. DEFINE p == Append(o, e)
              u == c.open
              m == c.most
  <1>1. m \in Nat /\ m >= 1 /\ u \in Nat /\ u + 1 \in Nat
    BY LinParts
  <1>2. /\ OpenLine(o, u) /\ (m = 1 \/ m \in Widths(o))
        /\ \A w \in Widths(o) : w <= m
    BY DEF AreLines
  <1>3. OpenLine(p, IF e.ends THEN 0 ELSE u + 1)
    BY <1>1, <1>2, OpenAfter
  <1>4. Widths(p) = Widths(o) \union (IF e.ends THEN {u + 1} ELSE {})
    BY <1>1, <1>2, WidthsOfAppend
  <1>5. \A w \in Widths(o) : w \in Nat
    BY DEF Widths
  <1>. HIDE DEF p, u, m
  <1>6. CASE e.ends
    <2>. DEFINE d == More(c, TRUE)
    <2>1. d \in Lines /\ d.most = Larger(m, u + 1) /\ d.open = 0
      BY MoreIs DEF u, m
    <2>2. Larger(m, u + 1) \in Nat /\ Larger(m, u + 1) >= m /\ Larger(m, u + 1) >= u + 1
          /\ (Larger(m, u + 1) = m \/ Larger(m, u + 1) = u + 1)
      BY <1>1, LargerIs
    <2>3. Widths(p) = Widths(o) \union {u + 1} /\ OpenLine(p, 0)
      BY <1>3, <1>4, <1>6
    <2>. HIDE DEF d
    <2>4. \A w \in Widths(p) : w <= d.most
      BY <1>1, <1>2, <1>5, <2>1, <2>2, <2>3
    <2>5. d.most = 1 \/ d.most \in Widths(p)
      BY <1>2, <2>1, <2>2, <2>3
    <2>6. AreLines(p, d)
      BY <2>1, <2>3, <2>4, <2>5 DEF AreLines
    <2>. QED BY <1>6, <2>1, <2>6 DEF d, p
  <1>7. CASE ~e.ends
    <2>. DEFINE d == More(c, FALSE)
    <2>1. d \in Lines /\ d.most = m /\ d.open = u + 1 /\ e.ends = FALSE
      BY <1>7, MoreIs DEF u, m, Printed
    <2>2. Widths(p) = Widths(o) /\ OpenLine(p, u + 1) /\ u + 1 # 0
      BY <1>1, <1>3, <1>4, <1>7
    <2>. HIDE DEF d
    <2>3. AreLines(p, d)
      BY <1>2, <2>1, <2>2 DEF AreLines
    <2>. QED BY <2>1, <2>3 DEF d, p
  <1>. QED BY <1>6, <1>7

LEMMA LinesOfOutput ==
  ASSUME out \in Seq(Printed), NEW i \in Int_, NEW ends \in BOOLEAN, Output(i, ends),
         NEW c \in Lines, AreLines(out, c)
  PROVE  AreLines(out', More(c, ends)) /\ More(c, ends) \in Lines
  <1>. DEFINE e == [i |-> i, ends |-> ends]
  <1>1. e \in Printed /\ e.ends = ends /\ out' = Append(out, e)
    BY DEF Printed, Output
  <1>. HIDE DEF e
  <1>2. AreLines(Append(out, e), More(c, e.ends)) /\ More(c, e.ends) \in Lines
    BY <1>1, LinesOfAppend
  <1>. QED BY <1>1, <1>2

LEMMA WidestIs ==
  ASSUME NEW o \in Seq(Printed), NEW c \in Lines, AreLines(o, c), c.open = 0, o # <<>>
  PROVE  Max(Widths(o)) = c.most
  <1>1. /\ \A w \in Widths(o) : w \in Nat /\ w >= 1 /\ w <= c.most
        /\ (c.most = 1 \/ c.most \in Widths(o)) /\ Widths(o) # {}
        /\ c.most \in Nat
    BY LinParts DEF AreLines, Widths
  <1>2. c.most \in Widths(o)
    <2>1. PICK w \in Widths(o) : TRUE
      BY <1>1
    <2>2. c.most = 1 => w = c.most
      BY <1>1, <2>1
    <2>. QED BY <1>1, <2>1, <2>2
  <1>. DEFINE W == Widths(o)
              m == c.most
  <1>3. m \in W /\ (\A y \in W : m >= y) /\ \A x \in W : x \in Nat /\ x <= m
    BY <1>1, <1>2
  <1>. HIDE DEF W, m
  <1>4. \A x \in W : (\A y \in W : x >= y) => x = m
    <2>. SUFFICES ASSUME NEW x \in W, \A y \in W : x >= y PROVE x = m
      OBVIOUS
    <2>1. x >= m /\ x <= m /\ x \in Nat /\ m \in Nat
      BY <1>3
    <2>. QED BY <2>1
  <1>5. Max(W) = m
    BY <1>3, <1>4 DEF Max
  <1>. QED BY <1>5 DEF W, m

-----------------------------------------------------------------------------

LEMMA NoLists == \A k \in Stms \union Exps : k \notin ExpLists
  BY DEF Stms, Exps, ExpLists

\* MaxArgs where it takes the parts of a tree.
LEMMA MaxArgsParts ==
  ASSUME NEW n \in Trees
  PROVE  /\ n.kind = "CompoundStm" =>
              /\ n.stm1 \in Trees /\ n.stm2 \in Trees
              /\ n.stm1.kind \notin ExpLists /\ n.stm2.kind \notin ExpLists
              /\ MaxArgs[n] = Max({MaxArgs[n.stm1], MaxArgs[n.stm2]})
         /\ n.kind = "EseqExp" =>
              /\ n.stm \in Trees /\ n.exp \in Trees
              /\ n.stm.kind \notin ExpLists /\ n.exp.kind \notin ExpLists
              /\ MaxArgs[n] = Max({MaxArgs[n.stm], MaxArgs[n.exp]})
         /\ n.kind = "AssignStm" =>
              n.exp \in Trees /\ n.exp.kind \notin ExpLists /\ MaxArgs[n] = MaxArgs[n.exp]
  <1>1. CASE n.kind = "CompoundStm"
    <2>1. n.stm1 \in Trees /\ n.stm2 \in Trees /\ n.stm1.kind \in Stms /\ n.stm2.kind \in Stms
      BY <1>1, PartsOf
    <2>2. MaxArgs[n] = Max({MaxArgs[n.stm1], MaxArgs[n.stm2]})
      BY <1>1, MaxArgsIs
    <2>. QED BY <1>1, <2>1, <2>2, NoLists
  <1>2. CASE n.kind = "EseqExp"
    <2>1. n.stm \in Trees /\ n.exp \in Trees /\ n.stm.kind \in Stms /\ n.exp.kind \in Exps
      BY <1>2, PartsOf
    <2>2. MaxArgs[n] = Max({MaxArgs[n.stm], MaxArgs[n.exp]})
      BY <1>2, MaxArgsIs
    <2>. QED BY <1>2, <2>1, <2>2, NoLists
  <1>3. CASE n.kind = "AssignStm"
    <2>1. n.exp \in Trees /\ n.exp.kind \in Exps
      BY <1>3, PartsOf
    <2>2. MaxArgs[n] = MaxArgs[n.exp]
      BY <1>3, MaxArgsIs
    <2>. QED BY <1>3, <2>1, <2>2, NoLists
  <1>. QED BY <1>1, <1>2, <1>3

\* What does not print has no arguments, and counts as one.
LEMMA ArgumentsOfNone ==
  \A n \in Trees : /\ MaxArgs[n] >= 1 /\ NumExps[n] >= 1
                   /\ ~Has(n, "PrintStm") => MaxArgs[n] = 1
  <1>. DEFINE P(n) == MaxArgs[n] >= 1 /\ (~Has(n, "PrintStm") => MaxArgs[n] = 1)
              G == {n \in Trees : P(n)}
  <1>0. \A n \in Trees : NumExps[n] \in Nat /\ NumExps[n] >= 1
    <2>. SUFFICES ASSUME NEW n \in Trees PROVE NumExps[n] \in Nat /\ NumExps[n] >= 1
      OBVIOUS
    <2>1. CASE n.kind = "PairExpList"
      <3>1. n.tail \in Trees
        BY <2>1, PartsOf
      <3>. QED BY <2>1, <3>1, NumExpsIs
    <2>2. CASE n.kind # "PairExpList"
      BY <2>2, NumExpsIs
    <2>. QED BY <2>1, <2>2
  <1>1. ASSUME NEW n \in Trees, \A c \in Children(n) : c \in Trees /\ P(c)
        PROVE  P(n)
    <2>0. \A c \in Children(n) : /\ MaxArgs[c] \in Nat /\ MaxArgs[c] >= 1
                                 /\ ~Has(n, "PrintStm") => MaxArgs[c] = 1
      BY <1>1, HasParts, MaxArgsIs
    <2>1. CASE n.kind = "CompoundStm"
      <3>1. n.stm1 \in Children(n) /\ n.stm2 \in Children(n)
        BY <2>1, PartsOf
      <3>2. MaxArgs[n] = Larger(MaxArgs[n.stm1], MaxArgs[n.stm2])
        BY <2>0, <2>1, <3>1, MaxArgsIs, LargerIs
      <3>. QED BY <2>0, <3>1, <3>2 DEF Larger
    <2>2. CASE n.kind = "AssignStm"
      <3>1. MaxArgs[n] = MaxArgs[n.exp] /\ n.exp \in Children(n)
        BY <2>2, MaxArgsIs, PartsOf
      <3>. QED BY <2>0, <3>1
    <2>3. CASE n.kind = "PrintStm"
      <3>1. MaxArgs[n] = NumExps[n.exps] /\ n.exps \in Trees /\ Has(n, "PrintStm")
        BY <2>3, MaxArgsIs, PartsOf, HasParts
      <3>. QED BY <1>0, <3>1
    <2>4. CASE n.kind = "EseqExp"
      <3>1. n.stm \in Children(n) /\ n.exp \in Children(n)
        BY <2>4, PartsOf
      <3>2. MaxArgs[n] = Larger(MaxArgs[n.stm], MaxArgs[n.exp])
        BY <2>0, <2>4, <3>1, MaxArgsIs, LargerIs
      <3>. QED BY <2>0, <3>1, <3>2 DEF Larger
    <2>5. CASE n.kind \notin {"CompoundStm", "AssignStm", "PrintStm", "EseqExp"}
      <3>1. MaxArgs[n] = 1
        BY <2>5, MaxArgsIs
      <3>. QED BY <3>1
    <2>. QED BY <2>1, <2>2, <2>3, <2>4, <2>5
  <1>2. \A n \in Trees : Children(n) \subseteq G => n \in G
    <2>. HIDE DEF P
    <2>. QED BY <1>1
  <1>3. Trees \subseteq G
    <2>. HIDE DEF G
    <2>. QED BY <1>2, TreeInduction
  <1>. QED BY <1>0, <1>3

\* What the lines are once n has been run.  A list goes on with the open line and ends it.
Prints(n, c) ==
  IF n.kind \in ExpLists
  THEN Lin(Larger(c.most, c.open + NumExps[n]), 0)
  ELSE Lin(Larger(c.most, MaxArgs[n]), c.open)

\* The same for an activation, once the part it waits for has been run.
PrintsAfter(f, c) ==
  CASE f.node.kind = "CompoundStm" -> Prints(f.node.stm2, c)
    [] f.node.kind = "EseqExp"     -> Prints(f.node.exp, c)
    [] f.node.kind = "LastExpList" -> More(c, TRUE)
    [] f.node.kind = "PairExpList" -> Prints(f.node.tail, More(c, FALSE))
    [] OTHER                       -> c

LEMMA PrintsIs ==
  ASSUME NEW n \in Trees, NEW c \in Lines
  PROVE  /\ Prints(n, c) \in Lines
         /\ n.kind \notin ExpLists => /\ Prints(n, c) = Lin(Larger(c.most, MaxArgs[n]), c.open)
                                      /\ Prints(n, c).most = Larger(c.most, MaxArgs[n])
                                      /\ Prints(n, c).open = c.open
         /\ n.kind \in ExpLists => Prints(n, c) = Lin(Larger(c.most, c.open + NumExps[n]), 0)
         /\ n.kind \notin ExpLists /\ ~Has(n, "PrintStm") => Prints(n, c) = c
  <1>1. /\ c.most \in Nat /\ c.most >= 1 /\ c.open \in Nat /\ c = Lin(c.most, c.open)
        /\ MaxArgs[n] \in Nat /\ NumExps[n] \in Nat
        /\ ~Has(n, "PrintStm") => MaxArgs[n] = 1
    BY LinParts, MaxArgsIs, NumExpsIs, ArgumentsOfNone
  <1>. DEFINE x == Larger(c.most, MaxArgs[n])
              y == Larger(c.most, c.open + NumExps[n])
  <1>2. c.open + NumExps[n] \in Nat
    BY <1>1
  <1>3. /\ x \in Nat /\ x >= c.most /\ y \in Nat /\ y >= c.most
        /\ c.most >= MaxArgs[n] => x = c.most
    BY <1>1, <1>2, LargerIs
  <1>4. x \in Nat \ {0} /\ y \in Nat \ {0} /\ (~Has(n, "PrintStm") => x = c.most)
    <2>. HIDE DEF x, y
    <2>. QED BY <1>1, <1>3
  <1>. HIDE DEF x, y
  <1>5. /\ Lin(x, c.open) \in Lines /\ Lin(x, c.open).most = x /\ Lin(x, c.open).open = c.open
        /\ Lin(y, 0) \in Lines
    BY <1>1, <1>4, LinType
  <1>6. n.kind \notin ExpLists => Prints(n, c) = Lin(x, c.open)
    BY DEF Prints, x
  <1>7. n.kind \in ExpLists => Prints(n, c) = Lin(y, 0)
    BY DEF Prints, y
  <1>8. n.kind \notin ExpLists /\ ~Has(n, "PrintStm") => Prints(n, c) = c
    BY <1>1, <1>4, <1>6
  <1>. QED BY <1>5, <1>6, <1>7, <1>8 DEF x, y

LineLinks(p) ==
  {l \in Frame \X Lines \X Lines : /\ l[1].node \in Subtrees[p]
                                   /\ l[3] = PrintsAfter(l[1], l[2])
                                   /\ Has(l[1].node, "PrintStm") => l[2].open = 0}

LEMMA LineLink ==
  ASSUME NEW p, NEW f, NEW a, NEW b
  PROVE  <<f, a, b>> \in LineLinks(p) <=>
           /\ f \in Frame /\ a \in Lines /\ b \in Lines
           /\ f.node \in Subtrees[p] /\ b = PrintsAfter(f, a)
           /\ Has(f.node, "PrintStm") => a.open = 0
  BY DEF LineLinks

\* The lines there are at the end.
Counted == Lin(MaxArgs[program], 0)

\* What prints is called at the beginning of a line.
CalledWith(n, c) == n \in Subtrees[program] /\ (Has(n, "PrintStm") => c.open = 0)

LinesFrom(w, c) == Chain(Lines, LineLinks(program), w, c, Counted)

LineInv ==
  /\ status = "running" /\ PrintsOutside =>
       \E c \in Lines :
         /\ AreLines(out, c)
         /\ ret = None => CalledWith(Top.node, c) /\ LinesFrom(Waiting, Prints(Top.node, c))
         /\ ret # None => LinesFrom(Waiting, c)
  /\ WidestLine

LEMMA LinesStart ==
  ASSUME NEW w, NEW n, NEW t, StartsAt(w, n, t), status = "running",
         NEW c \in Lines, AreLines(out', c), CalledWith(n, c), LinesFrom(w, Prints(n, c))
  PROVE  LineInv'
  <1>1. ret' = None /\ Top' = Activation(n, t) /\ Waiting' = w /\ status' = "running"
        /\ program' = program
    BY DEF StartsAt, Stays
  <1>2. Top'.node = n
    BY <1>1 DEF Activation
  <1>3. CalledWith(Top.node, c)'
    BY <1>1, <1>2 DEF CalledWith
  <1>4. LinesFrom(Waiting, Prints(Top.node, c))'
    BY <1>1, <1>2 DEF LinesFrom, Counted
  <1>. QED BY <1>1, <1>3, <1>4 DEF LineInv, WidestLine

LEMMA LinesEnd ==
  ASSUME NEW w, NEW i, NEW t, EndsWith(w, i, t), status = "running",
         NEW c \in Lines, AreLines(out', c), LinesFrom(w, c)
  PROVE  LineInv'
  <1>1. ret' # None /\ Waiting' = w /\ status' = "running" /\ program' = program
    BY DEF EndsWith, Stays
  <1>2. LinesFrom(Waiting, c)'
    BY <1>1 DEF LinesFrom, Counted
  <1>. QED BY <1>1, <1>2 DEF LineInv, WidestLine

\* A called activation, and one that is resumed.
CalledLines(c) ==
  /\ c \in Lines /\ AreLines(out, c) /\ CalledWith(Top.node, c)
  /\ LinesFrom(Waiting, Prints(Top.node, c))
  /\ out \in Seq(Printed) /\ program \in Trees /\ Top.node \in Subtrees[program]

LEMMA LinesCalled ==
  ASSUME TypeInv, NEW kind, CalledOK(kind), LineInv, PrintsOutside
  PROVE  \E c : CalledLines(c)
  BY ProgramsAssumption DEF CalledOK, TypeInv, LineInv, CalledLines, CalledWith

ResumedLines(c) ==
  /\ c \in Lines /\ AreLines(out, c) /\ LinesFrom(Front(frames), PrintsAfter(Top, c))
  /\ PrintsAfter(Top, c) \in Lines
  /\ Top.node \in Subtrees[program] /\ (Has(Top.node, "PrintStm") => c.open = 0)
  /\ out \in Seq(Printed) /\ program \in Trees

LEMMA LinesResumed ==
  ASSUME TypeInv, NEW kind, ResumedOK(kind), LineInv, PrintsOutside
  PROVE  \E c : ResumedLines(c)
  <1>1. status = "running" /\ ret # None /\ Waiting = frames /\ frames \in Seq(Frame)
        /\ frames # <<>>
    BY DEF ResumedOK
  <1>2. PICK c \in Lines : AreLines(out, c) /\ LinesFrom(frames, c)
    BY <1>1 DEF LineInv
  <1>3. PICK d \in Lines : /\ <<Last(frames), c, d>> \in LineLinks(program)
                           /\ LinesFrom(Front(frames), d)
    BY <1>1, <1>2, ChainPop DEF LinesFrom
  <1>4. /\ Top.node \in Subtrees[program] /\ d = PrintsAfter(Top, c)
        /\ Has(Top.node, "PrintStm") => c.open = 0
    BY <1>3, LineLink DEF Top
  <1>. QED BY <1>2, <1>3, <1>4, ProgramsAssumption DEF TypeInv, ResumedLines

\* What is called where what prints may be is called at the beginning of a line.
LEMMA CalledBelow ==
  ASSUME NEW n, n \in Subtrees[program], program \in Trees, NEW m \in Children(n), NEW c,
         Has(n, "PrintStm") => c.open = 0
  PROVE  CalledWith(m, c) /\ m \in Trees /\ n \in Trees
  <1>1. m \in Subtrees[program] /\ m \in Trees /\ n \in Trees
    BY ChildInProgram
  <1>2. Has(m, "PrintStm") => Has(n, "PrintStm")
    BY <1>1, HasParts
  <1>. QED BY <1>1, <1>2 DEF CalledWith

\* A call of the part that is run first.
LEMMA LinesCall ==
  ASSUME NEW kind, CalledOK(kind), NEW c, CalledLines(c), NEW n \in Children(Top.node),
         n.kind \notin ExpLists, PrintsAfter(Top, Prints(n, c)) = Prints(Top.node, c),
         StartsAt(Append(Waiting, Top), n, Top.t), out' = out
  PROVE  LineInv'
  <1>1. status = "running" /\ Waiting \in Seq(Frame) /\ Top \in Frame /\ Top.node \in Trees
    BY DEF CalledOK
  <1>2. /\ c \in Lines /\ AreLines(out, c) /\ LinesFrom(Waiting, Prints(Top.node, c))
        /\ program \in Trees /\ Top.node \in Subtrees[program]
        /\ Has(Top.node, "PrintStm") => c.open = 0
    BY DEF CalledLines, CalledWith
  <1>3. CalledWith(n, c) /\ n \in Trees
    BY <1>2, CalledBelow
  <1>4. /\ Prints(n, c) \in Lines /\ Prints(n, c).open = c.open
        /\ Prints(Top.node, c) \in Lines
    BY <1>1, <1>2, <1>3, PrintsIs
  <1>5. <<Top, Prints(n, c), Prints(Top.node, c)>> \in LineLinks(program)
    BY <1>1, <1>2, <1>4, LineLink
  <1>6. LinesFrom(Append(Waiting, Top), Prints(n, c))
    BY <1>1, <1>2, <1>4, <1>5, ChainPush DEF LinesFrom
  <1>. QED BY <1>1, <1>2, <1>3, <1>6, LinesStart

\* The classes that run two parts.
LEMMA PrintsTwo ==
  ASSUME NEW a \in Trees, NEW b \in Trees, NEW n \in Trees, NEW c \in Lines,
         a.kind \notin ExpLists, b.kind \notin ExpLists, n.kind \notin ExpLists,
         MaxArgs[n] = Max({MaxArgs[a], MaxArgs[b]})
  PROVE  Prints(b, Prints(a, c)) = Prints(n, c)
  <1>1. c.most \in Nat /\ MaxArgs[a] \in Nat /\ MaxArgs[b] \in Nat /\ MaxArgs[n] \in Nat
    BY LinParts, MaxArgsIs
  <1>2. MaxArgs[n] = Larger(MaxArgs[a], MaxArgs[b])
    BY <1>1, LargerIs
  <1>. DEFINE d == Prints(a, c)
  <1>3. d \in Lines /\ d.most = Larger(c.most, MaxArgs[a]) /\ d.open = c.open
    BY PrintsIs
  <1>. HIDE DEF d
  <1>4. Prints(b, d) = Lin(Larger(d.most, MaxArgs[b]), d.open)
    BY <1>3, PrintsIs
  <1>5. Larger(d.most, MaxArgs[b]) = Larger(c.most, MaxArgs[n])
    BY <1>1, <1>2, <1>3, LargerOfThree
  <1>6. Prints(n, c) = Lin(Larger(c.most, MaxArgs[n]), c.open)
    BY PrintsIs
  <1>. QED BY <1>3, <1>4, <1>5, <1>6 DEF d

\* The classes of lists: no argument prints.
LEMMA PrintsList ==
  ASSUME NEW n \in Trees, NEW c \in Lines, ~Has(n, "PrintStm")
  PROVE  /\ n.kind = "LastExpList" => More(c, TRUE) = Prints(n, c)
         /\ n.kind = "PairExpList" => Prints(n.tail, More(c, FALSE)) = Prints(n, c)
  <1>1. c.most \in Nat /\ c.open \in Nat
    BY LinParts
  <1>2. CASE n.kind = "LastExpList"
    <2>1. Prints(n, c) = Lin(Larger(c.most, c.open + NumExps[n]), 0) /\ NumExps[n] = 1
      BY <1>2, PrintsIs, NumExpsIs DEF ExpLists
    <2>. QED BY <1>2, <2>1, MoreIs
  <1>3. CASE n.kind = "PairExpList"
    <2>. DEFINE d == More(c, FALSE)
    <2>1. n.tail \in Trees /\ n.tail.kind \in ExpLists /\ n.kind \in ExpLists
      BY <1>3, PartsOf DEF ExpLists
    <2>2. Prints(n, c) = Lin(Larger(c.most, c.open + NumExps[n]), 0)
          /\ NumExps[n] = 1 + NumExps[n.tail] /\ NumExps[n.tail] \in Nat
      BY <1>3, <2>1, PrintsIs, NumExpsIs
    <2>3. d \in Lines /\ d.most = c.most /\ d.open = c.open + 1
      BY MoreIs
    <2>. HIDE DEF d
    <2>4. Prints(n.tail, d) = Lin(Larger(d.most, d.open + NumExps[n.tail]), 0)
      BY <2>1, <2>3, PrintsIs
    <2>5. d.open + NumExps[n.tail] = c.open + NumExps[n]
      BY <1>1, <2>2, <2>3
    <2>. QED BY <1>3, <2>2, <2>3, <2>4, <2>5 DEF d
  <1>. QED BY <1>2, <1>3

LEMMA LinesInit == SlpInit => LineInv
  <1>. SUFFICES ASSUME SlpInit PROVE LineInv
    OBVIOUS
  <1>. DEFINE a == Activation(program, <<>>)
              c == Lin(1, 0)
  <1>1. program \in Trees /\ program.kind \in Stms /\ program.kind \notin ExpLists
    BY ProgramsAssumption DEF SlpInit, Stms, ExpLists
  <1>2. frames = <<a>> /\ ret = None /\ status = "running" /\ out = <<>>
    BY DEF SlpInit
  <1>3. Top = a /\ Front(<<a>>) = <<>>
    BY <1>2 DEF Top, Last, Front
  <1>4. Waiting = <<>> /\ Top.node = program
    BY <1>2, <1>3 DEF Waiting, Activation
  <1>5. c \in Lines /\ c.most = 1 /\ c.open = 0
    BY LinType
  <1>. HIDE DEF c
  <1>6. AreLines(<<>>, c)
    <2>1. Widths(<<>>) = {} /\ 0 \in Breaks(<<>>) /\ Len(<<>>) = 0 /\ 0 - 0 = 0 /\ 0 <= 0
          /\ (0 - 0 + 1)..0 = {}
      BY DEF Widths, Breaks
    <2>. QED BY <1>5, <2>1 DEF AreLines, OpenLine
  <1>7. Prints(program, c) = Counted
    <2>1. Prints(program, c) = Lin(Larger(c.most, MaxArgs[program]), c.open)
      BY <1>1, <1>5, PrintsIs
    <2>2. MaxArgs[program] \in Nat /\ MaxArgs[program] >= 1
      BY <1>1, MaxArgsIs, ArgumentsOfNone
    <2>3. Larger(1, MaxArgs[program]) = MaxArgs[program]
      BY <2>2 DEF Larger
    <2>. QED BY <1>5, <2>1, <2>3 DEF Counted
  <1>8. Prints(program, c) \in Lines
    BY <1>1, <1>5, PrintsIs
  <1>9. LinesFrom(<<>>, Prints(program, c))
    BY <1>7, <1>8, ChainEmpty DEF LinesFrom
  <1>10. CalledWith(program, c)
    BY <1>1, <1>5, HasParts DEF CalledWith
  <1>. QED BY <1>2, <1>4, <1>5, <1>6, <1>9, <1>10 DEF LineInv, WidestLine

LEMMA LinesGoOn ==
  ASSUME TypeInv, LineInv, SlpStep, status = "running", status' = "running", PrintsOutside
  PROVE  LineInv'
  <1>1. CASE CompoundStm
    <2>1. /\ CalledOK("CompoundStm") /\ Top.node.stm1 \in Children(Top.node)
          /\ StartsAt(Append(Waiting, Top), Top.node.stm1, Top.t) /\ out' = out
          /\ Top.node.kind = "CompoundStm" /\ Top.node \in Trees
      BY <1>1, CompoundStmIs DEF CalledOK
    <2>2. PICK c : CalledLines(c)
      BY <2>1, LinesCalled
    <2>3. /\ Top.node.stm1 \in Trees /\ Top.node.stm2 \in Trees
          /\ Top.node.stm1.kind \notin ExpLists /\ Top.node.stm2.kind \notin ExpLists
          /\ Top.node.kind \notin ExpLists
          /\ MaxArgs[Top.node] = Max({MaxArgs[Top.node.stm1], MaxArgs[Top.node.stm2]})
      BY <2>1, MaxArgsParts DEF ExpLists
    <2>4. Prints(Top.node.stm2, Prints(Top.node.stm1, c)) = Prints(Top.node, c)
      BY <2>1, <2>2, <2>3, PrintsTwo DEF CalledLines
    <2>5. PrintsAfter(Top, Prints(Top.node.stm1, c)) = Prints(Top.node, c)
      BY <2>1, <2>4 DEF PrintsAfter
    <2>. QED BY <2>1, <2>2, <2>3, <2>5, LinesCall
  <1>2. CASE CompoundStmSecond
    <2>1. /\ ResumedOK("CompoundStm") /\ Top.node.stm2 \in Children(Top.node)
          /\ StartsAt(Front(frames), Top.node.stm2, ret.t) /\ out' = out
          /\ Top.node.kind = "CompoundStm"
      BY <1>2, CompoundStmSecondIs DEF ResumedOK
    <2>2. PICK c : ResumedLines(c)
      BY <2>1, LinesResumed
    <2>3. PrintsAfter(Top, c) = Prints(Top.node.stm2, c)
      BY <2>1 DEF PrintsAfter
    <2>4. CalledWith(Top.node.stm2, c)
      BY <2>1, <2>2, CalledBelow DEF ResumedLines
    <2>. QED BY <2>1, <2>2, <2>3, <2>4, LinesStart DEF ResumedLines
  <1>3. CASE AssignStm
    <2>1. /\ CalledOK("AssignStm") /\ Top.node.exp \in Children(Top.node)
          /\ StartsAt(Append(Waiting, Top), Top.node.exp, Top.t) /\ out' = out
          /\ Top.node.kind = "AssignStm" /\ Top.node \in Trees
      BY <1>3, AssignStmIs DEF CalledOK
    <2>2. PICK c : CalledLines(c)
      BY <2>1, LinesCalled
    <2>3. /\ Top.node.exp \in Trees /\ Top.node.exp.kind \notin ExpLists
          /\ Top.node.kind \notin ExpLists /\ MaxArgs[Top.node] = MaxArgs[Top.node.exp]
      BY <2>1, MaxArgsParts DEF ExpLists
    <2>4. Prints(Top.node.exp, c) = Prints(Top.node, c)
      BY <2>3 DEF Prints
    <2>5. PrintsAfter(Top, Prints(Top.node.exp, c)) = Prints(Top.node, c)
      BY <2>1, <2>4 DEF PrintsAfter
    <2>. QED BY <2>1, <2>2, <2>3, <2>5, LinesCall
  <1>4. CASE AssignStmEnd
    <2>1. /\ ResumedOK("AssignStm") /\ out' = out /\ Top.node.kind = "AssignStm"
          /\ EndsWith(Front(frames), 0, Update(Top.t, Top.node.id, ret.i))
      BY <1>4, AssignStmEndIs DEF ResumedOK
    <2>2. PICK c : ResumedLines(c)
      BY <2>1, LinesResumed
    <2>3. PrintsAfter(Top, c) = c
      BY <2>1 DEF PrintsAfter
    <2>. QED BY <2>1, <2>2, <2>3, LinesEnd DEF ResumedLines
  <1>5. CASE PrintStm
    <2>1. /\ CalledOK("PrintStm") /\ Top.node.exps \in Children(Top.node)
          /\ StartsAt(Waiting, Top.node.exps, Top.t) /\ out' = out
          /\ Top.node.kind = "PrintStm" /\ Top.node \in Trees
      BY <1>5, PrintStmIs DEF CalledOK
    <2>2. PICK c : CalledLines(c)
      BY <2>1, LinesCalled
    <2>3. Has(Top.node, "PrintStm") /\ c.open = 0 /\ c \in Lines
      BY <2>1, <2>2, HasParts DEF CalledLines, CalledWith
    <2>4. /\ Top.node.exps \in Trees /\ Top.node.exps.kind \in ExpLists
          /\ Top.node.kind \notin ExpLists /\ MaxArgs[Top.node] = NumExps[Top.node.exps]
          /\ NumExps[Top.node.exps] \in Nat
      BY <2>1, PartsOf, MaxArgsIs, NumExpsIs DEF ExpLists
    <2>5. Prints(Top.node.exps, c) = Prints(Top.node, c)
      <3>1. c.open + NumExps[Top.node.exps] = MaxArgs[Top.node]
        BY <2>3, <2>4
      <3>. QED BY <2>3, <2>4, <3>1 DEF Prints
    <2>6. CalledWith(Top.node.exps, c)
      BY <2>1, <2>2, CalledBelow DEF CalledLines, CalledWith
    <2>. QED BY <2>1, <2>2, <2>5, <2>6, LinesStart DEF CalledLines
  <1>6. ASSUME IdExp \/ NumExp PROVE LineInv'
    <2>1. /\ CalledOK("IdExp") \/ CalledOK("NumExp")
          /\ out' = out /\ \E i, t : EndsWith(Waiting, i, t)
      BY <1>6, IdExpIs, NumExpIs
    <2>2. PICK i, t : EndsWith(Waiting, i, t)
      BY <2>1
    <2>3. PICK c : CalledLines(c)
      BY <2>1, LinesCalled
    <2>4. Top.node \in Trees /\ Top.node.kind \in {"IdExp", "NumExp"}
      BY <2>1 DEF CalledOK
    <2>5. Children(Top.node) = {} /\ Top.node.kind \notin ExpLists
      BY <2>4, PartsOf DEF ExpLists
    <2>6. ~Has(Top.node, "PrintStm")
      BY <2>4, <2>5, HasParts
    <2>7. Prints(Top.node, c) = c
      BY <2>3, <2>4, <2>5, <2>6, PrintsIs DEF CalledLines
    <2>. QED BY <2>1, <2>2, <2>3, <2>7, LinesEnd DEF CalledLines
  <1>7. CASE OpExp
    <2>1. /\ CalledOK("OpExp") /\ Top.node.left \in Children(Top.node)
          /\ StartsAt(Append(Waiting, Top), Top.node.left, Top.t) /\ out' = out
          /\ Top.node.kind = "OpExp" /\ Top.node \in Trees
      BY <1>7, OpExpIs DEF CalledOK
    <2>2. PICK c : CalledLines(c)
      BY <2>1, LinesCalled
    <2>3. ~Has(Top.node, "PrintStm") /\ c \in Lines
      BY <2>1, <2>2 DEF CalledLines, PrintsOutside
    <2>4. /\ Top.node.left \in Trees /\ Top.node.left.kind \notin ExpLists
          /\ Top.node.kind \notin ExpLists
      BY <2>1, PartsOf DEF Exps, ExpLists
    <2>5. ~Has(Top.node.left, "PrintStm")
      BY <2>1, <2>3, HasParts
    <2>6. Prints(Top.node.left, c) = c /\ Prints(Top.node, c) = c
      BY <2>1, <2>3, <2>4, <2>5, PrintsIs
    <2>7. PrintsAfter(Top, Prints(Top.node.left, c)) = Prints(Top.node, c)
      BY <2>1, <2>6 DEF PrintsAfter
    <2>. QED BY <2>1, <2>2, <2>4, <2>7, LinesCall
  <1>8. CASE OpExpRight
    <2>. DEFINE n == Top.node.right
                kept == [Top EXCEPT !.left = ret]
    <2>1. /\ ResumedOK("OpExp") /\ n \in Children(Top.node) /\ kept \in Frame
          /\ StartsAt(Append(Front(frames), kept), n, ret.t) /\ out' = out
      BY <1>8, OpExpRightIs
    <2>2. /\ Top.node \in Trees /\ Top \in Frame /\ Top.node.kind = "OpExp"
          /\ Front(frames) \in Seq(Frame) /\ status = "running"
          /\ n \in Trees /\ n.kind \notin ExpLists
      BY <2>1, Stacks, PartsOf DEF ResumedOK, Exps, ExpLists
    <2>3. kept.node = Top.node
      BY <2>2 DEF Frame
    <2>4. PICK c : ResumedLines(c)
      BY <2>1, LinesResumed
    <2>5. /\ c \in Lines /\ AreLines(out, c) /\ LinesFrom(Front(frames), PrintsAfter(Top, c))
          /\ Top.node \in Subtrees[program] /\ (Has(Top.node, "PrintStm") => c.open = 0)
      BY <2>4 DEF ResumedLines
    <2>6. ~Has(Top.node, "PrintStm")
      BY <2>2, <2>5 DEF PrintsOutside
    <2>7. ~Has(n, "PrintStm") /\ CalledWith(n, c)
      BY <2>1, <2>2, <2>4, <2>6, HasParts, CalledBelow DEF ResumedLines
    <2>8. PrintsAfter(Top, c) = c /\ PrintsAfter(kept, c) = c
      BY <2>2, <2>3 DEF PrintsAfter
    <2>. HIDE DEF kept
    <2>9. <<kept, c, c>> \in LineLinks(program)
      BY <2>1, <2>3, <2>5, <2>8, LineLink
    <2>10. LinesFrom(Append(Front(frames), kept), c)
      BY <2>1, <2>2, <2>5, <2>8, <2>9, ChainPush DEF LinesFrom
    <2>11. Prints(n, c) = c
      BY <2>2, <2>5, <2>7, PrintsIs
    <2>. QED BY <2>1, <2>2, <2>5, <2>7, <2>10, <2>11, LinesStart
  <1>9. CASE OpExpApply
    <2>1. /\ ResumedOK("OpExp") /\ out' = out /\ Top.node.kind = "OpExp"
          /\ EndsWith(Front(frames), Apply(Top.node.oper, Top.left.i, ret.i), ret.t)
      BY <1>9, OpExpApplyIs DEF ResumedOK
    <2>2. PICK c : ResumedLines(c)
      BY <2>1, LinesResumed
    <2>3. PrintsAfter(Top, c) = c
      BY <2>1 DEF PrintsAfter
    <2>. QED BY <2>1, <2>2, <2>3, LinesEnd DEF ResumedLines
  <1>10. CASE EseqExp
    <2>1. /\ CalledOK("EseqExp") /\ Top.node.stm \in Children(Top.node)
          /\ StartsAt(Append(Waiting, Top), Top.node.stm, Top.t) /\ out' = out
          /\ Top.node.kind = "EseqExp" /\ Top.node \in Trees
      BY <1>10, EseqExpIs DEF CalledOK
    <2>2. PICK c : CalledLines(c)
      BY <2>1, LinesCalled
    <2>3. /\ Top.node.stm \in Trees /\ Top.node.exp \in Trees
          /\ Top.node.stm.kind \notin ExpLists /\ Top.node.exp.kind \notin ExpLists
          /\ Top.node.kind \notin ExpLists
          /\ MaxArgs[Top.node] = Max({MaxArgs[Top.node.stm], MaxArgs[Top.node.exp]})
      BY <2>1, MaxArgsParts DEF ExpLists
    <2>4. Prints(Top.node.exp, Prints(Top.node.stm, c)) = Prints(Top.node, c)
      BY <2>1, <2>2, <2>3, PrintsTwo DEF CalledLines
    <2>5. PrintsAfter(Top, Prints(Top.node.stm, c)) = Prints(Top.node, c)
      BY <2>1, <2>4 DEF PrintsAfter
    <2>. QED BY <2>1, <2>2, <2>3, <2>5, LinesCall
  <1>11. CASE EseqExpEnd
    <2>1. /\ ResumedOK("EseqExp") /\ Top.node.exp \in Children(Top.node)
          /\ StartsAt(Front(frames), Top.node.exp, Top.t) /\ out' = out
          /\ Top.node.kind = "EseqExp"
      BY <1>11, EseqExpEndIs DEF ResumedOK
    <2>2. PICK c : ResumedLines(c)
      BY <2>1, LinesResumed
    <2>3. PrintsAfter(Top, c) = Prints(Top.node.exp, c)
      BY <2>1 DEF PrintsAfter
    <2>4. CalledWith(Top.node.exp, c)
      BY <2>1, <2>2, CalledBelow DEF ResumedLines
    <2>. QED BY <2>1, <2>2, <2>3, <2>4, LinesStart DEF ResumedLines
  <1>12. ASSUME NEW kind \in ExpLists, ExpList(kind) PROVE LineInv'
    <2>1. /\ CalledOK(kind) /\ Top.node.exp \in Children(Top.node)
          /\ StartsAt(Append(Waiting, Top), Top.node.exp, Top.t) /\ out' = out
          /\ Top.node.kind = kind /\ Top.node \in Trees
      BY <1>12, ExpListIs DEF CalledOK
    <2>2. kind = "PairExpList" \/ kind = "LastExpList"
      BY DEF ExpLists
    <2>3. PICK c : CalledLines(c)
      BY <2>1, LinesCalled
    <2>4. ~Has(Top.node, "PrintStm") /\ c \in Lines
      BY <2>1, <2>2, <2>3 DEF CalledLines, PrintsOutside
    <2>5. Top.node.exp \in Trees /\ Top.node.exp.kind \notin ExpLists
      BY <2>1, <2>2, PartsOf DEF Exps, ExpLists
    <2>6. ~Has(Top.node.exp, "PrintStm")
      BY <2>1, <2>4, HasParts
    <2>7. Prints(Top.node.exp, c) = c
      BY <2>4, <2>5, <2>6, PrintsIs
    <2>8. PrintsAfter(Top, c) = Prints(Top.node, c)
      BY <2>1, <2>2, <2>4, PrintsList DEF PrintsAfter
    <2>. QED BY <2>1, <2>3, <2>5, <2>7, <2>8, LinesCall
  <1>13. CASE LastExpListEnd
    <2>1. /\ ResumedOK("LastExpList") /\ Output(ret.i, TRUE) /\ ret.i \in Int_
          /\ EndsWith(Front(frames), ret.i, ret.t)
          /\ Top.node.kind = "LastExpList" /\ status = "running"
      BY <1>13, LastExpListEndIs DEF ResumedOK
    <2>2. PICK c : ResumedLines(c)
      BY <2>1, LinesResumed
    <2>3. /\ c \in Lines /\ AreLines(out, c) /\ LinesFrom(Front(frames), PrintsAfter(Top, c))
          /\ out \in Seq(Printed)
      BY <2>2 DEF ResumedLines
    <2>4. PrintsAfter(Top, c) = More(c, TRUE)
      BY <2>1 DEF PrintsAfter
    <2>5. AreLines(out', More(c, TRUE)) /\ More(c, TRUE) \in Lines
      BY <2>1, <2>3, LinesOfOutput
    <2>. QED BY <2>1, <2>3, <2>4, <2>5, LinesEnd
  <1>14. CASE PairExpListTail
    <2>1. /\ ResumedOK("PairExpList") /\ Output(ret.i, FALSE) /\ ret.i \in Int_
          /\ Top.node.tail \in Children(Top.node)
          /\ StartsAt(Front(frames), Top.node.tail, ret.t)
          /\ Top.node.kind = "PairExpList" /\ status = "running" /\ Top.node \in Trees
      BY <1>14, PairExpListTailIs DEF ResumedOK
    <2>2. PICK c : ResumedLines(c)
      BY <2>1, LinesResumed
    <2>3. /\ c \in Lines /\ AreLines(out, c) /\ LinesFrom(Front(frames), PrintsAfter(Top, c))
          /\ out \in Seq(Printed) /\ Top.node \in Subtrees[program] /\ program \in Trees
      BY <2>2 DEF ResumedLines
    <2>4. PrintsAfter(Top, c) = Prints(Top.node.tail, More(c, FALSE))
      BY <2>1 DEF PrintsAfter
    <2>5. AreLines(out', More(c, FALSE)) /\ More(c, FALSE) \in Lines
      BY <2>1, <2>3, LinesOfOutput
    <2>6. ~Has(Top.node, "PrintStm")
      BY <2>1, <2>3 DEF PrintsOutside
    <2>7. ~Has(Top.node.tail, "PrintStm") /\ Top.node.tail \in Subtrees[program]
      BY <2>1, <2>3, <2>6, HasParts, ChildInProgram
    <2>8. CalledWith(Top.node.tail, More(c, FALSE))
      BY <2>7 DEF CalledWith
    <2>. QED BY <2>1, <2>3, <2>4, <2>5, <2>8, LinesStart
  <1>15. CASE IdExpUnbound
    BY <1>15, IdExpUnboundIs
  <1>16. CASE OpExpTrap
    BY <1>16, OpExpTrapIs
  <1>17. CASE Done
    BY <1>17, DoneIs
  <1>18. "LastExpList" \in ExpLists /\ "PairExpList" \in ExpLists
    BY DEF ExpLists
  <1>. QED BY <1>1, <1>2, <1>3, <1>4, <1>5, <1>6, <1>7, <1>8, <1>9, <1>10, <1>11, <1>12, <1>13,
              <1>14, <1>15, <1>16, <1>17, <1>18 DEF SlpStep

LEMMA LinesDone ==
  ASSUME TypeInv, LineInv, Done
  PROVE  LineInv'
  <1>1. /\ status = "running" /\ status' = "done" /\ ret # None /\ Waiting = <<>>
        /\ UNCHANGED <<program, out>> /\ out \in Seq(Printed) /\ program \in Trees
    BY DoneIs, ProgramsAssumption DEF TypeInv
  <1>2. ASSUME PrintsOutside, out # <<>> PROVE MaxArgs[program] = Max(Widths(out))
    <2>1. PICK c \in Lines : AreLines(out, c) /\ LinesFrom(<<>>, c)
      BY <1>1, <1>2 DEF LineInv
    <2>2. c = Counted
      BY <2>1, ChainEmpty DEF LinesFrom
    <2>3. MaxArgs[program] \in Nat /\ MaxArgs[program] >= 1
      BY <1>1, MaxArgsIs, ArgumentsOfNone
    <2>4. MaxArgs[program] \in Nat \ {0}
      BY <2>3
    <2>5. c.most = MaxArgs[program] /\ c.open = 0
      BY <2>2, <2>4, LinType DEF Counted
    <2>. QED BY <1>1, <1>2, <2>1, <2>5, WidestIs
  <1>3. WidestLine'
    BY <1>1, <1>2 DEF WidestLine, PrintsOutside
  <1>. QED BY <1>1, <1>3 DEF LineInv

LEMMA LinesKept == TypeInv /\ LineInv /\ [SlpNext]_slpVars => LineInv'
  <1>. SUFFICES ASSUME TypeInv, LineInv, [SlpNext]_slpVars PROVE LineInv'
    OBVIOUS
  <1>1. CASE SlpStep
    <2>1. status = "running" /\ program' = program
      BY <1>1, StepGoesOn
    <2>2. CASE Done
      BY <2>2, LinesDone
    <2>3. CASE status' \in {"crashed", "aborted", "trapped"}
      BY <2>3 DEF LineInv, WidestLine
    <2>4. CASE status' = "running" /\ PrintsOutside
      BY <1>1, <2>1, <2>4, LinesGoOn
    <2>5. CASE status' = "running" /\ ~PrintsOutside
      <3>1. ~PrintsOutside'
        BY <2>1, <2>5 DEF PrintsOutside
      <3>. QED BY <2>5, <3>1 DEF LineInv, WidestLine
    <2>. QED BY <1>1, <2>2, <2>3, <2>4, <2>5, StepGoesOn
  <1>2. CASE UNCHANGED slpVars
    BY <1>2 DEF slpVars, LineInv, LinesFrom, CalledWith, Counted, WidestLine, PrintsOutside,
                Waiting, Top, Last
  <1>. QED BY <1>1, <1>2 DEF SlpNext

\* MaxArgs tells what it is for: in a program that ends, prints, and has no print statement
\* inside an operand or an argument of another, the widest line printed has as many numbers
\* as MaxArgs says.
THEOREM WidestLineAlways == SlpSpec => []WidestLine
  <1>1. LineInv => WidestLine
    BY DEF LineInv
  <1>. QED BY <1>1, TypeInvAlways, LinesInit, LinesKept, PTL DEF SlpSpec

=============================================================================
