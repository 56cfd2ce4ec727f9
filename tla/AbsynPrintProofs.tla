-------------------------- MODULE AbsynPrintProofs --------------------------
(***************************************************************************)
(* Theorems about the text that Print writes, for all trees: how its lines *)
(* are indented, and that no two trees print alike.                        *)
(***************************************************************************)
EXTENDS AbsynPrint, SequenceTheorems, FiniteSetTheorems, WellFoundedInduction, TLAPS

-----------------------------------------------------------------------------
(* Induction on sequences, and FlattenSeq *)

\* A set of numbers that has each number as soon as it has the one before it.
LEMMA NatInduction_ ==
  ASSUME NEW G, 0 \in G, \A k \in Nat : k \in G => k + 1 \in G
  PROVE  Nat \subseteq G
  <1>. DEFINE R == OpToRel(<, Nat)
              H == Nat \ G
  <1>. SUFFICES ASSUME H # {} PROVE FALSE
    OBVIOUS
  <1>1. IsWellFoundedOn(R, Nat) /\ H \subseteq Nat
    <2>1. IsWellFoundedOn(R, Nat)
      BY NatLessThanWellFounded
    <2>. HIDE DEF R
    <2>. QED BY <2>1
  <1>2. PICK h \in H : \A k \in H : ~(<<k, h>> \in R)
    <2>. HIDE DEF R, H
    <2>. QED BY <1>1, WFMin
  <1>3. h \in Nat /\ h # 0 /\ h - 1 \in Nat /\ (h - 1) + 1 = h
    OBVIOUS
  <1>4. <<h - 1, h>> \in R
    BY <1>3 DEF OpToRel
  <1>5. h - 1 \in G
    <2>. HIDE DEF R
    <2>. QED BY <1>2, <1>3, <1>4
  <1>. QED BY <1>3, <1>5

\* A set that has the empty sequence, and with each sequence all that are one longer.
LEMMA SeqInduction ==
  ASSUME NEW S, NEW G, <<>> \in G,
         \A s \in Seq(S) : s \in G => \A x \in S : Append(s, x) \in G
  PROVE  Seq(S) \subseteq G
  <1>. DEFINE N == {k \in Nat : \A s \in Seq(S) : Len(s) = k => s \in G}
  <1>1. 0 \in N
    <2>1. \A s \in Seq(S) : Len(s) = 0 => s = <<>>
      BY EmptySeq
    <2>. QED BY <2>1
  <1>2. ASSUME NEW k \in Nat, k \in N PROVE k + 1 \in N
    <2>. SUFFICES ASSUME NEW s \in Seq(S), Len(s) = k + 1 PROVE s \in G
      OBVIOUS
    <2>1. s # <<>>
      BY <1>2
    <2>2. PICK t \in Seq(S), x \in S : s = Append(t, x)
      BY <2>1, SequenceEmptyOrAppend
    <2>3. Len(t) \in Nat /\ Len(s) = Len(t) + 1
      BY <2>2, AppendProperties
    <2>4. t \in G
      BY <1>2, <2>3
    <2>. QED BY <2>2, <2>4
  <1>3. Nat \subseteq N
    <2>. HIDE DEF N
    <2>. QED BY <1>1, <1>2, NatInduction_
  <1>. QED BY <1>3, LenProperties

\* What FlattenSeq has after each of ss.
FlatLaw(f, ss) == \A i \in 1..Len(ss) : f[i] = IF i = 1 THEN ss[i] ELSE f[i - 1] \o ss[i]

LEMMA FlatSteps ==
  ASSUME NEW S, NEW ss \in Seq(Seq(S)), Len(ss) # 0
  PROVE  \E f : FlatLaw(f, ss) /\ FlattenSeq(ss) = f[Len(ss)]
  <1>. DEFINE n == Len(ss)
              Step(g, i) == IF i = 1 THEN ss[i] ELSE g[i - 1] \o ss[i]
              flatten == CHOOSE g : g = [i \in 1..n |-> Step(g, i)]
              Made(m) == \E g : g = [i \in 1..m |-> Step(g, i)]
              M == {m \in Nat : Made(m)}
  <1>1. n \in Nat /\ n # 0
    OBVIOUS
  <1>2. FlattenSeq(ss) = flatten[n]
    BY DEF FlattenSeq
  <1>. HIDE DEF n
  <1>3. Made(0)
    <2>1. 1..0 = {}
      OBVIOUS
    <2>2. <<>> = [i \in 1..0 |-> Step(<<>>, i)]
      BY <2>1
    <2>. QED BY <2>2
  <1>4. ASSUME NEW m \in Nat, Made(m) PROVE Made(m + 1)
    <2>1. PICK h : h = [i \in 1..m |-> Step(h, i)]
      BY <1>4
    <2>. DEFINE g == [i \in 1..(m + 1) |-> IF i = m + 1 THEN Step(h, m + 1) ELSE h[i]]
    <2>2. \A i \in 1..(m + 1) : i # m + 1 => i \in 1..m
      OBVIOUS
    <2>3. \A i \in 1..(m + 1) : i # 1 => i - 1 \in 1..(m + 1) /\ i - 1 # m + 1
      OBVIOUS
    <2>4. \A i \in 1..(m + 1) : i # 1 => g[i - 1] = h[i - 1]
      BY <2>3
    <2>5. \A i \in 1..(m + 1) : g[i] = Step(g, i)
      <3>. SUFFICES ASSUME NEW i \in 1..(m + 1) PROVE g[i] = Step(g, i)
        OBVIOUS
      <3>1. Step(g, i) = Step(h, i)
        BY <2>4
      <3>2. CASE i = m + 1
        BY <3>1, <3>2
      <3>3. CASE i # m + 1
        <4>1. g[i] = h[i] /\ i \in 1..m
          BY <2>2, <3>3
        <4>. HIDE DEF g, Step
        <4>2. h[i] = Step(h, i)
          BY <2>1, <4>1
        <4>. QED BY <3>1, <4>1, <4>2
      <3>. QED BY <3>2, <3>3
    <2>6. g = [i \in 1..(m + 1) |-> Step(g, i)]
      <3>. HIDE DEF Step
      <3>. QED BY <2>5
    <2>. QED BY <2>6
  <1>5. Made(n)
    <2>. HIDE DEF Made
    <2>1. 0 \in M /\ \A m \in Nat : m \in M => m + 1 \in M
      BY <1>3, <1>4
    <2>2. Nat \subseteq M
      <3>. HIDE DEF M
      <3>. QED BY <2>1, NatInduction_
    <2>. QED BY <1>1, <2>2
  <1>6. flatten = [i \in 1..n |-> Step(flatten, i)]
    BY <1>5
  <1>. HIDE DEF flatten
  <1>7. FlatLaw(flatten, ss)
    BY <1>6 DEF FlatLaw, n
  <1>. QED BY <1>2, <1>7 DEF n

LEMMA FlatNone == FlattenSeq(<<>>) = <<>>
  BY DEF FlattenSeq

\* One more.
LEMMA FlatStep ==
  ASSUME NEW S, NEW ss \in Seq(Seq(S)), NEW s \in Seq(S)
  PROVE  /\ FlattenSeq(ss) \in Seq(S)
         /\ FlattenSeq(Append(ss, s)) = FlattenSeq(ss) \o s
  <1>. DEFINE tt == Append(ss, s)
              n == Len(ss)
  <1>1. n \in Nat /\ tt \in Seq(Seq(S)) /\ Len(tt) = n + 1 /\ tt[n + 1] = s
        /\ \A i \in 1..n : tt[i] = ss[i] /\ ss[i] \in Seq(S)
    OBVIOUS
  <1>. HIDE DEF tt, n
  <1>2. PICK g : FlatLaw(g, tt) /\ FlattenSeq(tt) = g[n + 1]
    <2>1. Len(tt) # 0
      BY <1>1
    <2>2. \E g : FlatLaw(g, tt) /\ FlattenSeq(tt) = g[Len(tt)]
      BY <1>1, <2>1, FlatSteps
    <2>. QED BY <1>1, <2>2
  <1>3. CASE n = 0
    <2>1. ss = <<>> /\ FlattenSeq(ss) = <<>> /\ <<>> \in Seq(S)
      BY <1>3, EmptySeq, FlatNone DEF n
    <2>2. g[1] = tt[1] /\ tt[1] = s
      BY <1>1, <1>2, <1>3 DEF FlatLaw
    <2>3. <<>> \o s = s
      BY ConcatEmptySeq
    <2>4. FlattenSeq(tt) = s
      BY <1>2, <1>3, <2>2
    <2>. QED BY <2>1, <2>3, <2>4 DEF tt
  <1>4. CASE n # 0
    <2>1. PICK f : FlatLaw(f, ss) /\ FlattenSeq(ss) = f[n]
      BY <1>4, FlatSteps DEF n
    <2>. DEFINE M == {k \in Nat : k \in 1..n => f[k] = g[k] /\ f[k] \in Seq(S)}
    <2>2. ASSUME NEW k \in Nat, k \in M, k + 1 \in 1..n
          PROVE  f[k + 1] = g[k + 1] /\ f[k + 1] \in Seq(S)
      <3>1. ss[k + 1] = tt[k + 1] /\ ss[k + 1] \in Seq(S) /\ k + 1 \in 1..Len(tt) /\ k + 1 \in 1..Len(ss)
        BY <1>1, <2>2 DEF n
      <3>2. CASE k = 0
        BY <1>2, <2>1, <3>1, <3>2 DEF FlatLaw
      <3>3. CASE k # 0
        <4>1. k \in 1..n /\ k + 1 # 1 /\ (k + 1) - 1 = k
          BY <1>1, <2>2, <3>3
        <4>2. f[k] = g[k] /\ f[k] \in Seq(S)
          BY <2>2, <4>1
        <4>3. f[k + 1] = f[k] \o ss[k + 1] /\ g[k + 1] = g[k] \o tt[k + 1]
          BY <1>2, <2>1, <3>1, <4>1 DEF FlatLaw
        <4>. QED BY <3>1, <4>2, <4>3, ConcatProperties
      <3>. QED BY <3>2, <3>3
    <2>3. 0 \in M /\ \A k \in Nat : k \in M => k + 1 \in M
      BY <2>2
    <2>4. Nat \subseteq M
      <3>. HIDE DEF M
      <3>. QED BY <2>3, NatInduction_
    <2>5. f[n] = g[n] /\ f[n] \in Seq(S)
      BY <1>1, <1>4, <2>4
    <2>6. g[n + 1] = g[n] \o tt[n + 1]
      <3>1. n + 1 \in 1..Len(tt) /\ n + 1 # 1 /\ (n + 1) - 1 = n
        BY <1>1, <1>4
      <3>. QED BY <1>2, <3>1 DEF FlatLaw
    <2>. QED BY <1>1, <1>2, <2>1, <2>5, <2>6 DEF tt
  <1>. QED BY <1>3, <1>4

\* One alone, and one before the others.
\* How three sequences are grouped makes no difference.
Regroups(s, t, u) == (s \o t) \o u = s \o (t \o u)

LEMMA Regroup == \A S : \A s, t, u \in Seq(S) : Regroups(s, t, u)
  BY ConcatAssociative DEF Regroups

LEMMA FlatConcat ==
  ASSUME NEW S, NEW ss \in Seq(Seq(S)), NEW tt \in Seq(Seq(S))
  PROVE  FlattenSeq(ss \o tt) = FlattenSeq(ss) \o FlattenSeq(tt)
  <1>. DEFINE G == {uu \in Seq(Seq(S)) : FlattenSeq(ss \o uu) = FlattenSeq(ss) \o FlattenSeq(uu)}
  <1>0. FlattenSeq(ss) \in Seq(S)
    <2>1. <<>> \in Seq(S)
      BY EmptySeq
    <2>. QED BY <2>1, FlatStep
  <1>1. <<>> \in G
    <2>1. ss \o <<>> = ss /\ <<>> \in Seq(Seq(S)) /\ <<>> \in Seq(S)
      BY ConcatEmptySeq, EmptySeq
    <2>2. FlattenSeq(ss) \o <<>> = FlattenSeq(ss)
      BY <1>0, ConcatEmptySeq
    <2>. QED BY <2>1, <2>2, FlatNone
  <1>2. ASSUME NEW uu \in Seq(Seq(S)), uu \in G, NEW u \in Seq(S)
        PROVE  Append(uu, u) \in G
    <2>1. ss \o Append(uu, u) = Append(ss \o uu, u) /\ ss \o uu \in Seq(Seq(S))
          /\ Append(uu, u) \in Seq(Seq(S))
      OBVIOUS
    <2>2. FlattenSeq(Append(ss \o uu, u)) = FlattenSeq(ss \o uu) \o u
      BY <2>1, FlatStep
    <2>3. FlattenSeq(Append(uu, u)) = FlattenSeq(uu) \o u /\ FlattenSeq(uu) \in Seq(S)
      BY FlatStep
    <2>4. FlattenSeq(ss \o uu) = FlattenSeq(ss) \o FlattenSeq(uu)
      BY <1>2
    <2>. DEFINE f == FlattenSeq(ss)
                g == FlattenSeq(uu)
    <2>5. f \in Seq(S) /\ g \in Seq(S) /\ u \in Seq(S)
      BY <1>0, <2>3
    <2>. HIDE DEF f, g
    <2>6. (f \o g) \o u = f \o (g \o u)
      <3>1. Regroups(f, g, u)
        BY <2>5, Regroup
      <3>. QED BY <3>1 DEF Regroups
    <2>7. FlattenSeq(ss \o Append(uu, u)) = f \o FlattenSeq(Append(uu, u))
      BY <2>1, <2>2, <2>3, <2>4, <2>6 DEF f, g
    <2>. QED BY <2>1, <2>7 DEF f
  <1>3. Seq(Seq(S)) \subseteq G
    <2>. HIDE DEF G
    <2>. QED BY <1>1, <1>2, SeqInduction
  <1>. QED BY <1>3

LEMMA FlatOne ==
  ASSUME NEW S, NEW s \in Seq(S)
  PROVE  FlattenSeq(<<s>>) = s
  <1>1. <<>> \in Seq(Seq(S)) /\ Append(<<>>, s) = <<s>> /\ <<>> \o s = s
    BY EmptySeq, ConcatEmptySeq
  <1>. QED BY <1>1, FlatStep, FlatNone

-----------------------------------------------------------------------------
(* Recursion on trees *)

\* A set that has a tree as soon as it has the trees below it has all.
LEMMA TreeInduction ==
  ASSUME NEW G, \A n \in Trees : Children(n) \subseteq G => n \in G
  PROVE  Trees \subseteq G
  <1>0. \A n \in Trees : /\ Height[n] \in Nat
                         /\ \A c \in Children(n) : c \in Trees /\ Height[c] < Height[n]
    BY PrintTreesAssumption DEF Children
  <1>. DEFINE R == OpToRel(<, Nat)
              H == {Height[n] : n \in Trees \ G}
  <1>. SUFFICES ASSUME H # {} PROVE FALSE
    OBVIOUS
  <1>1. IsWellFoundedOn(R, Nat) /\ H \subseteq Nat
    <2>1. IsWellFoundedOn(R, Nat)
      BY NatLessThanWellFounded
    <2>2. H \subseteq Nat
      <3>. HIDE DEF R
      <3>. QED BY <1>0
    <2>. HIDE DEF R, H
    <2>. QED BY <2>1, <2>2
  <1>2. PICK h \in H : \A k \in H : ~(<<k, h>> \in R)
    <2>. HIDE DEF R, H
    <2>. QED BY <1>1, WFMin
  <1>3. PICK n \in Trees \ G : h = Height[n]
    OBVIOUS
  <1>4. PICK c \in Children(n) : c \notin G
    OBVIOUS
  <1>5. c \in Trees \ G /\ Height[c] < Height[n] /\ Height[c] \in Nat /\ Height[n] \in Nat
    BY <1>0, <1>4
  <1>6. Height[c] \in H /\ <<Height[c], h>> \in R
    BY <1>3, <1>5 DEF OpToRel
  <1>. QED BY <1>2, <1>6

\* F gives the value of a tree from the values of the trees, and looks only at those
\* of the trees below it.
Recursive(V, F) ==
  /\ V # {} /\ F \in [Trees -> [[Trees -> V] -> V]]
  /\ \A n \in Trees : \A g, h \in [Trees -> V] :
       (\A c \in Children(n) : g[c] = h[c]) => F[n][g] = F[n][h]

\* There are values that F gives for one another.
Solvable(V, F) == \E f \in [Trees -> V] : \A n \in Trees : f[n] = F[n][f]

LEMMA Recursion == \A V, F : Recursive(V, F) => Solvable(V, F)
  <1>. SUFFICES ASSUME NEW V, NEW F, Recursive(V, F) PROVE Solvable(V, F)
    OBVIOUS
  <1>r. /\ V # {} /\ F \in [Trees -> [[Trees -> V] -> V]]
        /\ \A n \in Trees : \A g, h \in [Trees -> V] :
             (\A c \in Children(n) : g[c] = h[c]) => F[n][g] = F[n][h]
    BY DEF Recursive
  <1>. DEFINE Ok(k, g) == \A n \in Trees : Height[n] < k => g[n] = F[n][g]
              R == OpToRel(<, Nat)
  <1>0. \A n \in Trees : /\ Height[n] \in Nat
                         /\ \A c \in Children(n) : c \in Trees /\ Height[c] < Height[n]
    BY PrintTreesAssumption DEF Children
  <1>t. \A n \in Trees : \A g \in [Trees -> V] : F[n][g] \in V
    BY <1>r
  <1>1. ASSUME NEW k \in Nat, NEW g \in [Trees -> V], Ok(k, g)
        PROVE  \E h \in [Trees -> V] : Ok(k + 1, h)
    <2>. DEFINE h == [n \in Trees |-> F[n][g]]
    <2>1. h \in [Trees -> V]
      BY <1>t
    <2>2. ASSUME NEW n \in Trees, Height[n] < k + 1 PROVE h[n] = F[n][h]
      <3>1. \A c \in Children(n) : c \in Trees /\ Height[c] < k
        BY <1>0, <2>2
      <3>2. \A c \in Children(n) : h[c] = g[c]
        BY <1>1, <3>1
      <3>3. F[n][g] = F[n][h]
        <4>. HIDE DEF h
        <4>. QED BY <1>r, <2>1, <3>2
      <3>. QED BY <3>3
    <2>. HIDE DEF h
    <2>. QED BY <2>1, <2>2
  <1>2. ASSUME NEW k \in Nat PROVE \E g \in [Trees -> V] : Ok(k, g)
    <2>. DEFINE N == {j \in Nat : ~\E g \in [Trees -> V] : Ok(j, g)}
    <2>. HIDE DEF Ok
    <2>. SUFFICES ASSUME N # {} PROVE FALSE
      OBVIOUS
    <2>1. IsWellFoundedOn(R, Nat) /\ N \subseteq Nat
      <3>1. IsWellFoundedOn(R, Nat)
        BY NatLessThanWellFounded
      <3>. HIDE DEF R
      <3>. QED BY <3>1
    <2>2. PICK m \in N : \A j \in N : ~(<<j, m>> \in R)
      <3>. HIDE DEF R, N
      <3>. QED BY <2>1, WFMin
    <2>3. CASE m = 0
      <3>1. PICK v \in V : TRUE
        BY <1>r
      <3>2. [n \in Trees |-> v] \in [Trees -> V]
        OBVIOUS
      <3>3. \A g : Ok(0, g)
        BY <1>0 DEF Ok
      <3>. QED BY <2>3, <3>2, <3>3
    <2>4. CASE m # 0
      <3>1. m \in Nat /\ m - 1 \in Nat /\ (m - 1) + 1 = m
        BY <2>4
      <3>2. <<m - 1, m>> \in R
        BY <3>1 DEF OpToRel
      <3>3. m - 1 \notin N
        BY <2>2, <3>2
      <3>. QED BY <1>1, <3>1, <3>3
    <2>. QED BY <2>3, <2>4
  <1>3. ASSUME NEW k \in Nat, NEW g \in [Trees -> V], NEW h \in [Trees -> V], Ok(k, g), Ok(k, h)
        PROVE  \A n \in Trees : Height[n] < k => g[n] = h[n]
    <2>. DEFINE G == {n \in Trees : Height[n] < k => g[n] = h[n]}
    <2>1. \A n \in Trees : Children(n) \subseteq G => n \in G
      <3>. SUFFICES ASSUME NEW n \in Trees, Children(n) \subseteq G, Height[n] < k
                    PROVE  g[n] = h[n]
        OBVIOUS
      <3>1. \A c \in Children(n) : Height[c] < k
        BY <1>0
      <3>2. \A c \in Children(n) : g[c] = h[c]
        BY <3>1
      <3>3. F[n][g] = F[n][h]
        BY <1>r, <3>2
      <3>. QED BY <1>3, <3>3
    <2>2. Trees \subseteq G
      <3>. HIDE DEF G
      <3>. QED BY <2>1, TreeInduction
    <2>. QED BY <2>2
  <1>. DEFINE at(k) == CHOOSE g \in [Trees -> V] : Ok(k, g)
              f == [n \in Trees |-> at(Height[n] + 1)[n]]
  <1>4. \A k \in Nat : at(k) \in [Trees -> V] /\ Ok(k, at(k))
    <2>. HIDE DEF Ok
    <2>. QED BY <1>2
  <1>. HIDE DEF at
  <1>5. f \in [Trees -> V]
    BY <1>0, <1>4
  <1>6. ASSUME NEW n \in Trees PROVE f[n] = F[n][f]
    <2>. DEFINE k == Height[n] + 1
                g == at(k)
    <2>1. k \in Nat /\ g \in [Trees -> V] /\ Ok(k, g) /\ f[n] = g[n] /\ Height[n] < k
      BY <1>0, <1>4
    <2>2. g[n] = F[n][g]
      BY <2>1
    <2>3. ASSUME NEW c \in Children(n) PROVE g[c] = f[c]
      <3>. DEFINE j == Height[c] + 1
      <3>1. c \in Trees /\ j \in Nat /\ Height[c] < j /\ j <= k
        BY <1>0
      <3>2. at(j) \in [Trees -> V] /\ Ok(j, at(j)) /\ f[c] = at(j)[c]
        BY <1>4, <3>1
      <3>3. Ok(j, g)
        BY <1>0, <2>1, <3>1
      <3>. HIDE DEF j, g, Ok
      <3>. QED BY <1>3, <2>1, <3>1, <3>2, <3>3
    <2>. HIDE DEF g, f
    <2>4. F[n][g] = F[n][f]
      BY <1>r, <1>5, <2>1, <2>3
    <2>. QED BY <2>1, <2>2, <2>4
  <1>. HIDE DEF f
  <1>. QED BY <1>5, <1>6 DEF Solvable

-----------------------------------------------------------------------------
(* What nodes consist of *)

\* Two marks under names, since the SMT translation stumbles over these strings.
Blank == " "
Comma == ","

LEMMA MarksAre ==
  /\ Marks = {Blank, "\n", "(", ")", Comma}
  /\ Blank # "\n" /\ Blank # "(" /\ Blank # ")" /\ Blank # Comma
  /\ Comma # "\n" /\ Comma # "(" /\ Comma # ")" /\ Comma # Blank
  BY Zenon DEF Marks, Blank, Comma

LEMMA BreakIs == \A n : Break(n) = (IF HeadWords(n) = <<>> THEN <<>> ELSE <<Comma>>) \o <<"\n">>
  BY Zenon DEF Break, Comma

LEMMA IndentIs == \A d : Indent(d) = [i \in 1..(d + 1) |-> Blank]
  BY Zenon DEF Indent, Blank

\* The words, and the texts made of them.
Word == Names \union {Kind[c] : c \in DOMAIN Kind} \union {str_oper[i] : i \in DOMAIN str_oper}
          \union {"TRUE", "FALSE"}
Text == Seq(Word \union Marks)

LEMMA Assoc == \A s, t, u \in Text : Regroups(s, t, u)
  BY Regroup DEF Text

\* The words of the classes and of the operators, as sets.
KindWords ==
  {"simpleVar", "fieldVar", "subscriptVar", "varExp", "nilExp", "intExp", "stringExp",
   "callExp", "opExp", "recordExp", "seqExp", "assignExp", "iffExp", "whileExp", "forExp",
   "breakExp", "letExp", "arrayExp", "voidExp", "functionDec", "varDec", "typeDec",
   "nameTy", "recordTy", "arrayTy", "field", "fundec", "nameAndTy", "efield", "fieldList",
   "expList", "fundecList", "decList", "nameAndTyList", "efieldList"}
OperWords == {"PLUS", "MINUS", "TIMES", "DIVIDE", "EQUAL", "NOTEQUAL", "LESSTHAN", "LESSEQ",
              "GREAT", "GREATEQ"}

LEMMA KindWord == \A c \in DOMAIN Kind : Kind[c] \in Word /\ Kind[c] \notin Marks
  <1>1. \A c \in DOMAIN Kind : Kind[c] \in Word
    BY DEF Word
  <1>2. \A c \in DOMAIN Kind : Kind[c] \in KindWords
    BY DEF Kind, KindWords
  <1>3. \A w \in KindWords : w \notin Marks
    BY Zenon DEF KindWords, Marks
  <1>. QED BY <1>1, <1>2, <1>3

LEMMA OperNames == \A i \in DOMAIN str_oper : str_oper[i] \in Word /\ str_oper[i] \notin Marks
  <1>1. \A i \in DOMAIN str_oper : str_oper[i] \in Word
    BY DEF Word
  <1>2. \A i \in DOMAIN str_oper : str_oper[i] \in OperWords
    BY DEF str_oper, OperWords
  <1>3. \A w \in OperWords : w \notin Marks
    BY Zenon DEF OperWords, Marks
  <1>. QED BY <1>1, <1>2, <1>3

\* PrintOper finds the name of each operator, and no two have the same.
LEMMA OperWord ==
  /\ \A o \in LeafOf("OpExp") : PrintOper(o) \in Word
  /\ \A o, p \in LeafOf("OpExp") : PrintOper(o) = PrintOper(p) => o = p
  <1>1. DOMAIN str_oper = 1..10 /\ DOMAIN Oper = 1..10
    BY DEF Oper, str_oper
  <1>2. \A o \in LeafOf("OpExp") : \E i \in 1..10 : o = Oper[i]
    BY DEF LeafOf, Oper
  <1>3. \A i \in 1..10 : PrintOper(Oper[i]) = str_oper[i]
    BY DEF PrintOper, Oper, str_oper
  <1>4. \A i, j \in 1..10 : str_oper[i] = str_oper[j] => i = j
    BY DEF str_oper
  <1>5. ASSUME NEW o \in LeafOf("OpExp") PROVE PrintOper(o) \in Word
    BY <1>1, <1>2, <1>3, OperNames
  <1>6. ASSUME NEW o \in LeafOf("OpExp"), NEW p \in LeafOf("OpExp"), PrintOper(o) = PrintOper(p)
        PROVE  o = p
    BY <1>2, <1>3, <1>4, <1>6
  <1>. QED BY <1>5, <1>6

LEMMA WordsAreNoMarks == \A w \in Word : w \notin Marks
  <1>1. \A w \in Names : w \notin Marks
    BY NamesAssumption
  <1>2. \A w \in {"TRUE", "FALSE"} : w \notin Marks
    BY DEF Marks
  <1>. QED BY <1>1, <1>2, KindWord, OperNames DEF Word

\* What can have a line: nothing, a word, or one of the nodes T.
Cells(T) == {Null} \union {Symbol(w) : w \in Word} \union T

\* Nodes, symbols and the null pointer are never the same.
LEMMA CellKinds ==
  /\ \A n \in Trees : n.class \in DOMAIN Kind /\ n # Null /\ n.class # "Symbol"
  /\ \A w : Symbol(w) # Null /\ Symbol(w).class = "Symbol" /\ Symbol(w).leaf = w
  <1>1. \A n \in Trees : n.class \in DOMAIN Kind
    BY PrintTreesAssumption DEF WellMade
  <1>2. "Symbol" \notin DOMAIN Kind /\ "null" \notin DOMAIN Kind
    BY DEF Kind
  <1>3. Null.class = "null"
    BY DEF Null
  <1>4. \A w : Symbol(w).class = "Symbol" /\ Symbol(w).leaf = w
    BY DEF Symbol
  <1>. QED BY <1>1, <1>2, <1>3, <1>4

LEMMA NodeIs ==
  ASSUME NEW n \in Trees
  PROVE  /\ n.class \in DOMAIN Kind /\ n.leaf \in LeafOf(n.class)
         /\ n = [class |-> n.class, parts |-> n.parts, leaf |-> n.leaf]
         /\ n.parts \in Seq(Cells(Children(n)))
         /\ n.class \notin Lists => Len(n.parts) = Len(Params[n.class])
         /\ \A j \in DOMAIN n.parts :
              \/ Fits(n.parts[j], Sort(n, j))
              \/ n.parts[j] = Null /\ MayLack(n, j)
  <1>1. WellMade(n)
    BY PrintTreesAssumption
  <1>2. n.parts \in Seq({n.parts[j] : j \in DOMAIN n.parts})
    BY <1>1 DEF WellMade
  <1>3. ASSUME NEW j \in DOMAIN n.parts PROVE n.parts[j] \in Cells(Children(n))
    <2>1. Fits(n.parts[j], Sort(n, j)) \/ n.parts[j] = Null
      BY <1>1 DEF WellMade
    <2>2. CASE n.parts[j] = Null
      BY <2>2 DEF Cells
    <2>3. CASE n.parts[j] \in Trees
      BY <2>3 DEF Cells, Children
    <2>4. ASSUME NEW w \in LeafOf("Symbol"), n.parts[j] = Symbol(w)
          PROVE  n.parts[j] \in Cells(Children(n))
      <3>1. w \in Word
        BY DEF LeafOf, Word
      <3>. QED BY <2>4, <3>1 DEF Cells
    <2>. QED BY <2>1, <2>2, <2>3, <2>4 DEF Fits
  <1>4. n.parts \in Seq(Cells(Children(n)))
    BY <1>2, <1>3
  <1>. QED BY <1>1, <1>4 DEF WellMade

\* The parts of a class of which the first is its name.
LEMMA NamedIs ==
  ASSUME NEW n \in Trees, n.class \notin Lists, Named(n.class)
  PROVE  /\ n.parts # <<>> /\ n.parts[1].leaf \in Names
         /\ n.parts[1] = Symbol(n.parts[1].leaf)
  <1>1. n.class \in DOMAIN Kind /\ Len(n.parts) = Len(Params[n.class])
        /\ n.parts \in Seq(Cells(Children(n)))
    BY NodeIs
  <1>2. \A c \in DOMAIN Kind : c \notin Lists /\ Named(c) =>
          <<c, 1>> \notin MayBeNull /\ Len(Params[c]) \in 1..4 /\ Params[c][1] = "Symbol"
    BY DEF Named, Params, Lists, ElementOf, MayBeNull, Optional, Kind
  <1>3. Len(n.parts) \in 1..4 /\ Params[n.class][1] = "Symbol" /\ <<n.class, 1>> \notin MayBeNull
    BY <1>1, <1>2
  <1>4. n.class # "EFieldList"
    BY DEF Lists, ElementOf
  <1>5. n.parts # <<>> /\ 1 \in DOMAIN n.parts
    BY <1>1, <1>3
  <1>6. Fits(n.parts[1], "Symbol")
    BY <1>3, <1>4, <1>5, NodeIs DEF Sort, MayLack
  <1>. QED BY <1>5, <1>6 DEF Fits, LeafOf

LEMMA HeadWordsIs ==
  ASSUME NEW n \in Trees, n.class \notin Lists
  PROVE  HeadWords(n) = <<>> \/ \E w \in Word : HeadWords(n) = <<w>>
  <1>1. CASE n.class \in {"IntExp", "StringExp"}
    <2>0. ~Named(n.class)
      BY <1>1 DEF Named, Params
    <2>1. HeadWords(n) = <<n.leaf>>
      BY <1>1, <2>0 DEF HeadWords
    <2>2. n.leaf \in Names
      BY <1>1, NodeIs DEF LeafOf
    <2>. QED BY <2>1, <2>2 DEF Word
  <1>2. CASE n.class \notin {"IntExp", "StringExp"} /\ Named(n.class)
    BY <1>2, NamedIs DEF HeadWords, Word
  <1>3. CASE n.class \notin {"IntExp", "StringExp"} /\ ~Named(n.class)
    BY <1>3 DEF HeadWords
  <1>. QED BY <1>1, <1>2, <1>3

LEMMA ShownIs ==
  ASSUME NEW n \in Trees
  PROVE  Shown(n) \in Seq(Cells(Children(n)))
  <1>. DEFINE C == Cells(Children(n))
              hidden(j) == \/ j = 1 /\ Named(n.class)
                           \/ n.parts[j] = Null /\ <<n.class, j>> \in Optional
              at(j) == IF hidden(j) THEN <<>> ELSE <<n.parts[j]>>
              ss == [j \in DOMAIN n.parts |-> at(j)]
  <1>1. n.parts \in Seq(C)
    BY NodeIs
  <1>. HIDE DEF C, hidden
  <1>2. \A j \in DOMAIN n.parts : at(j) \in Seq(C)
    <2>1. <<>> \in Seq(C)
      BY EmptySeq
    <2>2. \A j \in DOMAIN n.parts : <<n.parts[j]>> \in Seq(C)
      BY <1>1
    <2>. QED BY <2>1, <2>2
  <1>3. ss \in Seq(Seq(C))
    <2>1. DOMAIN n.parts = 1..Len(n.parts) /\ Len(n.parts) \in Nat
      BY <1>1
    <2>. HIDE DEF at
    <2>2. ss = [j \in 1..Len(n.parts) |-> at(j)]
      BY <2>1
    <2>3. \A j \in 1..Len(n.parts) : at(j) \in Seq(C)
      BY <1>2, <2>1
    <2>. QED BY <2>1, <2>2, <2>3
  <1>4. FlattenSeq(ss) \in Seq(C)
    <2>. HIDE DEF ss
    <2>1. <<>> \in Seq(C)
      BY EmptySeq
    <2>. QED BY <1>3, <2>1, FlatStep
  <1>. QED BY <1>4 DEF Shown, at, hidden, C

LEMMA BelowIs ==
  ASSUME NEW n \in Trees
  PROVE  Below(n) \in Seq(Cells(Children(n)))
  <1>. DEFINE C == Cells(Children(n))
              first == IF n.class = "OpExp" THEN <<Symbol(PrintOper(n.leaf))>> ELSE <<>>
              last == IF n.class \in {"ForExp", "VarDec", "Field"} THEN <<Symbol(n.leaf)>> ELSE <<>>
  <1>1. first \in Seq(C)
    <2>1. CASE n.class = "OpExp"
      <3>1. PrintOper(n.leaf) \in Word
        BY <2>1, NodeIs, OperWord
      <3>2. Symbol(PrintOper(n.leaf)) \in C
        BY <3>1 DEF Cells
      <3>. HIDE DEF C
      <3>. QED BY <2>1, <3>2
    <2>2. CASE n.class # "OpExp"
      BY <2>2, EmptySeq
    <2>. QED BY <2>1, <2>2
  <1>2. last \in Seq(C)
    <2>1. CASE n.class \in {"ForExp", "VarDec", "Field"}
      <3>1. n.leaf \in Word
        BY <2>1, NodeIs DEF LeafOf, Word
      <3>2. Symbol(n.leaf) \in C
        BY <3>1 DEF Cells
      <3>. HIDE DEF C
      <3>. QED BY <2>1, <3>2
    <2>2. CASE n.class \notin {"ForExp", "VarDec", "Field"}
      BY <2>2, EmptySeq
    <2>. QED BY <2>1, <2>2
  <1>3. Shown(n) \in Seq(C)
    BY ShownIs
  <1>. HIDE DEF C, first, last
  <1>4. first \o Shown(n) \o last \in Seq(C)
    BY <1>1, <1>2, <1>3, ConcatProperties
  <1>. QED BY <1>4 DEF Below, first, last, C

-----------------------------------------------------------------------------
(* What PrintNode defines by recursion *)

LEMMA FlatIn ==
  ASSUME NEW S, NEW ss \in Seq(Seq(S))
  PROVE  FlattenSeq(ss) \in Seq(S)
  <1>1. <<>> \in Seq(S)
    BY EmptySeq
  <1>. QED BY <1>1, FlatStep

LEMMA Few ==
  ASSUME NEW S, NEW a \in S, NEW b \in S, NEW c \in S, NEW k \in Nat
  PROVE  /\ <<a>> \in Seq(S) /\ <<a, b>> \in Seq(S) /\ <<a, b, c>> \in Seq(S)
         /\ [i \in 1..k |-> a] \in Seq(S)
  OBVIOUS

\* The marks and words that Print writes on its own.
LEMMA TextOf ==
  /\ <<>> \in Text /\ <<"\n">> \in Text /\ <<Comma>> \in Text /\ <<")">> \in Text
  /\ <<Comma, "\n">> \in Text
  /\ \A w \in Word : <<w>> \in Text /\ <<w, "(">> \in Text /\ <<w, "(", ")">> \in Text
  /\ \A d \in Nat : Indent(d) \in Text
  <1>. DEFINE W == Word \union Marks
  <1>1. \A w \in Word : w \in W
    OBVIOUS
  <1>2. Blank \in W /\ "\n" \in W /\ "(" \in W /\ ")" \in W /\ Comma \in W
    BY MarksAre
  <1>. HIDE DEF W
  <1>3. ASSUME NEW d \in Nat PROVE Indent(d) \in Seq(W)
    <2>1. d + 1 \in Nat
      OBVIOUS
    <2>2. [i \in 1..(d + 1) |-> Blank] \in Seq(W)
      BY <1>2, <2>1, Few
    <2>. QED BY <2>2, IndentIs
  <1>4. /\ <<>> \in Seq(W) /\ <<"\n">> \in Seq(W) /\ <<Comma>> \in Seq(W) /\ <<")">> \in Seq(W)
        /\ <<Comma, "\n">> \in Seq(W)
    <2>1. <<>> \in Seq(W)
      BY EmptySeq
    <2>2. <<"\n">> \in Seq(W)
      BY <1>2, Few
    <2>3. <<Comma>> \in Seq(W) /\ <<Comma, "\n">> \in Seq(W)
      BY <1>2, Few
    <2>4. <<")">> \in Seq(W)
      BY <1>2, Few
    <2>. QED BY <2>1, <2>2, <2>3, <2>4
  <1>5. ASSUME NEW w \in Word
        PROVE  <<w>> \in Seq(W) /\ <<w, "(">> \in Seq(W) /\ <<w, "(", ")">> \in Seq(W)
    <2>1. w \in W
      BY <1>1
    <2>2. <<w>> \in Seq(W)
      BY <2>1, Few
    <2>3. <<w, "(">> \in Seq(W) /\ <<w, "(", ")">> \in Seq(W)
      BY <1>2, <2>1, Few
    <2>. QED BY <2>2, <2>3
  <1>. QED BY <1>3, <1>4, <1>5 DEF Text, W

LEMMA ConcatText == \A s, t \in Text : s \o t \in Text
  BY ConcatProperties DEF Text

\* What prints each node.
Prints == [Trees -> [Nat -> Text]]

LEMMA PartIn ==
  ASSUME NEW g \in Prints, NEW p \in Cells(Trees), NEW d \in Nat
  PROVE  PrintPart(g, p, d) \in Text
  <1>1. CASE p = Null
    <2>1. PrintPart(g, p, d) = <<>>
      BY <1>1, CellKinds DEF PrintPart, Null
    <2>. QED BY <2>1, TextOf
  <1>2. ASSUME NEW w \in Word, p = Symbol(w) PROVE PrintPart(g, p, d) \in Text
    <2>1. PrintPart(g, p, d) = Indent(d) \o <<w>>
      BY <1>2, CellKinds DEF PrintPart
    <2>. QED BY <2>1, TextOf, ConcatText
  <1>3. CASE p \in Trees
    <2>1. PrintPart(g, p, d) = g[p][d]
      BY <1>3, CellKinds DEF PrintPart
    <2>. QED BY <1>3, <2>1 DEF Prints
  <1>. QED BY <1>1, <1>2, <1>3 DEF Cells

\* One line, and what comes before it.
LineText(g, ps, d, i) == (IF i = 1 THEN <<>> ELSE <<Comma, "\n">>) \o PrintPart(g, ps[i], d)

LEMMA LinesIn ==
  ASSUME NEW g \in Prints, NEW ps \in Seq(Cells(Trees)), NEW d \in Nat
  PROVE  /\ Lines(g, ps, d) = FlattenSeq([i \in 1..Len(ps) |-> LineText(g, ps, d, i)])
         /\ [i \in 1..Len(ps) |-> LineText(g, ps, d, i)] \in Seq(Text)
         /\ Lines(g, ps, d) \in Text
  <1>1. DOMAIN ps = 1..Len(ps) /\ Len(ps) \in Nat /\ \A i \in 1..Len(ps) : ps[i] \in Cells(Trees)
    OBVIOUS
  <1>2. Lines(g, ps, d) = FlattenSeq([i \in 1..Len(ps) |-> LineText(g, ps, d, i)])
    BY <1>1, Zenon DEF Lines, LineText, Comma
  <1>3. \A i \in 1..Len(ps) : LineText(g, ps, d, i) \in Text
    <2>. SUFFICES ASSUME NEW i \in 1..Len(ps) PROVE LineText(g, ps, d, i) \in Text
      OBVIOUS
    <2>1. PrintPart(g, ps[i], d) \in Text
      BY <1>1, PartIn
    <2>2. (IF i = 1 THEN <<>> ELSE <<Comma, "\n">>) \in Text
      BY TextOf
    <2>. QED BY <2>1, <2>2, ConcatText DEF LineText
  <1>4. [i \in 1..Len(ps) |-> LineText(g, ps, d, i)] \in Seq(Text)
    BY <1>1, <1>3
  <1>. QED BY <1>2, <1>4, FlatIn DEF Text

\* One element of a list, and the list of the rest up to its parenthesis.
ElementText(g, kind, es, d, i) ==
  <<"\n">> \o Element(g, es[i], d + i) \o <<Comma, "\n">> \o Indent(d + i) \o <<kind, "(">>

LEMMA ElementIn ==
  ASSUME NEW g \in Prints, NEW e \in Trees \union {Null}, NEW d \in Nat
  PROVE  Element(g, e, d) \in Text
  <1>1. Kind["EField"] = "efield" /\ "EField" \in DOMAIN Kind
    BY DEF Kind
  <1>2. <<"efield", "(", ")">> \in Text
    BY <1>1, KindWord, TextOf
  <1>3. PrintPart(g, e, d) \in Text
    BY PartIn DEF Cells
  <1>. QED BY <1>2, <1>3 DEF Element

LEMMA ElementsIn ==
  ASSUME NEW g \in Prints, NEW kind \in Word, NEW es \in Seq(Trees \union {Null}), NEW d \in Nat
  PROVE  /\ \A i \in 1..Len(es) : ElementText(g, kind, es, d, i) \in Text
         /\ [i \in 1..Len(es) |-> ElementText(g, kind, es, d, i)] \in Seq(Text)
         /\ FlattenSeq([i \in 1..Len(es) |-> ElementText(g, kind, es, d, i)]) \in Text
  <1>1. \A i \in 1..Len(es) : ElementText(g, kind, es, d, i) \in Text
    <2>. SUFFICES ASSUME NEW i \in 1..Len(es) PROVE ElementText(g, kind, es, d, i) \in Text
      OBVIOUS
    <2>1. d + i \in Nat /\ es[i] \in Trees \union {Null}
      OBVIOUS
    <2>2. Element(g, es[i], d + i) \in Text /\ Indent(d + i) \in Text /\ <<kind, "(">> \in Text
      BY <2>1, ElementIn, TextOf
    <2>. QED BY <2>2, TextOf, ConcatText DEF ElementText
  <1>2. [i \in 1..Len(es) |-> ElementText(g, kind, es, d, i)] \in Seq(Text)
    BY <1>1
  <1>. QED BY <1>1, <1>2, FlatIn DEF Text

LEMMA ElementsAre ==
  ASSUME NEW n \in Trees, n.class \in Lists
  PROVE  /\ n.parts \in Seq(Trees \union {Null}) /\ n.parts \in Seq(Children(n) \union {Null})
         /\ \A j \in DOMAIN n.parts : n.parts[j] = Null => n.class = "EFieldList"
  <1>1. n.parts \in Seq(Cells(Children(n)))
    BY NodeIs
  <1>2. ASSUME NEW j \in DOMAIN n.parts
        PROVE  /\ n.parts[j] \in Trees \/ n.parts[j] = Null
               /\ n.parts[j] = Null => n.class = "EFieldList"
    <2>1. ElementOf[n.class] # "Symbol" /\ \A k : <<n.class, k>> \notin MayBeNull
      BY DEF Lists, ElementOf, MayBeNull, Optional
    <2>2. Sort(n, j) = ElementOf[n.class]
      BY DEF Sort
    <2>3. \/ n.parts[j] \in Trees
          \/ n.parts[j] = Null /\ n.class = "EFieldList"
      BY <2>1, <2>2, NodeIs DEF Fits, MayLack
    <2>4. n.parts[j] \in Trees => n.parts[j] # Null
      BY CellKinds
    <2>. QED BY <2>3, <2>4
  <1>3. \A j \in DOMAIN n.parts : n.parts[j] \in Children(n) \union {Null}
    BY <1>2 DEF Children
  <1>. QED BY <1>1, <1>2, <1>3

\* The parts of the text of a list.
LEMMA ListText ==
  ASSUME NEW g, NEW n \in Trees, n.class \in Lists, NEW d \in Nat
  PROVE  PrintList(g, n, d) =
           Indent(d) \o <<Kind[n.class], "(">>
           \o FlattenSeq([i \in 1..Len(n.parts) |-> ElementText(g, Kind[n.class], n.parts, d, i)])
           \o Closing(n)
  <1>1. DOMAIN n.parts = 1..Len(n.parts)
    BY ElementsAre
  <1>. QED BY <1>1, Zenon DEF PrintList, ElementText, Comma

LEMMA ClosingIn ==
  ASSUME NEW n \in Trees
  PROVE  Closing(n) \in Text /\ Len(Closing(n)) = Len(n.parts) + 1 /\ Len(n.parts) \in Nat
  <1>1. Len(n.parts) \in Nat
    BY NodeIs
  <1>2. ")" \in Word \union Marks
    BY DEF Marks
  <1>3. Closing(n) \in Seq(Word \union Marks) /\ Len(Closing(n)) = Len(n.parts) + 1
    BY <1>1, <1>2 DEF Closing
  <1>. QED BY <1>1, <1>3 DEF Text

\* The text of a node, when g prints the others.
Body(g, n, d) ==
  IF n.class \in Lists THEN PrintList(g, n, d)
  ELSE Indent(d) \o <<Kind[n.class], "(">> \o HeadWords(n)
       \o (IF Below(n) = <<>> THEN <<>> ELSE Break(n))
       \o Lines(g, Below(n), d + 1) \o <<")">>

LEMMA CellsGrow ==
  ASSUME NEW n \in Trees
  PROVE  Cells(Children(n)) \subseteq Cells(Trees) /\ Below(n) \in Seq(Cells(Trees))
  <1>1. Cells(Children(n)) \subseteq Cells(Trees)
    BY DEF Cells, Children
  <1>. QED BY <1>1, BelowIs, SeqMonotonic

LEMMA BodyIn ==
  ASSUME NEW g \in Prints, NEW n \in Trees, NEW d \in Nat
  PROVE  Body(g, n, d) \in Text
  <1>1. Kind[n.class] \in Word
    BY NodeIs, KindWord
  <1>2. Indent(d) \in Text /\ <<Kind[n.class], "(">> \in Text
    BY <1>1, TextOf
  <1>3. CASE n.class \in Lists
    <2>. DEFINE f == FlattenSeq([i \in 1..Len(n.parts) |->
                                   ElementText(g, Kind[n.class], n.parts, d, i)])
    <2>1. f \in Text
      BY <1>1, <1>3, ElementsAre, ElementsIn
    <2>2. Closing(n) \in Text
      BY ClosingIn
    <2>3. PrintList(g, n, d) = Indent(d) \o <<Kind[n.class], "(">> \o f \o Closing(n)
      BY <1>3, ListText
    <2>. HIDE DEF f
    <2>. QED BY <1>2, <1>3, <2>1, <2>2, <2>3, ConcatText DEF Body
  <1>4. CASE n.class \notin Lists
    <2>1. HeadWords(n) \in Text
      BY <1>4, HeadWordsIs, TextOf
    <2>2. Break(n) \in Text
      BY TextOf, ConcatText, BreakIs
    <2>3. Lines(g, Below(n), d + 1) \in Text
      <3>1. Below(n) \in Seq(Cells(Trees)) /\ d + 1 \in Nat
        BY CellsGrow
      <3>. QED BY <3>1, LinesIn
    <2>4. (IF Below(n) = <<>> THEN <<>> ELSE Break(n)) \in Text
      BY <2>2, TextOf
    <2>. QED BY <1>2, <1>4, <2>1, <2>3, <2>4, TextOf, ConcatText DEF Body
  <1>. QED BY <1>3, <1>4

\* The text of a node depends on what prints the nodes below it, and on no other.
LEMMA BodyAlike ==
  ASSUME NEW g, NEW h, NEW n \in Trees, NEW d \in Nat,
         \A c \in Children(n) : g[c] = h[c]
  PROVE  Body(g, n, d) = Body(h, n, d)
  <1>1. \A p \in Cells(Children(n)) : \A e : PrintPart(g, p, e) = PrintPart(h, p, e)
    <2>. SUFFICES ASSUME NEW p \in Cells(Children(n)), NEW e
                  PROVE  PrintPart(g, p, e) = PrintPart(h, p, e)
      OBVIOUS
    <2>1. CASE p = Null
      BY <2>1, CellKinds DEF PrintPart, Null
    <2>2. ASSUME NEW w \in Word, p = Symbol(w) PROVE PrintPart(g, p, e) = PrintPart(h, p, e)
      BY <2>2, CellKinds DEF PrintPart
    <2>3. CASE p \in Children(n)
      BY <2>3, CellKinds DEF PrintPart, Children
    <2>. QED BY <2>1, <2>2, <2>3 DEF Cells
  <1>2. CASE n.class \in Lists
    <2>. DEFINE E(f, i) == ElementText(f, Kind[n.class], n.parts, d, i)
    <2>1. \A i \in 1..Len(n.parts) : n.parts[i] \in Children(n) \union {Null}
      <3>1. n.parts \in Seq(Children(n) \union {Null})
        BY <1>2, ElementsAre
      <3>. QED BY <3>1, ElementOfSeq
    <2>2. \A i \in 1..Len(n.parts) : Element(g, n.parts[i], d + i) = Element(h, n.parts[i], d + i)
      BY <1>1, <2>1 DEF Element, Cells
    <2>3. \A i \in 1..Len(n.parts) : E(g, i) = E(h, i)
      BY <2>2 DEF ElementText
    <2>. HIDE DEF E
    <2>4. [i \in 1..Len(n.parts) |-> E(g, i)] = [i \in 1..Len(n.parts) |-> E(h, i)]
      BY <2>3
    <2>5. PrintList(g, n, d) = PrintList(h, n, d)
      <3>. DEFINE L(f) == [i \in 1..Len(n.parts) |-> E(f, i)]
      <3>1. \A f : PrintList(f, n, d) =
                     Indent(d) \o <<Kind[n.class], "(">> \o FlattenSeq(L(f)) \o Closing(n)
        <4>. SUFFICES ASSUME NEW f
                      PROVE  PrintList(f, n, d) = Indent(d) \o <<Kind[n.class], "(">>
                                                    \o FlattenSeq(L(f)) \o Closing(n)
          OBVIOUS
        <4>. QED BY <1>2, ListText DEF E
      <3>. HIDE DEF L
      <3>2. L(g) = L(h)
        BY <2>4 DEF L
      <3>. QED BY <3>1, <3>2
    <2>. QED BY <1>2, <2>5 DEF Body
  <1>3. CASE n.class \notin Lists
    <2>. DEFINE ps == Below(n)
    <2>1. ps \in Seq(Cells(Children(n))) /\ ps \in Seq(Cells(Trees))
      BY BelowIs, CellsGrow
    <2>. HIDE DEF ps
    <2>2. \A i \in 1..Len(ps) : PrintPart(g, ps[i], d + 1) = PrintPart(h, ps[i], d + 1)
      <3>1. \A i \in 1..Len(ps) : ps[i] \in Cells(Children(n))
        BY <2>1, ElementOfSeq
      <3>. QED BY <1>1, <3>1
    <2>3. DOMAIN ps = 1..Len(ps)
      BY <2>1
    <2>4. Lines(g, ps, d + 1) = Lines(h, ps, d + 1)
      BY <2>2, <2>3 DEF Lines
    <2>. QED BY <1>3, <2>4 DEF Body, ps
  <1>. QED BY <1>2, <1>3

\* PrintNode prints every node, out of what it prints for the nodes below.
LEMMA PrintNodeIs ==
  /\ PrintNode \in Prints
  /\ \A n \in Trees : \A d \in Nat : PrintNode[n][d] = Body(PrintNode, n, d)
  <1>. DEFINE V == [Nat -> Text]
              F == [n \in Trees |-> [g \in [Trees -> V] |-> [d \in Nat |-> Body(g, n, d)]]]
  <1>1. \A n \in Trees : \A g \in [Trees -> V] : [d \in Nat |-> Body(g, n, d)] \in V
    BY BodyIn DEF Prints
  <1>2. ASSUME NEW n \in Trees, NEW g \in [Trees -> V], NEW h \in [Trees -> V],
               \A c \in Children(n) : g[c] = h[c]
        PROVE  [d \in Nat |-> Body(g, n, d)] = [d \in Nat |-> Body(h, n, d)]
    <2>1. \A d \in Nat : Body(g, n, d) = Body(h, n, d)
      BY <1>2, BodyAlike DEF Prints
    <2>. QED BY <2>1
  <1>3. Recursive(V, F)
    <2>1. V # {}
      <3>1. [d \in Nat |-> <<>>] \in [Nat -> Text]
        BY TextOf
      <3>. QED BY <3>1
    <2>. HIDE DEF V
    <2>2. F \in [Trees -> [[Trees -> V] -> V]]
      BY <1>1
    <2>3. ASSUME NEW n \in Trees, NEW g \in [Trees -> V], NEW h \in [Trees -> V],
                 \A c \in Children(n) : g[c] = h[c]
          PROVE  F[n][g] = F[n][h]
      BY <1>2, <2>3
    <2>. HIDE DEF F
    <2>. QED BY <2>1, <2>2, <2>3 DEF Recursive
  <1>4. PICK f \in [Trees -> V] : \A n \in Trees : f[n] = [d \in Nat |-> Body(f, n, d)]
    <2>1. Solvable(V, F)
      <3>. HIDE DEF V, F
      <3>. QED BY <1>3, Recursion
    <2>. HIDE DEF V
    <2>. QED BY <2>1 DEF Solvable
  <1>5. f = [n \in Trees |-> [d \in Nat |-> Body(f, n, d)]]
    <2>. HIDE DEF V
    <2>. QED BY <1>4
  <1>. DEFINE Rec(g) == [n \in Trees |-> [d \in Nat |-> Body(g, n, d)]]
  <1>6. PrintNode = CHOOSE g : g = Rec(g)
    BY DEF PrintNode, Body
  <1>. HIDE DEF Rec
  <1>7. f = Rec(f)
    BY <1>5 DEF Rec
  <1>8. PrintNode = Rec(PrintNode)
    BY <1>6, <1>7
  <1>9. \A n \in Trees : PrintNode[n] = [d \in Nat |-> Body(PrintNode, n, d)]
    BY <1>8 DEF Rec
  <1>10. \A n \in Trees : \A d \in Nat : PrintNode[n][d] = Body(PrintNode, n, d)
    BY <1>9
  <1>11. \A n \in Trees : PrintNode[n] \in V
    <2>. DEFINE G == {n \in Trees : PrintNode[n] \in V}
    <2>1. ASSUME NEW n \in Trees, Children(n) \subseteq G PROVE n \in G
      <3>. DEFINE g == [c \in Trees |-> IF c \in G THEN PrintNode[c] ELSE f[c]]
      <3>1. g \in [Trees -> V]
        <4>. HIDE DEF V
        <4>. QED BY <1>4
      <3>2. \A c \in Children(n) : g[c] = PrintNode[c]
        BY <2>1 DEF Children
      <3>. HIDE DEF g
      <3>3. \A d \in Nat : Body(g, n, d) \in Text
        BY <3>1, BodyIn DEF Prints
      <3>4. \A d \in Nat : Body(g, n, d) = Body(PrintNode, n, d)
        BY <3>2, BodyAlike
      <3>5. PrintNode[n] = [d \in Nat |-> Body(g, n, d)]
        BY <1>9, <3>4
      <3>. QED BY <3>3, <3>5
    <2>2. Trees \subseteq G
      <3>. HIDE DEF G
      <3>. QED BY <2>1, TreeInduction
    <2>. QED BY <2>2
  <1>12. PrintNode \in Prints
    BY <1>8, <1>11 DEF Rec, Prints
  <1>. QED BY <1>10, <1>12

-----------------------------------------------------------------------------
(* The lines of a text *)

\* What a word adds to the parentheses open.
Turn(w) == IF w = "(" THEN 1 ELSE IF w = ")" THEN -1 ELSE 0

\* What a line can begin with where k parentheses are open.
LineAt(s, i, k) ==
  \/ s[i] \in {Comma, ")"}
  \/ i + 2 \in 1..Len(s) /\ s[i] = "efield" /\ s[i + 1] = "(" /\ s[i + 2] = ")"
  \/ i + k + 1 \in 1..Len(s) /\ s[i + k + 1] # Blank /\ \A j \in i..(i + k) : s[j] = Blank

\* f counts the parentheses open before each word of s, where k are open before it.
Depths(f, s, k) ==
  /\ f \in [1..(Len(s) + 1) -> Int] /\ f[1] = k
  /\ \A i \in 1..Len(s) : f[i + 1] = f[i] + Turn(s[i])

\* Every line of s is as it should be, that at p among them.
Lined(s, p, f) == \A i \in 1..Len(s) : i = p \/ (i > 1 /\ s[i - 1] = "\n") => LineAt(s, i, f[i])

\* A piece of a text before which k parentheses are open, and e behind it.  It may be
\* where a line begins if p is 1.
Laid(p, s, k, e) == \E f : Depths(f, s, k) /\ f[Len(s) + 1] = e /\ Lined(s, p, f)

LEMMA TurnIs == \A w : Turn(w) \in Int
  BY DEF Turn

\* A line does not care what comes after the text it is in, or before.
LEMMA LineAtConcat ==
  ASSUME NEW s \in Text, NEW t \in Text, NEW k \in Int
  PROVE  /\ \A i \in 1..Len(s) : LineAt(s, i, k) => LineAt(s \o t, i, k)
         /\ \A i \in 1..Len(t) : LineAt(t, i, k) => LineAt(s \o t, Len(s) + i, k)
  <1>1. /\ Len(s) \in Nat /\ Len(t) \in Nat /\ Len(s \o t) = Len(s) + Len(t)
        /\ \A i \in 1..Len(s) : (s \o t)[i] = s[i]
        /\ \A i \in 1..Len(t) : (s \o t)[Len(s) + i] = t[i]
    BY DEF Text
  <1>. DEFINE u == s \o t
              m == Len(s)
  <1>. HIDE DEF u
  <1>2. ASSUME NEW i \in 1..Len(s), LineAt(s, i, k) PROVE LineAt(u, i, k)
    <2>1. CASE s[i] \in {Comma, ")"}
      BY <1>1, <2>1 DEF LineAt, u
    <2>2. CASE i + 2 \in 1..Len(s) /\ s[i] = "efield" /\ s[i + 1] = "(" /\ s[i + 2] = ")"
      <3>1. i + 1 \in 1..Len(s) /\ i + 2 \in 1..Len(u)
        BY <1>1, <2>2 DEF u
      <3>. QED BY <1>1, <2>2, <3>1 DEF LineAt, u
    <2>3. CASE i + k + 1 \in 1..Len(s) /\ s[i + k + 1] # Blank /\ \A j \in i..(i + k) : s[j] = Blank
      <3>0. i + k + 1 \in 1..Len(s)
        BY <2>3
      <3>1. i + k + 1 \in 1..Len(u) /\ \A j \in i..(i + k) : j \in 1..Len(s)
        BY <1>1, <3>0 DEF u
      <3>2. u[i + k + 1] = s[i + k + 1] /\ \A j \in i..(i + k) : u[j] = s[j]
        BY <1>1, <2>3, <3>1 DEF u
      <3>. QED BY <2>3, <3>1, <3>2 DEF LineAt
    <2>. QED BY <1>2, <2>1, <2>2, <2>3 DEF LineAt
  <1>3. ASSUME NEW i \in 1..Len(t), LineAt(t, i, k) PROVE LineAt(u, m + i, k)
    <2>1. CASE t[i] \in {Comma, ")"}
      BY <1>1, <2>1 DEF LineAt, u
    <2>2. CASE i + 2 \in 1..Len(t) /\ t[i] = "efield" /\ t[i + 1] = "(" /\ t[i + 2] = ")"
      <3>1. i + 1 \in 1..Len(t) /\ (m + i) + 2 \in 1..Len(u)
            /\ (m + i) + 1 = m + (i + 1) /\ (m + i) + 2 = m + (i + 2)
        BY <1>1, <2>2 DEF u
      <3>2. u[m + i] = t[i] /\ u[(m + i) + 1] = t[i + 1] /\ u[(m + i) + 2] = t[i + 2]
        BY <1>1, <2>2, <3>1 DEF u
      <3>. QED BY <2>2, <3>1, <3>2 DEF LineAt
    <2>3. CASE i + k + 1 \in 1..Len(t) /\ t[i + k + 1] # Blank /\ \A j \in i..(i + k) : t[j] = Blank
      <3>0. i + k + 1 \in 1..Len(t)
        BY <2>3
      <3>1. (m + i) + k + 1 = m + (i + k + 1) /\ (m + i) + k + 1 \in 1..Len(u)
        BY <1>1, <3>0 DEF u
      <3>2. u[(m + i) + k + 1] = t[i + k + 1]
        BY <1>1, <2>3, <3>1 DEF u
      <3>3. ASSUME NEW j \in (m + i)..((m + i) + k) PROVE u[j] = Blank
        <4>1. j - m \in i..(i + k) /\ j - m \in 1..Len(t) /\ m + (j - m) = j
          BY <1>1, <3>0
        <4>2. u[m + (j - m)] = t[j - m]
          BY <1>1, <4>1 DEF u
        <4>. QED BY <2>3, <4>1, <4>2
      <3>. QED BY <2>3, <3>1, <3>2, <3>3 DEF LineAt
    <2>. QED BY <1>3, <2>1, <2>2, <2>3 DEF LineAt
  <1>. QED BY <1>2, <1>3 DEF u

\* Two pieces make one, if the second begins a line that may.
LEMMA LaidConcat ==
  ASSUME NEW s \in Text, NEW t \in Text, NEW k \in Int, NEW m \in Int, NEW e \in Int,
         NEW q \in {0, 1}, NEW p \in {0, 1}, Laid(q, s, k, m), Laid(p, t, m, e),
         p = 1 \/ (s # <<>> /\ s[Len(s)] # "\n")
  PROVE  Laid(q, s \o t, k, e)
  <1>1. PICK f : Depths(f, s, k) /\ f[Len(s) + 1] = m /\ Lined(s, q, f)
    BY DEF Laid
  <1>2. PICK g : Depths(g, t, m) /\ g[Len(t) + 1] = e /\ Lined(t, p, g)
    BY DEF Laid
  <1>. DEFINE u == s \o t
              a == Len(s)
              b == Len(t)
              h == [i \in 1..(a + b + 1) |-> IF i <= a THEN f[i] ELSE g[i - a]]
  <1>3. /\ a \in Nat /\ b \in Nat /\ Len(u) = a + b /\ u \in Text
        /\ \A i \in 1..a : u[i] = s[i]
        /\ \A i \in 1..b : u[a + i] = t[i]
    BY DEF Text
  <1>. HIDE DEF u, a, b
  <1>4. f \in [1..(a + 1) -> Int] /\ f[1] = k /\ \A i \in 1..a : f[i + 1] = f[i] + Turn(s[i])
    BY <1>1 DEF Depths, a
  <1>5. g \in [1..(b + 1) -> Int] /\ g[1] = m /\ \A i \in 1..b : g[i + 1] = g[i] + Turn(t[i])
    BY <1>2 DEF Depths, b
  <1>6. f[a + 1] = m /\ g[b + 1] = e
    BY <1>1, <1>2 DEF a, b
  <1>7. /\ \A i \in 1..(a + 1) : h[i] = f[i]
        /\ \A i \in 1..(b + 1) : h[a + i] = g[i]
    <2>1. ASSUME NEW i \in 1..(a + 1) PROVE h[i] = f[i]
      <3>1. i \in 1..(a + b + 1)
        BY <1>3
      <3>2. CASE i <= a
        BY <3>1, <3>2
      <3>3. CASE ~(i <= a)
        <4>1. i = a + 1 /\ i - a = 1
          BY <1>3, <3>3
        <4>. QED BY <1>5, <1>6, <3>1, <3>3, <4>1
      <3>. QED BY <3>2, <3>3
    <2>2. ASSUME NEW i \in 1..(b + 1) PROVE h[a + i] = g[i]
      <3>1. a + i \in 1..(a + b + 1) /\ ~(a + i <= a) /\ (a + i) - a = i
        BY <1>3
      <3>. QED BY <3>1
    <2>. QED BY <2>1, <2>2
  <1>8. h \in [1..(a + b + 1) -> Int]
    <2>1. ASSUME NEW i \in 1..(a + b + 1)
          PROVE  (IF i <= a THEN f[i] ELSE g[i - a]) \in Int
      <3>1. CASE i <= a
        BY <1>3, <1>4, <3>1
      <3>2. CASE ~(i <= a)
        <4>1. i - a \in 1..(b + 1)
          BY <1>3, <3>2
        <4>. QED BY <1>5, <3>2, <4>1
      <3>. QED BY <3>1, <3>2
    <2>. QED BY <2>1
  <1>. HIDE DEF h
  <1>9. Depths(h, u, k)
    <2>1. h[1] = k
      BY <1>3, <1>4, <1>7
    <2>2. ASSUME NEW i \in 1..(a + b) PROVE h[i + 1] = h[i] + Turn(u[i])
      <3>1. CASE i <= a
        <4>1. i \in 1..a /\ i \in 1..(a + 1) /\ i + 1 \in 1..(a + 1)
          BY <1>3, <3>1
        <4>. QED BY <1>3, <1>4, <1>7, <4>1
      <3>2. CASE ~(i <= a)
        <4>. DEFINE j == i - a
        <4>1. j \in 1..b /\ j \in 1..(b + 1) /\ j + 1 \in 1..(b + 1) /\ a + j = i
              /\ a + (j + 1) = i + 1
          BY <1>3, <3>2
        <4>. HIDE DEF j
        <4>2. h[a + j] = g[j] /\ h[a + (j + 1)] = g[j + 1] /\ u[a + j] = t[j]
          BY <1>3, <1>7, <4>1
        <4>3. g[j + 1] = g[j] + Turn(t[j])
          BY <1>5, <4>1
        <4>4. h[i] = g[j] /\ h[i + 1] = g[j + 1] /\ u[i] = t[j]
          BY <4>1, <4>2
        <4>. QED BY <4>3, <4>4
      <3>. QED BY <3>1, <3>2
    <2>. QED BY <1>3, <1>8, <2>1, <2>2 DEF Depths
  <1>10. h[Len(u) + 1] = e
    <2>1. b + 1 \in 1..(b + 1) /\ a + (b + 1) = Len(u) + 1
      BY <1>3
    <2>. QED BY <1>6, <1>7, <2>1
  <1>11. Lined(u, q, h)
    <2>. SUFFICES ASSUME NEW i \in 1..Len(u), i = q \/ (i > 1 /\ u[i - 1] = "\n")
                  PROVE  LineAt(u, i, h[i])
      BY DEF Lined
    <2>1. CASE i <= a
      <3>1. i \in 1..a /\ i \in 1..(a + 1) /\ h[i] = f[i] /\ f[i] \in Int
        <4>1. i \in 1..a /\ i \in 1..(a + 1)
          BY <1>3, <2>1
        <4>2. h[i] = f[i]
          BY <1>7, <4>1
        <4>3. f[i] \in Int
          BY <1>4, <4>1
        <4>. QED BY <4>1, <4>2, <4>3
      <3>2. i > 1 => u[i - 1] = s[i - 1]
        BY <1>3, <3>1
      <3>3. LineAt(s, i, f[i])
        BY <1>1, <3>1, <3>2 DEF Lined, a
      <3>. QED BY <3>1, <3>3, LineAtConcat DEF u, a
    <2>2. CASE ~(i <= a)
      <3>. DEFINE j == i - a
      <3>1. j \in 1..b /\ j \in 1..(b + 1) /\ a + j = i
        BY <1>3, <2>2
      <3>. HIDE DEF j
      <3>2. h[i] = g[j] /\ g[j] \in Int
        BY <1>5, <1>7, <3>1
      <3>3. j = p \/ (j > 1 /\ t[j - 1] = "\n")
        <4>1. CASE j = 1
          <5>1. CASE p = 1
            BY <4>1, <5>1
          <5>2. CASE p # 1
            <6>1. s # <<>> /\ s[a] # "\n"
              BY <5>2 DEF a
            <6>2. a # 0
              BY <6>1, EmptySeq DEF a, Text
            <6>3. i = a + 1 /\ a \in 1..a /\ i # q /\ i - 1 = a
              BY <1>3, <3>1, <4>1, <6>2
            <6>4. u[i - 1] = s[a]
              BY <1>3, <6>3
            <6>. QED BY <6>1, <6>3, <6>4
          <5>. QED BY <5>1, <5>2
        <4>2. CASE j # 1
          <5>1. j > 1 /\ j - 1 \in 1..b /\ a + (j - 1) = i - 1 /\ i # q /\ i > 1
            BY <1>3, <3>1, <4>2
          <5>2. u[i - 1] = t[j - 1]
            BY <1>3, <5>1
          <5>. QED BY <5>1, <5>2
        <4>. QED BY <4>1, <4>2
      <3>4. LineAt(t, j, g[j])
        BY <1>2, <3>1, <3>3 DEF Lined, b
      <3>5. LineAt(u, a + j, g[j])
        BY <3>1, <3>2, <3>4, LineAtConcat DEF u, a, b
      <3>. QED BY <3>1, <3>2, <3>5
    <2>. QED BY <2>1, <2>2
  <1>. QED BY <1>9, <1>10, <1>11 DEF Laid, u

-----------------------------------------------------------------------------
(* How a text is laid out *)

LEMMA LaidNothing ==
  ASSUME NEW k \in Int
  PROVE  Laid(1, <<>>, k, k)
  <1>. DEFINE f == [i \in 1..1 |-> k]
  <1>1. Len(<<>>) = 0 /\ 0 + 1 = 1 /\ 1..0 = {} /\ f \in [1..1 -> Int] /\ f[1] = k
    OBVIOUS
  <1>. HIDE DEF f
  <1>2. Depths(f, <<>>, k) /\ Lined(<<>>, 1, f) /\ f[Len(<<>>) + 1] = k
    BY <1>1 DEF Depths, Lined
  <1>. QED BY <1>2 DEF Laid

LEMMA One == \A w : Len(<<w>>) = 1 /\ <<w>>[1] = w /\ <<w>> # <<>>
  OBVIOUS

LEMMA Pair == \A v, w : <<v>> \o <<w>> = <<v, w>>
  <1>. SUFFICES ASSUME NEW v, NEW w PROVE <<v>> \o <<w>> = <<v, w>>
    OBVIOUS
  <1>. DEFINE S == {v, w}
              s == <<v>>
              t == <<w>>
              u == <<v, w>>
  <1>1. s \in Seq(S) /\ t \in Seq(S) /\ u \in Seq(S)
    OBVIOUS
  <1>2. Len(s) = 1 /\ Len(t) = 1 /\ Len(u) = 2 /\ s[1] = v /\ t[1] = w /\ u[1] = v /\ u[2] = w
    OBVIOUS
  <1>. HIDE DEF S, s, t, u
  <1>3. s \o t \in Seq(S) /\ Len(s \o t) = 2 /\ (s \o t)[1] = v /\ (s \o t)[2] = w
    BY <1>1, <1>2, ConcatProperties
  <1>4. \A i \in 1..2 : i = 1 \/ i = 2
    OBVIOUS
  <1>5. \A i \in 1..2 : (s \o t)[i] = u[i]
    BY <1>2, <1>3, <1>4
  <1>6. s \o t = u
    BY <1>1, <1>2, <1>3, <1>5, SeqEqual
  <1>. QED BY <1>6 DEF s, t, u

\* A word within a line.
LEMMA LaidWord ==
  ASSUME NEW w, NEW k \in Int
  PROVE  Laid(0, <<w>>, k, k + Turn(w))
  <1>. DEFINE f == [i \in 1..2 |-> IF i = 1 THEN k ELSE k + Turn(w)]
  <1>1. f \in [1..2 -> Int] /\ f[1] = k /\ f[2] = k + Turn(w) /\ Turn(w) \in Int
    BY TurnIs
  <1>2. Len(<<w>>) = 1 /\ 1 + 1 = 2 /\ <<w>>[1] = w /\ \A i \in 1..1 : i = 1
    OBVIOUS
  <1>. HIDE DEF f
  <1>3. Depths(f, <<w>>, k)
    BY <1>1, <1>2 DEF Depths
  <1>4. Lined(<<w>>, 0, f)
    BY <1>2 DEF Lined
  <1>. QED BY <1>1, <1>2, <1>3, <1>4 DEF Laid

\* A comma or a closing parenthesis is fine where a line begins.
LEMMA LaidMark ==
  ASSUME NEW w \in {Comma, ")"}, NEW k \in Int
  PROVE  Laid(1, <<w>>, k, k + Turn(w))
  <1>1. PICK f : Depths(f, <<w>>, k) /\ f[Len(<<w>>) + 1] = k + Turn(w) /\ Lined(<<w>>, 0, f)
    BY LaidWord DEF Laid
  <1>2. \A i \in 1..1 : i = 1
    OBVIOUS
  <1>3. Lined(<<w>>, 1, f)
    BY <1>2, One DEF Lined, LineAt
  <1>. QED BY <1>1, <1>3 DEF Laid

LEMMA MarkTurns == Turn(Comma) = 0 /\ Turn("\n") = 0 /\ Turn("(") = 1 /\ Turn(")") = -1
  BY MarksAre DEF Turn

LEMMA BlankTurn == Turn(Blank) = 0
  BY MarksAre DEF Turn

LEMMA WordTurns == \A w \in Word : Turn(w) = 0 /\ w # "\n" /\ w # "(" /\ w # ")" /\ w # Comma
  <1>1. \A w \in Word : w # "\n" /\ w # "(" /\ w # ")" /\ w # Comma
    BY WordsAreNoMarks, MarksAre
  <1>. QED BY <1>1 DEF Turn

LEMMA WordsAreNoBlanks == \A w \in Word : w # Blank
  BY WordsAreNoMarks, MarksAre

\* The blanks and a word after them.
LEMMA LaidIndent ==
  ASSUME NEW w \in Word, NEW d \in Nat
  PROVE  /\ Laid(1, Indent(d) \o <<w>>, d, d) /\ Indent(d) \o <<w>> \in Text
         /\ Indent(d) \o <<w>> # <<>>
         /\ (Indent(d) \o <<w>>)[Len(Indent(d) \o <<w>>)] = w
  <1>. DEFINE s == Indent(d) \o <<w>>
              f == [i \in 1..(d + 3) |-> d]
  <1>1. Indent(d) \in Text /\ <<w>> \in Text
    BY TextOf
  <1>2. Len(Indent(d)) = d + 1 /\ \A i \in 1..(d + 1) : Indent(d)[i] = Blank
    BY IndentIs
  <1>3. Len(<<w>>) = 1 /\ <<w>>[1] = w
    OBVIOUS
  <1>4. /\ s \in Text /\ Len(s) = d + 2 /\ s[d + 2] = w
        /\ \A i \in 1..(d + 1) : s[i] = Indent(d)[i]
    <2>1. /\ s \in Text /\ Len(s) = Len(Indent(d)) + Len(<<w>>)
          /\ \A i \in 1..(Len(Indent(d)) + Len(<<w>>)) :
               s[i] = IF i <= Len(Indent(d)) THEN Indent(d)[i] ELSE <<w>>[i - Len(Indent(d))]
      BY <1>1, ConcatProperties DEF Text
    <2>2. Len(Indent(d)) = d + 1
      BY <1>2
    <2>. HIDE DEF s
    <2>. QED BY <1>3, <2>1, <2>2
  <1>. HIDE DEF s
  <1>5. \A i \in 1..(d + 1) : s[i] = Blank
    BY <1>2, <1>4
  <1>6. ASSUME NEW i \in 1..(d + 2) PROVE Turn(s[i]) = 0
    <2>1. i = d + 2 \/ i \in 1..(d + 1)
      OBVIOUS
    <2>. QED BY <1>4, <1>5, <2>1, WordTurns, BlankTurn
  <1>7. Depths(f, s, d)
    BY <1>4, <1>6 DEF Depths
  <1>8. Lined(s, 1, f)
    <2>. SUFFICES ASSUME NEW i \in 1..(d + 2), i = 1 \/ (i > 1 /\ s[i - 1] = "\n")
                  PROVE  LineAt(s, i, f[i])
      BY <1>4 DEF Lined
    <2>1. i = 1
      <3>1. i > 1 => i - 1 \in 1..(d + 1)
        OBVIOUS
      <3>2. Blank # "\n"
        BY MarksAre
      <3>. QED BY <1>5, <3>1, <3>2
    <2>2. f[1] = d /\ 1 + d + 1 = d + 2 /\ 1 + d = d + 1 /\ d + 2 \in 1..(d + 2)
      OBVIOUS
    <2>3. s[d + 2] # Blank
      BY <1>4, WordsAreNoBlanks
    <2>4. 1 + d + 1 \in 1..Len(s) /\ s[1 + d + 1] # Blank
      BY <1>4, <2>2, <2>3
    <2>5. \A j \in 1..(1 + d) : s[j] = Blank
      BY <1>5, <2>2
    <2>6. LineAt(s, 1, d)
      BY <2>4, <2>5 DEF LineAt
    <2>. QED BY <2>1, <2>2, <2>6
  <1>9. f[Len(s) + 1] = d
    BY <1>4
  <1>10. s # <<>> /\ s[Len(s)] = w
    BY <1>4
  <1>11. Laid(1, s, d, d)
    <2>. HIDE DEF f
    <2>. QED BY <1>7, <1>8, <1>9 DEF Laid
  <1>. QED BY <1>4, <1>10, <1>11 DEF s

\* An absent field.
LEMMA LaidNullField ==
  ASSUME NEW k \in Int
  PROVE  Laid(1, <<"efield", "(", ")">>, k, k)
  <1>. DEFINE s == <<"efield", "(", ")">>
              f == [i \in 1..4 |-> IF i = 3 THEN k + 1 ELSE k]
  <1>1. Len(s) = 3 /\ s[1] = "efield" /\ s[2] = "(" /\ s[3] = ")"
    OBVIOUS
  <1>2. Turn("efield") = 0
    BY DEF Turn
  <1>3. f \in [1..4 -> Int] /\ f[1] = k /\ f[2] = k /\ f[3] = k + 1 /\ f[4] = k
    OBVIOUS
  <1>. HIDE DEF s, f
  <1>4. Depths(f, s, k)
    <2>1. ASSUME NEW i \in 1..3 PROVE f[i + 1] = f[i] + Turn(s[i])
      <3>1. CASE i = 1
        BY <1>1, <1>2, <1>3, <3>1
      <3>2. CASE i = 2
        <4>1. Turn(s[2]) = 1 /\ f[2 + 1] = k + 1
          BY <1>1, <1>3, MarkTurns
        <4>. QED BY <1>3, <3>2, <4>1
      <3>3. CASE i = 3
        <4>1. Turn(s[3]) = -1 /\ f[3 + 1] = k
          BY <1>1, <1>3, MarkTurns
        <4>. QED BY <1>3, <3>3, <4>1
      <3>. QED BY <3>1, <3>2, <3>3
    <2>. QED BY <1>1, <1>3, <2>1 DEF Depths
  <1>5. Lined(s, 1, f)
    <2>. SUFFICES ASSUME NEW i \in 1..3, i = 1 \/ (i > 1 /\ s[i - 1] = "\n")
                  PROVE  LineAt(s, i, f[i])
      BY <1>1 DEF Lined
    <2>1. i = 1 \/ i = 2 \/ i = 3
      OBVIOUS
    <2>2. "efield" # "\n" /\ "(" # "\n"
      OBVIOUS
    <2>3. i = 1
      BY <1>1, <2>1, <2>2
    <2>4. 1 + 2 \in 1..Len(s) /\ s[1] = "efield" /\ s[1 + 1] = "(" /\ s[1 + 2] = ")"
      BY <1>1
    <2>. QED BY <2>3, <2>4 DEF LineAt
  <1>. QED BY <1>1, <1>3, <1>4, <1>5 DEF Laid, s

\* The end of a list closes what is open.
LEMMA LaidClosing ==
  ASSUME NEW k \in Int, NEW m \in Nat
  PROVE  Laid(1, [i \in 1..m |-> ")"], k, k - m)
  <1>. DEFINE s == [i \in 1..m |-> ")"]
              f == [i \in 1..(m + 1) |-> (k + 1) - i]
  <1>1. Len(s) = m /\ \A i \in 1..m : s[i] = ")"
    OBVIOUS
  <1>2. /\ f \in [1..(m + 1) -> Int] /\ f[1] = k /\ f[m + 1] = k - m
        /\ \A i \in 1..m : f[i + 1] = f[i] + (-1)
    OBVIOUS
  <1>. HIDE DEF s, f
  <1>3. Depths(f, s, k)
    BY <1>1, <1>2, MarkTurns DEF Depths
  <1>4. Lined(s, 1, f)
    BY <1>1 DEF Lined, LineAt
  <1>. QED BY <1>1, <1>2, <1>3, <1>4 DEF Laid, s

\* Pieces that leave as many parentheses open as there were.
LEMMA LaidFlat ==
  ASSUME NEW k \in Int, NEW ss \in Seq(Text), \A i \in 1..Len(ss) : Laid(1, ss[i], k, k)
  PROVE  Laid(1, FlattenSeq(ss), k, k)
  <1>. DEFINE S == {t \in Text : Laid(1, t, k, k)}
              G == {tt \in Seq(S) : FlattenSeq(tt) \in S}
  <1>1. ss \in Seq(S)
    <2>1. \A i \in 1..Len(ss) : ss[i] \in S
      OBVIOUS
    <2>. HIDE DEF S
    <2>. QED BY <2>1
  <1>2. <<>> \in G
    BY LaidNothing, FlatNone, TextOf, EmptySeq
  <1>3. ASSUME NEW tt \in Seq(S), tt \in G, NEW t \in S PROVE Append(tt, t) \in G
    <2>1. tt \in Seq(Text) /\ t \in Text /\ FlattenSeq(tt) \in Text
          /\ Laid(1, FlattenSeq(tt), k, k) /\ Laid(1, t, k, k)
      <3>1. S \subseteq Text
        OBVIOUS
      <3>2. tt \in Seq(Text)
        <4>. HIDE DEF S
        <4>. QED BY <3>1, SeqMonotonic
      <3>. QED BY <1>3, <3>2
    <2>2. FlattenSeq(Append(tt, t)) = FlattenSeq(tt) \o t
      BY <2>1, FlatStep DEF Text
    <2>3. Laid(1, FlattenSeq(tt) \o t, k, k)
      BY <2>1, LaidConcat
    <2>4. FlattenSeq(tt) \o t \in Text
      BY <2>1, ConcatText
    <2>5. Append(tt, t) \in Seq(S)
      <3>. HIDE DEF S
      <3>. QED BY AppendProperties
    <2>. QED BY <2>2, <2>3, <2>4, <2>5
  <1>4. Seq(S) \subseteq G
    <2>. HIDE DEF G, S
    <2>. QED BY <1>2, <1>3, SeqInduction
  <1>. QED BY <1>1, <1>4

\* What PrintPart prints for each kind of cell.
LEMMA PartIs ==
  ASSUME NEW g, NEW d
  PROVE  /\ PrintPart(g, Null, d) = <<>>
         /\ \A w : PrintPart(g, Symbol(w), d) = Indent(d) \o <<w>>
         /\ \A p \in Trees : PrintPart(g, p, d) = g[p][d]
  <1>1. PrintPart(g, Null, d) = <<>>
    BY CellKinds DEF PrintPart, Null
  <1>2. \A w : PrintPart(g, Symbol(w), d) = Indent(d) \o <<w>>
    BY CellKinds DEF PrintPart
  <1>3. \A p \in Trees : PrintPart(g, p, d) = g[p][d]
    BY CellKinds DEF PrintPart
  <1>. QED BY <1>1, <1>2, <1>3

\* A node is laid out at every depth as its depth requires.
LaidTree(n) == \A d \in Nat : Laid(1, PrintNode[n][d], d, d)

LEMMA LaidPart ==
  ASSUME NEW T, T \subseteq Trees, \A c \in T : LaidTree(c), NEW p \in Cells(T), NEW d \in Nat
  PROVE  Laid(1, PrintPart(PrintNode, p, d), d, d)
  <1>1. CASE p = Null
    BY <1>1, PartIs, LaidNothing
  <1>2. ASSUME NEW w \in Word, p = Symbol(w) PROVE Laid(1, PrintPart(PrintNode, p, d), d, d)
    <2>1. PrintPart(PrintNode, p, d) = Indent(d) \o <<w>>
      BY <1>2, PartIs
    <2>2. Laid(1, Indent(d) \o <<w>>, d, d)
      BY LaidIndent
    <2>. QED BY <2>1, <2>2
  <1>3. CASE p \in T
    <2>1. PrintPart(PrintNode, p, d) = PrintNode[p][d]
      BY <1>3, PartIs
    <2>. QED BY <1>3, <2>1 DEF LaidTree
  <1>. QED BY <1>1, <1>2, <1>3 DEF Cells

\* A comma and the newline after it.
LEMMA LaidComma ==
  ASSUME NEW k \in Int
  PROVE  /\ Laid(1, <<Comma, "\n">>, k, k) /\ <<Comma, "\n">> \in Text
         /\ Laid(0, <<"\n">>, k, k) /\ <<"\n">> \in Text
  <1>1. Laid(1, <<Comma>>, k, k + Turn(Comma)) /\ Laid(0, <<"\n">>, k, k + Turn("\n"))
    BY LaidMark, LaidWord
  <1>2. Laid(1, <<Comma>>, k, k) /\ Laid(0, <<"\n">>, k, k)
    <2>1. k + Turn(Comma) = k /\ k + Turn("\n") = k
      BY MarkTurns
    <2>. QED BY <1>1, <2>1
  <1>3. <<Comma>> # <<>> /\ <<Comma>>[Len(<<Comma>>)] # "\n"
    <2>1. <<Comma>>[Len(<<Comma>>)] = Comma
      BY One
    <2>2. Len(<<Comma>>) = 1 /\ Len(<<>>) = 0
      BY One
    <2>. QED BY <2>1, <2>2, MarksAre
  <1>4. Laid(1, <<Comma>> \o <<"\n">>, k, k)
    BY <1>2, <1>3, TextOf, LaidConcat
  <1>5. <<Comma>> \o <<"\n">> = <<Comma, "\n">>
    BY Pair
  <1>. QED BY <1>2, <1>4, <1>5, TextOf

LEMMA LaidLines ==
  ASSUME NEW n \in Trees, \A c \in Children(n) : LaidTree(c), NEW d \in Nat
  PROVE  /\ Laid(1, Lines(PrintNode, Below(n), d), d, d)
         /\ Lines(PrintNode, Below(n), d) \in Text
  <1>. DEFINE ps == Below(n)
              text(i) == LineText(PrintNode, ps, d, i)
              ss == [i \in 1..Len(ps) |-> text(i)]
  <1>1. ps \in Seq(Cells(Children(n))) /\ ps \in Seq(Cells(Trees)) /\ Children(n) \subseteq Trees
    BY BelowIs, CellsGrow DEF Children
  <1>2. PrintNode \in Prints
    BY PrintNodeIs
  <1>. HIDE DEF ps
  <1>3. Lines(PrintNode, ps, d) = FlattenSeq(ss) /\ ss \in Seq(Text)
        /\ Lines(PrintNode, ps, d) \in Text
    BY <1>1, <1>2, LinesIn
  <1>4. ASSUME NEW i \in 1..Len(ps) PROVE Laid(1, text(i), d, d)
    <2>1. ps[i] \in Cells(Children(n)) /\ ps[i] \in Cells(Trees)
      BY <1>1, ElementOfSeq
    <2>2. Laid(1, PrintPart(PrintNode, ps[i], d), d, d) /\ PrintPart(PrintNode, ps[i], d) \in Text
      BY <1>1, <1>2, <2>1, LaidPart, PartIn
    <2>. DEFINE before == IF i = 1 THEN <<>> ELSE <<Comma, "\n">>
                part == PrintPart(PrintNode, ps[i], d)
    <2>3. d \in Int
      OBVIOUS
    <2>4. Laid(1, before, d, d) /\ before \in Text
      BY <2>3, LaidComma, LaidNothing, TextOf
    <2>5. text(i) = before \o part
      BY DEF LineText
    <2>. HIDE DEF before, text, part
    <2>6. Laid(1, part, d, d) /\ part \in Text
      BY <2>2 DEF part
    <2>7. Laid(1, before \o part, d, d)
      BY <2>3, <2>4, <2>6, LaidConcat
    <2>. QED BY <2>5, <2>7
  <1>5. Laid(1, FlattenSeq(ss), d, d)
    <2>. HIDE DEF text
    <2>1. Len(ss) = Len(ps) /\ \A i \in 1..Len(ps) : ss[i] = text(i)
      BY <1>1
    <2>2. \A i \in 1..Len(ss) : Laid(1, ss[i], d, d)
      BY <1>4, <2>1
    <2>. HIDE DEF ss
    <2>. QED BY <1>3, <2>2, LaidFlat
  <1>. QED BY <1>3, <1>5 DEF ps

\* What ends within a line.
Inline(s) == s # <<>> /\ s[Len(s)] # "\n"

LEMMA InlineConcat ==
  ASSUME NEW s \in Text, NEW t \in Text, Inline(t)
  PROVE  Inline(s \o t)
  <1>1. Len(s) \in Nat /\ Len(t) \in Nat /\ Len(t) # 0
    BY EmptySeq DEF Inline, Text
  <1>2. Len(s \o t) = Len(s) + Len(t) /\ (s \o t)[Len(s) + Len(t)] = t[Len(t)]
    BY <1>1, ConcatProperties DEF Text
  <1>3. s \o t # <<>>
    BY <1>1, <1>2
  <1>. QED BY <1>2, <1>3 DEF Inline

\* The line of a class, up to the parenthesis.
LEMMA LaidOpen ==
  ASSUME NEW w \in Word, NEW d \in Nat
  PROVE  /\ Laid(1, Indent(d) \o <<w, "(">>, d, d + 1)
         /\ Inline(Indent(d) \o <<w, "(">>) /\ Indent(d) \o <<w, "(">> \in Text
  <1>. DEFINE s == Indent(d) \o <<w>>
              t == <<"(">>
  <1>1. Laid(1, s, d, d) /\ s \in Text /\ s # <<>> /\ s[Len(s)] = w
    BY LaidIndent
  <1>2. s[Len(s)] # "\n"
    BY <1>1, WordTurns
  <1>3. Laid(0, t, d, d + 1)
    <2>1. Laid(0, t, d, d + Turn("("))
      BY LaidWord
    <2>2. d + Turn("(") = d + 1
      BY MarkTurns
    <2>. QED BY <2>1, <2>2
  <1>4. t \in Text /\ Inline(t)
    <2>1. "(" \in Word \union Marks
      BY MarksAre
    <2>2. <<"(">> \in Seq(Word \union Marks)
      BY <2>1, Few
    <2>3. <<"(">>[Len(<<"(">>)] = "(" /\ <<"(">> # <<>>
      OBVIOUS
    <2>. QED BY <2>2, <2>3 DEF Text, Inline
  <1>5. Indent(d) \o <<w, "(">> = s \o t
    <2>1. Indent(d) \in Text /\ <<w>> \in Text /\ t \in Text
      BY <1>4, TextOf
    <2>2. (Indent(d) \o <<w>>) \o t = Indent(d) \o (<<w>> \o t)
      <3>. HIDE DEF t
      <3>. QED
        <4>1. Regroups(Indent(d), <<w>>, t)
          BY <2>1, Assoc
        <4>. QED BY <4>1 DEF Regroups
    <2>3. <<w>> \o t = <<w, "(">>
      BY Pair
    <2>. QED BY <2>2, <2>3
  <1>. HIDE DEF s, t
  <1>6. Laid(1, s \o t, d, d + 1)
    BY <1>1, <1>2, <1>3, <1>4, LaidConcat
  <1>7. Inline(s \o t) /\ s \o t \in Text
    BY <1>1, <1>4, InlineConcat, ConcatText
  <1>. QED BY <1>5, <1>6, <1>7

\* A node that is no list, when the nodes below it are laid out.
LEMMA LaidOther ==
  ASSUME NEW n \in Trees, n.class \notin Lists, \A c \in Children(n) : LaidTree(c), NEW d \in Nat
  PROVE  Laid(1, PrintNode[n][d], d, d)
  <1>. DEFINE open == Indent(d) \o <<Kind[n.class], "(">>
              named == open \o HeadWords(n)
              break == IF Below(n) = <<>> THEN <<>> ELSE Break(n)
              lines == Lines(PrintNode, Below(n), d + 1)
  <1>1. Laid(1, open, d, d + 1) /\ Inline(open) /\ open \in Text
    BY NodeIs, KindWord, LaidOpen
  <1>2. HeadWords(n) \in Text
    BY HeadWordsIs, TextOf
  <1>. HIDE DEF open
  <1>3. Laid(1, named, d, d + 1) /\ Inline(named) /\ named \in Text
    <2>1. CASE HeadWords(n) = <<>>
      <3>1. named = open
        BY <1>1, <2>1, ConcatEmptySeq DEF Text
      <3>. QED BY <1>1, <3>1
    <2>2. ASSUME NEW w \in Word, HeadWords(n) = <<w>>
          PROVE  Laid(1, named, d, d + 1) /\ Inline(named) /\ named \in Text
      <3>1. Laid(0, <<w>>, d + 1, d + 1)
        <4>1. d + 1 \in Int /\ (d + 1) + Turn(w) = d + 1
          BY WordTurns
        <4>2. Laid(0, <<w>>, d + 1, (d + 1) + Turn(w))
          BY <4>1, LaidWord
        <4>. QED BY <4>1, <4>2
      <3>2. <<w>> \in Text /\ Inline(<<w>>)
        <4>1. w # "\n" /\ <<w>>[Len(<<w>>)] = w /\ <<w>> # <<>>
          BY WordTurns, One
        <4>2. <<w>> \in Text
          BY TextOf
        <4>. QED BY <4>1, <4>2 DEF Inline
      <3>3. Laid(1, open \o <<w>>, d, d + 1)
        <4>1. d \in Int /\ d + 1 \in Int /\ open # <<>> /\ open[Len(open)] # "\n"
          BY <1>1 DEF Inline
        <4>. QED BY <1>1, <3>1, <3>2, <4>1, LaidConcat
      <3>4. Inline(open \o <<w>>) /\ open \o <<w>> \in Text
        BY <1>1, <3>2, InlineConcat, ConcatText
      <3>. QED BY <2>2, <3>3, <3>4
    <2>. QED BY <2>1, <2>2, HeadWordsIs
  <1>. HIDE DEF named
  <1>4. Laid(1, named \o break, d, d + 1) /\ named \o break \in Text
    <2>1. CASE Below(n) = <<>>
      <3>1. named \o break = named
        BY <1>3, <2>1, ConcatEmptySeq DEF Text
      <3>. QED BY <1>3, <3>1
    <2>2. CASE Below(n) # <<>>
      <3>1. Laid(0, Break(n), d + 1, d + 1) /\ Break(n) \in Text
        <4>0. d + 1 \in Int
          OBVIOUS
        <4>1. CASE HeadWords(n) = <<>>
          <5>1. Break(n) = <<"\n">>
            BY <4>1, BreakIs, ConcatEmptySeq, TextOf DEF Text
          <5>. QED BY <4>0, <5>1, LaidComma
        <4>2. CASE HeadWords(n) # <<>>
          <5>1. Break(n) = <<Comma>> \o <<"\n">>
            BY <4>2, BreakIs
          <5>2. <<Comma>> \o <<"\n">> = <<Comma, "\n">>
            BY Pair
          <5>3. Laid(1, Break(n), d + 1, d + 1) /\ Break(n) \in Text
            BY <4>0, <5>1, <5>2, LaidComma
          <5>4. Break(n)[1] = Comma
            BY <5>1
          <5>. QED BY <5>3 DEF Laid, Lined
        <4>. QED BY <4>1, <4>2
      <3>2. d \in Int /\ d + 1 \in Int
        OBVIOUS
      <3>3. Laid(1, named \o Break(n), d, d + 1)
        BY <1>3, <3>1, <3>2, LaidConcat DEF Inline
      <3>4. named \o Break(n) \in Text
        BY <1>3, <3>1, ConcatText
      <3>. QED BY <2>2, <3>3, <3>4
    <2>. QED BY <2>1, <2>2
  <1>5. Laid(1, lines, d + 1, d + 1) /\ lines \in Text
    <2>1. d + 1 \in Nat
      OBVIOUS
    <2>. QED BY <2>1, LaidLines
  <1>. HIDE DEF break, lines
  <1>6. Laid(1, (named \o break) \o lines, d, d + 1) /\ (named \o break) \o lines \in Text
    <2>1. d \in Int /\ d + 1 \in Int
      OBVIOUS
    <2>. QED BY <1>4, <1>5, <2>1, LaidConcat, ConcatText
  <1>7. Laid(1, <<")">>, d + 1, d) /\ <<")">> \in Text
    <2>1. d + 1 \in Int /\ (d + 1) + Turn(")") = d
      BY MarkTurns
    <2>2. Laid(1, <<")">>, d + 1, (d + 1) + Turn(")"))
      BY <2>1, LaidMark
    <2>. QED BY <2>1, <2>2, TextOf
  <1>8. Laid(1, ((named \o break) \o lines) \o <<")">>, d, d)
    <2>1. d \in Int /\ d + 1 \in Int
      OBVIOUS
    <2>. QED BY <1>6, <1>7, <2>1, LaidConcat
  <1>9. PrintNode[n][d] = ((named \o break) \o lines) \o <<")">>
    BY PrintNodeIs DEF Body, named, open, break, lines
  <1>. QED BY <1>8, <1>9

\* Pieces that open one parenthesis each, within a line.
LEMMA LaidSteps ==
  ASSUME NEW d \in Nat, NEW s \in Text, Laid(1, s, d, d + 1), Inline(s), NEW ss \in Seq(Text),
         \A i \in 1..Len(ss) : Laid(0, ss[i], d + i, d + i + 1) /\ Inline(ss[i])
  PROVE  Laid(1, s \o FlattenSeq(ss), d, d + Len(ss) + 1) /\ s \o FlattenSeq(ss) \in Text
  <1>. DEFINE Up(tt) == \A i \in 1..Len(tt) : Laid(0, tt[i], d + i, d + i + 1) /\ Inline(tt[i])
              All(tt) == /\ Laid(1, s \o FlattenSeq(tt), d, d + Len(tt) + 1)
                         /\ Inline(s \o FlattenSeq(tt)) /\ s \o FlattenSeq(tt) \in Text
              G == {tt \in Seq(Text) : Up(tt) => All(tt)}
  <1>1. <<>> \in G
    <2>1. FlattenSeq(<<>>) = <<>> /\ s \o <<>> = s /\ Len(<<>>) = 0 /\ d + 0 + 1 = d + 1
      BY FlatNone, ConcatEmptySeq DEF Text
    <2>2. All(<<>>)
      BY <2>1
    <2>3. <<>> \in Seq(Text)
      BY EmptySeq
    <2>. HIDE DEF Up, All
    <2>. QED BY <2>2, <2>3
  <1>2. ASSUME NEW tt \in Seq(Text), tt \in G, NEW t \in Text PROVE Append(tt, t) \in G
    <2>1. Append(tt, t) \in Seq(Text) /\ Len(Append(tt, t)) = Len(tt) + 1 /\ Len(tt) \in Nat
          /\ Append(tt, t)[Len(tt) + 1] = t
          /\ \A i \in 1..Len(tt) : Append(tt, t)[i] = tt[i]
      BY AppendProperties
    <2>2. ASSUME Up(Append(tt, t)) PROVE All(Append(tt, t))
      <3>. DEFINE k == d + Len(tt) + 1
                  u == s \o FlattenSeq(tt)
      <3>1. Up(tt)
        <4>. SUFFICES ASSUME NEW i \in 1..Len(tt)
                      PROVE  Laid(0, tt[i], d + i, d + i + 1) /\ Inline(tt[i])
          OBVIOUS
        <4>1. i \in 1..Len(Append(tt, t)) /\ Append(tt, t)[i] = tt[i]
          BY <2>1
        <4>. QED BY <2>2, <4>1
      <3>2. All(tt)
        <4>. HIDE DEF Up, All
        <4>. QED BY <1>2, <3>1
      <3>3. Laid(0, t, k, k + 1) /\ Inline(t)
        <4>1. Len(tt) + 1 \in 1..Len(Append(tt, t)) /\ d + (Len(tt) + 1) = k
              /\ d + (Len(tt) + 1) + 1 = k + 1
          BY <2>1
        <4>. QED BY <2>1, <2>2, <4>1
      <3>4. k \in Int /\ k + 1 \in Int /\ d \in Int
        BY <2>1
      <3>5. Laid(1, u, d, k) /\ Inline(u) /\ u \in Text
        BY <3>2
      <3>6. FlattenSeq(Append(tt, t)) = FlattenSeq(tt) \o t /\ FlattenSeq(tt) \in Text
        BY FlatStep, FlatIn DEF Text
      <3>7. s \o FlattenSeq(Append(tt, t)) = u \o t
        <4>1. Regroups(s, FlattenSeq(tt), t)
          BY <3>6, Assoc
        <4>. QED BY <3>6, <4>1 DEF Regroups
      <3>8. d + Len(Append(tt, t)) + 1 = k + 1
        BY <2>1
      <3>. HIDE DEF k, u
      <3>9. u # <<>> /\ u[Len(u)] # "\n"
        BY <3>5 DEF Inline
      <3>10. Laid(1, u \o t, d, k + 1)
        BY <3>3, <3>4, <3>5, <3>9, LaidConcat
      <3>11. Inline(u \o t) /\ u \o t \in Text
        BY <3>3, <3>5, InlineConcat, ConcatText
      <3>. QED BY <3>7, <3>8, <3>10, <3>11
    <2>. HIDE DEF Up, All
    <2>. QED BY <2>1, <2>2
  <1>3. Seq(Text) \subseteq G
    <2>. HIDE DEF G
    <2>. QED BY <1>1, <1>2, SeqInduction
  <1>4. ss \in G /\ Up(ss)
    BY <1>3
  <1>5. All(ss)
    <2>. HIDE DEF Up, All
    <2>. QED BY <1>4
  <1>. QED BY <1>5

\* An element of a list, and the list of the rest up to its parenthesis.
LEMMA LaidElement ==
  ASSUME NEW n \in Trees, n.class \in Lists, \A c \in Children(n) : LaidTree(c), NEW d \in Nat,
         NEW i \in 1..Len(n.parts)
  PROVE  /\ Laid(0, ElementText(PrintNode, Kind[n.class], n.parts, d, i), d + i, d + i + 1)
         /\ Inline(ElementText(PrintNode, Kind[n.class], n.parts, d, i))
  <1>. DEFINE k == d + i
              e == Element(PrintNode, n.parts[i], k)
              w == Kind[n.class]
              nl == <<"\n">>
              comma == <<Comma, "\n">>
              indent == Indent(k)
              open == <<w, "(">>
  <1>1. k \in Nat /\ k \in Int /\ k + 1 \in Int /\ w \in Word
    <2>1. n.parts \in Seq(Trees \union {Null})
      BY ElementsAre
    <2>2. i \in Nat
      BY <2>1
    <2>. QED BY <2>2, NodeIs, KindWord
  <1>2. Laid(1, e, k, k) /\ e \in Text
    <2>0. n.parts[i] \in Children(n) \union {Null}
      <3>1. n.parts \in Seq(Children(n) \union {Null})
        BY ElementsAre
      <3>. QED BY <3>1, ElementOfSeq
    <2>1. CASE n.parts[i] = Null
      <3>1. e = <<"efield", "(", ")">>
        BY <2>1 DEF Element
      <3>2. e \in Text
        BY <1>1, <2>1, PrintNodeIs, ElementIn
      <3>3. Laid(1, <<"efield", "(", ")">>, k, k)
        BY <1>1, LaidNullField
      <3>. QED BY <3>1, <3>2, <3>3
    <2>2. CASE n.parts[i] # Null
      <3>1. n.parts[i] \in Children(n) /\ Children(n) \subseteq Trees
        BY <2>0, <2>2 DEF Children
      <3>2. e = PrintNode[n.parts[i]][k]
        BY <2>2, <3>1, PartIs DEF Element
      <3>3. Laid(1, PrintNode[n.parts[i]][k], k, k)
        BY <1>1, <3>1 DEF LaidTree
      <3>4. PrintNode[n.parts[i]][k] \in Text
        BY <1>1, <3>1, PrintNodeIs DEF Prints
      <3>. QED BY <3>2, <3>3, <3>4
    <2>. QED BY <2>1, <2>2
  <1>3. Laid(0, nl, k, k) /\ nl \in Text /\ Laid(1, comma, k, k) /\ comma \in Text
    BY <1>1, LaidComma
  <1>4. Laid(1, indent \o open, k, k + 1) /\ Inline(indent \o open) /\ indent \o open \in Text
        /\ indent \in Text /\ open \in Text
    <2>1. Laid(1, indent \o open, k, k + 1) /\ Inline(indent \o open) /\ indent \o open \in Text
      BY <1>1, LaidOpen
    <2>2. indent \in Text /\ open \in Text
      BY <1>1, TextOf
    <2>. QED BY <2>1, <2>2
  <1>5. ElementText(PrintNode, w, n.parts, d, i) = (((nl \o e) \o comma) \o indent) \o open
    BY Zenon DEF ElementText
  <1>6. d + i + 1 = k + 1
    OBVIOUS
  <1>. HIDE DEF k, e, w, nl, comma, indent, open
  <1>7. Laid(0, nl \o e, k, k) /\ nl \o e \in Text
    BY <1>1, <1>2, <1>3, LaidConcat, ConcatText
  <1>8. Laid(0, (nl \o e) \o comma, k, k) /\ (nl \o e) \o comma \in Text
    BY <1>1, <1>3, <1>7, LaidConcat, ConcatText
  <1>9. Laid(0, ((nl \o e) \o comma) \o (indent \o open), k, k + 1)
    BY <1>1, <1>4, <1>8, LaidConcat
  <1>10. Inline(((nl \o e) \o comma) \o (indent \o open))
    BY <1>4, <1>8, InlineConcat
  <1>11. (((nl \o e) \o comma) \o indent) \o open = ((nl \o e) \o comma) \o (indent \o open)
    <2>. DEFINE before == (nl \o e) \o comma
    <2>1. before \in Text /\ indent \in Text /\ open \in Text
      BY <1>4, <1>8
    <2>. HIDE DEF before
    <2>2. (before \o indent) \o open = before \o (indent \o open)
      <3>1. Regroups(before, indent, open)
        BY <2>1, Assoc
      <3>. QED BY <3>1 DEF Regroups
    <2>. QED BY <2>2 DEF before
  <1>12. /\ Laid(0, ElementText(PrintNode, w, n.parts, d, i), k, k + 1)
         /\ Inline(ElementText(PrintNode, w, n.parts, d, i))
    BY <1>5, <1>9, <1>10, <1>11
  <1>. QED BY <1>6, <1>12 DEF k, w

\* A list, when its elements are laid out.
LEMMA LaidList ==
  ASSUME NEW n \in Trees, n.class \in Lists, \A c \in Children(n) : LaidTree(c), NEW d \in Nat
  PROVE  Laid(1, PrintNode[n][d], d, d)
  <1>. DEFINE w == Kind[n.class]
              m == Len(n.parts)
              open == Indent(d) \o <<w, "(">>
              text(i) == ElementText(PrintNode, w, n.parts, d, i)
              ss == [i \in 1..m |-> text(i)]
  <1>1. w \in Word /\ n.parts \in Seq(Trees \union {Null}) /\ m \in Nat
    <2>1. w \in Word
      BY NodeIs, KindWord
    <2>2. n.parts \in Seq(Trees \union {Null})
      BY ElementsAre
    <2>. QED BY <2>1, <2>2
  <1>2. Laid(1, open, d, d + 1) /\ Inline(open) /\ open \in Text
    BY <1>1, LaidOpen
  <1>3. ss \in Seq(Text) /\ Len(ss) = m
    <2>1. ss \in Seq(Text)
      BY <1>1, PrintNodeIs, ElementsIn
    <2>2. Len(ss) = m
      <3>. HIDE DEF text, m
      <3>. QED BY <1>1
    <2>. QED BY <2>1, <2>2
  <1>4. \A i \in 1..m : Laid(0, text(i), d + i, d + i + 1) /\ Inline(text(i))
    BY LaidElement
  <1>5. PrintNode[n][d] = (open \o FlattenSeq(ss)) \o Closing(n)
    <2>1. PrintNode[n][d] = PrintList(PrintNode, n, d)
      BY PrintNodeIs DEF Body
    <2>2. PrintList(PrintNode, n, d) = (open \o FlattenSeq(ss)) \o Closing(n)
      BY ListText
    <2>. QED BY <2>1, <2>2
  <1>6. Closing(n) \in Text /\ Laid(1, Closing(n), d + m + 1, d)
    <2>1. d + m + 1 \in Int /\ m + 1 \in Nat /\ (d + m + 1) - (m + 1) = d
      <3>1. m \in Nat
        BY <1>1
      <3>. HIDE DEF m
      <3>. QED BY <3>1
    <2>2. Closing(n) = [i \in 1..(m + 1) |-> ")"]
      BY DEF Closing
    <2>3. Laid(1, [i \in 1..(m + 1) |-> ")"], d + m + 1, (d + m + 1) - (m + 1))
      <3>. HIDE DEF m
      <3>. QED BY <2>1, LaidClosing
    <2>. QED BY <2>1, <2>2, <2>3, ClosingIn
  <1>7. \A i \in 1..Len(ss) : Laid(0, ss[i], d + i, d + i + 1) /\ Inline(ss[i])
    <2>. HIDE DEF text, m
    <2>. QED BY <1>3, <1>4
  <1>. HIDE DEF open, ss, m
  <1>8. Laid(1, open \o FlattenSeq(ss), d, d + m + 1) /\ open \o FlattenSeq(ss) \in Text
    BY <1>2, <1>3, <1>7, LaidSteps
  <1>9. Laid(1, (open \o FlattenSeq(ss)) \o Closing(n), d, d)
    <2>1. d \in Int /\ d + m + 1 \in Int
      BY <1>1
    <2>. QED BY <1>6, <1>8, <2>1, LaidConcat
  <1>. QED BY <1>5, <1>9

\* Every text is laid out as the depth it is printed at requires.
LEMMA LaidTrees == \A n \in Trees : LaidTree(n)
  <1>. DEFINE G == {n \in Trees : LaidTree(n)}
  <1>1. ASSUME NEW n \in Trees, Children(n) \subseteq G PROVE n \in G
    <2>1. \A c \in Children(n) : LaidTree(c)
      BY <1>1
    <2>2. \A d \in Nat : Laid(1, PrintNode[n][d], d, d)
      BY <2>1, LaidList, LaidOther
    <2>. QED BY <2>2 DEF LaidTree
  <1>2. Trees \subseteq G
    <2>. HIDE DEF G
    <2>. QED BY <1>1, TreeInduction
  <1>. QED BY <1>2

-----------------------------------------------------------------------------
(* Indented *)

\* How often w is among the first words of s, before the i-th.
Among(s, w, i) == {j \in 1..(i - 1) : s[j] = w}

LEMMA Count ==
  ASSUME NEW s, NEW w
  PROVE  /\ Cardinality(Among(s, w, 1)) = 0
         /\ \A i \in Nat \ {0} :
              Cardinality(Among(s, w, i + 1)) = Cardinality(Among(s, w, i)) + (IF s[i] = w THEN 1 ELSE 0)
         /\ \A i \in Nat \ {0} : Cardinality(Among(s, w, i)) \in Nat
  <1>1. Cardinality(Among(s, w, 1)) = 0
    <2>1. Among(s, w, 1) = {}
      BY DEF Among
    <2>. QED BY <2>1, FS_EmptySet
  <1>2. ASSUME NEW i \in Nat \ {0}
        PROVE  IsFiniteSet(Among(s, w, i)) /\ Cardinality(Among(s, w, i)) \in Nat
    <2>1. IsFiniteSet(1..(i - 1))
      BY FS_Interval
    <2>2. Among(s, w, i) \in SUBSET (1..(i - 1))
      BY DEF Among
    <2>3. IsFiniteSet(Among(s, w, i))
      BY <2>1, <2>2, FS_Subset
    <2>. QED BY <2>3, FS_CardinalityType
  <1>3. ASSUME NEW i \in Nat \ {0}
        PROVE  Cardinality(Among(s, w, i + 1))
                 = Cardinality(Among(s, w, i)) + (IF s[i] = w THEN 1 ELSE 0)
    <2>0. \A j : j \in 1..((i + 1) - 1) <=> j \in 1..(i - 1) \/ j = i
      OBVIOUS
    <2>1. CASE s[i] = w
      <3>1. Among(s, w, i + 1) = Among(s, w, i) \union {i}
        BY <2>0, <2>1 DEF Among
      <3>2. i \notin Among(s, w, i)
        BY DEF Among
      <3>. QED BY <1>2, <2>1, <3>1, <3>2, FS_AddElement
    <2>2. CASE s[i] # w
      <3>1. Among(s, w, i + 1) = Among(s, w, i)
        BY <2>0, <2>2 DEF Among
      <3>. QED BY <1>2, <2>2, <3>1
    <2>. QED BY <2>1, <2>2
  <1>. QED BY <1>1, <1>2, <1>3

CountLaw(s, w, i) ==
  /\ Cardinality(Among(s, w, i + 1)) = Cardinality(Among(s, w, i)) + (IF s[i] = w THEN 1 ELSE 0)
  /\ Cardinality(Among(s, w, i)) \in Nat

LEMMA CountIs == \A s, w : \A i \in Nat \ {0} : CountLaw(s, w, i)
  <1>. SUFFICES ASSUME NEW s, NEW w, NEW i \in Nat \ {0} PROVE CountLaw(s, w, i)
    OBVIOUS
  <1>. QED BY Count DEF CountLaw

\* The parentheses open before a word are what is counted.
OpenBefore(s, i) == Cardinality(Among(s, "(", i)) - Cardinality(Among(s, ")", i))

LEMMA Counted ==
  ASSUME NEW s \in Text, NEW f, Depths(f, s, 0)
  PROVE  \A i \in 1..(Len(s) + 1) : OpenBefore(s, i) = f[i]
  <1>1. Len(s) \in Nat /\ f \in [1..(Len(s) + 1) -> Int] /\ f[1] = 0
        /\ \A i \in 1..Len(s) : f[i + 1] = f[i] + Turn(s[i])
    BY DEF Depths, Text
  <1>. DEFINE G == {i \in Nat : i + 1 <= Len(s) + 1 => OpenBefore(s, i + 1) = f[i + 1]}
  <1>2. 0 \in G
    <2>1. OpenBefore(s, 1) = 0
      BY Count DEF OpenBefore
    <2>. QED BY <1>1, <2>1
  <1>3. ASSUME NEW k \in Nat, k \in G PROVE k + 1 \in G
    <2>. SUFFICES ASSUME (k + 1) + 1 <= Len(s) + 1
                  PROVE  OpenBefore(s, (k + 1) + 1) = f[(k + 1) + 1]
      OBVIOUS
    <2>. DEFINE i == k + 1
    <2>1. i \in 1..Len(s) /\ i \in Nat \ {0} /\ i \in 1..(Len(s) + 1)
      BY <1>1
    <2>2. OpenBefore(s, i) = f[i] /\ f[i] \in Int
      BY <1>1, <1>3, <2>1
    <2>. HIDE DEF i
    <2>3. f[i + 1] = f[i] + Turn(s[i])
      BY <1>1, <2>1
    <2>4. OpenBefore(s, i + 1) = OpenBefore(s, i) + Turn(s[i])
      <3>. DEFINE a == Cardinality(Among(s, "(", i))
                  b == Cardinality(Among(s, ")", i))
      <3>1. /\ Cardinality(Among(s, "(", i + 1)) = a + (IF s[i] = "(" THEN 1 ELSE 0)
            /\ Cardinality(Among(s, ")", i + 1)) = b + (IF s[i] = ")" THEN 1 ELSE 0)
            /\ a \in Nat /\ b \in Nat
        <4>1. CountLaw(s, "(", i) /\ CountLaw(s, ")", i)
          BY <2>1, CountIs
        <4>. QED BY <4>1 DEF CountLaw
      <3>2. OpenBefore(s, i) = a - b
        BY DEF OpenBefore
      <3>. HIDE DEF a, b
      <3>3. OpenBefore(s, i + 1)
              = (a + (IF s[i] = "(" THEN 1 ELSE 0)) - (b + (IF s[i] = ")" THEN 1 ELSE 0))
        BY <3>1 DEF OpenBefore
      <3>4. "(" # ")"
        OBVIOUS
      <3>. QED BY <3>1, <3>2, <3>3, <3>4 DEF Turn
    <2>5. OpenBefore(s, i + 1) = f[i + 1]
      BY <2>2, <2>3, <2>4
    <2>. QED BY <2>5 DEF i
  <1>4. Nat \subseteq G
    <2>. HIDE DEF G
    <2>. QED BY <1>2, <1>3, NatInduction_
  <1>. SUFFICES ASSUME NEW i \in 1..(Len(s) + 1) PROVE OpenBefore(s, i) = f[i]
    OBVIOUS
  <1>5. i - 1 \in Nat /\ (i - 1) + 1 = i /\ i <= Len(s) + 1
    BY <1>1
  <1>6. i - 1 \in G
    BY <1>4, <1>5
  <1>. QED BY <1>5, <1>6

\* What Indented says of a text.
Begins(s, i) ==
  (i = 1 \/ s[i - 1] = "\n") /\ s[i] \notin {Comma, ")"}
    /\ ~(i + 2 \in DOMAIN s /\ SubSeq(s, i, i + 2) = <<"efield", "(", ")">>)
IndentedAt(s, i, first) ==
  first \in DOMAIN s /\ s[first] # Blank /\ \A j \in i..(first - 1) : s[j] = Blank
IndentedText(s) ==
  /\ OpenBefore(s, Len(s) + 1) = 0
  /\ \A i \in DOMAIN s : Begins(s, i) => IndentedAt(s, i, i + OpenBefore(s, i) + 1)

LEMMA IndentedIs == Indented <=> IndentedText(out)
  <1>1. \A i : Opened(i) = OpenBefore(out, i)
    BY DEF Opened, OpenBefore, Among
  <1>. QED BY <1>1, Zenon DEF Indented, IndentedText, IndentedAt, Begins, Blank, Comma

LEMMA ThreeIs ==
  ASSUME NEW s \in Text, NEW i \in 1..Len(s), i + 2 \in 1..Len(s), NEW a, NEW b, NEW c,
         s[i] = a, s[i + 1] = b, s[i + 2] = c
  PROVE  SubSeq(s, i, i + 2) = <<a, b, c>>
  <1>. DEFINE S == {a, b, c}
              t == SubSeq(s, i, i + 2)
              u == <<a, b, c>>
  <1>1. i \in Int /\ i + 2 \in Int /\ \A j \in i..(i + 2) : j = i \/ j = i + 1 \/ j = i + 2
    BY DEF Text
  <1>2. \A j \in i..(i + 2) : s[j] \in S
    BY <1>1
  <1>3. u \in Seq(S) /\ Len(u) = 3 /\ u[1] = a /\ u[2] = b /\ u[3] = c
    OBVIOUS
  <1>. HIDE DEF S, u
  <1>4. t \in Seq(S) /\ Len(t) = 3 /\ \A j \in 1..3 : t[j] = s[i + j - 1]
    <2>1. i <= i + 2 /\ (i + 2) - i + 1 = 3 /\ i + 2 - i + 1 = 3
      BY <1>1
    <2>. QED BY <1>1, <1>2, <2>1, SubSeqProperties
  <1>5. \A j \in 1..3 : t[j] = u[j]
    <2>1. \A j \in 1..3 : j = 1 \/ j = 2 \/ j = 3
      OBVIOUS
    <2>2. i + 1 - 1 = i /\ i + 2 - 1 = i + 1 /\ i + 3 - 1 = i + 2
      BY <1>1
    <2>3. t[1] = s[i + 1 - 1] /\ t[2] = s[i + 2 - 1] /\ t[3] = s[i + 3 - 1]
      BY <1>4
    <2>4. t[1] = a /\ t[2] = b /\ t[3] = c
      BY <2>2, <2>3
    <2>. QED BY <1>3, <2>1, <2>4
  <1>. HIDE DEF t
  <1>6. t = u
    BY <1>3, <1>4, <1>5, SeqEqual
  <1>. QED BY <1>6 DEF t, u

LEMMA LaidIsIndented ==
  ASSUME NEW s \in Text, Laid(1, s, 0, 0)
  PROVE  IndentedText(s)
  <1>1. PICK f : Depths(f, s, 0) /\ f[Len(s) + 1] = 0 /\ Lined(s, 1, f)
    BY DEF Laid
  <1>2. Len(s) \in Nat /\ DOMAIN s = 1..Len(s) /\ f \in [1..(Len(s) + 1) -> Int]
    BY <1>1 DEF Text, Depths
  <1>3. \A i \in 1..(Len(s) + 1) : OpenBefore(s, i) = f[i]
    BY <1>1, Counted
  <1>4. OpenBefore(s, Len(s) + 1) = 0
    BY <1>1, <1>2, <1>3
  <1>5. ASSUME NEW i \in 1..Len(s), Begins(s, i)
        PROVE  IndentedAt(s, i, i + OpenBefore(s, i) + 1)
    <2>1. i = 1 \/ (i > 1 /\ s[i - 1] = "\n")
      BY <1>5 DEF Begins
    <2>2. LineAt(s, i, f[i])
      BY <1>1, <2>1 DEF Lined
    <2>3. OpenBefore(s, i) = f[i] /\ f[i] \in Int
      BY <1>2, <1>3
    <2>4. s[i] \notin {Comma, ")"}
      BY <1>5 DEF Begins
    <2>5. ~(i + 2 \in 1..Len(s) /\ s[i] = "efield" /\ s[i + 1] = "(" /\ s[i + 2] = ")")
      BY <1>2, <1>5, ThreeIs DEF Begins
    <2>6. /\ i + f[i] + 1 \in 1..Len(s) /\ s[i + f[i] + 1] # Blank
          /\ \A j \in i..(i + f[i]) : s[j] = Blank
      BY <2>2, <2>4, <2>5 DEF LineAt
    <2>7. (i + f[i] + 1) - 1 = i + f[i]
      BY <2>3
    <2>. QED BY <1>2, <2>3, <2>6, <2>7 DEF IndentedAt
  <1>. QED BY <1>2, <1>4, <1>5 DEF IndentedText

\* The state of the printing: nothing is printed, or the whole tree.
PrintState == tree \in Roots /\ (out = <<>> \/ out = PrintNode[tree][0])

LEMMA PrintStateAlways == PrintSpec => []PrintState
  <1>1. PrintInit => PrintState
    BY DEF PrintInit, PrintState
  <1>2. PrintState /\ [PrintNext]_<<tree, out>> => PrintState'
    BY DEF PrintState, PrintNext, PrintTree, Done
  <1>. QED BY <1>1, <1>2, PTL DEF PrintSpec

\* Indented, of every tree: the depth that Print hands down to the nodes below, and that
\* counted up in the lists, is at every line the number of parentheses open in the text,
\* however the nodes are nested; and the text closes all that it opens.
THEOREM IndentedAlways == PrintSpec => []Indented
  <1>1. PrintState => Indented
    <2>. SUFFICES ASSUME PrintState PROVE Indented
      OBVIOUS
    <2>1. out \in Text /\ Laid(1, out, 0, 0)
      <3>1. CASE out = <<>>
        BY <3>1, LaidNothing, TextOf
      <3>2. CASE out = PrintNode[tree][0]
        <4>1. tree \in Trees
          BY RootsAssumption DEF PrintState
        <4>. QED BY <3>2, <4>1, LaidTrees, PrintNodeIs DEF LaidTree, Prints
      <3>. QED BY <3>1, <3>2 DEF PrintState
    <2>2. IndentedText(out)
      BY <2>1, LaidIsIndented
    <2>. QED BY <2>2, IndentedIs
  <1>. QED BY <1>1, PrintStateAlways, PTL

-----------------------------------------------------------------------------
(* Words *)

\* What f makes of each of s, in one sequence.
Each(f, s) == FlattenSeq([i \in 1..Len(s) |-> f[s[i]]])

EachLaw(S, T, f) ==
  /\ \A s \in Seq(S) : Each(f, s) \in Seq(T)
  /\ Each(f, <<>>) = <<>>
  /\ \A x \in S : Each(f, <<x>>) = f[x]
  /\ \A s, t \in Seq(S) : Each(f, s \o t) = Each(f, s) \o Each(f, t)

LEMMA EachIs ==
  ASSUME NEW S, NEW T, NEW f \in [S -> Seq(T)]
  PROVE  EachLaw(S, T, f)
  <1>. DEFINE map(s) == [i \in 1..Len(s) |-> f[s[i]]]
  <1>1. ASSUME NEW s \in Seq(S)
        PROVE  map(s) \in Seq(Seq(T)) /\ Len(map(s)) = Len(s) /\ Len(s) \in Nat
               /\ \A i \in 1..Len(s) : map(s)[i] = f[s[i]]
    <2>1. Len(s) \in Nat /\ \A i \in 1..Len(s) : s[i] \in S /\ f[s[i]] \in Seq(T)
      BY ElementOfSeq
    <2>2. map(s) \in Seq(Seq(T))
      BY <2>1
    <2>3. Len(map(s)) = Len(s)
      BY <2>1
    <2>. QED BY <2>1, <2>2, <2>3
  <1>2. ASSUME NEW s \in Seq(S) PROVE Each(f, s) \in Seq(T)
    BY <1>1, FlatIn DEF Each
  <1>3. Each(f, <<>>) = <<>>
    <2>1. map(<<>>) = <<>>
      OBVIOUS
    <2>. QED BY <2>1, FlatNone DEF Each
  <1>4. ASSUME NEW x \in S PROVE Each(f, <<x>>) = f[x]
    <2>1. map(<<x>>) = <<f[x]>>
      OBVIOUS
    <2>2. FlattenSeq(<<f[x]>>) = f[x]
      BY FlatOne
    <2>. QED BY <2>1, <2>2 DEF Each
  <1>5. ASSUME NEW s \in Seq(S), NEW t \in Seq(S)
        PROVE  Each(f, s \o t) = Each(f, s) \o Each(f, t)
    <2>1. /\ s \o t \in Seq(S) /\ Len(s \o t) = Len(s) + Len(t)
          /\ \A i \in 1..(Len(s) + Len(t)) :
               (s \o t)[i] = IF i <= Len(s) THEN s[i] ELSE t[i - Len(s)]
      BY ConcatProperties
    <2>2. /\ map(s) \in Seq(Seq(T)) /\ Len(map(s)) = Len(s)
          /\ \A i \in 1..Len(s) : map(s)[i] = f[s[i]]
      BY <1>1
    <2>3. /\ map(t) \in Seq(Seq(T)) /\ Len(map(t)) = Len(t)
          /\ \A i \in 1..Len(t) : map(t)[i] = f[t[i]]
      BY <1>1
    <2>4. /\ map(s \o t) \in Seq(Seq(T)) /\ Len(map(s \o t)) = Len(s \o t)
          /\ \A i \in 1..Len(s \o t) : map(s \o t)[i] = f[(s \o t)[i]]
      BY <1>1, <2>1
    <2>5. Len(s) \in Nat /\ Len(t) \in Nat
      BY <1>1
    <2>. HIDE DEF map
    <2>6. /\ map(s) \o map(t) \in Seq(Seq(T)) /\ Len(map(s) \o map(t)) = Len(s) + Len(t)
          /\ \A i \in 1..(Len(s) + Len(t)) :
               (map(s) \o map(t))[i] = IF i <= Len(s) THEN map(s)[i] ELSE map(t)[i - Len(s)]
      <3>. DEFINE a == map(s)
                  b == map(t)
      <3>1. a \in Seq(Seq(T)) /\ b \in Seq(Seq(T)) /\ Len(a) = Len(s) /\ Len(b) = Len(t)
        BY <2>2, <2>3
      <3>. HIDE DEF a, b
      <3>2. /\ a \o b \in Seq(Seq(T)) /\ Len(a \o b) = Len(a) + Len(b)
            /\ \A i \in 1..(Len(a) + Len(b)) :
                 (a \o b)[i] = IF i <= Len(a) THEN a[i] ELSE b[i - Len(a)]
        BY <3>1, ConcatProperties
      <3>. QED BY <3>1, <3>2 DEF a, b
    <2>7. ASSUME NEW i \in 1..(Len(s) + Len(t))
          PROVE  map(s \o t)[i] = (map(s) \o map(t))[i]
      <3>0. map(s \o t)[i] = f[(s \o t)[i]]
        BY <2>1, <2>4
      <3>1. CASE i <= Len(s)
        <4>1. i \in 1..Len(s)
          BY <2>5, <3>1
        <4>2. (s \o t)[i] = s[i]
          BY <2>1, <3>1
        <4>3. (map(s) \o map(t))[i] = map(s)[i]
          BY <2>6, <3>1
        <4>4. map(s)[i] = f[s[i]]
          BY <2>2, <4>1
        <4>. QED BY <3>0, <4>2, <4>3, <4>4
      <3>2. CASE ~(i <= Len(s))
        <4>1. i - Len(s) \in 1..Len(t)
          BY <2>5, <3>2
        <4>2. (s \o t)[i] = t[i - Len(s)]
          BY <2>1, <3>2
        <4>3. (map(s) \o map(t))[i] = map(t)[i - Len(s)]
          BY <2>6, <3>2
        <4>4. map(t)[i - Len(s)] = f[t[i - Len(s)]]
          BY <2>3, <4>1
        <4>. QED BY <3>0, <4>2, <4>3, <4>4
      <3>. QED BY <3>1, <3>2
    <2>8. map(s \o t) = map(s) \o map(t)
      BY <2>1, <2>4, <2>6, <2>7, SeqEqual
    <2>9. FlattenSeq(map(s) \o map(t)) = FlattenSeq(map(s)) \o FlattenSeq(map(t))
      BY <2>2, <2>3, FlatConcat
    <2>. QED BY <2>8, <2>9 DEF Each, map
  <1>. QED BY <1>2, <1>3, <1>4, <1>5 DEF EachLaw

\* A set that has the empty sequence, and with each sequence all that have one before it.
LEMMA FrontInduction ==
  ASSUME NEW S, NEW G, <<>> \in G,
         \A s \in Seq(S) : s \in G => \A x \in S : <<x>> \o s \in G
  PROVE  Seq(S) \subseteq G
  <1>. DEFINE N == {k \in Nat : \A s \in Seq(S) : Len(s) = k => s \in G}
  <1>1. 0 \in N
    BY EmptySeq
  <1>2. ASSUME NEW k \in Nat, k \in N PROVE k + 1 \in N
    <2>. SUFFICES ASSUME NEW s \in Seq(S), Len(s) = k + 1 PROVE s \in G
      OBVIOUS
    <2>1. s # <<>>
      OBVIOUS
    <2>2. Head(s) \in S /\ Tail(s) \in Seq(S) /\ Len(Tail(s)) = (k + 1) - 1
      BY <2>1, HeadTailProperties
    <2>3. s = <<Head(s)>> \o Tail(s)
      BY <2>1
    <2>4. Tail(s) \in G
      <3>1. Len(Tail(s)) = k
        BY <2>2
      <3>. QED BY <1>2, <2>2, <3>1
    <2>. QED BY <2>2, <2>3, <2>4
  <1>3. Nat \subseteq N
    <2>. HIDE DEF N
    <2>. QED BY <1>1, <1>2, NatInduction_
  <1>. QED BY <1>3, LenProperties

\* What is left of a word.
Say == [w \in Word \union Marks |-> IF w \in {Blank, "\n"} THEN <<>> ELSE <<w>>]

LEMMA SayIs ==
  /\ Say \in [Word \union Marks -> Text]
  /\ \A w \in Word : Say[w] = <<w>>
  /\ Say[Blank] = <<>> /\ Say["\n"] = <<>> /\ Say["("] = <<"(">> /\ Say[")"] = <<")">>
  /\ Say[Comma] = <<Comma>>
  <1>1. \A w \in Word \union Marks : Say[w] = IF w \in {Blank, "\n"} THEN <<>> ELSE <<w>>
    BY DEF Say
  <1>2. \A w \in Word : w # Blank /\ w # "\n"
    BY WordTurns, WordsAreNoBlanks
  <1>3. \A w \in Word \union Marks : (IF w \in {Blank, "\n"} THEN <<>> ELSE <<w>>) \in Text
    <2>1. \A w \in Word \union Marks : <<w>> \in Text
      BY DEF Text
    <2>. QED BY <2>1, TextOf
  <1>4. Say \in [Word \union Marks -> Text]
    BY <1>3 DEF Say
  <1>. QED BY <1>1, <1>2, <1>4, MarksAre

LEMMA EachSay ==
  /\ Each(Say, <<>>) = <<>>
  /\ \A w \in Word \union Marks : Each(Say, <<w>>) = Say[w]
  /\ \A s \in Text : Each(Say, s) \in Text
  /\ \A s, t \in Text : Each(Say, s \o t) = Each(Say, s) \o Each(Say, t)
  <1>. DEFINE W == Word \union Marks
  <1>1. Say \in [W -> Seq(W)]
    BY SayIs DEF Text
  <1>. HIDE DEF W
  <1>2. EachLaw(W, W, Say)
    BY <1>1, EachIs
  <1>. QED BY <1>2 DEF EachLaw, W, Text

LEMMA WordsIs ==
  ASSUME NEW s \in Text
  PROVE  Words(s) = Each(Say, s) /\ Words(s) \in Text
  <1>1. DOMAIN s = 1..Len(s) /\ Len(s) \in Nat /\ \A i \in 1..Len(s) : s[i] \in Word \union Marks
    BY ElementOfSeq DEF Text
  <1>2. \A w : w \in {" ", "\n"} <=> w \in {Blank, "\n"}
    BY Zenon DEF Blank
  <1>3. \A i \in 1..Len(s) :
          (IF s[i] \in {" ", "\n"} THEN <<>> ELSE <<s[i]>>)
            = IF s[i] \in {Blank, "\n"} THEN <<>> ELSE <<s[i]>>
    BY <1>2, Zenon
  <1>4. \A i \in 1..Len(s) : Say[s[i]] = IF s[i] \in {Blank, "\n"} THEN <<>> ELSE <<s[i]>>
    BY <1>1 DEF Say
  <1>5. \A i \in 1..Len(s) : (IF s[i] \in {" ", "\n"} THEN <<>> ELSE <<s[i]>>) = Say[s[i]]
    BY <1>3, <1>4, Zenon
  <1>6. [i \in 1..Len(s) |-> IF s[i] \in {" ", "\n"} THEN <<>> ELSE <<s[i]>>]
          = [i \in 1..Len(s) |-> Say[s[i]]]
    BY <1>5, Zenon
  <1>7. Words(s) = FlattenSeq([i \in 1..Len(s) |-> Say[s[i]]])
    BY <1>1, <1>6, Zenon DEF Words
  <1>8. Words(s) = Each(Say, s)
    BY <1>7 DEF Each
  <1>9. Each(Say, s) \in Text
    BY EachSay
  <1>. QED BY <1>8, <1>9

\* Words takes a text piece by piece.
LEMMA WordsConcat == \A s, t \in Text : Words(s \o t) = Words(s) \o Words(t)
  <1>. SUFFICES ASSUME NEW s \in Text, NEW t \in Text
                PROVE  Words(s \o t) = Words(s) \o Words(t)
    OBVIOUS
  <1>1. s \o t \in Text
    BY ConcatText
  <1>2. Each(Say, s \o t) = Each(Say, s) \o Each(Say, t)
    BY SayIs, EachSay
  <1>. QED BY <1>1, <1>2, WordsIs

LEMMA WordsOf ==
  /\ Words(<<>>) = <<>> /\ Words(<<"\n">>) = <<>> /\ Words(<<")">>) = <<")">>
  /\ Words(<<Comma, "\n">>) = <<Comma>>
  /\ \A w \in Word : Words(<<w>>) = <<w>> /\ Words(<<w, "(">>) = <<w, "(">>
  /\ Words(<<"efield", "(", ")">>) = <<"efield", "(", ")">>
  /\ \A d \in Nat : Words(Indent(d)) = <<>>
  <1>. DEFINE W == Word \union Marks
  <1>0. /\ Blank \in W /\ "\n" \in W /\ "(" \in W /\ ")" \in W /\ Comma \in W
        /\ \A w \in W : <<w>> \in Text
    BY MarksAre DEF Text
  <1>1. \A w \in W : Words(<<w>>) = Say[w]
    <2>. SUFFICES ASSUME NEW w \in W PROVE Words(<<w>>) = Say[w]
      OBVIOUS
    <2>1. <<w>> \in Text
      BY <1>0
    <2>2. Each(Say, <<w>>) = Say[w]
      BY SayIs, EachSay
    <2>. QED BY <2>1, <2>2, WordsIs
  <1>2. \A v, w \in W : Words(<<v, w>>) = Say[v] \o Say[w]
    <2>. SUFFICES ASSUME NEW v \in W, NEW w \in W PROVE Words(<<v, w>>) = Say[v] \o Say[w]
      OBVIOUS
    <2>1. <<v>> \in Text /\ <<w>> \in Text
      BY <1>0
    <2>2. Words(<<v>> \o <<w>>) = Words(<<v>>) \o Words(<<w>>)
      BY <2>1, WordsConcat
    <2>. QED BY <1>1, <2>2, Pair
  <1>3. Words(<<>>) = <<>>
    BY TextOf, WordsIs, SayIs, EachSay
  <1>4. Words(<<Comma, "\n">>) = <<Comma>>
    <2>1. <<Comma>> \o <<>> = <<Comma>>
      BY TextOf, ConcatEmptySeq DEF Text
    <2>. QED BY <1>0, <1>2, <2>1, SayIs
  <1>5. ASSUME NEW w \in Word PROVE Words(<<w>>) = <<w>> /\ Words(<<w, "(">>) = <<w, "(">>
    <2>1. w \in W
      OBVIOUS
    <2>2. <<w>> \o <<"(">> = <<w, "(">>
      BY Pair
    <2>. QED BY <1>0, <1>1, <1>2, <2>1, <2>2, SayIs
  <1>6. Words(<<"efield", "(", ")">>) = <<"efield", "(", ")">>
    <2>. DEFINE e == "efield"
    <2>1. e \in Word
      <3>1. Kind["EField"] = "efield" /\ "EField" \in DOMAIN Kind
        BY DEF Kind
      <3>. QED BY <3>1, KindWord
    <2>2. <<e, "(", ")">> = <<e, "(">> \o <<")">>
      OBVIOUS
    <2>. HIDE DEF e
    <2>3. <<e, "(">> \in Text /\ <<")">> \in Text
      BY <2>1, TextOf
    <2>4. Words(<<e, "(">> \o <<")">>) = Words(<<e, "(">>) \o Words(<<")">>)
      BY <2>3, WordsConcat
    <2>5. Words(<<e, "(">>) = <<e, "(">> /\ Words(<<")">>) = <<")">>
      BY <1>0, <1>1, <1>5, <2>1, SayIs
    <2>6. Words(<<e, "(", ")">>) = <<e, "(", ")">>
      BY <2>2, <2>4, <2>5
    <2>. QED BY <2>6 DEF e
  <1>7. ASSUME NEW d \in Nat PROVE Words(Indent(d)) = <<>>
    <2>. DEFINE B == [i \in 1..(d + 1) |-> Blank]
                G == {s \in Text : Each(Say, s) = <<>>}
                T == {Blank}
    <2>1. B \in Seq(T)
      OBVIOUS
    <2>2. <<>> \in G
      BY TextOf, SayIs, EachSay
    <2>3. ASSUME NEW s \in Seq(T), s \in G, NEW w \in T PROVE <<w>> \o s \in G
      <3>1. <<w>> \in Text /\ s \in Text /\ <<w>> \o s \in Text
        BY <1>0, <2>3, ConcatText
      <3>2. Each(Say, <<w>>) = <<>> /\ Each(Say, s) = <<>>
        BY <1>0, <2>3, SayIs, EachSay
      <3>3. Each(Say, <<w>> \o s) = Each(Say, <<w>>) \o Each(Say, s)
        BY <3>1, SayIs, EachSay
      <3>4. <<>> \o <<>> = <<>>
        BY TextOf, ConcatEmptySeq DEF Text
      <3>. QED BY <3>1, <3>2, <3>3, <3>4
    <2>4. Seq(T) \subseteq G
      <3>. HIDE DEF G, T
      <3>. QED BY <2>2, <2>3, FrontInduction
    <2>5. Indent(d) \in Text /\ Each(Say, Indent(d)) = <<>>
      <3>. HIDE DEF T
      <3>. QED BY <2>1, <2>4, IndentIs
    <2>. QED BY <2>5, WordsIs
  <1>8. Words(<<"\n">>) = <<>> /\ Words(<<")">>) = <<")">>
    BY <1>0, <1>1, SayIs
  <1>. QED BY <1>3, <1>4, <1>5, <1>6, <1>7, <1>8

\* Words takes a text of many pieces piece by piece.
WordsFlatly(ss) == Words(FlattenSeq(ss)) = FlattenSeq([i \in 1..Len(ss) |-> Words(ss[i])])

LEMMA WordsFlat ==
  ASSUME NEW ss \in Seq(Text)
  PROVE  WordsFlatly(ss)
  <1>. DEFINE f == [t \in Text |-> Words(t)]
              G == {tt \in Seq(Text) : Words(FlattenSeq(tt)) = Each(f, tt)}
              W == Word \union Marks
  <1>1. f \in [Text -> Seq(W)] /\ \A t \in Text : f[t] = Words(t)
    BY WordsIs DEF Text
  <1>. HIDE DEF f, W
  <1>2. EachLaw(Text, W, f)
    BY <1>1, EachIs
  <1>3. <<>> \in G
    <2>1. Each(f, <<>>) = <<>> /\ Words(<<>>) = <<>> /\ FlattenSeq(<<>>) = <<>>
      BY <1>2, WordsOf, FlatNone DEF EachLaw
    <2>. QED BY <2>1, EmptySeq
  <1>4. ASSUME NEW tt \in Seq(Text), tt \in G, NEW t \in Text PROVE <<t>> \o tt \in G
    <2>1. <<t>> \in Seq(Text) /\ <<t>> \o tt \in Seq(Text)
      OBVIOUS
    <2>2. Each(f, <<t>> \o tt) = Words(t) \o Each(f, tt)
      <3>1. Each(f, <<t>> \o tt) = Each(f, <<t>>) \o Each(f, tt) /\ Each(f, <<t>>) = f[t]
        BY <1>2, <2>1 DEF EachLaw
      <3>. QED BY <1>1, <3>1
    <2>3. FlattenSeq(<<t>> \o tt) = t \o FlattenSeq(tt) /\ FlattenSeq(tt) \in Text
      <3>1. FlattenSeq(<<t>>) = t
        BY FlatOne DEF Text
      <3>2. FlattenSeq(<<t>> \o tt) = FlattenSeq(<<t>>) \o FlattenSeq(tt)
        BY <2>1, FlatConcat DEF Text
      <3>3. FlattenSeq(tt) \in Text
        BY FlatIn DEF Text
      <3>. QED BY <3>1, <3>2, <3>3
    <2>4. Words(t \o FlattenSeq(tt)) = Words(t) \o Words(FlattenSeq(tt))
      BY <2>3, WordsConcat
    <2>5. Words(FlattenSeq(tt)) = Each(f, tt)
      BY <1>4
    <2>. QED BY <2>1, <2>2, <2>3, <2>4, <2>5
  <1>5. Seq(Text) \subseteq G
    <2>. HIDE DEF G
    <2>. QED BY <1>3, <1>4, FrontInduction
  <1>6. Words(FlattenSeq(ss)) = Each(f, ss)
    BY <1>5
  <1>7. [i \in 1..Len(ss) |-> f[ss[i]]] = [i \in 1..Len(ss) |-> Words(ss[i])]
    <2>1. \A i \in 1..Len(ss) : f[ss[i]] = Words(ss[i])
      BY <1>1, ElementOfSeq
    <2>. QED BY <2>1
  <1>. QED BY <1>6, <1>7 DEF Each, WordsFlatly

\* The words of a cell, and of an element of a list.
Said(p, d) == Words(PrintPart(PrintNode, p, d))
ElementSaid(e, d) == Words(Element(PrintNode, e, d))

\* The words of a node that is no list.
LEMMA NodeWords ==
  ASSUME NEW n \in Trees, n.class \notin Lists, NEW d \in Nat
  PROVE  Words(PrintNode[n][d]) =
           <<Kind[n.class], "(">> \o HeadWords(n)
             \o Words(IF Below(n) = <<>> THEN <<>> ELSE Break(n))
             \o Words(Lines(PrintNode, Below(n), d + 1)) \o <<")">>
  <1>. DEFINE indent == Indent(d)
              open == <<Kind[n.class], "(">>
              head == HeadWords(n)
              break == IF Below(n) = <<>> THEN <<>> ELSE Break(n)
              lines == Lines(PrintNode, Below(n), d + 1)
              close == <<")">>
  <1>1. PrintNode[n][d] = ((((indent \o open) \o head) \o break) \o lines) \o close
    BY PrintNodeIs DEF Body
  <1>2. Kind[n.class] \in Word
    BY NodeIs, KindWord
  <1>3. indent \in Text /\ open \in Text /\ Words(indent) = <<>> /\ Words(open) = open
    BY <1>2, TextOf, WordsOf
  <1>4. head \in Text /\ Words(head) = head
    BY HeadWordsIs, TextOf, WordsOf
  <1>5. break \in Text
    <2>1. Break(n) \in Text
      BY TextOf, ConcatText, BreakIs
    <2>. QED BY <2>1, TextOf
  <1>6. lines \in Text
    <2>1. Below(n) \in Seq(Cells(Trees)) /\ d + 1 \in Nat
      BY CellsGrow
    <2>. QED BY <2>1, PrintNodeIs, LinesIn
  <1>7. close \in Text /\ Words(close) = close
    BY TextOf, WordsOf
  <1>. HIDE DEF indent, open, head, break, lines, close
  <1>8. indent \o open \in Text /\ Words(indent \o open) = open
    <2>1. <<>> \o open = open
      BY <1>3, ConcatEmptySeq DEF Text
    <2>. QED BY <1>3, <2>1, ConcatText, WordsConcat
  <1>9. (indent \o open) \o head \in Text /\ Words((indent \o open) \o head) = open \o head
    BY <1>4, <1>8, ConcatText, WordsConcat
  <1>10. /\ ((indent \o open) \o head) \o break \in Text
         /\ Words(((indent \o open) \o head) \o break) = (open \o head) \o Words(break)
    BY <1>5, <1>9, ConcatText, WordsConcat
  <1>11. /\ (((indent \o open) \o head) \o break) \o lines \in Text
         /\ Words((((indent \o open) \o head) \o break) \o lines)
              = ((open \o head) \o Words(break)) \o Words(lines)
    BY <1>6, <1>10, ConcatText, WordsConcat
  <1>12. Words(((((indent \o open) \o head) \o break) \o lines) \o close)
           = (((open \o head) \o Words(break)) \o Words(lines)) \o close
    BY <1>7, <1>11, WordsConcat
  <1>. QED BY <1>1, <1>12 DEF open, head, break, lines, close

\* The words of the lines below.
LEMMA LineWords ==
  ASSUME NEW ps \in Seq(Cells(Trees)), NEW d \in Nat
  PROVE  /\ Words(Lines(PrintNode, ps, d))
              = FlattenSeq([i \in 1..Len(ps) |->
                              (IF i = 1 THEN <<>> ELSE <<Comma>>) \o Said(ps[i], d)])
         /\ \A i \in 1..Len(ps) : Said(ps[i], d) \in Text
  <1>. DEFINE text(i) == LineText(PrintNode, ps, d, i)
              ss == [i \in 1..Len(ps) |-> text(i)]
              said(i) == (IF i = 1 THEN <<>> ELSE <<Comma>>) \o Said(ps[i], d)
  <1>1. Lines(PrintNode, ps, d) = FlattenSeq(ss) /\ ss \in Seq(Text)
    BY PrintNodeIs, LinesIn
  <1>2. ASSUME NEW i \in 1..Len(ps) PROVE Words(text(i)) = said(i) /\ Said(ps[i], d) \in Text
    <2>. DEFINE before == IF i = 1 THEN <<>> ELSE <<Comma, "\n">>
                part == PrintPart(PrintNode, ps[i], d)
    <2>1. ps[i] \in Cells(Trees)
      BY ElementOfSeq
    <2>2. part \in Text /\ Words(part) = Said(ps[i], d)
      BY <2>1, PrintNodeIs, PartIn DEF Said
    <2>3. before \in Text /\ Words(before) = IF i = 1 THEN <<>> ELSE <<Comma>>
      BY TextOf, WordsOf
    <2>4. text(i) = before \o part
      BY DEF LineText
    <2>. HIDE DEF before, part, text
    <2>5. Words(text(i)) = Words(before) \o Words(part)
      BY <2>2, <2>3, <2>4, WordsConcat
    <2>6. Words(part) \in Text
      BY <2>2, WordsIs
    <2>. QED BY <2>2, <2>3, <2>5, <2>6
  <1>3. Words(FlattenSeq(ss)) = FlattenSeq([i \in 1..Len(ss) |-> Words(ss[i])])
    BY <1>1, WordsFlat DEF WordsFlatly
  <1>4. [i \in 1..Len(ss) |-> Words(ss[i])] = [i \in 1..Len(ps) |-> said(i)]
    <2>. HIDE DEF text, said
    <2>1. Len(ss) = Len(ps) /\ \A i \in 1..Len(ps) : ss[i] = text(i)
      OBVIOUS
    <2>2. \A i \in 1..Len(ps) : Words(ss[i]) = said(i)
      BY <1>2, <2>1
    <2>. HIDE DEF ss
    <2>. QED BY <2>1, <2>2
  <1>. HIDE DEF ss
  <1>. QED BY <1>1, <1>2, <1>3, <1>4

\* The words of a list.
LEMMA ListWords ==
  ASSUME NEW n \in Trees, n.class \in Lists, NEW d \in Nat
  PROVE  /\ Words(PrintNode[n][d]) =
              <<Kind[n.class], "(">>
              \o FlattenSeq([i \in 1..Len(n.parts) |->
                   ElementSaid(n.parts[i], d + i) \o <<Comma>> \o <<Kind[n.class], "(">>])
              \o Closing(n)
         /\ \A i \in 1..Len(n.parts) : ElementSaid(n.parts[i], d + i) \in Text
  <1>. DEFINE w == Kind[n.class]
              m == Len(n.parts)
              indent == Indent(d)
              open == <<w, "(">>
              text(i) == ElementText(PrintNode, w, n.parts, d, i)
              said(i) == (ElementSaid(n.parts[i], d + i) \o <<Comma>>) \o open
              ss == [i \in 1..m |-> text(i)]
              close == Closing(n)
  <1>1. w \in Word /\ n.parts \in Seq(Trees \union {Null}) /\ m \in Nat
    <2>1. w \in Word
      BY NodeIs, KindWord
    <2>2. n.parts \in Seq(Trees \union {Null})
      BY ElementsAre
    <2>. QED BY <2>1, <2>2
  <1>2. indent \in Text /\ open \in Text /\ Words(indent) = <<>> /\ Words(open) = open
    BY <1>1, TextOf, WordsOf
  <1>3. PrintNode[n][d] = ((indent \o open) \o FlattenSeq(ss)) \o close
    <2>1. PrintNode[n][d] = PrintList(PrintNode, n, d)
      BY PrintNodeIs DEF Body
    <2>. QED BY <2>1, ListText
  <1>4. ss \in Seq(Text) /\ FlattenSeq(ss) \in Text
    BY <1>1, PrintNodeIs, ElementsIn
  <1>5. close \in Text /\ Words(close) = close
    <2>1. close \in Text
      BY ClosingIn
    <2>2. \A k \in Nat : [i \in 1..k |-> ")"] \in Text /\ Words([i \in 1..k |-> ")"]) = [i \in 1..k |-> ")"]
      <3>. DEFINE c(k) == [i \in 1..k |-> ")"]
                  G == {k \in Nat : c(k) \in Text /\ Words(c(k)) = c(k)}
      <3>1. 0 \in G
        <4>1. c(0) = <<>>
          OBVIOUS
        <4>. QED BY <4>1, TextOf, WordsOf
      <3>2. ASSUME NEW k \in Nat, k \in G PROVE k + 1 \in G
        <4>1. c(k + 1) = c(k) \o <<")">>
          OBVIOUS
        <4>2. c(k) \in Text /\ Words(c(k)) = c(k)
          BY <3>2
        <4>. HIDE DEF c
        <4>3. c(k) \o <<")">> \in Text /\ Words(c(k) \o <<")">>) = c(k) \o <<")">>
          BY <4>2, TextOf, WordsOf, ConcatText, WordsConcat
        <4>4. c(k + 1) \in Text /\ Words(c(k + 1)) = c(k + 1)
          BY <4>1, <4>3
        <4>. QED BY <4>4
      <3>3. Nat \subseteq G
        <4>. HIDE DEF G
        <4>. QED BY <3>1, <3>2, NatInduction_
      <3>. QED BY <3>3
    <2>3. m + 1 \in Nat /\ close = [i \in 1..(m + 1) |-> ")"]
      BY <1>1 DEF Closing
    <2>. HIDE DEF close, m
    <2>. QED BY <2>1, <2>2, <2>3
  <1>6. ASSUME NEW i \in 1..m
        PROVE  Words(text(i)) = said(i) /\ ElementSaid(n.parts[i], d + i) \in Text
    <2>. DEFINE k == d + i
                nl == <<"\n">>
                e == Element(PrintNode, n.parts[i], k)
                comma == <<Comma, "\n">>
                inner == Indent(k)
    <2>1. k \in Nat /\ n.parts[i] \in Trees \union {Null}
      BY <1>1, ElementOfSeq
    <2>2. e \in Text
      BY <2>1, PrintNodeIs, ElementIn
    <2>3. inner \in Text /\ Words(inner) = <<>>
      BY <2>1, TextOf, WordsOf
    <2>4. nl \in Text /\ Words(nl) = <<>> /\ comma \in Text /\ Words(comma) = <<Comma>>
      BY TextOf, WordsOf
    <2>5. text(i) = (((nl \o e) \o comma) \o inner) \o open
      BY Zenon DEF ElementText
    <2>6. ElementSaid(n.parts[i], d + i) = Words(e)
      BY DEF ElementSaid
    <2>. HIDE DEF k, nl, e, comma, inner, open
    <2>7. Words(e) \in Text
      BY <2>2, WordsIs
    <2>8. nl \o e \in Text /\ Words(nl \o e) = Words(e)
      <3>1. <<>> \o Words(e) = Words(e)
        BY <2>7, ConcatEmptySeq DEF Text
      <3>. QED BY <2>2, <2>4, <3>1, ConcatText, WordsConcat
    <2>9. (nl \o e) \o comma \in Text /\ Words((nl \o e) \o comma) = Words(e) \o <<Comma>>
      BY <2>4, <2>8, ConcatText, WordsConcat
    <2>10. /\ ((nl \o e) \o comma) \o inner \in Text
           /\ Words(((nl \o e) \o comma) \o inner) = Words(e) \o <<Comma>>
      <3>1. Words(e) \o <<Comma>> \in Text
        BY <2>7, TextOf, ConcatText
      <3>2. (Words(e) \o <<Comma>>) \o <<>> = Words(e) \o <<Comma>>
        BY <3>1, ConcatEmptySeq DEF Text
      <3>. QED BY <2>3, <2>9, <3>2, ConcatText, WordsConcat
    <2>11. Words((((nl \o e) \o comma) \o inner) \o open) = (Words(e) \o <<Comma>>) \o open
      BY <1>2, <2>10, WordsConcat
    <2>. QED BY <2>5, <2>6, <2>7, <2>11
  <1>7. FlattenSeq([i \in 1..Len(ss) |-> Words(ss[i])]) = FlattenSeq([i \in 1..m |-> said(i)])
    <2>. HIDE DEF text, said, m
    <2>1. Len(ss) = m /\ \A i \in 1..m : ss[i] = text(i)
      BY <1>1
    <2>2. \A i \in 1..m : Words(ss[i]) = said(i)
      BY <1>6, <2>1
    <2>. HIDE DEF ss
    <2>3. [i \in 1..Len(ss) |-> Words(ss[i])] = [i \in 1..m |-> said(i)]
      BY <2>1, <2>2
    <2>. QED BY <2>3
  <1>. HIDE DEF ss, indent, open, close
  <1>8. Words(FlattenSeq(ss)) = FlattenSeq([i \in 1..m |-> said(i)])
    BY <1>4, <1>7, WordsFlat DEF WordsFlatly
  <1>9. indent \o open \in Text /\ Words(indent \o open) = open
    <2>1. <<>> \o open = open
      BY <1>2, ConcatEmptySeq DEF Text
    <2>. QED BY <1>2, <2>1, ConcatText, WordsConcat
  <1>10. /\ (indent \o open) \o FlattenSeq(ss) \in Text
         /\ Words((indent \o open) \o FlattenSeq(ss)) = open \o Words(FlattenSeq(ss))
    BY <1>4, <1>9, ConcatText, WordsConcat
  <1>11. Words(((indent \o open) \o FlattenSeq(ss)) \o close)
           = (open \o Words(FlattenSeq(ss))) \o close
    BY <1>5, <1>10, WordsConcat
  <1>12. Words(PrintNode[n][d]) = (open \o FlattenSeq([i \in 1..m |-> said(i)])) \o close
    <2>. HIDE DEF said, m
    <2>. QED BY <1>3, <1>8, <1>11
  <1>. QED BY <1>6, <1>12 DEF open, close

\* The depth is not in the words.
SaidAlike(n) == \A d, e \in Nat : Words(PrintNode[n][d]) = Words(PrintNode[n][e])

LEMMA CellAlike ==
  ASSUME NEW T, T \subseteq Trees, \A c \in T : SaidAlike(c), NEW p \in Cells(T),
         NEW d \in Nat, NEW e \in Nat
  PROVE  Said(p, d) = Said(p, e)
  <1>1. CASE p = Null
    BY <1>1, PartIs DEF Said
  <1>2. ASSUME NEW w \in Word, p = Symbol(w) PROVE Said(p, d) = Said(p, e)
    <2>1. ASSUME NEW k \in Nat PROVE Said(p, k) = <<w>>
      <3>1. Said(p, k) = Words(Indent(k) \o <<w>>)
        BY <1>2, PartIs DEF Said
      <3>2. Words(Indent(k) \o <<w>>) = Words(Indent(k)) \o Words(<<w>>)
        BY TextOf, WordsConcat
      <3>3. Words(Indent(k)) = <<>> /\ Words(<<w>>) = <<w>> /\ <<>> \o <<w>> = <<w>>
        <4>1. <<w>> \in Text
          BY TextOf
        <4>. QED BY <4>1, WordsOf, ConcatEmptySeq DEF Text
      <3>. QED BY <3>1, <3>2, <3>3
    <2>. QED BY <2>1
  <1>3. CASE p \in T
    <2>1. p \in Trees
      BY <1>3
    <2>2. \A k : PrintPart(PrintNode, p, k) = PrintNode[p][k]
      BY <2>1, PartIs
    <2>3. Words(PrintNode[p][d]) = Words(PrintNode[p][e])
      BY <1>3 DEF SaidAlike
    <2>. QED BY <2>2, <2>3 DEF Said
  <1>. QED BY <1>1, <1>2, <1>3 DEF Cells

LEMMA AlikeTrees == \A n \in Trees : SaidAlike(n)
  <1>. DEFINE G == {n \in Trees : SaidAlike(n)}
  <1>1. ASSUME NEW n \in Trees, Children(n) \subseteq G PROVE n \in G
    <2>1. Children(n) \subseteq Trees /\ \A c \in Children(n) : SaidAlike(c)
      BY <1>1 DEF Children
    <2>. SUFFICES ASSUME NEW d \in Nat, NEW e \in Nat
                  PROVE  Words(PrintNode[n][d]) = Words(PrintNode[n][e])
      BY DEF SaidAlike
    <2>2. CASE n.class \notin Lists
      <3>. DEFINE ps == Below(n)
                  said(k) == [i \in 1..Len(ps) |-> (IF i = 1 THEN <<>> ELSE <<Comma>>) \o Said(ps[i], k)]
      <3>1. ps \in Seq(Cells(Children(n))) /\ ps \in Seq(Cells(Trees)) /\ d + 1 \in Nat /\ e + 1 \in Nat
        BY BelowIs, CellsGrow
      <3>. HIDE DEF ps
      <3>2. \A i \in 1..Len(ps) : Said(ps[i], d + 1) = Said(ps[i], e + 1)
        <4>1. \A i \in 1..Len(ps) : ps[i] \in Cells(Children(n))
          BY <3>1, ElementOfSeq
        <4>. QED BY <2>1, <3>1, <4>1, CellAlike
      <3>3. said(d + 1) = said(e + 1)
        BY <3>2
      <3>4. /\ Words(Lines(PrintNode, ps, d + 1)) = FlattenSeq(said(d + 1))
            /\ Words(Lines(PrintNode, ps, e + 1)) = FlattenSeq(said(e + 1))
        BY <3>1, LineWords
      <3>. HIDE DEF said
      <3>5. Words(Lines(PrintNode, ps, d + 1)) = Words(Lines(PrintNode, ps, e + 1))
        BY <3>3, <3>4
      <3>. QED BY <2>2, <3>5, NodeWords DEF ps
    <2>3. CASE n.class \in Lists
      <3>. DEFINE es == n.parts
                  said(k) == [i \in 1..Len(es) |->
                                ElementSaid(es[i], k + i) \o <<Comma>> \o <<Kind[n.class], "(">>]
      <3>1. es \in Seq(Children(n) \union {Null}) /\ Len(es) \in Nat
        BY <2>3, ElementsAre
      <3>2. \A i \in 1..Len(es) : ElementSaid(es[i], d + i) = ElementSaid(es[i], e + i)
        <4>. SUFFICES ASSUME NEW i \in 1..Len(es)
                      PROVE  ElementSaid(es[i], d + i) = ElementSaid(es[i], e + i)
          OBVIOUS
        <4>1. es[i] \in Children(n) \union {Null} /\ d + i \in Nat /\ e + i \in Nat
          BY <3>1, ElementOfSeq
        <4>2. CASE es[i] = Null
          BY <4>2 DEF ElementSaid, Element
        <4>3. CASE es[i] # Null
          <5>1. es[i] \in Cells(Children(n))
            BY <4>1, <4>3 DEF Cells
          <5>2. Said(es[i], d + i) = Said(es[i], e + i)
            BY <2>1, <4>1, <5>1, CellAlike
          <5>. QED BY <4>3, <5>2 DEF ElementSaid, Element, Said
        <4>. QED BY <4>2, <4>3
      <3>3. said(d) = said(e)
        BY <3>2
      <3>. HIDE DEF said
      <3>4. \A k \in Nat : Words(PrintNode[n][k])
                             = (<<Kind[n.class], "(">> \o FlattenSeq(said(k))) \o Closing(n)
        BY <2>3, ListWords DEF said
      <3>. QED BY <3>3, <3>4
    <2>. QED BY <2>2, <2>3
  <1>2. Trees \subseteq G
    <2>. HIDE DEF G
    <2>. QED BY <1>1, TreeInduction
  <1>. QED BY <1>2

-----------------------------------------------------------------------------
(* What each node says, and that it says no other *)


\* The first word is the first, and what follows it follows.
LEMMA Peel ==
  ASSUME NEW v \in Word \union Marks, NEW w \in Word \union Marks, NEW s \in Text, NEW t \in Text,
         <<v>> \o s = <<w>> \o t
  PROVE  v = w /\ s = t
  <1>1. <<v>> \in Text /\ <<w>> \in Text
    BY DEF Text
  <1>2. (<<v>> \o s)[1] = v /\ (<<w>> \o t)[1] = w
    BY <1>1, One, ConcatProperties DEF Text
  <1>3. v = w
    BY <1>2
  <1>4. <<v>> \o s = <<v>> \o t
    BY <1>3
  <1>5. s = t
    BY <1>1, <1>4, ConcatSimplifications DEF Text
  <1>. QED BY <1>3, <1>5

Peels(v, w, s, t) == <<v>> \o s = <<w>> \o t => v = w /\ s = t

LEMMA PeelIs == \A v, w \in Word \union Marks : \A s, t \in Text : Peels(v, w, s, t)
  BY Peel DEF Peels

\* The words of a node, whatever the depth.
Told(n) == Words(PrintNode[n][0])

LEMMA ToldIn == \A n \in Trees : Told(n) \in Text
  <1>. SUFFICES ASSUME NEW n \in Trees PROVE Told(n) \in Text
    OBVIOUS
  <1>1. PrintNode[n][0] \in Text
    BY PrintNodeIs DEF Prints
  <1>. QED BY <1>1, WordsIs DEF Told

LEMMA SaidIs ==
  ASSUME NEW d \in Nat
  PROVE  /\ Said(Null, d) = <<>>
         /\ \A w \in Word : Said(Symbol(w), d) = <<w>>
         /\ \A n \in Trees : Said(n, d) = Told(n)
         /\ \A p \in Cells(Trees) : Said(p, d) \in Text
  <1>1. Said(Null, d) = <<>>
    BY PartIs, WordsOf DEF Said
  <1>2. ASSUME NEW w \in Word PROVE Said(Symbol(w), d) = <<w>>
    <2>1. Said(Symbol(w), d) = Words(Indent(d) \o <<w>>)
      BY PartIs DEF Said
    <2>2. Words(Indent(d) \o <<w>>) = Words(Indent(d)) \o Words(<<w>>)
      BY TextOf, WordsConcat
    <2>3. Words(Indent(d)) = <<>> /\ Words(<<w>>) = <<w>> /\ <<>> \o <<w>> = <<w>>
      <3>1. <<w>> \in Text
        BY TextOf
      <3>. QED BY <3>1, WordsOf, ConcatEmptySeq DEF Text
    <2>. QED BY <2>1, <2>2, <2>3
  <1>3. ASSUME NEW n \in Trees PROVE Said(n, d) = Told(n)
    <2>1. PrintPart(PrintNode, n, d) = PrintNode[n][d]
      BY PartIs
    <2>2. Words(PrintNode[n][d]) = Words(PrintNode[n][0])
      BY AlikeTrees DEF SaidAlike
    <2>. QED BY <2>1, <2>2 DEF Said, Told
  <1>4. ASSUME NEW p \in Cells(Trees) PROVE Said(p, d) \in Text
    <2>1. p = Null \/ p \in Trees \/ \E w \in Word : p = Symbol(w)
      BY DEF Cells
    <2>. QED BY <1>1, <1>2, <1>3, <2>1, TextOf, ToldIn
  <1>. QED BY <1>1, <1>2, <1>3, <1>4

\* The words of an element of a list.
LEMMA ElementSaidIs ==
  ASSUME NEW d \in Nat
  PROVE  /\ ElementSaid(Null, d) = <<"efield", "(", ")">>
         /\ \A n \in Trees : ElementSaid(n, d) = Told(n)
         /\ \A e \in Trees \union {Null} : ElementSaid(e, d) \in Text
  <1>1. ElementSaid(Null, d) = <<"efield", "(", ")">>
    BY WordsOf DEF ElementSaid, Element
  <1>2. ASSUME NEW n \in Trees PROVE ElementSaid(n, d) = Told(n)
    <2>1. n # Null
      BY CellKinds
    <2>2. Said(n, d) = Told(n)
      BY SaidIs
    <2>. QED BY <2>1, <2>2 DEF ElementSaid, Element, Said
  <1>3. Kind["EField"] = "efield" /\ "EField" \in DOMAIN Kind
    BY DEF Kind
  <1>4. <<"efield", "(", ")">> \in Text
    BY <1>3, KindWord, TextOf
  <1>. QED BY <1>1, <1>2, <1>4, ToldIn

\* A line with the comma before it, and an element with what follows it.
Line == [p \in Cells(Trees) |-> <<Comma>> \o Said(p, 0)]
Item(w) == [e \in Trees \union {Null} |-> (ElementSaid(e, 0) \o <<Comma>>) \o <<w, "(">>]

LEMMA LineIs ==
  /\ EachLaw(Cells(Trees), Word \union Marks, Line)
  /\ \A p \in Cells(Trees) : Line[p] = <<Comma>> \o Said(p, 0) /\ Line[p] \in Text
  <1>1. \A p \in Cells(Trees) : <<Comma>> \o Said(p, 0) \in Text
    <2>1. 0 \in Nat
      OBVIOUS
    <2>. QED BY <2>1, SaidIs, TextOf, ConcatText
  <1>2. Line \in [Cells(Trees) -> Text]
    BY <1>1 DEF Line
  <1>3. \A p \in Cells(Trees) : Line[p] = <<Comma>> \o Said(p, 0)
    BY DEF Line
  <1>4. EachLaw(Cells(Trees), Word \union Marks, Line)
    BY <1>2, EachIs DEF Text
  <1>. QED BY <1>1, <1>3, <1>4

LEMMA ItemIs ==
  ASSUME NEW w \in Word
  PROVE  /\ EachLaw(Trees \union {Null}, Word \union Marks, Item(w))
         /\ \A e \in Trees \union {Null} :
              Item(w)[e] = (ElementSaid(e, 0) \o <<Comma>>) \o <<w, "(">>
  <1>1. \A e \in Trees \union {Null} : (ElementSaid(e, 0) \o <<Comma>>) \o <<w, "(">> \in Text
    <2>1. 0 \in Nat
      OBVIOUS
    <2>. QED BY <2>1, ElementSaidIs, TextOf, ConcatText
  <1>2. Item(w) \in [Trees \union {Null} -> Text]
    BY <1>1 DEF Item
  <1>3. \A e \in Trees \union {Null} :
          Item(w)[e] = (ElementSaid(e, 0) \o <<Comma>>) \o <<w, "(">>
    BY DEF Item
  <1>4. EachLaw(Trees \union {Null}, Word \union Marks, Item(w))
    BY <1>2, EachIs DEF Text
  <1>. QED BY <1>3, <1>4

\* The lines, when a comma is put before the first.
LEMMA LinesSaid ==
  ASSUME NEW ps \in Seq(Cells(Trees)), ps # <<>>, NEW d \in Nat
  PROVE  <<Comma>> \o Words(Lines(PrintNode, ps, d)) = Each(Line, ps)
  <1>. DEFINE p == Head(ps)
              qs == Tail(ps)
              C == Cells(Trees)
              said(i) == (IF i = 1 THEN <<>> ELSE <<Comma>>) \o Said(ps[i], d)
              M == [i \in 1..Len(ps) |-> said(i)]
              X == [i \in 1..Len(qs) |-> Line[qs[i]]]
              x == Said(p, 0)
  <1>1. /\ p \in C /\ qs \in Seq(C) /\ <<p>> \in Seq(C) /\ Len(qs) = Len(ps) - 1
        /\ ps = <<p>> \o qs /\ ps[1] = p /\ Len(ps) \in Nat \ {0}
        /\ \A i \in 1..Len(qs) : qs[i] = ps[i + 1]
    <2>1. p \in C /\ qs \in Seq(C) /\ Len(qs) = Len(ps) - 1
          /\ \A i \in 1..Len(qs) : qs[i] = ps[i + 1]
      BY HeadTailProperties
    <2>2. ps = <<p>> \o qs /\ ps[1] = p /\ Len(ps) \in Nat \ {0}
      OBVIOUS
    <2>3. <<p>> \in Seq(C)
      BY <2>1
    <2>. QED BY <2>1, <2>2, <2>3
  <1>2. /\ Words(Lines(PrintNode, ps, d)) = FlattenSeq(M)
        /\ \A i \in 1..Len(ps) : Said(ps[i], d) \in Text
    BY LineWords
  <1>3. x \in Text /\ \A q \in C : Said(q, d) = Said(q, 0)
    <2>1. \A c \in Trees : SaidAlike(c)
      BY AlikeTrees
    <2>2. \A q \in C : Said(q, d) = Said(q, 0)
      BY <2>1, CellAlike
    <2>3. x \in Text
      BY <1>1, SaidIs
    <2>. QED BY <2>2, <2>3
  <1>4. X \in Seq(Text) /\ Len(X) = Len(qs) /\ \A i \in 1..Len(qs) : X[i] = Line[qs[i]]
    <2>1. \A i \in 1..Len(qs) : Line[qs[i]] \in Text
      BY <1>1, LineIs, ElementOfSeq
    <2>2. Len(qs) \in Nat
      BY <1>1
    <2>. HIDE DEF qs
    <2>. QED BY <2>1, <2>2
  <1>5. M = <<x>> \o X
    <2>. DEFINE Y == <<x>> \o X
    <2>1. <<x>> \in Seq(Text) /\ Len(<<x>>) = 1 /\ <<x>>[1] = x
      BY <1>3
    <2>. HIDE DEF X, x, qs, p, C, said
    <2>2. /\ Y \in Seq(Text) /\ Len(Y) = 1 + Len(qs)
          /\ \A i \in 1..(1 + Len(qs)) : Y[i] = IF i <= 1 THEN <<x>>[i] ELSE X[i - 1]
      BY <1>4, <2>1, ConcatProperties
    <2>3. ASSUME NEW i \in 1..Len(ps) PROVE said(i) = Y[i]
      <3>1. CASE i = 1
        <4>1. said(1) = <<>> \o Said(p, d) /\ Said(p, d) = x /\ <<>> \o x = x
          BY <1>1, <1>3, ConcatEmptySeq DEF said, x, Text
        <4>2. Y[1] = x
          BY <1>1, <2>1, <2>2
        <4>. QED BY <3>1, <4>1, <4>2
      <3>2. CASE i # 1
        <4>1. i - 1 \in 1..Len(qs) /\ (i - 1) + 1 = i /\ ~(i <= 1) /\ i \in 1..(1 + Len(qs))
          BY <1>1, <3>2
        <4>2. Y[i] = Line[qs[i - 1]] /\ qs[i - 1] = ps[i]
          BY <1>1, <1>4, <2>2, <4>1
        <4>3. ps[i] \in C
          BY <1>1, <4>1, <4>2, ElementOfSeq
        <4>4. Line[ps[i]] = <<Comma>> \o Said(ps[i], 0)
          BY <4>3, LineIs DEF C
        <4>5. said(i) = <<Comma>> \o Said(ps[i], d)
          BY <3>2 DEF said
        <4>. QED BY <1>3, <4>2, <4>3, <4>4, <4>5
      <3>. QED BY <3>1, <3>2
    <2>4. Len(ps) = 1 + Len(qs)
      BY <1>1
    <2>5. M \in Seq(Text) /\ Len(M) = Len(ps) /\ \A i \in 1..Len(ps) : M[i] = Y[i]
      <3>1. \A i \in 1..Len(ps) : said(i) \in Text
        BY <2>2, <2>3, <2>4, ElementOfSeq
      <3>2. Len(ps) \in Nat
        BY <1>1
      <3>. HIDE DEF Y
      <3>. QED BY <2>3, <3>1, <3>2
    <2>. HIDE DEF M, Y
    <2>6. M = Y
      BY <2>2, <2>4, <2>5, SeqEqual
    <2>. QED BY <2>6 DEF Y
  <1>6. FlattenSeq(M) = x \o FlattenSeq(X) /\ FlattenSeq(X) \in Text
    <2>. HIDE DEF X, x, M
    <2>1. <<x>> \in Seq(Text)
      BY <1>3
    <2>2. FlattenSeq(<<x>> \o X) = FlattenSeq(<<x>>) \o FlattenSeq(X)
      BY <1>4, <2>1, FlatConcat DEF Text
    <2>3. FlattenSeq(<<x>>) = x
      BY <1>3, FlatOne DEF Text
    <2>4. FlattenSeq(X) \in Text
      BY <1>4, FlatIn DEF Text
    <2>. QED BY <1>5, <2>2, <2>3, <2>4
  <1>7. Each(Line, ps) = Line[p] \o Each(Line, qs)
    <2>. HIDE DEF p, qs
    <2>1. Each(Line, <<p>> \o qs) = Each(Line, <<p>>) \o Each(Line, qs) /\ Each(Line, <<p>>) = Line[p]
      BY <1>1, LineIs DEF EachLaw
    <2>. QED BY <1>1, <2>1
  <1>8. Each(Line, qs) = FlattenSeq(X)
    BY DEF Each
  <1>9. Line[p] = <<Comma>> \o x
    BY <1>1, LineIs
  <1>. HIDE DEF p, qs, C, M, X, x
  <1>10. <<Comma>> \o (x \o FlattenSeq(X)) = (<<Comma>> \o x) \o FlattenSeq(X)
    <2>1. <<Comma>> \in Text /\ x \in Text /\ FlattenSeq(X) \in Text
      BY <1>3, <1>6, TextOf
    <2>. QED
      <3>1. Regroups(<<Comma>>, x, FlattenSeq(X))
        BY <2>1, Assoc
      <3>. QED BY <3>1 DEF Regroups
  <1>. QED BY <1>2, <1>6, <1>7, <1>8, <1>9, <1>10

\* What a node that is no list says after its parenthesis.
OtherRest(n, r) ==
  /\ HeadWords(n) = <<>> /\ Below(n) = <<>> => r = <<")">>
  /\ HeadWords(n) = <<>> /\ Below(n) # <<>> => <<Comma>> \o r = Each(Line, Below(n)) \o <<")">>
  /\ \A w : HeadWords(n) = <<w>> => r = <<w>> \o (Each(Line, Below(n)) \o <<")">>)
SaysOther(n, r) == r \in Text /\ Told(n) = <<Kind[n.class]>> \o (<<"(">> \o r) /\ OtherRest(n, r)

LEMMA LinesIn0 ==
  ASSUME NEW n \in Trees
  PROVE  /\ Each(Line, Below(n)) \in Text /\ Words(Lines(PrintNode, Below(n), 1)) \in Text
         /\ Below(n) = <<>> => Each(Line, Below(n)) = <<>> /\ Words(Lines(PrintNode, Below(n), 1)) = <<>>
         /\ Below(n) # <<>> => <<Comma>> \o Words(Lines(PrintNode, Below(n), 1)) = Each(Line, Below(n))
  <1>. DEFINE ps == Below(n)
  <1>1. ps \in Seq(Cells(Trees)) /\ 1 \in Nat
    BY CellsGrow
  <1>. HIDE DEF ps
  <1>2. Each(Line, ps) \in Text /\ Each(Line, <<>>) = <<>>
    BY <1>1, LineIs DEF EachLaw, Text
  <1>3. Lines(PrintNode, ps, 1) \in Text
    BY <1>1, PrintNodeIs, LinesIn
  <1>4. Words(Lines(PrintNode, ps, 1)) \in Text
    BY <1>3, WordsIs
  <1>5. ps = <<>> => Words(Lines(PrintNode, ps, 1)) = <<>>
    <2>. SUFFICES ASSUME ps = <<>> PROVE Words(Lines(PrintNode, ps, 1)) = <<>>
      OBVIOUS
    <2>. DEFINE said(i) == (IF i = 1 THEN <<>> ELSE <<Comma>>) \o Said(ps[i], 1)
    <2>1. Words(Lines(PrintNode, ps, 1)) = FlattenSeq([i \in 1..Len(ps) |-> said(i)])
      BY <1>1, LineWords
    <2>. HIDE DEF said
    <2>2. [i \in 1..Len(ps) |-> said(i)] = <<>>
      OBVIOUS
    <2>. QED BY <2>1, <2>2, FlatNone
  <1>6. ps # <<>> => <<Comma>> \o Words(Lines(PrintNode, ps, 1)) = Each(Line, ps)
    BY <1>1, LinesSaid
  <1>. QED BY <1>2, <1>4, <1>5, <1>6 DEF ps

LEMMA OtherTold ==
  ASSUME NEW n \in Trees, n.class \notin Lists
  PROVE  \E r : SaysOther(n, r)
  <1>. DEFINE k == <<Kind[n.class]>>
              o == <<"(">>
              head == HeadWords(n)
              break == Words(IF Below(n) = <<>> THEN <<>> ELSE Break(n))
              lines == Words(Lines(PrintNode, Below(n), 1))
              each == Each(Line, Below(n))
              c == <<Comma>>
              close == <<")">>
  <1>1. Told(n) = (((<<Kind[n.class], "(">> \o head) \o break) \o lines) \o close
    <2>1. 0 \in Nat /\ 0 + 1 = 1
      OBVIOUS
    <2>. QED BY <2>1, NodeWords DEF Told
  <1>2. k \in Text /\ o \in Text /\ close \in Text /\ c \in Text /\ <<Kind[n.class], "(">> = k \o o
    <2>1. Kind[n.class] \in Word
      BY NodeIs, KindWord
    <2>2. "(" \in Word \union Marks
      BY MarksAre
    <2>3. o \in Text
      BY <2>2 DEF Text
    <2>. QED BY <2>1, <2>3, TextOf, Pair
  <1>3. head = <<>> \/ \E w \in Word : head = <<w>>
    BY HeadWordsIs
  <1>4. /\ each \in Text /\ lines \in Text
        /\ Below(n) = <<>> => each = <<>> /\ lines = <<>>
        /\ Below(n) # <<>> => c \o lines = each
    BY LinesIn0
  <1>5. /\ Below(n) = <<>> => break = <<>>
        /\ Below(n) # <<>> /\ head = <<>> => break = <<>>
        /\ Below(n) # <<>> /\ head # <<>> => break = c
    <2>1. Below(n) = <<>> => break = <<>>
      BY WordsOf
    <2>2. Below(n) # <<>> /\ head = <<>> => break = <<>>
      <3>1. head = <<>> => Break(n) = <<>> \o <<"\n">>
        BY BreakIs
      <3>2. <<>> \o <<"\n">> = <<"\n">>
        BY TextOf, ConcatEmptySeq DEF Text
      <3>. QED BY <3>1, <3>2, WordsOf
    <2>3. Below(n) # <<>> /\ head # <<>> => break = c
      <3>1. head # <<>> => Break(n) = <<Comma>> \o <<"\n">>
        BY BreakIs
      <3>2. <<Comma>> \o <<"\n">> = <<Comma, "\n">>
        BY Pair
      <3>. QED BY <3>1, <3>2, WordsOf
    <2>. QED BY <2>1, <2>2, <2>3
  <1>6. \A t \in Text : t \o <<>> = t /\ <<>> \o t = t
    BY ConcatEmptySeq DEF Text
  <1>7. k \o o \in Text
    BY <1>2, ConcatText
  <1>8. SUFFICES \E r \in Text : Told(n) = k \o (o \o r) /\ OtherRest(n, r)
    BY DEF SaysOther
  <1>. HIDE DEF k, o, break, lines, each, c, close
  <1>9. Told(n) = ((((k \o o) \o head) \o break) \o lines) \o close
    BY <1>1, <1>2
  <1>10. CASE head = <<>> /\ Below(n) = <<>>
    <2>1. Told(n) = (k \o o) \o close
      BY <1>4, <1>5, <1>6, <1>7, <1>9, <1>10
    <2>2. Told(n) = k \o (o \o close)
      <3>1. Regroups(k, o, close)
        BY <1>2, <2>1, Assoc
      <3>. QED BY <3>1, <2>1 DEF Regroups
    <2>3. \A w : <<w>> # <<>>
      BY One
    <2>4. OtherRest(n, close)
      BY <1>10, <2>3 DEF OtherRest, close
    <2>. QED BY <1>2, <2>2, <2>4
  <1>11. CASE head = <<>> /\ Below(n) # <<>>
    <2>1. Told(n) = ((k \o o) \o lines) \o close
      BY <1>4, <1>5, <1>6, <1>7, <1>9, <1>11
    <2>2. Told(n) = k \o (o \o (lines \o close))
      <3>1. ((k \o o) \o lines) \o close = (k \o o) \o (lines \o close)
        <4>1. Regroups(k \o o, lines, close)
          BY <1>2, <1>4, <1>7, Assoc
        <4>. QED BY <4>1 DEF Regroups
      <3>2. lines \o close \in Text
        BY <1>2, <1>4, ConcatText
      <3>3. (k \o o) \o (lines \o close) = k \o (o \o (lines \o close))
        <4>1. Regroups(k, o, lines \o close)
          BY <1>2, <3>2, Assoc
        <4>. QED BY <4>1 DEF Regroups
      <3>. QED BY <2>1, <3>1, <3>3
    <2>3. c \o (lines \o close) = each \o close
      <3>1. (c \o lines) \o close = c \o (lines \o close)
        <4>1. Regroups(c, lines, close)
          BY <1>2, <1>4, Assoc
        <4>. QED BY <4>1 DEF Regroups
      <3>. QED BY <1>4, <1>11, <3>1
    <2>4. \A w : <<w>> # <<>>
      BY One
    <2>5. OtherRest(n, lines \o close)
      BY <1>11, <2>3, <2>4 DEF OtherRest, close, each, c
    <2>6. lines \o close \in Text
      BY <1>2, <1>4, ConcatText
    <2>. QED BY <2>2, <2>5, <2>6
  <1>12. ASSUME NEW w \in Word, head = <<w>>
         PROVE  \E r \in Text : Told(n) = k \o (o \o r) /\ OtherRest(n, r)
    <2>. DEFINE v == <<w>>
                r == v \o (each \o close)
    <2>1. v \in Text /\ v # <<>>
      BY TextOf, One
    <2>2. head = v
      BY <1>12
    <2>. HIDE DEF v
    <2>3. (k \o o) \o v \in Text
      BY <1>7, <2>1, ConcatText
    <2>4. Told(n) = (((k \o o) \o v) \o each) \o close
      <3>1. CASE Below(n) = <<>>
        BY <1>4, <1>5, <1>6, <1>9, <2>2, <2>3, <3>1
      <3>2. CASE Below(n) # <<>>
        <4>1. Told(n) = ((((k \o o) \o v) \o c) \o lines) \o close
          BY <1>5, <1>9, <2>1, <2>2, <3>2
        <4>2. (((k \o o) \o v) \o c) \o lines = ((k \o o) \o v) \o (c \o lines)
          <5>1. Regroups((k \o o) \o v, c, lines)
            BY <1>2, <1>4, <2>3, Assoc
          <5>. QED BY <5>1 DEF Regroups
        <4>. QED BY <1>4, <3>2, <4>1, <4>2
      <3>. QED BY <3>1, <3>2
    <2>5. each \o close \in Text /\ r \in Text /\ o \o v \in Text
      BY <1>2, <1>4, <2>1, ConcatText
    <2>6. Told(n) = k \o (o \o r)
      <3>1. (((k \o o) \o v) \o each) \o close = ((k \o o) \o v) \o (each \o close)
        <4>1. Regroups((k \o o) \o v, each, close)
          BY <1>2, <1>4, <2>3, Assoc
        <4>. QED BY <4>1 DEF Regroups
      <3>2. ((k \o o) \o v) \o (each \o close) = (k \o o) \o (v \o (each \o close))
        <4>1. Regroups(k \o o, v, each \o close)
          BY <1>7, <2>1, <2>5, Assoc
        <4>. QED BY <4>1 DEF Regroups
      <3>. HIDE DEF r
      <3>3. (k \o o) \o r = k \o (o \o r)
        <4>1. Regroups(k, o, r)
          BY <1>2, <2>5, Assoc
        <4>. QED BY <4>1 DEF Regroups
      <3>. QED BY <2>4, <3>1, <3>2, <3>3 DEF r
    <2>7. \A u : head = <<u>> => u = w
      <3>1. \A u : <<u>>[1] = u
        BY One
      <3>. QED BY <1>12, <3>1
    <2>8. OtherRest(n, r)
      BY <1>12, <2>1, <2>2, <2>7 DEF OtherRest, each, close, v
    <2>. QED BY <2>5, <2>6, <2>8
  <1>. QED BY <1>3, <1>10, <1>11, <1>12

\* What a list says.
LEMMA ListTold ==
  ASSUME NEW n \in Trees, n.class \in Lists
  PROVE  Told(n) = <<Kind[n.class]>> \o (<<"(">> \o (Each(Item(Kind[n.class]), n.parts) \o Closing(n)))
  <1>. DEFINE w == Kind[n.class]
              es == n.parts
              said(i) == (ElementSaid(es[i], 0 + i) \o <<Comma>>) \o <<w, "(">>
              items == Each(Item(w), es)
              close == Closing(n)
              k == <<w>>
              o == <<"(">>
  <1>1. w \in Word /\ es \in Seq(Trees \union {Null})
    <2>1. w \in Word
      BY NodeIs, KindWord
    <2>2. es \in Seq(Trees \union {Null})
      BY ElementsAre
    <2>. QED BY <2>1, <2>2
  <1>2. Told(n) = (<<w, "(">> \o FlattenSeq([i \in 1..Len(es) |-> said(i)])) \o close
    <2>1. 0 \in Nat
      OBVIOUS
    <2>. QED BY <2>1, ListWords DEF Told
  <1>3. \A i \in 1..Len(es) : said(i) = Item(w)[es[i]]
    <2>. SUFFICES ASSUME NEW i \in 1..Len(es) PROVE said(i) = Item(w)[es[i]]
      OBVIOUS
    <2>1. es[i] \in Trees \union {Null} /\ 0 + i \in Nat /\ 0 \in Nat
      BY <1>1, ElementOfSeq
    <2>2. ElementSaid(es[i], 0 + i) = ElementSaid(es[i], 0)
      BY <2>1, ElementSaidIs
    <2>3. Item(w)[es[i]] = (ElementSaid(es[i], 0) \o <<Comma>>) \o <<w, "(">>
      BY <1>1, <2>1, ItemIs
    <2>. QED BY <2>2, <2>3
  <1>4. FlattenSeq([i \in 1..Len(es) |-> said(i)]) = items
    <2>. HIDE DEF said
    <2>1. [i \in 1..Len(es) |-> said(i)] = [i \in 1..Len(es) |-> Item(w)[es[i]]]
      BY <1>3
    <2>. QED BY <2>1 DEF Each
  <1>5. items \in Text
    <2>. HIDE DEF w, es
    <2>1. EachLaw(Trees \union {Null}, Word \union Marks, Item(w))
      BY <1>1, ItemIs
    <2>. QED BY <1>1, <2>1 DEF EachLaw, Text
  <1>6. close \in Text
    BY ClosingIn
  <1>7. k \in Text /\ o \in Text /\ <<w, "(">> = k \o o /\ k \o o \in Text
    <2>1. "(" \in Word \union Marks
      BY MarksAre
    <2>2. o \in Text
      BY <2>1 DEF Text
    <2>3. k \in Text
      BY <1>1, TextOf
    <2>. QED BY <2>2, <2>3, Pair, ConcatText
  <1>8. Told(n) = ((k \o o) \o items) \o close
    BY <1>2, <1>4, <1>7
  <1>. HIDE DEF k, o, items, close
  <1>9. ((k \o o) \o items) \o close = (k \o o) \o (items \o close)
    <2>1. Regroups(k \o o, items, close)
      BY <1>5, <1>6, <1>7, Assoc
    <2>. QED BY <2>1 DEF Regroups
  <1>10. items \o close \in Text
    BY <1>5, <1>6, ConcatText
  <1>11. (k \o o) \o (items \o close) = k \o (o \o (items \o close))
    <2>1. Regroups(k, o, items \o close)
      BY <1>7, <1>10, Assoc
    <2>. QED BY <2>1 DEF Regroups
  <1>. QED BY <1>8, <1>9, <1>11 DEF k, o, items, close

LEMMA KindOnce == \A b, c \in DOMAIN Kind : Kind[b] = Kind[c] => b = c
  BY DEF Kind

\* No other node says what n says, whatever is said after.
Decodes(n) ==
  \A m \in Trees : \A s, t \in Text : Told(n) \o s = Told(m) \o t => n = m /\ s = t

\* What can come after a line.
Ends(s) == \E c \in {Comma, ")"} : \E u \in Text : s = <<c>> \o u

LEMMA ToldFront ==
  ASSUME NEW n \in Trees, NEW s \in Text
  PROVE  \E r \in Text : Told(n) \o s = <<Kind[n.class]>> \o (<<"(">> \o r)
  <1>. DEFINE k == <<Kind[n.class]>>
              o == <<"(">>
  <1>1. k \in Text /\ o \in Text
    <2>1. "(" \in Word \union Marks
      BY MarksAre
    <2>2. Kind[n.class] \in Word
      BY NodeIs, KindWord
    <2>. QED BY <2>1, <2>2 DEF Text
  <1>2. \E r \in Text : Told(n) = k \o (o \o r)
    <2>1. CASE n.class \in Lists
      <3>. DEFINE items == Each(Item(Kind[n.class]), n.parts)
                  r == items \o Closing(n)
      <3>1. items \in Text
        <4>1. Kind[n.class] \in Word
          BY NodeIs, KindWord
        <4>2. EachLaw(Trees \union {Null}, Word \union Marks, Item(Kind[n.class]))
          BY <4>1, ItemIs
        <4>3. n.parts \in Seq(Trees \union {Null})
          BY <2>1, ElementsAre
        <4>. QED BY <4>2, <4>3 DEF EachLaw, Text
      <3>2. Closing(n) \in Text
        BY ClosingIn
      <3>. HIDE DEF items
      <3>3. r \in Text
        BY <3>1, <3>2, ConcatText
      <3>4. Told(n) = k \o (o \o r)
        BY <2>1, ListTold DEF items
      <3>. QED BY <3>3, <3>4
    <2>2. CASE n.class \notin Lists
      BY <2>2, OtherTold DEF SaysOther
    <2>. QED BY <2>1, <2>2
  <1>3. PICK r \in Text : Told(n) = k \o (o \o r)
    BY <1>2
  <1>. HIDE DEF k, o
  <1>4. (k \o (o \o r)) \o s = k \o ((o \o r) \o s)
    <2>1. o \o r \in Text
      BY <1>1, ConcatText
    <2>. QED
      <3>1. Regroups(k, o \o r, s)
        BY <1>1, <2>1, Assoc
      <3>. QED BY <3>1 DEF Regroups
  <1>5. (o \o r) \o s = o \o (r \o s)
    <2>1. Regroups(o, r, s)
      BY <1>1, Assoc
    <2>. QED BY <2>1 DEF Regroups
  <1>6. r \o s \in Text
    BY ConcatText
  <1>. QED BY <1>3, <1>4, <1>5, <1>6 DEF k, o

\* A cell is told from every other by what it says, if a mark comes after it.
LEMMA CellDecodes ==
  ASSUME NEW T, T \subseteq Trees, \A c \in T : Decodes(c),
         NEW p \in Cells(T), NEW q \in Cells(Trees), NEW s \in Text, NEW t \in Text,
         Ends(s), Ends(t), Said(p, 0) \o s = Said(q, 0) \o t
  PROVE  p = q /\ s = t
  <1>. DEFINE W == Word \union Marks
  <1>0. /\ 0 \in Nat /\ Said(Null, 0) = <<>>
        /\ \A w \in Word : Said(Symbol(w), 0) = <<w>>
        /\ \A n \in Trees : Said(n, 0) = Told(n)
    BY SaidIs
  <1>1. \A u \in Text : <<>> \o u = u
    BY ConcatEmptySeq DEF Text
  <1>2. PICK c \in {Comma, ")"}, u \in Text : s = <<c>> \o u
    BY DEF Ends
  <1>3. PICK e \in {Comma, ")"}, v \in Text : t = <<e>> \o v
    BY DEF Ends
  <1>4. c \in W /\ e \in W /\ c # "(" /\ e # "(" /\ "(" \in W /\ c \notin Word /\ e \notin Word
    BY MarksAre, WordsAreNoMarks
  <1>5. \A n \in Trees : Kind[n.class] \in Word /\ Kind[n.class] \in W
    BY NodeIs, KindWord
  <1>6. \A r \in Text : <<"(">> \o r \in Text
    <2>1. <<"(">> \in Text
      BY <1>4 DEF Text
    <2>. QED BY <2>1, ConcatText
  <1>7. p = Null \/ p \in T \/ \E w \in Word : p = Symbol(w)
    BY DEF Cells
  <1>8. q = Null \/ q \in Trees \/ \E w \in Word : q = Symbol(w)
    BY DEF Cells
  <1>. HIDE DEF W
  <1>9. CASE p = Null /\ q = Null
    BY <1>0, <1>1, <1>9
  <1>10. ASSUME p = Null, NEW w \in Word, q = Symbol(w) PROVE FALSE
    <2>1. <<c>> \o u = <<w>> \o t /\ w \in W
      BY <1>0, <1>1, <1>2, <1>10 DEF W
    <2>. QED BY <1>4, <2>1, Peel DEF W
  <1>11. ASSUME p = Null, q \in Trees PROVE FALSE
    <2>1. PICK r \in Text : Told(q) \o t = <<Kind[q.class]>> \o (<<"(">> \o r)
      BY <1>11, ToldFront
    <2>2. <<c>> \o u = <<Kind[q.class]>> \o (<<"(">> \o r)
      BY <1>0, <1>1, <1>2, <1>11, <2>1
    <2>. QED BY <1>4, <1>5, <1>6, <1>11, <2>2, Peel DEF W
  <1>12. ASSUME NEW w \in Word, p = Symbol(w), q = Null PROVE FALSE
    <2>1. <<w>> \o s = <<e>> \o v /\ w \in W
      BY <1>0, <1>1, <1>3, <1>12 DEF W
    <2>. QED BY <1>4, <2>1, Peel DEF W
  <1>13. ASSUME NEW w \in Word, p = Symbol(w), NEW x \in Word, q = Symbol(x)
         PROVE  p = q /\ s = t
    <2>1. <<w>> \o s = <<x>> \o t /\ w \in W /\ x \in W
      BY <1>0, <1>13 DEF W
    <2>2. w = x /\ s = t
      <3>1. Peels(w, x, s, t)
        BY <2>1, PeelIs DEF W
      <3>. QED BY <3>1, <2>1 DEF Peels
    <2>. QED BY <1>13, <2>2
  <1>14. ASSUME NEW w \in Word, p = Symbol(w), q \in Trees PROVE FALSE
    <2>1. PICK r \in Text : Told(q) \o t = <<Kind[q.class]>> \o (<<"(">> \o r)
      BY <1>14, ToldFront
    <2>2. <<w>> \o s = <<Kind[q.class]>> \o (<<"(">> \o r) /\ w \in W
      BY <1>0, <1>14, <2>1 DEF W
    <2>3. s = <<"(">> \o r
      <3>1. Kind[q.class] \in W /\ <<"(">> \o r \in Text
        BY <1>5, <1>6, <1>14
      <3>. DEFINE rest == <<"(">> \o r
                  kind == Kind[q.class]
      <3>2. <<w>> \o s = <<kind>> \o rest /\ w \in W /\ kind \in W /\ rest \in Text
        BY <2>2, <3>1
      <3>. HIDE DEF rest, kind
      <3>3. s = rest
        <4>1. Peels(w, kind, s, rest)
          BY <3>2, PeelIs DEF W
        <4>. QED BY <4>1, <3>2 DEF Peels
      <3>. QED BY <3>3 DEF rest
    <2>4. <<c>> \o u = <<"(">> \o r
      BY <1>2, <2>3
    <2>. QED BY <1>4, <2>4, Peel DEF W
  <1>15. ASSUME p \in T, q = Null PROVE FALSE
    <2>1. PICK r \in Text : Told(p) \o s = <<Kind[p.class]>> \o (<<"(">> \o r)
      BY <1>15, ToldFront
    <2>2. <<Kind[p.class]>> \o (<<"(">> \o r) = <<e>> \o v
      BY <1>0, <1>1, <1>3, <1>15, <2>1
    <2>. QED BY <1>4, <1>5, <1>6, <1>15, <2>2, Peel DEF W
  <1>16. ASSUME p \in T, NEW w \in Word, q = Symbol(w) PROVE FALSE
    <2>1. PICK r \in Text : Told(p) \o s = <<Kind[p.class]>> \o (<<"(">> \o r)
      BY <1>16, ToldFront
    <2>2. <<Kind[p.class]>> \o (<<"(">> \o r) = <<w>> \o t /\ w \in W
      BY <1>0, <1>16, <2>1 DEF W
    <2>3. <<"(">> \o r = t
      <3>1. Kind[p.class] \in W /\ <<"(">> \o r \in Text
        BY <1>5, <1>6, <1>16
      <3>. DEFINE rest == <<"(">> \o r
                  kind == Kind[p.class]
      <3>2. <<w>> \o t = <<kind>> \o rest
        BY <2>2
      <3>3. w \in W /\ kind \in W /\ rest \in Text
        BY <2>2, <3>1
      <3>. HIDE DEF rest, kind
      <3>4. t = rest
        <4>1. Peels(w, kind, t, rest)
          BY <3>3, PeelIs DEF W
        <4>. QED BY <4>1, <3>2 DEF Peels
      <3>. QED BY <3>4 DEF rest
    <2>4. <<"(">> \o r = <<e>> \o v
      BY <1>3, <2>3
    <2>. QED BY <1>4, <2>4, Peel DEF W
  <1>17. CASE p \in T /\ q \in Trees
    <2>1. Told(p) \o s = Told(q) \o t
      BY <1>0, <1>17
    <2>2. Decodes(p) /\ q \in Trees
      BY <1>17
    <2>. QED BY <2>1, <2>2 DEF Decodes
  <1>. QED BY <1>7, <1>8, <1>9, <1>10, <1>11, <1>12, <1>13, <1>14, <1>15, <1>16, <1>17

\* So are the lines below a node, which a parenthesis closes.
Closed(s) == <<")">> \o s
LinesDecode(ps) ==
  \A qs \in Seq(Cells(Trees)) : \A s, t \in Text :
    Each(Line, ps) \o Closed(s) = Each(Line, qs) \o Closed(t) => ps = qs /\ s = t

LEMMA LineFront ==
  ASSUME NEW p \in Cells(Trees), NEW ps \in Seq(Cells(Trees)), NEW s \in Text
  PROVE  /\ Each(Line, <<p>> \o ps) \o (<<")">> \o s)
              = <<Comma>> \o (Said(p, 0) \o (Each(Line, ps) \o (<<")">> \o s)))
         /\ Each(Line, ps) \o (<<")">> \o s) \in Text /\ Said(p, 0) \in Text
         /\ Said(p, 0) \o (Each(Line, ps) \o (<<")">> \o s)) \in Text
  <1>. DEFINE c == <<Comma>>
              a == Said(p, 0)
              b == Each(Line, ps)
              e == <<")">> \o s
  <1>1. c \in Text /\ e \in Text
    BY TextOf, ConcatText
  <1>2. a \in Text
    <2>1. 0 \in Nat
      OBVIOUS
    <2>. QED BY <2>1, SaidIs
  <1>3. b \in Text
    BY LineIs DEF EachLaw, Text
  <1>4. Each(Line, <<p>> \o ps) = (c \o a) \o b
    <2>1. <<p>> \in Seq(Cells(Trees))
      OBVIOUS
    <2>2. Each(Line, <<p>> \o ps) = Each(Line, <<p>>) \o Each(Line, ps)
      BY <2>1, LineIs DEF EachLaw
    <2>3. Each(Line, <<p>>) = Line[p]
      BY LineIs DEF EachLaw
    <2>4. Line[p] = c \o a
      BY LineIs
    <2>. QED BY <2>2, <2>3, <2>4
  <1>. HIDE DEF a, b, c, e
  <1>5. ((c \o a) \o b) \o e = (c \o a) \o (b \o e)
    <2>1. c \o a \in Text
      BY <1>1, <1>2, ConcatText
    <2>. QED
      <3>1. Regroups(c \o a, b, e)
        BY <1>1, <1>3, <2>1, Assoc
      <3>. QED BY <3>1 DEF Regroups
  <1>6. b \o e \in Text
    BY <1>1, <1>3, ConcatText
  <1>7. (c \o a) \o (b \o e) = c \o (a \o (b \o e)) /\ a \o (b \o e) \in Text
    <2>. DEFINE f == b \o e
    <2>1. f \in Text
      BY <1>6
    <2>. HIDE DEF f
    <2>2. (c \o a) \o f = c \o (a \o f)
      <3>1. Regroups(c, a, f)
        BY <1>1, <1>2, <2>1, Assoc
      <3>. QED BY <3>1 DEF Regroups
    <2>3. a \o f \in Text
      BY <1>2, <2>1, ConcatText
    <2>. QED BY <2>2, <2>3 DEF f
  <1>. QED BY <1>2, <1>4, <1>5, <1>6, <1>7 DEF a, b, c, e

\* What comes after a line begins with a mark.
LEMMA LinesEnd ==
  ASSUME NEW ps \in Seq(Cells(Trees)), NEW s \in Text
  PROVE  Ends(Each(Line, ps) \o (<<")">> \o s))
  <1>1. CASE ps = <<>>
    <2>1. <<")">> \o s \in Text
      BY TextOf, ConcatText
    <2>2. Each(Line, <<>>) \o (<<")">> \o s) = <<")">> \o s
      BY <2>1, LineIs, ConcatEmptySeq DEF EachLaw, Text
    <2>. QED BY <1>1, <2>2 DEF Ends
  <1>2. CASE ps # <<>>
    <2>1. Head(ps) \in Cells(Trees) /\ Tail(ps) \in Seq(Cells(Trees))
      BY <1>2, HeadTailProperties
    <2>2. ps = <<Head(ps)>> \o Tail(ps)
      BY <1>2
    <2>. DEFINE p == Head(ps)
                r == Tail(ps)
                u == Said(p, 0) \o (Each(Line, r) \o (<<")">> \o s))
    <2>. HIDE DEF p, r
    <2>3. Each(Line, <<p>> \o r) \o (<<")">> \o s) = <<Comma>> \o u /\ u \in Text
      BY <2>1, LineFront DEF p, r
    <2>4. ps = <<p>> \o r
      BY <2>2 DEF p, r
    <2>. QED BY <2>3, <2>4 DEF Ends
  <1>. QED BY <1>1, <1>2

LEMMA LinesDecoded ==
  ASSUME NEW T, T \subseteq Trees, \A c \in T : Decodes(c)
  PROVE  \A ps \in Seq(Cells(T)) : LinesDecode(ps)
  <1>. DEFINE C == Cells(T)
              D == Cells(Trees)
              G == {ps \in Seq(C) : LinesDecode(ps)}
  <1>0. C \subseteq D /\ Seq(C) \subseteq Seq(D)
    <2>1. C \subseteq D
      BY DEF Cells
    <2>. HIDE DEF C, D
    <2>. QED BY <2>1, SeqMonotonic
  <1>1. \A u \in Text : <<>> \o u = u
    BY ConcatEmptySeq DEF Text
  <1>2. \A s \in Text : <<")">> \o s \in Text
    BY TextOf, ConcatText
  <1>3. Comma \in Word \union Marks /\ ")" \in Word \union Marks /\ Comma # ")"
    BY MarksAre
  <1>4. Each(Line, <<>>) = <<>>
    BY LineIs DEF EachLaw
  <1>5. ASSUME NEW qs \in Seq(D)
        PROVE  qs = <<>> \/ \E q \in D : \E r \in Seq(D) : qs = <<q>> \o r
    <2>1. qs # <<>> => Head(qs) \in D /\ Tail(qs) \in Seq(D)
      BY HeadTailProperties
    <2>2. qs # <<>> => qs = <<Head(qs)>> \o Tail(qs)
      OBVIOUS
    <2>. QED BY <2>1, <2>2
  <1>. HIDE DEF C, D
  <1>6. <<>> \in G
    <2>1. ASSUME NEW qs \in Seq(D), NEW s \in Text, NEW t \in Text,
                 Each(Line, <<>>) \o (<<")">> \o s) = Each(Line, qs) \o (<<")">> \o t)
          PROVE  <<>> = qs /\ s = t
      <3>1. Each(Line, <<>>) \o (<<")">> \o s) = <<")">> \o s
        BY <1>1, <1>2, <1>4
      <3>2. CASE qs = <<>>
        <4>1. <<")">> \o s = <<")">> \o t
          BY <1>1, <1>2, <1>4, <2>1, <3>1, <3>2
        <4>. QED BY <1>3, <3>2, <4>1, Peel
      <3>3. ASSUME NEW q \in D, NEW r \in Seq(D), qs = <<q>> \o r PROVE FALSE
        <4>. DEFINE u == Said(q, 0) \o (Each(Line, r) \o (<<")">> \o t))
        <4>1. Each(Line, <<q>> \o r) \o (<<")">> \o t) = <<Comma>> \o u /\ u \in Text
          BY LineFront DEF D
        <4>. HIDE DEF u
        <4>2. <<")">> \o s = <<Comma>> \o u
          BY <2>1, <3>1, <3>3, <4>1
        <4>. QED BY <1>3, <4>1, <4>2, Peel
      <3>. QED BY <1>5, <3>2, <3>3
    <2>2. LinesDecode(<<>>)
      BY <2>1 DEF LinesDecode, Closed, D
    <2>3. <<>> \in Seq(C)
      BY EmptySeq
    <2>. QED BY <2>2, <2>3
  <1>7. ASSUME NEW ps \in Seq(C), ps \in G, NEW p \in C PROVE <<p>> \o ps \in G
    <2>1. ASSUME NEW qs \in Seq(D), NEW s \in Text, NEW t \in Text,
                 Each(Line, <<p>> \o ps) \o (<<")">> \o s) = Each(Line, qs) \o (<<")">> \o t)
          PROVE  <<p>> \o ps = qs /\ s = t
      <3>. DEFINE a == Each(Line, ps) \o (<<")">> \o s)
      <3>1. p \in D /\ ps \in Seq(D)
        BY <1>0
      <3>2. Each(Line, <<p>> \o ps) \o (<<")">> \o s) = <<Comma>> \o (Said(p, 0) \o a)
            /\ a \in Text /\ Said(p, 0) \o a \in Text
        BY <3>1, LineFront DEF D
      <3>3. Ends(a)
        BY <3>1, LinesEnd DEF D
      <3>. HIDE DEF a
      <3>4. CASE qs = <<>>
        <4>1. Each(Line, qs) \o (<<")">> \o t) = <<")">> \o t
          BY <1>1, <1>2, <1>4, <3>4
        <4>2. <<Comma>> \o (Said(p, 0) \o a) = <<")">> \o t
          BY <2>1, <3>2, <4>1
        <4>. QED BY <1>3, <3>2, <4>2, Peel
      <3>5. ASSUME NEW q \in D, NEW r \in Seq(D), qs = <<q>> \o r
            PROVE  <<p>> \o ps = qs /\ s = t
        <4>. DEFINE b == Each(Line, r) \o (<<")">> \o t)
        <4>1. Each(Line, <<q>> \o r) \o (<<")">> \o t) = <<Comma>> \o (Said(q, 0) \o b)
              /\ b \in Text /\ Said(q, 0) \o b \in Text
          BY LineFront DEF D
        <4>2. Ends(b)
          BY LinesEnd DEF D
        <4>. HIDE DEF b
        <4>3. <<Comma>> \o (Said(p, 0) \o a) = <<Comma>> \o (Said(q, 0) \o b)
          BY <2>1, <3>2, <3>5, <4>1
        <4>4. Said(p, 0) \o a = Said(q, 0) \o b
          <5>. DEFINE x == Said(p, 0) \o a
                      y == Said(q, 0) \o b
          <5>1. x \in Text /\ y \in Text /\ <<Comma>> \o x = <<Comma>> \o y
            BY <3>2, <4>1, <4>3
          <5>. HIDE DEF x, y
          <5>2. Peels(Comma, Comma, x, y)
            BY <1>3, <5>1, PeelIs
          <5>3. x = y
            BY <5>1, <5>2 DEF Peels
          <5>. QED BY <5>3 DEF x, y
        <4>5. p = q /\ a = b
          BY <3>2, <3>3, <4>1, <4>2, <4>4, CellDecodes DEF C, D
        <4>6. ps = r /\ s = t
          <5>1. LinesDecode(ps)
            BY <1>7
          <5>2. Each(Line, ps) \o Closed(s) = Each(Line, r) \o Closed(t)
            BY <4>5 DEF a, b, Closed
          <5>. QED BY <5>1, <5>2 DEF LinesDecode, D
        <4>. QED BY <3>5, <4>5, <4>6
      <3>. QED BY <1>5, <3>4, <3>5
    <2>2. LinesDecode(<<p>> \o ps)
      BY <2>1 DEF LinesDecode, Closed, D
    <2>3. <<p>> \o ps \in Seq(C)
      OBVIOUS
    <2>. QED BY <2>2, <2>3
  <1>8. Seq(C) \subseteq G
    <2>. HIDE DEF G
    <2>. QED BY <1>6, <1>7, FrontInduction
  <1>. QED BY <1>8 DEF C

\* The text of an absent field is not that of a field.
LEMMA NullField ==
  ASSUME NEW s \in Text
  PROVE  <<"efield", "(", ")">> \o s = <<"efield">> \o (<<"(">> \o Closed(s))
  <1>. DEFINE a == <<"efield">>
              o == <<"(">>
              c == <<")">>
  <1>1. a \in Text /\ o \in Text /\ c \in Text
    <2>1. Kind["EField"] = "efield" /\ "EField" \in DOMAIN Kind
      BY DEF Kind
    <2>2. "efield" \in Word /\ "(" \in Word \union Marks
      BY <2>1, KindWord, MarksAre
    <2>. QED BY <2>2, TextOf DEF Text
  <1>2. <<"efield", "(", ")">> = (a \o o) \o c
    OBVIOUS
  <1>. HIDE DEF a, o, c
  <1>3. a \o o \in Text /\ c \o s \in Text
    BY <1>1, ConcatText
  <1>4. ((a \o o) \o c) \o s = (a \o o) \o (c \o s)
    <2>1. Regroups(a \o o, c, s)
      BY <1>1, <1>3, Assoc
    <2>. QED BY <2>1 DEF Regroups
  <1>5. (a \o o) \o (c \o s) = a \o (o \o (c \o s))
    <2>1. Regroups(a, o, c \o s)
      BY <1>1, <1>3, Assoc
    <2>. QED BY <2>1 DEF Regroups
  <1>. QED BY <1>2, <1>4, <1>5 DEF a, o, c, Closed

LEMMA ClosedIn == \A s \in Text : Closed(s) \in Text
  BY TextOf, ConcatText DEF Closed

LEMMA OpenIn == \A s \in Text : <<"(">> \o s \in Text
  <1>1. "(" \in Word \union Marks
    BY MarksAre
  <1>2. <<"(">> \in Text
    BY <1>1 DEF Text
  <1>. QED BY <1>2, ConcatText

LEMMA NullIsNoNode ==
  ASSUME NEW m \in Trees, NEW s \in Text, NEW t \in Text,
         <<"efield", "(", ")">> \o s = Told(m) \o t
  PROVE  FALSE
  <1>. DEFINE W == Word \union Marks
              k == Kind[m.class]
              e == "efield"
  <1>1. e = Kind["EField"] /\ "EField" \in DOMAIN Kind /\ m.class \in DOMAIN Kind
    BY NodeIs DEF Kind
  <1>2. e \in W /\ k \in W /\ "(" \in W /\ ")" \in W
    BY <1>1, KindWord, MarksAre
  <1>3. <<"efield", "(", ")">> \o s = <<e>> \o (<<"(">> \o Closed(s))
    BY NullField
  <1>4. Closed(s) \in Text /\ <<"(">> \o Closed(s) \in Text
    BY ClosedIn, OpenIn
  <1>5. m.class = "EField"
    <2>1. PICK r \in Text : Told(m) \o t = <<k>> \o (<<"(">> \o r)
      BY ToldFront
    <2>. DEFINE a == <<"(">> \o Closed(s)
                b == <<"(">> \o r
    <2>2. <<e>> \o a = <<k>> \o b
      BY <1>3, <2>1
    <2>3. a \in Text /\ b \in Text
      BY <1>4, OpenIn
    <2>4. e = k
      <3>. HIDE DEF a, b, W, e, k
      <3>. QED
        <4>1. Peels(e, k, a, b)
          BY <1>2, <2>3, PeelIs DEF W
        <4>. QED BY <4>1, <2>2 DEF Peels
    <2>. QED BY <1>1, <2>4, KindOnce
  <1>6. m.class \notin Lists /\ Named(m.class) /\ m.class \notin {"IntExp", "StringExp"}
    BY <1>5 DEF Lists, ElementOf, Named, Params
  <1>. DEFINE v == m.parts[1].leaf
  <1>7. HeadWords(m) = <<v>> /\ v \in Word
    BY <1>6, NamedIs DEF HeadWords, Word
  <1>8. PICK r : SaysOther(m, r)
    BY <1>6, OtherTold
  <1>. DEFINE x == Each(Line, Below(m)) \o <<")">>
  <1>9. x \in Text /\ <<v>> \in Text
    BY <1>7, LinesIn0, TextOf, ConcatText
  <1>. HIDE DEF x, k, e
  <1>10. r = <<v>> \o x /\ r \in Text /\ Told(m) = <<k>> \o (<<"(">> \o r)
    BY <1>7, <1>8 DEF SaysOther, OtherRest, x, k
  <1>. HIDE DEF v
  <1>11. <<k>> \in Text /\ <<"(">> \in Text
    BY <1>2 DEF Text
  <1>12. Told(m) \o t = <<k>> \o (<<"(">> \o (<<v>> \o (x \o t)))
    <2>. DEFINE o == <<"(">>
                kk == <<k>>
                vv == <<v>>
    <2>1. o \in Text /\ kk \in Text /\ vv \in Text
      BY <1>9, <1>11
    <2>2. Told(m) = kk \o (o \o r) /\ r = vv \o x
      BY <1>10
    <2>. HIDE DEF o, kk, vv
    <2>3. o \o r \in Text
      BY <1>10, <2>1, ConcatText
    <2>4. (kk \o (o \o r)) \o t = kk \o ((o \o r) \o t)
      <3>1. Regroups(kk, o \o r, t)
        BY <2>1, <2>3, Assoc
      <3>. QED BY <3>1 DEF Regroups
    <2>5. (o \o r) \o t = o \o (r \o t)
      <3>1. Regroups(o, r, t)
        BY <1>10, <2>1, Assoc
      <3>. QED BY <3>1 DEF Regroups
    <2>6. r \o t = vv \o (x \o t)
      <3>1. Regroups(vv, x, t)
        BY <1>9, <2>1, Assoc
      <3>. QED BY <3>1, <2>2 DEF Regroups
    <2>. QED BY <2>2, <2>4, <2>5, <2>6 DEF o, kk, vv
  <1>. DEFINE y == <<v>> \o (x \o t)
              z == Closed(s)
              oy == <<"(">> \o y
              oz == <<"(">> \o z
  <1>13. x \o t \in Text /\ y \in Text /\ z \in Text /\ oy \in Text /\ oz \in Text
    <2>1. x \o t \in Text
      BY <1>9, ConcatText
    <2>2. y \in Text
      BY <1>9, <2>1, ConcatText
    <2>. HIDE DEF y, z
    <2>. QED BY <1>4, <2>1, <2>2, OpenIn DEF z
  <1>14. <<e>> \o oz = <<k>> \o oy
    BY <1>3, <1>12
  <1>15. oz = oy
    <2>. HIDE DEF oz, oy
    <2>. QED
      <3>1. Peels(e, k, oz, oy)
        BY <1>2, <1>13, PeelIs
      <3>. QED BY <3>1, <1>14 DEF Peels
  <1>16. z = y
    <2>1. <<"(">> \o z = <<"(">> \o y
      BY <1>15
    <2>2. z \in Text /\ y \in Text /\ "(" \in Word \union Marks
      BY <1>2, <1>13
    <2>. HIDE DEF z, y
    <2>. QED
      <3>1. Peels("(", "(", z, y)
        BY <2>2, PeelIs
      <3>. QED BY <3>1, <2>1 DEF Peels
  <1>17. <<")">> \o s = <<v>> \o (x \o t)
    BY <1>16 DEF Closed
  <1>18. v \in W
    BY <1>7
  <1>19. ")" = v
    <2>. DEFINE xt == x \o t
    <2>1. xt \in Text /\ <<")">> \o s = <<v>> \o xt
      BY <1>13, <1>17
    <2>. HIDE DEF xt
    <2>. QED
      <3>1. Peels(")", v, s, xt)
        BY <1>2, <1>18, <2>1, PeelIs
      <3>. QED BY <3>1, <2>1 DEF Peels
  <1>. QED BY <1>7, <1>19, WordTurns

LEMMA ElementFront ==
  ASSUME NEW e \in Trees \union {Null}, NEW s \in Text
  PROVE  \E v \in Word : \E r \in Text : ElementSaid(e, 0) \o s = <<v>> \o r
  <1>0. 0 \in Nat
    OBVIOUS
  <1>1. CASE e = Null
    <2>1. Kind["EField"] = "efield" /\ "EField" \in DOMAIN Kind
      BY DEF Kind
    <2>2. "efield" \in Word /\ <<"(">> \o Closed(s) \in Text
      BY <2>1, KindWord, ClosedIn, OpenIn
    <2>3. ElementSaid(e, 0) \o s = <<"efield">> \o (<<"(">> \o Closed(s))
      BY <1>0, <1>1, ElementSaidIs, NullField
    <2>. QED BY <2>2, <2>3
  <1>2. CASE e \in Trees
    <2>1. PICK r \in Text : Told(e) \o s = <<Kind[e.class]>> \o (<<"(">> \o r)
      BY <1>2, ToldFront
    <2>2. ElementSaid(e, 0) = Told(e)
      BY <1>0, <1>2, ElementSaidIs
    <2>3. Kind[e.class] \in Word /\ <<"(">> \o r \in Text
      BY <1>2, NodeIs, KindWord, OpenIn
    <2>. QED BY <2>1, <2>2, <2>3
  <1>. QED BY <1>1, <1>2

LEMMA ElementDecodes ==
  ASSUME NEW T, T \subseteq Trees, \A c \in T : Decodes(c),
         NEW e \in T \union {Null}, NEW f \in Trees \union {Null}, NEW s \in Text, NEW t \in Text,
         ElementSaid(e, 0) \o s = ElementSaid(f, 0) \o t
  PROVE  e = f /\ s = t
  <1>0. /\ ElementSaid(Null, 0) = <<"efield", "(", ")">> /\ ElementSaid(Null, 0) \in Text
        /\ \A n \in Trees : ElementSaid(n, 0) = Told(n)
    <2>1. 0 \in Nat /\ Null \in Trees \union {Null}
      OBVIOUS
    <2>. QED BY <2>1, ElementSaidIs
  <1>1. CASE e = Null /\ f = Null
    <2>. DEFINE a == ElementSaid(Null, 0)
    <2>1. a \o s = a \o t /\ a \in Text
      BY <1>0, <1>1
    <2>. HIDE DEF a
    <2>2. s = t
      BY <2>1, ConcatSimplifications DEF Text
    <2>. QED BY <1>1, <2>2
  <1>2. ASSUME e = Null, f \in Trees PROVE FALSE
    BY <1>0, <1>2, NullIsNoNode
  <1>3. ASSUME e \in T, f = Null PROVE FALSE
    <2>1. e \in Trees /\ <<"efield", "(", ")">> \o t = Told(e) \o s
      BY <1>0, <1>3
    <2>. QED BY <2>1, NullIsNoNode
  <1>4. CASE e \in T /\ f \in Trees
    <2>1. Told(e) \o s = Told(f) \o t /\ Decodes(e)
      BY <1>0, <1>4
    <2>. QED BY <1>4, <2>1 DEF Decodes
  <1>. QED BY <1>1, <1>2, <1>3, <1>4

ElementDecode(e, f, s, t) ==
  ElementSaid(e, 0) \o s = ElementSaid(f, 0) \o t => e = f /\ s = t

LEMMA ElementsDecode ==
  ASSUME NEW T, T \subseteq Trees, \A c \in T : Decodes(c)
  PROVE  \A e \in T \union {Null}, f \in Trees \union {Null} : \A s, t \in Text :
           ElementDecode(e, f, s, t)
  BY ElementDecodes DEF ElementDecode

\* The parentheses that close a list.
Close(k) == [i \in 1..k |-> ")"]

LEMMA CloseIs ==
  /\ Close(0) = <<>>
  /\ \A k \in Nat : Close(k) \in Text /\ Close(k + 1) = Close(k) \o <<")">>
  <1>1. Close(0) = <<>>
    BY DEF Close
  <1>2. ASSUME NEW k \in Nat PROVE Close(k) \in Text /\ Close(k + 1) = Close(k) \o <<")">>
    <2>1. ")" \in Word \union Marks
      BY MarksAre
    <2>2. [i \in 1..k |-> ")"] \in Seq(Word \union Marks)
      BY <2>1, Few
    <2>3. Close(k + 1) = Close(k) \o <<")">>
      BY DEF Close
    <2>. QED BY <2>2, <2>3 DEF Close, Text
  <1>. QED BY <1>1, <1>2

\* The elements of a list, and what closes it.
Items(w, es, s) == Each(Item(w), es) \o (Close(Len(es)) \o Closed(s))
ItemsDecode(w, es) ==
  \A fs \in Seq(Trees \union {Null}) : \A s, t \in Text :
    Items(w, es, s) = Items(w, fs, t) => es = fs /\ s = t

FourAlike(s, t, u, v) == ((s \o t) \o u) \o v = s \o (t \o (u \o v))

LEMMA AssocFour ==
  ASSUME NEW s \in Text, NEW t \in Text, NEW u \in Text, NEW v \in Text
  PROVE  FourAlike(s, t, u, v)
  <1>. DEFINE st == s \o t
              uv == u \o v
  <1>1. st \in Text /\ uv \in Text
    BY ConcatText
  <1>2. (st \o u) \o v = st \o uv
    <2>. HIDE DEF st
    <2>. QED
      <3>1. Regroups(st, u, v)
        BY <1>1, Assoc
      <3>. QED BY <3>1 DEF Regroups, uv
  <1>3. st \o uv = s \o (t \o uv)
    <2>. HIDE DEF uv
    <2>. QED
      <3>1. Regroups(s, t, uv)
        BY <1>1, Assoc
      <3>. QED BY <3>1 DEF Regroups, st
  <1>. QED BY <1>2, <1>3 DEF FourAlike

LEMMA ItemsFront ==
  ASSUME NEW w \in Word, NEW s \in Text
  PROVE  /\ Items(w, <<>>, s) = Closed(s)
         /\ \A es \in Seq(Trees \union {Null}) : Items(w, es, s) \in Text
         /\ \A e \in Trees \union {Null} : \A es \in Seq(Trees \union {Null}) :
              Items(w, <<e>> \o es, s)
                = ElementSaid(e, 0) \o (<<Comma>> \o (<<w, "(">> \o Items(w, es, Closed(s))))
  <1>. DEFINE E == Trees \union {Null}
  <1>1. EachLaw(E, Word \union Marks, Item(w))
    BY ItemIs
  <1>2. \A es \in Seq(E) : Each(Item(w), es) \in Text
    BY <1>1 DEF EachLaw, Text
  <1>3. \A es \in Seq(E) : Len(es) \in Nat
    OBVIOUS
  <1>4. \A u \in Text : <<>> \o u = u
    BY ConcatEmptySeq DEF Text
  <1>5. Items(w, <<>>, s) = Closed(s)
    <2>1. Each(Item(w), <<>>) = <<>> /\ Len(<<>>) = 0 /\ Closed(s) \in Text
      BY <1>1, ClosedIn DEF EachLaw
    <2>. QED BY <1>4, <2>1, CloseIs DEF Items
  <1>6. \A u \in Text : \A es \in Seq(E) : Items(w, es, u) \in Text
    <2>. SUFFICES ASSUME NEW u \in Text, NEW es \in Seq(E) PROVE Items(w, es, u) \in Text
      OBVIOUS
    <2>1. Close(Len(es)) \in Text /\ Closed(u) \in Text /\ Each(Item(w), es) \in Text
      BY <1>2, <1>3, CloseIs, ClosedIn
    <2>. QED BY <2>1, ConcatText DEF Items
  <1>7. ASSUME NEW e \in E, NEW es \in Seq(E)
        PROVE  Items(w, <<e>> \o es, s)
                 = ElementSaid(e, 0) \o (<<Comma>> \o (<<w, "(">> \o Items(w, es, Closed(s))))
    <2>. DEFINE a == ElementSaid(e, 0)
                c == <<Comma>>
                o == <<w, "(">>
                b == Each(Item(w), es)
                k == Close(Len(es))
                p == <<")">>
                u == Closed(s)
                i == Items(w, es, u)
    <2>1. a \in Text /\ c \in Text /\ o \in Text /\ b \in Text /\ k \in Text /\ p \in Text
          /\ u \in Text
      <3>1. 0 \in Nat
        OBVIOUS
      <3>2. a \in Text
        BY <3>1, ElementSaidIs
      <3>. QED BY <1>2, <1>3, <3>2, TextOf, CloseIs, ClosedIn
    <2>2. <<e>> \in Seq(E) /\ Len(<<e>> \o es) = Len(es) + 1
      OBVIOUS
    <2>3. Each(Item(w), <<e>> \o es) = ((a \o c) \o o) \o b
      <3>1. Each(Item(w), <<e>> \o es) = Each(Item(w), <<e>>) \o Each(Item(w), es)
        BY <1>1, <2>2 DEF EachLaw
      <3>2. Each(Item(w), <<e>>) = Item(w)[e]
        BY <1>1 DEF EachLaw
      <3>3. Item(w)[e] = (a \o c) \o o
        BY ItemIs
      <3>. QED BY <3>1, <3>2, <3>3
    <2>4. Close(Len(<<e>> \o es)) = k \o p
      BY <1>3, <2>2, CloseIs
    <2>5. Items(w, <<e>> \o es, s) = (((a \o c) \o o) \o b) \o ((k \o p) \o u)
      BY <2>3, <2>4 DEF Items
    <2>6. i = b \o (k \o (p \o u))
      BY DEF Items, Closed
    <2>. HIDE DEF a, c, o, b, k, p, u
    <2>. DEFINE v == k \o (p \o u)
                ac == a \o c
                ov == o \o i
    <2>7. (k \o p) \o u = v /\ v \in Text
      <3>1. k \in Text /\ p \in Text /\ u \in Text
        BY <2>1
      <3>2. Regroups(k, p, u) /\ p \o u \in Text
        BY <3>1, Assoc, ConcatText
      <3>3. k \o (p \o u) \in Text
        BY <3>1, <3>2, ConcatText
      <3>. QED BY <3>2, <3>3 DEF Regroups, v
    <2>8. i = b \o v
      BY <2>6
    <2>. HIDE DEF v
    <2>9. ((ac \o o) \o b) \o v = ac \o ov
      <3>1. ac \in Text /\ o \in Text /\ b \in Text /\ v \in Text
        BY <2>1, <2>7, ConcatText
      <3>. HIDE DEF ac
      <3>2. FourAlike(ac, o, b, v)
        BY <3>1, AssocFour
      <3>. QED BY <2>8, <3>2 DEF FourAlike
    <2>10. ac \o ov = a \o (c \o ov)
      <3>1. b \o v \in Text
        BY <2>1, <2>7, ConcatText
      <3>2. ov \in Text /\ a \in Text /\ c \in Text
        BY <2>1, <2>8, <3>1, ConcatText
      <3>. HIDE DEF ov
      <3>. QED
        <4>1. Regroups(a, c, ov)
          BY <3>2, Assoc
        <4>. QED BY <4>1 DEF Regroups
    <2>11. Items(w, <<e>> \o es, s) = a \o (c \o (o \o i))
      BY <2>5, <2>7, <2>9, <2>10
    <2>. QED BY <2>11 DEF a, c, o, i, u
  <1>8. \A es \in Seq(E) : Items(w, es, s) \in Text
    BY <1>6
  <1>. QED BY <1>5, <1>7, <1>8

LEMMA ItemsDecoded ==
  ASSUME NEW T, T \subseteq Trees, \A c \in T : Decodes(c), NEW w \in Word
  PROVE  \A es \in Seq(T \union {Null}) : ItemsDecode(w, es)
  <1>. DEFINE D == T \union {Null}
              E == Trees \union {Null}
              G == {es \in Seq(D) : ItemsDecode(w, es)}
              W == Word \union Marks
  <1>1. D \subseteq E /\ Seq(D) \subseteq Seq(E)
    <2>1. D \subseteq E
      OBVIOUS
    <2>. HIDE DEF D, E
    <2>. QED BY <2>1, SeqMonotonic
  <1>2. ASSUME NEW fs \in Seq(E)
        PROVE  fs = <<>> \/ \E f \in E : \E r \in Seq(E) : fs = <<f>> \o r
    <2>. HIDE DEF E
    <2>1. fs # <<>> => Head(fs) \in E /\ Tail(fs) \in Seq(E)
      BY HeadTailProperties
    <2>2. fs # <<>> => fs = <<Head(fs)>> \o Tail(fs)
      OBVIOUS
    <2>. QED BY <2>1, <2>2
  <1>3. ")" \in W /\ \A v \in Word : v \in W /\ v # ")"
    BY MarksAre, WordTurns
  <1>4. ASSUME NEW f \in E, NEW r \in Seq(E), NEW s \in Text, NEW t \in Text,
               Closed(s) = Items(w, <<f>> \o r, t)
        PROVE  FALSE
    <2>. DEFINE rest == <<Comma>> \o (<<w, "(">> \o Items(w, r, Closed(t)))
    <2>1. rest \in Text
      <3>1. Items(w, r, Closed(t)) \in Text
        BY ClosedIn, ItemsFront
      <3>2. <<w, "(">> \o Items(w, r, Closed(t)) \in Text
        BY <3>1, TextOf, ConcatText
      <3>. QED BY <3>2, TextOf, ConcatText
    <2>2. Items(w, <<f>> \o r, t) = ElementSaid(f, 0) \o rest
      BY ItemsFront
    <2>. HIDE DEF rest
    <2>3. PICK v \in Word, u \in Text : ElementSaid(f, 0) \o rest = <<v>> \o u
      BY <2>1, ElementFront
    <2>4. <<")">> \o s = <<v>> \o u
      BY <1>4, <2>2, <2>3 DEF Closed
    <2>5. v \in W
      BY <1>3
    <2>. QED BY <1>3, <2>4, <2>5, Peel
  <1>5. ASSUME NEW s \in Text, NEW t \in Text, Closed(s) = Closed(t) PROVE s = t
    <2>1. <<")">> \o s = <<")">> \o t
      BY <1>5 DEF Closed
    <2>. QED BY <1>3, <2>1, Peel
  <1>. HIDE DEF D, E
  <1>6. <<>> \in G
    <2>1. ASSUME NEW fs \in Seq(E), NEW s \in Text, NEW t \in Text,
                 Items(w, <<>>, s) = Items(w, fs, t)
          PROVE  <<>> = fs /\ s = t
      <3>1. Items(w, <<>>, s) = Closed(s) /\ Items(w, <<>>, t) = Closed(t)
        BY ItemsFront
      <3>2. CASE fs = <<>>
        BY <1>5, <2>1, <3>1, <3>2
      <3>3. ASSUME NEW f \in E, NEW r \in Seq(E), fs = <<f>> \o r PROVE FALSE
        BY <1>4, <2>1, <3>1, <3>3
      <3>. QED BY <1>2, <3>2, <3>3
    <2>2. ItemsDecode(w, <<>>)
      BY <2>1 DEF ItemsDecode, E
    <2>3. <<>> \in Seq(D)
      BY EmptySeq
    <2>. QED BY <2>2, <2>3
  <1>7. ASSUME NEW es \in Seq(D), es \in G, NEW e \in D PROVE <<e>> \o es \in G
    <2>0. e \in E /\ es \in Seq(E)
      BY <1>1
    <2>1. ASSUME NEW fs \in Seq(E), NEW s \in Text, NEW t \in Text,
                 Items(w, <<e>> \o es, s) = Items(w, fs, t)
          PROVE  <<e>> \o es = fs /\ s = t
      <3>. DEFINE x == Items(w, es, Closed(s))
                  a == <<Comma>> \o (<<w, "(">> \o x)
      <3>1. Items(w, <<e>> \o es, s) = ElementSaid(e, 0) \o a
        BY <2>0, ItemsFront DEF E
      <3>2. x \in Text /\ <<w, "(">> \in Text /\ <<w, "(">> \o x \in Text /\ a \in Text
        <4>1. x \in Text
          BY <2>0, ClosedIn, ItemsFront DEF E
        <4>. HIDE DEF x
        <4>2. <<w, "(">> \in Text /\ <<w, "(">> \o x \in Text
          BY <4>1, TextOf, ConcatText
        <4>. QED BY <4>1, <4>2, TextOf, ConcatText
      <3>3. CASE fs = <<>>
        <4>1. Items(w, <<>>, t) = Closed(t)
          BY ItemsFront
        <4>2. Closed(t) = Items(w, <<e>> \o es, s)
          BY <2>1, <3>3, <4>1
        <4>. QED BY <1>4, <2>0, <4>2
      <3>4. ASSUME NEW f \in E, NEW r \in Seq(E), fs = <<f>> \o r
            PROVE  <<e>> \o es = fs /\ s = t
        <4>. DEFINE y == Items(w, r, Closed(t))
                    b == <<Comma>> \o (<<w, "(">> \o y)
        <4>1. Items(w, <<f>> \o r, t) = ElementSaid(f, 0) \o b
          BY ItemsFront DEF E
        <4>2. y \in Text /\ <<w, "(">> \o y \in Text /\ b \in Text
          <5>1. y \in Text
            BY ClosedIn, ItemsFront DEF E
          <5>. HIDE DEF y
          <5>2. <<w, "(">> \o y \in Text
            BY <5>1, TextOf, ConcatText
          <5>. QED BY <5>1, <5>2, TextOf, ConcatText
        <4>3. ElementSaid(e, 0) \o a = ElementSaid(f, 0) \o b
          BY <2>1, <3>1, <3>4, <4>1
        <4>4. e = f /\ a = b
          <5>1. ElementDecode(e, f, a, b)
            <6>1. e \in T \union {Null} /\ f \in Trees \union {Null}
              BY DEF D, E
            <6>2. a \in Text /\ b \in Text
              BY <3>2, <4>2
            <6>. HIDE DEF D, E, G, W, a, b, x, y
            <6>. QED BY <6>1, <6>2, ElementsDecode
          <5>. QED BY <4>3, <5>1 DEF ElementDecode
        <4>5. x = y
          <5>. DEFINE o == <<w, "(">>
                      ox == o \o x
                      oy == o \o y
          <5>1. <<Comma>> \o ox = <<Comma>> \o oy /\ ox \in Text /\ oy \in Text /\ o \in Text
                /\ x \in Text /\ y \in Text
            BY <3>2, <4>2, <4>4
          <5>2. Comma \in Word \union Marks
            BY MarksAre
          <5>. HIDE DEF x, y, o
          <5>3. ox = oy
            <6>. HIDE DEF ox, oy
            <6>. QED
              <7>1. Peels(Comma, Comma, ox, oy)
                BY <5>1, <5>2, PeelIs
              <7>. QED BY <7>1, <5>1 DEF Peels
          <5>. QED BY <5>1, <5>3, ConcatSimplifications DEF Text
        <4>6. es = r /\ Closed(s) = Closed(t)
          <5>1. ItemsDecode(w, es) /\ Closed(s) \in Text /\ Closed(t) \in Text
            BY <1>7, ClosedIn
          <5>2. Items(w, es, Closed(s)) = Items(w, r, Closed(t))
            BY <4>5
          <5>. QED BY <5>1, <5>2 DEF ItemsDecode, E
        <4>. QED BY <1>5, <3>4, <4>4, <4>6
      <3>. QED BY <1>2, <3>3, <3>4
    <2>2. ItemsDecode(w, <<e>> \o es)
      BY <2>1 DEF ItemsDecode, E
    <2>3. <<e>> \o es \in Seq(D)
      OBVIOUS
    <2>. QED BY <2>2, <2>3
  <1>8. Seq(D) \subseteq G
    <2>. HIDE DEF G
    <2>. QED BY <1>6, <1>7, FrontInduction
  <1>. QED BY <1>8 DEF D

-----------------------------------------------------------------------------
(* What a node is, from its line and those below it *)

LEMMA JoinIs ==
  ASSUME NEW S, NEW s \in Seq(S), NEW t \in Seq(S), NEW u \in Seq(S),
         Len(u) = Len(s) + Len(t),
         \A i \in 1..Len(s) : u[i] = s[i],
         \A i \in 1..Len(t) : u[Len(s) + i] = t[i]
  PROVE  s \o t = u
  <1>1. s \o t \in Seq(S) /\ Len(s \o t) = Len(s) + Len(t)
    BY ConcatProperties
  <1>2. \A i \in 1..(Len(s) + Len(t)) : (s \o t)[i] = IF i <= Len(s) THEN s[i] ELSE t[i - Len(s)]
    BY ConcatProperties
  <1>3. Len(s) \in Nat /\ Len(t) \in Nat
    OBVIOUS
  <1>4. ASSUME NEW i \in 1..Len(u) PROVE (s \o t)[i] = u[i]
    <2>1. CASE i <= Len(s)
      BY <1>2, <1>3, <2>1
    <2>2. CASE ~(i <= Len(s))
      <3>1. i - Len(s) \in 1..Len(t) /\ Len(s) + (i - Len(s)) = i
        BY <1>3, <2>2
      <3>2. u[i] = t[i - Len(s)]
        BY <3>1
      <3>. QED BY <1>2, <1>3, <2>2, <3>2
    <2>. QED BY <2>1, <2>2
  <1>. QED BY <1>1, <1>4, SeqEqual

LEMMA JoinThree ==
  ASSUME NEW a, NEW b, NEW c
  PROVE  <<a, b>> \o <<c>> = <<a, b, c>> /\ <<a>> \o <<b, c>> = <<a, b, c>>
  <1>. DEFINE S == {a, b, c}
              one == <<a>>
              s == <<a, b>>
              t == <<c>>
              v == <<b, c>>
              u == <<a, b, c>>
  <1>1. one \in Seq(S) /\ s \in Seq(S) /\ t \in Seq(S) /\ u \in Seq(S) /\ v \in Seq(S)
    OBVIOUS
  <1>2. /\ Len(one) = 1 /\ Len(s) = 2 /\ Len(t) = 1 /\ Len(u) = 3 /\ Len(v) = 2
        /\ one[1] = a /\ s[1] = a /\ s[2] = b /\ t[1] = c /\ v[1] = b /\ v[2] = c
        /\ u[1] = a /\ u[2] = b /\ u[3] = c
    OBVIOUS
  <1>3. (\A i \in 1..1 : i = 1) /\ (\A i \in 1..2 : i = 1 \/ i = 2)
    OBVIOUS
  <1>. HIDE DEF S, one, s, t, u, v
  <1>4. s \o t = u
    <2>1. Len(u) = Len(s) + Len(t)
      BY <1>2
    <2>2. \A i \in 1..Len(s) : u[i] = s[i]
      BY <1>2, <1>3
    <2>3. \A i \in 1..Len(t) : u[Len(s) + i] = t[i]
      BY <1>2, <1>3
    <2>. QED BY <1>1, <2>1, <2>2, <2>3, JoinIs
  <1>5. one \o v = u
    <2>1. Len(u) = Len(one) + Len(v)
      BY <1>2
    <2>2. \A i \in 1..Len(one) : u[i] = one[i]
      BY <1>2, <1>3
    <2>3. \A i \in 1..Len(v) : u[Len(one) + i] = v[i]
      BY <1>2, <1>3
    <2>. QED BY <1>1, <2>1, <2>2, <2>3, JoinIs
  <1>. QED BY <1>4, <1>5 DEF one, s, t, u, v

LEMMA JoinFour ==
  ASSUME NEW a, NEW b, NEW c, NEW d
  PROVE  <<a, b, c>> \o <<d>> = <<a, b, c, d>>
  <1>. DEFINE S == {a, b, c, d}
              s == <<a, b, c>>
              t == <<d>>
              u == <<a, b, c, d>>
  <1>1. s \in Seq(S) /\ t \in Seq(S) /\ u \in Seq(S)
    OBVIOUS
  <1>2. /\ Len(s) = 3 /\ Len(t) = 1 /\ Len(u) = 4
        /\ s[1] = a /\ s[2] = b /\ s[3] = c /\ t[1] = d
        /\ u[1] = a /\ u[2] = b /\ u[3] = c /\ u[4] = d
    OBVIOUS
  <1>3. (\A i \in 1..1 : i = 1) /\ (\A i \in 1..3 : i = 1 \/ i = 2 \/ i = 3)
    OBVIOUS
  <1>. HIDE DEF S, s, t, u
  <1>4. Len(u) = Len(s) + Len(t)
    BY <1>2
  <1>5. \A i \in 1..Len(s) : u[i] = s[i]
    BY <1>2, <1>3
  <1>6. \A i \in 1..Len(t) : u[Len(s) + i] = t[i]
    BY <1>2, <1>3
  <1>7. s \o t = u
    BY <1>1, <1>4, <1>5, <1>6, JoinIs
  <1>. QED BY <1>7 DEF s, t, u

LEMMA JoinNothing ==
  /\ <<>> \o <<>> = <<>>
  /\ \A a : <<>> \o <<a>> = <<a>> /\ <<a>> \o <<>> = <<a>>
  /\ \A a, b : <<>> \o <<a, b>> = <<a, b>> /\ <<a, b>> \o <<>> = <<a, b>>
  /\ \A a, b, c : <<>> \o <<a, b, c>> = <<a, b, c>> /\ <<a, b, c>> \o <<>> = <<a, b, c>>
  <1>1. <<>> \o <<>> = <<>>
    <2>1. <<>> \in Seq({})
      OBVIOUS
    <2>. QED BY <2>1, ConcatEmptySeq
  <1>2. ASSUME NEW a PROVE <<>> \o <<a>> = <<a>> /\ <<a>> \o <<>> = <<a>>
    <2>1. <<a>> \in Seq({a})
      OBVIOUS
    <2>. QED BY <2>1, ConcatEmptySeq
  <1>3. ASSUME NEW a, NEW b
        PROVE  <<>> \o <<a, b>> = <<a, b>> /\ <<a, b>> \o <<>> = <<a, b>>
    <2>1. <<a, b>> \in Seq({a, b})
      OBVIOUS
    <2>. QED BY <2>1, ConcatEmptySeq
  <1>4. ASSUME NEW a, NEW b, NEW c
        PROVE  <<>> \o <<a, b, c>> = <<a, b, c>> /\ <<a, b, c>> \o <<>> = <<a, b, c>>
    <2>1. <<a, b, c>> \in Seq({a, b, c})
      OBVIOUS
    <2>. QED BY <2>1, ConcatEmptySeq
  <1>. QED BY <1>1, <1>2, <1>3, <1>4

\* What the concatenations of a few words are.
Joined(a, b, c, d) ==
  /\ <<>> \o <<>> = <<>> /\ <<>> \o <<a>> = <<a>> /\ <<a>> \o <<>> = <<a>>
  /\ <<a, b>> \o <<>> = <<a, b>> /\ <<a, b, c>> \o <<>> = <<a, b, c>>
  /\ <<a>> \o <<b>> = <<a, b>>
  /\ <<a, b>> \o <<c>> = <<a, b, c>> /\ <<a>> \o <<b, c>> = <<a, b, c>>
  /\ <<a, b, c>> \o <<d>> = <<a, b, c, d>>

LEMMA AllJoined == \A a, b, c, d : Joined(a, b, c, d)
  <1>. SUFFICES ASSUME NEW a, NEW b, NEW c, NEW d PROVE Joined(a, b, c, d)
    OBVIOUS
  <1>1. <<>> \o <<>> = <<>> /\ <<>> \o <<a>> = <<a>> /\ <<a>> \o <<>> = <<a>>
    BY JoinNothing
  <1>2. <<a, b>> \o <<>> = <<a, b>> /\ <<a, b, c>> \o <<>> = <<a, b, c>>
    BY JoinNothing
  <1>3. <<a, b>> \o <<c>> = <<a, b, c>> /\ <<a>> \o <<b, c>> = <<a, b, c>>
    BY JoinThree
  <1>4. <<a, b, c>> \o <<d>> = <<a, b, c, d>>
    BY JoinFour
  <1>5. <<a>> \o <<b>> = <<a, b>>
    BY Pair
  <1>. QED BY <1>1, <1>2, <1>3, <1>4, <1>5 DEF Joined

\* What a part puts below the line of the class.
ShownAt(n, j) ==
  IF \/ j = 1 /\ Named(n.class)
     \/ n.parts[j] = Null /\ <<n.class, j>> \in Optional
  THEN <<>> ELSE <<n.parts[j]>>

LEMMA ShownOf ==
  ASSUME NEW n \in Trees
  PROVE  /\ Len(n.parts) = 0 => Shown(n) = <<>>
         /\ Len(n.parts) = 1 => Shown(n) = ShownAt(n, 1)
         /\ Len(n.parts) = 2 => Shown(n) = ShownAt(n, 1) \o ShownAt(n, 2)
         /\ Len(n.parts) = 3 => Shown(n) = (ShownAt(n, 1) \o ShownAt(n, 2)) \o ShownAt(n, 3)
         /\ Len(n.parts) = 4 =>
              Shown(n) = ((ShownAt(n, 1) \o ShownAt(n, 2)) \o ShownAt(n, 3)) \o ShownAt(n, 4)
  <1>. DEFINE C == Cells(Children(n))
              k == Len(n.parts)
              ss == [j \in 1..k |-> ShownAt(n, j)]
  <1>1. n.parts \in Seq(C)
    BY NodeIs
  <1>2. DOMAIN n.parts = 1..k /\ k \in Nat
    BY <1>1
  <1>3. Shown(n) = FlattenSeq(ss)
    BY <1>2 DEF Shown, ShownAt
  <1>4. \A j \in 1..k : ShownAt(n, j) \in Seq(C)
    <2>. HIDE DEF C
    <2>1. <<>> \in Seq(C)
      BY EmptySeq
    <2>2. \A j \in 1..k : <<n.parts[j]>> \in Seq(C)
      BY <1>1
    <2>. QED BY <2>1, <2>2 DEF ShownAt
  <1>5. ss \in Seq(Seq(C)) /\ Len(ss) = k
    <2>. HIDE DEF C, k
    <2>. QED BY <1>2, <1>4
  <1>6. CASE k = 0
    <2>1. ss = <<>>
      BY <1>6
    <2>. QED BY <1>3, <1>6, <2>1, FlatNone
  <1>7. CASE k # 0
    <2>. HIDE DEF C
    <2>1. PICK f : FlatLaw(f, ss) /\ FlattenSeq(ss) = f[Len(ss)]
      BY <1>5, <1>7, FlatSteps
    <2>2. \A i \in 1..k : f[i] = IF i = 1 THEN ShownAt(n, i) ELSE f[i - 1] \o ShownAt(n, i)
      BY <1>5, <2>1 DEF FlatLaw
    <2>3. Shown(n) = f[k]
      BY <1>3, <1>5, <2>1
    <2>. HIDE DEF ss
    <2>. HIDE DEF k
    <2>4. ASSUME NEW i \in 2..k PROVE f[i] = f[i - 1] \o ShownAt(n, i)
      <3>1. i \in 1..k /\ i # 1
        BY <1>2
      <3>. QED BY <2>2, <3>1
    <2>5. 2 - 1 = 1 /\ 3 - 1 = 2 /\ 4 - 1 = 3
      OBVIOUS
    <2>6. CASE k = 1
      BY <2>2, <2>3, <2>6 DEF k
    <2>7. CASE k \in 2..4
      <3>1. f[1] = ShownAt(n, 1)
        BY <2>2, <2>7
      <3>2. 2 \in 2..k /\ (k \in {3, 4} => 3 \in 2..k) /\ (k = 4 => 4 \in 2..k)
        BY <2>7
      <3>3. f[2] = f[1] \o ShownAt(n, 2)
        BY <2>4, <2>5, <3>2
      <3>4. k \in {3, 4} => f[3] = f[2] \o ShownAt(n, 3)
        BY <2>4, <2>5, <3>2
      <3>5. k = 4 => f[4] = f[3] \o ShownAt(n, 4)
        BY <2>4, <2>5, <3>2
      <3>7. CASE k = 2
        BY <2>3, <3>1, <3>3, <3>7 DEF k
      <3>8. CASE k = 3
        BY <2>3, <3>1, <3>3, <3>4, <3>8 DEF k
      <3>9. CASE k = 4
        <4>1. f[2] = ShownAt(n, 1) \o ShownAt(n, 2)
          BY <3>1, <3>3
        <4>2. f[3] = (ShownAt(n, 1) \o ShownAt(n, 2)) \o ShownAt(n, 3)
          BY <3>4, <3>9, <4>1
        <4>3. f[4] = ((ShownAt(n, 1) \o ShownAt(n, 2)) \o ShownAt(n, 3)) \o ShownAt(n, 4)
          BY <3>5, <3>9, <4>2
        <4>4. Shown(n) = f[4]
          BY <2>3, <3>9
        <4>. QED BY <3>9, <4>3, <4>4 DEF k
      <3>. QED BY <2>7, <3>7, <3>8, <3>9
    <2>8. k \in 1..4 \/ k > 4
      BY <1>2, <1>7
    <2>9. CASE k > 4
      <3>1. k # 0 /\ k # 1 /\ k # 2 /\ k # 3 /\ k # 4
        BY <2>9
      <3>. QED BY <3>1 DEF k
    <2>. QED BY SMTT(30), <2>6, <2>7, <2>8, <2>9
  <1>. QED BY <1>6, <1>7


\* The classes, by what they print below their line.
NothingBelow == {"NilExp", "IntExp", "StringExp", "BreakExp", "VoidExp"}
OnlyNames == {"SimpleVar", "NameTy", "ArrayTy"}
OneBelow == {"VarExp", "SeqExp", "FunctionDec", "TypeDec", "RecordTy"}
TwoBelow == {"FieldVar", "SubscriptVar", "AssignExp", "WhileExp", "LetExp"}
NameAndOne == {"CallExp", "RecordExp", "NameAndTy", "EField"}

LEMMA ClassesAre ==
  /\ \A c \in DOMAIN Kind : c \notin Lists =>
       \/ c \in NothingBelow \/ c \in OnlyNames \/ c \in OneBelow \/ c \in TwoBelow
       \/ c \in NameAndOne
       \/ c \in {"OpExp", "Field", "IfExp", "ForExp", "ArrayExp", "VarDec", "FunDec"}
  /\ \A c \in NothingBelow : Len(Params[c]) = 0 /\ ~Named(c)
  /\ \A c \in OnlyNames : Len(Params[c]) = 1 /\ Named(c)
  /\ \A c \in OneBelow : Len(Params[c]) = 1 /\ ~Named(c)
  /\ \A c \in TwoBelow \union {"OpExp"} : Len(Params[c]) = 2 /\ ~Named(c)
  /\ \A c \in NameAndOne \union {"Field"} : Len(Params[c]) = 2 /\ Named(c)
  /\ Len(Params["IfExp"]) = 3 /\ ~Named("IfExp")
  /\ Len(Params["ArrayExp"]) = 3 /\ Named("ArrayExp")
  /\ Len(Params["VarDec"]) = 3 /\ Named("VarDec")
  /\ Len(Params["ForExp"]) = 4 /\ Named("ForExp")
  /\ Len(Params["FunDec"]) = 4 /\ Named("FunDec")
  <1>1. \A c \in DOMAIN Kind : c \notin Lists =>
          \/ c \in NothingBelow \/ c \in OnlyNames \/ c \in OneBelow \/ c \in TwoBelow
          \/ c \in NameAndOne
          \/ c \in {"OpExp", "Field", "IfExp", "ForExp", "ArrayExp", "VarDec", "FunDec"}
    BY DEF NothingBelow, OnlyNames, OneBelow, TwoBelow, NameAndOne, Kind, Lists, ElementOf
  <1>2. \A c \in NothingBelow : Params[c] = <<>>
    BY DEF NothingBelow, Params
  <1>4. \A c \in OneBelow : Len(Params[c]) = 1 /\ Params[c][1] # "Symbol"
    BY DEF OneBelow, Params
  <1>5. \A c \in TwoBelow \union {"OpExp"} : Len(Params[c]) = 2 /\ Params[c][1] # "Symbol"
    BY DEF TwoBelow, Params
  <1>6. \A c \in NameAndOne \union {"Field"} :
          Len(Params[c]) = 2 /\ Params[c][1] = "Symbol" /\ Params[c] # <<>>
    BY DEF NameAndOne, Params
  <1>7. /\ Len(Params["IfExp"]) = 3 /\ Params["IfExp"][1] # "Symbol"
        /\ Len(Params["ArrayExp"]) = 3 /\ Params["ArrayExp"][1] = "Symbol"
        /\ Params["ArrayExp"] # <<>>
    BY DEF Params
  <1>8. /\ Len(Params["VarDec"]) = 3 /\ Params["VarDec"][1] = "Symbol" /\ Params["VarDec"] # <<>>
        /\ Len(Params["ForExp"]) = 4 /\ Params["ForExp"][1] = "Symbol" /\ Params["ForExp"] # <<>>
        /\ Len(Params["FunDec"]) = 4 /\ Params["FunDec"][1] = "Symbol" /\ Params["FunDec"] # <<>>
    BY DEF Params
  <1>9. \A c \in OnlyNames : Len(Params[c]) = 1 /\ Params[c][1] = "Symbol" /\ Params[c] # <<>>
    BY DEF OnlyNames, Params
  <1>10. \A c \in NothingBelow : Len(Params[c]) = 0 /\ ~Named(c)
    BY <1>2 DEF Named
  <1>. QED BY <1>1, <1>4, <1>5, <1>6, <1>7, <1>8, <1>9, <1>10 DEF Named

\* The lines below that of the class, by the class.
LEMMA BelowOf ==
  ASSUME NEW n \in Trees, n.class \notin Lists
  PROVE  LET p == n.parts
             leaf == Symbol(n.leaf)
         IN  /\ n.class \in NothingBelow \union OnlyNames => Below(n) = <<>>
             /\ n.class \in OneBelow => Below(n) = <<p[1]>>
             /\ n.class \in TwoBelow => Below(n) = <<p[1], p[2]>>
             /\ n.class \in NameAndOne => Below(n) = <<p[2]>>
             /\ n.class = "OpExp" => Below(n) = <<Symbol(PrintOper(n.leaf)), p[1], p[2]>>
             /\ n.class = "Field" => Below(n) = <<p[2], leaf>>
             /\ n.class = "IfExp" =>
                  Below(n) = IF p[3] = Null THEN <<p[1], p[2]>> ELSE <<p[1], p[2], p[3]>>
             /\ n.class = "ForExp" => Below(n) = <<p[2], p[3], p[4], leaf>>
             /\ n.class = "ArrayExp" => Below(n) = <<p[2], p[3]>>
             /\ n.class = "VarDec" =>
                  Below(n) = IF p[2] = Null THEN <<p[3], leaf>> ELSE <<p[2], p[3], leaf>>
             /\ n.class = "FunDec" =>
                  Below(n) = IF p[3] = Null THEN <<p[2], p[4]>> ELSE <<p[2], p[3], p[4]>>
  <1>. DEFINE p == n.parts
              leaf == Symbol(n.leaf)
  <1>1. Len(p) = Len(Params[n.class])
    BY NodeIs
  <1>2. \A j : ShownAt(n, j) = IF \/ j = 1 /\ Named(n.class)
                                  \/ p[j] = Null /\ <<n.class, j>> \in Optional
                               THEN <<>> ELSE <<p[j]>>
    BY DEF ShownAt
  <1>3. ASSUME n.class \notin {"OpExp", "ForExp", "VarDec", "Field"} PROVE Below(n) = Shown(n)
    <2>1. Below(n) = (<<>> \o Shown(n)) \o <<>>
      BY <1>3 DEF Below
    <2>2. Shown(n) \in Seq(Cells(Children(n)))
      BY ShownIs
    <2>. QED BY <2>1, <2>2, ConcatEmptySeq
  <1>4. ASSUME n.class \in {"ForExp", "VarDec", "Field"} PROVE Below(n) = Shown(n) \o <<leaf>>
    <2>1. Below(n) = (<<>> \o Shown(n)) \o <<leaf>>
      BY <1>4 DEF Below
    <2>2. Shown(n) \in Seq(Cells(Children(n)))
      BY ShownIs
    <2>. QED BY <2>1, <2>2, ConcatEmptySeq
  <1>5. n.class \in NothingBelow \union OnlyNames => Below(n) = <<>>
    <2>1. CASE n.class \in NothingBelow
      <3>1. n.class \notin {"OpExp", "ForExp", "VarDec", "Field"}
        BY <2>1 DEF NothingBelow
      <3>. QED BY <1>1, <1>3, <2>1, <3>1, ClassesAre, ShownOf
    <2>2. CASE n.class \in OnlyNames
      <3>1. n.class \notin {"OpExp", "ForExp", "VarDec", "Field"}
        BY <2>2 DEF OnlyNames
      <3>2. ShownAt(n, 1) = <<>>
        BY <1>2, <2>2, ClassesAre
      <3>. QED BY <1>1, <1>3, <2>2, <3>1, <3>2, ClassesAre, ShownOf
    <2>. QED BY <2>1, <2>2
  <1>6. n.class \in DOMAIN Kind
    BY NodeIs
  <1>7. \A c \in DOMAIN Kind :
          /\ <<c, 1>> \notin Optional /\ <<c, 4>> \notin Optional
          /\ <<c, 2>> \in Optional => c = "VarDec"
          /\ <<c, 3>> \in Optional => c \in {"IfExp", "FunDec"}
    BY DEF Optional
  <1>8. /\ Named(n.class) => ShownAt(n, 1) = <<>>
        /\ ~Named(n.class) => ShownAt(n, 1) = <<p[1]>>
        /\ n.class # "VarDec" => ShownAt(n, 2) = <<p[2]>>
        /\ n.class \notin {"IfExp", "FunDec"} => ShownAt(n, 3) = <<p[3]>>
        /\ ShownAt(n, 4) = <<p[4]>>
    <2>1. Named(n.class) => ShownAt(n, 1) = <<>>
      BY DEF ShownAt
    <2>2. ~Named(n.class) => ShownAt(n, 1) = <<p[1]>>
      BY <1>6, <1>7 DEF ShownAt
    <2>3. n.class # "VarDec" => ShownAt(n, 2) = <<p[2]>>
      <3>1. 2 # 1
        OBVIOUS
      <3>. QED BY <1>6, <1>7, <3>1 DEF ShownAt
    <2>4. n.class \notin {"IfExp", "FunDec"} => ShownAt(n, 3) = <<p[3]>>
      <3>1. 3 # 1
        OBVIOUS
      <3>. QED BY <1>6, <1>7, <3>1 DEF ShownAt
    <2>5. ShownAt(n, 4) = <<p[4]>>
      <3>1. 4 # 1
        OBVIOUS
      <3>. QED BY <1>6, <1>7, <3>1 DEF ShownAt
    <2>. QED BY <2>1, <2>2, <2>3, <2>4, <2>5
  <1>9. n.class \in OneBelow => Below(n) = <<p[1]>>
    <2>. SUFFICES ASSUME n.class \in OneBelow PROVE Below(n) = <<p[1]>>
      OBVIOUS
    <2>1. n.class \notin {"OpExp", "ForExp", "VarDec", "Field", "IfExp", "FunDec"}
      BY DEF OneBelow
    <2>2. Len(p) = 1 /\ ~Named(n.class)
      BY <1>1, ClassesAre
    <2>3. ShownAt(n, 1) = <<p[1]>>
      BY <1>8, <2>1, <2>2
    <2>. QED BY <1>3, <2>1, <2>2, <2>3, ShownOf
  <1>10. n.class \in TwoBelow => Below(n) = <<p[1], p[2]>>
    <2>. SUFFICES ASSUME n.class \in TwoBelow PROVE Below(n) = <<p[1], p[2]>>
      OBVIOUS
    <2>1. n.class \notin {"OpExp", "ForExp", "VarDec", "Field", "IfExp", "FunDec"}
      BY DEF TwoBelow
    <2>2. Len(p) = 2 /\ ~Named(n.class)
      BY <1>1, ClassesAre
    <2>3. ShownAt(n, 1) = <<p[1]>> /\ ShownAt(n, 2) = <<p[2]>>
      BY <1>8, <2>1, <2>2
    <2>4. <<p[1]>> \o <<p[2]>> = <<p[1], p[2]>>
      BY AllJoined DEF Joined
    <2>. QED BY <1>3, <2>1, <2>2, <2>3, <2>4, ShownOf
  <1>11. n.class \in NameAndOne => Below(n) = <<p[2]>>
    <2>. SUFFICES ASSUME n.class \in NameAndOne PROVE Below(n) = <<p[2]>>
      OBVIOUS
    <2>1. n.class \notin {"OpExp", "ForExp", "VarDec", "Field", "IfExp", "FunDec"}
      BY DEF NameAndOne
    <2>2. Len(p) = 2 /\ Named(n.class)
      BY <1>1, ClassesAre
    <2>3. ShownAt(n, 1) = <<>> /\ ShownAt(n, 2) = <<p[2]>>
      BY <1>8, <2>1, <2>2
    <2>4. <<>> \o <<p[2]>> = <<p[2]>>
      BY AllJoined DEF Joined
    <2>. QED BY <1>3, <2>1, <2>2, <2>3, <2>4, ShownOf
  <1>12. n.class = "OpExp" => Below(n) = <<Symbol(PrintOper(n.leaf)), p[1], p[2]>>
    <2>. SUFFICES ASSUME n.class = "OpExp"
                  PROVE  Below(n) = <<Symbol(PrintOper(n.leaf)), p[1], p[2]>>
      OBVIOUS
    <2>. DEFINE o == Symbol(PrintOper(n.leaf))
    <2>1. Len(p) = 2 /\ ~Named(n.class)
      BY <1>1, ClassesAre
    <2>2. ShownAt(n, 1) = <<p[1]>> /\ ShownAt(n, 2) = <<p[2]>>
      BY <1>8, <2>1
    <2>3. Shown(n) = <<p[1], p[2]>>
      <3>1. <<p[1]>> \o <<p[2]>> = <<p[1], p[2]>>
        BY AllJoined DEF Joined
      <3>. QED BY <2>1, <2>2, <3>1, ShownOf
    <2>4. Below(n) = (<<o>> \o <<p[1], p[2]>>) \o <<>>
      BY <2>3 DEF Below
    <2>5. Joined(o, p[1], p[2], 0)
      BY AllJoined
    <2>. HIDE DEF o, p
    <2>6. Below(n) = <<o, p[1], p[2]>>
      BY <2>4, <2>5 DEF Joined
    <2>. QED BY <2>6 DEF o, p
  <1>13. n.class = "Field" => Below(n) = <<p[2], leaf>>
    <2>. SUFFICES ASSUME n.class = "Field" PROVE Below(n) = <<p[2], leaf>>
      OBVIOUS
    <2>1. Len(p) = 2 /\ Named(n.class)
      BY <1>1, ClassesAre
    <2>2. ShownAt(n, 1) = <<>> /\ ShownAt(n, 2) = <<p[2]>>
      BY <1>8, <2>1
    <2>3. Joined(p[2], leaf, 0, 0)
      BY AllJoined
    <2>4. Shown(n) = <<p[2]>>
      BY <2>1, <2>2, <2>3, ShownOf DEF Joined
    <2>. HIDE DEF leaf
    <2>. QED BY <1>4, <2>3, <2>4 DEF Joined
  <1>14. n.class = "IfExp" =>
           Below(n) = IF p[3] = Null THEN <<p[1], p[2]>> ELSE <<p[1], p[2], p[3]>>
    <2>. SUFFICES ASSUME n.class = "IfExp"
                  PROVE  Below(n) = IF p[3] = Null THEN <<p[1], p[2]>> ELSE <<p[1], p[2], p[3]>>
      OBVIOUS
    <2>1. Len(p) = 3 /\ ~Named(n.class)
      BY <1>1, ClassesAre
    <2>2. ShownAt(n, 1) = <<p[1]>> /\ ShownAt(n, 2) = <<p[2]>>
      BY <1>8, <2>1
    <2>3. ShownAt(n, 3) = IF p[3] = Null THEN <<>> ELSE <<p[3]>>
      <3>1. <<n.class, 3>> \in Optional
        BY DEF Optional
      <3>. QED BY <1>2, <3>1
    <2>4. Joined(p[1], p[2], p[3], 0)
      BY AllJoined
    <2>5. Below(n) = <<p[1], p[2]>> \o ShownAt(n, 3)
      <3>1. <<p[1]>> \o <<p[2]>> = <<p[1], p[2]>>
        BY <2>4 DEF Joined
      <3>. QED BY <1>3, <2>1, <2>2, <3>1, ShownOf
    <2>. QED BY <2>3, <2>4, <2>5 DEF Joined
  <1>15. n.class = "ForExp" => Below(n) = <<p[2], p[3], p[4], leaf>>
    <2>. SUFFICES ASSUME n.class = "ForExp" PROVE Below(n) = <<p[2], p[3], p[4], leaf>>
      OBVIOUS
    <2>1. Len(p) = 4 /\ Named(n.class)
      BY <1>1, ClassesAre
    <2>2. ShownAt(n, 1) = <<>> /\ ShownAt(n, 2) = <<p[2]>> /\ ShownAt(n, 3) = <<p[3]>>
          /\ ShownAt(n, 4) = <<p[4]>>
      BY <1>8, <2>1
    <2>3. <<>> \o <<p[2]>> = <<p[2]>> /\ <<p[2]>> \o <<p[3]>> = <<p[2], p[3]>>
          /\ <<p[2], p[3]>> \o <<p[4]>> = <<p[2], p[3], p[4]>>
          /\ <<p[2], p[3], p[4]>> \o <<leaf>> = <<p[2], p[3], p[4], leaf>>
      <3>1. Joined(p[2], p[3], p[4], leaf)
        BY AllJoined
      <3>. HIDE DEF leaf
      <3>. QED BY <3>1 DEF Joined
    <2>4. Shown(n) = <<p[2], p[3], p[4]>>
      BY <2>1, <2>2, <2>3, ShownOf
    <2>. HIDE DEF leaf
    <2>. QED BY <1>4, <2>3, <2>4
  <1>16. n.class = "ArrayExp" => Below(n) = <<p[2], p[3]>>
    <2>. SUFFICES ASSUME n.class = "ArrayExp" PROVE Below(n) = <<p[2], p[3]>>
      OBVIOUS
    <2>1. Len(p) = 3 /\ Named(n.class)
      BY <1>1, ClassesAre
    <2>2. ShownAt(n, 1) = <<>> /\ ShownAt(n, 2) = <<p[2]>> /\ ShownAt(n, 3) = <<p[3]>>
      BY <1>8, <2>1
    <2>3. <<>> \o <<p[2]>> = <<p[2]>> /\ <<p[2]>> \o <<p[3]>> = <<p[2], p[3]>>
      <3>1. Joined(p[2], p[3], 0, 0)
        BY AllJoined
      <3>. QED BY <3>1 DEF Joined
    <2>. QED BY <1>3, <2>1, <2>2, <2>3, ShownOf
  <1>17. n.class = "VarDec" =>
           Below(n) = IF p[2] = Null THEN <<p[3], leaf>> ELSE <<p[2], p[3], leaf>>
    <2>. SUFFICES ASSUME n.class = "VarDec"
                  PROVE  Below(n) = IF p[2] = Null THEN <<p[3], leaf>> ELSE <<p[2], p[3], leaf>>
      OBVIOUS
    <2>1. Len(p) = 3 /\ Named(n.class)
      BY <1>1, ClassesAre
    <2>2. ShownAt(n, 1) = <<>> /\ ShownAt(n, 3) = <<p[3]>>
      BY <1>8, <2>1
    <2>3. ShownAt(n, 2) = IF p[2] = Null THEN <<>> ELSE <<p[2]>>
      <3>1. <<n.class, 2>> \in Optional
        BY DEF Optional
      <3>. QED BY <1>2, <3>1
    <2>4. Below(n) = ((<<>> \o ShownAt(n, 2)) \o <<p[3]>>) \o <<leaf>>
      BY <1>4, <2>1, <2>2, ShownOf
    <2>5. /\ <<>> \o <<>> = <<>> /\ <<>> \o <<p[3]>> = <<p[3]>> /\ <<>> \o <<p[2]>> = <<p[2]>>
          /\ <<p[2]>> \o <<p[3]>> = <<p[2], p[3]>>
          /\ <<p[3]>> \o <<leaf>> = <<p[3], leaf>>
          /\ <<p[2], p[3]>> \o <<leaf>> = <<p[2], p[3], leaf>>
      <3>1. Joined(p[2], p[3], leaf, 0) /\ Joined(p[3], leaf, 0, 0)
        BY AllJoined
      <3>. HIDE DEF leaf
      <3>. QED BY <3>1 DEF Joined
    <2>. HIDE DEF leaf
    <2>. QED BY <2>3, <2>4, <2>5
  <1>18. n.class = "FunDec" =>
           Below(n) = IF p[3] = Null THEN <<p[2], p[4]>> ELSE <<p[2], p[3], p[4]>>
    <2>. SUFFICES ASSUME n.class = "FunDec"
                  PROVE  Below(n) = IF p[3] = Null THEN <<p[2], p[4]>> ELSE <<p[2], p[3], p[4]>>
      OBVIOUS
    <2>1. Len(p) = 4 /\ Named(n.class)
      BY <1>1, ClassesAre
    <2>2. ShownAt(n, 1) = <<>> /\ ShownAt(n, 2) = <<p[2]>> /\ ShownAt(n, 4) = <<p[4]>>
      BY <1>8, <2>1
    <2>3. ShownAt(n, 3) = IF p[3] = Null THEN <<>> ELSE <<p[3]>>
      <3>1. <<n.class, 3>> \in Optional
        BY DEF Optional
      <3>. QED BY <1>2, <3>1
    <2>4. Below(n) = ((<<>> \o <<p[2]>>) \o ShownAt(n, 3)) \o <<p[4]>>
      BY <1>3, <2>1, <2>2, ShownOf
    <2>5. /\ <<>> \o <<p[2]>> = <<p[2]>> /\ <<p[2]>> \o <<>> = <<p[2]>>
          /\ <<p[2]>> \o <<p[3]>> = <<p[2], p[3]>>
          /\ <<p[2]>> \o <<p[4]>> = <<p[2], p[4]>>
          /\ <<p[2], p[3]>> \o <<p[4]>> = <<p[2], p[3], p[4]>>
      <3>1. Joined(p[2], p[3], p[4], 0) /\ Joined(p[2], p[4], 0, 0)
        BY AllJoined
      <3>. QED BY <3>1 DEF Joined
    <2>. QED BY <2>3, <2>4, <2>5
  <1>. QED BY <1>5, <1>9, <1>10, <1>11, <1>12, <1>13, <1>14, <1>15, <1>16, <1>17, <1>18 DEF p

Unlike(a, b, c, d, e) == <<a, b>> # <<c, d, e>>

LEMMA TuplesUnlike == \A a, b, c, d, e : Unlike(a, b, c, d, e)
  <1>. SUFFICES ASSUME NEW a, NEW b, NEW c, NEW d, NEW e, <<a, b>> = <<c, d, e>> PROVE FALSE
    BY DEF Unlike
  <1>1. Len(<<a, b>>) = 2 /\ Len(<<c, d, e>>) = 3
    OBVIOUS
  <1>. QED BY <1>1

LEMMA LeafIs ==
  ASSUME NEW n \in Trees,
         n.class \notin {"IntExp", "StringExp", "OpExp", "ForExp", "VarDec", "Field"}
  PROVE  n.leaf = ""
  <1>1. n.class # "Symbol"
    BY NodeIs DEF Kind
  <1>. QED BY <1>1, NodeIs DEF LeafOf

\* A node of a class that is no list is told by its line and those below it.
LEMMA NodeSame ==
  ASSUME NEW n \in Trees, NEW m \in Trees, n.class \notin Lists, m.class = n.class,
         HeadWords(n) = HeadWords(m), Below(n) = Below(m)
  PROVE  n = m
  <1>. DEFINE c == n.class
              p == n.parts
              q == m.parts
              k == Len(Params[c])
  <1>1. c \in DOMAIN Kind /\ Len(p) = k /\ Len(q) = k
    BY NodeIs
  <1>2. p \in Seq(Cells(Trees)) /\ q \in Seq(Cells(Trees))
    BY NodeIs, CellsGrow, SeqMonotonic
  <1>3. Named(c) => p[1] = q[1]
    <2>. SUFFICES ASSUME Named(c) PROVE p[1] = q[1]
      OBVIOUS
    <2>1. c \notin {"IntExp", "StringExp"}
      BY DEF Named, Params
    <2>2. HeadWords(n) = <<p[1].leaf>> /\ HeadWords(m) = <<q[1].leaf>>
      BY <2>1 DEF HeadWords
    <2>3. p[1] = Symbol(p[1].leaf) /\ q[1] = Symbol(q[1].leaf)
      BY NamedIs
    <2>4. p[1].leaf = q[1].leaf
      <3>1. <<p[1].leaf>> = <<q[1].leaf>>
        BY <2>2
      <3>. QED BY <3>1
    <2>. QED BY <2>3, <2>4
  <1>4. c \in {"IntExp", "StringExp"} => n.leaf = m.leaf
    <2>. SUFFICES ASSUME c \in {"IntExp", "StringExp"} PROVE n.leaf = m.leaf
      OBVIOUS
    <2>0. ~Named(c)
      BY DEF Named, Params
    <2>1. HeadWords(n) = <<n.leaf>>
      BY <2>0 DEF HeadWords
    <2>2. HeadWords(m) = <<m.leaf>>
      BY <2>0 DEF HeadWords
    <2>3. <<n.leaf>> = <<m.leaf>>
      BY <2>1, <2>2
    <2>. QED BY <2>3
  <1>5. \A a, b : Symbol(a) = Symbol(b) => a = b
    BY DEF Symbol
  <1>6. c \notin {"IntExp", "StringExp", "OpExp", "ForExp", "VarDec", "Field"} => n.leaf = m.leaf
    BY LeafIs
  <1>. DEFINE Same(i) == p[i] = q[i]
              Alike == n.leaf = m.leaf /\ \A i \in 1..k : Same(i)
  <1>7. /\ \A i \in 1..1 : i = 1
        /\ \A i \in 1..2 : i = 1 \/ i = 2
        /\ \A i \in 1..3 : i = 1 \/ i = 2 \/ i = 3
        /\ \A i \in 1..4 : i = 1 \/ i = 2 \/ i = 3 \/ i = 4
        /\ 1..0 = {}
    OBVIOUS
  <1>8. ASSUME c \in NothingBelow \union OnlyNames PROVE Alike
    <2>1. k = 0 \/ (k = 1 /\ Named(c))
      BY <1>8, ClassesAre
    <2>2. \A i \in 1..k : Same(i)
      BY <1>3, <1>7, <2>1
    <2>3. c \notin {"OpExp", "ForExp", "VarDec", "Field"}
      BY <1>8 DEF NothingBelow, OnlyNames
    <2>4. n.leaf = m.leaf
      BY <1>4, <1>6, <2>3
    <2>. QED BY <2>2, <2>4
  <1>9. ASSUME c \in OneBelow PROVE Alike
    <2>1. k = 1
      BY <1>9, ClassesAre
    <2>2. Below(n) = <<p[1]>> /\ Below(m) = <<q[1]>>
      BY <1>9, BelowOf
    <2>3. Same(1)
      <3>1. <<p[1]>> = <<q[1]>>
        BY <2>2
      <3>. QED BY <3>1
    <2>4. n.leaf = m.leaf
      BY <1>6, <1>9 DEF OneBelow
    <2>. HIDE DEF Same
    <2>. QED BY <1>7, <2>1, <2>3, <2>4
  <1>10. ASSUME c \in TwoBelow PROVE Alike
    <2>1. k = 2
      BY <1>10, ClassesAre
    <2>2. Below(n) = <<p[1], p[2]>> /\ Below(m) = <<q[1], q[2]>>
      BY <1>10, BelowOf
    <2>3. Same(1) /\ Same(2)
      <3>1. <<p[1], p[2]>> = <<q[1], q[2]>>
        BY <2>2
      <3>. QED BY <3>1
    <2>4. n.leaf = m.leaf
      BY <1>6, <1>10 DEF TwoBelow
    <2>. HIDE DEF Same
    <2>. QED BY <1>7, <2>1, <2>3, <2>4
  <1>11. ASSUME c \in NameAndOne PROVE Alike
    <2>1. k = 2 /\ Same(1)
      BY <1>3, <1>11, ClassesAre
    <2>2. Below(n) = <<p[2]>> /\ Below(m) = <<q[2]>>
      BY <1>11, BelowOf
    <2>3. Same(2)
      <3>1. <<p[2]>> = <<q[2]>>
        BY <2>2
      <3>. QED BY <3>1
    <2>4. n.leaf = m.leaf
      BY <1>6, <1>11 DEF NameAndOne
    <2>. HIDE DEF Same
    <2>. QED BY <1>7, <2>1, <2>3, <2>4
  <1>12. ASSUME c = "OpExp" PROVE Alike
    <2>1. k = 2
      BY <1>12, ClassesAre
    <2>2. /\ Below(n) = <<Symbol(PrintOper(n.leaf)), p[1], p[2]>>
          /\ Below(m) = <<Symbol(PrintOper(m.leaf)), q[1], q[2]>>
      BY <1>12, BelowOf
    <2>3. Same(1) /\ Same(2) /\ Symbol(PrintOper(n.leaf)) = Symbol(PrintOper(m.leaf))
      <3>1. <<Symbol(PrintOper(n.leaf)), p[1], p[2]>> = <<Symbol(PrintOper(m.leaf)), q[1], q[2]>>
        BY <2>2
      <3>. QED BY <3>1
    <2>4. n.leaf \in LeafOf("OpExp") /\ m.leaf \in LeafOf("OpExp")
      BY <1>12, NodeIs
    <2>5. n.leaf = m.leaf
      BY <1>5, <2>3, <2>4, OperWord
    <2>. HIDE DEF Same
    <2>. QED BY <1>7, <2>1, <2>3, <2>5
  <1>13. ASSUME c = "Field" PROVE Alike
    <2>1. k = 2 /\ Same(1)
      BY <1>3, <1>13, ClassesAre
    <2>2. Below(n) = <<p[2], Symbol(n.leaf)>> /\ Below(m) = <<q[2], Symbol(m.leaf)>>
      BY <1>13, BelowOf
    <2>3. Same(2) /\ Symbol(n.leaf) = Symbol(m.leaf)
      <3>1. <<p[2], Symbol(n.leaf)>> = <<q[2], Symbol(m.leaf)>>
        BY <2>2
      <3>. QED BY <3>1
    <2>4. n.leaf = m.leaf
      BY <1>5, <2>3
    <2>. HIDE DEF Same
    <2>. QED BY <1>7, <2>1, <2>3, <2>4
  <1>14. ASSUME c = "IfExp" PROVE Alike
    <2>1. k = 3
      BY <1>14, ClassesAre
    <2>2. /\ Below(n) = IF p[3] = Null THEN <<p[1], p[2]>> ELSE <<p[1], p[2], p[3]>>
          /\ Below(m) = IF q[3] = Null THEN <<q[1], q[2]>> ELSE <<q[1], q[2], q[3]>>
      BY <1>14, BelowOf
    <2>3. ASSUME p[3] = Null, q[3] # Null PROVE FALSE
      <3>1. <<p[1], p[2]>> = <<q[1], q[2], q[3]>>
        BY <2>2, <2>3
      <3>2. Unlike(p[1], p[2], q[1], q[2], q[3])
        BY TuplesUnlike
      <3>. QED BY <3>1, <3>2 DEF Unlike
    <2>4. ASSUME p[3] # Null, q[3] = Null PROVE FALSE
      <3>1. <<q[1], q[2]>> = <<p[1], p[2], p[3]>>
        BY <2>2, <2>4
      <3>2. Unlike(q[1], q[2], p[1], p[2], p[3])
        BY TuplesUnlike
      <3>. QED BY <3>1, <3>2 DEF Unlike
    <2>5. Same(1) /\ Same(2) /\ Same(3)
      <3>1. CASE p[3] = Null /\ q[3] = Null
        <4>1. <<p[1], p[2]>> = <<q[1], q[2]>>
          BY <2>2, <3>1
        <4>. QED BY <3>1, <4>1
      <3>2. CASE p[3] # Null /\ q[3] # Null
        <4>1. <<p[1], p[2], p[3]>> = <<q[1], q[2], q[3]>>
          BY <2>2, <3>2
        <4>. QED BY <4>1
      <3>. QED BY <2>3, <2>4, <3>1, <3>2
    <2>6. n.leaf = m.leaf
      BY <1>6, <1>14
    <2>. HIDE DEF Same
    <2>. QED BY <1>7, <2>1, <2>5, <2>6
  <1>15. ASSUME c = "ForExp" PROVE Alike
    <2>1. k = 4 /\ Same(1)
      BY <1>3, <1>15, ClassesAre
    <2>2. /\ Below(n) = <<p[2], p[3], p[4], Symbol(n.leaf)>>
          /\ Below(m) = <<q[2], q[3], q[4], Symbol(m.leaf)>>
      BY <1>15, BelowOf
    <2>3. Same(2) /\ Same(3) /\ Same(4) /\ Symbol(n.leaf) = Symbol(m.leaf)
      <3>1. <<p[2], p[3], p[4], Symbol(n.leaf)>> = <<q[2], q[3], q[4], Symbol(m.leaf)>>
        BY <2>2
      <3>. QED BY <3>1
    <2>4. n.leaf = m.leaf
      BY <1>5, <2>3
    <2>. HIDE DEF Same
    <2>. QED BY <1>7, <2>1, <2>3, <2>4
  <1>16. ASSUME c = "ArrayExp" PROVE Alike
    <2>1. k = 3 /\ Same(1)
      BY <1>3, <1>16, ClassesAre
    <2>2. Below(n) = <<p[2], p[3]>> /\ Below(m) = <<q[2], q[3]>>
      BY <1>16, BelowOf
    <2>3. Same(2) /\ Same(3)
      <3>1. <<p[2], p[3]>> = <<q[2], q[3]>>
        BY <2>2
      <3>. QED BY <3>1
    <2>4. n.leaf = m.leaf
      BY <1>6, <1>16
    <2>. HIDE DEF Same
    <2>. QED BY <1>7, <2>1, <2>3, <2>4
  <1>17. ASSUME c = "VarDec" PROVE Alike
    <2>1. k = 3 /\ Same(1)
      BY <1>3, <1>17, ClassesAre
    <2>2. /\ Below(n) = IF p[2] = Null THEN <<p[3], Symbol(n.leaf)>>
                                       ELSE <<p[2], p[3], Symbol(n.leaf)>>
          /\ Below(m) = IF q[2] = Null THEN <<q[3], Symbol(m.leaf)>>
                                       ELSE <<q[2], q[3], Symbol(m.leaf)>>
      BY <1>17, BelowOf
    <2>3. ASSUME p[2] = Null, q[2] # Null PROVE FALSE
      <3>1. <<p[3], Symbol(n.leaf)>> = <<q[2], q[3], Symbol(m.leaf)>>
        BY <2>2, <2>3
      <3>2. Unlike(p[3], Symbol(n.leaf), q[2], q[3], Symbol(m.leaf))
        BY TuplesUnlike
      <3>. QED BY <3>1, <3>2 DEF Unlike
    <2>4. ASSUME p[2] # Null, q[2] = Null PROVE FALSE
      <3>1. <<q[3], Symbol(m.leaf)>> = <<p[2], p[3], Symbol(n.leaf)>>
        BY <2>2, <2>4
      <3>2. Unlike(q[3], Symbol(m.leaf), p[2], p[3], Symbol(n.leaf))
        BY TuplesUnlike
      <3>. QED BY <3>1, <3>2 DEF Unlike
    <2>5. Same(2) /\ Same(3) /\ Symbol(n.leaf) = Symbol(m.leaf)
      <3>1. CASE p[2] = Null /\ q[2] = Null
        <4>1. <<p[3], Symbol(n.leaf)>> = <<q[3], Symbol(m.leaf)>>
          BY <2>2, <3>1
        <4>. QED BY <3>1, <4>1
      <3>2. CASE p[2] # Null /\ q[2] # Null
        <4>1. <<p[2], p[3], Symbol(n.leaf)>> = <<q[2], q[3], Symbol(m.leaf)>>
          BY <2>2, <3>2
        <4>. QED BY <4>1
      <3>. QED BY <2>3, <2>4, <3>1, <3>2
    <2>6. n.leaf = m.leaf
      BY <1>5, <2>5
    <2>. HIDE DEF Same
    <2>. QED BY <1>7, <2>1, <2>5, <2>6
  <1>18. ASSUME c = "FunDec" PROVE Alike
    <2>1. k = 4 /\ Same(1)
      BY <1>3, <1>18, ClassesAre
    <2>2. /\ Below(n) = IF p[3] = Null THEN <<p[2], p[4]>> ELSE <<p[2], p[3], p[4]>>
          /\ Below(m) = IF q[3] = Null THEN <<q[2], q[4]>> ELSE <<q[2], q[3], q[4]>>
      BY <1>18, BelowOf
    <2>3. ASSUME p[3] = Null, q[3] # Null PROVE FALSE
      <3>1. <<p[2], p[4]>> = <<q[2], q[3], q[4]>>
        BY <2>2, <2>3
      <3>2. Unlike(p[2], p[4], q[2], q[3], q[4])
        BY TuplesUnlike
      <3>. QED BY <3>1, <3>2 DEF Unlike
    <2>4. ASSUME p[3] # Null, q[3] = Null PROVE FALSE
      <3>1. <<q[2], q[4]>> = <<p[2], p[3], p[4]>>
        BY <2>2, <2>4
      <3>2. Unlike(q[2], q[4], p[2], p[3], p[4])
        BY TuplesUnlike
      <3>. QED BY <3>1, <3>2 DEF Unlike
    <2>5. Same(2) /\ Same(3) /\ Same(4)
      <3>1. CASE p[3] = Null /\ q[3] = Null
        <4>1. <<p[2], p[4]>> = <<q[2], q[4]>>
          BY <2>2, <3>1
        <4>. QED BY <3>1, <4>1
      <3>2. CASE p[3] # Null /\ q[3] # Null
        <4>1. <<p[2], p[3], p[4]>> = <<q[2], q[3], q[4]>>
          BY <2>2, <3>2
        <4>. QED BY <4>1
      <3>. QED BY <2>3, <2>4, <3>1, <3>2
    <2>6. n.leaf = m.leaf
      BY <1>6, <1>18
    <2>. HIDE DEF Same
    <2>. QED BY <1>7, <2>1, <2>5, <2>6
  <1>19. Alike
    <2>1. \/ c \in NothingBelow \union OnlyNames \/ c \in OneBelow \/ c \in TwoBelow
          \/ c \in NameAndOne
          \/ c \in {"OpExp", "Field", "IfExp", "ForExp", "ArrayExp", "VarDec", "FunDec"}
      BY <1>1, ClassesAre
    <2>. HIDE DEF Alike, c
    <2>. QED BY <1>8, <1>9, <1>10, <1>11, <1>12, <1>13, <1>14, <1>15, <1>16, <1>17, <1>18, <2>1
  <1>20. p = q
    <2>. HIDE DEF p, q, k
    <2>. QED BY <1>1, <1>2, <1>19, SeqEqual DEF Alike, Same
  <1>21. n = [class |-> c, parts |-> p, leaf |-> n.leaf]
         /\ m = [class |-> c, parts |-> q, leaf |-> m.leaf]
    BY NodeIs
  <1>. QED BY <1>19, <1>20, <1>21

\* What a class prints on its line, or below it, it always prints there.
LEMMA LinesAlike ==
  ASSUME NEW n \in Trees, NEW m \in Trees, n.class \notin Lists, m.class = n.class
  PROVE  /\ HeadWords(n) = <<>> <=> HeadWords(m) = <<>>
         /\ Below(n) = <<>> <=> Below(m) = <<>>
  <1>1. HeadWords(n) = <<>> <=> HeadWords(m) = <<>>
    <2>1. CASE n.class \in {"IntExp", "StringExp"}
      <3>1. ~Named(n.class)
        BY <2>1 DEF Named, Params
      <3>2. HeadWords(n) = <<n.leaf>>
        BY <2>1, <3>1 DEF HeadWords
      <3>3. HeadWords(m) = <<m.leaf>>
        BY <2>1, <3>1 DEF HeadWords
      <3>. QED BY <3>2, <3>3, One
    <2>2. CASE n.class \notin {"IntExp", "StringExp"} /\ Named(n.class)
      <3>1. HeadWords(n) = <<n.parts[1].leaf>>
        BY <2>2 DEF HeadWords
      <3>2. HeadWords(m) = <<m.parts[1].leaf>>
        BY <2>2 DEF HeadWords
      <3>. QED BY <3>1, <3>2, One
    <2>3. CASE n.class \notin {"IntExp", "StringExp"} /\ ~Named(n.class)
      <3>1. HeadWords(n) = <<>>
        BY <2>3 DEF HeadWords
      <3>2. HeadWords(m) = <<>>
        BY <2>3 DEF HeadWords
      <3>. QED BY <3>1, <3>2
    <2>. QED BY <2>1, <2>2, <2>3
  <1>2. ASSUME NEW k \in {n, m}
        PROVE  Below(k) = <<>> <=> n.class \in NothingBelow \union OnlyNames
    <2>1. k \in Trees /\ k.class = n.class /\ k.class \notin Lists /\ n.class \in DOMAIN Kind
      BY NodeIs
    <2>2. CASE n.class \in NothingBelow \union OnlyNames
      BY <2>1, <2>2, BelowOf
    <2>3. CASE n.class \notin NothingBelow \union OnlyNames
      <3>. DEFINE c == k.class
                  p == k.parts
                  leaf == Symbol(k.leaf)
      <3>1. \/ c \in OneBelow \/ c \in TwoBelow \/ c \in NameAndOne
            \/ c \in {"OpExp", "Field", "IfExp", "ForExp", "ArrayExp", "VarDec", "FunDec"}
        BY <2>1, <2>3, ClassesAre
      <3>2. /\ \A a : <<a>> # <<>>
            /\ \A a, b : <<a, b>> # <<>>
            /\ \A a, b, d : <<a, b, d>> # <<>>
            /\ \A a, b, d, e : <<a, b, d, e>> # <<>>
        OBVIOUS
      <3>3. c \in OneBelow => Below(k) # <<>>
        BY <2>1, <3>2, BelowOf
      <3>4. c \in TwoBelow => Below(k) # <<>>
        BY <2>1, <3>2, BelowOf
      <3>5. c \in NameAndOne => Below(k) # <<>>
        BY <2>1, <3>2, BelowOf
      <3>6. c = "OpExp" => Below(k) # <<>>
        BY <2>1, <3>2, BelowOf
      <3>7. c = "Field" => Below(k) # <<>>
        BY <2>1, <3>2, BelowOf
      <3>8. c = "IfExp" => Below(k) # <<>>
        <4>1. CASE p[3] = Null
          BY <2>1, <3>2, <4>1, BelowOf
        <4>2. CASE p[3] # Null
          BY <2>1, <3>2, <4>2, BelowOf
        <4>. QED BY <4>1, <4>2
      <3>9. c = "ForExp" => Below(k) # <<>>
        BY <2>1, <3>2, BelowOf
      <3>10. c = "ArrayExp" => Below(k) # <<>>
        BY <2>1, <3>2, BelowOf
      <3>11. c = "VarDec" => Below(k) # <<>>
        BY <2>1, <3>2, BelowOf
      <3>12. c = "FunDec" => Below(k) # <<>>
        BY <2>1, <3>2, BelowOf
      <3>. HIDE DEF c
      <3>13. Below(k) # <<>>
        BY <3>1, <3>3, <3>4, <3>5, <3>6, <3>7, <3>8, <3>9, <3>10, <3>11, <3>12
      <3>. QED BY <2>3, <3>13
    <2>. QED BY <2>2, <2>3
  <1>. QED BY <1>1, <1>2

\* The text of a node in front of more.
LEMMA OpenFront ==
  ASSUME NEW w \in Word, NEW r \in Text, NEW s \in Text
  PROVE  (<<w>> \o (<<"(">> \o r)) \o s = <<w>> \o (<<"(">> \o (r \o s))
  <1>. DEFINE k == <<w>>
              o == <<"(">>
              u == o \o r
  <1>1. k \in Text /\ o \in Text
    <2>1. "(" \in Word \union Marks
      BY MarksAre
    <2>2. o \in Text
      BY <2>1 DEF Text
    <2>. QED BY <2>2, TextOf
  <1>. HIDE DEF k, o
  <1>2. u \in Text
    BY <1>1, ConcatText
  <1>3. u \o s = o \o (r \o s)
    <2>1. Regroups(o, r, s)
      BY <1>1, Assoc
    <2>. QED BY <2>1 DEF Regroups, u
  <1>. HIDE DEF u
  <1>4. (k \o u) \o s = k \o (u \o s)
    <2>1. Regroups(k, u, s)
      BY <1>1, <1>2, Assoc
    <2>. QED BY <2>1 DEF Regroups
  <1>. QED BY <1>3, <1>4 DEF u, k, o

LEMMA LinesFinish ==
  ASSUME NEW n \in Trees, n.class \notin Lists, NEW s \in Text
  PROVE  /\ (Each(Line, Below(n)) \o <<")">>) \o s = Each(Line, Below(n)) \o Closed(s)
         /\ Each(Line, Below(n)) \o Closed(s) \in Text
  <1>. DEFINE b == Each(Line, Below(n))
              c == <<")">>
  <1>1. b \in Text /\ c \in Text
    BY LinesIn0, TextOf
  <1>2. b \o Closed(s) \in Text
    BY <1>1, ClosedIn, ConcatText
  <1>. HIDE DEF b, c
  <1>3. (b \o c) \o s = b \o (c \o s)
    <2>1. Regroups(b, c, s)
      BY <1>1, Assoc
    <2>. QED BY <2>1 DEF Regroups
  <1>. QED BY <1>2, <1>3 DEF b, c, Closed

ChildrenDecode(n) == \A c \in Children(n) : Decodes(c)
LinedAlike(n, m, s, t) == HeadWords(n) = HeadWords(m) /\ Below(n) = Below(m) /\ s = t

\* What the texts of two nodes of one class that are no lists have in common.
LEMMA RestSame ==
  ASSUME NEW n \in Trees, n.class \notin Lists, ChildrenDecode(n),
         NEW m \in Trees, m.class = n.class, NEW s \in Text, NEW t \in Text,
         NEW r, SaysOther(n, r), NEW q, SaysOther(m, q), r \o s = q \o t
  PROVE  LinedAlike(n, m, s, t)
  <1>. DEFINE b == Each(Line, Below(n))
              e == Each(Line, Below(m))
              c == <<")">>
              lines == Below(n)
              rows == Below(m)
  <1>1. r \in Text /\ q \in Text /\ b \in Text /\ e \in Text /\ c \in Text
    BY LinesIn0, TextOf DEF SaysOther
  <1>2. lines \in Seq(Cells(Children(n))) /\ rows \in Seq(Cells(Trees))
    BY BelowIs, CellsGrow
  <1>3. LinesDecode(lines)
    <2>1. Children(n) \subseteq Trees
      BY DEF Children
    <2>2. \A k \in Children(n) : Decodes(k)
      BY DEF ChildrenDecode
    <2>. QED BY <1>2, <2>1, <2>2, LinesDecoded
  <1>4. /\ (b \o c) \o s = b \o Closed(s) /\ (e \o c) \o t = e \o Closed(t)
        /\ b \o Closed(s) \in Text /\ e \o Closed(t) \in Text
    BY LinesFinish
  <1>5. ASSUME b \o Closed(s) = e \o Closed(t) PROVE lines = rows /\ s = t
    BY <1>2, <1>3, <1>5 DEF LinesDecode
  <1>6. ASSUME HeadWords(n) = <<>>, lines = <<>>
        PROVE  HeadWords(n) = HeadWords(m) /\ Below(n) = Below(m) /\ s = t
    <2>1. HeadWords(m) = <<>> /\ rows = <<>>
      BY <1>6, LinesAlike
    <2>2. r = c /\ q = c
      BY <1>6, <2>1 DEF SaysOther, OtherRest
    <2>3. c \o s = c \o t
      BY <2>2
    <2>4. s = t
      BY <1>1, <2>3, ConcatSimplifications DEF Text
    <2>. QED BY <1>6, <2>1, <2>4
  <1>7. ASSUME HeadWords(n) = <<>>, lines # <<>>
        PROVE  HeadWords(n) = HeadWords(m) /\ Below(n) = Below(m) /\ s = t
    <2>. DEFINE comma == <<Comma>>
    <2>1. HeadWords(m) = <<>> /\ rows # <<>>
      BY <1>7, LinesAlike
    <2>2. comma \o r = b \o c /\ comma \o q = e \o c
      BY <1>7, <2>1 DEF SaysOther, OtherRest
    <2>3. comma \in Text
      BY TextOf
    <2>. HIDE DEF comma, b, c, e, lines, rows
    <2>4. (comma \o r) \o s = comma \o (r \o s)
      <3>1. Regroups(comma, r, s)
        BY <1>1, <2>3, Assoc
      <3>. QED BY <3>1 DEF Regroups
    <2>5. (comma \o q) \o t = comma \o (q \o t)
      <3>1. Regroups(comma, q, t)
        BY <1>1, <2>3, Assoc
      <3>. QED BY <3>1 DEF Regroups
    <2>6. (b \o c) \o s = (e \o c) \o t
      BY <2>2, <2>4, <2>5
    <2>7. b \o Closed(s) = e \o Closed(t)
      BY <1>4, <2>6
    <2>8. lines = rows /\ s = t
      BY <1>5, <2>7
    <2>. QED BY <1>7, <2>1, <2>8 DEF lines, rows
  <1>8. ASSUME NEW v \in Word, HeadWords(n) = <<v>>
        PROVE  HeadWords(n) = HeadWords(m) /\ Below(n) = Below(m) /\ s = t
    <2>0. HeadWords(m) # <<>>
      BY <1>8, LinesAlike, One
    <2>1. PICK w \in Word : HeadWords(m) = <<w>>
      BY <2>0, HeadWordsIs
    <2>2. r = <<v>> \o (b \o c) /\ q = <<w>> \o (e \o c)
      BY <1>8, <2>1 DEF SaysOther, OtherRest
    <2>. DEFINE vv == <<v>>
                ww == <<w>>
                x == b \o Closed(s)
                y == e \o Closed(t)
    <2>3. vv \in Text /\ ww \in Text /\ b \o c \in Text /\ e \o c \in Text
      BY <1>1, TextOf, ConcatText
    <2>. HIDE DEF vv, ww, b, c, e, lines, rows
    <2>4. (vv \o (b \o c)) \o s = vv \o x
      <3>. DEFINE u == b \o c
      <3>1. u \in Text /\ u \o s = x
        BY <1>4, <2>3
      <3>. HIDE DEF u
      <3>2. (vv \o u) \o s = vv \o (u \o s)
        <4>1. Regroups(vv, u, s)
          BY <2>3, <3>1, Assoc
        <4>. QED BY <4>1 DEF Regroups
      <3>. QED BY <3>1, <3>2 DEF u
    <2>5. (ww \o (e \o c)) \o t = ww \o y
      <3>. DEFINE u == e \o c
      <3>1. u \in Text /\ u \o t = y
        BY <1>4, <2>3
      <3>. HIDE DEF u
      <3>2. (ww \o u) \o t = ww \o (u \o t)
        <4>1. Regroups(ww, u, t)
          BY <2>3, <3>1, Assoc
        <4>. QED BY <4>1 DEF Regroups
      <3>. QED BY <3>1, <3>2 DEF u
    <2>6. vv \o x = ww \o y
      BY <2>2, <2>4, <2>5 DEF vv, ww
    <2>7. x \in Text /\ y \in Text
      BY <1>4
    <2>8. v = w /\ x = y
      <3>1. <<v>> \o x = <<w>> \o y
        BY <2>6 DEF vv, ww
      <3>2. v \in Word \union Marks /\ w \in Word \union Marks
        OBVIOUS
      <3>. HIDE DEF x, y
      <3>. QED
        <4>1. Peels(v, w, x, y)
          BY <2>7, <3>2, PeelIs
        <4>. QED BY <4>1, <3>1 DEF Peels
    <2>9. lines = rows /\ s = t
      BY <1>5, <2>8
    <2>. QED BY <1>8, <2>1, <2>8, <2>9 DEF lines, rows
  <1>. QED BY <1>6, <1>7, <1>8, HeadWordsIs DEF LinedAlike

LEMMA SameClass ==
  ASSUME NEW n \in Trees, NEW m \in Trees, NEW s \in Text, NEW t \in Text,
         Told(n) \o s = Told(m) \o t
  PROVE  m.class = n.class
  <1>. DEFINE k == Kind[n.class]
              l == Kind[m.class]
  <1>1. k \in Word /\ l \in Word /\ n.class \in DOMAIN Kind /\ m.class \in DOMAIN Kind
    BY NodeIs, KindWord
  <1>2. k \in Word \union Marks /\ l \in Word \union Marks
    BY <1>1
  <1>3. PICK a \in Text : Told(n) \o s = <<k>> \o (<<"(">> \o a)
    BY ToldFront
  <1>4. PICK b \in Text : Told(m) \o t = <<l>> \o (<<"(">> \o b)
    BY ToldFront
  <1>. DEFINE x == <<"(">> \o a
              y == <<"(">> \o b
  <1>5. <<k>> \o x = <<l>> \o y
    BY <1>3, <1>4
  <1>6. x \in Text /\ y \in Text
    BY OpenIn
  <1>. HIDE DEF x, y, k, l
  <1>7. k = l
    BY <1>2, <1>5, <1>6, Peel
  <1>. QED BY <1>1, <1>7, KindOnce DEF k, l

\* After its kind the text of n is r.
Tells(n, k, r) == r \in Text /\ Told(n) = <<k>> \o (<<"(">> \o r)
TellAlike(r, s, q, t) == r \o s = q \o t

LEMMA SameRest ==
  ASSUME NEW k \in Word, NEW n, NEW m, NEW r, NEW q, NEW s \in Text, NEW t \in Text,
         Tells(n, k, r), Tells(m, k, q), Told(n) \o s = Told(m) \o t
  PROVE  TellAlike(r, s, q, t)
  <1>0. r \in Text /\ q \in Text /\ Told(n) = <<k>> \o (<<"(">> \o r)
        /\ Told(m) = <<k>> \o (<<"(">> \o q)
    BY DEF Tells
  <1>. DEFINE x == r \o s
              y == q \o t
              ox == <<"(">> \o x
              oy == <<"(">> \o y
  <1>1. k \in Word \union Marks /\ "(" \in Word \union Marks
    BY MarksAre
  <1>2. x \in Text /\ y \in Text
    BY <1>0, ConcatText
  <1>3. ox \in Text /\ oy \in Text
    <2>. HIDE DEF x, y
    <2>. QED BY <1>2, OpenIn
  <1>4. (<<k>> \o (<<"(">> \o r)) \o s = <<k>> \o ox
    BY <1>0, OpenFront
  <1>5. (<<k>> \o (<<"(">> \o q)) \o t = <<k>> \o oy
    BY <1>0, OpenFront
  <1>6. <<k>> \o ox = <<k>> \o oy
    BY <1>0, <1>4, <1>5
  <1>7. ox = oy
    <2>. DEFINE kk == <<k>>
    <2>1. kk \in Text /\ kk \o ox = kk \o oy
      BY <1>6, TextOf
    <2>. HIDE DEF ox, oy, kk
    <2>. QED BY <1>3, <2>1, ConcatSimplifications DEF Text
  <1>8. <<"(">> \o x = <<"(">> \o y
    BY <1>7
  <1>9. x = y
    <2>. HIDE DEF x, y
    <2>. QED BY <1>1, <1>2, <1>8, Peel
  <1>. QED BY <1>9 DEF TellAlike

LEMMA DecodesOther ==
  ASSUME NEW n \in Trees, n.class \notin Lists, ChildrenDecode(n)
  PROVE  Decodes(n)
  <1>. SUFFICES ASSUME NEW m \in Trees, NEW s \in Text, NEW t \in Text,
                       Told(n) \o s = Told(m) \o t
                PROVE  n = m /\ s = t
    BY DEF Decodes
  <1>. DEFINE k == Kind[n.class]
  <1>1. k \in Word
    BY NodeIs, KindWord
  <1>2. m.class = n.class
    BY SameClass
  <1>3. PICK r : SaysOther(n, r)
    BY OtherTold
  <1>4. PICK q : SaysOther(m, q)
    BY <1>2, OtherTold
  <1>5. Tells(n, k, r)
    BY <1>3 DEF SaysOther, Tells
  <1>6. Tells(m, k, q)
    BY <1>2, <1>4 DEF SaysOther, Tells
  <1>7. r \o s = q \o t
    <2>. HIDE DEF k
    <2>1. TellAlike(r, s, q, t)
      BY <1>1, <1>5, <1>6, SameRest
    <2>. QED BY <2>1 DEF TellAlike
  <1>8. HeadWords(n) = HeadWords(m) /\ Below(n) = Below(m) /\ s = t
    <2>1. LinedAlike(n, m, s, t)
      BY <1>2, <1>3, <1>4, <1>7, RestSame
    <2>. QED BY <2>1 DEF LinedAlike
  <1>. QED BY <1>2, <1>8, NodeSame

\* The text of a list in front of more.
ItemsTold(n, r) ==
  /\ r \in Text /\ Told(n) = <<Kind[n.class]>> \o (<<"(">> \o r)
  /\ \A s \in Text : r \o s = Items(Kind[n.class], n.parts, s)

LEMMA ListRest ==
  ASSUME NEW n \in Trees, n.class \in Lists
  PROVE  \E r : ItemsTold(n, r)
  <1>. DEFINE w == Kind[n.class]
              es == n.parts
              items == Each(Item(w), es)
              close == Close(Len(es))
              c == <<")">>
              r == items \o (close \o c)
  <1>1. w \in Word /\ es \in Seq(Trees \union {Null})
    <2>1. w \in Word
      BY NodeIs, KindWord
    <2>2. es \in Seq(Trees \union {Null})
      BY ElementsAre
    <2>. QED BY <2>1, <2>2
  <1>2. Len(es) \in Nat
    BY <1>1
  <1>3. Closing(n) = close \o c
    <2>1. Closing(n) = Close(Len(es) + 1)
      BY DEF Closing, Close
    <2>. QED BY <1>2, <2>1, CloseIs
  <1>4. Told(n) = <<w>> \o (<<"(">> \o r)
    BY <1>3, ListTold
  <1>5. items \in Text
    <2>. HIDE DEF w, es
    <2>1. EachLaw(Trees \union {Null}, Word \union Marks, Item(w))
      BY <1>1, ItemIs
    <2>. QED BY <1>1, <2>1 DEF EachLaw, Text
  <1>6. close \in Text /\ c \in Text
    BY <1>2, CloseIs, TextOf
  <1>. HIDE DEF close, c, items
  <1>7. close \o c \in Text
    BY <1>6, ConcatText
  <1>8. r \in Text
    BY <1>5, <1>7, ConcatText
  <1>9. ASSUME NEW s \in Text PROVE r \o s = Items(w, es, s)
    <2>. DEFINE u == close \o c
    <2>1. u \o s = close \o (c \o s)
      <3>1. Regroups(close, c, s)
        BY <1>6, Assoc
      <3>. QED BY <3>1 DEF Regroups, u
    <2>2. u \in Text
      BY <1>7
    <2>. HIDE DEF u
    <2>3. (items \o u) \o s = items \o (u \o s)
      <3>1. Regroups(items, u, s)
        BY <1>5, <2>2, Assoc
      <3>. QED BY <3>1 DEF Regroups
    <2>4. r \o s = items \o (close \o (c \o s))
      BY <2>1, <2>3 DEF u
    <2>. QED BY <2>4 DEF Items, Closed, close, c, items
  <1>10. ItemsTold(n, r)
    <2>. HIDE DEF r
    <2>. QED BY <1>4, <1>8, <1>9 DEF ItemsTold
  <1>. QED BY <1>10

LEMMA DecodesList ==
  ASSUME NEW n \in Trees, n.class \in Lists, ChildrenDecode(n)
  PROVE  Decodes(n)
  <1>. SUFFICES ASSUME NEW m \in Trees, NEW s \in Text, NEW t \in Text,
                       Told(n) \o s = Told(m) \o t
                PROVE  n = m /\ s = t
    BY DEF Decodes
  <1>. DEFINE k == Kind[n.class]
  <1>1. k \in Word
    BY NodeIs, KindWord
  <1>2. m.class = n.class
    BY SameClass
  <1>3. PICK r : ItemsTold(n, r)
    BY ListRest
  <1>4. PICK q : ItemsTold(m, q)
    BY <1>2, ListRest
  <1>5. Tells(n, k, r)
    BY <1>3 DEF ItemsTold, Tells
  <1>6. Tells(m, k, q)
    BY <1>2, <1>4 DEF ItemsTold, Tells
  <1>7. r \o s = q \o t
    <2>. HIDE DEF k
    <2>1. TellAlike(r, s, q, t)
      BY <1>1, <1>5, <1>6, SameRest
    <2>. QED BY <2>1 DEF TellAlike
  <1>8. Items(k, n.parts, s) = Items(k, m.parts, t)
    <2>1. r \o s = Items(k, n.parts, s)
      BY <1>3 DEF ItemsTold
    <2>2. q \o t = Items(k, m.parts, t)
      BY <1>2, <1>4 DEF ItemsTold
    <2>. QED BY <1>7, <2>1, <2>2
  <1>9. ItemsDecode(k, n.parts)
    <2>1. \A c \in Children(n) : Decodes(c)
      BY DEF ChildrenDecode
    <2>2. Children(n) \subseteq Trees
      BY DEF Children
    <2>3. n.parts \in Seq(Children(n) \union {Null})
      BY ElementsAre
    <2>. HIDE DEF k
    <2>. QED BY <1>1, <2>1, <2>2, <2>3, ItemsDecoded
  <1>10. m.parts \in Seq(Trees \union {Null})
    BY <1>2, ElementsAre
  <1>11. n.parts = m.parts /\ s = t
    <2>. HIDE DEF k
    <2>. QED BY <1>8, <1>9, <1>10 DEF ItemsDecode
  <1>12. n.leaf = "" /\ m.leaf = ""
    <2>1. n.class \notin {"IntExp", "StringExp", "OpExp", "ForExp", "VarDec", "Field"}
      BY DEF Lists, ElementOf
    <2>. QED BY <1>2, <2>1, LeafIs
  <1>13. n = [class |-> n.class, parts |-> n.parts, leaf |-> n.leaf]
         /\ m = [class |-> m.class, parts |-> m.parts, leaf |-> m.leaf]
    BY NodeIs
  <1>. QED BY <1>2, <1>11, <1>12, <1>13

\* A text that begins with that of a tree begins with that of no other.
LEMMA DecodesTrees == \A n \in Trees : Decodes(n)
  <1>. DEFINE G == {n \in Trees : Decodes(n)}
  <1>1. ASSUME NEW n \in Trees, Children(n) \subseteq G PROVE n \in G
    <2>1. ChildrenDecode(n)
      BY <1>1 DEF ChildrenDecode
    <2>. QED BY <2>1, DecodesOther, DecodesList
  <1>2. Trees \subseteq G
    <2>. HIDE DEF G
    <2>. QED BY <1>1, TreeInduction
  <1>. QED BY <1>2

\* The text is that of no other tree.
LEMMA ToldOnce ==
  ASSUME NEW n \in Trees, NEW m \in Trees, Told(n) = Told(m)
  PROVE  n = m
  <1>. DEFINE a == Told(n)
              b == Told(m)
  <1>1. <<>> \in Text /\ a \o <<>> = b \o <<>>
    BY TextOf
  <1>2. Decodes(n)
    BY DecodesTrees
  <1>. QED BY <1>1, <1>2 DEF Decodes

\* Whatever trees there are, and whatever names they hold, the text PrintTree leaves is that
\* of no other tree, blanks and newlines apart: what grade.sh compares tells every two trees
\* apart, with their absent parts and their lists.
THEOREM NoTwoAlikeAlways == PrintSpec => []NoTwoAlike
  <1>1. PrintState => NoTwoAlike
    <2>. SUFFICES ASSUME PrintState, out # <<>>, NEW p \in Printed, p[2] = Words(out)
                  PROVE  p[1] = tree
      BY DEF NoTwoAlike
    <2>1. tree \in Roots /\ out = PrintNode[tree][0]
      BY DEF PrintState
    <2>2. PICK t \in Roots : p = <<t, Words(PrintNode[t][0])>>
      BY DEF Printed
    <2>3. t \in Trees /\ tree \in Trees
      BY <2>1, <2>2, RootsAssumption
    <2>4. Told(t) = Told(tree)
      BY <2>1, <2>2 DEF Told
    <2>5. t = tree
      BY <2>3, <2>4, ToldOnce
    <2>. QED BY <2>2, <2>5
  <1>. QED BY <1>1, PrintStateAlways, PTL

=============================================================================
