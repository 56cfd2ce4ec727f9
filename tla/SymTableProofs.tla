--------------------------- MODULE SymTableProofs ----------------------------
(***************************************************************************)
(* Whatever the keys, the values, the number of buckets and the hash, a    *)
(* table is the stack of bindings of Env, no assert of Pop or Dump fails,  *)
(* and a lookup finds the latest binding.  And a symbol table is a table:  *)
(* whatever BeginScope and EndScope do to it is something a table may do,  *)
(* so what is proved of tables holds of symbol tables, also in the middle  *)
(* of an EndScope; and it is a stack of scopes: the bindings, cut at the   *)
(* marks.                                                                  *)
(***************************************************************************)
EXTENDS SymTable, SequenceTheorems, FiniteSetTheorems, WellFoundedInduction, TLAPS

-----------------------------------------------------------------------------
(* Tables *)

\* The binders that no activation of Dump holds.
live == size - Len(frames)

\* A Dump holds frames only while it runs.
PhaseOK ==
  /\ phase = "idle" => frames = <<>>
  /\ phase = "up" => frames # <<>>
  /\ Len(frames) <= size

\* The key of the d-th Enter of e, the keys entered.
KeyIn(e, d) == IF d = 0 THEN Null ELSE e[d]

\* b is the binder of one of the Enters of e: it has the key entered then, and for
\* prevtop the key entered before.
Filed(b, e) == b.key = e[b.depth] /\ b.prevtop = KeyIn(e, b.depth - 1)

\* c is the chain of bucket i when the first n of the Enters e are in force: binders
\* whose keys hash to i, the latest first.
ChainOK(c, i, e, n) ==
  /\ c \in Seq(Binder)
  /\ \A b \in Range(c) : b.depth \in 1..n /\ Filed(b, e) /\ Index[b.key] = i
  /\ \A p, q \in DOMAIN c : p < q => c[q].depth < c[p].depth

ChainsOK == \A i \in Bucket : ChainOK(table_[i], i, entered, live)

\* No binder is missing.
Complete ==
  \A d \in 1..live : \E b \in Range(table_[Index[entered[d]]]) : b.depth = d

TopOK == top_ = KeyIn(entered, live)

\* The frames hold the latest binders, the latest first, and each remembers the next
\* one down its chain.
FramesOK ==
  \A j \in DOMAIN frames :
    LET f == frames[j] IN
    /\ f.b.depth = size - j + 1 /\ Filed(f.b, entered) /\ f.k = f.b.key
    /\ f.next < f.b.depth
    /\ f.next # 0 => Index[entered[f.next]] = Index[f.k]
    /\ \A d \in (f.next + 1)..(f.b.depth - 1) : Index[entered[d]] # Index[f.k]

\* The binders of the chains, then those of the frames.
InChains == UNION {Range(table_[i]) : i \in Bucket}
InFrames == {frames[j].b : j \in DOMAIN frames}

TInv == TableTypeOK /\ PhaseOK /\ ChainsOK /\ Complete /\ TopOK /\ FramesOK

-----------------------------------------------------------------------------
(* Sequences *)

\* What a chain is when a binder becomes its head.
LEMMA Cons ==
  ASSUME NEW X, NEW x \in X, NEW s \in Seq(X)
  PROVE  /\ <<x>> \o s \in Seq(X) /\ <<x>> \o s # <<>>
         /\ DOMAIN (<<x>> \o s) = 1..(Len(s) + 1)
         /\ (<<x>> \o s)[1] = x
         /\ \A p \in 2..(Len(s) + 1) : (<<x>> \o s)[p] = s[p - 1] /\ p - 1 \in DOMAIN s
  <1>1. <<x>> \in Seq(X) /\ Len(<<x>>) = 1 /\ <<x>>[1] = x /\ Len(s) \in Nat
    BY LenProperties
  <1>2. /\ <<x>> \o s \in Seq(X) /\ Len(<<x>> \o s) = Len(s) + 1
        /\ \A p \in 1..(Len(s) + 1) :
             (<<x>> \o s)[p] = IF p <= 1 THEN <<x>>[p] ELSE s[p - 1]
    BY <1>1, ConcatProperties
  <1>3. DOMAIN (<<x>> \o s) = 1..(Len(s) + 1) /\ DOMAIN s = 1..Len(s)
    BY <1>2, LenProperties
  <1>4. <<x>> \o s # <<>>
    BY <1>1, <1>2, EmptySeq
  <1>. QED BY <1>1, <1>2, <1>3, <1>4

\* What it is when its head goes.
LEMMA Rest ==
  ASSUME NEW X, NEW s \in Seq(X), s # <<>>
  PROVE  /\ Tail(s) \in Seq(X) /\ Head(s) = s[1] /\ s[1] \in X /\ 1 \in DOMAIN s
         /\ Len(s) \in Nat \ {0} /\ DOMAIN s = 1..Len(s)
         /\ DOMAIN Tail(s) = 1..(Len(s) - 1)
         /\ \A p \in 1..(Len(s) - 1) : Tail(s)[p] = s[p + 1] /\ p + 1 \in DOMAIN s
  BY HeadTailProperties, LenProperties, EmptySeq

\* A sequence without its last element.
LEMMA Front ==
  ASSUME NEW X, NEW s \in Seq(X), s # <<>>
  PROVE  /\ SubSeq(s, 1, Len(s) - 1) \in Seq(X)
         /\ Len(SubSeq(s, 1, Len(s) - 1)) = Len(s) - 1 /\ Len(s) \in Nat \ {0}
         /\ \A p \in 1..(Len(s) - 1) : SubSeq(s, 1, Len(s) - 1)[p] = s[p]
  <1>1. Len(s) \in Nat \ {0} /\ \A p \in 1..Len(s) : s[p] \in X
    BY EmptySeq, LenProperties, ElementOfSeq
  <1>. DEFINE n == Len(s) - 1
              t == SubSeq(s, 1, n)
  <1>2. n \in Nat /\ \A p \in 1..n : s[p] \in X
    BY <1>1
  <1>. HIDE DEF n
  <1>3. t \in Seq(X) /\ Len(t) = (IF 1 <= n THEN n - 1 + 1 ELSE 0)
        /\ \A p \in 1..(n - 1 + 1) : t[p] = s[1 + p - 1]
    BY <1>2, SubSeqProperties
  <1>4. Len(t) = n /\ \A p \in 1..n : t[p] = s[p]
    BY <1>2, <1>3
  <1>. QED BY <1>1, <1>3, <1>4 DEF n

LEMMA Push ==
  ASSUME NEW X, NEW s \in Seq(X), NEW x \in X
  PROVE  /\ Append(s, x) \in Seq(X) /\ Len(Append(s, x)) = Len(s) + 1 /\ Len(s) \in Nat
         /\ Append(s, x)[Len(s) + 1] = x
         /\ \A p \in 1..Len(s) : Append(s, x)[p] = s[p]
OBVIOUS

\* A non-empty set of indices has a least one.
LEMMA Least ==
  ASSUME NEW n \in Nat, NEW P, P \subseteq 1..n, P # {}
  PROVE  \E m \in P : \A k \in P : m <= k
  <1>. DEFINE R == StrictSubsetOrdering(1..n)
              T == {1..k : k \in P}
  <1>1. IsWellFoundedOn(R, SUBSET (1..n))
    <2>1. IsFiniteSet(1..n)
      BY FS_Interval
    <2>2. FiniteSubsetsOf(1..n) = SUBSET (1..n)
      BY <2>1, FS_FiniteSubsetsOfFinite
    <2>. QED BY <2>2, FS_StrictSubsetOrderingWellFounded
  <1>2. T \subseteq SUBSET (1..n) /\ T # {}
    <2>1. ASSUME NEW k \in P PROVE 1..k \in SUBSET (1..n) /\ 1..k \in T
      <3>1. k \in 1..n
        OBVIOUS
      <3>. QED BY <3>1
    <2>2. T \subseteq SUBSET (1..n)
      BY <2>1
    <2>. QED BY <2>1, <2>2
  <1>3. PICK x \in T : \A y \in T : ~ (<<y, x>> \in R)
    <2>. HIDE DEF R, T
    <2>. QED BY <1>1, <1>2, WFMin
  <1>4. PICK m \in P : x = 1..m
    BY <1>3
  <1>5. ASSUME NEW k \in P, k < m PROVE FALSE
    <2>1. 1..k \in T /\ 1..k \subseteq 1..m /\ m \in 1..m /\ m \notin 1..k
      BY <1>5
    <2>2. 1..k \in SUBSET (1..n) /\ 1..m \in SUBSET (1..n)
      BY <1>2, <1>4
    <2>3. <<1..k, 1..m>> \in R
      BY <2>1, <2>2 DEF StrictSubsetOrdering
    <2>. QED BY <2>1, <2>3, <1>3, <1>4
  <1>. QED BY <1>5

-----------------------------------------------------------------------------
(* The shape of a table *)

LEMMA Typing ==
  ASSUME TableTypeOK, PhaseOK
  PROVE  /\ size \in Nat /\ Len(frames) \in Nat /\ live \in 0..size
         /\ DOMAIN frames = 1..Len(frames)
         /\ \A d \in 1..size : entered[d] \in Key /\ Index[entered[d]] \in Bucket
         /\ \A i \in Bucket : /\ table_[i] \in Seq(Binder) /\ Len(table_[i]) \in Nat
                             /\ DOMAIN table_[i] = 1..Len(table_[i])
                             /\ \A p \in DOMAIN table_[i] : table_[i][p] \in Binder
         /\ \A j \in DOMAIN frames : frames[j] \in Frame
         /\ Index[top_] \in Bucket
  <1>1. size \in Nat /\ \A d \in 1..size : entered[d] \in Key
    BY LenProperties, ElementOfSeq DEF TableTypeOK, size
  <1>2. Len(frames) \in Nat /\ DOMAIN frames = 1..Len(frames)
    BY LenProperties DEF TableTypeOK
  <1>3. \A j \in DOMAIN frames : frames[j] \in Frame
    BY <1>2, ElementOfSeq DEF TableTypeOK
  <1>4. \A i \in Bucket : /\ table_[i] \in Seq(Binder) /\ Len(table_[i]) \in Nat
                        /\ DOMAIN table_[i] = 1..Len(table_[i])
                        /\ \A p \in DOMAIN table_[i] : table_[i][p] \in Binder
    <2>. SUFFICES ASSUME NEW i \in Bucket
                  PROVE  /\ table_[i] \in Seq(Binder) /\ Len(table_[i]) \in Nat
                         /\ DOMAIN table_[i] = 1..Len(table_[i])
                         /\ \A p \in DOMAIN table_[i] : table_[i][p] \in Binder
      OBVIOUS
    <2>1. table_[i] \in Seq(Binder)
      BY DEF TableTypeOK
    <2>. QED BY <2>1, LenProperties, ElementOfSeq
  <1>5. \A k \in Key \union {Null} : Index[k] \in Bucket
    BY IndexAssumption
  <1>. QED BY <1>1, <1>2, <1>3, <1>4, <1>5 DEF TableTypeOK, PhaseOK, live

-----------------------------------------------------------------------------
(* Chains *)

\* More Enters leave a chain as it is.
LEMMA ChainWider ==
  ASSUME NEW c, NEW i, NEW e, NEW f, NEW n \in Nat, NEW m \in Nat, n <= m,
         ChainOK(c, i, e, n), \A d \in 1..n : e[d] = f[d]
  PROVE  ChainOK(c, i, f, m)
  <1>1. ASSUME NEW b \in Range(c) PROVE b.depth \in 1..m /\ Filed(b, f) /\ Index[b.key] = i
    <2>1. b.depth \in 1..n /\ Filed(b, e) /\ Index[b.key] = i
      BY DEF ChainOK
    <2>. QED BY <2>1 DEF Filed, KeyIn
  <1>. QED BY <1>1 DEF ChainOK

\* So does the loss of an Enter whose binder is not on it.
LEMMA ChainNarrower ==
  ASSUME NEW c, NEW i, NEW e, NEW f, NEW n \in Nat, ChainOK(c, i, e, n + 1),
         \A b \in Range(c) : b.depth # n + 1, \A d \in 1..n : e[d] = f[d]
  PROVE  ChainOK(c, i, f, n)
  <1>1. ASSUME NEW b \in Range(c) PROVE b.depth \in 1..n /\ Filed(b, f) /\ Index[b.key] = i
    <2>1. b.depth \in 1..n /\ Filed(b, e) /\ Index[b.key] = i
      BY DEF ChainOK
    <2>. QED BY <2>1 DEF Filed, KeyIn
  <1>. QED BY <1>1 DEF ChainOK

LEMMA RangeCons ==
  ASSUME NEW X, NEW x \in X, NEW s \in Seq(X)
  PROVE  Range(<<x>> \o s) = {x} \union Range(s)
  <1>. DEFINE t == <<x>> \o s
  <1>1. /\ DOMAIN t = 1..(Len(s) + 1) /\ t[1] = x
        /\ \A p \in 2..(Len(s) + 1) : t[p] = s[p - 1] /\ p - 1 \in DOMAIN s
        /\ Len(s) \in Nat /\ DOMAIN s = 1..Len(s)
    BY Cons, LenProperties
  <1>. HIDE DEF t
  <1>2. ASSUME NEW y \in Range(t) PROVE y \in {x} \union Range(s)
    <2>1. PICK p \in DOMAIN t : y = t[p]
      BY DEF Range
    <2>2. p = 1 \/ p \in 2..(Len(s) + 1)
      BY <1>1
    <2>. QED BY <2>1, <2>2, <1>1 DEF Range
  <1>3. ASSUME NEW y \in {x} \union Range(s) PROVE y \in Range(t)
    <2>1. CASE y = x
      BY <2>1, <1>1 DEF Range
    <2>2. CASE y \in Range(s)
      <3>1. PICK p \in DOMAIN s : y = s[p]
        BY <2>2 DEF Range
      <3>2. p + 1 \in 2..(Len(s) + 1) /\ (p + 1) - 1 = p
        BY <1>1
      <3>3. p + 1 \in DOMAIN t /\ t[p + 1] = y
        BY <3>1, <3>2, <1>1
      <3>. QED BY <3>3 DEF Range
    <2>. QED BY <2>1, <2>2
  <1>. QED BY <1>2, <1>3 DEF t

\* The latest binder goes to the head of its chain.
LEMMA ChainCons ==
  ASSUME NEW c, NEW i, NEW e, NEW n \in Nat, ChainOK(c, i, e, n),
         NEW b \in Binder, b.depth = n + 1, Filed(b, e), Index[b.key] = i
  PROVE  /\ ChainOK(<<b>> \o c, i, e, n + 1)
         /\ Range(<<b>> \o c) = {b} \union Range(c)
  <1>. DEFINE t == <<b>> \o c
  <1>1. c \in Seq(Binder)
    BY DEF ChainOK
  <1>2. /\ t \in Seq(Binder) /\ DOMAIN t = 1..(Len(c) + 1) /\ t[1] = b
        /\ \A p \in 2..(Len(c) + 1) : t[p] = c[p - 1] /\ p - 1 \in DOMAIN c
        /\ Len(c) \in Nat /\ DOMAIN c = 1..Len(c)
    BY <1>1, Cons, LenProperties
  <1>. HIDE DEF t
  <1>3. Range(t) = {b} \union Range(c)
    BY <1>1, RangeCons DEF t
  <1>4. ASSUME NEW p \in DOMAIN t, NEW q \in DOMAIN t, p < q
        PROVE  t[q].depth < t[p].depth
    <2>1. q \in 2..(Len(c) + 1) /\ t[q] = c[q - 1] /\ q - 1 \in DOMAIN c
      BY <1>2, <1>4
    <2>2. CASE p = 1
      <3>1. c[q - 1] \in Range(c)
        BY <2>1 DEF Range
      <3>2. c[q - 1].depth \in 1..n
        BY <3>1 DEF ChainOK
      <3>. QED BY <2>1, <2>2, <3>2, <1>2
    <2>3. CASE p # 1
      <3>1. t[p] = c[p - 1] /\ p - 1 \in DOMAIN c /\ p - 1 < q - 1
        BY <2>1, <2>3, <1>2, <1>4
      <3>. QED BY <2>1, <3>1 DEF ChainOK
    <2>. QED BY <2>2, <2>3
  <1>5. ASSUME NEW x \in Range(t)
        PROVE  x.depth \in 1..(n + 1) /\ Filed(x, e) /\ Index[x.key] = i
    <2>1. CASE x = b
      BY <2>1
    <2>2. CASE x \in Range(c)
      BY <2>2 DEF ChainOK
    <2>. QED BY <2>1, <2>2, <1>3
  <1>6. ChainOK(t, i, e, n + 1)
    BY <1>2, <1>4, <1>5 DEF ChainOK
  <1>. QED BY <1>3, <1>6 DEF t

\* The head of a chain has the latest binder of the chain, and leaves the others.
LEMMA ChainTail ==
  ASSUME NEW c, NEW i, NEW e, NEW n \in Nat, ChainOK(c, i, e, n), c # <<>>
  PROVE  /\ c[1] \in Range(c) /\ Head(c) = c[1]
         /\ ChainOK(Tail(c), i, e, n)
         /\ Range(c) = {c[1]} \union Range(Tail(c))
         /\ \A b \in Range(Tail(c)) : b.depth < c[1].depth
  <1>. DEFINE t == Tail(c)
  <1>1. c \in Seq(Binder)
    BY DEF ChainOK
  <1>2. /\ t \in Seq(Binder) /\ Head(c) = c[1] /\ 1 \in DOMAIN c
        /\ Len(c) \in Nat \ {0} /\ DOMAIN c = 1..Len(c) /\ DOMAIN t = 1..(Len(c) - 1)
        /\ \A p \in 1..(Len(c) - 1) : t[p] = c[p + 1] /\ p + 1 \in DOMAIN c
    BY <1>1, Rest
  <1>. HIDE DEF t
  <1>3. c[1] \in Range(c)
    BY <1>2 DEF Range
  <1>4. Range(c) = {c[1]} \union Range(t)
    <2>1. ASSUME NEW x \in Range(c) PROVE x \in {c[1]} \union Range(t)
      <3>1. PICK p \in DOMAIN c : x = c[p]
        BY DEF Range
      <3>2. CASE p # 1
        <4>1. p - 1 \in 1..(Len(c) - 1) /\ (p - 1) + 1 = p
          BY <3>2, <1>2
        <4>2. p - 1 \in DOMAIN t /\ t[p - 1] = x
          BY <3>1, <4>1, <1>2
        <4>. QED BY <4>2 DEF Range
      <3>. QED BY <3>1, <3>2
    <2>2. ASSUME NEW x \in Range(t) PROVE x \in Range(c)
      <3>1. PICK p \in DOMAIN t : x = t[p]
        BY DEF Range
      <3>. QED BY <3>1, <1>2 DEF Range
    <2>. QED BY <2>1, <2>2, <1>3
  <1>5. ASSUME NEW b \in Range(t) PROVE b.depth < c[1].depth
    <2>1. PICK p \in DOMAIN t : b = t[p]
      BY DEF Range
    <2>2. b = c[p + 1] /\ p + 1 \in DOMAIN c /\ 1 < p + 1
      BY <2>1, <1>2
    <2>. QED BY <2>2, <1>2 DEF ChainOK
  <1>6. ASSUME NEW p \in DOMAIN t, NEW q \in DOMAIN t, p < q
        PROVE  t[q].depth < t[p].depth
    <2>1. /\ t[p] = c[p + 1] /\ t[q] = c[q + 1] /\ p + 1 \in DOMAIN c /\ q + 1 \in DOMAIN c
          /\ p + 1 < q + 1
      BY <1>2, <1>6
    <2>. QED BY <2>1 DEF ChainOK
  <1>7. ChainOK(t, i, e, n)
    BY <1>2, <1>4, <1>6 DEF ChainOK
  <1>. QED BY <1>2, <1>3, <1>4, <1>5, <1>7 DEF t

-----------------------------------------------------------------------------
(* The table *)

\* The head of the chain of top_ is the latest binder; without one there is none.
LEMMA TopBinder ==
  ASSUME TInv
  PROVE  /\ live = 0 <=> top_ = Null
         /\ live = 0 => \A i \in Bucket : table_[i] = <<>>
         /\ live # 0 =>
              /\ top_ = entered[live] /\ table_[Index[top_]] # <<>>
              /\ table_[Index[top_]][1] \in Binder
              /\ table_[Index[top_]][1].depth = live
              /\ Filed(table_[Index[top_]][1], entered)
  <1>. USE DEF TInv
  <1>1. live = 0 <=> top_ = Null
    BY Typing, NullAssumption DEF TopOK, KeyIn
  <1>2. ASSUME live = 0, NEW i \in Bucket PROVE table_[i] = <<>>
    <2>. SUFFICES ASSUME table_[i] # <<>> PROVE FALSE
      OBVIOUS
    <2>1. ChainOK(table_[i], i, entered, 0)
      BY <1>2 DEF ChainsOK
    <2>2. table_[i][1] \in Range(table_[i])
      BY <2>1, ChainTail
    <2>3. table_[i][1].depth \in 1..0
      BY <2>1, <2>2 DEF ChainOK
    <2>. QED BY <2>3
  <1>3. ASSUME live # 0
        PROVE  /\ top_ = entered[live] /\ table_[Index[top_]] # <<>>
               /\ table_[Index[top_]][1] \in Binder
               /\ table_[Index[top_]][1].depth = live
               /\ Filed(table_[Index[top_]][1], entered)
    <2>1. top_ = entered[live] /\ live \in 1..live /\ Index[top_] \in Bucket /\ live \in Nat
      BY <1>3, Typing DEF TopOK, KeyIn
    <2>. DEFINE c == table_[Index[top_]]
    <2>2. PICK b \in Range(c) : b.depth = live
      BY <2>1 DEF Complete
    <2>3. ChainOK(c, Index[top_], entered, live)
      BY <2>1 DEF ChainsOK
    <2>4. c # <<>> /\ c \in Seq(Binder)
      BY <2>2, <2>3 DEF Range, ChainOK
    <2>. HIDE DEF c
    <2>5. /\ c[1] \in Range(c) /\ Range(c) = {c[1]} \union Range(Tail(c))
          /\ \A x \in Range(Tail(c)) : x.depth < c[1].depth
      BY <2>1, <2>3, <2>4, ChainTail
    <2>6. c[1].depth \in 1..live /\ Filed(c[1], entered)
      BY <2>3, <2>5 DEF ChainOK
    <2>7. c[1].depth = live
      BY <2>1, <2>2, <2>5, <2>6
    <2>8. c[1] \in Binder
      BY <2>4, Rest
    <2>. QED BY <2>1, <2>4, <2>6, <2>7, <2>8 DEF c
  <1>. QED BY <1>1, <1>2, <1>3

\* The parts of the invariant that are about the table itself.
Shape == ChainsOK /\ Complete /\ TopOK

\* The next binder is put at the head of its chain (Enter, DumpUp).
LEMMA PutTop ==
  ASSUME TInv, NEW b \in Binder, b.depth = live + 1, Filed(b, entered'),
         table_' = [table_ EXCEPT ![Index[b.key]] = <<b>> \o @],
         top_' = b.key, live' = live + 1, entered'[live + 1] = b.key,
         \A d \in 1..live : entered'[d] = entered[d]
  PROVE  /\ Shape' /\ table_' \in [Bucket -> Seq(Binder)]
         /\ InChains' = InChains \union {b}
  <1>. USE DEF TInv
  <1>. DEFINE k == Index[b.key]
  <1>1. live \in Nat /\ k \in Bucket
    BY Typing, IndexAssumption DEF Binder
  <1>2. ASSUME NEW i \in Bucket
        PROVE  /\ ChainOK(table_'[i], i, entered', live')
               /\ \A x : x \in Range(table_'[i]) <=>
                           x \in Range(table_[i]) \/ (i = k /\ x = b)
    <2>1. ChainOK(table_[i], i, entered, live)
      BY DEF ChainsOK
    <2>2. table_'[i] = IF i = k THEN <<b>> \o table_[i] ELSE table_[i]
      BY DEF TableTypeOK
    <2>3. CASE i # k
      BY <1>1, <2>1, <2>2, <2>3, ChainWider
    <2>4. CASE i = k
      <3>1. ChainOK(table_[i], i, entered', live)
        BY <1>1, <2>1, ChainWider
      <3>2. /\ ChainOK(<<b>> \o table_[i], i, entered', live + 1)
            /\ Range(<<b>> \o table_[i]) = {b} \union Range(table_[i])
        BY <1>1, <2>4, <3>1, ChainCons
      <3>. QED BY <2>2, <2>4, <3>2
    <2>. QED BY <2>3, <2>4
  <1>3. ChainsOK'
    BY <1>2 DEF ChainsOK
  <1>4. table_' \in [Bucket -> Seq(Binder)]
    BY <1>2 DEF ChainOK, TableTypeOK
  <1>5. ASSUME NEW d \in 1..live'
        PROVE  \E x \in Range(table_'[Index[entered'[d]]]) : x.depth = d
    <2>1. CASE d = live + 1
      <3>1. Index[entered'[d]] = k
        BY <2>1
      <3>2. b \in Range(table_'[k])
        BY <1>1, <1>2
      <3>. QED BY <2>1, <3>1, <3>2
    <2>2. CASE d \in 1..live
      <3>1. entered'[d] = entered[d] /\ Index[entered[d]] \in Bucket
        BY <2>2, Typing
      <3>2. PICK x \in Range(table_[Index[entered[d]]]) : x.depth = d
        BY <2>2 DEF Complete
      <3>3. x \in Range(table_'[Index[entered[d]]])
        BY <3>1, <3>2, <1>2
      <3>. QED BY <3>1, <3>2, <3>3
    <2>. QED BY <1>1, <2>1, <2>2
  <1>6. TopOK'
    BY <1>1 DEF TopOK, KeyIn
  <1>7. InChains' = InChains \union {b}
    <2>1. \A x : x \in InChains <=> \E i \in Bucket : x \in Range(table_[i])
      BY DEF InChains
    <2>2. \A x : x \in InChains' <=> \E i \in Bucket : x \in Range(table_'[i])
      BY DEF InChains
    <2>3. \A x : x \in InChains' <=> x \in InChains \/ x = b
      BY <2>1, <2>2, <1>1, <1>2
    <2>. QED BY <2>3
  <1>. QED BY <1>3, <1>4, <1>5, <1>6, <1>7 DEF Shape, Complete

\* The latest binder is taken off the head of its chain (Pop, DumpDown).
LEMMA TakeTop ==
  ASSUME TInv, live # 0, live' = live - 1,
         table_' = [table_ EXCEPT ![Index[top_]] = Tail(@)],
         top_' = Head(table_[Index[top_]]).prevtop,
         \A d \in 1..(live - 1) : entered'[d] = entered[d]
  PROVE  /\ Shape' /\ table_' \in [Bucket -> Seq(Binder)]
         /\ InChains = InChains' \union {Head(table_[Index[top_]])}
  <1>. USE DEF TInv
  <1>. DEFINE k == Index[top_]
              h == Head(table_[k])
  <1>1. live \in Nat \ {0} /\ live - 1 \in Nat /\ k \in Bucket
    BY Typing
  <1>2. /\ h \in Binder /\ h.depth = live /\ Filed(h, entered)
        /\ top_ = entered[live] /\ table_[k] # <<>>
    <2>1. table_[k] # <<>> /\ table_[k] \in Seq(Binder)
      BY <1>1, TopBinder, Typing
    <2>2. h = table_[k][1]
      BY <2>1, Rest
    <2>. QED BY <2>1, <2>2, TopBinder
  <1>3. ASSUME NEW i \in Bucket
        PROVE  /\ ChainOK(table_'[i], i, entered', live - 1)
               /\ \A x : x \in Range(table_[i]) <=>
                           x \in Range(table_'[i]) \/ (i = k /\ x = h)
    <2>1. ChainOK(table_[i], i, entered, live)
      BY DEF ChainsOK
    <2>2. table_'[i] = IF i = k THEN Tail(table_[i]) ELSE table_[i]
      BY DEF TableTypeOK
    <2>3. /\ ChainOK(table_'[i], i, entered, live)
          /\ \A x : x \in Range(table_[i]) <=>
                      x \in Range(table_'[i]) \/ (i = k /\ x = h)
          /\ \A b \in Range(table_'[i]) : b.depth # live
      <3>1. CASE i = k
        <4>1. /\ ChainOK(Tail(table_[i]), i, entered, live) /\ h = table_[i][1]
              /\ Range(table_[i]) = {h} \union Range(Tail(table_[i]))
              /\ \A b \in Range(Tail(table_[i])) : b.depth < h.depth
          BY <1>1, <1>2, <2>1, <3>1, ChainTail
        <4>2. \A b \in Range(Tail(table_[i])) : b.depth # live
          BY <1>1, <1>2, <4>1
        <4>. QED BY <2>2, <3>1, <4>1, <4>2
      <3>2. CASE i # k
        <4>1. ASSUME NEW b \in Range(table_[i]), b.depth = live PROVE FALSE
          <5>1. b.key = entered[live] /\ Index[b.key] = i
            BY <2>1, <4>1 DEF ChainOK, Filed
          <5>. QED BY <5>1, <1>2, <3>2
        <4>. QED BY <2>1, <2>2, <3>2, <4>1
      <3>. QED BY <3>1, <3>2
    <2>4. live = (live - 1) + 1
      BY <1>1
    <2>5. ChainOK(table_'[i], i, entered', live - 1)
      BY <1>1, <2>3, <2>4, ChainNarrower
    <2>. QED BY <2>3, <2>5
  <1>4. ChainsOK'
    BY <1>3 DEF ChainsOK
  <1>5. table_' \in [Bucket -> Seq(Binder)]
    BY <1>3 DEF ChainOK, TableTypeOK
  <1>6. ASSUME NEW d \in 1..live'
        PROVE  \E x \in Range(table_'[Index[entered'[d]]]) : x.depth = d
    <2>1. d \in 1..live /\ d \in 1..(live - 1) /\ d # live
      BY <1>1, <1>6
    <2>2. entered'[d] = entered[d] /\ Index[entered[d]] \in Bucket
      BY <2>1, Typing
    <2>3. PICK x \in Range(table_[Index[entered[d]]]) : x.depth = d
      BY <2>1 DEF Complete
    <2>4. x # h
      BY <1>2, <2>1, <2>3
    <2>. QED BY <2>2, <2>3, <2>4, <1>3
  <1>7. TopOK'
    <2>1. top_' = KeyIn(entered, live - 1)
      BY <1>2 DEF Filed
    <2>. QED BY <2>1, <1>1 DEF TopOK, KeyIn
  <1>8. InChains = InChains' \union {h}
    <2>1. \A x : x \in InChains <=> \E i \in Bucket : x \in Range(table_[i])
      BY DEF InChains
    <2>2. \A x : x \in InChains' <=> \E i \in Bucket : x \in Range(table_'[i])
      BY DEF InChains
    <2>3. \A x : x \in InChains <=> x \in InChains' \/ x = h
      BY <2>1, <2>2, <1>1, <1>3
    <2>. QED BY <2>3
  <1>. QED BY <1>4, <1>5, <1>6, <1>7, <1>8 DEF Shape, Complete

-----------------------------------------------------------------------------
(* The operations preserve the invariant *)

LEMMA InitInv == TableInit => TInv
  <1>. SUFFICES ASSUME TableInit PROVE TInv
    OBVIOUS
  <1>. USE DEF TableInit
  <1>1. size = 0 /\ Len(frames) = 0 /\ live = 0
    BY DEF size, live
  <1>2. TableTypeOK
    BY EmptySeq DEF TableTypeOK
  <1>3. ChainsOK
    BY EmptySeq DEF ChainsOK, ChainOK, Range
  <1>4. PhaseOK /\ Complete /\ TopOK /\ FramesOK
    BY <1>1 DEF PhaseOK, Complete, TopOK, KeyIn, FramesOK
  <1>. QED BY <1>2, <1>3, <1>4 DEF TInv

LEMMA Idle ==
  ASSUME TInv, phase = "idle"
  PROVE  frames = <<>> /\ live = size /\ size \in Nat /\ FramesOK
BY Typing DEF TInv, PhaseOK, live

LEMMA EnterInv ==
  ASSUME TInv, NEW k \in Key, NEW v \in Value \union {Null}, Enter(k, v)
  PROVE  TInv'
  <1>. USE DEF TInv
  <1>. DEFINE b == [key |-> k, value |-> v, prevtop |-> top_, depth |-> size + 1]
  <1>1. live = size /\ size \in Nat /\ frames = <<>> /\ phase = "idle"
    BY Idle DEF Enter
  <1>2. b \in Binder /\ b.depth = size + 1 /\ b.key = k /\ b.prevtop = top_
    BY <1>1 DEF Binder, TableTypeOK
  <1>3. /\ table_' = [table_ EXCEPT ![Index[k]] = <<b>> \o @]
        /\ entered' = Append(entered, k) /\ top_' = k
        /\ UNCHANGED <<phase, frames, shown>>
    BY DEF Enter
  <1>. HIDE DEF b
  <1>4. /\ size' = size + 1 /\ entered' \in Seq(Key) /\ entered'[size + 1] = k
        /\ \A d \in 1..size : entered'[d] = entered[d]
    BY <1>1, <1>3, Push DEF size, TableTypeOK
  <1>5. live' = size + 1
    BY <1>1, <1>3, <1>4 DEF live
  <1>6. Filed(b, entered')
    BY <1>1, <1>2, <1>4 DEF Filed, KeyIn, TopOK
  <1>7. Shape' /\ table_' \in [Bucket -> Seq(Binder)]
    BY <1>1, <1>2, <1>3, <1>4, <1>5, <1>6, PutTop
  <1>8. TableTypeOK'
    BY <1>3, <1>4, <1>7 DEF TableTypeOK
  <1>9. PhaseOK' /\ FramesOK'
    BY <1>1, <1>3, <1>4 DEF PhaseOK, FramesOK
  <1>. QED BY <1>7, <1>8, <1>9 DEF Shape

\* Only the value of one binder changes, to which the invariant does not look.
LEMMA ChainValue ==
  ASSUME NEW c, NEW i, NEW e, NEW n \in Nat, ChainOK(c, i, e, n), NEW p \in DOMAIN c,
         NEW v \in Value \union {Null}
  PROVE  /\ ChainOK([c EXCEPT ![p].value = v], i, e, n)
         /\ DOMAIN [c EXCEPT ![p].value = v] = DOMAIN c
         /\ \A q \in DOMAIN c \ {p} : [c EXCEPT ![p].value = v][q] = c[q]
         /\ [c EXCEPT ![p].value = v][p] = [c[p] EXCEPT !.value = v]
         /\ [c[p] EXCEPT !.value = v] \in Binder
         /\ [c[p] EXCEPT !.value = v].depth = c[p].depth
         /\ [c[p] EXCEPT !.value = v].key = c[p].key
         /\ [c[p] EXCEPT !.value = v].value = v
         /\ c[p] \in Binder
  <1>. DEFINE b == [c[p] EXCEPT !.value = v]
              t == [c EXCEPT ![p] = b]
  <1>1. c \in Seq(Binder) /\ DOMAIN c = 1..Len(c) /\ Len(c) \in Nat /\ c[p] \in Binder
    BY LenProperties, ElementOfSeq DEF ChainOK
  <1>2. /\ b \in Binder /\ b.depth = c[p].depth /\ b.key = c[p].key
        /\ b.prevtop = c[p].prevtop /\ b.value = v
    BY <1>1 DEF Binder
  <1>. HIDE DEF b
  <1>3. t \in Seq(Binder) /\ DOMAIN t = DOMAIN c /\ \A q \in DOMAIN c : t[q] = IF q = p THEN b ELSE c[q]
    BY <1>1, <1>2, ExceptSeq
  <1>. HIDE DEF t
  <1>4. \A q \in DOMAIN c : /\ t[q].depth = c[q].depth /\ t[q].key = c[q].key
                          /\ t[q].prevtop = c[q].prevtop
    BY <1>2, <1>3
  <1>5. \A x \in Range(t) : x.depth \in 1..n /\ Filed(x, e) /\ Index[x.key] = i
    <2>. SUFFICES ASSUME NEW x \in Range(t)
                  PROVE  x.depth \in 1..n /\ Filed(x, e) /\ Index[x.key] = i
      OBVIOUS
    <2>1. PICK q \in DOMAIN c : x = t[q]
      BY <1>3 DEF Range
    <2>2. c[q] \in Range(c)
      BY DEF Range
    <2>3. c[q].depth \in 1..n /\ Filed(c[q], e) /\ Index[c[q].key] = i
      BY <2>2 DEF ChainOK
    <2>. QED BY <2>1, <2>3, <1>4 DEF Filed
  <1>6. \A q, r \in DOMAIN t : q < r => t[r].depth < t[q].depth
    BY <1>3, <1>4 DEF ChainOK
  <1>7. ChainOK(t, i, e, n)
    BY <1>3, <1>5, <1>6 DEF ChainOK
  <1>8. t = [c EXCEPT ![p].value = v]
    BY DEF t, b
  <1>. QED BY <1>1, <1>2, <1>3, <1>7, <1>8 DEF b

LEMMA SetInv ==
  ASSUME TInv, NEW k \in Key, NEW v \in Value \union {Null}, Set(k, v)
  PROVE  TInv'
  <1>. USE DEF TInv
  <1>. DEFINE i == Index[k]
              c == table_[i]
  <1>1. PICK p \in DOMAIN c :
          FirstOf(k, p) /\ table_' = [table_ EXCEPT ![i][p].value = v]
    BY DEF Set
  <1>2. UNCHANGED <<top_, phase, frames, shown, entered>>
    BY DEF Set
  <1>3. i \in Bucket /\ live \in Nat /\ UNCHANGED <<size, live>>
    BY <1>2, IndexAssumption, Typing DEF size, live
  <1>. DEFINE t == [c EXCEPT ![p].value = v]
  <1>4. /\ ChainOK(t, i, entered, live) /\ DOMAIN t = DOMAIN c
        /\ \A q \in DOMAIN c : t[q].depth = c[q].depth
    <2>1. ChainOK(c, i, entered, live)
      BY <1>3 DEF ChainsOK
    <2>. HIDE DEF c
    <2>. QED BY <1>3, <2>1, ChainValue
  <1>5. table_' = [table_ EXCEPT ![i] = t]
    BY <1>1
  <1>6. \A j \in Bucket : table_'[j] = IF j = i THEN t ELSE table_[j]
    BY <1>3, <1>5 DEF TableTypeOK
  <1>. HIDE DEF t
  <1>7. ChainsOK'
    BY <1>2, <1>3, <1>4, <1>6 DEF ChainsOK
  <1>8. TableTypeOK'
    BY <1>2, <1>3, <1>4, <1>5 DEF TableTypeOK, ChainOK
  <1>9. Complete'
    <2>. SUFFICES ASSUME NEW d \in 1..live
                  PROVE  \E b \in Range(table_'[Index[entered[d]]]) : b.depth = d
      BY <1>2, <1>3 DEF Complete
    <2>1. Index[entered[d]] \in Bucket
      BY Typing
    <2>2. PICK b \in Range(table_[Index[entered[d]]]) : b.depth = d
      BY DEF Complete
    <2>3. PICK q \in DOMAIN table_[Index[entered[d]]] : b = table_[Index[entered[d]]][q]
      BY <2>2 DEF Range
    <2>4. /\ q \in DOMAIN table_'[Index[entered[d]]]
          /\ table_'[Index[entered[d]]][q].depth = d
      BY <2>1, <2>2, <2>3, <1>4, <1>6
    <2>. QED BY <2>4 DEF Range
  <1>10. PhaseOK' /\ TopOK' /\ FramesOK'
    BY <1>2, <1>3 DEF PhaseOK, TopOK, FramesOK
  <1>. QED BY <1>7, <1>8, <1>9, <1>10

LEMMA PopInv ==
  ASSUME TInv, Pop
  PROVE  TInv'
  <1>. USE DEF TInv
  <1>1. live = size /\ size \in Nat /\ frames = <<>> /\ phase = "idle" /\ live # 0
    BY Idle, TopBinder DEF Pop
  <1>2. /\ table_' = [table_ EXCEPT ![Index[top_]] = Tail(@)]
        /\ top_' = Head(table_[Index[top_]]).prevtop
        /\ entered' = SubSeq(entered, 1, size - 1)
        /\ UNCHANGED <<phase, frames, shown>>
    BY DEF Pop
  <1>3. entered # <<>> /\ entered \in Seq(Key)
    BY <1>1, EmptySeq DEF TableTypeOK, size
  <1>4. /\ size' = size - 1 /\ entered' \in Seq(Key)
        /\ \A d \in 1..(size - 1) : entered'[d] = entered[d]
    BY <1>2, <1>3, Front DEF size
  <1>5. live' = live - 1
    BY <1>1, <1>2, <1>4 DEF live
  <1>6. Shape' /\ table_' \in [Bucket -> Seq(Binder)]
    BY <1>1, <1>2, <1>4, <1>5, TakeTop
  <1>7. top_' \in Key \union {Null}
    <2>1. table_[Index[top_]] \in Seq(Binder) /\ table_[Index[top_]] # <<>>
      BY Typing DEF Pop
    <2>2. Head(table_[Index[top_]]) \in Binder
      BY <2>1, Rest
    <2>. QED BY <1>2, <2>2 DEF Binder
  <1>8. TableTypeOK'
    BY <1>2, <1>4, <1>6, <1>7 DEF TableTypeOK
  <1>9. PhaseOK' /\ FramesOK'
    BY <1>1, <1>2, <1>4 DEF PhaseOK, FramesOK
  <1>. QED BY <1>6, <1>8, <1>9 DEF Shape

LEMMA DumpDownInv ==
  ASSUME TInv, DumpDown
  PROVE  TInv' /\ Live' = Live
  <1>. USE DEF TInv
  <1>. DEFINE i == Index[top_]
              c == table_[i]
              h == Head(c)
              rest == Tail(c)
              n == IF rest = <<>> THEN 0 ELSE Head(rest).depth
              f == [k |-> top_, b |-> h, next |-> n]
              m == Len(frames)
  <1>1. /\ table_' = [table_ EXCEPT ![i] = Tail(@)] /\ top_' = h.prevtop
        /\ frames' = Append(frames, f)
        /\ shown' = Append(shown, [key |-> h.key, value |-> h.value])
        /\ UNCHANGED <<phase, entered>> /\ phase = "down" /\ c # <<>>
    BY DEF DumpDown
  <1>2. i \in Bucket /\ live \in Nat /\ size \in Nat /\ m \in Nat /\ live = size - m
    BY Typing DEF live
  <1>3. live # 0
    BY <1>1, <1>2, TopBinder
  <1>4. /\ h \in Binder /\ h = c[1] /\ h.depth = live /\ Filed(h, entered)
        /\ top_ = entered[live]
    <2>1. c \in Seq(Binder)
      BY <1>2, Typing
    <2>2. h = c[1]
      BY <2>1, <1>1, Rest
    <2>. QED BY <2>2, <1>3, TopBinder
  <1>5. /\ ChainOK(rest, i, entered, live) /\ Range(c) = {h} \union Range(rest)
        /\ \A b \in Range(rest) : b.depth < live
    <2>1. ChainOK(c, i, entered, live)
      BY <1>2 DEF ChainsOK
    <2>. HIDE DEF c
    <2>. QED BY <2>1, <1>1, <1>2, <1>4, ChainTail
  <1>. HIDE DEF c
  <1>6. /\ n \in Nat /\ n < live
        /\ n # 0 => Index[entered[n]] = i
        /\ \A b \in Range(rest) : b.depth <= n
    <2>. HIDE DEF rest
    <2>1. CASE rest = <<>>
      <3>1. Range(rest) = {}
        BY <2>1 DEF Range
      <3>. QED BY <2>1, <3>1, <1>2, <1>3
    <2>2. CASE rest # <<>>
      <3>1. /\ Head(rest) = rest[1] /\ rest[1] \in Range(rest)
            /\ Range(rest) = {rest[1]} \union Range(Tail(rest))
            /\ \A b \in Range(Tail(rest)) : b.depth < rest[1].depth
        BY <2>2, <1>2, <1>5, ChainTail
      <3>2. rest[1].depth \in 1..live /\ Filed(rest[1], entered) /\ Index[rest[1].key] = i
        BY <3>1, <1>5 DEF ChainOK
      <3>3. n = rest[1].depth /\ n < live
        BY <2>2, <3>1, <1>5
      <3>4. \A b \in Range(rest) : b.depth \in Nat
        BY <1>2, <1>5 DEF ChainOK
      <3>. QED BY <3>1, <3>2, <3>3, <3>4, <1>2 DEF Filed
    <2>. QED BY <2>1, <2>2
  <1>7. \A d \in (n + 1)..(live - 1) : Index[entered[d]] # i
    <2>. SUFFICES ASSUME NEW d \in (n + 1)..(live - 1), Index[entered[d]] = i
                  PROVE  FALSE
      OBVIOUS
    <2>1. d \in 1..live /\ d # live /\ ~(d <= n)
      BY SMTT(30), <1>2, <1>6
    <2>2. PICK b \in Range(c) : b.depth = d
      BY <2>1 DEF Complete, c
    <2>. QED BY <2>1, <2>2, <1>4, <1>5, <1>6
  <1>. HIDE DEF n, rest
  <1>8. f \in Frame
    BY <1>2, <1>3, <1>4, <1>6, Typing DEF Frame, TableTypeOK, Binder, Filed
  <1>9. /\ frames' \in Seq(Frame) /\ Len(frames') = m + 1 /\ frames'[m + 1] = f
        /\ \A j \in 1..m : frames'[j] = frames[j]
    BY <1>1, <1>8, Push DEF TableTypeOK
  <1>10. size' = size /\ live' = live - 1
    BY <1>1, <1>2, <1>9 DEF live, size
  <1>11. /\ Shape' /\ table_' \in [Bucket -> Seq(Binder)]
         /\ InChains = InChains' \union {h}
    BY <1>1, <1>3, <1>10, TakeTop DEF c
  <1>12. shown' \in Seq([key : Key, value : Value \union {Null}])
    <2>1. [key |-> h.key, value |-> h.value] \in [key : Key, value : Value \union {Null}]
      BY <1>4 DEF Binder
    <2>. HIDE DEF h
    <2>. QED BY <2>1, <1>1, Push DEF TableTypeOK
  <1>13. TableTypeOK'
    BY <1>1, <1>4, <1>9, <1>11, <1>12 DEF TableTypeOK, Binder
  <1>14. PhaseOK'
    <2>1. m + 1 <= size /\ phase' = "down"
      BY <1>1, <1>2, <1>3
    <2>. HIDE DEF m
    <2>. QED BY <2>1, <1>9, <1>10 DEF PhaseOK
  <1>15. /\ f.b.depth = size - (m + 1) + 1 /\ Filed(f.b, entered) /\ f.k = f.b.key
         /\ f.next < f.b.depth
         /\ f.next # 0 => Index[entered[f.next]] = Index[f.k]
         /\ \A d \in (f.next + 1)..(f.b.depth - 1) : Index[entered[d]] # Index[f.k]
    BY <1>2, <1>4, <1>6, <1>7 DEF Filed
  <1>. HIDE DEF f
  <1>16. FramesOK'
    <2>. SUFFICES ASSUME NEW j \in DOMAIN frames'
                  PROVE  LET g == frames'[j] IN
                         /\ g.b.depth = size - j + 1 /\ Filed(g.b, entered)
                         /\ g.k = g.b.key /\ g.next < g.b.depth
                         /\ g.next # 0 => Index[entered[g.next]] = Index[g.k]
                         /\ \A d \in (g.next + 1)..(g.b.depth - 1) :
                              Index[entered[d]] # Index[g.k]
      BY <1>1, <1>10 DEF FramesOK
    <2>1. j \in 1..(m + 1)
      BY <1>9, LenProperties
    <2>2. CASE j = m + 1
      BY <2>2, <1>9, <1>15
    <2>3. CASE j \in 1..m
      BY <2>3, <1>9, Typing DEF FramesOK
    <2>. QED BY <2>1, <2>2, <2>3, <1>2
  <1>17. InFrames' = InFrames \union {h}
    <2>1. DOMAIN frames = 1..m /\ DOMAIN frames' = 1..(m + 1) /\ frames'[m + 1].b = h
      BY <1>9, LenProperties, Typing DEF f
    <2>2. \A x : x \in InFrames' <=> x \in InFrames \/ x = h
      <3>1. ASSUME NEW x \in InFrames' PROVE x \in InFrames \/ x = h
        <4>1. PICK j \in 1..(m + 1) : x = frames'[j].b
          BY <3>1, <2>1 DEF InFrames
        <4>2. j = m + 1 \/ j \in 1..m
          BY <1>2
        <4>. QED BY <4>1, <4>2, <2>1, <1>9 DEF InFrames
      <3>2. ASSUME NEW x \in InFrames PROVE x \in InFrames'
        <4>1. PICK j \in 1..m : x = frames[j].b
          BY <3>2, <2>1 DEF InFrames
        <4>2. j \in 1..(m + 1) /\ frames'[j] = frames[j]
          BY <1>2, <1>9
        <4>. QED BY <4>1, <4>2, <2>1 DEF InFrames
      <3>3. h \in InFrames'
        <4>1. m + 1 \in 1..(m + 1)
          BY <1>2
        <4>. QED BY <4>1, <2>1 DEF InFrames
      <3>. QED BY <3>1, <3>2, <3>3
    <2>. QED BY <2>2
  <1>18. Live' = Live
    <2>. HIDE DEF h
    <2>1. Live = InChains \union InFrames
      BY DEF Live, InChains, InFrames
    <2>2. Live' = InChains' \union InFrames'
      BY DEF Live, InChains, InFrames
    <2>. QED BY <2>1, <2>2, <1>11, <1>17
  <1>. QED BY <1>11, <1>13, <1>14, <1>16, <1>18 DEF Shape

\* The innermost frame holds the latest of the binders that are not in the table.
LEMMA LastFrame ==
  ASSUME TInv, phase = "up"
  PROVE  /\ Len(frames) \in Nat \ {0} /\ Len(frames) \in DOMAIN frames
         /\ frames[Len(frames)] \in Frame /\ frames[Len(frames)].b \in Binder
         /\ frames[Len(frames)].b.depth = live + 1
         /\ Filed(frames[Len(frames)].b, entered)
         /\ frames[Len(frames)].k = frames[Len(frames)].b.key
  <1>1. frames # <<>> /\ frames \in Seq(Frame)
    BY DEF TInv, PhaseOK, TableTypeOK
  <1>2. Len(frames) \in Nat \ {0} /\ Len(frames) \in DOMAIN frames
    BY <1>1, EmptySeq, LenProperties
  <1>3. frames[Len(frames)] \in Frame /\ size \in Nat
    BY <1>2, Typing DEF TInv
  <1>4. frames[Len(frames)].b \in Binder
    BY <1>3 DEF Frame
  <1>. QED BY <1>2, <1>3, <1>4 DEF TInv, FramesOK, live

LEMMA DumpUpInv ==
  ASSUME TInv, DumpUp
  PROVE  TInv' /\ Live' = Live
  <1>. USE DEF TInv
  <1>. DEFINE f == frames[Len(frames)]
              m == Len(frames)
  <1>1. /\ table_' = [table_ EXCEPT ![Index[f.k]] = <<f.b>> \o @] /\ top_' = f.k
        /\ frames' = SubSeq(frames, 1, m - 1)
        /\ phase' = (IF m = 1 THEN "idle" ELSE "up")
        /\ shown' = (IF m = 1 THEN <<>> ELSE shown)
        /\ UNCHANGED entered /\ phase = "up"
    BY DEF DumpUp
  <1>2. /\ m \in Nat \ {0} /\ f.b \in Binder /\ f.b.depth = live + 1 /\ f.k = f.b.key
        /\ Filed(f.b, entered) /\ size \in Nat /\ live \in 0..size /\ live = size - m
    BY <1>1, LastFrame, Typing DEF live
  <1>3. frames # <<>> /\ frames \in Seq(Frame)
    BY <1>1 DEF PhaseOK, TableTypeOK
  <1>4. /\ frames' \in Seq(Frame) /\ Len(frames') = m - 1
        /\ \A j \in 1..(m - 1) : frames'[j] = frames[j]
    BY <1>1, <1>3, Front
  <1>5. size' = size /\ live' = live + 1
    <2>1. size' = size
      BY <1>1 DEF size
    <2>. HIDE DEF f, m
    <2>. QED BY <2>1, <1>2, <1>4 DEF live
  <1>6. f.b.key = entered[live + 1] /\ Filed(f.b, entered')
    BY <1>1, <1>2 DEF Filed
  <1>7. f.b.key \in Key
    BY <1>2 DEF Binder
  <1>. HIDE DEF f, m
  <1>8. /\ Shape' /\ table_' \in [Bucket -> Seq(Binder)]
        /\ InChains' = InChains \union {f.b}
    BY <1>1, <1>2, <1>5, <1>6, PutTop
  <1>9. TableTypeOK'
    BY <1>1, <1>2, <1>4, <1>7, <1>8, EmptySeq DEF TableTypeOK
  <1>10. PhaseOK'
    <2>1. m = 1 => frames' = <<>>
      BY <1>4, EmptySeq
    <2>2. m # 1 => frames' # <<>>
      BY <1>2, <1>4, EmptySeq
    <2>3. Len(frames') <= size'
      BY <1>2, <1>4, <1>5
    <2>4. phase' = (IF m = 1 THEN "idle" ELSE "up")
      BY <1>1
    <2>. QED BY <2>1, <2>2, <2>3, <2>4 DEF PhaseOK
  <1>11. FramesOK'
    <2>. SUFFICES ASSUME NEW j \in DOMAIN frames'
                  PROVE  LET g == frames'[j] IN
                         /\ g.b.depth = size - j + 1 /\ Filed(g.b, entered)
                         /\ g.k = g.b.key /\ g.next < g.b.depth
                         /\ g.next # 0 => Index[entered[g.next]] = Index[g.k]
                         /\ \A d \in (g.next + 1)..(g.b.depth - 1) :
                              Index[entered[d]] # Index[g.k]
      BY <1>1, <1>5 DEF FramesOK
    <2>1. j \in 1..(m - 1)
      BY <1>4, LenProperties
    <2>2. frames'[j] = frames[j] /\ j \in DOMAIN frames
      BY <2>1, <1>2, <1>4, Typing DEF m
    <2>. QED BY <2>2 DEF FramesOK
  <1>12. InFrames = InFrames' \union {f.b}
    <2>1. DOMAIN frames = 1..m /\ DOMAIN frames' = 1..(m - 1) /\ frames[m] = f
      BY <1>4, LenProperties, Typing DEF f, m
    <2>2. ASSUME NEW x \in InFrames PROVE x \in InFrames' \/ x = f.b
      <3>1. PICK j \in 1..m : x = frames[j].b
        BY <2>2, <2>1 DEF InFrames
      <3>2. j = m \/ j \in 1..(m - 1)
        BY <1>2
      <3>. QED BY <3>1, <3>2, <2>1, <1>4 DEF InFrames
    <2>3. ASSUME NEW x \in InFrames' PROVE x \in InFrames
      <3>1. PICK j \in 1..(m - 1) : x = frames'[j].b
        BY <2>3, <2>1 DEF InFrames
      <3>2. j \in 1..m /\ frames'[j] = frames[j]
        BY <1>2, <1>4
      <3>. QED BY <3>1, <3>2, <2>1 DEF InFrames
    <2>4. f.b \in InFrames
      <3>1. m \in 1..m
        BY <1>2
      <3>. QED BY <3>1, <2>1 DEF InFrames
    <2>. QED BY <2>2, <2>3, <2>4
  <1>13. Live' = Live
    <2>1. Live = InChains \union InFrames
      BY DEF Live, InChains, InFrames
    <2>2. Live' = InChains' \union InFrames'
      BY DEF Live, InChains, InFrames
    <2>. QED BY <2>1, <2>2, <1>8, <1>12
  <1>. QED BY <1>8, <1>9, <1>10, <1>11, <1>13 DEF Shape

\* The steps that only change the phase.
LEMMA PhaseInv ==
  ASSUME TInv, Dump \/ DumpBottom
  PROVE  TInv'
  <1>. USE DEF TInv
  <1>1. UNCHANGED <<table_, top_, frames, shown, entered>>
    BY DEF Dump, DumpBottom
  <1>2. UNCHANGED <<size, live>>
    BY <1>1 DEF size, live
  <1>3. phase' \in {"idle", "down", "up"}
    BY DEF Dump, DumpBottom
  <1>4. TableTypeOK' /\ ChainsOK' /\ Complete' /\ TopOK' /\ FramesOK'
    BY <1>1, <1>2, <1>3 DEF TableTypeOK, ChainsOK, Complete, TopOK, FramesOK
  <1>5. PhaseOK'
    BY <1>1, <1>2 DEF PhaseOK, Dump, DumpBottom
  <1>. QED BY <1>4, <1>5

LEMMA NextInv == TInv /\ [TableNext]_tableVars => TInv'
  <1>. SUFFICES ASSUME TInv, [TableNext]_tableVars PROVE TInv'
    OBVIOUS
  <1>1. ASSUME NEW k \in Key, NEW v \in Value \union {Null}, Enter(k, v) PROVE TInv'
    BY <1>1, EnterInv
  <1>2. ASSUME NEW k \in Key, NEW v \in Value \union {Null}, Set(k, v) PROVE TInv'
    BY <1>2, SetInv
  <1>3. CASE Pop
    BY <1>3, PopInv
  <1>4. CASE Dump \/ DumpBottom
    BY <1>4, PhaseInv
  <1>5. CASE DumpDown
    BY <1>5, DumpDownInv
  <1>6. CASE DumpUp
    BY <1>6, DumpUpInv
  <1>7. CASE UNCHANGED tableVars
    BY <1>7 DEF tableVars, TInv, TableTypeOK, PhaseOK, ChainsOK, Complete, TopOK,
                FramesOK, live, size
  <1>. QED BY <1>1, <1>2, <1>3, <1>4, <1>5, <1>6, <1>7 DEF TableNext, DumpStep

\* The inductive invariant of the table, TInv, holds in every state: it is that Enter,
\* Set, Pop and each half of a level of Dump keep every chain in the order of entry.
THEOREM TableInvariance == TableSpec => []TInv
  <1>. QED BY InitInv, NextInv, PTL DEF TableSpec

-----------------------------------------------------------------------------
(* The properties *)

\* Every variable always has its type.
THEOREM TableTypeCorrect == TableSpec => []TableTypeOK
  <1>1. TInv => TableTypeOK
    BY DEF TInv
  <1>. QED BY <1>1, TableInvariance, PTL

\* The binder that Pop, or Dump, takes is there and is the one entered last.
LEMMA TopTaken == TInv => PopTakesTop
  <1>. SUFFICES ASSUME TInv PROVE PopTakesTop
    OBVIOUS
  <1>1. /\ live \in Nat /\ Index[top_] \in Bucket
        /\ table_[Index[top_]] \in Seq(Binder) /\ live = size - Len(frames)
    BY Typing DEF TInv, live
  <1>2. ASSUME top_ = Null, NEW i \in Bucket PROVE table_[i] = <<>>
    BY <1>2, TopBinder
  <1>3. ASSUME top_ # Null
        PROVE  /\ table_[Index[top_]] # <<>>
               /\ Head(table_[Index[top_]]).key = top_
               /\ Head(table_[Index[top_]]).depth = size - Len(frames)
    <2>1. /\ table_[Index[top_]] # <<>> /\ top_ = entered[live]
          /\ table_[Index[top_]][1].depth = live
          /\ Filed(table_[Index[top_]][1], entered)
      BY <1>3, TopBinder
    <2>2. Head(table_[Index[top_]]) = table_[Index[top_]][1]
      BY <1>1, <2>1, Rest
    <2>. QED BY <1>1, <2>1, <2>2 DEF Filed
  <1>. QED BY <1>2, <1>3 DEF PopTakesTop

\* No assert of Pop fails on a table that holds a binding.
THEOREM PopTakesTopAlways == TableSpec => []PopTakesTop
  <1>. QED BY TopTaken, TableInvariance, PTL

\* When a recursive call of Dump returns, the chain of the bucket is the one of
\* b->next again and top_ is again the key entered before.
LEMMA BucketRestored == TInv => DumpAssert
  <1>. SUFFICES ASSUME TInv, phase = "up" PROVE DumpAssert
    BY DEF DumpAssert
  <1>. DEFINE f == frames[Len(frames)]
              i == Index[f.k]
              c == table_[i]
  <1>1. /\ f.b \in Binder /\ f.b.depth = live + 1 /\ Filed(f.b, entered)
        /\ f.k = f.b.key /\ f.k \in Key /\ f \in Frame
    BY LastFrame DEF Binder
  <1>2. live \in Nat /\ f.next \in Nat
    BY <1>1, Typing DEF TInv, Frame
  <1>3. top_ = f.b.prevtop
    BY <1>1, <1>2 DEF Filed, TInv, TopOK
  <1>4. /\ f.next < live + 1
        /\ f.next # 0 => Index[entered[f.next]] = i
        /\ \A d \in (f.next + 1)..live : Index[entered[d]] # i
    BY <1>1, <1>2, LastFrame DEF TInv, FramesOK
  <1>5. i \in Bucket
    BY <1>1, IndexAssumption
  <1>. HIDE DEF f
  <1>6. ChainOK(c, i, entered, live)
    BY <1>5 DEF TInv, ChainsOK
  <1>7. f.next # 0 => \E b \in Range(c) : b.depth = f.next
    <2>1. f.next # 0 => f.next \in 1..live
      BY <1>2, <1>4
    <2>. QED BY <2>1, <1>4 DEF TInv, Complete
  <1>. HIDE DEF c
  <1>8. CASE c = <<>>
    <2>1. Range(c) = {}
      BY <1>8 DEF Range
    <2>2. f.next = 0
      BY <2>1, <1>7
    <2>. QED BY <2>2, <1>3, <1>8 DEF DumpAssert, f, c
  <1>9. CASE c # <<>>
    <2>1. /\ c[1] \in Range(c) /\ Range(c) = {c[1]} \union Range(Tail(c))
          /\ \A b \in Range(Tail(c)) : b.depth < c[1].depth
      BY <1>2, <1>6, <1>9, ChainTail
    <2>2. c[1].depth \in 1..live /\ Index[entered[c[1].depth]] = i
      BY <1>6, <2>1 DEF ChainOK, Filed
    <2>3. c[1].depth <= f.next
      BY <1>2, <1>4, <2>2
    <2>4. f.next # 0 => f.next <= c[1].depth
      BY <1>2, <1>7, <2>1, <2>2
    <2>5. f.next = c[1].depth
      BY <1>2, <2>2, <2>3, <2>4
    <2>. QED BY <2>5, <1>3, <1>9 DEF DumpAssert, f, c
  <1>. QED BY <1>8, <1>9

\* The assert of Dump never fails.
THEOREM DumpAssertAlways == TableSpec => []DumpAssert
  <1>. QED BY BucketRestored, TableInvariance, PTL

-----------------------------------------------------------------------------
(* A set of binders as a stack of bindings *)

At(L, d) == CHOOSE b \in L : b.depth = d
Binds(b) == [key |-> b.key, value |-> b.value]
StackOf(L, n) == [d \in 1..n |-> Binds(At(L, d))]

LEMMA BindsParts == \A b : Binds(b).key = b.key /\ Binds(b).value = b.value
BY DEF Binds

\* L holds one binder of each depth up to n, and no other.
OneEach(L, n) ==
  /\ L \subseteq Binder
  /\ \A b \in L : b.depth \in 1..n
  /\ \A b, c \in L : b.depth = c.depth => b = c
  /\ \A d \in 1..n : \E b \in L : b.depth = d

LEMMA AtDepth ==
  ASSUME NEW L, NEW n, OneEach(L, n), NEW b \in L
  PROVE  At(L, b.depth) = b
BY DEF OneEach, At

LEMMA AtIn ==
  ASSUME NEW L, NEW n, OneEach(L, n), NEW d \in 1..n
  PROVE  At(L, d) \in L /\ At(L, d).depth = d
BY DEF OneEach, At

LEMMA StackType ==
  ASSUME NEW L, NEW n \in Nat, OneEach(L, n)
  PROVE  /\ StackOf(L, n) \in Seq([key : Key, value : Value \union {Null}])
         /\ Len(StackOf(L, n)) = n /\ DOMAIN StackOf(L, n) = 1..n
         /\ \A d \in 1..n : StackOf(L, n)[d] = Binds(At(L, d))
  <1>. DEFINE s == StackOf(L, n)
              X == [key : Key, value : Value \union {Null}]
  <1>1. ASSUME NEW d \in 1..n PROVE Binds(At(L, d)) \in X
    <2>1. At(L, d) \in Binder
      BY AtIn DEF OneEach
    <2>. QED BY <2>1 DEF Binder, Binds
  <1>2. s \in [1..n -> X]
    BY <1>1 DEF StackOf
  <1>. HIDE DEF X
  <1>3. s \in Seq(X)
    BY <1>2, IsASeq DEF StackOf
  <1>. QED BY <1>2, <1>3, LenProperties DEF StackOf, X

\* One binder more is one binding more.
LEMMA StackGrows ==
  ASSUME NEW L, NEW n \in Nat, OneEach(L, n), NEW b, NEW M, M = L \union {b},
         b.depth = n + 1, OneEach(M, n + 1)
  PROVE  StackOf(M, n + 1) = Append(StackOf(L, n), Binds(b))
  <1>. DEFINE s == StackOf(L, n)
              t == StackOf(M, n + 1)
              X == [key : Key, value : Value \union {Null}]
  <1>1. /\ s \in Seq(X) /\ Len(s) = n /\ \A d \in 1..n : s[d] = Binds(At(L, d))
        /\ t \in Seq(X) /\ Len(t) = n + 1
        /\ \A d \in 1..(n + 1) : t[d] = Binds(At(M, d))
    <2>1. n + 1 \in Nat
      OBVIOUS
    <2>2. /\ s \in Seq(X) /\ Len(s) = n /\ \A d \in 1..n : s[d] = Binds(At(L, d))
      BY StackType
    <2>. QED BY <2>1, <2>2, StackType
  <1>2. \A d \in 1..n : At(M, d) = At(L, d)
    <2>. SUFFICES ASSUME NEW d \in 1..n PROVE At(M, d) = At(L, d)
      OBVIOUS
    <2>1. At(L, d) \in M /\ At(L, d).depth = d
      BY AtIn
    <2>. QED BY <2>1, AtDepth
  <1>3. At(M, n + 1) = b
    BY AtDepth
  <1>4. Binds(b) \in X
    BY DEF OneEach, Binder, Binds
  <1>. HIDE DEF s, t, X
  <1>5. /\ Append(s, Binds(b)) \in Seq(X) /\ Len(Append(s, Binds(b))) = n + 1
        /\ Append(s, Binds(b))[n + 1] = Binds(b)
        /\ \A d \in 1..n : Append(s, Binds(b))[d] = s[d]
    BY <1>1, <1>4, Push
  <1>6. ASSUME NEW d \in 1..(n + 1) PROVE t[d] = Append(s, Binds(b))[d]
    <2>1. CASE d = n + 1
      BY <2>1, <1>1, <1>3, <1>5
    <2>2. CASE d \in 1..n
      BY <2>2, <1>1, <1>2, <1>5
    <2>3. d = n + 1 \/ d \in 1..n
      OBVIOUS
    <2>. QED BY <2>1, <2>2, <2>3
  <1>7. t = Append(s, Binds(b))
    BY <1>1, <1>5, <1>6, SeqEqual
  <1>. QED BY <1>7 DEF s, t

\* Without its last element a sequence is what it was before the element came.
LEMMA Unappend ==
  ASSUME NEW X, NEW s \in Seq(X), NEW x \in X
  PROVE  /\ Append(s, x) # <<>>
         /\ s = SubSeq(Append(s, x), 1, Len(Append(s, x)) - 1)
  <1>. DEFINE t == Append(s, x)
  <1>1. /\ t \in Seq(X) /\ Len(t) = Len(s) + 1 /\ Len(s) \in Nat
        /\ \A p \in 1..Len(s) : t[p] = s[p]
    BY Push
  <1>. HIDE DEF t
  <1>2. t # <<>>
    BY <1>1, EmptySeq
  <1>3. /\ SubSeq(t, 1, Len(t) - 1) \in Seq(X) /\ Len(SubSeq(t, 1, Len(t) - 1)) = Len(s)
        /\ \A p \in 1..Len(s) : SubSeq(t, 1, Len(t) - 1)[p] = t[p]
    BY <1>1, <1>2, Front
  <1>4. s = SubSeq(t, 1, Len(t) - 1)
    BY <1>1, <1>3, SeqEqual
  <1>. QED BY <1>2, <1>4 DEF t

\* A binder replaced by one of the same depth is a binding replaced.
LEMMA StackReplaces ==
  ASSUME NEW L, NEW M, NEW n \in Nat, OneEach(L, n), OneEach(M, n),
         NEW b \in L, NEW v, [b EXCEPT !.value = v] \in M, \A x \in L : x # b => x \in M
  PROVE  /\ b.depth \in DOMAIN StackOf(L, n)
         /\ StackOf(M, n) = [StackOf(L, n) EXCEPT ![b.depth].value = v]
  <1>. DEFINE c == [b EXCEPT !.value = v]
  <1>1. b \in Binder /\ b.depth \in 1..n
    BY DEF OneEach
  <1>2. c.depth = b.depth /\ Binds(c) = [Binds(b) EXCEPT !.value = v]
    BY <1>1 DEF Binder, Binds
  <1>. HIDE DEF c
  <1>3. At(L, b.depth) = b /\ At(M, b.depth) = c
    BY <1>2, AtDepth DEF c
  <1>4. ASSUME NEW d \in 1..n, d # b.depth PROVE At(M, d) = At(L, d)
    <2>1. At(L, d) \in L /\ At(L, d).depth = d
      BY AtIn
    <2>2. At(L, d) \in M
      BY <2>1, <1>4
    <2>. QED BY <2>1, <2>2, AtDepth
  <1>5. StackOf(M, n) = [StackOf(L, n) EXCEPT ![b.depth] = Binds(c)]
    BY <1>1, <1>3, <1>4 DEF StackOf
  <1>6. StackOf(L, n)[b.depth] = Binds(b)
    BY <1>1, <1>3 DEF StackOf
  <1>. QED BY <1>1, <1>2, <1>5, <1>6 DEF StackOf

-----------------------------------------------------------------------------
(* The table is a stack of bindings *)

AreBindings == Bindings = StackOf(Live, size)

LEMMA BindingsStack == AreBindings
BY DEF AreBindings, Bindings, BinderAt, StackOf, Binds, At

LEMMA ChainBinder ==
  ASSUME TInv, NEW b \in InChains
  PROVE  /\ b \in Binder /\ b.depth \in 1..live /\ Filed(b, entered)
         /\ Index[b.key] = Index[entered[b.depth]] /\ b \in Range(table_[Index[b.key]])
         /\ Index[b.key] \in Bucket
  <1>1. PICK i \in Bucket : b \in Range(table_[i])
    BY DEF InChains
  <1>2. ChainOK(table_[i], i, entered, live)
    BY DEF TInv, ChainsOK
  <1>3. b.depth \in 1..live /\ Filed(b, entered) /\ Index[b.key] = i
    BY <1>1, <1>2 DEF ChainOK
  <1>4. b \in Binder
    BY <1>1, Typing DEF TInv, Range
  <1>. QED BY <1>1, <1>3, <1>4 DEF Filed

LEMMA FrameBinder ==
  ASSUME TInv, NEW j \in DOMAIN frames
  PROVE  /\ frames[j].b \in Binder /\ frames[j].b.depth = size - j + 1
         /\ frames[j].b.depth \in (live + 1)..size
         /\ Filed(frames[j].b, entered)
  <1>1. frames[j] \in Frame /\ j \in 1..Len(frames) /\ size \in Nat /\ Len(frames) \in Nat
    BY Typing DEF TInv
  <1>2. frames[j].b.depth = size - j + 1 /\ Filed(frames[j].b, entered)
    BY DEF TInv, FramesOK
  <1>. QED BY <1>1, <1>2 DEF Frame, live

LiveOneEach == OneEach(Live, size)

LEMMA LiveDepths == TInv => LiveOneEach
  <1>. SUFFICES ASSUME TInv PROVE OneEach(Live, size)
    BY DEF LiveOneEach
  <1>1. Live = InChains \union InFrames
    BY DEF Live, InChains, InFrames
  <1>2. size \in Nat /\ live \in 0..size /\ live = size - Len(frames)
        /\ Len(frames) \in Nat /\ DOMAIN frames = 1..Len(frames)
    BY Typing DEF TInv, live
  <1>3. ASSUME NEW b \in Live PROVE b \in Binder /\ b.depth \in 1..size
    <2>1. CASE b \in InChains
      BY <2>1, <1>2, ChainBinder
    <2>2. CASE b \in InFrames
      <3>1. PICK j \in DOMAIN frames : b = frames[j].b
        BY <2>2 DEF InFrames
      <3>. QED BY <3>1, <1>2, FrameBinder
    <2>. QED BY <2>1, <2>2, <1>1
  <1>4. ASSUME NEW b \in InChains, NEW c \in InChains, b.depth = c.depth PROVE b = c
    <2>. DEFINE s == table_[Index[b.key]]
    <2>1. /\ b \in Range(s) /\ c \in Range(s) /\ Index[b.key] \in Bucket
          /\ b.depth \in 1..live
      BY <1>4, ChainBinder
    <2>2. ChainOK(s, Index[b.key], entered, live) /\ DOMAIN s = 1..Len(s) /\ Len(s) \in Nat
      BY <2>1, Typing DEF TInv, ChainsOK
    <2>. HIDE DEF s
    <2>3. PICK p \in DOMAIN s, q \in DOMAIN s : b = s[p] /\ c = s[q]
      BY <2>1 DEF Range
    <2>4. ~(p < q) /\ ~(q < p)
      BY <2>1, <2>2, <2>3, <1>2, <1>4 DEF ChainOK
    <2>5. p = q
      BY <2>2, <2>4
    <2>. QED BY <2>3, <2>5
  <1>5. ASSUME NEW b \in InFrames, NEW c \in InFrames, b.depth = c.depth PROVE b = c
    <2>1. PICK j \in DOMAIN frames, k \in DOMAIN frames : b = frames[j].b /\ c = frames[k].b
      BY DEF InFrames
    <2>2. size - j + 1 = size - k + 1
      BY <2>1, <1>5, FrameBinder
    <2>. QED BY <2>1, <2>2, <1>2
  <1>6. ASSUME NEW b \in InChains, NEW c \in InFrames PROVE b.depth # c.depth
    <2>1. PICK j \in DOMAIN frames : c = frames[j].b
      BY DEF InFrames
    <2>2. b.depth \in 1..live /\ c.depth \in (live + 1)..size
      BY <2>1, ChainBinder, FrameBinder
    <2>. QED BY <2>2, <1>2
  <1>7. ASSUME NEW b \in Live, NEW c \in Live, b.depth = c.depth PROVE b = c
    BY <1>1, <1>4, <1>5, <1>6, <1>7
  <1>8. ASSUME NEW d \in 1..size PROVE \E b \in Live : b.depth = d
    <2>1. CASE d \in 1..live
      <3>1. Index[entered[d]] \in Bucket
        BY Typing DEF TInv
      <3>2. PICK b \in Range(table_[Index[entered[d]]]) : b.depth = d
        BY <2>1 DEF TInv, Complete
      <3>3. b \in InChains
        BY <3>1, <3>2 DEF InChains
      <3>. QED BY <3>2, <3>3, <1>1
    <2>2. CASE d \notin 1..live
      <3>1. size - d + 1 \in DOMAIN frames /\ size - (size - d + 1) + 1 = d
        BY <2>2, <1>2
      <3>2. frames[size - d + 1].b.depth = d
        BY <3>1, FrameBinder
      <3>3. frames[size - d + 1].b \in InFrames
        BY <3>1 DEF InFrames
      <3>. QED BY <3>2, <3>3, <1>1
    <2>. QED BY <2>1, <2>2
  <1>. QED BY <1>3, <1>7, <1>8 DEF OneEach

\* A binder of the table is the binding of its depth.
LEMMA BinderIsBinding ==
  ASSUME TInv, NEW b \in Live
  PROVE  /\ b.depth \in 1..size /\ Bindings[b.depth] = Binds(b)
         /\ DOMAIN Bindings = 1..size
  <1>1. OneEach(Live, size)
    BY LiveDepths DEF LiveOneEach
  <1>2. b.depth \in 1..size
    BY <1>1 DEF OneEach
  <1>3. At(Live, b.depth) = b
    BY <1>1, AtDepth
  <1>. QED BY <1>2, <1>3, BindingsStack DEF AreBindings, StackOf

\* While no Dump runs, the bindings of a key are the binders of its chain that have
\* the key.
LEMMA OnChain ==
  ASSUME TInv, phase = "idle", NEW k \in Key
  PROVE  /\ DOMAIN Bindings = 1..size
         /\ \A d \in 1..size : Bindings[d].key = k =>
              \E p \in DOMAIN table_[Index[k]] :
                 table_[Index[k]][p].depth = d /\ table_[Index[k]][p].key = k
         /\ \A p \in DOMAIN table_[Index[k]] :
              /\ table_[Index[k]][p] \in Live
              /\ table_[Index[k]][p].depth \in 1..size
              /\ Bindings[table_[Index[k]][p].depth] = Binds(table_[Index[k]][p])
  <1>. DEFINE c == table_[Index[k]]
  <1>1. DOMAIN Bindings = 1..size
    BY DEF Bindings
  <1>2. Live = InChains
    <2>1. DOMAIN frames = {}
      BY Idle
    <2>. QED BY <2>1 DEF Live, InChains
  <1>3. Index[k] \in Bucket
    BY IndexAssumption
  <1>4. ASSUME NEW p \in DOMAIN c
        PROVE  /\ c[p] \in Live /\ c[p].depth \in 1..size
               /\ Bindings[c[p].depth] = Binds(c[p])
    <2>1. c[p] \in Live
      BY <1>2, <1>3 DEF InChains, Range
    <2>. QED BY <2>1, BinderIsBinding
  <1>5. ASSUME NEW d \in 1..size, Bindings[d].key = k
        PROVE  \E p \in DOMAIN c : c[p].depth = d /\ c[p].key = k
    <2>1. PICK b \in Live : b.depth = d
      BY LiveDepths DEF LiveOneEach, OneEach
    <2>2. b.key = k
      BY <2>1, <1>5, BinderIsBinding, BindsParts
    <2>3. b \in Range(c)
      BY <2>2, <1>2, ChainBinder
    <2>. QED BY <2>1, <2>2, <2>3 DEF Range
  <1>. QED BY <1>1, <1>4, <1>5

\* The first binder of a key on its chain is the latest binding of the key.
LEMMA FirstIsLatest ==
  ASSUME TInv, phase = "idle", NEW k \in Key, NEW p, FirstOf(k, p)
  PROVE  E!Latest(k, table_[Index[k]][p].depth)
  <1>. DEFINE c == table_[Index[k]]
  <1>1. p \in DOMAIN c /\ c[p].key = k /\ \A q \in 1..(p - 1) : c[q].key # k
    BY DEF FirstOf
  <1>2. /\ c[p].depth \in 1..size /\ Bindings[c[p].depth].key = k
        /\ DOMAIN Bindings = 1..size
    BY <1>1, OnChain, BindsParts
  <1>3. ASSUME NEW e \in 1..size, Bindings[e].key = k PROVE e <= c[p].depth
    <2>1. PICK q \in DOMAIN c : c[q].depth = e /\ c[q].key = k
      BY <1>3, OnChain
    <2>2. Index[k] \in Bucket
      BY IndexAssumption
    <2>3. DOMAIN c = 1..Len(c) /\ Len(c) \in Nat /\ size \in Nat
      BY <2>2, Typing DEF TInv
    <2>4. ~(q < p)
      BY <2>1, <2>3, <1>1
    <2>5. CASE p < q
      <3>1. c[q].depth < c[p].depth
        BY <2>2, <2>5, <1>1 DEF TInv, ChainsOK, ChainOK
      <3>. QED BY <3>1, <2>1, <2>3, <1>2
    <2>6. CASE p = q
      BY <2>1, <2>6, <1>2
    <2>. QED BY <2>3, <2>4, <2>5, <2>6, <1>1
  <1>. QED BY <1>1, <1>2, <1>3 DEF E!Latest

\* An Enter binds.
LEMMA EnterBinds ==
  ASSUME TInv, NEW k \in Key, NEW v \in Value \union {Null}, Enter(k, v)
  PROVE  Bindings' = Append(Bindings, [key |-> k, value |-> v])
  <1>. DEFINE b == [key |-> k, value |-> v, prevtop |-> top_, depth |-> size + 1]
  <1>1. live = size /\ size \in Nat /\ frames = <<>> /\ Index[k] \in Bucket
    BY Idle, IndexAssumption DEF Enter
  <1>2. /\ b.depth = size + 1 /\ Binds(b) = [key |-> k, value |-> v]
    BY DEF Binds
  <1>3. /\ table_' = [table_ EXCEPT ![Index[k]] = <<b>> \o @]
        /\ entered' = Append(entered, k) /\ UNCHANGED frames
    BY DEF Enter
  <1>4. b \in Binder
    BY <1>1 DEF Binder, TInv, TableTypeOK
  <1>. HIDE DEF b
  <1>5. TInv'
    BY EnterInv
  <1>6. size' = size + 1
    BY <1>3, Push DEF size, TInv, TableTypeOK
  <1>7. InChains' = InChains \union {b}
    <2>1. /\ live' = live + 1 /\ b.key = k /\ top_' = k
          /\ \A d \in 1..live : entered'[d] = entered[d]
          /\ entered'[live + 1] = k
      BY <1>1, <1>3, <1>6, Push DEF live, size, TInv, TableTypeOK, Enter, b
    <2>2. Filed(b, entered')
      BY <2>1, <1>1, <1>2 DEF Filed, KeyIn, TInv, TopOK, b
    <2>. QED BY <2>1, <2>2, <1>1, <1>2, <1>3, <1>4, PutTop
  <1>8. Live' = Live \union {b}
    <2>1. InFrames' = InFrames
      BY <1>3 DEF InFrames
    <2>. QED BY <2>1, <1>7 DEF Live, InChains, InFrames
  <1>9. OneEach(Live, size) /\ OneEach(Live', size + 1)
    <2>1. OneEach(Live, size)
      BY LiveDepths DEF LiveOneEach
    <2>2. LiveOneEach'
      BY <1>5, LiveDepths, PTL
    <2>. QED BY <2>1, <2>2, <1>6 DEF LiveOneEach
  <1>10. StackOf(Live', size + 1) = Append(StackOf(Live, size), Binds(b))
    BY <1>1, <1>2, <1>8, <1>9, StackGrows
  <1>11. AreBindings'
    BY BindingsStack, PTL
  <1>. QED BY <1>2, <1>6, <1>10, <1>11, BindingsStack DEF AreBindings

\* A Pop undoes the latest binding.
LEMMA PopUnbinds ==
  ASSUME TInv, Pop
  PROVE  Bindings # <<>> /\ Bindings' = SubSeq(Bindings, 1, Len(Bindings) - 1)
  <1>. DEFINE i == Index[top_]
              h == Head(table_[i])
  <1>1. /\ table_' = [table_ EXCEPT ![i] = Tail(@)] /\ top_' = h.prevtop
        /\ entered' = SubSeq(entered, 1, size - 1)
        /\ UNCHANGED frames /\ top_ # Null /\ table_[i] # <<>>
    BY DEF Pop
  <1>2. live = size /\ size \in Nat /\ frames = <<>> /\ i \in Bucket
    BY Idle, Typing DEF Pop, TInv
  <1>3. live # 0 /\ h.depth = size
    <2>1. h.depth = size - Len(frames)
      BY <1>1, TopTaken DEF PopTakesTop
    <2>. QED BY <2>1, <1>1, <1>2, TopBinder
  <1>4. entered # <<>> /\ entered \in Seq(Key)
    BY <1>2, <1>3, EmptySeq DEF TInv, TableTypeOK, size
  <1>5. size' = size - 1 /\ \A d \in 1..(size - 1) : entered'[d] = entered[d]
    BY <1>1, <1>4, Front DEF size
  <1>6. live' = live - 1
    BY <1>1, <1>2, <1>5 DEF live
  <1>7. TInv'
    BY PopInv
  <1>8. InChains = InChains' \union {h}
    BY <1>1, <1>2, <1>3, <1>5, <1>6, TakeTop
  <1>. HIDE DEF h, i
  <1>9. Live = Live' \union {h}
    <2>1. InFrames' = InFrames
      BY <1>1 DEF InFrames
    <2>. QED BY <2>1, <1>8 DEF Live, InChains, InFrames
  <1>10. OneEach(Live, (size - 1) + 1) /\ OneEach(Live', size - 1)
    <2>1. OneEach(Live, size)
      BY LiveDepths DEF LiveOneEach
    <2>2. LiveOneEach'
      BY <1>7, LiveDepths, PTL
    <2>3. size = (size - 1) + 1
      BY <1>2
    <2>. QED BY <2>1, <2>2, <2>3, <1>5 DEF LiveOneEach
  <1>11. size - 1 \in Nat /\ h.depth = (size - 1) + 1 /\ size = (size - 1) + 1
    BY <1>2, <1>3
  <1>12. /\ StackOf(Live, (size - 1) + 1) # <<>>
         /\ StackOf(Live', size - 1) =
              SubSeq(StackOf(Live, (size - 1) + 1), 1, Len(StackOf(Live, (size - 1) + 1)) - 1)
    <2>. DEFINE n == size - 1
    <2>1. n \in Nat /\ h.depth = n + 1 /\ OneEach(Live, n + 1) /\ OneEach(Live', n)
      BY <1>10, <1>11
    <2>2. Binds(h) \in [key : Key, value : Value \union {Null}]
      <3>1. h \in Binder
        BY <1>9, <1>10 DEF OneEach
      <3>. QED BY <3>1 DEF Binder, Binds
    <2>. HIDE DEF n
    <2>3. StackOf(Live, n + 1) = Append(StackOf(Live', n), Binds(h))
      BY <2>1, <1>9, StackGrows
    <2>4. StackOf(Live', n) \in Seq([key : Key, value : Value \union {Null}])
      BY <2>1, StackType
    <2>. QED BY <2>2, <2>3, <2>4, Unappend DEF n
  <1>13. Bindings = StackOf(Live, (size - 1) + 1)
    BY <1>11, BindingsStack DEF AreBindings
  <1>14. Bindings' = StackOf(Live', size - 1)
    <2>1. AreBindings'
      BY BindingsStack, PTL
    <2>. QED BY <2>1, <1>5 DEF AreBindings
  <1>. QED BY <1>12, <1>13, <1>14

\* A Set assigns to the latest binding of its key.
LEMMA SetAssigns ==
  ASSUME TInv, NEW k \in Key, NEW v \in Value \union {Null}, Set(k, v)
  PROVE  E!Assign(k, v)
  <1>. DEFINE i == Index[k]
              c == table_[i]
  <1>1. PICK p \in DOMAIN c :
          FirstOf(k, p) /\ table_' = [table_ EXCEPT ![i][p].value = v]
    BY DEF Set
  <1>2. UNCHANGED <<frames, entered>> /\ phase = "idle" /\ i \in Bucket /\ size \in Nat
    BY IndexAssumption, Idle DEF Set
  <1>. DEFINE b == c[p]
              t == [c EXCEPT ![p].value = v]
  <1>3. b \in Live /\ b.depth \in 1..size
    BY <1>2, OnChain
  <1>4. E!Latest(k, b.depth)
    BY <1>1, <1>2, FirstIsLatest
  <1>5. /\ DOMAIN t = DOMAIN c /\ t[p] = [b EXCEPT !.value = v]
        /\ \A q \in DOMAIN c \ {p} : t[q] = c[q]
    <2>1. ChainOK(c, i, entered, live) /\ live \in Nat
      BY <1>2, Typing DEF TInv, ChainsOK
    <2>. HIDE DEF c
    <2>. QED BY <2>1, ChainValue
  <1>6. \A j \in Bucket : table_'[j] = IF j = i THEN t ELSE table_[j]
    BY <1>1, <1>2 DEF TInv, TableTypeOK
  <1>. HIDE DEF t
  <1>7. [b EXCEPT !.value = v] \in Live'
    <2>1. p \in DOMAIN table_'[i] /\ table_'[i][p] = [b EXCEPT !.value = v]
      BY <1>2, <1>5, <1>6
    <2>. HIDE DEF b
    <2>2. [b EXCEPT !.value = v] \in Range(table_'[i])
      BY <2>1 DEF Range
    <2>. QED BY <1>2, <2>2 DEF Live
  <1>8. ASSUME NEW x \in Live, x # b PROVE x \in Live'
    <2>1. CASE x \in InChains
      <3>1. PICK j \in Bucket : x \in Range(table_[j])
        BY <2>1 DEF InChains
      <3>2. PICK q \in DOMAIN table_[j] : x = table_[j][q]
        BY <3>1 DEF Range
      <3>3. q \in DOMAIN table_'[j] /\ table_'[j][q] = x
        BY <3>2, <1>5, <1>6, <1>8
      <3>4. x \in Range(table_'[j])
        BY <3>3 DEF Range
      <3>. QED BY <3>4 DEF Live
    <2>2. CASE x \in InFrames
      BY <2>2, <1>2 DEF InFrames, Live
    <2>. QED BY <2>1, <2>2 DEF Live, InChains, InFrames
  <1>9. OneEach(Live, size) /\ OneEach(Live', size)
    <2>1. TInv'
      BY SetInv
    <2>2. LiveOneEach'
      BY <2>1, LiveDepths, PTL
    <2>3. size' = size
      BY <1>2 DEF size
    <2>. QED BY <2>2, <2>3, LiveDepths DEF LiveOneEach
  <1>10. /\ Bindings = StackOf(Live, size) /\ Bindings' = StackOf(Live', size)
    <2>1. AreBindings'
      BY BindingsStack, PTL
    <2>2. size' = size
      BY <1>2 DEF size
    <2>. QED BY <2>1, <2>2, BindingsStack DEF AreBindings
  <1>. HIDE DEF b
  <1>11. /\ b.depth \in DOMAIN StackOf(Live, size)
         /\ StackOf(Live', size) = [StackOf(Live, size) EXCEPT ![b.depth].value = v]
    BY <1>2, <1>3, <1>7, <1>8, <1>9, StackReplaces
  <1>. QED BY <1>4, <1>10, <1>11 DEF E!Assign

\* The steps of a Dump move binders between the chains and the frames.
LEMMA DumpKeeps ==
  ASSUME TInv, Dump \/ DumpStep
  PROVE  Bindings' = Bindings
  <1>1. AreBindings'
    BY BindingsStack, PTL
  <1>2. SUFFICES Live' = Live /\ size' = size
    BY <1>1, BindingsStack DEF AreBindings
  <1>3. size' = size
    BY DEF Dump, DumpStep, DumpDown, DumpBottom, DumpUp, size
  <1>4. CASE Dump \/ DumpBottom
    BY <1>3, <1>4 DEF Dump, DumpBottom, Live
  <1>5. CASE DumpDown
    BY <1>3, <1>5, DumpDownInv
  <1>6. CASE DumpUp
    BY <1>3, <1>6, DumpUpInv
  <1>. QED BY <1>4, <1>5, <1>6 DEF DumpStep

LEMMA StepRefines == TInv /\ [TableNext]_tableVars => [EnvStep]_tableVars
  <1>. SUFFICES ASSUME TInv PROVE EnvStep
    OBVIOUS
  <1>1. ASSUME NEW k \in Key, NEW v \in Value \union {Null}, Enter(k, v) PROVE E!Bind(k, v)
    BY <1>1, EnterBinds DEF E!Bind
  <1>2. ASSUME NEW k \in Key, NEW v \in Value \union {Null}, Set(k, v) PROVE E!Assign(k, v)
    BY <1>2, SetAssigns
  <1>3. ASSUME Pop PROVE E!Unbind
    BY <1>3, PopUnbinds DEF E!Unbind
  <1>4. ASSUME Dump \/ DumpStep PROVE UNCHANGED Bindings
    BY <1>4, DumpKeeps
  <1>. QED BY <1>1, <1>2, <1>3, <1>4 DEF EnvStep

LEMMA EnvStepIsNext == [TableNext]_tableVars /\ [EnvStep]_tableVars => [E!Next]_Bindings
  <1>1. TableNext /\ EnvStep => E!Next \/ UNCHANGED Bindings
    BY DEF TableNext, EnvStep, E!Next
  <1>2. UNCHANGED tableVars => UNCHANGED Bindings
    BY DEF tableVars, Bindings, BinderAt, Live, size
  <1>. QED BY <1>1, <1>2

LEMMA InitRefines == TableInit => E!Init
  <1>. SUFFICES ASSUME TableInit PROVE Bindings = <<>>
    BY DEF E!Init
  <1>1. size = 0
    BY DEF TableInit, size
  <1>. QED BY <1>1 DEF Bindings

\* The table behaves as the stack of bindings that Env specifies: Enter binds, Set
\* assigns to the latest binding of its key, Pop undoes the latest binding, and a Dump
\* changes nothing although it takes the table apart.
THEOREM TableImplementsEnv == TableSpec => ImplementsEnv
  <1>. QED BY InitInv, NextInv, InitRefines, StepRefines, EnvStepIsNext, PTL
           DEF TableSpec, ImplementsEnv, E!Spec

\* While no Dump runs, a lookup finds the latest binding, wherever on a chain shared
\* with other keys its binder is.
LEMMA LookFinds == TInv => LookAgrees
  <1>. SUFFICES ASSUME TInv, phase = "idle", NEW k \in Key, NEW v \in Value \union {Null}
                PROVE  Look(k, v) <=> E!Finds(k, v)
    BY DEF LookAgrees
  <1>. DEFINE c == table_[Index[k]]
  <1>1. /\ DOMAIN Bindings = 1..size
        /\ \A d \in 1..size : Bindings[d].key = k =>
             \E p \in DOMAIN c : c[p].depth = d /\ c[p].key = k
        /\ \A p \in DOMAIN c : /\ c[p].depth \in 1..size
                              /\ Bindings[c[p].depth] = Binds(c[p])
    BY OnChain
  <1>2. \A p \in DOMAIN c : /\ Bindings[c[p].depth].key = c[p].key
                          /\ Bindings[c[p].depth].value = c[p].value
    BY <1>1, BindsParts
  <1>3. ASSUME NEW p, FirstOf(k, p)
        PROVE  E!Latest(k, c[p].depth) /\ p \in DOMAIN c /\ c[p].key = k
    BY <1>3, FirstIsLatest DEF FirstOf
  <1>4. ASSUME NEW d, NEW e, E!Latest(k, d), E!Latest(k, e) PROVE d = e
    BY <1>1, <1>4, Typing DEF E!Latest, TInv
  <1>5. ASSUME NEW p \in DOMAIN c, c[p].key = k PROVE \E q \in DOMAIN c : FirstOf(k, q)
    <2>. DEFINE P == {q \in DOMAIN c : c[q].key = k}
    <2>1. P \subseteq 1..Len(c) /\ P # {} /\ DOMAIN c = 1..Len(c) /\ Len(c) \in Nat
      BY <1>5, IndexAssumption, Typing DEF TInv
    <2>2. PICK q \in P : \A r \in P : q <= r
      <3>. HIDE DEF P
      <3>. QED BY <2>1, Least
    <2>3. \A r \in 1..(q - 1) : c[r].key # k
      BY <2>1, <2>2
    <2>. QED BY <2>2, <2>3 DEF FirstOf
  <1>. HIDE DEF c
  <1>6. ASSUME Look(k, v) PROVE E!Finds(k, v)
    <2>1. CASE \E p \in DOMAIN c : FirstOf(k, p) /\ v = c[p].value
      BY <2>1, <1>1, <1>2, <1>3 DEF E!Finds
    <2>2. CASE v = Null /\ \A p \in DOMAIN c : c[p].key # k
      BY <2>2, <1>1 DEF E!Finds
    <2>. QED BY <1>6, <2>1, <2>2 DEF Look, c
  <1>7. ASSUME E!Finds(k, v) PROVE Look(k, v)
    <2>1. CASE \E d \in DOMAIN Bindings : E!Latest(k, d) /\ v = Bindings[d].value
      <3>1. PICK d \in DOMAIN Bindings : E!Latest(k, d) /\ v = Bindings[d].value
        BY <2>1
      <3>2. PICK p \in DOMAIN c : c[p].depth = d /\ c[p].key = k
        BY <3>1, <1>1 DEF E!Latest
      <3>3. PICK q \in DOMAIN c : FirstOf(k, q)
        BY <3>2, <1>5
      <3>4. c[q].depth = d
        BY <3>1, <3>3, <1>3, <1>4
      <3>. QED BY <3>1, <3>3, <3>4, <1>2 DEF Look, c
    <2>2. CASE v = Null /\ \A d \in DOMAIN Bindings : Bindings[d].key # k
      BY <2>2, <1>1, <1>2 DEF Look, c
    <2>. QED BY <1>7, <2>1, <2>2 DEF E!Finds
  <1>. QED BY <1>6, <1>7

\* Between calls Look returns the value of the latest binding of its key, or null.
THEOREM LookCorrect == TableSpec => []LookAgrees
  <1>. QED BY LookFinds, TableInvariance, PTL

-----------------------------------------------------------------------------
(* What a Dump shows *)

\* On the way down what was shown is what the frames hold; on the way up it is every
\* binding, the latest first.
ShownOK ==
  /\ phase = "idle" => shown = <<>>
  /\ phase = "down" =>
       /\ Len(shown) = Len(frames)
       /\ \A j \in DOMAIN frames : shown[j] = Binds(frames[j].b)
  /\ DumpShowsAll

\* At the bottom the frames hold all binders.
LEMMA BottomShown ==
  ASSUME TInv, ShownOK, DumpBottom
  PROVE  ShownOK'
  <1>1. /\ UNCHANGED <<table_, top_, frames, shown, entered>> /\ phase = "down"
        /\ phase' = (IF frames = <<>> THEN "idle" ELSE "up")
        /\ table_[Index[top_]] = <<>>
    BY DEF DumpBottom
  <1>2. /\ size \in Nat /\ live \in 0..size /\ live = size - Len(frames)
        /\ Len(frames) \in Nat /\ DOMAIN frames = 1..Len(frames)
    BY Typing DEF TInv, live
  <1>3. live = 0
    BY <1>1, TopBinder
  <1>4. Len(shown) = size /\ size = Len(frames) /\ shown \in Seq([key : Key, value : Value \union {Null}])
    BY <1>1, <1>2, <1>3 DEF ShownOK, TInv, TableTypeOK
  <1>5. ASSUME NEW d \in 1..size PROVE shown[d] = Bindings[size - d + 1]
    <2>1. d \in DOMAIN frames /\ shown[d] = Binds(frames[d].b)
      BY <1>1, <1>2, <1>4 DEF ShownOK
    <2>2. frames[d].b \in Live /\ frames[d].b.depth = size - d + 1
      BY <2>1, FrameBinder DEF Live
    <2>. QED BY <2>1, <2>2, BinderIsBinding
  <1>6. Bindings' = Bindings /\ size' = size
    BY <1>1, DumpKeeps DEF DumpStep, size
  <1>7. CASE frames = <<>>
    <2>1. size = 0
      BY <1>2, <1>4, <1>7
    <2>2. shown = <<>>
      BY <2>1, <1>4, EmptySeq
    <2>. QED BY <2>2, <1>1, <1>7 DEF ShownOK, DumpShowsAll
  <1>8. CASE frames # <<>>
    BY <1>1, <1>4, <1>5, <1>6, <1>8 DEF ShownOK, DumpShowsAll
  <1>. QED BY <1>7, <1>8

LEMMA ShownInv == TInv /\ ShownOK /\ [TableNext]_tableVars => ShownOK'
  <1>. SUFFICES ASSUME TInv, ShownOK, [TableNext]_tableVars PROVE ShownOK'
    OBVIOUS
  <1>1. CASE phase = "idle" /\ phase' = "idle" /\ UNCHANGED shown
    BY <1>1 DEF ShownOK, DumpShowsAll
  <1>2. CASE Dump
    <2>1. shown' = <<>> /\ frames' = <<>> /\ DOMAIN frames' = {} /\ phase' = "down"
      BY <1>2 DEF Dump, ShownOK, TInv, PhaseOK
    <2>. QED BY <2>1 DEF ShownOK, DumpShowsAll
  <1>3. CASE DumpDown
    <2>. DEFINE b == Head(table_[Index[top_]])
                f == frames'[Len(frames) + 1]
                X == [key : Key, value : Value \union {Null}]
    <2>1. /\ phase = "down" /\ phase' = "down" /\ shown' = Append(shown, Binds(b))
          /\ \E x : x.b = b /\ frames' = Append(frames, x)
      <3>1. \A k, n : [k |-> k, b |-> b, next |-> n].b = b
        OBVIOUS
      <3>. QED BY <1>3, <3>1 DEF DumpDown, Binds
    <2>2. /\ frames \in Seq(Frame) /\ frames' \in Seq(Frame)
          /\ shown \in Seq(X) /\ shown' \in Seq(X)
      <3>1. TInv'
        BY <1>3, NextInv DEF TableNext, DumpStep
      <3>. QED BY <3>1 DEF TInv, TableTypeOK
    <2>. HIDE DEF b, X
    <2>3. /\ Len(shown') = Len(shown) + 1 /\ Len(frames') = Len(frames) + 1
          /\ Len(frames) \in Nat /\ Len(shown) = Len(frames)
          /\ shown'[Len(frames) + 1] = Binds(b) /\ frames'[Len(frames) + 1].b = b
          /\ \A j \in 1..Len(frames) :
               shown'[j] = shown[j] /\ frames'[j] = frames[j] /\ shown[j] = Binds(frames[j].b)
      BY <2>1, <2>2 DEF ShownOK
    <2>4. \A j \in 1..(Len(frames) + 1) : shown'[j] = Binds(frames'[j].b)
      BY <2>3
    <2>5. DOMAIN frames' = 1..(Len(frames) + 1)
      BY <2>2, <2>3
    <2>. QED BY <2>1, <2>3, <2>4, <2>5 DEF ShownOK, DumpShowsAll
  <1>4. CASE DumpBottom
    BY <1>4, BottomShown
  <1>5. CASE DumpUp
    <2>1. Bindings' = Bindings /\ size' = size
      BY <1>5, DumpKeeps DEF DumpUp, DumpStep, size
    <2>2. \/ phase' = "idle" /\ shown' = <<>>
          \/ phase' = "up" /\ shown' = shown /\ phase = "up"
      BY <1>5 DEF DumpUp
    <2>. QED BY <2>1, <2>2 DEF ShownOK, DumpShowsAll
  <1>6. CASE UNCHANGED tableVars
    <2>1. Bindings' = Bindings
      BY <1>6 DEF tableVars, Bindings, BinderAt, Live, size
    <2>. QED BY <1>6, <2>1 DEF tableVars, ShownOK, DumpShowsAll, size
  <1>. QED BY <1>1, <1>2, <1>3, <1>4, <1>5, <1>6 DEF TableNext, DumpStep, Enter, Set, Pop

\* A Dump that has gone down has shown each binding once, the latest first.
THEOREM DumpShowsAllAlways == TableSpec => []DumpShowsAll
  <1>1. TableInit => ShownOK
    BY DEF TableInit, ShownOK, DumpShowsAll
  <1>2. ShownOK => DumpShowsAll
    BY DEF ShownOK
  <1>. QED BY <1>1, <1>2, ShownInv, TableInvariance, NextInv, InitInv, PTL DEF TableSpec

-----------------------------------------------------------------------------
(* Symbol tables *)

\* Every step of a symbol table is a step of the table below it, or none.
LEMMA SymStep == [SymNext]_symVars => [TableNext]_tableVars
<1>. USE DEF TableNext
<1>1. CASE Ready /\ Inherited
  <2>. SUFFICES ASSUME (\E k \in Symbols, v \in Value \union {Null} : Enter(k, v) \/ Set(k, v))
                       \/ Pop \/ Dump
                PROVE TableNext
    BY <1>1 DEF Inherited
  <2>1. ASSUME NEW k \in Symbols, NEW v \in Value \union {Null}, Enter(k, v) \/ Set(k, v)
        PROVE TableNext
    BY <2>1 DEF Symbols
  <2>. QED BY <2>1
<1>2. CASE BeginScope
  BY <1>2, MarkAssumption DEF BeginScope
<1>3. CASE EndScope
  BY <1>3 DEF EndScope
<1>4. CASE DumpStep
  BY <1>4
<1>5. CASE EndScopeStep
  BY <1>5 DEF EndScopeStep, EndScopePop, EndScopeAssert
<1>6. CASE UNCHANGED symVars
  BY <1>6 DEF symVars
<1>. QED
  BY <1>1, <1>2, <1>3, <1>4, <1>5, <1>6 DEF SymNext

\* A symbol table behaves as a table does, and its Dump returns as a table's does.
THEOREM SymTableIsTable == SymSpec => TableSpec
<1>1. SymInit => TableInit
  BY DEF SymInit
<1>. QED
  BY <1>1, SymStep, PTL DEF SymSpec, TableSpec

\* On a symbol table too, each operation is that of a stack of bindings, also the Pops
\* of an EndScope.
THEOREM SymTableImplementsEnv == SymSpec => ImplementsEnv
  BY SymTableIsTable, TableImplementsEnv

\* Neither assert of Pop stops an EndScope while the table holds a binding: what it pops
\* is the latest binder, its mark in the end included.
THEOREM SymPopTakesTop == SymSpec => []PopTakesTop
  BY SymTableIsTable, PopTakesTopAlways

\* Look finds the latest binding of a symbol, whatever scopes there are.
THEOREM SymLookCorrect == SymSpec => []LookAgrees
  BY SymTableIsTable, LookCorrect

-----------------------------------------------------------------------------
(* Places of marks *)

\* M, the places of the marks, is among the first n places.
MarksIn(M, n) == n \in Nat /\ M \subseteq 1..n

\* The marks M up to d, their number, and the n-th of them.
UpTo(M, d) == {x \in M : x <= d}
Count(M, d) == Cardinality(UpTo(M, d))
Place(M, n) == IF n = 0 THEN 0 ELSE CHOOSE d \in M : Count(M, d) = n

LEMMA MarkRange ==
  ASSUME NEW M, NEW n, MarksIn(M, n)
  PROVE  \A x \in M : x \in Nat /\ 1 <= x /\ x <= n
BY DEF MarksIn

LEMMA UpToIs == \A M, d, x : x \in UpTo(M, d) <=> x \in M /\ x <= d
BY DEF UpTo

\* What Count counts.
Counted(M, n) ==
  /\ Cardinality(M) \in Nat
  /\ \A d \in Nat : Count(M, d) \in Nat /\ Count(M, d) <= Cardinality(M)
  /\ Count(M, 0) = 0 /\ Count(M, n) = Cardinality(M)
  /\ \A d, e \in Nat : d <= e => Count(M, d) <= Count(M, e)
  /\ \A d \in Nat \ {0} : d \in M => Count(M, d) = Count(M, d - 1) + 1
  /\ \A d \in Nat \ {0} : d \notin M => Count(M, d) = Count(M, d - 1)

LEMMA Counts ==
  ASSUME NEW M, NEW n, MarksIn(M, n)
  PROVE  Counted(M, n)
<1>0. n \in Nat /\ \A x \in M : x \in Nat /\ 1 <= x /\ x <= n
  BY MarkRange DEF MarksIn
<1>1. IsFiniteSet(M) /\ Cardinality(M) \in Nat
  <2>1. IsFiniteSet(1..n) /\ M \in SUBSET (1..n)
    BY FS_Interval DEF MarksIn
  <2>. QED BY <2>1, FS_Subset, FS_CardinalityType
<1>2. \A d : /\ IsFiniteSet(UpTo(M, d)) /\ Count(M, d) \in Nat
             /\ Count(M, d) <= Cardinality(M)
  <2>1. \A d : UpTo(M, d) \in SUBSET M
    BY UpToIs
  <2>. QED BY <2>1, <1>1, FS_Subset, FS_CardinalityType DEF Count
<1>3. UpTo(M, 0) = {} /\ UpTo(M, n) = M
  <2>1. \A x \in M : ~ (x <= 0) /\ x <= n
    BY <1>0
  <2>2. \A x : x \notin UpTo(M, 0)
    BY <2>1, UpToIs
  <2>3. \A x : x \in UpTo(M, n) <=> x \in M
    BY <2>1, UpToIs
  <2>. QED BY <2>2, <2>3
<1>4. ASSUME NEW d \in Nat, NEW e \in Nat, d <= e
      PROVE  Count(M, d) <= Count(M, e)
  <2>1. \A x \in M : x <= d => x <= e
    BY <1>0, <1>4
  <2>2. UpTo(M, d) \in SUBSET UpTo(M, e)
    BY <2>1, UpToIs
  <2>. QED BY <2>2, <1>2, FS_Subset DEF Count
<1>5. ASSUME NEW d \in Nat \ {0}, d \in M
      PROVE  Count(M, d) = Count(M, d - 1) + 1
  <2>1. \A x \in M : (x <= d <=> x <= d - 1 \/ x = d) /\ ~(d <= d - 1)
    BY <1>0
  <2>2. \A x : x \in UpTo(M, d) <=> x \in UpTo(M, d - 1) \/ x = d
    BY <2>1, <1>5, UpToIs
  <2>3. d \notin UpTo(M, d - 1)
    BY <2>1, UpToIs
  <2>4. UpTo(M, d) = UpTo(M, d - 1) \union {d}
    BY <2>2
  <2>. QED BY <2>3, <2>4, <1>2, FS_AddElement DEF Count
<1>6. ASSUME NEW d \in Nat \ {0}, d \notin M
      PROVE  Count(M, d) = Count(M, d - 1)
  <2>1. \A x \in M : x # d => (x <= d <=> x <= d - 1)
    BY <1>0
  <2>2. \A x : x \in UpTo(M, d) <=> x \in UpTo(M, d - 1)
    BY <2>1, <1>6, UpToIs
  <2>3. UpTo(M, d) = UpTo(M, d - 1)
    BY <2>2
  <2>. QED BY <2>3 DEF Count
<1>7. Count(M, 0) = 0 /\ Count(M, n) = Cardinality(M)
  BY <1>3, FS_EmptySet DEF Count
<1>. QED BY <1>1, <1>2, <1>4, <1>5, <1>6, <1>7 DEF Counted

\* Two marks have different counts.
LEMMA CountsDiffer ==
  ASSUME NEW M, NEW n, MarksIn(M, n), NEW e \in M, NEW f \in M, e < f
  PROVE  Count(M, e) < Count(M, f)
<1>1. /\ e \in Nat /\ f \in Nat \ {0} /\ f - 1 \in Nat /\ e <= f - 1
  BY MarkRange
<1>2. /\ Count(M, e) <= Count(M, f - 1) /\ Count(M, f) = Count(M, f - 1) + 1
      /\ Count(M, e) \in Nat /\ Count(M, f - 1) \in Nat
  BY <1>1, Counts DEF Counted
<1>. QED BY <1>2

\* The mark that i marks reach up to is the i-th.
LEMMA PlaceIs ==
  ASSUME NEW M, NEW n, MarksIn(M, n), NEW d \in M
  PROVE  Count(M, d) \in 1..Cardinality(M) /\ Place(M, Count(M, d)) = d
<1>1. d \in Nat \ {0} /\ d - 1 \in Nat
  BY MarkRange
<1>2. /\ Count(M, d) \in Nat /\ Count(M, d) <= Cardinality(M) /\ Cardinality(M) \in Nat
      /\ Count(M, d) = Count(M, d - 1) + 1 /\ Count(M, d - 1) \in Nat
  BY <1>1, Counts DEF Counted
<1>3. Count(M, d) \in 1..Cardinality(M) /\ Count(M, d) # 0
  BY <1>2
<1>4. ASSUME NEW e \in M, Count(M, e) = Count(M, d) PROVE e = d
  <2>1. ~(e < d) /\ ~(d < e)
    BY <1>2, <1>4, CountsDiffer
  <2>2. e \in Nat /\ d \in Nat
    BY MarkRange
  <2>. QED BY <2>1, <2>2
<1>. QED BY <1>3, <1>4 DEF Place

\* There is an i-th mark, for each i up to their number.
LEMMA PlaceCounts ==
  ASSUME NEW M, NEW n, MarksIn(M, n), NEW i \in 1..Cardinality(M)
  PROVE  /\ Place(M, i) \in M /\ Count(M, Place(M, i)) = i
         /\ Place(M, i) \in 1..n
<1>. DEFINE P == {d \in 1..n : i <= Count(M, d)}
<1>1. /\ Cardinality(M) \in Nat /\ i \in Nat \ {0} /\ i <= Cardinality(M) /\ n \in Nat
      /\ Count(M, n) = Cardinality(M) /\ Count(M, 0) = 0
  <2>1. /\ Cardinality(M) \in Nat /\ n \in Nat
        /\ Count(M, n) = Cardinality(M) /\ Count(M, 0) = 0
    BY Counts DEF Counted, MarksIn
  <2>. QED BY <2>1
<1>2. n \in P
  <2>1. n # 0
    BY <1>1
  <2>2. n \in 1..n
    BY <2>1, <1>1
  <2>. QED BY <2>2, <1>1
<1>3. PICK d \in P : \A e \in P : d <= e
  <2>1. P \subseteq 1..n /\ P # {}
    BY <1>2
  <2>. HIDE DEF P
  <2>. QED BY <2>1, <1>1, Least
<1>4. d \in 1..n /\ i <= Count(M, d) /\ d \in Nat \ {0} /\ d - 1 \in Nat
  BY <1>3, <1>1
<1>5. Count(M, d) \in Nat /\ Count(M, d - 1) \in Nat
  BY <1>4, Counts DEF Counted
<1>6. Count(M, d - 1) < i
  <2>1. CASE d = 1
    BY <2>1, <1>1
  <2>2. CASE d # 1
    <3>1. d - 1 \in 1..n /\ ~(d <= d - 1)
      BY <2>2, <1>1, <1>4
    <3>. QED BY <3>1, <1>1, <1>3, <1>5
  <2>. QED BY <2>1, <2>2
<1>7. d \in M /\ Count(M, d) = Count(M, d - 1) + 1
  <2>1. d \in M => Count(M, d) = Count(M, d - 1) + 1
    BY <1>4, Counts DEF Counted
  <2>2. d \notin M => Count(M, d) = Count(M, d - 1)
    BY <1>4, Counts DEF Counted
  <2>. QED BY <2>1, <2>2, <1>1, <1>4, <1>5, <1>6
<1>8. Count(M, d) = i
  BY <1>1, <1>4, <1>5, <1>6, <1>7
<1>. QED BY <1>4, <1>7, <1>8, PlaceIs

\* The places begin with 0 and increase, and each place lies between two of them.
Placed(M, n) ==
  /\ Cardinality(M) \in Nat /\ n \in Nat
  /\ Place(M, 0) = 0
  /\ \A i \in 1..Cardinality(M) : Place(M, i) \in M /\ Place(M, i) \in 1..n
  /\ \A i, j \in 0..Cardinality(M) : i < j => Place(M, i) < Place(M, j)
  /\ \A d \in Nat : \E i \in 0..Cardinality(M) :
       /\ Place(M, i) <= d
       /\ i < Cardinality(M) => d < Place(M, i + 1)

LEMMA Places ==
  ASSUME NEW M, NEW n, MarksIn(M, n)
  PROVE  Placed(M, n)
<1>1. Cardinality(M) \in Nat /\ n \in Nat /\ Place(M, 0) = 0
  BY Counts DEF Place, Counted, MarksIn
<1>2. \A i \in 1..Cardinality(M) : /\ Place(M, i) \in M /\ Place(M, i) \in 1..n
                                  /\ Count(M, Place(M, i)) = i
  BY PlaceCounts
<1>3. \A d, e \in Nat : d <= e => Count(M, d) <= Count(M, e)
  BY Counts DEF Counted
<1>4. ASSUME NEW i \in 1..Cardinality(M), NEW j \in 1..Cardinality(M), i < j
      PROVE  Place(M, i) < Place(M, j)
  <2>1. Place(M, i) \in Nat /\ Place(M, j) \in Nat
    BY <1>1, <1>2
  <2>2. Place(M, j) <= Place(M, i) => j <= i
    BY <2>1, <1>2, <1>3
  <2>. QED BY <2>1, <2>2, <1>1, <1>4
<1>5. ASSUME NEW i \in 0..Cardinality(M), NEW j \in 0..Cardinality(M), i < j
      PROVE  Place(M, i) < Place(M, j)
  <2>1. j \in 1..Cardinality(M) /\ (i = 0 \/ i \in 1..Cardinality(M))
    BY <1>1, <1>5
  <2>2. CASE i = 0
    <3>1. Place(M, j) \in 1..n /\ Place(M, i) = 0
      BY <2>1, <2>2, <1>1, <1>2
    <3>. QED BY <3>1, <1>1
  <2>. QED BY <2>1, <2>2, <1>4, <1>5
<1>6. ASSUME NEW d \in Nat
      PROVE  \E i \in 0..Cardinality(M) : /\ Place(M, i) <= d
                                          /\ i < Cardinality(M) => d < Place(M, i + 1)
  <2>. DEFINE i == Count(M, d)
  <2>1. i \in 0..Cardinality(M) /\ i \in Nat
    <3>1. Count(M, d) \in Nat /\ Count(M, d) <= Cardinality(M)
      BY Counts DEF Counted
    <3>. QED BY <3>1, <1>1
  <2>2. Place(M, i) <= d
    <3>1. CASE i = 0
      BY <3>1, <1>1
    <3>2. CASE i # 0
      <4>1. i \in 1..Cardinality(M)
        BY <2>1, <3>2, <1>1
      <4>. DEFINE q == Place(M, i)
      <4>2. q \in M /\ q \in 1..n /\ Count(M, q) = i
        BY <4>1, <1>2
      <4>3. q \in Nat \ {0} /\ q - 1 \in Nat
        BY <4>2, <1>1
      <4>4. Count(M, q - 1) \in Nat /\ i = Count(M, q - 1) + 1
        BY <4>2, <4>3, Counts DEF Counted
      <4>5. d <= q - 1 => i <= Count(M, q - 1)
        BY <4>3, <1>3
      <4>. HIDE DEF q, i
      <4>6. ~(d <= q - 1)
        BY <4>4, <4>5
      <4>7. q <= d
        BY <4>3, <4>6
      <4>. QED BY <4>7 DEF q
    <3>. QED BY <3>1, <3>2
  <2>3. ASSUME i < Cardinality(M) PROVE d < Place(M, i + 1)
    <3>1. i + 1 \in 1..Cardinality(M)
      BY <2>1, <2>3, <1>1
    <3>2. Count(M, Place(M, i + 1)) = i + 1 /\ Place(M, i + 1) \in Nat
      BY <3>1, <1>1, <1>2
    <3>3. Place(M, i + 1) <= d => Count(M, Place(M, i + 1)) <= Count(M, d)
      BY <3>2, <1>3
    <3>. HIDE DEF i
    <3>4. ~(Place(M, i + 1) <= d)
      BY <3>2, <3>3, <2>1 DEF i
    <3>. QED BY <3>2, <3>4
  <2>. HIDE DEF i
  <2>. QED BY <2>1, <2>2, <2>3
<1>. QED BY <1>1, <1>2, <1>5, <1>6 DEF Placed

\* N is M and one mark more, after the first n places.
Added(N, M, n) == N = M \union {n + 1}

\* A mark made last is the last of the marks.
LEMMA PlaceAdded ==
  ASSUME NEW M, NEW n, MarksIn(M, n), NEW N, Added(N, M, n)
  PROVE  /\ MarksIn(N, n + 1)
         /\ Cardinality(N) = Cardinality(M) + 1
         /\ \A i \in 0..Cardinality(M) : Place(N, i) = Place(M, i)
         /\ Place(N, Cardinality(M) + 1) = n + 1
<1>0. n \in Nat /\ \A x \in M : x \in Nat /\ 1 <= x /\ x <= n
  BY MarkRange DEF MarksIn
<1>. USE DEF Added
<1>1. MarksIn(N, n + 1)
  BY <1>0 DEF MarksIn
<1>2. n + 1 \notin M
  BY <1>0
<1>3. IsFiniteSet(M)
  <2>1. IsFiniteSet(1..n) /\ M \in SUBSET (1..n)
    BY <1>0, FS_Interval
  <2>. QED BY <2>1, FS_Subset
<1>4. Cardinality(N) = Cardinality(M) + 1 /\ Cardinality(M) \in Nat
  BY <1>2, <1>3, FS_AddElement, Counts DEF Counted
<1>5. ASSUME NEW i \in 1..Cardinality(M) PROVE Place(N, i) = Place(M, i)
  <2>. DEFINE q == Place(M, i)
  <2>1. q \in M /\ Count(M, q) = i
    BY PlaceCounts
  <2>2. q \in N /\ q <= n /\ q \in Nat
    BY <2>1, <1>0
  <2>. HIDE DEF q
  <2>3. \A x : x \in UpTo(N, q) <=> x \in UpTo(M, q)
    <3>1. ~(n + 1 <= q)
      BY <2>2, <1>0
    <3>. QED BY <3>1, UpToIs
  <2>4. UpTo(N, q) = UpTo(M, q)
    BY <2>3
  <2>5. Place(N, Count(N, q)) = q /\ Count(N, q) = i
    BY <2>1, <2>2, <2>4, <1>1, PlaceIs DEF Count
  <2>. QED BY <2>5 DEF q
<1>6. Place(N, Cardinality(M) + 1) = n + 1
  <2>1. Count(N, n + 1) = Cardinality(N) /\ n + 1 \in N
    BY <1>1, Counts DEF Counted
  <2>. QED BY <2>1, <1>1, <1>4, PlaceIs
<1>7. \A i \in 0..Cardinality(M) : i = 0 \/ i \in 1..Cardinality(M)
  BY <1>4
<1>8. Place(N, 0) = Place(M, 0)
  BY DEF Place
<1>. QED BY <1>1, <1>4, <1>5, <1>6, <1>7, <1>8

-----------------------------------------------------------------------------
(* Bindings cut into scopes *)

LEMMA SliceType ==
  ASSUME NEW T, NEW B \in Seq(T), NEW a \in 1..(Len(B) + 1), NEW b \in (a - 1)..Len(B)
  PROVE  /\ SubSeq(B, a, b) \in Seq(T) /\ Len(SubSeq(B, a, b)) = b - a + 1
         /\ DOMAIN SubSeq(B, a, b) = 1..(b - a + 1)
         /\ \A e \in 1..(b - a + 1) : SubSeq(B, a, b)[e] = B[a + e - 1]
<1>1. Len(B) \in Nat /\ \A d \in 1..Len(B) : B[d] \in T
  BY LenProperties, ElementOfSeq
<1>2. a \in Nat /\ b \in Nat /\ 1 <= a /\ a - 1 <= b /\ b <= Len(B)
  BY <1>1
<1>3. \A d \in a..b : B[d] \in T
  BY <1>1, <1>2
<1>4. /\ SubSeq(B, a, b) \in Seq(T)
      /\ Len(SubSeq(B, a, b)) = (IF a <= b THEN b - a + 1 ELSE 0)
      /\ \A e \in 1..(b - a + 1) : SubSeq(B, a, b)[e] = B[a + e - 1]
  BY <1>2, <1>3, SubSeqProperties
<1>5. Len(SubSeq(B, a, b)) = b - a + 1
  BY <1>2, <1>4
<1>. QED BY <1>4, <1>5, LenProperties

LEMMA SliceSame ==
  ASSUME NEW T, NEW B \in Seq(T), NEW C \in Seq(T),
         NEW a \in 1..(Len(B) + 1), NEW b \in (a - 1)..Len(B),
         a \in 1..(Len(C) + 1), b \in (a - 1)..Len(C),
         \A d \in a..b : B[d] = C[d]
  PROVE  SubSeq(B, a, b) = SubSeq(C, a, b)
<1>0. Len(B) \in Nat /\ a \in Nat /\ b \in Nat
  BY LenProperties
<1>1. /\ SubSeq(B, a, b) \in Seq(T) /\ Len(SubSeq(B, a, b)) = b - a + 1
      /\ \A e \in 1..(b - a + 1) : SubSeq(B, a, b)[e] = B[a + e - 1]
  BY SliceType
<1>2. /\ SubSeq(C, a, b) \in Seq(T) /\ Len(SubSeq(C, a, b)) = b - a + 1
      /\ \A e \in 1..(b - a + 1) : SubSeq(C, a, b)[e] = C[a + e - 1]
  BY SliceType
<1>3. \A e \in 1..(b - a + 1) : a + e - 1 \in a..b
  BY <1>0
<1>. DEFINE s == SubSeq(B, a, b)
            t == SubSeq(C, a, b)
<1>4. s \in Seq(T) /\ t \in Seq(T) /\ Len(s) = Len(t) /\ \A e \in 1..Len(s) : s[e] = t[e]
  BY <1>1, <1>2, <1>3
<1>. HIDE DEF s, t
<1>5. s = t
  BY <1>4, SeqEqual
<1>. QED BY <1>5 DEF s, t

LEMMA SliceAppend ==
  ASSUME NEW T, NEW B \in Seq(T), NEW r \in T, NEW a \in 1..(Len(B) + 1)
  PROVE  SubSeq(Append(B, r), a, Len(B) + 1) = Append(SubSeq(B, a, Len(B)), r)
<1>. DEFINE C == Append(B, r)
            n == Len(B)
            s == SubSeq(C, a, n + 1)
            u == SubSeq(B, a, n)
            t == Append(u, r)
<1>1. /\ n \in Nat /\ C \in Seq(T) /\ Len(C) = n + 1 /\ C[n + 1] = r
      /\ \A p \in 1..n : C[p] = B[p]
  BY Push
<1>2. a \in 1..(n + 1) /\ a \in 1..(n + 2) /\ n + 1 \in (a - 1)..(n + 1) /\ n \in (a - 1)..n
      /\ a \in Nat
  BY <1>1
<1>. HIDE DEF C
<1>3. /\ s \in Seq(T) /\ Len(s) = n + 1 - a + 1
      /\ \A e \in 1..(n + 1 - a + 1) : s[e] = C[a + e - 1]
  <2>1. a \in 1..(Len(C) + 1) /\ n + 1 \in (a - 1)..Len(C)
    BY <1>1, <1>2
  <2>. QED BY <2>1, <1>1, SliceType
<1>4. /\ u \in Seq(T) /\ Len(u) = n - a + 1
      /\ \A e \in 1..(n - a + 1) : u[e] = B[a + e - 1]
  BY <1>2, SliceType
<1>. HIDE DEF s, u
<1>5. /\ t \in Seq(T) /\ Len(t) = Len(u) + 1 /\ t[Len(u) + 1] = r
      /\ \A p \in 1..Len(u) : t[p] = u[p]
  BY SMTT(30), <1>4, Push
<1>. HIDE DEF t, n
<1>6. ASSUME NEW e \in 1..Len(s) PROVE s[e] = t[e]
  <2>1. CASE e = n - a + 2
    <3>1. a + e - 1 = n + 1 /\ e = Len(u) + 1
      BY <2>1, <1>1, <1>2, <1>4
    <3>. QED BY <3>1, <1>1, <1>3, <1>5
  <2>2. CASE e # n - a + 2
    <3>1. e \in 1..(n - a + 1) /\ a + e - 1 \in 1..n
      BY <2>2, <1>1, <1>2, <1>3
    <3>. QED BY <3>1, <1>1, <1>3, <1>4, <1>5
  <2>. QED BY <2>1, <2>2
<1>7. Len(s) = Len(t)
  BY <1>1, <1>2, <1>3, <1>4, <1>5
<1>8. s = t
  BY <1>3, <1>5, <1>6, <1>7, SeqEqual
<1>. QED BY <1>8 DEF s, t, u, n, C

\* Where the i-th scope begins and ends in n bindings with the marks M.
FirstIn(M, i) == Place(M, i - 1) + 1
LastIn(M, n, i) == IF i - 1 = Cardinality(M) THEN n ELSE Place(M, i) - 1

\* The first c scopes of the bindings B.
Cut(B, M, c) == [i \in 1..c |-> SubSeq(B, FirstIn(M, i), LastIn(M, Len(B), i))]

LEMMA Bounds ==
  ASSUME NEW M, NEW n, MarksIn(M, n), NEW i \in 1..(Cardinality(M) + 1)
  PROVE  /\ FirstIn(M, i) \in 1..(n + 1)
         /\ LastIn(M, n, i) \in (FirstIn(M, i) - 1)..n
         /\ n \in Nat /\ i \in Nat
         /\ i # Cardinality(M) + 1 => LastIn(M, n, i) < n
<1>1. Placed(M, n) /\ Cardinality(M) \in Nat /\ n \in Nat
  BY Places DEF Placed
<1>2. i \in Nat /\ i - 1 \in 0..Cardinality(M) /\ (i - 1 = 0 \/ i - 1 \in 1..Cardinality(M))
  BY <1>1
<1>3. Place(M, i - 1) \in 0..n
  BY <1>1, <1>2 DEF Placed
<1>4. CASE i - 1 = Cardinality(M)
  BY <1>1, <1>2, <1>3, <1>4 DEF FirstIn, LastIn
<1>5. CASE i - 1 # Cardinality(M)
  <2>1. i \in 1..Cardinality(M) /\ i \in 0..Cardinality(M) /\ i - 1 < i
    BY <1>1, <1>2, <1>5
  <2>2. Place(M, i) \in 1..n /\ Place(M, i - 1) < Place(M, i)
    BY <2>1, <1>1, <1>2 DEF Placed
  <2>. QED BY <2>2, <1>1, <1>2, <1>3, <1>5 DEF FirstIn, LastIn
<1>. QED BY <1>4, <1>5

\* s consists of c scopes of B.
CutOK(T, s, B, M, c) ==
  /\ s \in Seq(Seq(T)) /\ Len(s) = c /\ DOMAIN s = 1..c /\ c \in Nat
  /\ \A i \in 1..c : /\ i \in 1..(Cardinality(M) + 1)
                     /\ s[i] = SubSeq(B, FirstIn(M, i), LastIn(M, Len(B), i))
                     /\ s[i] \in Seq(T)

LEMMA CutType ==
  ASSUME NEW T, NEW B \in Seq(T), NEW M, MarksIn(M, Len(B)),
         NEW c \in 0..(Cardinality(M) + 1)
  PROVE  CutOK(T, Cut(B, M, c), B, M, c)
<1>1. Cardinality(M) \in Nat /\ c \in Nat
  BY Places DEF Placed
<1>2. \A i \in 1..c : i \in 1..(Cardinality(M) + 1)
  BY <1>1
<1>3. ASSUME NEW i \in 1..c
      PROVE  SubSeq(B, FirstIn(M, i), LastIn(M, Len(B), i)) \in Seq(T)
  <2>1. /\ FirstIn(M, i) \in 1..(Len(B) + 1)
        /\ LastIn(M, Len(B), i) \in (FirstIn(M, i) - 1)..Len(B)
    BY <1>2, Bounds
  <2>. QED BY <2>1, SliceType
<1>. DEFINE s == Cut(B, M, c)
<1>4. /\ s \in [1..c -> Seq(T)]
      /\ \A i \in 1..c : s[i] = SubSeq(B, FirstIn(M, i), LastIn(M, Len(B), i))
  BY <1>3 DEF Cut
<1>. HIDE DEF s
<1>5. s \in Seq(Seq(T))
  BY <1>1, <1>4, IsASeq DEF s, Cut
<1>6. Len(s) = c /\ DOMAIN s = 1..c
  BY <1>1, <1>4, <1>5, LenProperties
<1>7. \A i \in 1..c : s[i] \in Seq(T)
  BY <1>4
<1>. QED BY <1>1, <1>2, <1>4, <1>5, <1>6, <1>7 DEF s, CutOK

\* t is s with x in the place i.
Replaces(t, s, i, x) == t = [s EXCEPT ![i] = x]

\* t is s with another binding in the innermost scope.
Extends(t, s, r) == Replaces(t, s, Len(s), Append(s[Len(s)], r))

\* Another binding is another one of the innermost scope.
LEMMA CutBind ==
  ASSUME NEW T, NEW B \in Seq(T), NEW r \in T, NEW M, MarksIn(M, Len(B))
  PROVE  /\ Cut(Append(B, r), M, Cardinality(M)) = Cut(B, M, Cardinality(M))
         /\ Extends(Cut(Append(B, r), M, Cardinality(M) + 1),
                    Cut(B, M, Cardinality(M) + 1), r)
<1>. DEFINE C == Append(B, r)
            m == Cardinality(M)
            n == Len(B)
<1>1. /\ n \in Nat /\ C \in Seq(T) /\ Len(C) = n + 1 /\ \A p \in 1..n : C[p] = B[p]
  BY Push
<1>2. MarksIn(M, n + 1) /\ m \in Nat
  <2>1. \A x \in M : x \in 1..(n + 1)
    BY <1>1, MarkRange
  <2>2. m \in Nat
    BY Places DEF Placed
  <2>. QED BY <2>1, <2>2, <1>1 DEF MarksIn
<1>. HIDE DEF C
<1>3. ASSUME NEW i \in 1..m
      PROVE  SubSeq(C, FirstIn(M, i), LastIn(M, n + 1, i)) =
             SubSeq(B, FirstIn(M, i), LastIn(M, n, i))
  <2>. DEFINE a == FirstIn(M, i)
              b == LastIn(M, n, i)
  <2>1. i \in 1..(m + 1) /\ i # m + 1 /\ i - 1 # m
    BY <1>2
  <2>2. a \in 1..(n + 1) /\ b \in (a - 1)..n /\ b = LastIn(M, n + 1, i)
    BY <2>1, Bounds DEF LastIn
  <2>. HIDE DEF a, b
  <2>3. /\ a \in 1..(n + 1 + 1) /\ b \in (a - 1)..(n + 1) /\ \A d \in a..b : d \in 1..n
    BY <2>2, <1>1
  <2>4. a \in 1..(Len(C) + 1) /\ b \in (a - 1)..Len(C) /\ \A d \in a..b : C[d] = B[d]
    BY <2>3, <1>1
  <2>5. SubSeq(C, a, b) = SubSeq(B, a, b)
    BY <2>2, <2>4, <1>1, SliceSame
  <2>. QED BY <2>2, <2>5 DEF a, b
<1>4. SubSeq(C, FirstIn(M, m + 1), LastIn(M, n + 1, m + 1)) =
      Append(SubSeq(B, FirstIn(M, m + 1), LastIn(M, n, m + 1)), r)
  <2>1. LastIn(M, n + 1, m + 1) = n + 1 /\ LastIn(M, n, m + 1) = n
    BY <1>2 DEF LastIn
  <2>2. FirstIn(M, m + 1) \in 1..(n + 1)
    BY <1>2, Bounds
  <2>. QED BY <2>1, <2>2, SliceAppend DEF C
<1>5. Cut(C, M, m) = Cut(B, M, m)
  BY <1>1, <1>3 DEF Cut
<1>6. Cut(C, M, m + 1) = [Cut(B, M, m + 1) EXCEPT ![m + 1] = Append(Cut(B, M, m + 1)[m + 1], r)]
  <2>1. \A i \in 1..(m + 1) : i = m + 1 \/ i \in 1..m
    BY <1>2
  <2>2. m + 1 \in 1..(m + 1)
    BY <1>2
  <2>. HIDE DEF m, n
  <2>. QED BY <2>1, <2>2, <1>1, <1>3, <1>4 DEF Cut, n
<1>7. Len(Cut(B, M, m + 1)) = m + 1
  <2>1. m + 1 \in 0..(m + 1)
    BY <1>2
  <2>. QED BY <2>1, CutType DEF CutOK
<1>8. Extends(Cut(C, M, m + 1), Cut(B, M, m + 1), r)
  BY <1>6, <1>7 DEF Extends, Replaces
<1>. QED BY <1>5, <1>8 DEF C, m

\* Another mark opens a scope.
LEMMA CutOpen ==
  ASSUME NEW T, NEW B \in Seq(T), NEW r \in T, NEW M, MarksIn(M, Len(B)),
         NEW N, Added(N, M, Len(B))
  PROVE  LET m == Cardinality(M) IN
         /\ MarksIn(N, Len(B) + 1) /\ Cardinality(N) = m + 1
         /\ Cut(Append(B, r), N, m + 1) = Cut(B, M, m + 1)
         /\ Cut(Append(B, r), N, m + 2) = Append(Cut(B, M, m + 1), <<>>)
<1>. DEFINE C == Append(B, r)
            m == Cardinality(M)
            n == Len(B)
            s == Cut(B, M, m + 1)
            t == Cut(C, N, m + 2)
            u == Append(s, <<>>)
<1>1. /\ n \in Nat /\ C \in Seq(T) /\ Len(C) = n + 1 /\ \A p \in 1..n : C[p] = B[p]
  BY Push
<1>2. /\ MarksIn(N, n + 1) /\ Cardinality(N) = m + 1 /\ m \in Nat
      /\ \A i \in 0..m : Place(N, i) = Place(M, i)
      /\ Place(N, m + 1) = n + 1
  <2>1. m \in Nat
    BY Places DEF Placed
  <2>. QED BY <2>1, PlaceAdded
<1>. HIDE DEF C
<1>3. ASSUME NEW i \in 1..(m + 1)
      PROVE  SubSeq(C, FirstIn(N, i), LastIn(N, n + 1, i)) =
             SubSeq(B, FirstIn(M, i), LastIn(M, n, i))
  <2>. DEFINE a == FirstIn(M, i)
              b == LastIn(M, n, i)
  <2>1. /\ i - 1 \in 0..m /\ i - 1 # m + 1 /\ i \in Nat
        /\ i - 1 = m => i = m + 1
        /\ i - 1 # m => i \in 0..m
    BY <1>2
  <2>2. FirstIn(N, i) = a
    BY <2>1, <1>2 DEF FirstIn
  <2>3. LastIn(N, n + 1, i) = b
    <3>1. CASE i - 1 = m
      <4>1. Place(N, i) = n + 1 /\ b = n /\ LastIn(N, n + 1, i) = Place(N, i) - 1
        BY <2>1, <3>1, <1>2 DEF LastIn
      <4>. QED BY <4>1, <1>1
    <3>2. CASE i - 1 # m
      BY <2>1, <3>2, <1>2 DEF LastIn
    <3>. QED BY <3>1, <3>2
  <2>4. a \in 1..(n + 1) /\ b \in (a - 1)..n
    BY Bounds
  <2>. HIDE DEF a, b
  <2>5. /\ a \in 1..(n + 1 + 1) /\ b \in (a - 1)..(n + 1) /\ \A d \in a..b : d \in 1..n
    BY <2>4, <1>1
  <2>6. a \in 1..(Len(C) + 1) /\ b \in (a - 1)..Len(C) /\ \A d \in a..b : C[d] = B[d]
    BY <2>5, <1>1
  <2>7. SubSeq(C, a, b) = SubSeq(B, a, b)
    BY <2>4, <2>6, <1>1, SliceSame
  <2>. QED BY <2>2, <2>3, <2>7 DEF a, b
<1>4. Cut(C, N, m + 1) = s
  BY <1>1, <1>3 DEF Cut
<1>5. SubSeq(C, FirstIn(N, m + 2), LastIn(N, n + 1, m + 2)) = <<>>
  <2>1. FirstIn(N, m + 2) = n + 2 /\ LastIn(N, n + 1, m + 2) = n + 1
    <3>1. m + 2 - 1 = m + 1
      BY <1>2
    <3>. QED BY <3>1, <1>1, <1>2 DEF FirstIn, LastIn
  <2>2. n + 2 \in 1..(Len(C) + 1) /\ n + 1 \in (n + 2 - 1)..Len(C) /\ n + 1 - (n + 2) + 1 = 0
    BY <1>1
  <2>3. SubSeq(C, n + 2, n + 1) \in Seq(T) /\ Len(SubSeq(C, n + 2, n + 1)) = 0
    BY <2>2, <1>1, SliceType
  <2>. QED BY <2>1, <2>3, EmptySeq
<1>6. /\ s \in Seq(Seq(T)) /\ Len(s) = m + 1
      /\ \A i \in 1..(m + 1) : s[i] = SubSeq(B, FirstIn(M, i), LastIn(M, n, i))
  <2>1. m + 1 \in 0..(m + 1)
    BY <1>2
  <2>2. CutOK(T, s, B, M, m + 1)
    BY <2>1, CutType
  <2>. QED BY <2>2 DEF CutOK
<1>7. /\ t \in Seq(Seq(T)) /\ Len(t) = m + 2
      /\ \A i \in 1..(m + 2) : t[i] = SubSeq(C, FirstIn(N, i), LastIn(N, n + 1, i))
  <2>1. m + 2 \in 0..(Cardinality(N) + 1)
    BY <1>2
  <2>2. CutOK(T, t, C, N, m + 2)
    BY <2>1, <1>1, <1>2, CutType
  <2>. QED BY <2>2, <1>1 DEF CutOK
<1>. HIDE DEF m, n, s, t
<1>8. /\ u \in Seq(Seq(T)) /\ Len(u) = m + 2 /\ u[m + 2] = <<>>
      /\ \A i \in 1..(m + 1) : u[i] = s[i]
  <2>1. <<>> \in Seq(T)
    BY EmptySeq
  <2>2. m + 1 + 1 = m + 2
    BY <1>2
  <2>. QED BY <2>1, <2>2, <1>6, Push
<1>. HIDE DEF u
<1>9. ASSUME NEW i \in 1..(m + 2) PROVE t[i] = u[i]
  <2>1. i = m + 2 \/ i \in 1..(m + 1)
    BY <1>2
  <2>. QED BY <2>1, <1>3, <1>5, <1>6, <1>7, <1>8
<1>10. t = u
  BY <1>7, <1>8, <1>9, SeqEqual
<1>11. /\ MarksIn(N, Len(B) + 1) /\ Cardinality(N) = m + 1
       /\ Cut(C, N, m + 1) = Cut(B, M, m + 1)
       /\ Cut(C, N, m + 2) = Append(Cut(B, M, m + 1), <<>>)
  BY <1>2, <1>4, <1>10 DEF n, s, t, u
<1>. QED BY <1>11 DEF C, m

\* What is open when the innermost scope is not.
LEMMA CutClose ==
  ASSUME NEW T, NEW B \in Seq(T), NEW M, MarksIn(M, Len(B))
  PROVE  LET s == Cut(B, M, Cardinality(M) + 1) IN
         s # <<>> /\ Cut(B, M, Cardinality(M)) = SubSeq(s, 1, Len(s) - 1)
<1>. DEFINE m == Cardinality(M)
            s == Cut(B, M, m + 1)
            t == Cut(B, M, m)
            u == SubSeq(s, 1, Len(s) - 1)
<1>1. m \in Nat /\ m + 1 \in 0..(m + 1) /\ m \in 0..(m + 1)
  <2>1. m \in Nat
    BY Places DEF Placed
  <2>. QED BY <2>1
<1>2. /\ s \in Seq(Seq(T)) /\ Len(s) = m + 1
      /\ \A i \in 1..(m + 1) : s[i] = SubSeq(B, FirstIn(M, i), LastIn(M, Len(B), i))
  <2>1. CutOK(T, s, B, M, m + 1)
    BY <1>1, CutType
  <2>. QED BY <2>1 DEF CutOK
<1>3. /\ t \in Seq(Seq(T)) /\ Len(t) = m
      /\ \A i \in 1..m : t[i] = SubSeq(B, FirstIn(M, i), LastIn(M, Len(B), i))
  <2>1. CutOK(T, t, B, M, m)
    BY <1>1, CutType
  <2>. QED BY <2>1 DEF CutOK
<1>. HIDE DEF s, t, m
<1>4. s # <<>>
  BY <1>1, <1>2, EmptySeq
<1>5. u \in Seq(Seq(T)) /\ Len(u) = Len(s) - 1 /\ \A p \in 1..(Len(s) - 1) : u[p] = s[p]
  BY <1>2, <1>4, Front
<1>. HIDE DEF u
<1>6. Len(u) = m /\ \A i \in 1..m : i \in 1..(m + 1) /\ i \in 1..(Len(s) - 1)
  BY <1>1, <1>2, <1>5
<1>7. \A i \in 1..m : t[i] = u[i]
  BY <1>2, <1>3, <1>5, <1>6
<1>8. t = u
  BY <1>3, <1>5, <1>6, <1>7, SeqEqual
<1>. QED BY <1>4, <1>8 DEF s, t, u, m

\* The scope a binding is in.
LEMMA ScopeOf ==
  ASSUME NEW M, NEW n, MarksIn(M, n), NEW d \in 1..n, d \notin M
  PROVE  \E i \in 1..(Cardinality(M) + 1) :
           /\ d \in FirstIn(M, i)..LastIn(M, n, i)
           /\ \A j \in 1..(Cardinality(M) + 1) : j < i => LastIn(M, n, j) < d
           /\ \A j \in 1..(Cardinality(M) + 1) : i < j => d < FirstIn(M, j)
<1>. DEFINE m == Cardinality(M)
<1>1. /\ m \in Nat /\ n \in Nat /\ Place(M, 0) = 0 /\ d \in Nat /\ 1 <= d /\ d <= n
      /\ \A i \in 1..m : Place(M, i) \in M /\ Place(M, i) \in 1..n
      /\ \A i, j \in 0..m : i < j => Place(M, i) < Place(M, j)
  <2>1. Placed(M, n)
    BY Places
  <2>2. n \in Nat /\ d \in Nat /\ 1 <= d /\ d <= n
    BY DEF MarksIn
  <2>. QED BY <2>1, <2>2 DEF Placed
<1>2. PICK h \in 0..m : Place(M, h) <= d /\ (h < m => d < Place(M, h + 1))
  BY <1>1, Places DEF Placed
<1>. HIDE DEF m
<1>3. \A i \in 0..m : Place(M, i) \in Nat
  <2>1. \A i \in 0..m : i = 0 \/ i \in 1..m
    BY <1>1
  <2>. QED BY <2>1, <1>1
<1>4. Place(M, h) < d
  <2>1. CASE h = 0
    BY <2>1, <1>1
  <2>2. CASE h # 0
    <3>1. h \in 1..m
      BY <2>2, <1>1
    <3>2. Place(M, h) # d
      BY <3>1, <1>1
    <3>. QED BY <3>2, <1>1, <1>2, <1>3
  <2>. QED BY <2>1, <2>2
<1>. DEFINE i == h + 1
<1>5. i \in 1..(m + 1) /\ i \in Nat /\ i - 1 = h /\ h \in Nat
  BY <1>1
<1>6. d \in FirstIn(M, i)..LastIn(M, n, i)
  <2>1. FirstIn(M, i) \in Nat /\ FirstIn(M, i) <= d
    BY <1>1, <1>3, <1>4, <1>5 DEF FirstIn
  <2>2. CASE h = m
    BY <2>1, <2>2, <1>1, <1>5 DEF LastIn, m
  <2>3. CASE h # m
    <3>1. h < m /\ i \in 0..m
      BY <2>3, <1>1, <1>5
    <3>2. LastIn(M, n, i) = Place(M, i) - 1
      BY <2>3, <1>5 DEF LastIn, m
    <3>3. Place(M, i) \in Nat /\ d < Place(M, i)
      BY <3>1, <1>2, <1>3
    <3>. QED BY <2>1, <3>2, <3>3, <1>1
  <2>. QED BY <2>2, <2>3
<1>7. ASSUME NEW j \in 1..(m + 1), j < i PROVE LastIn(M, n, j) < d
  <2>1. j \in 0..m /\ j - 1 # m /\ (j = h \/ j < h) /\ j \in Nat
    BY <1>1, <1>5, <1>7
  <2>2. LastIn(M, n, j) = Place(M, j) - 1
    BY <2>1 DEF LastIn, m
  <2>3. Place(M, j) <= Place(M, h)
    BY <2>1, <1>1, <1>3
  <2>4. Place(M, j) \in Nat /\ Place(M, h) \in Nat
    BY <2>1, <1>3
  <2>. QED BY <2>2, <2>3, <2>4, <1>1, <1>4
<1>8. ASSUME NEW j \in 1..(m + 1), i < j PROVE d < FirstIn(M, j)
  <2>1. j - 1 \in 0..m /\ (i = j - 1 \/ i < j - 1) /\ i \in 0..m /\ h < m
    BY <1>1, <1>5, <1>8
  <2>2. Place(M, i) <= Place(M, j - 1) /\ d < Place(M, i)
    BY <2>1, <1>1, <1>2, <1>3
  <2>3. Place(M, j - 1) \in Nat /\ Place(M, i) \in Nat
    BY <2>1, <1>3
  <2>. QED BY <2>2, <2>3, <1>1 DEF FirstIn
<1>. QED BY <1>5, <1>6, <1>7, <1>8 DEF m

\* t is s with the value v for the latest binding of k.
Assigns(t, s, k, v) ==
  \E i \in DOMAIN s : \E e \in DOMAIN s[i] :
    /\ s[i][e].key = k
    /\ \A x \in DOMAIN s[i] : s[i][x].key = k => x <= e
    /\ \A j \in (i + 1)..Len(s) : \A x \in DOMAIN s[j] : s[j][x].key # k
    /\ t = [s EXCEPT ![i][e].value = v]

\* B with another value at d, cut.
LEMMA CutAssign ==
  ASSUME NEW K, NEW V, NEW B \in Seq([key : K, value : V]), NEW M, MarksIn(M, Len(B)),
         NEW d \in 1..Len(B), d \notin M, NEW v \in V,
         NEW k, B[d].key = k, \A e \in 1..Len(B) : B[e].key = k => e <= d
  PROVE  Assigns(Cut([B EXCEPT ![d].value = v], M, Cardinality(M) + 1),
                 Cut(B, M, Cardinality(M) + 1), k, v)
<1>. DEFINE T == [key : K, value : V]
            n == Len(B)
            m == Cardinality(M)
            C == [B EXCEPT ![d].value = v]
            s == Cut(B, M, m + 1)
            t == Cut(C, M, m + 1)
            F(i) == FirstIn(M, i)
            L(i) == LastIn(M, n, i)
<1>1. n \in Nat /\ d \in 1..n /\ m \in Nat
  BY LenProperties, Places DEF Placed
<1>2. /\ C \in Seq(T) /\ Len(C) = n /\ C[d] = [B[d] EXCEPT !.value = v]
      /\ \A e \in 1..n : e # d => C[e] = B[e]
  <2>1. B[d] \in T /\ [B[d] EXCEPT !.value = v] \in T
    <3>. HIDE DEF T
    <3>1. B[d] \in T
      <4>1. B \in Seq(T)
        BY DEF T
      <4>. QED BY <4>1, <1>1, ElementOfSeq
    <3>. QED BY <3>1 DEF T
  <2>. DEFINE w == [B[d] EXCEPT !.value = v]
  <2>2. C = [B EXCEPT ![d] = w]
    OBVIOUS
  <2>. HIDE DEF w, T, C
  <2>3. w \in T /\ B \in Seq(T)
    BY <2>1 DEF w, T
  <2>. QED BY <2>2, <2>3, <1>1 DEF w
<1>3. CutOK(T, s, B, M, m + 1) /\ CutOK(T, t, C, M, m + 1)
  <2>1. m + 1 \in 0..(m + 1)
    BY <1>1
  <2>. HIDE DEF T, C
  <2>2. B \in Seq(T)
    BY DEF T
  <2>. QED BY <2>1, <2>2, <1>2, CutType
<1>4. \A i \in 1..(m + 1) : F(i) \in 1..(n + 1) /\ L(i) \in (F(i) - 1)..n
  BY Bounds
<1>5. B \in Seq(T)
  OBVIOUS
<1>. HIDE DEF T, C, s, t
<1>6. \A i \in 1..(m + 1) : /\ s[i] = SubSeq(B, F(i), L(i)) /\ s[i] \in Seq(T)
                           /\ t[i] = SubSeq(C, F(i), L(i)) /\ t[i] \in Seq(T)
  BY <1>2, <1>3 DEF CutOK
<1>7. PICK i \in 1..(m + 1) : /\ d \in F(i)..L(i)
                              /\ \A j \in 1..(m + 1) : j < i => L(j) < d
                              /\ \A j \in 1..(m + 1) : i < j => d < F(j)
  BY ScopeOf
<1>. DEFINE e == d - F(i) + 1
<1>8. ASSUME NEW j \in 1..(m + 1)
      PROVE  /\ DOMAIN s[j] = 1..(L(j) - F(j) + 1) /\ Len(s[j]) = L(j) - F(j) + 1
             /\ DOMAIN t[j] = 1..(L(j) - F(j) + 1) /\ Len(t[j]) = L(j) - F(j) + 1
             /\ \A x \in DOMAIN s[j] : /\ F(j) + x - 1 \in F(j)..L(j) /\ F(j) + x - 1 \in 1..n
                                       /\ s[j][x] = B[F(j) + x - 1]
                                       /\ t[j][x] = C[F(j) + x - 1]
  <2>. DEFINE a == F(j)
              b == L(j)
  <2>1. a \in 1..(n + 1) /\ b \in (a - 1)..n /\ n \in Nat
    BY <1>1, <1>4
  <2>2. s[j] = SubSeq(B, a, b) /\ t[j] = SubSeq(C, a, b)
    BY <1>6
  <2>. HIDE DEF a, b
  <2>3. \A x \in 1..(b - a + 1) : a + x - 1 \in a..b /\ a + x - 1 \in 1..n
    BY <2>1
  <2>4. /\ Len(s[j]) = b - a + 1 /\ DOMAIN s[j] = 1..(b - a + 1)
        /\ \A x \in 1..(b - a + 1) : s[j][x] = B[a + x - 1]
    BY SMTT(30), <2>1, <2>2, <1>5, SliceType
  <2>5. /\ Len(t[j]) = b - a + 1 /\ DOMAIN t[j] = 1..(b - a + 1)
        /\ \A x \in 1..(b - a + 1) : t[j][x] = C[a + x - 1]
    BY SMTT(30), <2>1, <2>2, <1>2, SliceType
  <2>. QED BY <2>3, <2>4, <2>5 DEF a, b
<1>9. F(i) \in Nat /\ L(i) \in Nat /\ F(i) <= d /\ d <= L(i) /\ d \in Nat
  BY <1>1, <1>4, <1>7
<1>10. e \in DOMAIN s[i] /\ F(i) + e - 1 = d /\ e \in Nat
  <2>1. e \in 1..(L(i) - F(i) + 1) /\ F(i) + e - 1 = d /\ e \in Nat
    BY <1>9
  <2>. QED BY <2>1, <1>8
<1>11. s[i][e].key = k
  BY <1>8, <1>10
<1>12. ASSUME NEW x \in DOMAIN s[i], s[i][x].key = k PROVE x <= e
  <2>1. F(i) + x - 1 \in 1..n /\ B[F(i) + x - 1].key = k /\ x \in 1..(L(i) - F(i) + 1)
    BY <1>8, <1>12
  <2>2. F(i) + x - 1 <= d
    BY <2>1
  <2>3. x \in Nat
    BY <2>1, <1>9
  <2>. QED BY <2>2, <2>3, <1>9
<1>13. ASSUME NEW j \in (i + 1)..Len(s), NEW x \in DOMAIN s[j] PROVE s[j][x].key # k
  <2>1. j \in 1..(m + 1) /\ i < j
    BY <1>1, <1>3 DEF CutOK
  <2>2. /\ F(j) + x - 1 \in F(j)..L(j) /\ F(j) + x - 1 \in 1..n
        /\ s[j][x] = B[F(j) + x - 1]
    BY <2>1, <1>8
  <2>3. d < F(j) /\ F(j) \in Nat /\ L(j) \in Nat
    BY SMTT(30), <2>1, <1>1, <1>4, <1>7
  <2>4. ~(F(j) + x - 1 <= d)
    <3>. DEFINE y == F(j) + x - 1
    <3>1. y \in F(j)..L(j)
      BY <2>2
    <3>. HIDE DEF y
    <3>2. ~(y <= d)
      BY <3>1, <2>3, <1>1
    <3>. QED BY <3>2 DEF y
  <2>. QED BY <2>2, <2>4
<1>14. ASSUME NEW j \in 1..(m + 1), j # i PROVE t[j] = s[j]
  <2>1. \A x \in F(j)..L(j) : x # d /\ x \in 1..n
    <3>1. L(j) < d \/ d < F(j)
      BY <1>1, <1>7, <1>14
    <3>2. F(j) \in Nat /\ L(j) \in Nat /\ 1 <= F(j) /\ L(j) <= n
      BY <1>1, <1>4
    <3>. QED BY <3>1, <3>2, <1>1
  <2>2. \A x \in F(j)..L(j) : C[x] = B[x]
    BY <2>1, <1>2
  <2>3. \A x \in DOMAIN s[j] : t[j][x] = s[j][x]
    BY <2>2, <1>8
  <2>4. /\ s[j] \in Seq(T) /\ t[j] \in Seq(T) /\ Len(s[j]) = Len(t[j])
        /\ DOMAIN s[j] = 1..Len(s[j])
    BY <1>6, <1>8
  <2>. QED BY <2>3, <2>4, SeqEqual
<1>15. t[i] = [s[i] EXCEPT ![e].value = v]
  <2>. DEFINE u == s[i]
  <2>1. u \in Seq(T) /\ e \in 1..Len(u) /\ DOMAIN u = 1..Len(u) /\ u[e] = B[d]
    BY <1>6, <1>8, <1>10
  <2>2. t[i] \in Seq(T) /\ Len(t[i]) = Len(u) /\ t[i][e] = [u[e] EXCEPT !.value = v]
    BY <2>1, <1>2, <1>6, <1>8, <1>10
  <2>3. ASSUME NEW x \in 1..Len(u), x # e PROVE t[i][x] = u[x]
    <3>1. F(i) + x - 1 \in 1..n /\ u[x] = B[F(i) + x - 1] /\ t[i][x] = C[F(i) + x - 1]
      BY <2>1, <1>8
    <3>2. x \in Nat
      BY <2>1, <1>8, <1>9
    <3>3. F(i) + x - 1 # d
      BY <3>2, <2>3, <1>9
    <3>. QED BY <3>1, <3>3, <1>2
  <2>. DEFINE w == [u[e] EXCEPT !.value = v]
  <2>4. w \in T
    <3>1. u[e] \in T
      BY <2>1, ElementOfSeq
    <3>. QED BY <3>1 DEF T
  <2>5. [s[i] EXCEPT ![e].value = v] = [u EXCEPT ![e] = w]
    OBVIOUS
  <2>6. t[i][e] = w
    BY <2>2
  <2>. HIDE DEF u, w, e
  <2>. DEFINE q == [u EXCEPT ![e] = w]
  <2>7. /\ q \in Seq(T) /\ Len(q) = Len(u) /\ q[e] = w
        /\ \A x \in 1..Len(u) : x # e => q[x] = u[x]
    BY <2>1, <2>4
  <2>. HIDE DEF q
  <2>8. \A x \in 1..Len(u) : t[i][x] = q[x]
    BY <2>1, <2>3, <2>6, <2>7
  <2>9. t[i] = q
    BY <2>2, <2>7, <2>8, SeqEqual
  <2>. QED BY <2>5, <2>9 DEF q
<1>16. t = [s EXCEPT ![i][e].value = v]
  <2>1. /\ DOMAIN s = 1..(m + 1) /\ DOMAIN t = 1..(m + 1) /\ Len(s) = m + 1
        /\ s \in Seq(Seq(T)) /\ t \in Seq(Seq(T)) /\ Len(t) = m + 1
    BY <1>3 DEF CutOK
  <2>. DEFINE w == [s[i] EXCEPT ![e].value = v]
  <2>2. [s EXCEPT ![i][e].value = v] = [s EXCEPT ![i] = w]
    OBVIOUS
  <2>3. t[i] = w /\ t[i] \in Seq(T)
    BY <1>6, <1>15
  <2>. HIDE DEF w
  <2>. DEFINE q == [s EXCEPT ![i] = w]
  <2>4. /\ q \in Seq(Seq(T)) /\ Len(q) = m + 1 /\ q[i] = w
        /\ \A j \in 1..(m + 1) : j # i => q[j] = s[j]
    BY <2>1, <2>3
  <2>. HIDE DEF q
  <2>5. \A j \in 1..(m + 1) : t[j] = q[j]
    BY <2>3, <2>4, <1>14
  <2>6. t = q
    BY <2>1, <2>4, <2>5, SeqEqual
  <2>. QED BY <2>2, <2>6 DEF q
<1>17. i \in DOMAIN s
  BY <1>3 DEF CutOK
<1>. HIDE DEF e
<1>18. Assigns(t, s, k, v)
  BY <1>10, <1>11, <1>12, <1>13, <1>16, <1>17 DEF Assigns
<1>. QED BY <1>18 DEF s, t, C

LEMMA Replaced ==
  ASSUME NEW U, NEW s \in Seq(U), NEW i \in 1..Len(s), NEW x \in U,
         NEW t, Replaces(t, s, i, x)
  PROVE  /\ t \in Seq(U) /\ Len(t) = Len(s) /\ DOMAIN t = 1..Len(s)
         /\ \A j \in 1..Len(s) : t[j] = IF j = i THEN x ELSE s[j]
BY DEF Replaces

\* A binding undone is the last one of the innermost scope.
LEMMA InnerPops ==
  ASSUME NEW T, NEW s \in Seq(Seq(T)), s # <<>>, NEW r \in T,
         NEW t, Replaces(t, s, Len(s), Append(s[Len(s)], r))
  PROVE  /\ t # <<>> /\ t[Len(t)] # <<>>
         /\ s = [t EXCEPT ![Len(t)] = SubSeq(t[Len(t)], 1, Len(t[Len(t)]) - 1)]
<1>. DEFINE U == Seq(T)
            n == Len(s)
            u == s[n]
            w == Append(u, r)
            q == [t EXCEPT ![n] = u]
<1>1. n \in Nat \ {0} /\ n \in 1..Len(s) /\ s \in Seq(U)
  BY EmptySeq, LenProperties
<1>2. u \in Seq(T) /\ u \in U
  BY <1>1, ElementOfSeq
<1>3. w # <<>> /\ u = SubSeq(w, 1, Len(w) - 1) /\ w \in Seq(T)
  BY <1>2, Unappend, Push
<1>4. w \in U /\ Replaces(t, s, n, w) /\ Replaces(q, t, n, u)
  BY <1>3 DEF Replaces
<1>. HIDE DEF w, U, q, n
<1>5. /\ t \in Seq(U) /\ Len(t) = Len(s)
      /\ \A j \in 1..Len(s) : t[j] = IF j = n THEN w ELSE s[j]
  BY <1>1, <1>4, Replaced
<1>6. t # <<>>
  BY <1>1, <1>5, EmptySeq DEF n
<1>7. n \in 1..Len(t)
  BY <1>1, <1>5
<1>. HIDE DEF u
<1>8. /\ q \in Seq(U) /\ Len(q) = Len(t)
      /\ \A j \in 1..Len(t) : q[j] = IF j = n THEN u ELSE t[j]
  BY <1>2, <1>4, <1>5, <1>7, Replaced
<1>9. \A j \in 1..Len(s) : q[j] = s[j]
  BY <1>5, <1>8 DEF u
<1>10. q = s
  BY <1>1, <1>5, <1>8, <1>9, SeqEqual
<1>11. Len(t) = n /\ t[Len(t)] = w
  BY <1>1, <1>5 DEF n
<1>. QED BY <1>3, <1>6, <1>10, <1>11 DEF q

-----------------------------------------------------------------------------
(* The scopes of a table *)

Rec == [key : Key, value : Value \union {Null}]

\* The bindings are those of the keys entered, in their order.
BindsKeys ==
  /\ Bindings \in Seq(Rec) /\ Len(Bindings) = size /\ size \in Nat
  /\ \A d \in 1..size : Bindings[d].key = entered[d]
  /\ MarksIn(marks, size)
  /\ entered \in Seq(Key)

LEMMA Keyed == TInv => BindsKeys
<1>. SUFFICES ASSUME TInv PROVE BindsKeys
  OBVIOUS
<1>1. size \in Nat /\ entered \in Seq(Key)
  BY Typing DEF TInv, TableTypeOK
<1>2. OneEach(Live, size) /\ Bindings = StackOf(Live, size)
  BY LiveDepths, BindingsStack DEF LiveOneEach, AreBindings
<1>3. Bindings \in Seq(Rec) /\ Len(Bindings) = size
  BY <1>1, <1>2, StackType DEF Rec
<1>4. ASSUME NEW d \in 1..size PROVE Bindings[d].key = entered[d]
  <2>1. PICK b \in Live : b.depth = d
    BY <1>2 DEF OneEach
  <2>2. Filed(b, entered)
    <3>1. CASE b \in InChains
      BY <3>1, ChainBinder
    <3>2. CASE b \in InFrames
      <4>1. PICK j \in DOMAIN frames : b = frames[j].b
        BY <3>2 DEF InFrames
      <4>. QED BY <4>1, FrameBinder
    <3>. QED BY <3>1, <3>2 DEF Live, InChains, InFrames
  <2>3. Bindings[d].key = b.key
    BY <2>1, BinderIsBinding, BindsParts
  <2>. QED BY <2>1, <2>2, <2>3 DEF Filed
<1>5. MarksIn(marks, size)
  BY <1>1 DEF MarksIn, marks
<1>. QED BY <1>1, <1>3, <1>4, <1>5 DEF BindsKeys

\* How many scopes are open.
opened == Cardinality(marks) + (IF ending THEN 0 ELSE 1)

AreScopes == Scopes = Cut(Bindings, marks, opened)

LEMMA ScopesCut == TInv => AreScopes
<1>. SUFFICES ASSUME TInv PROVE AreScopes
  OBVIOUS
<1>1. Len(Bindings) = size
  BY Keyed DEF BindsKeys
<1>2. \A i : MarkAt(i) = Place(marks, i)
  BY DEF MarkAt, Place, Count, UpTo
<1>. QED BY <1>1, <1>2 DEF AreScopes, Scopes, Cut, opened, FirstIn, LastIn

LEMMA ScopesCutNext ==
  ASSUME TInv' PROVE  Scopes' = Cut(Bindings', marks', opened')
<1>1. AreScopes'
  BY ScopesCut, PTL
<1>. QED BY <1>1 DEF AreScopes

\* The marks after an Enter, and those before a Pop.
LEMMA MarksEntered ==
  ASSUME BindsKeys, NEW k, entered' = Append(entered, k), k \in Key
  PROVE  /\ size' = size + 1
         /\ k # Mark => marks' = marks
         /\ k = Mark => Added(marks', marks, size)
<1>1. /\ size \in Nat /\ size' = size + 1 /\ entered'[size + 1] = k
      /\ \A d \in 1..size : entered'[d] = entered[d]
  BY Push DEF BindsKeys, size
<1>2. \A d : d \in 1..size' <=> d \in 1..size \/ d = size + 1
  BY <1>1
<1>3. ~(size + 1 \in 1..size)
  BY <1>1
<1>4. \A d : d \in marks' <=> d \in marks \/ (d = size + 1 /\ k = Mark)
  BY <1>1, <1>2, <1>3 DEF marks
<1>. QED BY <1>1, <1>4 DEF Added

LEMMA MarksPopped ==
  ASSUME BindsKeys, size # 0, entered' = SubSeq(entered, 1, size - 1)
  PROVE  /\ size = size' + 1 /\ size' \in Nat /\ entered[size] \in Key
         /\ entered[size] # Mark => marks' = marks
         /\ entered[size] = Mark => Added(marks, marks', size')
<1>1. entered # <<>> /\ entered \in Seq(Key)
  BY EmptySeq DEF BindsKeys, size
<1>2. /\ size \in Nat \ {0} /\ size' = size - 1 /\ entered[size] \in Key
      /\ \A d \in 1..(size - 1) : entered'[d] = entered[d]
  BY <1>1, Front, ElementOfSeq DEF size
<1>3. /\ \A d : d \in 1..size <=> d \in 1..size' \/ d = size
      /\ ~(size \in 1..size') /\ size = size' + 1 /\ size' \in Nat
  BY <1>2
<1>4. \A d : d \in marks <=> d \in marks' \/ (d = size /\ entered[size] = Mark)
  BY <1>2, <1>3 DEF marks
<1>5. size \notin marks'
  BY <1>3 DEF marks
<1>6. entered[size] # Mark => \A d : d \in marks' <=> d \in marks
  BY <1>4, <1>5
<1>7. entered[size] = Mark => marks = marks' \union {size' + 1}
  BY <1>3, <1>4
<1>. QED BY <1>2, <1>3, <1>6, <1>7 DEF Added

-----------------------------------------------------------------------------
(* The table is a stack of scopes *)

\* While no EndScope runs one scope more is open than there are marks.
LEMMA OpenScopes ==
  ASSUME BindsKeys, AreScopes, ~ending
  PROVE  /\ Scopes = Cut(Bindings, marks, Cardinality(marks) + 1)
         /\ CutOK(Rec, Scopes, Bindings, marks, Cardinality(marks) + 1)
         /\ Len(Scopes) = Cardinality(marks) + 1 /\ Scopes # <<>>
         /\ Scopes \in Seq(Seq(Rec)) /\ Cardinality(marks) \in Nat
<1>. DEFINE m == Cardinality(marks)
<1>1. Scopes = Cut(Bindings, marks, m + 1)
  BY DEF AreScopes, opened
<1>2. Bindings \in Seq(Rec) /\ MarksIn(marks, Len(Bindings))
  BY DEF BindsKeys
<1>3. m \in Nat
  BY <1>2, Places DEF Placed
<1>4. m + 1 \in 0..(m + 1)
  BY <1>3
<1>5. CutOK(Rec, Cut(Bindings, marks, m + 1), Bindings, marks, m + 1)
  BY <1>2, <1>4, CutType
<1>. HIDE DEF m
<1>6. Scopes \in Seq(Seq(Rec)) /\ Len(Scopes) = m + 1
  BY <1>1, <1>5 DEF CutOK
<1>7. Scopes # <<>>
  BY <1>3, <1>6, EmptySeq
<1>. QED BY <1>1, <1>3, <1>5, <1>6, <1>7 DEF m

LEMMA EnterScopes ==
  ASSUME TInv, ~ending, UNCHANGED ending, NEW k \in Key, NEW v \in Value \union {Null},
         Enter(k, v)
  PROVE  /\ k # Mark => S!Bind(k, v)
         /\ k = Mark => S!Open
<1>. DEFINE r == [key |-> k, value |-> v]
            m == Cardinality(marks)
<1>1. BindsKeys /\ AreScopes
  BY Keyed, ScopesCut
<1>2. Bindings' = Append(Bindings, r) /\ entered' = Append(entered, k)
  BY EnterBinds DEF Enter
<1>3. Scopes' = Cut(Bindings', marks', opened')
  BY EnterInv, ScopesCutNext
<1>4. /\ Scopes = Cut(Bindings, marks, m + 1) /\ Len(Scopes) = m + 1 /\ Scopes # <<>>
      /\ m \in Nat
  BY <1>1, OpenScopes
<1>5. Bindings \in Seq(Rec) /\ MarksIn(marks, Len(Bindings)) /\ r \in Rec
      /\ Len(Bindings) = size
  BY <1>1 DEF BindsKeys, Rec
<1>6. opened' = Cardinality(marks') + 1
  BY DEF opened
<1>. HIDE DEF r
<1>7. CASE k # Mark
  <2>1. marks' = marks
    BY <1>1, <1>2, <1>7, MarksEntered
  <2>2. Extends(Cut(Append(Bindings, r), marks, m + 1), Cut(Bindings, marks, m + 1), r)
    BY <1>5, CutBind
  <2>3. Scopes' = Cut(Append(Bindings, r), marks, m + 1)
    BY <2>1, <1>2, <1>3, <1>6
  <2>4. Scopes' = [Scopes EXCEPT ![Len(Scopes)] = Append(Scopes[Len(Scopes)], r)]
    BY <2>2, <2>3, <1>4 DEF Extends, Replaces
  <2>. QED BY <2>4, <1>4, <1>7 DEF S!Bind, S!WithInner, S!inner, r
<1>8. CASE k = Mark
  <2>1. Added(marks', marks, Len(Bindings))
    BY <1>1, <1>2, <1>5, <1>8, MarksEntered
  <2>2. /\ Cardinality(marks') = m + 1
        /\ Cut(Append(Bindings, r), marks', m + 2) = Append(Cut(Bindings, marks, m + 1), <<>>)
    BY <2>1, <1>5, CutOpen
  <2>3. opened' = m + 2
    BY <2>2, <1>4, <1>6
  <2>. QED BY <2>2, <2>3, <1>2, <1>3, <1>4, <1>8 DEF S!Open
<1>. QED BY <1>7, <1>8

LEMMA EndScopeCloses ==
  ASSUME TInv, ~ending, EndScope
  PROVE  S!Close
<1>1. BindsKeys /\ AreScopes
  BY Keyed, ScopesCut
<1>2. TInv'
  BY DEF EndScope, tableVars, TInv, TableTypeOK, PhaseOK, ChainsOK, Complete, TopOK, FramesOK,
         live, size
<1>3. Bindings' = Bindings /\ marks' = marks /\ ending' = TRUE
  BY DEF EndScope, tableVars, Bindings, BinderAt, Live, size, marks
<1>4. Scopes' = Cut(Bindings, marks, opened')
  BY <1>2, <1>3, ScopesCutNext
<1>5. Cardinality(marks) \in Nat /\ Scopes = Cut(Bindings, marks, Cardinality(marks) + 1)
  BY <1>1, OpenScopes
<1>6. opened' = Cardinality(marks)
  BY <1>3, <1>5 DEF opened
<1>7. Bindings \in Seq(Rec) /\ MarksIn(marks, Len(Bindings))
  BY <1>1 DEF BindsKeys
<1>8. Scopes # <<>> /\ Scopes' = SubSeq(Scopes, 1, Len(Scopes) - 1)
  BY <1>4, <1>5, <1>6, <1>7, CutClose
<1>. QED BY <1>8 DEF S!Close, S!Outer

LEMMA SetScopes ==
  ASSUME TInv, ~ending, UNCHANGED ending, NEW k \in Symbols, NEW v \in Value \union {Null},
         Set(k, v)
  PROVE  S!Assign(k, v)
<1>. DEFINE m == Cardinality(marks)
<1>1. BindsKeys /\ AreScopes
  BY Keyed, ScopesCut
<1>2. k \in Key /\ k # Mark
  BY DEF Symbols
<1>3. PICK d \in DOMAIN Bindings :
        E!Latest(k, d) /\ Bindings' = [Bindings EXCEPT ![d].value = v]
  BY <1>2, SetAssigns DEF E!Assign
<1>4. /\ DOMAIN Bindings = 1..Len(Bindings) /\ Len(Bindings) = size
      /\ Bindings \in Seq([key : Key, value : Value \union {Null}])
      /\ MarksIn(marks, Len(Bindings))
  BY <1>1, LenProperties DEF BindsKeys, Rec
<1>5. /\ d \in 1..Len(Bindings) /\ Bindings[d].key = k
      /\ \A e \in 1..Len(Bindings) : Bindings[e].key = k => e <= d
  BY <1>3, <1>4 DEF E!Latest
<1>6. d \notin marks
  <2>1. Bindings[d].key = entered[d]
    BY <1>1, <1>4, <1>5 DEF BindsKeys
  <2>. QED BY <2>1, <1>2, <1>5 DEF marks
<1>7. /\ Scopes = Cut(Bindings, marks, m + 1) /\ m \in Nat
  BY <1>1, OpenScopes
<1>8. Scopes' = Cut([Bindings EXCEPT ![d].value = v], marks, m + 1)
  <2>1. TInv'
    BY <1>2, SetInv
  <2>2. marks' = marks /\ opened' = m + 1
    BY DEF Set, marks, size, opened
  <2>. QED BY <2>1, <2>2, <1>3, ScopesCutNext
<1>. HIDE DEF m
<1>9. Assigns(Scopes', Scopes, k, v)
  <2>1. Assigns(Cut([Bindings EXCEPT ![d].value = v], marks, Cardinality(marks) + 1),
                Cut(Bindings, marks, Cardinality(marks) + 1), k, v)
    BY <1>4, <1>5, <1>6, CutAssign
  <2>. QED BY <2>1, <1>7, <1>8 DEF m
<1>. QED BY <1>9 DEF Assigns, S!Assign, S!Latest

\* What a Pop takes away.
LEMMA PopTakes ==
  ASSUME TInv, Pop
  PROVE  /\ BindsKeys /\ BindsKeys' /\ AreScopes /\ Scopes' = Cut(Bindings', marks', opened')
         /\ size # 0 /\ size = size' + 1 /\ size' \in Nat
         /\ Head(table_[Index[top_]]).key = entered[size]
         /\ \E r \in Rec : Bindings = Append(Bindings', r)
         /\ entered[size] # Mark => marks' = marks
         /\ entered[size] = Mark => Added(marks, marks', size')
<1>1. TInv'
  BY PopInv
<1>2. BindsKeys /\ AreScopes /\ BindsKeys'
  <2>1. BindsKeys'
    BY <1>1, Keyed, PTL
  <2>. QED BY <2>1, Keyed, ScopesCut
<1>3. Scopes' = Cut(Bindings', marks', opened')
  BY <1>1, ScopesCutNext
<1>4. live = size /\ size \in Nat /\ top_ # Null /\ table_[Index[top_]] # <<>>
  BY Idle DEF Pop
<1>5. Bindings # <<>> /\ Bindings' = SubSeq(Bindings, 1, Len(Bindings) - 1)
  BY PopUnbinds
<1>6. size # 0 /\ Len(Bindings) = size /\ Bindings \in Seq(Rec)
  BY <1>2, <1>5, EmptySeq DEF BindsKeys
<1>7. Head(table_[Index[top_]]).key = entered[size]
  <2>1. Head(table_[Index[top_]]).key = top_
    BY <1>4, TopTaken DEF PopTakesTop
  <2>2. top_ = entered[size]
    BY <1>4, <1>6 DEF TInv, TopOK, KeyIn
  <2>. QED BY <2>1, <2>2
<1>8. entered' = SubSeq(entered, 1, size - 1)
  BY DEF Pop
<1>9. /\ size = size' + 1 /\ size' \in Nat
      /\ entered[size] # Mark => marks' = marks
      /\ entered[size] = Mark => Added(marks, marks', size')
  BY <1>2, <1>6, <1>8, MarksPopped
<1>10. \E r \in Rec : Bindings = Append(Bindings', r)
  <2>. DEFINE r == Bindings[size]
              A == Bindings'
  <2>1. r \in Rec /\ A \in Seq(Rec) /\ Len(A) = size - 1
    BY <1>2, <1>4, <1>5, <1>6, ElementOfSeq, Front
  <2>2. \A p \in 1..(size - 1) : A[p] = Bindings[p]
    BY <1>5, <1>6, Front
  <2>. HIDE DEF A, r
  <2>. DEFINE C == Append(A, r)
  <2>3. /\ C \in Seq(Rec) /\ Len(C) = Len(A) + 1 /\ C[Len(A) + 1] = r
        /\ \A p \in 1..Len(A) : C[p] = A[p]
    BY <2>1, Push
  <2>. HIDE DEF C
  <2>4. Len(C) = size /\ C[size] = r /\ \A p \in 1..(size - 1) : C[p] = Bindings[p]
    BY <2>1, <2>2, <2>3, <1>4
  <2>5. \A p \in 1..size : C[p] = Bindings[p]
    <3>1. \A p \in 1..size : p = size \/ p \in 1..(size - 1)
      BY <1>4
    <3>. QED BY <3>1, <2>4 DEF r
  <2>6. C = Bindings
    BY <2>3, <2>4, <2>5, <1>6, SeqEqual
  <2>. QED BY <2>1, <2>6 DEF C, A
<1>. QED BY <1>2, <1>3, <1>6, <1>7, <1>9, <1>10

LEMMA PopScopes ==
  ASSUME TInv, ~ending, UNCHANGED ending, Pop
  PROVE  S!Undo
<1>. DEFINE m == Cardinality(marks')
            n == Len(Bindings')
<1>1. PICK r \in Rec : Bindings = Append(Bindings', r)
  BY PopTakes
<1>2. /\ Scopes = Cut(Bindings, marks, Cardinality(marks) + 1)
      /\ Len(Scopes) = Cardinality(marks) + 1 /\ Scopes # <<>>
  BY PopTakes, OpenScopes
<1>3. Scopes' = Cut(Bindings', marks', m + 1)
  <2>1. opened' = m + 1
    BY DEF opened
  <2>. QED BY <2>1, PopTakes
<1>4. Bindings' \in Seq(Rec) /\ MarksIn(marks', n) /\ n = size'
  BY PopTakes DEF BindsKeys
<1>5. /\ Scopes' \in Seq(Seq(Rec)) /\ Len(Scopes') = m + 1 /\ m \in Nat /\ Scopes' # <<>>
  <2>1. m \in Nat
    BY <1>4, Places DEF Placed
  <2>2. m + 1 \in 0..(m + 1)
    BY <2>1
  <2>3. CutOK(Rec, Cut(Bindings', marks', m + 1), Bindings', marks', m + 1)
    BY <2>2, <1>4, CutType
  <2>. HIDE DEF m
  <2>4. Scopes' \in Seq(Seq(Rec)) /\ Len(Scopes') = m + 1
    BY <2>3, <1>3 DEF CutOK
  <2>. QED BY <2>1, <2>4, EmptySeq
<1>6. CASE entered[size] # Mark
  <2>1. marks' = marks
    BY <1>6, PopTakes
  <2>2. Extends(Cut(Append(Bindings', r), marks', m + 1), Cut(Bindings', marks', m + 1), r)
    BY <1>4, CutBind
  <2>3. Extends(Scopes, Scopes', r)
    BY <2>1, <2>2, <1>1, <1>2, <1>3
  <2>4. /\ Scopes[Len(Scopes)] # <<>>
        /\ Scopes' = [Scopes EXCEPT ![Len(Scopes)] =
                        SubSeq(Scopes[Len(Scopes)], 1, Len(Scopes[Len(Scopes)]) - 1)]
    BY <2>3, <1>5, InnerPops DEF Extends
  <2>. QED BY <2>4, <1>2 DEF S!Undo, S!inner, S!WithInner
<1>7. CASE entered[size] = Mark
  <2>1. Added(marks, marks', n)
    BY <1>4, <1>7, PopTakes
  <2>2. Cardinality(marks) = m + 1 /\ Cut(Bindings, marks, m + 2) = Append(Scopes', <<>>)
    BY <2>1, <1>1, <1>3, <1>4, CutOpen
  <2>. HIDE DEF m
  <2>3. Scopes = Append(Scopes', <<>>) /\ Len(Scopes) = m + 2
    BY <2>2, <1>2, <1>5
  <2>4. <<>> \in Seq(Rec)
    BY EmptySeq
  <2>5. Scopes' = SubSeq(Scopes, 1, Len(Scopes) - 1)
    BY <2>3, <2>4, <1>5, Unappend
  <2>6. Len(Scopes) > 1 /\ Scopes[Len(Scopes)] = <<>>
    BY <2>3, <2>4, <1>5, Push
  <2>. QED BY <2>5, <2>6 DEF S!Undo, S!inner, S!Outer
<1>. QED BY <1>6, <1>7

\* The Pops of an EndScope undo what is no longer in a scope that is open.
LEMMA EndScopePopKeeps ==
  ASSUME TInv, EndScopePop
  PROVE  UNCHANGED Scopes
<1>. DEFINE m == Cardinality(marks')
            n == Len(Bindings')
<1>0. Pop /\ ending /\ ending' = (Head(table_[Index[top_]]).key # Mark)
  BY DEF EndScopePop
<1>1. PICK r \in Rec : Bindings = Append(Bindings', r)
  BY <1>0, PopTakes
<1>2. /\ Scopes = Cut(Bindings, marks, opened) /\ Scopes' = Cut(Bindings', marks', opened')
      /\ ending' = (entered[size] # Mark)
  BY <1>0, PopTakes DEF AreScopes
<1>3. Bindings' \in Seq(Rec) /\ MarksIn(marks', n) /\ n = size'
  BY <1>0, PopTakes DEF BindsKeys
<1>4. m \in Nat
  BY <1>3, Places DEF Placed
<1>5. CASE entered[size] # Mark
  <2>1. marks' = marks
    BY <1>0, <1>5, PopTakes
  <2>2. opened = m /\ opened' = m
    <3>1. ending /\ ending'
      BY <1>0, <1>2, <1>5
    <3>2. opened = Cardinality(marks) + 0 /\ opened' = m + 0
      BY <3>1 DEF opened
    <3>. QED BY <3>2, <2>1, <1>4
  <2>3. Cut(Append(Bindings', r), marks', m) = Cut(Bindings', marks', m)
    <3>1. Bindings' \in Seq(Rec) /\ MarksIn(marks', Len(Bindings'))
      BY <1>3
    <3>. QED BY <3>1, CutBind
  <2>. QED BY <2>1, <2>2, <2>3, <1>1, <1>2
<1>6. CASE entered[size] = Mark
  <2>1. Added(marks, marks', n)
    BY <1>0, <1>3, <1>6, PopTakes
  <2>2. /\ Cardinality(marks) = m + 1
        /\ Cut(Append(Bindings', r), marks, m + 1) = Cut(Bindings', marks', m + 1)
    BY <2>1, <1>3, CutOpen
  <2>3. opened = m + 1 /\ opened' = m + 1
    <3>1. ending /\ ~ending'
      BY <1>0, <1>2, <1>6
    <3>2. opened = Cardinality(marks) + 0 /\ opened' = m + 1
      BY <3>1 DEF opened
    <3>. QED BY <3>2, <2>2, <1>4
  <2>. QED BY <2>2, <2>3, <1>1, <1>2
<1>. QED BY <1>5, <1>6

LEMMA StepKeepsScopes ==
  ASSUME UNCHANGED ending, Bindings' = Bindings, UNCHANGED entered
  PROVE  UNCHANGED Scopes
<1>1. marks' = marks /\ size' = size
  BY DEF marks, size
<1>. QED BY <1>1 DEF Scopes, MarkAt

LEMMA ScopeStep == TInv /\ [SymNext]_symVars => [Corresponds]_symVars
<1>. SUFFICES ASSUME TInv, SymNext PROVE Corresponds \/ UNCHANGED symVars
  OBVIOUS
<1>1. CASE Ready /\ Inherited
  <2>1. ~ending /\ UNCHANGED ending
    BY <1>1 DEF Ready, Inherited
  <2>2. ASSUME NEW k \in Symbols, NEW v \in Value \union {Null}, Enter(k, v)
        PROVE  Corresponds
    BY <2>1, <2>2, EnterScopes DEF Corresponds, Symbols
  <2>3. ASSUME NEW k \in Symbols, NEW v \in Value \union {Null}, Set(k, v)
        PROVE  Corresponds
    BY <2>1, <2>3, SetScopes DEF Corresponds
  <2>4. CASE Pop
    BY <2>1, <2>4, PopScopes DEF Corresponds
  <2>5. CASE Dump
    <3>1. UNCHANGED Scopes
      BY <2>1, <2>5, DumpKeeps, StepKeepsScopes DEF Dump
    <3>. QED BY <2>5, <3>1 DEF Corresponds
  <2>. QED BY <1>1, <2>2, <2>3, <2>4, <2>5 DEF Inherited
<1>2. CASE Ready /\ BeginScope
  BY <1>2, EnterScopes, MarkAssumption DEF Ready, BeginScope, Corresponds
<1>3. CASE Ready /\ EndScope
  BY <1>3, EndScopeCloses DEF Ready, Corresponds
<1>4. CASE DumpStep /\ UNCHANGED <<ending, aborted>>
  <2>1. UNCHANGED entered
    BY <1>4 DEF DumpStep, DumpDown, DumpBottom, DumpUp
  <2>2. UNCHANGED Scopes
    BY <2>1, <1>4, DumpKeeps, StepKeepsScopes
  <2>. QED BY <2>2, <1>4 DEF Corresponds
<1>5. CASE EndScopePop
  <2>1. UNCHANGED Scopes
    BY <1>5, EndScopePopKeeps
  <2>. QED BY <2>1, <1>5 DEF Corresponds, EndScopeStep
<1>6. CASE EndScopeAssert
  <2>1. Bindings' = Bindings /\ UNCHANGED <<ending, entered>>
    BY <1>6 DEF EndScopeAssert, tableVars, Bindings, BinderAt, Live, size
  <2>2. UNCHANGED Scopes
    BY <2>1, StepKeepsScopes
  <2>. QED BY <2>2, <1>6 DEF Corresponds, EndScopeStep
<1>7. CASE UNCHANGED symVars
  BY <1>7
<1>. QED BY <1>1, <1>2, <1>3, <1>4, <1>5, <1>6, <1>7 DEF SymNext, EndScopeStep

LEMMA CorrespondsIsNext == [Corresponds]_symVars => [S!Next]_Scopes
<1>1. Corresponds => S!Next \/ UNCHANGED Scopes
  BY DEF Corresponds, S!Next
<1>2. UNCHANGED symVars => UNCHANGED Scopes
  <2>. SUFFICES ASSUME UNCHANGED symVars PROVE UNCHANGED Scopes
    OBVIOUS
  <2>1. Bindings' = Bindings /\ UNCHANGED <<ending, entered>>
    BY DEF symVars, tableVars, Bindings, BinderAt, Live, size
  <2>. QED BY <2>1, StepKeepsScopes
<1>. QED BY <1>1, <1>2

LEMMA OneScope == SymInit => S!Init
<1>. SUFFICES ASSUME SymInit PROVE Scopes = << <<>> >>
  BY DEF S!Init
<1>1. size = 0 /\ ~ending /\ TInv
  BY InitInv DEF SymInit, TableInit, size
<1>2. BindsKeys /\ AreScopes
  BY <1>1, Keyed, ScopesCut
<1>3. marks = {} /\ Cardinality(marks) = 0
  <2>1. marks = {}
    BY <1>1 DEF marks
  <2>. QED BY <2>1, FS_EmptySet
<1>4. /\ Scopes \in Seq(Seq(Rec)) /\ Len(Scopes) = 1
      /\ CutOK(Rec, Scopes, Bindings, marks, 1)
  <2>1. Cardinality(marks) + 1 = 1
    BY <1>3
  <2>2. /\ CutOK(Rec, Scopes, Bindings, marks, Cardinality(marks) + 1)
        /\ Len(Scopes) = Cardinality(marks) + 1 /\ Scopes \in Seq(Seq(Rec))
    BY <1>1, <1>2, OpenScopes
  <2>. QED BY <2>1, <2>2
<1>5. Scopes[1] = <<>>
  <2>1. Scopes[1] = SubSeq(Bindings, 1, 0) /\ Scopes[1] \in Seq(Rec)
    BY <1>1, <1>2, <1>3, <1>4, Places DEF CutOK, BindsKeys, FirstIn, LastIn, Place
  <2>2. Len(SubSeq(Bindings, 1, 0)) = 0
    BY <1>1, <1>2, SliceType DEF BindsKeys
  <2>. QED BY <2>1, <2>2, EmptySeq
<1>. QED BY <1>4, <1>5

\* A symbol table is a stack of scopes: BeginScope opens one, EndScope closes the
\* innermost and with it the bindings since the matching BeginScope and no other, Enter
\* binds in the innermost, and Set assigns to the latest binding, in whatever scope.
THEOREM SymTableImplementsScopes == SymSpec => ImplementsScopes
<1>1. SymInit => TInv
  BY InitInv DEF SymInit
<1>2. TInv /\ [SymNext]_symVars => TInv'
  BY SymStep, NextInv
<1>. QED BY <1>1, <1>2, OneScope, ScopeStep, CorrespondsIsNext, PTL
         DEF SymSpec, ImplementsScopes, S!Spec
=============================================================================
