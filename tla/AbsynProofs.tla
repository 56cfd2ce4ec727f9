----------------------------- MODULE AbsynProofs ----------------------------
(***************************************************************************)
(* Theorems about Symbols and Absyn, for any names, any buckets, any hash, *)
(* any of the classes and trees of any size: one symbol to a name, what is *)
(* deleted at the end, and when it goes wrong.                             *)
(***************************************************************************)
EXTENDS Absyn, TLAPS

-----------------------------------------------------------------------------
(* Symbols *)

\* Every symbol is on the chain of its name.
Linked ==
  \A a \in DOMAIN name_ : \E p \in DOMAIN hashtable[Index[name_[a]]] :
    hashtable[Index[name_[a]]][p] = a

\* No name has two symbols.
Distinct == \A a, b \in DOMAIN name_ : name_[a] = name_[b] => a = b

\* The inductive invariant.
SInv == SymbolsTypeOK /\ Linked /\ Distinct

\* What << x >> \o s holds.
LEMMA Pushed ==
  ASSUME NEW X, NEW x \in X, NEW s \in Seq(X)
  PROVE  /\ << x >> \o s \in Seq(X)
         /\ Len(<< x >> \o s) = Len(s) + 1
         /\ (<< x >> \o s)[1] = x
         /\ \A p \in 1..Len(s) : (<< x >> \o s)[p + 1] = s[p]
  OBVIOUS

\* A sequence stays one over a larger set.
LEMMA Widened ==
  ASSUME NEW X, NEW Y, X \subseteq Y, NEW s \in Seq(X)
  PROVE  s \in Seq(Y)
  OBVIOUS

LEMMA InitSInv == SymbolsInit => SInv
  <1> SUFFICES ASSUME SymbolsInit PROVE SInv
    OBVIOUS
  <1>1. /\ name_ = <<>> /\ hashtable = [i \in Bucket |-> <<>>]
        /\ name_ \in Seq(Name) /\ DOMAIN name_ = {}
    BY DEF SymbolsInit
  <1>2. hashtable \in [Bucket -> Seq(1..Len(name_))]
    BY <1>1
  <1> QED
    BY <1>1, <1>2 DEF SInv, SymbolsTypeOK, Linked, Distinct

\* A symbol is made: it is the first of its name.
LEMMA Made ==
  ASSUME SInv, NEW n \in Name, NEW a \in 1..(Len(name_) + 1),
         LET chain == hashtable[Index[n]]
         IN  /\ \A p \in DOMAIN chain : name_[chain[p]] # n
             /\ a = Len(name_) + 1
             /\ name_' = Append(name_, n)
             /\ hashtable' = [hashtable EXCEPT ![Index[n]] = << a >> \o @]
  PROVE  /\ SInv'
         /\ \A b \in DOMAIN name_ : name_[b] # n
  <1> DEFINE c == hashtable[Index[n]]
             pushed == << a >> \o c
  <1>1. /\ Index[n] \in Bucket /\ Len(name_) \in Nat /\ a = Len(name_) + 1
        /\ name_ \in Seq(Name) /\ hashtable \in [Bucket -> Seq(1..Len(name_))]
    BY IndexAssumption DEF SInv, SymbolsTypeOK
  <1>2. \A b \in DOMAIN name_ : name_[b] # n
    BY DEF SInv, Linked
  <1>3. /\ name_' \in Seq(Name) /\ Len(name_') = a
        /\ name_'[a] = n /\ \A b \in 1..Len(name_) : name_'[b] = name_[b]
    BY <1>1
  <1>4. /\ c \in Seq(1..a) /\ a \in 1..a
        /\ \A i \in Bucket : hashtable[i] \in Seq(1..a)
    BY <1>1, Widened, 1..Len(name_) \subseteq 1..a
  <1>5. /\ pushed \in Seq(1..a) /\ Len(pushed) = Len(c) + 1 /\ pushed[1] = a
        /\ \A p \in 1..Len(c) : pushed[p + 1] = c[p]
    BY <1>4, Pushed
  <1>6. /\ hashtable'[Index[n]] = pushed
        /\ \A i \in Bucket : i # Index[n] => hashtable'[i] = hashtable[i]
        /\ DOMAIN hashtable' = Bucket
        /\ hashtable' = [i \in Bucket |-> IF i = Index[n] THEN pushed ELSE hashtable[i]]
    BY <1>1
  <1> HIDE DEF pushed
  <1>7. SymbolsTypeOK'
    BY <1>3, <1>4, <1>5, <1>6 DEF SymbolsTypeOK
  <1>8. Linked'
    <2> SUFFICES ASSUME NEW b \in 1..a
                 PROVE  \E p \in DOMAIN hashtable'[Index[name_'[b]]] :
                          hashtable'[Index[name_'[b]]][p] = b
      <3>1. DOMAIN name_' = 1..a
        BY <1>3
      <3> QED
        BY <3>1 DEF Linked
    <2>1. CASE b = a
      <3>1. hashtable'[Index[name_'[b]]] = pushed
        BY <2>1, <1>3, <1>6
      <3>2. Len(c) \in Nat
        BY <1>4
      <3>3. 1 \in DOMAIN pushed /\ pushed[1] = b
        BY <2>1, <3>2, <1>5
      <3> QED
        BY <3>1, <3>3
    <2>2. CASE b # a
      <3>1. b \in 1..Len(name_) /\ name_'[b] = name_[b] /\ name_[b] \in Name
        BY <2>2, <1>1, <1>3
      <3>2. PICK p \in DOMAIN hashtable[Index[name_[b]]] :
              hashtable[Index[name_[b]]][p] = b
        BY <3>1 DEF SInv, Linked
      <3>3. CASE Index[name_[b]] = Index[n]
        <4>1. p \in 1..Len(c) /\ c[p] = b /\ Len(c) \in Nat
          BY <3>2, <3>3, <1>4
        <4>2. DOMAIN pushed = 1..(Len(c) + 1)
          BY <1>5
        <4>3. p + 1 \in 1..(Len(c) + 1)
          BY <4>1
        <4>4. pushed[p + 1] = b
          BY <4>1, <1>5
        <4> QED
          BY ZenonT(60), <4>2, <4>3, <4>4, <3>1, <3>3, <1>6
      <3>4. CASE Index[name_[b]] # Index[n]
        BY <3>1, <3>2, <3>4, <1>6, IndexAssumption
      <3> QED
        BY <3>3, <3>4
    <2> QED
      BY <2>1, <2>2
  <1>9. Distinct'
    <2> SUFFICES ASSUME NEW b \in 1..a, NEW d \in 1..a, name_'[b] = name_'[d]
                 PROVE  b = d
      BY <1>3 DEF Distinct
    <2>1. DOMAIN name_ = 1..Len(name_) /\ \A e \in 1..a : e = a \/ e \in 1..Len(name_)
      BY <1>1
    <2> QED
      BY <2>1, <1>2, <1>3 DEF SInv, Distinct
  <1> QED
    BY <1>2, <1>7, <1>8, <1>9 DEF SInv

\* A call of UniqueSymbol keeps the invariant, and finds or makes the one symbol of the
\* name.
LEMMA Interned ==
  ASSUME SInv, NEW n \in Name, NEW a \in 1..(Len(name_) + 1), UniqueSymbol(n, a)
  PROVE  SInv' /\ I!Intern(n, a)
  <1>1. /\ name_ \in Seq(Name) /\ Len(name_) \in Nat /\ DOMAIN name_ = 1..Len(name_)
        /\ a > 0 /\ Index[n] \in Bucket
        /\ hashtable \in [Bucket -> Seq(1..Len(name_))]
    BY IndexAssumption DEF SInv, SymbolsTypeOK
  <1>2. \A m \in Name : \A b \in DOMAIN name_ : name_[b] = m => SymbolOf[m] = b
    <2> SUFFICES ASSUME NEW m \in Name, NEW b \in DOMAIN name_, name_[b] = m
                 PROVE  SymbolOf[m] = b
      OBVIOUS
    <2>1. \A d \in DOMAIN name_ : name_[d] = m <=> d = b
      BY DEF SInv, Distinct
    <2>2. b \in DOMAIN name_ /\ name_[b] = m
          /\ \A d \in DOMAIN name_ : d > b => name_[d] # m
      BY <2>1, <1>1
    <2> QED
      BY <2>1, <2>2 DEF SymbolOf
  <1>3. \A m \in Name : (\A b \in DOMAIN name_ : name_[b] # m) => SymbolOf[m] = 0
    BY DEF SymbolOf
  <1>4. ASSUME NEW p \in DOMAIN hashtable[Index[n]],
               name_[hashtable[Index[n]][p]] = n, a = hashtable[Index[n]][p],
               UNCHANGED symbolVars
        PROVE  SInv' /\ I!Intern(n, a)
    <2>1. a \in DOMAIN name_ /\ name_[a] = n
      BY <1>1, <1>4
    <2>2. SymbolOf[n] = a
      BY <2>1, <1>2
    <2>3. SymbolOf' = SymbolOf
      BY <1>4 DEF SymbolOf, symbolVars
    <2>4. SInv'
      BY <1>4 DEF SInv, SymbolsTypeOK, Linked, Distinct, symbolVars
    <2> QED
      BY <2>2, <2>3, <2>4, <1>1 DEF I!Intern
  <1>5. ASSUME \A p \in DOMAIN hashtable[Index[n]] : name_[hashtable[Index[n]][p]] # n,
               a = Len(name_) + 1, name_' = Append(name_, n),
               hashtable' = [hashtable EXCEPT ![Index[n]] = << a >> \o @]
        PROVE  SInv' /\ I!Intern(n, a)
    <2>1. SInv' /\ \A b \in DOMAIN name_ : name_[b] # n
      BY <1>5, Made
    <2>2. /\ DOMAIN name_' = 1..a /\ name_'[a] = n
          /\ \A b \in DOMAIN name_ : name_'[b] = name_[b]
      BY <1>1, <1>5
    <2>3. \A m \in Name : \A b \in DOMAIN name_' : name_'[b] = m => SymbolOf'[m] = b
      <3> SUFFICES ASSUME NEW m \in Name, NEW b \in DOMAIN name_', name_'[b] = m
                   PROVE  SymbolOf'[m] = b
        OBVIOUS
      <3>1. \A d \in DOMAIN name_' : name_'[d] = m <=> d = b
        BY <2>1 DEF SInv, Distinct
      <3>2. b \in DOMAIN name_' /\ name_'[b] = m
            /\ \A d \in DOMAIN name_' : d > b => name_'[d] # m
        BY <3>1, <2>2, <1>1
      <3> QED
        BY <3>1, <3>2 DEF SymbolOf
    <2>4. \A m \in Name : (\A b \in DOMAIN name_' : name_'[b] # m) => SymbolOf'[m] = 0
      BY DEF SymbolOf
    <2>5. SymbolOf[n] = 0 /\ SymbolOf'[n] = a
      BY <2>1, <2>2, <2>3, <1>1, <1>3
    <2>6. ASSUME NEW m \in Name PROVE SymbolOf[m] # a
      <3>1. CASE \E b \in DOMAIN name_ : name_[b] = m
        BY <3>1, <1>1, <1>2, <1>5
      <3>2. CASE \A b \in DOMAIN name_ : name_[b] # m
        BY <3>2, <1>1, <1>3
      <3> QED
        BY <3>1, <3>2
    <2>7. ASSUME NEW m \in Name, m # n PROVE SymbolOf'[m] = SymbolOf[m]
      <3>1. CASE \E b \in DOMAIN name_ : name_[b] = m
        BY <3>1, <2>2, <2>3, <1>1, <1>2, <1>5
      <3>2. CASE \A b \in DOMAIN name_ : name_[b] # m
        <4>1. \A b \in DOMAIN name_' : name_'[b] # m
          BY <3>2, <2>2, <2>7, <1>1, <1>5
        <4> QED
          BY <4>1, <3>2, <2>4, <1>3
      <3> QED
        BY <3>1, <3>2
    <2>8. SymbolOf' = [SymbolOf EXCEPT ![n] = a]
      <3>1. /\ SymbolOf = [m \in Name |-> SymbolOf[m]]
            /\ SymbolOf' = [m \in Name |-> SymbolOf'[m]]
        BY DEF SymbolOf
      <3> QED
        BY <3>1, <2>5, <2>7
    <2> QED
      BY <2>1, <2>5, <2>6, <2>8, <1>1 DEF I!Intern
  <1> QED
    BY <1>4, <1>5 DEF UniqueSymbol

-----------------------------------------------------------------------------
(* The tree: the inductive invariant *)

Kinds == {"null", "Symbol"} \union {Base(c) : c \in Class}
Entry == [kind : Kinds, at : Nat]

\* The entry is a pointer to a node.
IsNode(e) == e.kind \notin {"null", "Symbol"}

\* The j-th pointer of node k.
Part(k, j) == nodes[k].fields[j]

AType ==
  /\ nodes \in Seq([class : Class, fields : Seq(Entry)])
  /\ stack \in Seq(Entry) /\ pending \in Seq(Entry) /\ freed \subseteq Entry
  /\ AbsynTypeOK

\* The nodes are a forest: each is made after its parts and is a part once at most.
Forest ==
  /\ \A k \in DOMAIN nodes : \A j \in DOMAIN nodes[k].fields :
       IsNode(Part(k, j)) => Part(k, j).at < k
  /\ \A k, l \in DOMAIN nodes :
       \A i \in DOMAIN nodes[k].fields, j \in DOMAIN nodes[l].fields :
         IsNode(Part(k, i)) /\ IsNode(Part(l, j)) /\ Part(k, i).at = Part(l, j).at
         => k = l /\ i = j

\* While the parser runs, its values are in the order in which they were made, are not
\* yet parts, and the last node made is among them.
OnStack ==
  /\ \A i, j \in DOMAIN stack :
       i < j /\ IsNode(stack[i]) /\ IsNode(stack[j]) => stack[i].at < stack[j].at
  /\ \A i \in DOMAIN stack : IsNode(stack[i]) =>
       \A k \in DOMAIN nodes : \A j \in DOMAIN nodes[k].fields :
         IsNode(Part(k, j)) => Part(k, j).at # stack[i].at
  /\ nodes # <<>> => \E i \in DOMAIN stack : IsNode(stack[i]) /\ stack[i].at = Len(nodes)
  /\ pending = <<>> /\ freed = {}

\* The pointer that main deletes.
Root == [kind |-> "Exp", at |-> Len(nodes)]

\* The nodes deleted, and those waiting.
FreedAt == {e.at : e \in {x \in freed : IsNode(x)}}
PendingAt == {pending[p].at : p \in {q \in DOMAIN pending : IsNode(pending[q])}}

\* The places of e among what is to delete, and 0 when e has been deleted.
Tokens(e) == {p \in DOMAIN pending : pending[p] = e} \union {z \in {0} : e \in freed}

\* The pointers equal to e that destructors have deleted or put among what is to delete,
\* and <<0, 1>> for the pointer main has.
Given(e) ==
  (UNION {{<<k, j>> : j \in {i \in DOMAIN nodes[k].fields : Part(k, i) = e}}
          : k \in {l \in FreedAt : nodes[l].class \in Owners}})
  \union {z \in {<<0, 1>>} : e = Root}

Two(S) == \E x, y \in S : x # y

\* While the tree is deleted, a pointer is owed one delete for each time it was given:
\* none is lost and none is made up.
Owed ==
  /\ Root \in Entry /\ Points(Root)
  /\ FreedAt \union PendingAt \subseteq Owned
  /\ \A e \in Entry : e # Null =>
       /\ Tokens(e) = {} <=> Given(e) = {}
       /\ Two(Tokens(e)) <=> Two(Given(e))
  /\ phase = "done" => pending = <<>>
  /\ phase = "undefined" => pending # <<>> /\ pending[1] \in freed

AInv ==
  /\ SInv
  /\ AType
  /\ Forest
  /\ phase = "parsing" => OnStack
  /\ phase # "parsing" => Owed
-----------------------------------------------------------------------------
(* Classes, entries and parts *)

\* Every class but the owners keeps its parts, and no base class is that of a symbol.
LEMMA Classes ==
  ASSUME NEW c \in Class
  PROVE  /\ c \in Owners <=> c \notin Keepers
         /\ Base(c) \in Kinds
         /\ Base(c) \notin {"null", "Symbol"}
  <1>1. c \in DOMAIN Params \union Lists
    BY ClassAssumption
  <1>2. c # "null" /\ c # "Symbol"
    <2>1. CASE c \in DOMAIN Params
      BY <2>1 DEF Params
    <2>2. CASE c \in Lists
      BY <2>2 DEF Lists, ElementOf
    <2> QED
      BY <1>1, <2>1, <2>2
  <1>3. c \in Owners <=> c \notin Keepers
    BY <1>1 DEF Owners, Keepers, Params, Lists, ElementOf, Vars, Exps, Decs, Tys
  <1>4. Base(c) \in {"Var", "Exp", "Dec", "Ty", c}
    BY DEF Base
  <1> QED
    BY <1>2, <1>3, <1>4 DEF Kinds

LEMMA ParamsAreSequences == \A c \in DOMAIN Params : Len(Params[c]) \in Nat
  BY DEF Params

LEMMA NullEntry == Null \in Entry /\ ~IsNode(Null) /\ Points(Null)
  <1>1. Null = [kind |-> "null", at |-> 0]
    BY DEF Null
  <1>2. Null \in [kind : Kinds, at : Nat]
    BY <1>1 DEF Kinds
  <1> QED
    BY <1>1, <1>2 DEF Entry, IsNode, Points

\* What AType says of the values of the parser and of the parts of a node.
LEMMA Entries ==
  ASSUME AType
  PROVE  /\ Len(nodes) \in Nat /\ DOMAIN nodes = 1..Len(nodes)
         /\ \A k \in DOMAIN nodes :
              /\ nodes[k].class \in Class
              /\ nodes[k].fields \in Seq(Entry)
              /\ \A j \in DOMAIN nodes[k].fields :
                   Part(k, j) \in Entry /\ Points(Part(k, j))
         /\ \A i \in DOMAIN stack : stack[i] \in Entry /\ Points(stack[i])
         /\ \A p \in DOMAIN pending : pending[p] \in Entry /\ Points(pending[p])
         /\ \A e \in freed : e \in Entry /\ Points(e) /\ e # Null
  <1>1. /\ nodes \in Seq([class : Class, fields : Seq(Entry)])
        /\ stack \in Seq(Entry) /\ pending \in Seq(Entry) /\ freed \subseteq Entry
        /\ AbsynTypeOK
    BY DEF AType
  <1>2. \A k \in DOMAIN nodes : nodes[k] \in [class : Class, fields : Seq(Entry)]
    <2> DEFINE R == [class : Class, fields : Seq(Entry)]
    <2>1. nodes \in Seq(R)
      BY <1>1
    <2> HIDE DEF R
    <2>2. \A k \in DOMAIN nodes : nodes[k] \in R
      BY <2>1
    <2> QED
      BY <2>2 DEF R
  <1>3. \A k \in DOMAIN nodes : /\ nodes[k].class \in Class
                                /\ nodes[k].fields \in Seq(Entry)
    BY <1>2
  <1>4. ASSUME NEW k \in DOMAIN nodes, NEW j \in DOMAIN nodes[k].fields
        PROVE  Part(k, j) \in Entry /\ Points(Part(k, j))
    BY <1>1, <1>3 DEF Part, AbsynTypeOK
  <1> QED
    BY <1>1, <1>3, <1>4 DEF AbsynTypeOK

\* A pointer to a node has the node's base class: it is known by its address.
LEMMA NodeEntries ==
  ASSUME AType, NEW e \in Entry, Points(e)
  PROVE  /\ IsNode(e) => /\ e.at \in DOMAIN nodes
                         /\ e = [kind |-> Base(nodes[e.at].class), at |-> e.at]
         /\ ~IsNode(e) /\ e # Null =>
              /\ e.kind = "Symbol" /\ e.at \in DOMAIN name_
              /\ e = [kind |-> "Symbol", at |-> e.at]
  <1>1. e.kind \in Kinds /\ e.at \in Nat /\ e = [kind |-> e.kind, at |-> e.at]
    BY DEF Entry
  <1>2. CASE e = Null
    BY <1>2, NullEntry
  <1>3. CASE e.kind = "Symbol" /\ e.at \in DOMAIN name_
    BY <1>1, <1>3 DEF IsNode
  <1>4. CASE e.at \in DOMAIN nodes /\ e.kind = Base(nodes[e.at].class)
    <2>1. nodes[e.at].class \in Class
      BY <1>4, Entries
    <2>2. e.kind \notin {"null", "Symbol"}
      BY <1>4, <2>1, Classes
    <2> QED
      BY <1>1, <1>4, <2>2 DEF IsNode, Null
  <1> QED
    BY <1>2, <1>3, <1>4 DEF Points

\* Two pointers to the same node are equal.
LEMMA SameNode ==
  ASSUME AType, NEW d \in Entry, NEW e \in Entry, Points(d), Points(e),
         IsNode(d), IsNode(e), d.at = e.at
  PROVE  d = e
  BY NodeEntries

\* The pointer e points after the step.
PointsAfter(e) ==
  \/ e = Null
  \/ e.kind = "Symbol" /\ e.at \in DOMAIN name_'
  \/ e.at \in DOMAIN nodes' /\ e.kind = Base(nodes'[e.at].class)

\* A pointer goes on pointing when symbols and nodes are made.
LEMMA PointsStays ==
  ASSUME DOMAIN name_ \subseteq DOMAIN name_',
         DOMAIN nodes \subseteq DOMAIN nodes',
         \A k \in DOMAIN nodes : nodes'[k].class = nodes[k].class
  PROVE  \A e : Points(e) => PointsAfter(e)
  BY DEF Points, PointsAfter
-----------------------------------------------------------------------------
(* Parsing *)

\* Taking the last k values for e.
LEMMA Replaced ==
  ASSUME NEW k \in 0..Len(stack), NEW e \in Entry, stack \in Seq(Entry), Replace(k, e)
  PROVE  /\ stack' \in Seq(Entry) /\ Len(stack') = Len(stack) - k + 1
         /\ stack'[Len(stack')] = e
         /\ \A i \in 1..(Len(stack) - k) : stack'[i] = stack[i]
  <1> DEFINE rest == SubSeq(stack, 1, Len(stack) - k)
  <1>1. Len(stack) \in Nat /\ k \in Nat /\ Len(stack) - k \in 0..Len(stack)
    OBVIOUS
  <1>2. /\ rest \in Seq(Entry) /\ Len(rest) = Len(stack) - k
        /\ \A i \in 1..(Len(stack) - k) : rest[i] = stack[i]
    BY <1>1
  <1> HIDE DEF rest
  <1>3. stack' = Append(rest, e)
    BY DEF Replace, rest
  <1> QED
    BY <1>1, <1>2, <1>3

LEMMA LastValuesAre ==
  ASSUME NEW k \in 0..Len(stack), stack \in Seq(Entry)
  PROVE  /\ LastValues(k) \in Seq(Entry) /\ Len(LastValues(k)) = k
         /\ \A j \in 1..k : LastValues(k)[j] = stack[Len(stack) - k + j]
  <1>1. Len(stack) \in Nat /\ k \in Nat /\ Len(stack) - k + 1 \in 1..(Len(stack) + 1)
    OBVIOUS
  <1>2. \A j \in 1..k : Len(stack) - k + j \in 1..Len(stack)
    BY <1>1
  <1> QED
    BY <1>1, <1>2 DEF LastValues

LEMMA InitAInv == AbsynInit => AInv
  <1> SUFFICES ASSUME AbsynInit PROVE AInv
    OBVIOUS
  <1>1. /\ nodes = <<>> /\ stack = <<>> /\ phase = "parsing" /\ pending = <<>>
        /\ freed = {} /\ SInv
    BY InitSInv DEF AbsynInit
  <1>2. DOMAIN nodes = {} /\ DOMAIN stack = {} /\ DOMAIN pending = {}
    BY <1>1
  <1>3. AbsynTypeOK
    BY <1>1, <1>2 DEF AbsynTypeOK, SInv
  <1>4. AType
    BY <1>1, <1>3 DEF AType
  <1> QED
    BY <1>1, <1>2, <1>4 DEF AInv, Forest, OnStack

\* The parser gets a value that is not a node.
LEMMA PushInv ==
  ASSUME AInv, phase = "parsing", SInv', DOMAIN name_ \subseteq DOMAIN name_',
         NEW e \in Entry, ~IsNode(e), PointsAfter(e), Replace(0, e),
         UNCHANGED <<nodes, phase, pending, freed>>
  PROVE  AInv'
  <1>1. AType /\ Forest /\ OnStack /\ stack \in Seq(Entry) /\ Len(stack) \in Nat
    BY DEF AInv, AType
  <1>2. /\ stack' \in Seq(Entry) /\ Len(stack') = Len(stack) + 1
        /\ stack'[Len(stack')] = e
        /\ \A i \in 1..Len(stack) : stack'[i] = stack[i]
    BY <1>1, Replaced, 0 \in 0..Len(stack)
  <1>3. \A i \in DOMAIN stack' :
          (i \in DOMAIN stack /\ stack'[i] = stack[i]) \/ stack'[i] = e
    BY <1>1, <1>2
  <1>4. \A d : Points(d) => PointsAfter(d)
    BY PointsStays
  <1>5. AType'
    <2>1. (\A i \in DOMAIN stack : Points(stack[i]))'
      <3>1. \A i \in DOMAIN stack' : PointsAfter(stack'[i])
        BY <1>1, <1>3, <1>4, Entries
      <3> QED
        BY <3>1 DEF Points, PointsAfter
    <2>2. pending = <<>> /\ freed = {} /\ DOMAIN pending = {}
      BY <1>1 DEF OnStack
    <2>3. AbsynTypeOK'
      <3>1. \A k \in DOMAIN nodes :
              /\ nodes[k].class \in Class
              /\ \A j \in DOMAIN nodes[k].fields : PointsAfter(nodes[k].fields[j])
        BY <1>1, <1>4, Entries DEF Part
      <3>2. (\A k \in DOMAIN nodes :
               /\ nodes[k].class \in Class
               /\ \A j \in DOMAIN nodes[k].fields : Points(nodes[k].fields[j]))'
        BY <3>1 DEF Points, PointsAfter
      <3> QED
        BY <3>2, <2>1, <2>2 DEF AbsynTypeOK, SInv
    <2> QED
      BY <1>1, <1>2, <2>3 DEF AType
  <1>6. Forest'
    BY <1>1 DEF Forest, Part
  <1>7. OnStack'
    <2>1. \A i \in DOMAIN stack' :
            IsNode(stack'[i]) => i \in DOMAIN stack /\ stack'[i] = stack[i]
      BY <1>3
    <2>2. \A i \in DOMAIN stack : i \in DOMAIN stack' /\ stack'[i] = stack[i]
      BY <1>1, <1>2
    <2> QED
      BY <1>1, <2>1, <2>2 DEF OnStack, Part
  <1> QED
    BY <1>5, <1>6, <1>7 DEF AInv

\* A constructor: the node takes its parts off the stack and has the place of the last.
LEMMA MakeInv ==
  ASSUME AInv, phase = "parsing", NEW c \in Class, NEW k \in 0..Len(stack),
         Make(c, LastValues(k), k)
  PROVE  AInv'
  <1> DEFINE n == Len(nodes)
             args == LastValues(k)
             kept == Len(stack) - k
             e == [kind |-> Base(c), at |-> n + 1]
  <1>1. /\ AType /\ Forest /\ OnStack /\ stack \in Seq(Entry)
        /\ Len(stack) \in Nat /\ n \in Nat /\ DOMAIN nodes = 1..n
        /\ kept \in 0..Len(stack)
    BY Entries DEF AInv, AType
  <1>2. /\ args \in Seq(Entry) /\ DOMAIN args = 1..k
        /\ \A j \in 1..k : args[j] = stack[kept + j] /\ kept + j \in DOMAIN stack
    <2>1. /\ args \in Seq(Entry) /\ Len(args) = k
          /\ \A j \in 1..k : args[j] = stack[Len(stack) - k + j]
      BY <1>1, LastValuesAre
    <2>2. \A j \in 1..k : kept + j \in 1..Len(stack)
      BY <1>1
    <2> QED
      BY <2>1, <2>2, <1>1
  <1>3. e \in Entry /\ IsNode(e) /\ e.at = n + 1 /\ e.kind = Base(c)
    BY <1>1, Classes DEF Entry, IsNode
  <1>4. /\ nodes' = Append(nodes, [class |-> c, fields |-> args])
        /\ Replace(k, e)
        /\ UNCHANGED <<hashtable, name_, phase, pending, freed>>
    BY DEF Make
  <1> HIDE DEF args, e
  <1>5. /\ stack' \in Seq(Entry) /\ DOMAIN stack' = 1..(kept + 1)
        /\ stack'[kept + 1] = e
        /\ \A i \in 1..kept : stack'[i] = stack[i] /\ i \in DOMAIN stack
    BY <1>1, <1>3, <1>4, Replaced
  <1>6. /\ nodes' \in Seq([class : Class, fields : Seq(Entry)])
        /\ Len(nodes') = n + 1 /\ DOMAIN nodes' = 1..(n + 1)
        /\ \A m \in 1..n : nodes'[m] = nodes[m]
        /\ nodes'[n + 1] = [class |-> c, fields |-> args]
    <2> DEFINE R == [class : Class, fields : Seq(Entry)]
               r == [class |-> c, fields |-> args]
    <2>1. nodes \in Seq(R) /\ r \in R
      BY <1>1, <1>2 DEF AType
    <2> HIDE DEF R, r
    <2>2. /\ Append(nodes, r) \in Seq(R)
          /\ Len(Append(nodes, r)) = n + 1 /\ DOMAIN Append(nodes, r) = 1..(n + 1)
          /\ \A m \in 1..n : Append(nodes, r)[m] = nodes[m]
          /\ Append(nodes, r)[n + 1] = r
      BY <2>1, <1>1
    <2>3. nodes' = Append(nodes, r)
      BY <1>4 DEF r
    <2> QED
      BY <2>2, <2>3 DEF R, r
  <1>7. /\ nodes'[n + 1].class = c /\ nodes'[n + 1].fields = args
        /\ \A m \in DOMAIN nodes' : m \in DOMAIN nodes \/ m = n + 1
        /\ \A m \in DOMAIN nodes : m \in 1..n
        /\ \A i \in DOMAIN stack' : i \in 1..kept \/ i = kept + 1
    <2>1. \A m \in 1..(n + 1) : m \in 1..n \/ m = n + 1
      BY <1>1
    <2>2. \A i \in 1..(kept + 1) : i \in 1..kept \/ i = kept + 1
      BY <1>1
    <2> QED
      BY <1>1, <1>5, <1>6, <2>1, <2>2
  <1>8. \A i \in DOMAIN stack :
          IsNode(stack[i]) => stack[i].at \in 1..n
    BY <1>1, Entries, NodeEntries
  <1>9. \A m \in DOMAIN nodes : \A j \in DOMAIN nodes[m].fields :
          IsNode(Part(m, j)) => Part(m, j).at \in 1..n
    BY <1>1, Entries, NodeEntries
  <1>10. \A m \in 1..n : nodes'[m].fields = nodes[m].fields
    BY <1>6
  <1>11. AType'
    <2>1. /\ \A d : Points(d) => PointsAfter(d)
          /\ DOMAIN nodes \subseteq DOMAIN nodes'
      <3>1. /\ DOMAIN nodes \subseteq DOMAIN nodes'
            /\ \A m \in DOMAIN nodes : nodes'[m].class = nodes[m].class
        BY <1>1, <1>6
      <3> QED
        BY <3>1, <1>4, PointsStays
    <2>2. (\A m \in DOMAIN nodes :
             /\ nodes[m].class \in Class
             /\ \A j \in DOMAIN nodes[m].fields : Points(nodes[m].fields[j]))'
      <3>1. \A m \in 1..n : /\ nodes[m].class \in Class
                            /\ \A j \in DOMAIN nodes[m].fields : Points(nodes[m].fields[j])
        BY <1>1, Entries DEF Part
      <3>2. \A j \in 1..k : Points(args[j])
        BY <1>1, <1>2, Entries
      <3>3. \A m \in DOMAIN nodes' :
              /\ nodes'[m].class \in Class
              /\ \A j \in DOMAIN nodes'[m].fields : PointsAfter(nodes'[m].fields[j])
        BY <3>1, <3>2, <2>1, <1>2, <1>6, <1>7
      <3> QED
        BY <3>3 DEF Points, PointsAfter
    <2>3. (\A i \in DOMAIN stack : Points(stack[i]))'
      <3>1. \A i \in 1..kept : Points(stack[i])
        BY <1>1, <1>5, Entries
      <3>2. PointsAfter(e)
        BY <1>1, <1>3, <1>6, <1>7 DEF PointsAfter
      <3>3. \A i \in DOMAIN stack' : PointsAfter(stack'[i])
        BY <3>1, <3>2, <2>1, <1>5, <1>7
      <3> QED
        BY <3>3 DEF Points, PointsAfter
    <2>4. pending = <<>> /\ freed = {} /\ DOMAIN pending = {}
      BY <1>1 DEF OnStack
    <2>5. SymbolsTypeOK'
      BY <1>1, <1>4 DEF AType, AbsynTypeOK, SymbolsTypeOK
    <2>6. AbsynTypeOK'
      BY <1>4, <2>2, <2>3, <2>4, <2>5 DEF AbsynTypeOK
    <2> QED
      BY <1>1, <1>4, <1>5, <1>6, <2>6 DEF AType
  <1>12. Forest'
    <2>1. \A m \in 1..n : \A j \in DOMAIN nodes[m].fields :
            IsNode(Part(m, j)) => Part(m, j).at < m
      BY <1>1 DEF Forest
    <2>2. \A j \in 1..k : IsNode(args[j]) => args[j].at < n + 1
      BY <1>1, <1>2, <1>8
    <2>3. (\A m \in DOMAIN nodes : \A j \in DOMAIN nodes[m].fields :
             IsNode(Part(m, j)) => Part(m, j).at < m)'
      BY <2>1, <2>2, <1>2, <1>6, <1>7 DEF Part
    <2>4. \A m, l \in 1..n :
            \A i \in DOMAIN nodes[m].fields, j \in DOMAIN nodes[l].fields :
              IsNode(Part(m, i)) /\ IsNode(Part(l, j)) /\ Part(m, i).at = Part(l, j).at
              => m = l /\ i = j
      BY <1>1 DEF Forest
    <2>5. \A i, j \in 1..k : IsNode(args[i]) /\ IsNode(args[j]) /\ args[i].at = args[j].at
                             => i = j
      <3> SUFFICES ASSUME NEW i \in 1..k, NEW j \in 1..k, IsNode(args[i]), IsNode(args[j]),
                          args[i].at = args[j].at, i < j
                   PROVE  FALSE
        OBVIOUS
      <3>1. kept + i < kept + j
        BY <1>1
      <3>2. stack[kept + i].at < stack[kept + j].at
        BY <3>1, <1>1, <1>2 DEF OnStack
      <3>3. stack[kept + i].at \in Nat /\ stack[kept + j].at \in Nat
        BY <1>2, <1>8
      <3> QED
        BY <3>2, <3>3, <1>2
    <2>6. \A m \in 1..n : \A i \in DOMAIN nodes[m].fields : \A j \in 1..k :
            IsNode(Part(m, i)) /\ IsNode(args[j]) => Part(m, i).at # args[j].at
      BY <1>1, <1>2 DEF OnStack
    <2>7. (\A m, l \in DOMAIN nodes :
             \A i \in DOMAIN nodes[m].fields, j \in DOMAIN nodes[l].fields :
               IsNode(Part(m, i)) /\ IsNode(Part(l, j)) /\ Part(m, i).at = Part(l, j).at
               => m = l /\ i = j)'
      <3> SUFFICES ASSUME NEW m \in DOMAIN nodes', NEW l \in DOMAIN nodes',
                          NEW i \in DOMAIN nodes'[m].fields,
                          NEW j \in DOMAIN nodes'[l].fields,
                          IsNode(nodes'[m].fields[i]), IsNode(nodes'[l].fields[j]),
                          nodes'[m].fields[i].at = nodes'[l].fields[j].at
                   PROVE  m = l /\ i = j
        BY DEF Part
      <3>1. CASE m = n + 1 /\ l = n + 1
        BY <3>1, <2>5, <1>2, <1>7
      <3>2. CASE m = n + 1 /\ l \in 1..n
        <4>1. nodes'[m].fields = args /\ i \in 1..k
          BY <3>2, <1>2, <1>7
        <4>2. nodes'[l].fields = nodes[l].fields
          BY <3>2, <1>10
        <4> QED
          BY <4>1, <4>2, <3>2, <2>6 DEF Part
      <3>3. CASE m \in 1..n /\ l = n + 1
        <4>1. nodes'[l].fields = args /\ j \in 1..k
          BY <3>3, <1>2, <1>7
        <4>2. nodes'[m].fields = nodes[m].fields
          BY <3>3, <1>10
        <4> QED
          BY <4>1, <4>2, <3>3, <2>6 DEF Part
      <3>4. CASE m \in 1..n /\ l \in 1..n
        BY <3>4, <2>4, <1>10 DEF Part
      <3> QED
        BY <3>1, <3>2, <3>3, <3>4, <1>7
    <2> QED
      BY <2>3, <2>7 DEF Forest
  <1>13. OnStack'
    <2>1. \A i, j \in 1..kept : i < j /\ IsNode(stack[i]) /\ IsNode(stack[j])
                                => stack[i].at < stack[j].at
      BY <1>1, <1>5 DEF OnStack
    <2>2. \A i \in 1..kept : IsNode(stack[i]) => stack[i].at < n + 1
      BY <1>1, <1>5, <1>8
    <2>3. (\A i, j \in DOMAIN stack :
             i < j /\ IsNode(stack[i]) /\ IsNode(stack[j]) => stack[i].at < stack[j].at)'
      <3> SUFFICES ASSUME NEW i \in 1..(kept + 1), NEW j \in 1..(kept + 1), i < j,
                          IsNode(stack'[i]), IsNode(stack'[j])
                   PROVE  stack'[i].at < stack'[j].at
        BY <1>5
      <3>1. i \in 1..kept /\ (j \in 1..kept \/ j = kept + 1)
        BY <1>1
      <3> QED
        BY <3>1, <2>1, <2>2, <1>3, <1>5
    <2>4. \A i \in 1..kept : IsNode(stack[i]) =>
            /\ \A m \in 1..n : \A j \in DOMAIN nodes[m].fields :
                 IsNode(Part(m, j)) => Part(m, j).at # stack[i].at
            /\ \A j \in 1..k : IsNode(args[j]) => args[j].at # stack[i].at
      <3> SUFFICES ASSUME NEW i \in 1..kept, IsNode(stack[i])
                   PROVE  /\ \A m \in 1..n : \A j \in DOMAIN nodes[m].fields :
                               IsNode(Part(m, j)) => Part(m, j).at # stack[i].at
                          /\ \A j \in 1..k : IsNode(args[j]) => args[j].at # stack[i].at
        OBVIOUS
      <3>1. i \in DOMAIN stack /\ stack[i].at \in Nat
        BY <1>5, <1>8
      <3>2. \A m \in 1..n : \A j \in DOMAIN nodes[m].fields :
              IsNode(Part(m, j)) => Part(m, j).at # stack[i].at
        BY <3>1, <1>1 DEF OnStack
      <3>3. ASSUME NEW j \in 1..k, IsNode(args[j]) PROVE args[j].at # stack[i].at
        <4>1. i < kept + j /\ kept + j \in DOMAIN stack /\ args[j] = stack[kept + j]
          BY <1>1, <1>2
        <4>2. stack[i].at < stack[kept + j].at
          BY <4>1, <3>1, <3>3, <1>1 DEF OnStack
        <4> QED
          BY <4>1, <4>2, <3>1, <3>3, <1>8
      <3> QED
        BY <3>2, <3>3
    <2>5. \A m \in 1..n : \A j \in DOMAIN nodes[m].fields :
            IsNode(Part(m, j)) => Part(m, j).at # e.at
      BY <1>1, <1>3, <1>9
    <2>6. \A j \in 1..k : IsNode(args[j]) => args[j].at # e.at
      BY <1>1, <1>2, <1>3, <1>8
    <2>7. (\A i \in DOMAIN stack : IsNode(stack[i]) =>
             \A m \in DOMAIN nodes : \A j \in DOMAIN nodes[m].fields :
               IsNode(Part(m, j)) => Part(m, j).at # stack[i].at)'
      <3> SUFFICES ASSUME NEW i \in DOMAIN stack', IsNode(stack'[i]),
                          NEW m \in DOMAIN nodes', NEW j \in DOMAIN nodes'[m].fields,
                          IsNode(nodes'[m].fields[j])
                   PROVE  nodes'[m].fields[j].at # stack'[i].at
        BY DEF Part
      <3>1. CASE m \in 1..n
        <4>1. nodes'[m].fields = nodes[m].fields
          BY <3>1, <1>10
        <4>2. CASE i \in 1..kept
          BY <4>1, <4>2, <3>1, <2>4, <1>5 DEF Part
        <4>3. CASE i = kept + 1
          BY <4>1, <4>3, <3>1, <2>5, <1>5 DEF Part
        <4> QED
          BY <4>2, <4>3, <1>7
      <3>2. CASE m = n + 1
        <4>1. nodes'[m].fields = args /\ j \in 1..k
          BY <3>2, <1>2, <1>7
        <4>2. CASE i \in 1..kept
          BY <4>1, <4>2, <2>4, <1>5
        <4>3. CASE i = kept + 1
          BY <4>1, <4>3, <2>6, <1>5
        <4> QED
          BY <4>2, <4>3, <1>7
      <3> QED
        BY <3>1, <3>2, <1>7
    <2>8. kept + 1 \in DOMAIN stack' /\ IsNode(stack'[kept + 1])
          /\ stack'[kept + 1].at = Len(nodes')
      BY <1>1, <1>3, <1>5, <1>6
    <2> QED
      BY <2>3, <2>7, <2>8, <1>1, <1>4 DEF OnStack
  <1>14. SInv'
    BY <1>4 DEF AInv, SInv, SymbolsTypeOK, Linked, Distinct
  <1> QED
    BY <1>4, <1>11, <1>12, <1>13, <1>14 DEF AInv

\* l->Append(element): the element, made before the list, becomes its first part.
LEMMA AppendToInv ==
  ASSUME AInv, NEW l \in Class \intersect Lists, AppendTo(l)
  PROVE  AInv'
  <1> DEFINE n == Len(nodes)
             kept == Len(stack) - 2
             element == stack[kept + 1]
             list == stack[kept + 2]
             k == list.at
             old == nodes[k].fields
             new == << element >> \o old
  <1>1. /\ AType /\ Forest /\ OnStack /\ stack \in Seq(Entry)
        /\ Len(stack) \in Nat /\ n \in Nat /\ DOMAIN nodes = 1..n
        /\ kept \in 0..Len(stack) /\ 2 \in 0..Len(stack) /\ Len(stack) - 2 = kept
        /\ kept + 1 \in DOMAIN stack /\ kept + 2 \in DOMAIN stack
    BY Entries DEF AInv, AType, AppendTo
  <1>2. /\ list.kind = l /\ element.kind = ElementOf[l]
        /\ nodes' = [nodes EXCEPT ![k].fields = << element >> \o @]
        /\ Replace(2, list)
        /\ UNCHANGED <<hashtable, name_, phase, pending, freed>>
    <2>1. Len(stack) - 1 = kept + 1 /\ Len(stack) = kept + 2
      BY <1>1
    <2> QED
      BY <2>1 DEF AppendTo
  <1>3. IsNode(list) /\ IsNode(element)
    <2>1. ElementOf[l] \notin {"null", "Symbol"} /\ l \notin {"null", "Symbol"}
      BY DEF Lists, ElementOf
    <2> QED
      BY <1>2, <2>1 DEF IsNode
  <1>4. /\ list \in Entry /\ element \in Entry /\ Points(list) /\ Points(element)
        /\ k \in 1..n /\ element.at \in 1..n /\ element.at < k
    <2>1. list \in Entry /\ element \in Entry /\ Points(list) /\ Points(element)
      BY <1>1, Entries
    <2>2. k \in 1..n /\ element.at \in 1..n
      BY <2>1, <1>1, <1>3, NodeEntries
    <2>3. element.at < k
      BY <1>1, <1>3, kept + 1 < kept + 2 DEF OnStack
    <2> QED
      BY <2>1, <2>2, <2>3
  <1>5. /\ old \in Seq(Entry) /\ Len(old) \in Nat /\ DOMAIN old = 1..Len(old)
        /\ new \in Seq(Entry) /\ DOMAIN new = 1..(Len(old) + 1) /\ new[1] = element
        /\ \A p \in 1..Len(old) : new[p + 1] = old[p]
    <2>1. old \in Seq(Entry)
      BY <1>1, <1>4, Entries
    <2> HIDE DEF old, element
    <2>2. /\ new \in Seq(Entry) /\ Len(new) = Len(old) + 1 /\ new[1] = element
          /\ \A p \in 1..Len(old) : new[p + 1] = old[p]
      BY <2>1, <1>4, Pushed
    <2> QED
      BY <2>1, <2>2
  <1>6. /\ stack' \in Seq(Entry) /\ DOMAIN stack' = 1..(kept + 1)
        /\ stack'[kept + 1] = list
        /\ \A i \in 1..kept : stack'[i] = stack[i] /\ i \in DOMAIN stack
    BY SMTT(30), <1>1, <1>2, <1>4, Replaced
  <1>7. /\ Len(nodes') = n /\ DOMAIN nodes' = 1..n
        /\ \A m \in 1..n : nodes'[m].class = nodes[m].class
        /\ nodes'[k].fields = new
        /\ \A m \in 1..n : m # k => nodes'[m].fields = nodes[m].fields
        /\ nodes' \in Seq([class : Class, fields : Seq(Entry)])
    <2> DEFINE R == [class : Class, fields : Seq(Entry)]
               r == [class |-> nodes[k].class, fields |-> new]
    <2>1. nodes \in Seq(R) /\ nodes[k].class \in Class
      BY <1>1, <1>4, Entries DEF AType
    <2>2. r \in R
      BY <2>1, <1>5
    <2>3. nodes[k] \in R
      <3> HIDE DEF R
      <3> QED
        BY <2>1, <1>4, <1>1
    <2>4. nodes' = [nodes EXCEPT ![k] = r]
      <3>1. nodes[k] = [class |-> nodes[k].class, fields |-> old]
        BY <2>3
      <3>4. [nodes[k] EXCEPT !.fields = new] = r
        <4> HIDE DEF new, old, k
        <4> QED
          BY <3>1
      <3>3. nodes' = [nodes EXCEPT ![k] = [nodes[k] EXCEPT !.fields = new]]
        BY <1>2
      <3> QED
        BY <3>3, <3>4
    <2>5. r.class = nodes[k].class /\ r.fields = new
      OBVIOUS
    <2> HIDE DEF R, r, new
    <2>6. /\ nodes' \in Seq(R) /\ Len(nodes') = n /\ nodes'[k] = r
          /\ \A m \in 1..n : m # k => nodes'[m] = nodes[m]
      BY <2>1, <2>2, <2>4, <1>1, <1>4
    <2>7. DOMAIN nodes' = 1..n /\ nodes'[k].fields = new
      BY <2>5, <2>6
    <2>8. ASSUME NEW m \in 1..n
          PROVE  /\ nodes'[m].class = nodes[m].class
                 /\ m # k => nodes'[m].fields = nodes[m].fields
      BY <2>5, <2>6
    <2> QED
      BY <2>6, <2>7, <2>8 DEF R
  <1> HIDE DEF new
  <1>8. \A m \in DOMAIN nodes' : \A j \in DOMAIN nodes'[m].fields :
          \/ m = k /\ j = 1 /\ nodes'[m].fields[j] = element
          \/ /\ m = k /\ j - 1 \in DOMAIN nodes[m].fields /\ j # 1
             /\ nodes'[m].fields[j] = Part(m, j - 1)
          \/ /\ m # k /\ j \in DOMAIN nodes[m].fields
             /\ nodes'[m].fields[j] = Part(m, j)
    <2> SUFFICES ASSUME NEW m \in 1..n, NEW j \in DOMAIN nodes'[m].fields
                 PROVE  \/ m = k /\ j = 1 /\ nodes'[m].fields[j] = element
                        \/ /\ m = k /\ j - 1 \in DOMAIN nodes[m].fields /\ j # 1
                           /\ nodes'[m].fields[j] = Part(m, j - 1)
                        \/ /\ m # k /\ j \in DOMAIN nodes[m].fields
                           /\ nodes'[m].fields[j] = Part(m, j)
      BY <1>7
    <2>1. CASE m # k
      BY <2>1, <1>7 DEF Part
    <2>2. CASE m = k
      <3>1. nodes'[m].fields = new /\ nodes[m].fields = old /\ j \in 1..(Len(old) + 1)
        BY <2>2, <1>5, <1>7
      <3>2. j = 1 \/ (j # 1 /\ j - 1 \in 1..Len(old) /\ (j - 1) + 1 = j)
        BY SMTT(30), <3>1, <1>5
      <3> QED
        BY <2>2, <3>1, <3>2, <1>5 DEF Part
    <2> QED
      BY <2>1, <2>2
  <1>9. \A m \in 1..n : \A j \in DOMAIN nodes[m].fields :
          /\ Part(m, j) \in Entry /\ Points(Part(m, j))
          /\ IsNode(Part(m, j)) =>
               Part(m, j).at < m /\ Part(m, j).at # element.at /\ Part(m, j).at # k
    BY <1>1, <1>3, Entries DEF Forest, OnStack
  <1>10. AType'
    <2>1. \A d : Points(d) => PointsAfter(d)
      BY <1>1, <1>2, <1>7, PointsStays
    <2>2. (\A m \in DOMAIN nodes :
             /\ nodes[m].class \in Class
             /\ \A j \in DOMAIN nodes[m].fields : Points(nodes[m].fields[j]))'
      <3>1. \A m \in DOMAIN nodes' :
              /\ nodes'[m].class \in Class
              /\ \A j \in DOMAIN nodes'[m].fields : PointsAfter(nodes'[m].fields[j])
        <4>1. \A m \in DOMAIN nodes' : nodes'[m].class \in Class
          BY <1>1, <1>7, Entries
        <4>2. ASSUME NEW m \in DOMAIN nodes', NEW j \in DOMAIN nodes'[m].fields
              PROVE  PointsAfter(nodes'[m].fields[j])
          <5>1. Points(nodes'[m].fields[j])
            BY SMTT(30), <1>4, <1>7, <1>8, <1>9
          <5> QED
            BY <5>1, <2>1
        <4> QED
          BY <4>1, <4>2
      <3> QED
        BY <3>1 DEF Points, PointsAfter
    <2>3. (\A i \in DOMAIN stack : Points(stack[i]))'
      <3>1. \A i \in 1..(kept + 1) : i \in 1..kept \/ i = kept + 1
        BY <1>1
      <3>2. \A i \in DOMAIN stack' : Points(stack'[i])
        BY <3>1, <1>1, <1>4, <1>6, Entries
      <3>3. \A i \in DOMAIN stack' : PointsAfter(stack'[i])
        BY <3>2, <2>1
      <3> QED
        BY <3>3 DEF Points, PointsAfter
    <2>4. pending = <<>> /\ freed = {} /\ DOMAIN pending = {}
      BY <1>1 DEF OnStack
    <2>5. SymbolsTypeOK'
      BY <1>1, <1>2 DEF AType, AbsynTypeOK, SymbolsTypeOK
    <2>6. AbsynTypeOK'
      BY <1>1, <1>2, <2>2, <2>3, <2>4, <2>5 DEF AType, AbsynTypeOK
    <2> QED
      BY <1>1, <1>2, <1>6, <1>7, <2>6 DEF AType
  <1>11. Forest'
    <2>1. \A m \in DOMAIN nodes' : \A j \in DOMAIN nodes'[m].fields :
            IsNode(nodes'[m].fields[j]) => nodes'[m].fields[j].at < m
      BY ZenonT(60), <1>4, <1>7, <1>8, <1>9
    <2>2. ASSUME NEW m \in DOMAIN nodes', NEW h \in DOMAIN nodes',
                 NEW i \in DOMAIN nodes'[m].fields, NEW j \in DOMAIN nodes'[h].fields,
                 IsNode(nodes'[m].fields[i]), IsNode(nodes'[h].fields[j]),
                 nodes'[m].fields[i].at = nodes'[h].fields[j].at
          PROVE  m = h /\ i = j
      <3> DEFINE i0 == IF m = k THEN i - 1 ELSE i
                 j0 == IF h = k THEN j - 1 ELSE j
      <3>1. \/ m = k /\ i = 1 /\ nodes'[m].fields[i] = element
            \/ i0 \in DOMAIN nodes[m].fields /\ nodes'[m].fields[i] = Part(m, i0)
        BY <1>8
      <3>2. \/ h = k /\ j = 1 /\ nodes'[h].fields[j] = element
            \/ j0 \in DOMAIN nodes[h].fields /\ nodes'[h].fields[j] = Part(h, j0)
        BY <1>8
      <3>3. m \in 1..n /\ h \in 1..n /\ i \in Nat /\ j \in Nat
        <4>1. \A g \in 1..n : nodes'[g].fields \in Seq(Entry)
          BY <1>1, <1>5, <1>7, Entries
        <4> QED
          BY SMTT(30), <4>1, <1>7
      <3>4. CASE nodes'[m].fields[i] = element \/ nodes'[h].fields[j] = element
        BY <2>2, <3>1, <3>2, <3>3, <3>4, <1>9
      <3>5. CASE /\ i0 \in DOMAIN nodes[m].fields /\ nodes'[m].fields[i] = Part(m, i0)
                 /\ j0 \in DOMAIN nodes[h].fields /\ nodes'[h].fields[j] = Part(h, j0)
        <4>1. m = h /\ i0 = j0
          BY <2>2, <3>3, <3>5, <1>1 DEF Forest
        <4> QED
          BY <4>1, <3>3
      <3> QED
        BY <3>1, <3>2, <3>4, <3>5
    <2> QED
      BY <2>1, <2>2 DEF Forest, Part
  <1>12. OnStack'
    <2>1. \A i \in 1..(kept + 1) : i \in 1..kept \/ i = kept + 1
      BY <1>1
    <2>2. ASSUME NEW i \in DOMAIN stack', NEW j \in DOMAIN stack', i < j,
                 IsNode(stack'[i]), IsNode(stack'[j])
          PROVE  stack'[i].at < stack'[j].at
      <3>1. i \in 1..kept /\ (j \in 1..kept \/ j = kept + 1)
        BY <1>1, <1>6, <2>2
      <3>2. CASE j \in 1..kept
        BY <2>2, <3>1, <3>2, <1>1, <1>6 DEF OnStack
      <3>3. CASE j = kept + 1
        <4>1. i < kept + 2
          BY <3>1, <1>1
        <4> QED
          BY <2>2, <3>1, <3>3, <4>1, <1>1, <1>3, <1>6 DEF OnStack
      <3> QED
        BY <3>1, <3>2, <3>3
    <2>3. ASSUME NEW i \in DOMAIN stack', IsNode(stack'[i]),
                 NEW m \in DOMAIN nodes', NEW j \in DOMAIN nodes'[m].fields,
                 IsNode(nodes'[m].fields[j])
          PROVE  nodes'[m].fields[j].at # stack'[i].at
      <3>1. \A g \in 1..n : \A h \in DOMAIN nodes[g].fields :
              IsNode(Part(g, h)) => Part(g, h).at # stack'[i].at
        <4>1. CASE i \in 1..kept
          BY <2>3, <4>1, <1>1, <1>6 DEF OnStack
        <4>2. CASE i = kept + 1
          BY <4>2, <1>6, <1>9
        <4> QED
          BY <4>1, <4>2, <2>1, <1>6
      <3>2. element.at # stack'[i].at
        <4>1. CASE i \in 1..kept
          <5>1. i < kept + 1 /\ i \in DOMAIN stack /\ stack'[i] = stack[i]
            BY <4>1, <1>1, <1>6
          <5>2. stack[i].at < element.at
            BY <5>1, <2>3, <1>1, <1>3 DEF OnStack
          <5>3. stack[i].at \in Nat
            BY <5>1, <1>1, Entries DEF Entry
          <5> QED
            BY <5>1, <5>2, <5>3, <1>4
        <4>2. CASE i = kept + 1
          BY <4>2, <1>4, <1>6
        <4> QED
          BY <4>1, <4>2, <2>1, <1>6
      <3>3. m \in 1..n
        BY <1>7
      <3>4. \/ nodes'[m].fields[j] = element
            \/ \E h \in DOMAIN nodes[m].fields : nodes'[m].fields[j] = Part(m, h)
        BY <1>8
      <3> QED
        BY <3>1, <3>2, <3>3, <3>4, <2>3
    <2>4. \E i \in DOMAIN stack' : IsNode(stack'[i]) /\ stack'[i].at = Len(nodes')
      <3>1. nodes # <<>>
        BY <1>1, <1>4
      <3>2. PICK i \in DOMAIN stack : IsNode(stack[i]) /\ stack[i].at = n
        BY <3>1, <1>1 DEF OnStack
      <3>3. i \in 1..kept \/ i = kept + 1 \/ i = kept + 2
        BY <1>1
      <3>4. i # kept + 1
        BY <3>2, <1>4
      <3>5. kept + 1 \in DOMAIN stack' /\ \A j \in 1..kept : j \in DOMAIN stack'
        BY <1>1, <1>6
      <3> QED
        BY <3>2, <3>3, <3>4, <3>5, <1>6, <1>7
    <2> QED
      BY <2>2, <2>3, <2>4, <1>1, <1>2 DEF OnStack, Part
  <1>13. SInv'
    BY <1>2 DEF AInv, SInv, SymbolsTypeOK, Linked, Distinct
  <1> QED
    BY <1>2, <1>10, <1>11, <1>12, <1>13 DEF AInv, AppendTo

\* The end of main: the one value of the parser is the root, to be deleted.
LEMMA DestroyInv ==
  ASSUME AInv, Destroy
  PROVE  AInv'
  <1>1. /\ AType /\ OnStack /\ stack \in Seq(Entry) /\ DOMAIN stack = {1}
        /\ stack[1].kind = "Exp" /\ IsNode(stack[1])
        /\ stack[1] \in Entry /\ Points(stack[1])
        /\ Len(nodes) \in Nat /\ DOMAIN nodes = 1..Len(nodes)
    <2>1. AType /\ OnStack /\ stack \in Seq(Entry) /\ Len(stack) = 1
      BY DEF AInv, AType, Destroy
    <2>2. DOMAIN stack = {1}
      BY <2>1
    <2> QED
      BY <2>1, <2>2, Entries DEF Destroy, IsNode
  <1>2. /\ phase = "parsing" /\ phase' = "deleting" /\ pending' = stack /\ stack' = <<>>
        /\ UNCHANGED <<hashtable, name_, nodes, freed>>
        /\ DOMAIN stack' = {}
    BY DEF Destroy
  <1>3. stack[1].at \in DOMAIN nodes /\ nodes # <<>> /\ Len(nodes) \in DOMAIN nodes
    <2>1. stack[1].at \in DOMAIN nodes
      BY <1>1, NodeEntries
    <2> QED
      BY <2>1, <1>1
  <1>4. stack[1].at = Len(nodes)
    BY <1>1, <1>3 DEF OnStack
  <1>5. stack[1] = Root
    BY <1>1, <1>4 DEF Entry, Root
  <1>6. AType'
    <2>1. AbsynTypeOK'
      BY <1>1, <1>2 DEF AType, AbsynTypeOK, Points, SymbolsTypeOK
    <2> QED
      BY <2>1, <1>1, <1>2 DEF AType
  <1>7. Forest' /\ SInv'
    BY <1>2 DEF AInv, Forest, Part, SInv, SymbolsTypeOK, Linked, Distinct
  <1>8. Owed'
    <2>1. FreedAt' = {} /\ PendingAt' = {Len(nodes)}
      BY <1>1, <1>2, <1>4 DEF OnStack, FreedAt, PendingAt
    <2>2. Len(nodes) \in Owned'
      BY <1>2, <1>3 DEF Owned
    <2>3. ASSUME NEW e \in Entry
          PROVE  /\ Tokens(e)' = {p \in {1} : e = Root}
                 /\ Given(e)' = {z \in {<<0, 1>>} : e = Root}
      <3>1. freed' = {}
        BY <1>1, <1>2 DEF OnStack
      <3>2. Tokens(e)' = {p \in {1} : e = Root}
        BY <3>1, <1>1, <1>2, <1>5 DEF Tokens
      <3>3. Given(e)' = {z \in {<<0, 1>>} : e = Root}
        <4>1. \A x : x \in Given(e)' <=> x = <<0, 1>> /\ e = Root
          BY <2>1, <1>2 DEF Given, Root
        <4> QED
          BY <4>1
      <3> QED
        BY <3>2, <3>3
    <2>4. \A e \in Entry : /\ Tokens(e)' = {} <=> Given(e)' = {}
                           /\ ~Two(Tokens(e)') /\ ~Two(Given(e)')
      BY <2>3 DEF Two
    <2>5. \A e \in Entry : e # Null =>
            /\ Tokens(e)' = {} <=> Given(e)' = {}
            /\ Two(Tokens(e)') <=> Two(Given(e)')
      BY <2>4
    <2>6. Root' \in Entry /\ Points(Root)'
      BY <1>1, <1>2, <1>5 DEF Root, Points
    <2> QED
      BY <2>1, <2>2, <2>5, <2>6, <1>2 DEF Owed
  <1> QED
    BY <1>2, <1>6, <1>7, <1>8 DEF AInv

-----------------------------------------------------------------------------
(* Deleting *)

\* X holds N and, apart from it, an image of each member of T.
Splits(X, N, T, f) ==
  /\ \A p \in T : f[p] \in X /\ f[p] \notin N
  /\ \A x \in N : x \in X
  /\ \A x \in X : x \in N \/ \E p \in T : x = f[p]
  /\ \A p, q \in T : f[p] = f[q] => p = q

LEMMA Transfer ==
  ASSUME NEW T, NEW N, NEW X, NEW f, Splits(X, N, T, f)
  PROVE  /\ X = {} <=> T = {} /\ N = {}
         /\ Two(X) <=> Two(T) \/ Two(N) \/ (T # {} /\ N # {})
  <1>1. X = {} <=> T = {} /\ N = {}
    BY DEF Splits
  <1>2. Two(X) => Two(T) \/ Two(N) \/ (T # {} /\ N # {})
    BY DEF Splits, Two
  <1>3. Two(T) => Two(X)
    BY DEF Splits, Two
  <1>4. Two(N) => Two(X)
    BY DEF Splits, Two
  <1>5. T # {} /\ N # {} => Two(X)
    BY DEF Splits, Two
  <1> QED
    BY <1>1, <1>2, <1>3, <1>4, <1>5

\* What is deleted by a node of the tree is the tree's.
LEMMA OwnedParts ==
  ASSUME AType, NEW k \in Owned, nodes[k].class \in Owners
  PROVE  k \in DOMAIN nodes /\ Below(k) \subseteq Owned
  <1>1. k \in DOMAIN nodes
    BY DEF Owned
  <1>2. nodes[k].class \notin Keepers
    BY <1>1, Entries, Classes
  <1>3. Below(k) \subseteq DOMAIN nodes
    <2>1. ASSUME NEW j \in DOMAIN nodes[k].fields,
                 nodes[k].fields[j].kind \notin {"null", "Symbol"}
          PROVE  nodes[k].fields[j].at \in DOMAIN nodes
      BY <1>1, <2>1, Entries, NodeEntries DEF IsNode, Part
    <2> QED
      BY <2>1 DEF Below
  <1>4. ASSUME NEW b \in Below(k), NEW S \in SUBSET DOMAIN nodes, Len(nodes) \in S, Closed(S)
        PROVE  b \in S
    <2>1. k \in S
      BY <1>4 DEF Owned
    <2> QED
      BY <1>2, <1>4, <2>1 DEF Closed
  <1> QED
    BY <1>1, <1>3, <1>4 DEF Owned

\* The members of Given(e).
LEMMA GivenAre ==
  ASSUME NEW e
  PROVE  \A x : x \in Given(e) <=>
           \/ /\ e = Root
              /\ x = <<0, 1>>
           \/ \E k \in FreedAt : \E j \in DOMAIN nodes[k].fields :
                nodes[k].class \in Owners /\ Part(k, j) = e /\ x = <<k, j>>
  BY DEF Given

\* A node is given once: it is no part of two nodes, and the root is none's.
LEMMA NodesGivenOnce ==
  ASSUME AType, Forest, FreedAt \subseteq DOMAIN nodes, NEW e \in Entry, Points(e), IsNode(e)
  PROVE  ~Two(Given(e))
  <1> SUFFICES ASSUME NEW x \in Given(e), NEW y \in Given(e)
               PROVE  x = y
    BY DEF Two
  <1>1. ASSUME e = Root, NEW k \in FreedAt, NEW j \in DOMAIN nodes[k].fields, Part(k, j) = e
        PROVE  FALSE
    <2>1. k \in 1..Len(nodes) /\ Len(nodes) \in Nat
      BY <1>1, Entries
    <2>2. Len(nodes) < k
      BY <1>1 DEF Forest, Root
    <2> QED
      BY <2>1, <2>2
  <1>2. \A k, l \in FreedAt : \A i \in DOMAIN nodes[k].fields, j \in DOMAIN nodes[l].fields :
          Part(k, i) = e /\ Part(l, j) = e => k = l /\ i = j
    BY DEF Forest
  <1> QED
    BY <1>1, <1>2, GivenAre

\* The nodes freed are the root and what the freed owners own, once nothing waits.
LEMMA FreedIsOwned ==
  ASSUME AType, Owed, phase = "done"
  PROVE  /\ FreedAt = Owned
         /\ \A e \in Entry : e # Null => (e \in freed <=> Given(e) # {}) /\ ~Two(Given(e))
  <1>1. pending = <<>> /\ DOMAIN pending = {}
    BY DEF Owed
  <1>2. ASSUME NEW e \in Entry
        PROVE  (e \in freed <=> Tokens(e) # {}) /\ ~Two(Tokens(e))
    <2>1. Tokens(e) = {z \in {0} : e \in freed}
      BY <1>1 DEF Tokens
    <2> QED
      BY <2>1 DEF Two
  <1>3. \A e \in Entry : e # Null => (e \in freed <=> Given(e) # {}) /\ ~Two(Given(e))
    BY <1>2 DEF Owed
  <1>4. FreedAt \subseteq Owned /\ Owned \subseteq DOMAIN nodes
    BY DEF Owed, Owned
  <1>5. Len(nodes) \in FreedAt
    <2>1. Given(Root) # {}
      BY GivenAre
    <2>2. Root \in Entry /\ Root # Null /\ IsNode(Root) /\ Root.at = Len(nodes)
      BY DEF Owed, Root, Null, IsNode
    <2>3. Root \in freed
      BY <2>1, <2>2, <1>3
    <2> QED
      BY <2>2, <2>3 DEF FreedAt
  <1>6. Closed(FreedAt)
    <2> SUFFICES ASSUME NEW k \in FreedAt, nodes[k].class \notin Keepers,
                        NEW j \in DOMAIN nodes[k].fields, IsNode(Part(k, j))
                 PROVE  Part(k, j).at \in FreedAt
      BY DEF Closed, Below, IsNode, Part
    <2>1. k \in DOMAIN nodes /\ nodes[k].class \in Owners
      BY <1>4, Entries, Classes
    <2>2. Part(k, j) \in Entry /\ Part(k, j) # Null
      BY <2>1, Entries, NullEntry
    <2>3. <<k, j>> \in Given(Part(k, j))
      BY <2>1, GivenAre
    <2>4. Part(k, j) \in freed
      BY <2>2, <2>3, <1>3
    <2> QED
      BY <2>4 DEF FreedAt
  <1>7. Owned \subseteq FreedAt
    <2>1. FreedAt \in SUBSET DOMAIN nodes
      BY <1>4
    <2> QED
      BY <2>1, <1>5, <1>6 DEF Owned
  <1> QED
    BY <1>3, <1>4, <1>7

\* What waits after a delete: the pointers of the node, then the rest.
LEMMA PendingAfter ==
  ASSUME NEW D \in Seq(Entry), pending \in Seq(Entry), pending # <<>>,
         pending' = D \o Tail(pending)
  PROVE  /\ pending' \in Seq(Entry)
         /\ \A j \in 1..Len(D) : j \in DOMAIN pending' /\ pending'[j] = D[j]
         /\ \A p \in DOMAIN pending : p # 1 =>
              p - 1 + Len(D) \in DOMAIN pending' /\ pending'[p - 1 + Len(D)] = pending[p]
         /\ \A q \in DOMAIN pending' :
              \/ q \in 1..Len(D)
              \/ \E p \in DOMAIN pending : p # 1 /\ q = p - 1 + Len(D)
  <1> DEFINE n == Len(D)
             t == Tail(pending)
  <1>1. /\ n \in Nat /\ Len(pending) \in Nat /\ Len(pending) >= 1
        /\ DOMAIN pending = 1..Len(pending)
    OBVIOUS
  <1>2. /\ t \in Seq(Entry) /\ Len(t) = Len(pending) - 1
        /\ \A p \in 1..Len(t) : t[p] = pending[p + 1]
    BY <1>1
  <1> HIDE DEF t
  <1>3. /\ D \o t \in Seq(Entry) /\ DOMAIN (D \o t) = 1..(n + Len(t))
        /\ \A j \in 1..n : (D \o t)[j] = D[j]
        /\ \A p \in 1..Len(t) : (D \o t)[p + n] = t[p]
    BY <1>1, <1>2
  <1>4. ASSUME NEW p \in DOMAIN pending, p # 1
        PROVE  /\ p - 1 + n \in 1..(n + Len(t))
               /\ (D \o t)[p - 1 + n] = pending[p]
    <2>1. p - 1 \in 1..Len(t) /\ (p - 1) + 1 = p
      BY <1>1, <1>2, <1>4
    <2>2. t[p - 1] = pending[p]
      BY <2>1, <1>2
    <2> QED
      BY SMTT(30), <2>1, <2>2, <1>1, <1>2, <1>3
  <1>5. ASSUME NEW q \in 1..(n + Len(t)), q \notin 1..n
        PROVE  \E p \in DOMAIN pending : p # 1 /\ q = p - 1 + n
    <2>1. q - n + 1 \in 1..Len(pending) /\ q - n + 1 # 1 /\ q = (q - n + 1) - 1 + n
      BY <1>1, <1>2, <1>5
    <2> QED
      BY <2>1, <1>1
  <1>6. \A j \in 1..n : j \in 1..(n + Len(t))
    BY <1>1, <1>2
  <1> QED
    BY <1>3, <1>4, <1>5, <1>6 DEF t

\* A delete: what the node owns is owed a delete each, and what was owed is still.
LEMMA DeleteInv ==
  ASSUME AInv, Delete
  PROVE  AInv'
  <1> DEFINE e0 == pending[1]
             k0 == e0.at
             D == Deletes(e0)
             n == Len(D)
  <1>1. /\ SInv /\ AType /\ Forest /\ Owed /\ phase = "deleting"
        /\ pending \in Seq(Entry) /\ pending # <<>> /\ e0 \notin freed
        /\ pending' = D \o Tail(pending)
        /\ freed' = IF e0 = Null THEN freed ELSE freed \union {e0}
        /\ UNCHANGED <<hashtable, name_, nodes, stack, phase>>
    BY DEF AInv, AType, Delete
  <1>2. 1 \in DOMAIN pending /\ e0 \in Entry /\ Points(e0)
    <2>1. 1 \in DOMAIN pending
      BY <1>1
    <2> QED
      BY <2>1, <1>1, Entries
  <1>3. /\ IsNode(e0) => k0 \in DOMAIN nodes /\ k0 \notin FreedAt /\ e0 # Null
        /\ ~IsNode(e0) <=> e0.kind = "Symbol" \/ e0 = Null
    <2>1. IsNode(e0) => k0 \in DOMAIN nodes /\ e0 # Null
      BY <1>1, <1>2, NodeEntries, NullEntry
    <2>2. ASSUME IsNode(e0), k0 \in FreedAt PROVE FALSE
      <3>1. PICK d \in freed : IsNode(d) /\ d.at = k0
        BY <2>2 DEF FreedAt
      <3>2. d \in Entry /\ Points(d)
        BY <1>1, Entries
      <3>3. d = e0
        BY <3>1, <3>2, <2>2, <1>1, <1>2, SameNode
      <3> QED
        BY <3>3, <1>1
    <2>3. ~IsNode(e0) <=> e0.kind = "Symbol" \/ e0 = Null
      BY <1>1, <1>2, NodeEntries, NullEntry DEF IsNode
    <2> QED
      BY <2>1, <2>2, <2>3
  <1>4. \/ D = <<>> /\ (~IsNode(e0) \/ nodes[k0].class \notin Owners)
        \/ D = nodes[k0].fields /\ IsNode(e0) /\ nodes[k0].class \in Owners
    BY <1>3 DEF Deletes
  <1> HIDE DEF D
  <1>5. /\ D \in Seq(Entry) /\ n \in Nat /\ DOMAIN D = 1..n
        /\ \A j \in 1..n : /\ D[j] \in Entry /\ Points(D[j])
                           /\ IsNode(e0) /\ nodes[k0].class \in Owners
                           /\ j \in DOMAIN nodes[k0].fields /\ D[j] = Part(k0, j)
    <2>1. CASE D = <<>>
      BY <2>1
    <2>2. CASE D = nodes[k0].fields /\ IsNode(e0) /\ nodes[k0].class \in Owners
      <3>1. k0 \in DOMAIN nodes
        BY <2>2, <1>3
      <3>2. D \in Seq(Entry) /\ \A j \in DOMAIN D : D[j] = Part(k0, j) /\ Points(D[j])
        BY <3>1, <2>2, <1>1, Entries DEF Part
      <3>3. n \in Nat /\ DOMAIN D = 1..n /\ \A j \in 1..n : D[j] \in Entry
        BY <3>2
      <3> QED
        BY <3>2, <3>3, <2>2
    <2> QED
      BY <2>1, <2>2, <1>4
  <1>6. /\ pending' \in Seq(Entry)
        /\ \A j \in 1..n : j \in DOMAIN pending' /\ pending'[j] = D[j]
        /\ \A p \in DOMAIN pending : p # 1 =>
             p - 1 + n \in DOMAIN pending' /\ pending'[p - 1 + n] = pending[p]
        /\ \A q \in DOMAIN pending' :
             q \in 1..n \/ \E p \in DOMAIN pending : p # 1 /\ q = p - 1 + n
    BY <1>1, <1>5, PendingAfter
  <1>7. \A q \in DOMAIN pending' :
          \/ q \in 1..n /\ pending'[q] = D[q]
          \/ \E p \in DOMAIN pending : p # 1 /\ q = p - 1 + n /\ pending'[q] = pending[p]
    BY <1>6
  <1>8. FreedAt' = IF IsNode(e0) THEN FreedAt \union {k0} ELSE FreedAt
    BY <1>1, <1>3 DEF FreedAt
  <1>9. AType'
    <2>1. \A q \in DOMAIN pending' : Points(pending'[q])
      BY <1>1, <1>5, <1>7, Entries
    <2>2. \A e \in freed' : e \in Entry /\ Points(e) /\ e # Null
      BY <1>1, <1>2, Entries
    <2>3. \A e : Points(e) => PointsAfter(e)
      BY <1>1, PointsStays
    <2>4. (\A q \in DOMAIN pending : Points(pending[q]))'
      <3>1. \A q \in DOMAIN pending' : PointsAfter(pending'[q])
        BY <2>1, <2>3
      <3> QED
        BY <3>1 DEF Points, PointsAfter
    <2>5. (\A e \in freed : Points(e) /\ e # Null)'
      <3>1. \A e \in freed' : PointsAfter(e)
        BY <2>2, <2>3
      <3> QED
        BY <3>1, <2>2 DEF Points, PointsAfter
    <2>6. (/\ SymbolsTypeOK
           /\ \A k \in DOMAIN nodes :
                /\ nodes[k].class \in Class
                /\ \A j \in DOMAIN nodes[k].fields : Points(nodes[k].fields[j])
           /\ \A j \in DOMAIN stack : Points(stack[j]))'
      BY <1>1 DEF AType, AbsynTypeOK, Points, SymbolsTypeOK
    <2>7. AbsynTypeOK'
      BY <2>4, <2>5, <2>6, <1>1 DEF AbsynTypeOK
    <2> QED
      BY <2>2, <2>7, <1>1, <1>6 DEF AType
  <1>10. Forest' /\ SInv'
    BY <1>1 DEF Forest, Part, SInv, SymbolsTypeOK, Linked, Distinct
  <1>11. FreedAt' \union PendingAt' \subseteq Owned'
    <2>1. Owned' = Owned
      BY <1>1 DEF Owned, Closed, Below
    <2>2. IsNode(e0) => k0 \in Owned
      BY <1>1, <1>2 DEF Owed, PendingAt
    <2>3. FreedAt' \subseteq Owned
      BY <2>2, <1>1, <1>8 DEF Owed
    <2>4. ASSUME NEW q \in DOMAIN pending', IsNode(pending'[q])
          PROVE  pending'[q].at \in Owned
      <3>1. CASE q \in 1..n /\ pending'[q] = D[q]
        <4>1. k0 \in Owned /\ nodes[k0].class \in Owners
          BY <3>1, <1>5, <2>2
        <4>2. pending'[q].at \in Below(k0)
          BY <3>1, <2>4, <1>5 DEF Below, IsNode, Part
        <4> QED
          BY <4>1, <4>2, <1>1, OwnedParts
      <3>2. CASE \E p \in DOMAIN pending : pending'[q] = pending[p]
        BY <3>2, <2>4, <1>1 DEF Owed, PendingAt
      <3> QED
        BY <3>1, <3>2, <1>7
    <2>5. PendingAt' \subseteq Owned
      BY <2>4 DEF PendingAt
    <2> QED
      BY <2>1, <2>3, <2>5
  <1>12. ASSUME NEW e \in Entry, e # Null
         PROVE  /\ Tokens(e)' = {} <=> Given(e)' = {}
                /\ Two(Tokens(e)') <=> Two(Given(e)')
    <2> DEFINE N == {j \in 1..n : D[j] = e}
               M == {<<k0, j>> : j \in N}
               T == Tokens(e)
               G == Given(e)
               f == [p \in T |-> IF p \in {0, 1} THEN 0 ELSE p - 1 + n]
               g == [x \in G |-> x]
               h == [j \in N |-> <<k0, j>>]
    <2>1. /\ M = {} <=> N = {}
          /\ Two(M) <=> Two(N)
      <3>1. Splits(M, {}, N, h)
        BY DEF Splits
      <3> HIDE DEF N, M, h
      <3>2. /\ M = {} <=> N = {} /\ {} = {}
            /\ Two(M) <=> Two(N) \/ Two({}) \/ (N # {} /\ {} # {})
        BY <3>1, Transfer
      <3> QED
        BY <3>2 DEF Two
    <2>2. \A x : x \in Given(e)' <=> x \in G \/ x \in M
      <3>1. \A x : x \in Given(e)' <=>
              \/ e = Root /\ x = <<0, 1>>
              \/ \E k \in FreedAt' : \E j \in DOMAIN nodes[k].fields :
                   nodes[k].class \in Owners /\ Part(k, j) = e /\ x = <<k, j>>
        BY <1>1 DEF Given, Root, Part
      <3>2. \A x : x \in M <=>
              /\ IsNode(e0)
              /\ \E j \in DOMAIN nodes[k0].fields :
                   nodes[k0].class \in Owners /\ Part(k0, j) = e /\ x = <<k0, j>>
        <4>1. \A x : x \in M <=> \E j \in 1..n : D[j] = e /\ x = <<k0, j>>
          OBVIOUS
        <4>2. CASE D = <<>> /\ (~IsNode(e0) \/ nodes[k0].class \notin Owners)
          <5>1. n = 0 /\ 1..n = {}
            BY <4>2
          <5> QED
            BY <4>1, <4>2, <5>1
        <4>3. CASE D = nodes[k0].fields /\ IsNode(e0) /\ nodes[k0].class \in Owners
          BY <4>1, <4>3, <1>5 DEF Part
        <4> QED
          BY <4>2, <4>3, <1>4
      <3> QED
        BY <3>1, <3>2, <1>8, GivenAre
    <2>3. \A x \in G : x \notin M
      <3>1. \A j \in 1..n : IsNode(e0)
        BY <1>5
      <3>2. k0 \in Nat /\ (IsNode(e0) => k0 # 0)
        BY <1>1, <1>2, <1>3, Entries DEF Entry
      <3> QED
        BY <3>1, <3>2, <1>3, GivenAre
    <2>4. /\ Given(e)' = {} <=> G = {} /\ M = {}
          /\ Two(Given(e)') <=> Two(G) \/ Two(M) \/ (G # {} /\ M # {})
      <3> DEFINE X == Given(e)'
      <3>1. Splits(X, M, G, g)
        BY <2>2, <2>3 DEF Splits
      <3> HIDE DEF M, G, X, g
      <3>2. /\ X = {} <=> G = {} /\ M = {}
            /\ Two(X) <=> Two(G) \/ Two(M) \/ (G # {} /\ M # {})
        BY <3>1, Transfer
      <3> QED
        BY <3>2 DEF X
    <2>5. \A x : x \in Tokens(e)' <=>
            \/ x = 0 /\ (e \in freed \/ e = e0)
            \/ x \in DOMAIN pending' /\ pending'[x] = e
      BY <1>1, <1>12 DEF Tokens
    <2>6. \A x : x \in T <=>
            \/ x = 0 /\ e \in freed
            \/ x \in DOMAIN pending /\ pending[x] = e
      BY DEF Tokens
    <2>7. \A p \in DOMAIN pending : p \in Nat /\ p # 0
      BY <1>1
    <2>8. /\ Tokens(e)' = {} <=> T = {} /\ N = {}
          /\ Two(Tokens(e)') <=> Two(T) \/ Two(N) \/ (T # {} /\ N # {})
      <3> DEFINE X == Tokens(e)'
      <3>1. \A p \in T : f[p] \in X /\ f[p] \notin N
        <4> SUFFICES ASSUME NEW p \in T PROVE f[p] \in X /\ f[p] \notin N
          OBVIOUS
        <4>1. CASE p \in {0, 1}
          <5>1. f[p] = 0
            BY <4>1
          <5>2. e \in freed \/ e = e0
            BY <4>1, <2>6, <2>7
          <5> QED
            BY <5>1, <5>2, <2>5, <1>5
        <4>2. CASE p \notin {0, 1}
          <5>1. f[p] = p - 1 + n /\ p \in DOMAIN pending /\ pending[p] = e
            BY <4>2, <2>6
          <5>2. p - 1 + n \in DOMAIN pending' /\ pending'[p - 1 + n] = e
            BY <4>2, <5>1, <1>6
          <5>3. p - 1 + n \notin 1..n
            BY <4>2, <5>1, <2>7, <1>5
          <5> QED
            BY <5>1, <5>2, <5>3, <2>5
        <4> QED
          BY <4>1, <4>2
      <3>2. \A x \in N : x \in X
        BY <2>5, <1>6
      <3>3. \A x \in X : x \in N \/ \E p \in T : x = f[p]
        <4> SUFFICES ASSUME NEW x \in X, x \notin N PROVE \E p \in T : x = f[p]
          OBVIOUS
        <4>1. CASE x = 0 /\ e \in freed
          BY <4>1, <2>6
        <4>2. CASE x = 0 /\ e = e0
          <5>1. 1 \in T
            BY <4>2, <2>6, <1>2
          <5> QED
            BY <4>2, <5>1
        <4>3. CASE x \in DOMAIN pending' /\ pending'[x] = e
          <5>1. PICK p \in DOMAIN pending : p # 1 /\ x = p - 1 + n /\ pending[p] = e
            BY <4>3, <1>7
          <5>2. p \in T /\ p \notin {0, 1}
            BY <5>1, <2>6, <2>7
          <5> QED
            BY <5>1, <5>2
        <4> QED
          BY <4>1, <4>2, <4>3, <2>5
      <3>4. \A p, q \in T : f[p] = f[q] => p = q
        <4> SUFFICES ASSUME NEW p \in T, NEW q \in T, f[p] = f[q] PROVE p = q
          OBVIOUS
        <4>1. ~(0 \in T /\ 1 \in T)
          BY <2>6, <2>7, <1>1
        <4>2. \A r \in T : /\ r \in Nat
                           /\ r \in {0, 1} => f[r] = 0
                           /\ r \notin {0, 1} => f[r] = r - 1 + n /\ f[r] # 0
          BY <2>6, <2>7, <1>5
        <4> HIDE DEF f, T
        <4> QED
          BY <4>1, <4>2, <1>5
      <3> HIDE DEF N, T, X, f
      <3>5. Splits(X, N, T, f)
        BY <3>1, <3>2, <3>3, <3>4 DEF Splits
      <3>6. /\ X = {} <=> T = {} /\ N = {}
            /\ Two(X) <=> Two(T) \/ Two(N) \/ (T # {} /\ N # {})
        BY <3>5, Transfer
      <3> QED
        BY <3>6 DEF X
    <2>9. /\ T = {} <=> G = {}
          /\ Two(T) <=> Two(G)
      BY <1>1, <1>12 DEF Owed
    <2> HIDE DEF N, M, T, G
    <2> QED
      BY <2>1, <2>4, <2>8, <2>9
  <1>13. Owed'
    <2>1. Root' \in Entry /\ Points(Root)'
      BY <1>1 DEF Owed, Root, Points
    <2> QED
      BY <2>1, <1>1, <1>11, <1>12 DEF Owed
  <1> QED
    BY <1>1, <1>9, <1>10, <1>13 DEF AInv

-----------------------------------------------------------------------------
(* Every step *)

LEMMA LexIdInv ==
  ASSUME AInv, NEW n \in Name, LexId(n)
  PROVE  AInv'
  <1>1. PICK a \in 1..(Len(name_) + 1) :
          UniqueSymbol(n, a) /\ Replace(0, [kind |-> "Symbol", at |-> a])
    BY DEF LexId
  <1>2. /\ SInv /\ name_ \in Seq(Name) /\ Len(name_) \in Nat /\ DOMAIN name_ = 1..Len(name_)
        /\ hashtable \in [Bucket -> Seq(1..Len(name_))] /\ Index[n] \in Bucket
    BY IndexAssumption DEF AInv, SInv, SymbolsTypeOK
  <1>3. DOMAIN name_ \subseteq DOMAIN name_' /\ a \in DOMAIN name_'
    <2>1. CASE /\ \E p \in DOMAIN hashtable[Index[n]] : a = hashtable[Index[n]][p]
               /\ name_' = name_
      BY <2>1, <1>2
    <2>2. CASE a = Len(name_) + 1 /\ name_' = Append(name_, n)
      <3>1. DOMAIN name_' = 1..a
        BY <2>2, <1>2
      <3> QED
        BY <3>1, <2>2, <1>2
    <2> QED
      BY <1>1, <2>1, <2>2 DEF UniqueSymbol, symbolVars
  <1> DEFINE e == [kind |-> "Symbol", at |-> a]
  <1>4. e \in Entry /\ ~IsNode(e) /\ PointsAfter(e)
    BY <1>3 DEF Entry, Kinds, IsNode, PointsAfter
  <1>5. SInv'
    BY <1>1, <1>2, Interned
  <1>6. /\ phase = "parsing" /\ Replace(0, e)
        /\ UNCHANGED <<nodes, phase, pending, freed>>
    BY <1>1 DEF LexId
  <1> HIDE DEF e
  <1> QED
    BY <1>3, <1>4, <1>5, <1>6, PushInv

LEMMA AbsentInv ==
  ASSUME AInv, Absent
  PROVE  AInv'
  <1>1. SInv' /\ name_' = name_
    BY DEF AInv, SInv, SymbolsTypeOK, Linked, Distinct, Absent
  <1>2. Null \in Entry /\ ~IsNode(Null) /\ PointsAfter(Null)
    BY NullEntry DEF PointsAfter
  <1> QED
    BY <1>1, <1>2, PushInv DEF Absent

LEMMA NewInv ==
  ASSUME AInv, NEW c \in Class \ Lists, New(c)
  PROVE  AInv'
  <1>1. c \in DOMAIN Params
    BY ClassAssumption
  <1>2. Len(Params[c]) \in Nat
    BY <1>1, ParamsAreSequences
  <1>3. stack \in Seq(Entry) /\ Len(stack) \in Nat
    BY DEF AInv, AType
  <1>4. /\ phase = "parsing" /\ Len(Params[c]) \in 0..Len(stack)
        /\ Make(c, LastValues(Len(Params[c])), Len(Params[c]))
    BY <1>2, <1>3 DEF New
  <1> QED
    BY <1>4, MakeInv

LEMMA NewListInv ==
  ASSUME AInv, NEW l \in Class \intersect Lists, NewEmpty(l) \/ NewList(l)
  PROVE  AInv'
  <1>1. stack \in Seq(Entry) /\ Len(stack) \in Nat
    BY DEF AInv, AType
  <1>2. CASE NewEmpty(l)
    <2>1. 0 \in 0..Len(stack)
      BY <1>1
    <2>2. LastValues(0) = <<>>
      BY <2>1, <1>1, LastValuesAre
    <2> QED
      BY <1>2, <2>1, <2>2, MakeInv DEF NewEmpty
  <1>3. CASE NewList(l)
    <2>1. 1 \in 0..Len(stack)
      BY <1>1, <1>3 DEF NewList
    <2> QED
      BY <1>3, <2>1, MakeInv DEF NewList
  <1> QED
    BY <1>2, <1>3

\* Two ways for the deleting to end.
LEMMA EndInv ==
  ASSUME AInv, DeleteAgain \/ Deleted
  PROVE  AInv'
  <1>1. /\ phase = "deleting" /\ phase' \in {"undefined", "done"}
        /\ UNCHANGED <<hashtable, name_, nodes, stack, pending, freed>>
        /\ phase' = "done" => pending = <<>>
        /\ phase' = "undefined" => pending # <<>> /\ pending[1] \in freed
    BY DEF DeleteAgain, Deleted
  <1>2. SInv' /\ Forest'
    BY <1>1 DEF AInv, SInv, SymbolsTypeOK, Linked, Distinct, Forest, Part
  <1>3. AType'
    BY <1>1 DEF AInv, AType, AbsynTypeOK, SymbolsTypeOK, Points
  <1>4. FreedAt' = FreedAt /\ PendingAt' = PendingAt /\ Owned' = Owned /\ Root' = Root
    BY <1>1 DEF FreedAt, PendingAt, Owned, Closed, Below, Root
  <1>5. Points(Root)' <=> Points(Root)
    BY <1>1 DEF Points, Root
  <1>6. \A e : Tokens(e)' = Tokens(e) /\ Given(e)' = Given(e)
    BY <1>1, <1>4 DEF Tokens, Given, Part
  <1>7. Owed
    BY <1>1 DEF AInv
  <1>8. Owed'
    BY <1>1, <1>4, <1>5, <1>6, <1>7 DEF Owed
  <1> QED
    BY <1>1, <1>2, <1>3, <1>8 DEF AInv

LEMMA NextAInv == AInv /\ [AbsynNext]_absynVars => AInv'
  <1> SUFFICES ASSUME AInv, [AbsynNext]_absynVars PROVE AInv'
    OBVIOUS
  <1>1. CASE UNCHANGED absynVars
    <2>1. FreedAt' = FreedAt /\ PendingAt' = PendingAt /\ Owned' = Owned /\ Root' = Root
      BY <1>1 DEF absynVars, FreedAt, PendingAt, Owned, Closed, Below, Root
    <2>2. Points(Root)' <=> Points(Root)
      BY <1>1 DEF absynVars, Points, Root
    <2>3. \A e : Tokens(e)' = Tokens(e) /\ Given(e)' = Given(e)
      BY <1>1, <2>1 DEF absynVars, Tokens, Given, Part
    <2>4. Owed' <=> Owed
      BY <1>1, <2>1, <2>2, <2>3 DEF absynVars, Owed
    <2>5. OnStack' <=> OnStack
      BY <1>1 DEF absynVars, OnStack, Part
    <2>6. SInv' /\ Forest' /\ AType'
      BY <1>1 DEF absynVars, AInv, SInv, SymbolsTypeOK, Linked, Distinct, Forest, Part,
                  AType, AbsynTypeOK, Points
    <2> QED
      BY <1>1, <2>4, <2>5, <2>6 DEF absynVars, AInv
  <1>2. CASE \E n \in Name : LexId(n)
    BY <1>2, LexIdInv
  <1>3. CASE Absent
    BY <1>3, AbsentInv
  <1>4. CASE \E c \in Class \ Lists : New(c)
    BY <1>4, NewInv
  <1>5. CASE \E l \in Class \intersect Lists : NewEmpty(l) \/ NewList(l) \/ AppendTo(l)
    BY <1>5, NewListInv, AppendToInv
  <1>6. CASE Destroy
    BY <1>6, DestroyInv
  <1>7. CASE Deleting
    BY <1>7, DeleteInv, EndInv DEF Deleting
  <1> QED
    BY <1>1, <1>2, <1>3, <1>4, <1>5, <1>6, <1>7 DEF AbsynNext

THEOREM AbsynInvariance == AbsynSpec => []AInv
  BY InitAInv, NextAInv, PTL DEF AbsynSpec

-----------------------------------------------------------------------------
(* What follows *)

\* Every pointer of the tree, of the parser's values and of what is to delete points to
\* an object of its class, whatever the parser builds.
THEOREM AbsynTypeCorrect == AbsynSpec => []AbsynTypeOK
  <1>1. AInv => AbsynTypeOK
    BY DEF AInv, AType
  <1> QED
    BY <1>1, AbsynInvariance, PTL

\* The pointers to the symbol of a name from owned owners.
LEMMA UsesAreGiven ==
  ASSUME SInv, AType, Forest, FreedAt \subseteq Owned, NEW a \in DOMAIN name_
  PROVE  /\ [kind |-> "Symbol", at |-> a] \in Entry
         /\ \A x \in Given([kind |-> "Symbol", at |-> a]) : x \in Uses(name_[a])
         /\ FreedAt = Owned => \A x \in Uses(name_[a]) : x \in Given([kind |-> "Symbol", at |-> a])
  <1> DEFINE s == [kind |-> "Symbol", at |-> a]
  <1>1. s \in Entry /\ s # Root
    <2>1. a \in Nat
      BY DEF SInv, SymbolsTypeOK
    <2> QED
      BY <2>1 DEF Entry, Kinds, Root
  <1>2. \A x : x \in Uses(name_[a]) <=>
          \E k \in Owned : \E j \in DOMAIN nodes[k].fields :
            /\ nodes[k].class \notin Keepers
            /\ Part(k, j).kind = "Symbol" /\ name_[Part(k, j).at] = name_[a]
            /\ x = <<k, j>>
    BY DEF Uses, Part
  <1>3. \A k \in Owned : k \in DOMAIN nodes /\ (nodes[k].class \in Owners <=> nodes[k].class \notin Keepers)
    BY Entries, Classes DEF Owned
  <1>4. \A k \in Owned : \A j \in DOMAIN nodes[k].fields :
          Part(k, j).kind = "Symbol" /\ name_[Part(k, j).at] = name_[a] <=> Part(k, j) = s
    <2> SUFFICES ASSUME NEW k \in Owned, NEW j \in DOMAIN nodes[k].fields,
                        Part(k, j).kind = "Symbol", name_[Part(k, j).at] = name_[a]
                 PROVE  Part(k, j) = s
      OBVIOUS
    <2>1. Part(k, j) \in Entry /\ Points(Part(k, j))
      BY <1>3, Entries
    <2>2. /\ Part(k, j).at \in DOMAIN name_
          /\ Part(k, j) = [kind |-> "Symbol", at |-> Part(k, j).at]
      BY <2>1, NodeEntries DEF IsNode, Null
    <2>3. Part(k, j).at = a
      BY <2>2 DEF SInv, Distinct
    <2> QED
      BY <2>2, <2>3
  <1> HIDE DEF s
  <1>5. \A x \in Given(s) : x \in Uses(name_[a])
    BY <1>1, <1>2, <1>3, <1>4, GivenAre
  <1>6. FreedAt = Owned => \A x \in Uses(name_[a]) : x \in Given(s)
    BY <1>1, <1>2, <1>3, <1>4, GivenAre
  <1> QED
    BY <1>1, <1>5, <1>6 DEF s

LEMMA LeakFollows ==
  ASSUME AInv
  PROVE  OnlyKeepersLeak
  <1> SUFFICES ASSUME phase = "done"
               PROVE  /\ {e.at : e \in {x \in freed : x.kind # "Symbol"}} = Owned
                      /\ {name_[e.at] : e \in {x \in freed : x.kind = "Symbol"}}
                           = {n \in Name : Uses(n) # {}}
    BY DEF OnlyKeepersLeak
  <1>1. /\ SInv /\ AType /\ Forest /\ Owed
        /\ FreedAt = Owned
        /\ \A e \in Entry : e # Null => (e \in freed <=> Given(e) # {}) /\ ~Two(Given(e))
        /\ \A a \in DOMAIN name_ : name_[a] \in Name
    BY FreedIsOwned DEF AInv, SInv, SymbolsTypeOK
  <1>2. \A e \in freed : /\ e \in Entry /\ Points(e) /\ e # Null
                         /\ IsNode(e) <=> e.kind # "Symbol"
                         /\ ~IsNode(e) => /\ e.at \in DOMAIN name_
                                          /\ e = [kind |-> "Symbol", at |-> e.at]
    BY <1>1, Entries, NodeEntries DEF IsNode
  <1>3. {e.at : e \in {x \in freed : x.kind # "Symbol"}} = Owned
    BY <1>1, <1>2 DEF FreedAt
  <1>4. ASSUME NEW e \in freed, e.kind = "Symbol"
        PROVE  name_[e.at] \in Name /\ Uses(name_[e.at]) # {}
    BY <1>1, <1>2, <1>4, UsesAreGiven
  <1>5. ASSUME NEW n \in Name, NEW x \in Uses(n)
        PROVE  \E e \in freed : e.kind = "Symbol" /\ n = name_[e.at]
    <2>1. PICK k \in Owned : \E j \in DOMAIN nodes[k].fields :
            Part(k, j).kind = "Symbol" /\ name_[Part(k, j).at] = n
      BY DEF Uses, Part
    <2>2. PICK j \in DOMAIN nodes[k].fields :
            Part(k, j).kind = "Symbol" /\ name_[Part(k, j).at] = n
      BY <2>1
    <2>3. Part(k, j) \in Entry /\ Points(Part(k, j))
      BY <1>1, Entries DEF Owned
    <2>4. /\ Part(k, j).at \in DOMAIN name_
          /\ Part(k, j) = [kind |-> "Symbol", at |-> Part(k, j).at]
      BY <2>2, <2>3, <1>1, NodeEntries DEF IsNode, Null
    <2>5. Given(Part(k, j)) # {}
      BY <2>2, <2>4, <1>1, <1>5, UsesAreGiven
    <2>6. Part(k, j) \in freed
      BY <2>2, <2>3, <2>5, <1>1 DEF Null
    <2> QED
      BY <2>2, <2>6
  <1> QED
    BY <1>3, <1>4, <1>5

LEMMA BreakFollows ==
  ASSUME AInv
  PROVE  SharedNamesBreak
  <1>1. SInv /\ AType /\ Forest
    BY DEF AInv
  <1>2. ASSUME phase = "done", NEW n \in Name PROVE ~OwnedTwice(n)
    <2>1. /\ FreedAt = Owned
          /\ \A e \in Entry : e # Null => ~Two(Given(e))
      BY <1>1, <1>2, FreedIsOwned DEF AInv
    <2> SUFFICES ASSUME NEW u \in Uses(n), NEW v \in Uses(n) PROVE u = v
      BY DEF OwnedTwice
    <2>2. PICK k \in Owned : \E j \in DOMAIN nodes[k].fields :
            Part(k, j).kind = "Symbol" /\ name_[Part(k, j).at] = n
      BY DEF Uses, Part
    <2>3. PICK j \in DOMAIN nodes[k].fields :
            Part(k, j).kind = "Symbol" /\ name_[Part(k, j).at] = n
      BY <2>2
    <2> DEFINE a == Part(k, j).at
               s == [kind |-> "Symbol", at |-> a]
    <2>4. Part(k, j) \in Entry /\ Points(Part(k, j))
      BY <1>1, Entries DEF Owned
    <2>5. a \in DOMAIN name_ /\ name_[a] = n
      BY <2>3, <2>4, <1>1, NodeEntries DEF IsNode, Null
    <2>6. s \in Entry /\ u \in Given(s) /\ v \in Given(s)
      BY <2>1, <2>5, <1>1, UsesAreGiven
    <2>7. s # Null
      BY DEF Null
    <2> QED
      BY <2>1, <2>6, <2>7 DEF Two
  <1>3. ASSUME phase = "undefined" PROVE \E n \in Name : OwnedTwice(n)
    <2> DEFINE e == pending[1]
    <2>1. Owed /\ pending # <<>> /\ e \in freed
      BY <1>3 DEF AInv, Owed
    <2>2. e \in Entry /\ Points(e) /\ e # Null
      BY <2>1, <1>1, Entries
    <2>3. 1 \in DOMAIN pending
      BY <2>1, <1>1 DEF AType
    <2>4. 0 \in Tokens(e) /\ 1 \in Tokens(e)
      BY <2>1, <2>3 DEF Tokens
    <2>5. Two(Given(e))
      <3>1. Two(Tokens(e))
        BY <2>4 DEF Two
      <3> QED
        BY <3>1, <2>1, <2>2 DEF Owed
    <2>6. FreedAt \subseteq Owned /\ FreedAt \subseteq DOMAIN nodes
      BY <2>1 DEF Owed, Owned
    <2>7. ~IsNode(e)
      BY <2>2, <2>5, <2>6, <1>1, NodesGivenOnce
    <2>8. e.at \in DOMAIN name_ /\ e = [kind |-> "Symbol", at |-> e.at]
      BY <2>2, <2>7, <1>1, NodeEntries
    <2>9. \A x \in Given(e) : x \in Uses(name_[e.at])
      <3> HIDE DEF e
      <3> QED
        BY <2>6, <2>8, <1>1, UsesAreGiven
    <2>10. OwnedTwice(name_[e.at])
      BY <2>5, <2>9 DEF Two, OwnedTwice
    <2>11. name_[e.at] \in Name
      BY <2>8, <1>1 DEF SInv, SymbolsTypeOK
    <2> QED
      BY <2>10, <2>11
  <1> QED
    BY <1>2, <1>3 DEF SharedNamesBreak

\* For any tree the parser can build: when the deleting ends well, the nodes deleted are
\* the root and what owners own, no more and no fewer, with the symbols they own.
THEOREM OnlyKeepersLeakAlways == AbsynSpec => []OnlyKeepersLeak
  BY LeakFollows, AbsynInvariance, PTL

\* For any tree the parser can build: the deleting ends well if and only if no name is
\* owned twice.
THEOREM SharedNamesBreakAlways == AbsynSpec => []SharedNamesBreak
  BY BreakFollows, AbsynInvariance, PTL

\* Every call of UniqueSymbol that the parser makes answers with the one symbol of the name
\* read, found or made, whatever the hash function, and nothing else in the life of a tree
\* changes a symbol.
THEOREM AbsynImplementsInterning == AbsynSpec => ImplementsInterning
  <1>1. AbsynInit => I!Init
    <2> SUFFICES ASSUME AbsynInit PROVE I!Init
      OBVIOUS
    <2>1. DOMAIN name_ = {}
      BY DEF AbsynInit, SymbolsInit
    <2> QED
      BY <2>1 DEF I!Init, SymbolOf
  <1>2. AInv /\ [AbsynNext]_absynVars => [InternStep]_absynVars
    <2> SUFFICES ASSUME AInv, AbsynNext PROVE InternStep
      BY DEF AbsynNext
    <2>1. ASSUME NEW n \in Name, LexId(n) PROVE I!Intern(n, stack'[Len(stack')].at)
      <3>1. PICK a \in 1..(Len(name_) + 1) :
              UniqueSymbol(n, a) /\ Replace(0, [kind |-> "Symbol", at |-> a])
        BY <2>1 DEF LexId
      <3>2. [kind |-> "Symbol", at |-> a] \in Entry
        BY <3>1 DEF Entry, Kinds
      <3>3. stack \in Seq(Entry) /\ 0 \in 0..Len(stack)
        BY DEF AInv, AType
      <3>4. stack'[Len(stack')] = [kind |-> "Symbol", at |-> a]
        BY <3>1, <3>2, <3>3, Replaced
      <3>5. I!Intern(n, a)
        BY <3>1, Interned DEF AInv
      <3> QED
        BY <3>4, <3>5
    <2>2. ASSUME \A n \in Name : ~LexId(n) PROVE UNCHANGED SymbolOf
      <3>1. UNCHANGED name_
        BY <2>2 DEF AbsynNext, Absent, New, NewEmpty, NewList, AppendTo, Make, Destroy,
                    Deleting, Delete, DeleteAgain, Deleted, absynVars
      <3> QED
        BY <3>1 DEF SymbolOf
    <2> QED
      BY <2>1, <2>2 DEF InternStep
  <1> QED
    BY AbsynInvariance, <1>1, <1>2, PTL DEF AbsynSpec, ImplementsInterning
=============================================================================
