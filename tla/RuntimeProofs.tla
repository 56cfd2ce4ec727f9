---------------------------- MODULE RuntimeProofs ---------------------------
(***************************************************************************)
(* Theorems about Runtime, for any variables, literals and arguments, any  *)
(* width of ints and any number of strings.                                *)
(***************************************************************************)
EXTENDS Runtime, TLAPS

\* The inductive invariant.
RInv == RuntimeTypeOK /\ StringsSound

\* What two sequences joined hold.
LEMMA Joined ==
  ASSUME NEW X, NEW s \in Seq(X), NEW t \in Seq(X)
  PROVE  /\ s \o t \in Seq(X)
         /\ Len(s \o t) = Len(s) + Len(t)
         /\ \A i \in 1..Len(s) : (s \o t)[i] = s[i]
         /\ \A i \in (Len(s) + 1)..(Len(s) + Len(t)) : (s \o t)[i] = t[i - Len(s)]
  OBVIOUS

LEMMA JoinedAs ==
  ASSUME NEW X, NEW s \in Seq(X), NEW t \in Seq(X)
  PROVE  s \o t = [i \in 1..(Len(s) + Len(t)) |->
                     IF i <= Len(s) THEN s[i] ELSE t[i - Len(s)]]
  <1> DEFINE u == s \o t
  <1>1. /\ u \in Seq(X) /\ Len(u) = Len(s) + Len(t) /\ Len(s) \in Nat /\ Len(t) \in Nat
        /\ \A i \in 1..Len(s) : u[i] = s[i]
        /\ \A i \in (Len(s) + 1)..(Len(s) + Len(t)) : u[i] = t[i - Len(s)]
    BY Joined
  <1> HIDE DEF u
  <1>2. u = [i \in 1..(Len(s) + Len(t)) |-> u[i]]
    BY <1>1
  <1>3. \A i \in 1..(Len(s) + Len(t)) :
          u[i] = IF i <= Len(s) THEN s[i] ELSE t[i - Len(s)]
    BY <1>1
  <1> QED
    BY <1>2, <1>3 DEF u

\* A function on 1..m, and a single value, as sequences.
LEMMA Listed ==
  ASSUME NEW X, NEW m \in Nat, NEW f \in [1..m -> X]
  PROVE  f \in Seq(X) /\ Len(f) = m
  OBVIOUS

LEMMA Single ==
  ASSUME NEW X, NEW x \in X
  PROVE  << x >> \in Seq(X) /\ Len(<< x >>) = 1 /\ << x >>[1] = x
  OBVIOUS

\* A string object made of bytes.
LEMMA BytesString ==
  ASSUME NEW chars \in Seq(Byte), Len(chars) <= MaxInt
  PROVE  /\ Bytes(chars) \in String
         /\ Bytes(chars).chars = chars /\ Bytes(chars).length = Len(chars)
  BY MaxIntAssumption DEF Bytes, String, Int32

LEMMA InitInv == RuntimeInit => RInv
  <1> SUFFICES ASSUME RuntimeInit PROVE RInv
    OBVIOUS
  <1> DEFINE n == LastByte + 1
             C == [i \in 1..n |-> Bytes(<<i - 1>>)]
             E == << Bytes(<<>>) >>
             L == [j \in DOMAIN Literal |-> Bytes(Literal[j])]
  <1>n. n \in Nat /\ n >= 1 /\ empty = n + 1
    BY LastByteAssumption DEF empty
  <1>1. /\ C \in Seq(String) /\ Len(C) = n
        /\ \A i \in 1..n : C[i].chars = <<i - 1>> /\ C[i].length = 1
    <2>1. ASSUME NEW i \in 1..n
          PROVE  Bytes(<<i - 1>>) \in String /\ Bytes(<<i - 1>>).chars = <<i - 1>>
                 /\ Bytes(<<i - 1>>).length = 1
      <3>1. i - 1 \in Byte
        BY LastByteAssumption DEF Byte
      <3>2. <<i - 1>> \in Seq(Byte) /\ Len(<<i - 1>>) = 1 /\ 1 <= MaxInt
        BY <3>1, MaxIntAssumption, Single
      <3> QED
        BY <3>2, BytesString
    <2>2. C \in [1..n -> String]
      BY <2>1
    <2>3. C \in Seq(String) /\ Len(C) = n
      <3> HIDE DEF C, n
      <3> QED
        BY <2>2, <1>n, Listed
    <2> QED
      BY <2>1, <2>3
  <1>2. E \in Seq(String) /\ Len(E) = 1 /\ E[1].chars = <<>> /\ E[1].length = 0
    <2>1. <<>> \in Seq(Byte) /\ Len(<<>>) = 0 /\ 0 <= MaxInt
      BY MaxIntAssumption
    <2>2. /\ Bytes(<<>>) \in String /\ Bytes(<<>>).chars = <<>>
          /\ Bytes(<<>>).length = 0
      BY <2>1, BytesString
    <2> QED
      BY <2>2, Single
  <1>3. /\ L \in Seq(String) /\ Len(L) = Len(Literal) /\ DOMAIN Literal = 1..Len(L)
        /\ \A j \in 1..Len(L) : L[j].length = Len(L[j].chars) /\ L[j].chars = Literal[j]
    <2>1. ASSUME NEW j \in DOMAIN Literal
          PROVE  Bytes(Literal[j]) \in String
                 /\ Bytes(Literal[j]).length = Len(Bytes(Literal[j]).chars)
                 /\ Bytes(Literal[j]).chars = Literal[j]
      BY LiteralAssumption, BytesString
    <2>2. DOMAIN Literal = 1..Len(Literal) /\ Len(Literal) \in Nat
      BY LiteralAssumption
    <2> QED
      BY <2>1, <2>2
  <1>4. strings = (C \o E) \o L
    BY DEF RuntimeInit
  <1> HIDE DEF n, C, E, L
  <1>5. /\ C \o E \in Seq(String) /\ Len(C \o E) = empty
        /\ \A i \in 1..n : (C \o E)[i] = C[i]
        /\ (C \o E)[empty] = E[1]
    <2>1. /\ C \in Seq(String) /\ E \in Seq(String)
          /\ Len(C) = n /\ Len(E) = 1 /\ n \in Nat
      BY <1>1, <1>2, <1>n
    <2>2. /\ C \o E \in Seq(String) /\ Len(C \o E) = n + 1
          /\ \A i \in 1..n : (C \o E)[i] = C[i]
          /\ \A i \in (n + 1)..(n + 1) : (C \o E)[i] = E[i - n]
      BY SMTT(30), <2>1, Joined
    <2>3. (C \o E)[n + 1] = E[n + 1 - n] /\ n + 1 - n = 1
      BY <2>1, <2>2
    <2> QED
      BY <2>2, <2>3, <1>n
  <1>6. /\ strings \in Seq(String) /\ Len(strings) = empty + Len(L)
        /\ Len(L) \in Nat
        /\ \A i \in 1..empty : strings[i] = (C \o E)[i]
        /\ \A i \in (empty + 1)..Len(strings) : strings[i] = L[i - empty]
    <2>1. L \in Seq(String) /\ Len(L) \in Nat
      BY <1>3
    <2> QED
      BY SMTT(30), <2>1, <1>4, <1>5, Joined
  <1>7. empty \in DOMAIN strings /\ empty <= Len(strings)
    BY <1>6, <1>n
  <1>8. RuntimeTypeOK
    <2>1. held \in [Var -> DOMAIN strings] /\ status \in Statuses
      BY <1>7 DEF RuntimeInit, Statuses
    <2>2. answer \in [of : Seq(Var), ints : Seq(Int)]
      BY DEF RuntimeInit, NoAnswer
    <2> QED
      BY <1>6, <2>1, <2>2 DEF RuntimeTypeOK
  <1>9. \A a \in DOMAIN strings : strings[a].length = Len(strings[a].chars)
    <2> SUFFICES ASSUME NEW a \in 1..Len(strings)
                 PROVE  strings[a].length = Len(strings[a].chars)
      BY <1>6
    <2>1. CASE a \in 1..n
      <3>1. strings[a] = C[a]
        <4>1. a \in 1..empty
          BY <2>1, <1>n
        <4> QED
          BY <4>1, <2>1, <1>5, <1>6
      <3>2. C[a].chars = <<a - 1>> /\ C[a].length = 1
        BY <2>1, <1>1
      <3> QED
        BY <3>1, <3>2
    <2>2. CASE a = empty
      BY <2>2, <1>n, <1>2, <1>5, <1>6
    <2>3. CASE a \in (empty + 1)..Len(strings)
      <3>1. strings[a] = L[a - empty] /\ a - empty \in 1..Len(L)
        BY <2>3, <1>n, <1>6
      <3> QED
        BY <3>1, <1>3
    <2> QED
      BY <2>1, <2>2, <2>3, <1>6, <1>n
  <1>10. strings[empty].chars = <<>>
    BY <1>n, <1>2, <1>5, <1>6
  <1>11. \A i \in Byte : strings[Consts(i)].chars = <<i>>
    <2> TAKE i \in Byte
    <2>1. Consts(i) \in 1..n /\ Consts(i) - 1 = i
      BY LastByteAssumption DEF Consts, Byte, n
    <2>2. strings[Consts(i)] = C[Consts(i)]
      BY SMTT(30), <2>1, <1>n, <1>5, <1>6
    <2> QED
      BY <2>1, <2>2, <1>1
  <1>12. \A j \in DOMAIN Literal : strings[empty + j].chars = Literal[j]
    <2> SUFFICES ASSUME NEW j \in 1..Len(L) PROVE strings[empty + j].chars = Literal[j]
      BY <1>3
    <2>1. strings[empty + j] = L[j]
      <3> DEFINE a == empty + j
      <3>1. a \in (empty + 1)..Len(strings) /\ a - empty = j
        BY <1>n, <1>6
      <3> HIDE DEF a
      <3>2. strings[a] = L[a - empty]
        BY <3>1, <1>6
      <3> QED
        BY <3>1, <3>2 DEF a
    <2> QED
      BY <2>1, <1>3
  <1>13. empty + Len(Literal) <= Len(strings)
    BY <1>3, <1>6
  <1> QED
    BY <1>8, <1>9, <1>10, <1>11, <1>12, <1>13 DEF RInv, StringsSound

-----------------------------------------------------------------------------
(* The four ways a call ends *)

\* Every string that was there is there, unchanged.
Same == \A a \in DOMAIN strings : a \in DOMAIN strings' /\ strings'[a] = strings[a]

\* The strings made before the program runs are there.
LEMMA MadeFirst ==
  ASSUME RInv
  PROVE  /\ empty \in 1..Len(strings)
         /\ \A i \in Byte : Consts(i) \in 1..Len(strings)
         /\ \A j \in DOMAIN Literal : empty + j \in 1..Len(strings)
  <1>1. Len(strings) \in Nat /\ empty + Len(Literal) <= Len(strings)
    BY DEF RInv, RuntimeTypeOK, StringsSound
  <1>2. /\ Len(Literal) \in Nat /\ DOMAIN Literal = 1..Len(Literal)
        /\ empty \in Nat /\ empty > 0
    BY LiteralAssumption, LastByteAssumption DEF empty
  <1>3. \A i \in Byte : Consts(i) \in 1..empty
    BY LastByteAssumption DEF Byte, Consts, empty
  <1> QED
    BY <1>1, <1>2, <1>3

LEMMA GiveOK ==
  ASSUME RInv, NEW v \in Var, NEW a \in DOMAIN strings, Give(v, a)
  PROVE  RInv' /\ Same /\ S!Store(v, strings[a].chars)
  <1>1. RInv'
    BY DEF RInv, RuntimeTypeOK, StringsSound, Give
  <1>2. Same
    BY DEF Same, Give
  <1>3. Text' = [Text EXCEPT ![v] = strings[a].chars]
    BY DEF Text, Give, RInv, RuntimeTypeOK
  <1> QED
    BY <1>1, <1>2, <1>3 DEF S!Store, Give

LEMMA MallocOK ==
  ASSUME RInv, NEW v \in Var, NEW s \in String, s.length = Len(s.chars), Malloc(v, s)
  PROVE  RInv' /\ Same /\ S!Store(v, s.chars)
  <1>t. strings \in Seq(String) /\ held \in [Var -> 1..Len(strings)] /\ Len(strings) \in Nat
    BY DEF RInv, RuntimeTypeOK
  <1>1. /\ strings' \in Seq(String) /\ Len(strings') = Len(strings) + 1
        /\ strings'[Len(strings) + 1] = s
        /\ \A a \in 1..Len(strings) : strings'[a] = strings[a]
        /\ DOMAIN strings = 1..Len(strings) /\ DOMAIN strings' = 1..(Len(strings) + 1)
    BY <1>t DEF Malloc
  <1>2. Same
    BY <1>1, <1>t DEF Same
  <1>3. RuntimeTypeOK'
    <2>1. held' \in [Var -> 1..(Len(strings) + 1)]
      BY <1>t DEF Malloc
    <2> QED
      BY <1>1, <2>1 DEF RInv, RuntimeTypeOK, Malloc
  <1>4. StringsSound'
    <2>1. \A a \in DOMAIN strings' : strings'[a].length = Len(strings'[a].chars)
      BY <1>1, <1>t DEF RInv, StringsSound
    <2>2. /\ empty \in 1..Len(strings)
          /\ \A i \in Byte : Consts(i) \in 1..Len(strings)
          /\ \A j \in DOMAIN Literal : empty + j \in 1..Len(strings)
      BY <1>t, MadeFirst
    <2>3. empty + Len(Literal) <= Len(strings')
      BY <1>1, <1>t, LiteralAssumption, LastByteAssumption DEF RInv, StringsSound, empty
    <2> QED
      BY <1>1, <2>1, <2>2, <2>3 DEF RInv, StringsSound
  <1>5. Text' = [Text EXCEPT ![v] = s.chars]
    <2>1. held' = [held EXCEPT ![v] = Len(strings) + 1]
      BY DEF Malloc
    <2> QED
      BY <2>1, <1>1, <1>t DEF Text
  <1> QED
    BY <1>2, <1>3, <1>4, <1>5 DEF RInv, S!Store, Malloc

LEMMA ReplyOK ==
  ASSUME RInv, NEW asked \in Seq(Var), NEW a \in Seq(Int), Reply(asked, a)
  PROVE  RInv' /\ Same /\ S!Reply(asked, a)
  <1>1. answer' \in [of : Seq(Var), ints : Seq(Int)]
    BY DEF Reply
  <1>2. RInv' /\ Same
    BY <1>1 DEF RInv, RuntimeTypeOK, StringsSound, Reply, Same
  <1>3. Text' = Text
    BY DEF Text, Reply
  <1> QED
    BY <1>2, <1>3 DEF S!Reply, Reply

LEMMA StopOK ==
  ASSUME RInv, NEW how \in Statuses, Stop(how)
  PROVE  RInv' /\ Same /\ S!Stop(how)
  <1>1. RInv' /\ Same
    BY DEF RInv, RuntimeTypeOK, StringsSound, Stop, Same
  <1>2. Text' = Text
    BY DEF Text, Stop
  <1> QED
    BY <1>1, <1>2 DEF S!Stop, Stop

-----------------------------------------------------------------------------
(* The calls *)

\* What the string in a variable is.
LEMMA HeldString ==
  ASSUME RInv, NEW v \in Var
  PROVE  /\ held[v] \in DOMAIN strings
         /\ strings[held[v]] \in String
         /\ strings[held[v]].chars \in Seq(Byte)
         /\ strings[held[v]].length = Len(strings[held[v]].chars)
         /\ strings[held[v]].length \in 0..MaxInt
         /\ Text[v] = strings[held[v]].chars
  <1>1. held[v] \in DOMAIN strings /\ strings[held[v]] \in String
    BY DEF RInv, RuntimeTypeOK
  <1>2. /\ strings[held[v]].length = Len(strings[held[v]].chars)
        /\ strings[held[v]].chars \in Seq(Byte)
        /\ strings[held[v]].length \in Int32
    BY <1>1 DEF RInv, StringsSound, String
  <1>3. strings[held[v]].length \in 0..MaxInt
    BY <1>2, MaxIntAssumption DEF Int32
  <1> QED
    BY <1>1, <1>2, <1>3 DEF Text

\* The strings made before the program runs are what they were.
LEMMA MadeString ==
  ASSUME RInv
  PROVE  /\ empty \in DOMAIN strings /\ strings[empty].chars = <<>>
         /\ \A i \in Byte : Consts(i) \in DOMAIN strings /\ strings[Consts(i)].chars = <<i>>
         /\ \A j \in DOMAIN Literal :
              empty + j \in DOMAIN strings /\ strings[empty + j].chars = Literal[j]
  <1>1. DOMAIN strings = 1..Len(strings)
    BY DEF RInv, RuntimeTypeOK
  <1> QED
    BY <1>1, MadeFirst DEF RInv, StringsSound

LEMMA SReady == Ready <=> S!Ready
  BY DEF Ready, S!Ready, NoAnswer, S!NoAnswer

LEMMA CopyOK ==
  ASSUME RInv, NEW v \in Var, NEW w \in Var, CopyVar(v, w)
  PROVE  RInv' /\ Same /\ S!Copy(v, w)
  BY HeldString, GiveOK, SReady DEF CopyVar, S!Copy

LEMMA EqualOK ==
  ASSUME RInv, NEW v \in Var, NEW w \in Var, string_equal(v, w)
  PROVE  RInv' /\ Same /\ S!StringEqual(v, w)
  <1> DEFINE s == strings[held[v]]
             t == strings[held[w]]
             same == \/ held[v] = held[w]
                     \/ s.length = t.length /\ \A i \in 1..s.length : s.chars[i] = t.chars[i]
  <1>1. Ready /\ ((same /\ Reply(<<v, w>>, <<1>>)) \/ (~same /\ Reply(<<v, w>>, <<0>>)))
    BY DEF string_equal
  <1>2. /\ Text[v] = s.chars /\ Text[w] = t.chars
        /\ s.chars \in Seq(Byte) /\ t.chars \in Seq(Byte)
        /\ s.length = Len(s.chars) /\ t.length = Len(t.chars)
    BY HeldString
  <1>3. same <=> Text[v] = Text[w]
    <2>1. held[v] = held[w] => s.chars = t.chars
      OBVIOUS
    <2> HIDE DEF s, t
    <2> QED
      BY <1>2, <2>1
  <1>4. <<v, w>> \in Seq(Var) /\ <<0>> \in Seq(Int) /\ <<1>> \in Seq(Int)
    OBVIOUS
  <1> HIDE DEF same
  <1> QED
    BY <1>1, <1>3, <1>4, ReplyOK, SReady DEF S!StringEqual

LEMMA LiteralOK ==
  ASSUME RInv, NEW v \in Var, NEW j \in DOMAIN Literal, LoadLiteral(v, j)
  PROVE  RInv' /\ Same /\ S!Load(v, Literal[j])
  <1>1. RInv' /\ Same /\ S!Store(v, Literal[j])
    BY MadeString, GiveOK DEF LoadLiteral
  <1> QED
    BY <1>1, SReady DEF LoadLiteral, S!Load

LEMMA BytesAreInts ==
  ASSUME NEW c \in Seq(Byte)
  PROVE  c \in Seq(Int) /\ (Len(c) # 0 => c[1] \in Int /\ Head(c) = c[1])
  <1>1. \A i \in 1..Len(c) : c[i] \in Byte
    OBVIOUS
  <1>2. Byte \subseteq Int
    BY LastByteAssumption DEF Byte
  <1>3. Len(c) \in Nat /\ c = [i \in 1..Len(c) |-> c[i]]
    OBVIOUS
  <1>4. [i \in 1..Len(c) |-> c[i]] \in [1..Len(c) -> Int]
    BY <1>1, <1>2
  <1>5. c \in Seq(Int)
    BY <1>3, <1>4, Listed
  <1>6. Len(c) # 0 => c[1] \in Int /\ Head(c) = c[1]
    BY <1>1, <1>2, <1>3
  <1> QED
    BY <1>5, <1>6

LEMMA PrintOK ==
  ASSUME RInv, NEW v \in Var, print(v) PROVE RInv' /\ Same /\ S!PrintText(v)
  <1> DEFINE s == strings[held[v]]
             c == [i \in 1..s.length |-> s.chars[i]]
  <1>1. s.chars \in Seq(Byte) /\ s.length = Len(s.chars) /\ Text[v] = s.chars
    BY HeldString
  <1>2. c = s.chars
    <2> HIDE DEF s
    <2> QED
      BY <1>1
  <1>3. <<v>> \in Seq(Var) /\ c \in Seq(Int)
    <2>1. s.chars \in Seq(Int)
      BY <1>1, BytesAreInts
    <2> QED
      BY <1>2, <2>1
  <1>4. Ready /\ Reply(<<v>>, c)
    BY DEF print
  <1> HIDE DEF c
  <1> QED
    BY <1>1, <1>2, <1>3, <1>4, ReplyOK, SReady DEF S!PrintText

LEMMA OrdOK ==
  ASSUME RInv, NEW v \in Var, ord(v) PROVE RInv' /\ Same /\ S!Ord(v)
  <1> DEFINE s == strings[held[v]]
  <1>1. s.chars \in Seq(Byte) /\ s.length = Len(s.chars) /\ Text[v] = s.chars
    BY HeldString
  <1>2. Ready /\ ((s.length = 0 /\ Reply(<<v>>, <<-1>>))
                  \/ (s.length # 0 /\ Reply(<<v>>, <<s.chars[1]>>)))
    BY DEF ord
  <1> HIDE DEF s
  <1>3. s.length = 0 <=> Text[v] = <<>>
    BY <1>1
  <1>4. s.length # 0 => s.chars[1] \in Int /\ s.chars[1] = Head(Text[v])
    BY <1>1, BytesAreInts
  <1>5. <<v>> \in Seq(Var) /\ <<-1>> \in Seq(Int)
    OBVIOUS
  <1>6. CASE s.length = 0
    BY <1>2, <1>3, <1>5, <1>6, ReplyOK, SReady DEF S!Ord
  <1>7. CASE s.length # 0
    <2>1. <<s.chars[1]>> \in Seq(Int)
      BY <1>4, <1>7
    <2> QED
      BY <1>2, <1>3, <1>4, <1>5, <1>7, <2>1, ReplyOK, SReady DEF S!Ord
  <1> QED
    BY <1>6, <1>7

LEMMA SizeOK ==
  ASSUME RInv, NEW v \in Var, size(v) PROVE RInv' /\ Same /\ S!Size(v)
  <1> DEFINE n == strings[held[v]].length
  <1>1. n = Len(Text[v]) /\ n \in Int
    BY HeldString, MaxIntAssumption
  <1>2. Ready /\ Reply(<<v>>, <<n>>)
    BY DEF size
  <1> HIDE DEF n
  <1>3. <<v>> \in Seq(Var) /\ <<n>> \in Seq(Int)
    BY <1>1
  <1> QED
    BY <1>1, <1>2, <1>3, ReplyOK, SReady DEF S!Size

LEMMA ChrOK ==
  ASSUME RInv, NEW v \in Var, NEW i \in Arg, chr(v, i) PROVE RInv' /\ Same /\ S!Chr(v, i)
  <1>1. i \in Byte <=> ~(i < 0 \/ i >= LastByte + 1)
    BY ArgAssumption, LastByteAssumption, MaxIntAssumption DEF Byte, Int32
  <1>2. CASE i \in Byte
    <2>1. Ready /\ Give(v, Consts(i))
      BY <1>1, <1>2 DEF chr
    <2>2. RInv' /\ Same /\ S!Store(v, <<i>>)
      BY <1>2, <2>1, MadeString, GiveOK
    <2> QED
      BY <1>2, <2>1, <2>2, SReady DEF S!Chr, S!Byte, Byte
  <1>3. CASE i \notin Byte
    <2>1. Ready /\ Stop("failed")
      BY <1>1, <1>3 DEF chr
    <2>2. RInv' /\ Same /\ S!Stop("failed")
      BY <2>1, StopOK DEF Statuses
    <2> QED
      BY <1>3, <2>1, <2>2, SReady DEF S!Chr, S!Byte, Byte
  <1> QED
    BY <1>2, <1>3

LEMMA GetCharOK ==
  ASSUME RInv, NEW v \in Var, wrap_getchar(v) PROVE RInv' /\ Same /\ S!GetChar(v)
  <1> PICK i \in -1..LastByte : (i = -1 /\ Give(v, empty)) \/ (i # -1 /\ Give(v, Consts(i)))
    BY DEF wrap_getchar
  <1>1. CASE i = -1
    <2>1. RInv' /\ Same /\ S!Store(v, <<>>)
      BY <1>1, MadeString, GiveOK, LastByteAssumption DEF Consts, Byte
    <2> QED
      BY <2>1, SReady DEF S!GetChar, wrap_getchar
  <1>2. CASE i # -1
    <2>1. i \in Byte
      BY <1>2, LastByteAssumption DEF Byte
    <2>2. RInv' /\ Same /\ S!Store(v, <<i>>)
      BY <1>2, <2>1, MadeString, GiveOK
    <2> QED
      BY <2>1, <2>2, SReady DEF S!GetChar, wrap_getchar, S!Byte, Byte
  <1> QED
    BY <1>1, <1>2

\* A sum of ints: exact, or else negative when neither is.
LEMMA PlusInts ==
  ASSUME NEW a \in Int32, NEW b \in Int32, a >= 0
  PROVE  /\ a + b <= MaxInt => Plus(a, b) = a + b
         /\ a + b > MaxInt => Plus(a, b) = a + b - 2 * (MaxInt + 1) /\ Plus(a, b) < 0
         /\ Plus(a, b) \in Int
  <1> DEFINE w == 2 * (MaxInt + 1)
             c == a + b + MaxInt + 1
  <1>1. w \in Int /\ w > 0 /\ c \in Int /\ c >= 0 /\ c < 2 * w
    BY MaxIntAssumption DEF Int32
  <1>2. (c < w => c % w = c) /\ (c >= w => c % w = c - w)
    <2> HIDE DEF c, w
    <2> QED
      BY <1>1
  <1>3. (c < w <=> a + b <= MaxInt) /\ Plus(a, b) = (c % w) - MaxInt - 1
    BY MaxIntAssumption DEF Int32, Plus
  <1> QED
    BY <1>1, <1>2, <1>3, MaxIntAssumption DEF Int32

LEMMA SubstringOK ==
  ASSUME RInv, NEW v \in Var, NEW w \in Var, NEW first \in Arg, NEW n \in Arg,
         substring(v, w, first, n)
  PROVE  RInv' /\ Same /\ S!Substring(v, w, first, n)
  <1> DEFINE s == strings[held[w]]
             c == [i \in 1..n |-> s.chars[first + i]]
             t == [length |-> n, chars |-> c]
             out == OutOfRange(s, first, n)
  <1>s. /\ s.chars \in Seq(Byte) /\ Text[w] = s.chars
        /\ s.length = Len(s.chars) /\ s.length \in 0..MaxInt
    BY HeldString
  <1>a. Ready /\ S!Ready
    BY SReady DEF substring
  <1>b. \/ out /\ Stop("failed")
        \/ ~out /\ ~Copyable(s, first, n) /\ Stop("undefined")
        \/ ~out /\ Copyable(s, first, n) /\ n = 1 /\ Give(v, Consts(s.chars[first + 1]))
        \/ ~out /\ Copyable(s, first, n) /\ n # 1 /\ Malloc(v, t)
    BY DEF substring
  <1>i. first \in Int32 /\ n \in Int32 /\ first \in Int /\ n \in Int /\ MaxInt \in Nat
        /\ first <= MaxInt /\ n <= MaxInt
    BY ArgAssumption, MaxIntAssumption DEF Int32
  <1>p. /\ first >= 0 /\ first + n <= MaxInt => Plus(first, n) = first + n
        /\ first >= 0 /\ first + n > MaxInt => Plus(first, n) < 0
        /\ Plus(first, n) \in Int
    BY <1>i, PlusInts DEF Plus
  <1> HIDE DEF s, out
  <1>o. out <=> first < 0 \/ Plus(first, n) > s.length
    BY DEF out, OutOfRange
  <1>1. CASE out /\ Stop("failed")
    <2>1. (first < 0 \/ Len(Text[w]) < first + n) /\ first + n <= MaxInt
      BY <1>1, <1>o, <1>p, <1>i, <1>s
    <2>2. RInv' /\ Same /\ S!Stop("failed")
      BY <1>1, StopOK DEF Statuses
    <2> QED
      BY <1>a, <2>1, <2>2 DEF S!Substring
  <1>2. CASE ~out /\ ~Copyable(s, first, n) /\ Stop("undefined")
    <2>1. first >= 0 /\ ((n < 0 /\ first + n <= Len(Text[w])) \/ first + n > MaxInt)
      BY <1>2, <1>o, <1>p, <1>i, <1>s DEF Copyable
    <2>2. RInv' /\ Same /\ S!Stop("undefined")
      BY <1>2, StopOK DEF Statuses
    <2> QED
      BY <1>a, <2>1, <2>2 DEF S!Substring
  <1>3. ASSUME ~out, Copyable(s, first, n)
        PROVE  /\ first >= 0 /\ n >= 0 /\ first + n <= Len(Text[w])
               /\ c = SubSeq(Text[w], first + 1, first + n)
               /\ c \in Seq(Byte) /\ Len(c) = n
    <2>1. first >= 0 /\ n >= 0 /\ first + n <= Len(s.chars)
      BY <1>3, <1>o, <1>i DEF Copyable
    <2>2. c \in [1..n -> Byte]
      BY <2>1, <1>i, <1>s
    <2>3. c = SubSeq(s.chars, first + 1, first + n)
      BY <2>1, <1>i, <1>s
    <2> QED
      BY <2>1, <2>2, <2>3, <1>i, <1>s, Listed
  <1>4. CASE ~out /\ Copyable(s, first, n) /\ n = 1 /\ Give(v, Consts(s.chars[first + 1]))
    <2>1. s.chars[first + 1] \in Byte /\ c = << s.chars[first + 1] >>
      BY <1>3, <1>4, <1>i, <1>s
    <2>2. RInv' /\ Same /\ S!Store(v, c)
      BY <1>4, <2>1, MadeString, GiveOK
    <2> QED
      BY <1>a, <1>3, <1>4, <2>2 DEF S!Substring
  <1>5. CASE ~out /\ Copyable(s, first, n) /\ n # 1 /\ Malloc(v, t)
    <2>1. t \in String /\ t.length = Len(t.chars) /\ t.chars = c
      BY <1>3, <1>5, <1>i DEF String
    <2> HIDE DEF t
    <2>2. RInv' /\ Same /\ S!Store(v, c)
      BY <1>5, <2>1, MallocOK
    <2> QED
      BY <1>a, <1>3, <1>5, <2>2 DEF S!Substring
  <1> QED
    BY <1>b, <1>1, <1>2, <1>4, <1>5

LEMMA ConcatOK ==
  ASSUME RInv, NEW v \in Var, NEW w \in Var, NEW x \in Var, concat(v, w, x)
  PROVE  RInv' /\ Same /\ S!Concat(v, w, x)
  <1> DEFINE a == strings[held[w]]
             b == strings[held[x]]
             n == Plus(a.length, b.length)
             c == [i \in 1..n |-> IF i <= a.length THEN a.chars[i] ELSE b.chars[i - a.length]]
             t == [length |-> n, chars |-> c]
  <1>s. /\ a.chars \in Seq(Byte) /\ Text[w] = a.chars
        /\ a.length = Len(a.chars) /\ a.length \in 0..MaxInt
        /\ b.chars \in Seq(Byte) /\ Text[x] = b.chars
        /\ b.length = Len(b.chars) /\ b.length \in 0..MaxInt
        /\ held[w] \in DOMAIN strings /\ held[x] \in DOMAIN strings
    BY HeldString
  <1>l. /\ Len(a.chars) = a.length /\ Len(b.chars) = b.length
        /\ Len(Text[w]) = a.length /\ Len(Text[x]) = b.length
        /\ a.length \in Nat /\ b.length \in Nat /\ MaxInt \in Nat
        /\ a.length <= MaxInt /\ b.length <= MaxInt
    BY <1>s, MaxIntAssumption
  <1>a. Ready /\ S!Ready
    BY SReady DEF concat
  <1>b. \/ a.length = 0 /\ Give(v, held[x])
        \/ a.length # 0 /\ b.length = 0 /\ Give(v, held[w])
        \/ n < 0 /\ Stop("undefined")
        \/ n >= 0 /\ Malloc(v, t)
    BY DEF concat
  <1>p. /\ a.length + b.length <= MaxInt => n = a.length + b.length
        /\ a.length + b.length > MaxInt => n < 0
        /\ n \in Int
    <2>1. a.length \in Int32 /\ b.length \in Int32 /\ a.length >= 0
      BY <1>l DEF Int32
    <2> QED
      BY <2>1, PlusInts
  <1>1. CASE a.length = 0 /\ Give(v, held[x])
    <2>1. RInv' /\ Same /\ S!Store(v, b.chars)
      BY <1>1, <1>s, GiveOK
    <2> HIDE DEF a, b
    <2>2. a.chars = <<>>
      BY <1>1, <1>s
    <2>l. Len(Text[w]) + Len(Text[x]) <= MaxInt
      BY <1>1, <1>l
    <2>3. Text[w] \o Text[x] = b.chars
      BY <2>2, <1>s
    <2> QED
      BY <1>a, <2>1, <2>3, <2>l DEF S!Concat
  <1>2. CASE a.length # 0 /\ b.length = 0 /\ Give(v, held[w])
    <2>1. RInv' /\ Same /\ S!Store(v, a.chars)
      BY <1>2, <1>s, GiveOK
    <2> HIDE DEF a, b
    <2>2. b.chars = <<>>
      BY <1>2, <1>s
    <2>l. Len(Text[w]) + Len(Text[x]) <= MaxInt
      BY <1>2, <1>l
    <2>3. Text[w] \o Text[x] = a.chars
      BY <2>2, <1>s
    <2> QED
      BY <1>a, <2>1, <2>3, <2>l DEF S!Concat
  <1> HIDE DEF a, b, n
  <1>3. CASE n < 0 /\ Stop("undefined")
    <2>1. Len(Text[w]) + Len(Text[x]) > MaxInt
      BY <1>3, <1>p, <1>l
    <2>2. RInv' /\ Same /\ S!Stop("undefined")
      BY <1>3, StopOK DEF Statuses
    <2> QED
      BY <1>a, <2>1, <2>2 DEF S!Concat
  <1>4. CASE n >= 0 /\ Malloc(v, t)
    <2>1. n = a.length + b.length /\ n <= MaxInt /\ n \in Nat
      BY <1>4, <1>p, <1>l
    <2>2. c \in [1..n -> Byte]
      <3> SUFFICES ASSUME NEW i \in 1..n
                   PROVE  (IF i <= a.length THEN a.chars[i] ELSE b.chars[i - a.length]) \in Byte
        OBVIOUS
      <3>1. i <= a.length => i \in 1..Len(a.chars)
        BY <2>1, <1>s, <1>l
      <3>2. ~(i <= a.length) => i - a.length \in 1..b.length
        BY SMTT(30), <2>1, <1>l
      <3> QED
        BY <3>1, <3>2, <1>s, <1>l
    <2>3. c = a.chars \o b.chars
      <3> DEFINE p == a.chars
                 q == b.chars
      <3>1. /\ p \in Seq(Byte) /\ q \in Seq(Byte)
            /\ Len(p) = a.length /\ n = Len(p) + Len(q)
        BY <2>1, <1>s, <1>l
      <3> HIDE DEF p, q
      <3>2. p \o q = [i \in 1..(Len(p) + Len(q)) |->
                       IF i <= Len(p) THEN p[i] ELSE q[i - Len(p)]]
        BY <3>1, JoinedAs
      <3> QED
        BY <3>1, <3>2 DEF p, q
    <2>4. t \in String /\ t.length = Len(t.chars) /\ t.chars = c
      <3>1. c \in Seq(Byte) /\ Len(c) = n /\ n \in Int32
        BY <2>1, <2>2, Listed, MaxIntAssumption DEF Int32
      <3> HIDE DEF c
      <3> QED
        BY <3>1 DEF String
    <2> HIDE DEF t, c
    <2>5. RInv' /\ Same /\ S!Store(v, c)
      BY <1>4, <2>4, MallocOK
    <2> QED
      BY <1>a, <1>s, <2>1, <2>3, <2>5 DEF S!Concat
  <1> QED
    BY <1>b, <1>1, <1>2, <1>3, <1>4

LEMMA InitArrayOK ==
  ASSUME RInv, NEW n \in Arg, NEW init \in Long, init_array(n, init)
  PROVE  RInv' /\ Same /\ S!InitArray(n, init)
  <1> DEFINE c == [i \in 1..n |-> init]
  <1>1. n \in Int /\ init \in Int
    BY ArgAssumption, MaxIntAssumption DEF Int32
  <1>2. c \in Seq(Int)
    <2>1. CASE n >= 0
      <3>1. c \in [1..n -> Int] /\ n \in Nat
        BY <1>1, <2>1
      <3> QED
        BY <3>1, Listed
    <2>2. CASE n < 0
      <3>1. c \in [1..0 -> Int]
        BY <1>1, <2>2
      <3> QED
        BY <3>1, Listed
    <2> QED
      BY <2>1, <2>2, <1>1
  <1>3. <<>> \in Seq(Var) /\ Ready /\ Reply(<<>>, c)
    BY DEF init_array
  <1> HIDE DEF c
  <1>4. RInv' /\ Same /\ S!Reply(<<>>, c)
    BY <1>2, <1>3, ReplyOK
  <1> QED
    BY <1>3, <1>4, SReady DEF S!InitArray, c

LEMMA AllocRecordOK ==
  ASSUME RInv, NEW bytes \in Arg, alloc_record(bytes)
  PROVE  RInv' /\ Same /\ S!AllocRecord(bytes)
  <1> DEFINE n == IF bytes <= 0 THEN 0 ELSE (bytes + 3) \div 4
             c == [i \in 1..n |-> 0]
  <1>1. bytes \in Int
    BY ArgAssumption, MaxIntAssumption DEF Int32
  <1>2. /\ Ready /\ <<>> \in Seq(Var)
        /\ \/ (n = 0 \/ 4 * n <= bytes) /\ Reply(<<>>, c)
           \/ n > 0 /\ 4 * n > bytes /\ Stop("undefined")
    BY DEF alloc_record
  <1>3. n \in Nat /\ (bytes <= 0 => n = 0)
        /\ (bytes > 0 => 4 * n >= bytes /\ 4 * n <= bytes + 3)
    BY <1>1
  <1>4. bytes > 0 => (4 * n <= bytes <=> bytes % 4 = 0) /\ (bytes % 4 = 0 => n = bytes \div 4)
    BY <1>1
  <1>5. c \in Seq(Int)
    <2>1. c \in [1..n -> Int]
      BY <1>3
    <2> QED
      BY <1>3, <2>1, Listed
  <1>6. n = 0 => c = <<>>
    BY DEF c
  <1> HIDE DEF n
  <1>7. CASE (n = 0 \/ 4 * n <= bytes) /\ Reply(<<>>, c)
    <2> HIDE DEF c
    <2>1. RInv' /\ Same /\ S!Reply(<<>>, c)
      BY <1>2, <1>5, <1>7, ReplyOK
    <2>2. CASE bytes <= 0
      BY <1>2, <1>3, <1>6, <2>1, <2>2, SReady DEF S!AllocRecord
    <2>3. CASE bytes > 0
      <3>1. bytes % 4 = 0 /\ n = bytes \div 4
        BY <1>1, <1>3, <1>4, <1>7, <2>3
      <3> QED
        BY <1>2, <2>1, <2>3, <3>1, SReady DEF S!AllocRecord, c
    <2> QED
      BY <1>1, <2>2, <2>3
  <1>8. CASE n > 0 /\ 4 * n > bytes /\ Stop("undefined")
    <2>1. RInv' /\ Same /\ S!Stop("undefined")
      BY <1>8, StopOK DEF Statuses
    <2>2. bytes > 0 /\ bytes % 4 # 0
      BY <1>1, <1>3, <1>4, <1>8
    <2> QED
      BY <1>2, <2>1, <2>2, SReady DEF S!AllocRecord
  <1> QED
    BY <1>2, <1>7, <1>8

LEMMA TakeOK == ASSUME RInv, Take PROVE RInv' /\ Same /\ S!Take
  <1>1. NoAnswer \in [of : Seq(Var), ints : Seq(Int)]
    BY DEF NoAnswer
  <1>2. RInv' /\ Same
    BY <1>1 DEF RInv, RuntimeTypeOK, StringsSound, Take, Same
  <1>3. Text' = Text
    BY DEF Text, Take
  <1> QED
    BY <1>2, <1>3 DEF S!Take, Take, S!NoAnswer, NoAnswer

LEMMA ReturnOK == ASSUME RInv, Return PROVE RInv' /\ Same /\ S!Return
  <1>1. RInv' /\ Same /\ S!Stop("returned")
    BY StopOK DEF Return, Statuses
  <1> QED
    BY <1>1, SReady DEF Return, S!Return

-----------------------------------------------------------------------------
(* The theorems *)

\* Every step keeps the invariant and the strings, and is an abstract step.
LEMMA Step ==
  ASSUME RInv, [RuntimeNext]_runtimeVars
  PROVE  RInv' /\ Same /\ (S!Next \/ UNCHANGED <<Text, answer, status>>)
  <1>1. CASE UNCHANGED runtimeVars
    <2>1. RInv' /\ Same
      BY <1>1 DEF RInv, RuntimeTypeOK, StringsSound, runtimeVars, Same
    <2>2. UNCHANGED <<Text, answer, status>>
      BY <1>1 DEF Text, runtimeVars
    <2> QED
      BY <2>1, <2>2
  <1>2. ASSUME NEW v \in Var, NEW w \in Var, CopyVar(v, w) \/ string_equal(v, w)
        PROVE  RInv' /\ Same /\ S!Next
    BY <1>2, CopyOK, EqualOK DEF S!Next
  <1>3. ASSUME NEW v \in Var, NEW j \in DOMAIN Literal, LoadLiteral(v, j)
        PROVE  RInv' /\ Same /\ S!Next
    BY <1>3, LiteralOK DEF S!Next
  <1>4. ASSUME NEW v \in Var, ord(v) \/ size(v) \/ print(v) \/ wrap_getchar(v)
        PROVE  RInv' /\ Same /\ S!Next
    BY <1>4, OrdOK, SizeOK, PrintOK, GetCharOK DEF S!Next
  <1>5. ASSUME NEW v \in Var, NEW i \in Arg, chr(v, i)
        PROVE  RInv' /\ Same /\ S!Next
    BY <1>5, ChrOK DEF S!Next
  <1>6. ASSUME NEW v \in Var, NEW w \in Var, NEW first \in Arg, NEW n \in Arg,
               substring(v, w, first, n)
        PROVE  RInv' /\ Same /\ S!Next
    BY <1>6, SubstringOK DEF S!Next
  <1>7. ASSUME NEW v \in Var, NEW w \in Var, NEW x \in Var, concat(v, w, x)
        PROVE  RInv' /\ Same /\ S!Next
    BY <1>7, ConcatOK DEF S!Next
  <1>8. ASSUME NEW n \in Arg, NEW init \in Long, init_array(n, init)
        PROVE  RInv' /\ Same /\ S!Next
    BY <1>8, InitArrayOK DEF S!Next
  <1>9. ASSUME NEW bytes \in Arg, alloc_record(bytes)
        PROVE  RInv' /\ Same /\ S!Next
    BY <1>9, AllocRecordOK DEF S!Next
  <1>10. CASE Take \/ Return
    BY <1>10, TakeOK, ReturnOK DEF S!Next
  <1> QED
    BY <1>1, <1>2, <1>3, <1>4, <1>5, <1>6, <1>7, <1>8, <1>9, <1>10 DEF RuntimeNext

\* Each call is the abstract call of its name.
LEMMA CallOK == ASSUME RInv PROVE StringsStep
  <1>1. \A v, w \in Var : /\ CopyVar(v, w) => S!Copy(v, w)
                          /\ string_equal(v, w) => S!StringEqual(v, w)
    BY CopyOK, EqualOK
  <1>2. \A v \in Var, j \in DOMAIN Literal : LoadLiteral(v, j) => S!Load(v, Literal[j])
    BY LiteralOK
  <1>3. \A v \in Var : /\ ord(v) => S!Ord(v)
                       /\ size(v) => S!Size(v)
                       /\ print(v) => S!PrintText(v)
                       /\ wrap_getchar(v) => S!GetChar(v)
    BY OrdOK, SizeOK, PrintOK, GetCharOK
  <1>4. \A v \in Var, i \in Arg : chr(v, i) => S!Chr(v, i)
    BY ChrOK
  <1>5. \A v, w \in Var, first, n \in Arg :
          substring(v, w, first, n) => S!Substring(v, w, first, n)
    BY SubstringOK
  <1>6. \A v, w, x \in Var : concat(v, w, x) => S!Concat(v, w, x)
    BY ConcatOK
  <1>7. \A elements \in Arg, init \in Long :
          init_array(elements, init) => S!InitArray(elements, init)
    BY InitArrayOK
  <1>8. \A bytes \in Arg : alloc_record(bytes) => S!AllocRecord(bytes)
    BY AllocRecordOK
  <1>9. (Take => S!Take) /\ (Return => S!Return)
    BY TakeOK, ReturnOK
  <1> QED
    BY <1>1, <1>2, <1>3, <1>4, <1>5, <1>6, <1>7, <1>8, <1>9 DEF StringsStep

\* At every time the variables have their types and the strings are sound.
THEOREM RuntimeInvariance == RuntimeSpec => []RInv
  <1>1. RInv /\ [RuntimeNext]_runtimeVars => RInv'
    BY Step
  <1> QED
    BY InitInv, <1>1, PTL DEF RuntimeSpec

\* Addresses held, lengths and bytes have their types, after any calls.
THEOREM RuntimeTypeCorrect == RuntimeSpec => []RuntimeTypeOK
  <1>1. RInv => RuntimeTypeOK
    BY DEF RInv
  <1> QED
    BY RuntimeInvariance, <1>1, PTL

\* The lengths of strings are right, and consts, empty and the literals are never
\* overwritten.
THEOREM StringsAlwaysSound == RuntimeSpec => []StringsSound
  <1>1. RInv => StringsSound
    BY DEF RInv
  <1> QED
    BY RuntimeInvariance, <1>1, PTL

\* No call of the runtime changes a string that is there.
THEOREM StringsAreImmutable == RuntimeSpec => StringsNeverChange
  <1>1. RInv /\ [RuntimeNext]_runtimeVars =>
          [\A a \in DOMAIN strings : a \in DOMAIN strings' /\ strings'[a] = strings[a]]_runtimeVars
    BY Step DEF Same
  <1> QED
    BY RuntimeInvariance, <1>1, PTL DEF RuntimeSpec, StringsNeverChange

\* The runtime implements Strings, each call the abstract call of the same name.
THEOREM RuntimeImplementsStrings == RuntimeSpec => ImplementsStrings
  <1>1. RuntimeInit => S!Init
    <2> SUFFICES ASSUME RuntimeInit PROVE S!Init
      OBVIOUS
    <2>1. RInv
      BY InitInv
    <2>2. strings[empty].chars = <<>>
      BY <2>1 DEF RInv, StringsSound
    <2>3. Text = [v \in Var |-> <<>>]
      BY <2>2 DEF Text, RuntimeInit
    <2> QED
      BY <2>3 DEF RuntimeInit, S!Init, NoAnswer, S!NoAnswer
  <1>2. RInv /\ [RuntimeNext]_runtimeVars => [S!Next]_(S!vars)
    BY Step DEF S!vars
  <1>3. RInv => [StringsStep]_runtimeVars
    BY CallOK
  <1> QED
    BY RuntimeInvariance, <1>1, <1>2, <1>3, PTL DEF RuntimeSpec, ImplementsStrings, S!Spec
=============================================================================
