------------------------------- MODULE Runtime ------------------------------
(***************************************************************************)
(* The C library of compiled programs (src/tiger/runtime/runtime.c) under  *)
(* any program that calls it.  A string is an object that whoever has its  *)
(* address shares: chr, getchar and substring hand out the 256 strings of  *)
(* consts, concat hands out its arguments.                                 *)
(*                                                                         *)
(* strings holds every string object, at its address: first consts, then   *)
(* empty, then the literals of the program, then what malloc returned, and *)
(* nothing is ever freed.  The program, its variables and its literals are *)
(* external.  printi, flush, not and sum_seven touch no state modelled     *)
(* here.  A definition whose comment begins with "Slip" is a variant of    *)
(* the one after it, with a mistake in it.                                 *)
(***************************************************************************)
EXTENDS Integers, Sequences

CONSTANTS
  Var,        \* the program's string variables
  Literal,    \* the literals of the program
  LastByte,   \* the largest unsigned char
  MaxInt,     \* the largest int
  Arg,        \* the ints the program passes
  Long,       \* the longs the program fills arrays with
  MaxStrings  \* bound: the string objects there are

Byte == 0..LastByte
Int32 == (-MaxInt - 1)..MaxInt

ASSUME LastByteAssumption == LastByte \in Nat
ASSUME MaxIntAssumption == MaxInt \in Nat \ {0} /\ LastByte <= MaxInt
ASSUME ArgAssumption == Arg \subseteq Int32 /\ Long \subseteq Int
ASSUME LiteralAssumption ==
  /\ Literal \in Seq(Seq(Byte))
  /\ \A j \in DOMAIN Literal : Len(Literal[j]) <= MaxInt
ASSUME MaxStringsAssumption == MaxStrings \in Nat

VARIABLES
  strings,
  held,     \* the address in each variable
  answer,   \* the ints the last call returned, printed or put into a block, if any,
            \* and the variables it was asked about
  status    \* "running", or how the process ended

runtimeVars == <<strings, held, answer, status>>

String == [length : Int32, chars : Seq(Byte)]

\* consts + i
Consts(i) == i + 1
empty == LastByte + 2

\* A string object of these bytes.
Bytes(chars) == [length |-> Len(chars), chars |-> chars]

NoAnswer == [of |-> <<>>, ints |-> <<>>]

\* The state in which tigermain is called.
RuntimeInit ==
  /\ strings = [i \in 1..(LastByte + 1) |-> Bytes(<<i - 1>>)] \o << Bytes(<<>>) >>
                 \o [j \in DOMAIN Literal |-> Bytes(Literal[j])]
  /\ held = [v \in Var |-> empty]
  /\ answer = NoAnswer
  /\ status = "running"

\* The program takes the answer of a call before it makes the next.
Ready == status = "running" /\ answer = NoAnswer

\* An int sum of two ints: it wraps around.
Plus(a, b) == ((a + b + MaxInt + 1) % (2 * (MaxInt + 1))) - MaxInt - 1

\* A call returns the string at a, which the program puts into v.
Give(v, a) ==
  /\ held' = [held EXCEPT ![v] = a]
  /\ UNCHANGED <<strings, answer, status>>

\* A call returns a string it allocated.
Malloc(v, s) ==
  /\ Len(strings) < MaxStrings
  /\ strings' = Append(strings, s)
  /\ held' = [held EXCEPT ![v] = Len(strings) + 1]
  /\ UNCHANGED <<answer, status>>

Reply(asked, a) == answer' = [of |-> asked, ints |-> a] /\ UNCHANGED <<strings, held, status>>

\* exit(1) after a message, the end of the program, and an access outside an object,
\* after which nothing is known.
Stop(how) == status' = how /\ UNCHANGED <<strings, held, answer>>

-----------------------------------------------------------------------------
(* Strings *)

CopyVar(v, w) == Ready /\ Give(v, held[w])

LoadLiteral(v, j) == Ready /\ Give(v, empty + j)

string_equal(v, w) ==
  /\ Ready
  /\ LET s == strings[held[v]]
         t == strings[held[w]]
         same == \/ held[v] = held[w]
                 \/ s.length = t.length /\ \A i \in 1..s.length : s.chars[i] = t.chars[i]
     IN  \/ same /\ Reply(<<v, w>>, <<1>>)
         \/ ~same /\ Reply(<<v, w>>, <<0>>)

print(v) ==
  /\ Ready
  /\ LET s == strings[held[v]] IN Reply(<<v>>, [i \in 1..s.length |-> s.chars[i]])

ord(v) ==
  /\ Ready
  /\ LET s == strings[held[v]]
     IN  \/ s.length = 0 /\ Reply(<<v>>, <<-1>>)
         \/ s.length # 0 /\ Reply(<<v>>, <<s.chars[1]>>)

size(v) == Ready /\ Reply(<<v>>, <<strings[held[v]].length>>)

chr(v, i) ==
  /\ Ready
  /\ \/ (i < 0 \/ i >= LastByte + 1) /\ Stop("failed")
     \/ ~(i < 0 \/ i >= LastByte + 1) /\ Give(v, Consts(i))

\* first + n may have wrapped to a negative number, and n is not checked.
OutOfRange(s, first, n) == first < 0 \/ Plus(first, n) > s.length

\* The bytes to copy are in s and the string to copy them to has room for its length.
Copyable(s, first, n) == n >= 0 /\ first + n <= Len(s.chars)

\* Slip: the end is not compared with the length.
SubstringUnchecked(v, w, first, n) ==
  /\ Ready
  /\ LET s == strings[held[w]]
     IN  \/ first < 0 /\ Stop("failed")
         \/ first >= 0 /\ ~Copyable(s, first, n) /\ Stop("undefined")
         \/ /\ first >= 0 /\ Copyable(s, first, n)
            /\ \/ n = 1 /\ Give(v, Consts(s.chars[first + 1]))
               \/ n # 1 /\ Malloc(v, [length |-> n,
                                      chars |-> [i \in 1..n |-> s.chars[first + i]]])

substring(v, w, first, n) ==
  /\ Ready
  /\ LET s == strings[held[w]]
     IN  \/ OutOfRange(s, first, n) /\ Stop("failed")
         \/ /\ ~OutOfRange(s, first, n) /\ ~Copyable(s, first, n)
            /\ Stop("undefined")
         \/ /\ ~OutOfRange(s, first, n) /\ Copyable(s, first, n)
            /\ \/ n = 1 /\ Give(v, Consts(s.chars[first + 1]))
               \/ n # 1 /\ Malloc(v, [length |-> n,
                                      chars |-> [i \in 1..n |-> s.chars[first + i]]])

\* Slip: the second string is added in place when the first was allocated.
ConcatInPlace(v, w, x) ==
  /\ Ready
  /\ LET a == strings[held[w]]
         b == strings[held[x]]
     IN  \/ a.length = 0 /\ Give(v, held[x])
         \/ a.length # 0 /\ b.length = 0 /\ Give(v, held[w])
         \/ /\ a.length # 0 /\ b.length # 0 /\ a.length + b.length <= MaxInt
            /\ held[w] > empty + Len(Literal)
            /\ strings' = [strings EXCEPT ![held[w]] = Bytes(a.chars \o b.chars)]
            /\ held' = [held EXCEPT ![v] = held[w]]
            /\ UNCHANGED <<answer, status>>
         \/ /\ a.length # 0 /\ b.length # 0 /\ a.length + b.length <= MaxInt
            /\ held[w] <= empty + Len(Literal)
            /\ Malloc(v, Bytes(a.chars \o b.chars))

\* Slip: the length of the new string is that of the first.
ConcatShort(v, w, x) ==
  /\ Ready
  /\ LET a == strings[held[w]]
         b == strings[held[x]]
     IN  \/ a.length = 0 /\ Give(v, held[x])
         \/ a.length # 0 /\ b.length = 0 /\ Give(v, held[w])
         \/ /\ a.length # 0 /\ b.length # 0
            /\ Malloc(v, [length |-> a.length, chars |-> a.chars \o b.chars])

\* A sum of the lengths that wraps leaves too little room for the bytes.
concat(v, w, x) ==
  /\ Ready
  /\ LET a == strings[held[w]]
         b == strings[held[x]]
         n == Plus(a.length, b.length)
     IN  \/ a.length = 0 /\ Give(v, held[x])
         \/ a.length # 0 /\ b.length = 0 /\ Give(v, held[w])
         \/ a.length # 0 /\ b.length # 0 /\ n < 0 /\ Stop("undefined")
         \/ /\ a.length # 0 /\ b.length # 0 /\ n >= 0
            /\ Malloc(v, [length |-> n,
                          chars |-> [i \in 1..n |-> IF i <= a.length THEN a.chars[i]
                                                    ELSE b.chars[i - a.length]]])

\* Slip: the end of the input is not told apart.
GetCharRaw(v) == Ready /\ \E i \in -1..LastByte : Give(v, Consts(i))

\* __wrap_getchar: i is what getc returns, -1 being EOF.
wrap_getchar(v) ==
  /\ Ready
  /\ \E i \in -1..LastByte :
       \/ i = -1 /\ Give(v, empty)
       \/ i # -1 /\ Give(v, Consts(i))

-----------------------------------------------------------------------------
(* Blocks *)

\* A negative size asks malloc for more than there is; the null pointer is returned, and
\* nothing is written.
init_array(elements, init) == Ready /\ Reply(<<>>, [i \in 1..elements |-> init])

\* An int is 4 bytes; one is written at each multiple of 4 below bytes.
alloc_record(bytes) ==
  LET ints == IF bytes <= 0 THEN 0 ELSE (bytes + 3) \div 4
  IN  /\ Ready
      /\ \/ (ints = 0 \/ 4 * ints <= bytes) /\ Reply(<<>>, [i \in 1..ints |-> 0])
         \/ ints > 0 /\ 4 * ints > bytes /\ Stop("undefined")

Take == answer # NoAnswer /\ answer' = NoAnswer /\ UNCHANGED <<strings, held, status>>

Return == Ready /\ Stop("returned")

-----------------------------------------------------------------------------

RuntimeNext ==
  \/ \E v, w \in Var : CopyVar(v, w) \/ string_equal(v, w)
  \/ \E v \in Var, j \in DOMAIN Literal : LoadLiteral(v, j)
  \/ \E v \in Var : ord(v) \/ size(v) \/ print(v) \/ wrap_getchar(v)
  \/ \E v \in Var, i \in Arg : chr(v, i)
  \/ \E v, w \in Var, first, n \in Arg : substring(v, w, first, n)
  \/ \E v, w, x \in Var : concat(v, w, x)
  \/ \E elements \in Arg, init \in Long : init_array(elements, init)
  \/ \E bytes \in Arg : alloc_record(bytes)
  \/ Take \/ Return
  \/ status # "running" /\ UNCHANGED runtimeVars

RuntimeSpec == RuntimeInit /\ [][RuntimeNext]_runtimeVars

-----------------------------------------------------------------------------
(* Properties *)

Statuses == {"running", "returned", "failed", "undefined"}

\* Every variable has its type.
RuntimeTypeOK ==
  /\ strings \in Seq(String)
  /\ held \in [Var -> DOMAIN strings]
  /\ answer \in [of : Seq(Var), ints : Seq(Int)]
  /\ status \in Statuses

\* The length of a string is the number of its bytes, whichever calls made it, and
\* the strings of consts, the empty one and the literals are what they were.
StringsSound ==
  /\ \A a \in DOMAIN strings : strings[a].length = Len(strings[a].chars)
  /\ empty + Len(Literal) <= Len(strings)
  /\ strings[empty].chars = <<>>
  /\ \A i \in Byte : strings[Consts(i)].chars = <<i>>
  /\ \A j \in DOMAIN Literal : strings[empty + j].chars = Literal[j]

\* No call changes a string that somebody may hold: calls can return strings that
\* others hold.
StringsNeverChange ==
  [][\A a \in DOMAIN strings :
       a \in DOMAIN strings' /\ strings'[a] = strings[a]]_runtimeVars

\* The bytes in the program's variables.
Text == [v \in Var |-> strings[held[v]].chars]
S == INSTANCE Strings WITH text <- Text, Literals <- {Literal[j] : j \in DOMAIN Literal}

\* Whatever a call does, its own abstract call does, with the same arguments.
StringsStep ==
  /\ \A v, w \in Var : /\ CopyVar(v, w) => S!Copy(v, w)
                       /\ string_equal(v, w) => S!StringEqual(v, w)
  /\ \A v \in Var, j \in DOMAIN Literal : LoadLiteral(v, j) => S!Load(v, Literal[j])
  /\ \A v \in Var : /\ ord(v) => S!Ord(v)
                    /\ size(v) => S!Size(v)
                    /\ print(v) => S!PrintText(v)
                    /\ wrap_getchar(v) => S!GetChar(v)
  /\ \A v \in Var, i \in Arg : chr(v, i) => S!Chr(v, i)
  /\ \A v, w \in Var, first, n \in Arg :
       substring(v, w, first, n) => S!Substring(v, w, first, n)
  /\ \A v, w, x \in Var : concat(v, w, x) => S!Concat(v, w, x)
  /\ \A elements \in Arg, init \in Long :
       init_array(elements, init) => S!InitArray(elements, init)
  /\ \A bytes \in Arg : alloc_record(bytes) => S!AllocRecord(bytes)
  /\ Take => S!Take
  /\ Return => S!Return

\* The program's strings are values: sharing shows nowhere.  Each call is judged by its
\* own promise, whichever other call could have done the same: substring and chr end the
\* program when, and only when, a position is out of range, and an access outside an
\* object needs, in substring, a negative length or an end beyond an int, in concat, a
\* sum of lengths beyond an int, in alloc_record, a record of broken ints.
ImplementsStrings == S!Spec /\ [][StringsStep]_runtimeVars
=============================================================================
