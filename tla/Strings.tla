------------------------------- MODULE Strings ------------------------------
(***************************************************************************)
(* What the runtime library promises a compiled program: strings are       *)
(* values, sequences of bytes, and every call answers from the values of   *)
(* its arguments.  A position out of range ends the program.  What is not  *)
(* promised is named: a negative length, a sum of lengths beyond an int,   *)
(* a record that is not made of whole ints; status is then "undefined".    *)
(***************************************************************************)
EXTENDS Integers, Sequences

CONSTANTS
  Var,       \* the program's string variables
  Literals,  \* the strings written in the program
  LastByte,  \* the largest byte
  MaxInt,    \* the largest int
  Arg,       \* the ints the program passes
  Long       \* the longs it fills arrays with

VARIABLES
  text,    \* the string in each variable
  answer,  \* the ints the last call returned, printed or put into a block, if any,
           \* and the variables it was asked about
  status

vars == <<text, answer, status>>

Byte == 0..LastByte

NoAnswer == [of |-> <<>>, ints |-> <<>>]

\* The program takes the answer of a call before it makes the next.
Ready == status = "running" /\ answer = NoAnswer

Store(v, s) == text' = [text EXCEPT ![v] = s] /\ UNCHANGED <<answer, status>>
Reply(asked, a) == answer' = [of |-> asked, ints |-> a] /\ UNCHANGED <<text, status>>
Stop(how) == status' = how /\ UNCHANGED <<text, answer>>

Init == text = [v \in Var |-> <<>>] /\ answer = NoAnswer /\ status = "running"

Copy(v, w) == Ready /\ Store(v, text[w])

Load(v, s) == Ready /\ s \in Literals /\ Store(v, s)

\* Equal strings are those of the same bytes, wherever they come from.
StringEqual(v, w) ==
  /\ Ready
  /\ \/ text[v] = text[w] /\ Reply(<<v, w>>, <<1>>)
     \/ text[v] # text[w] /\ Reply(<<v, w>>, <<0>>)

Ord(v) ==
  /\ Ready
  /\ \/ text[v] = <<>> /\ Reply(<<v>>, <<-1>>)
     \/ text[v] # <<>> /\ Reply(<<v>>, <<Head(text[v])>>)

Size(v) == Ready /\ Reply(<<v>>, <<Len(text[v])>>)

PrintText(v) == Ready /\ Reply(<<v>>, text[v])

Chr(v, i) ==
  /\ Ready
  /\ \/ i \in Byte /\ Store(v, <<i>>)
     \/ i \notin Byte /\ Stop("failed")

\* The end, first + n, is computed with as many bits as it needs here.
Substring(v, w, first, n) ==
  /\ Ready
  /\ \/ first >= 0 /\ n >= 0 /\ first + n <= Len(text[w])
        /\ Store(v, SubSeq(text[w], first + 1, first + n))
     \/ (first < 0 \/ Len(text[w]) < first + n) /\ first + n <= MaxInt /\ Stop("failed")
     \/ first >= 0 /\ ((n < 0 /\ first + n <= Len(text[w])) \/ first + n > MaxInt)
        /\ Stop("undefined")

Concat(v, w, x) ==
  /\ Ready
  /\ \/ Len(text[w]) + Len(text[x]) <= MaxInt /\ Store(v, text[w] \o text[x])
     \/ Len(text[w]) + Len(text[x]) > MaxInt /\ Stop("undefined")

\* A byte of the input, or the end of it.
GetChar(v) == Ready /\ \E s \in {<<>>} \union {<<i>> : i \in Byte} : Store(v, s)

InitArray(size, init) == Ready /\ Reply(<<>>, [j \in 1..size |-> init])

\* Four bytes to an int.
AllocRecord(size) ==
  /\ Ready
  /\ \/ size <= 0 /\ Reply(<<>>, <<>>)
     \/ size > 0 /\ size % 4 = 0 /\ Reply(<<>>, [j \in 1..(size \div 4) |-> 0])
     \/ size > 0 /\ size % 4 # 0 /\ Stop("undefined")

Take == answer # NoAnswer /\ answer' = NoAnswer /\ UNCHANGED <<text, status>>

Return == Ready /\ Stop("returned")

Next ==
  \/ \E v, w \in Var : Copy(v, w) \/ StringEqual(v, w)
  \/ \E v \in Var, s \in Literals : Load(v, s)
  \/ \E v \in Var : Ord(v) \/ Size(v) \/ PrintText(v) \/ GetChar(v)
  \/ \E v \in Var, i \in Arg : Chr(v, i)
  \/ \E v, w \in Var, first, n \in Arg : Substring(v, w, first, n)
  \/ \E v, w, x \in Var : Concat(v, w, x)
  \/ \E size \in Arg, init \in Long : InitArray(size, init)
  \/ \E size \in Arg : AllocRecord(size)
  \/ Take \/ Return

Spec == Init /\ [][Next]_vars
=============================================================================
