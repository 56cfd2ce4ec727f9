--------------------------- MODULE ScannerProofs ----------------------------
(***************************************************************************)
(* The invariants of the scanner and of the error object it counts lines   *)
(* with, for every set of files, every set of reserved words and every int *)
(* width.                                                                  *)
(***************************************************************************)
EXTENDS Scanner, SequenceTheorems, FiniteSetTheorems, WellFoundedInduction, TLAPS

-----------------------------------------------------------------------------
(* What the operators of ErrorMsg return and preserve, for every object *)

\* The table of an object is in step with its line counter and sorted, latest line
\* first, down to the entry of line 1; no line begins after the current token.
Sound(e) ==
  /\ Len(e.line_pos_) = e.line_num_
  /\ e.line_pos_ # <<>> /\ e.line_pos_[Len(e.line_pos_)] = 0
  /\ \A i, j \in DOMAIN e.line_pos_ : i <= j => e.line_pos_[j] <= e.line_pos_[i]
  /\ \A i \in DOMAIN e.line_pos_ : e.line_pos_[i] <= e.tok_pos_

\* The constructor returns a sound object.
LEMMA NewSound == NewErrorMsg \in ErrorMsgType /\ Sound(NewErrorMsg)
BY DEF NewErrorMsg, ErrorMsgType, Sound

\* Newline puts the current token before the entries there are, and moves no token.
LEMMA NewlineTable ==
  ASSUME NEW e \in ErrorMsgType
  PROVE  /\ Newline(e) \in ErrorMsgType
         /\ Newline(e).line_num_ = e.line_num_ + 1
         /\ Newline(e).tok_pos_ = e.tok_pos_ /\ Newline(e).any_errors_ = e.any_errors_
         /\ Len(Newline(e).line_pos_) = Len(e.line_pos_) + 1
         /\ Newline(e).line_pos_[1] = e.tok_pos_
         /\ \A i \in 2..(Len(e.line_pos_) + 1) : Newline(e).line_pos_[i] = e.line_pos_[i - 1]
  <1>. DEFINE lp == e.line_pos_
              mp == <<e.tok_pos_>> \o lp
  <1>1. lp \in Seq(Nat) /\ <<e.tok_pos_>> \in Seq(Nat) /\ e.tok_pos_ \in Nat
    BY DEF ErrorMsgType
  <1>2. mp \in Seq(Nat) /\ Len(mp) = Len(lp) + 1 /\ mp[1] = e.tok_pos_
        /\ \A i \in 2..(Len(lp) + 1) : mp[i] = lp[i - 1]
    <2>1. Len(<<e.tok_pos_>>) = 1 /\ <<e.tok_pos_>>[1] = e.tok_pos_
      OBVIOUS
    <2>2. Len(lp) \in Nat
      BY <1>1
    <2>. QED BY <1>1, <2>1, <2>2, ConcatProperties
  <1>. HIDE DEF mp
  <1>. DEFINE k == e.line_num_ + 1
  <1>3. Newline(e) = [e EXCEPT !.line_num_ = k, !.line_pos_ = mp]
    BY DEF Newline, mp
  <1>4. k \in Nat
    BY DEF ErrorMsgType
  <1>. HIDE DEF k
  <1>5. [e EXCEPT !.line_num_ = k, !.line_pos_ = mp] \in ErrorMsgType
    BY <1>2, <1>4 DEF ErrorMsgType
  <1>6. /\ Newline(e).line_pos_ = mp /\ Newline(e).line_num_ = e.line_num_ + 1
        /\ Newline(e).tok_pos_ = e.tok_pos_ /\ Newline(e).any_errors_ = e.any_errors_
    BY <1>3, <1>5 DEF ErrorMsgType, k
  <1>. QED BY <1>2, <1>3, <1>5, <1>6

\* Newline preserves soundness.
LEMMA NewlineSound ==
  ASSUME NEW e \in ErrorMsgType, Sound(e)
  PROVE  /\ Newline(e) \in ErrorMsgType /\ Sound(Newline(e))
         /\ Newline(e).tok_pos_ = e.tok_pos_
         /\ Newline(e).any_errors_ = e.any_errors_
  <1>. DEFINE lp == e.line_pos_
              mp == Newline(e).line_pos_
  <1>1. lp \in Seq(Nat) /\ mp \in Seq(Nat) /\ e.tok_pos_ \in Nat
    BY NewlineTable DEF ErrorMsgType
  <1>2. /\ Len(mp) = Len(lp) + 1 /\ mp[1] = e.tok_pos_
        /\ \A i \in 2..(Len(lp) + 1) : mp[i] = lp[i - 1]
    BY NewlineTable
  <1>. HIDE DEF mp
  <1>3. /\ Newline(e).line_pos_ = mp /\ Newline(e).line_num_ = e.line_num_ + 1
        /\ Newline(e).tok_pos_ = e.tok_pos_ /\ Newline(e).any_errors_ = e.any_errors_
        /\ Newline(e) \in ErrorMsgType
    BY NewlineTable DEF mp
  <1>4. DOMAIN lp = 1..Len(lp) /\ DOMAIN mp = 1..(Len(lp) + 1) /\ Len(lp) \in Nat \ {0}
    BY <1>1, <1>2, LenProperties, EmptySeq DEF Sound
  <1>5. \A i, j \in DOMAIN mp : i <= j => mp[j] <= mp[i]
    <2>. SUFFICES ASSUME NEW i \in DOMAIN mp, NEW j \in DOMAIN mp, i <= j
                  PROVE  mp[j] <= mp[i]
      OBVIOUS
    <2>1. CASE i = 1
      <3>1. mp[i] = e.tok_pos_ /\ (j = 1 \/ j - 1 \in DOMAIN lp)
        BY <2>1, <1>2, <1>4
      <3>2. CASE j = 1
        BY <2>1, <3>1, <3>2, <1>1
      <3>3. CASE j - 1 \in DOMAIN lp
        <4>1. mp[j] = lp[j - 1] /\ lp[j - 1] <= e.tok_pos_
          BY <3>3, <1>2, <1>4 DEF Sound
        <4>. QED BY <4>1, <3>1
      <3>. QED BY <3>1, <3>2, <3>3
    <2>2. CASE i # 1
      <3>1. i - 1 \in DOMAIN lp /\ j - 1 \in DOMAIN lp /\ i - 1 <= j - 1
        BY <2>2, <1>4
      <3>2. mp[i] = lp[i - 1] /\ mp[j] = lp[j - 1]
        BY <2>2, <1>2, <1>4
      <3>. QED BY <3>1, <3>2 DEF Sound
    <2>. QED BY <2>1, <2>2
  <1>6. \A i \in DOMAIN mp : mp[i] <= e.tok_pos_
    <2>1. 1 \in DOMAIN mp /\ \A i \in DOMAIN mp : 1 <= i
      BY <1>4
    <2>. QED BY <1>2, <1>5, <2>1
  <1>7. mp # <<>> /\ mp[Len(mp)] = 0
    BY <1>2, <1>4 DEF Sound
  <1>. QED BY <1>2, <1>3, <1>5, <1>6, <1>7 DEF Sound

\* Error preserves soundness and changes nothing but any_errors_.
LEMMA ErrorSound ==
  ASSUME NEW e \in ErrorMsgType, Sound(e)
  PROVE  /\ Error(e) \in ErrorMsgType /\ Sound(Error(e))
         /\ Error(e).tok_pos_ = e.tok_pos_ /\ Error(e).any_errors_ = TRUE
BY DEF Error, ErrorMsgType, Sound

\* The walk of Error over the table stops somewhere.
LEMMA WalkStops ==
  ASSUME NEW e \in ErrorMsgType, NEW pos \in Nat
  PROVE  \E i \in 1..(Len(e.line_pos_) + 1) : StopsAt(e, pos, i)
  <1>. DEFINE n == Len(e.line_pos_)
              T == {i \in 1..(n + 1) : i <= n => e.line_pos_[i] < pos}
  <1>1. n \in Nat /\ e.line_pos_ \in Seq(Nat)
    BY DEF ErrorMsgType
  <1>2. T \subseteq Nat /\ n + 1 \in T
    BY <1>1
  <1>3. PICK i \in T : \A j \in T : ~(<<j, i>> \in OpToRel(<, Nat))
    BY ZenonT(60), <1>2, WFMin, NatLessThanWellFounded
  <1>4. \A j \in T : ~(j < i)
    BY <1>2, <1>3 DEF OpToRel
  <1>5. \A j \in 1..(i - 1) : e.line_pos_[j] >= pos
    <2>. SUFFICES ASSUME NEW j \in 1..(i - 1) PROVE e.line_pos_[j] >= pos
      OBVIOUS
    <2>1. j \notin T /\ j \in 1..n
      BY <1>1, <1>4
    <2>2. e.line_pos_[j] \in Nat
      BY <1>1, <2>1, ElementOfSeq
    <2>. QED BY <2>1, <2>2, <1>1
  <1>. QED BY <1>1, <1>5 DEF StopsAt

\* What Error shows is a line and a column, whatever the position.
LEMMA LocationType ==
  ASSUME NEW e \in ErrorMsgType, Sound(e), NEW pos \in Nat
  PROVE  Location(e, pos) \in [line : Int, col : Int]
  <1>. DEFINE n == Len(e.line_pos_)
              i == CHOOSE k \in 1..(n + 1) : StopsAt(e, pos, k)
  <1>1. i \in 1..(n + 1)
    BY WalkStops
  <1>2. n \in Nat \ {0} /\ \A k \in 1..n : e.line_pos_[k] \in Nat
    BY EmptySeq, ElementOfSeq DEF Sound, ErrorMsgType
  <1>. HIDE DEF i
  <1>3. e.line_num_ \in Nat
    BY DEF ErrorMsgType
  <1>. DEFINE val == IF i <= n THEN e.line_pos_[i] ELSE e.line_pos_[n]
  <1>4. val \in Nat
    BY <1>1, <1>2
  <1>5. Location(e, pos) = [line |-> e.line_num_ - (i - 1), col |-> pos - val]
    BY DEF Location, i
  <1>. HIDE DEF val
  <1>. QED BY <1>1, <1>2, <1>3, <1>4, <1>5

\* A position is shown on a line the object has entered, at a column from 1 on.
LEMMA LocationSound ==
  ASSUME NEW e \in ErrorMsgType, Sound(e), NEW pos \in Nat \ {0}
  PROVE  Location(e, pos).line \in 1..e.line_num_ /\ Location(e, pos).col >= 1
  <1>. DEFINE n == Len(e.line_pos_)
              i == CHOOSE k \in 1..(n + 1) : StopsAt(e, pos, k)
  <1>1. i \in 1..(n + 1) /\ StopsAt(e, pos, i)
    BY WalkStops
  <1>2. n \in Nat \ {0} /\ n = e.line_num_ /\ \A k \in 1..n : e.line_pos_[k] \in Nat
    BY EmptySeq, ElementOfSeq DEF Sound, ErrorMsgType
  <1>3. Location(e, pos) =
          [line |-> e.line_num_ - (i - 1),
           col |-> pos - (IF i <= n THEN e.line_pos_[i] ELSE e.line_pos_[n])]
    BY DEF Location
  <1>. HIDE DEF i
  <1>4. i <= n
    BY <1>1, <1>2 DEF StopsAt, Sound
  <1>5. e.line_pos_[i] < pos /\ e.line_pos_[i] \in Nat
    BY <1>1, <1>2, <1>4 DEF StopsAt
  <1>. QED BY SMTT(30), <1>1, <1>2, <1>3, <1>4, <1>5

\* The walk stops at one place only, so that it is the line shown.
LEMMA LocationAt ==
  ASSUME NEW e \in ErrorMsgType, NEW pos \in Nat, NEW i, StopsAt(e, pos, i)
  PROVE  Location(e, pos).line = e.line_num_ - (i - 1)
  <1>. DEFINE n == Len(e.line_pos_)
              c == CHOOSE k \in 1..(n + 1) : StopsAt(e, pos, k)
  <1>1. n \in Nat /\ \A k \in 1..n : e.line_pos_[k] \in Nat
    BY ElementOfSeq DEF ErrorMsgType
  <1>2. c \in 1..(n + 1) /\ StopsAt(e, pos, c)
    BY WalkStops
  <1>3. Location(e, pos) =
          [line |-> e.line_num_ - (c - 1),
           col |-> pos - (IF c <= n THEN e.line_pos_[c] ELSE e.line_pos_[n])]
    BY DEF Location
  <1>. HIDE DEF c
  <1>4. ASSUME NEW j, NEW k, StopsAt(e, pos, j), StopsAt(e, pos, k), j < k PROVE FALSE
    <2>1. j \in 1..(k - 1) /\ j \in 1..n
      BY <1>1, <1>4 DEF StopsAt
    <2>2. e.line_pos_[j] < pos /\ e.line_pos_[j] >= pos
      BY <1>4, <2>1 DEF StopsAt
    <2>. QED BY <1>1, <2>1, <2>2
  <1>5. i \in 1..(n + 1)
    BY DEF StopsAt
  <1>6. c = i
    <2>1. ~(c < i) /\ ~(i < c)
      BY <1>2, <1>4
    <2>. QED BY <1>1, <1>2, <1>5, <2>1
  <1>. QED BY <1>3, <1>6

\* The line shown depends on the line table and the line counter alone.
LEMMA SameLines ==
  ASSUME NEW e, NEW f, NEW pos,
         e.line_pos_ = f.line_pos_, e.line_num_ = f.line_num_
  PROVE  Location(e, pos) = Location(f, pos)
BY DEF Location, StopsAt

\* A position past the beginning of every line is shown on the line being read.
LEMMA LastLine ==
  ASSUME NEW e \in ErrorMsgType, NEW pos \in Nat,
         \A i \in DOMAIN e.line_pos_ : e.line_pos_[i] < pos
  PROVE  Location(e, pos).line = e.line_num_
  <1>1. e.line_pos_ \in Seq(Nat) /\ Len(e.line_pos_) \in Nat /\ e.line_num_ \in Nat
    BY DEF ErrorMsgType
  <1>2. StopsAt(e, pos, 1)
    BY <1>1 DEF StopsAt
  <1>. QED BY <1>1, <1>2, LocationAt

\* A line begun later moves no position up to the current token to another line.
LEMMA NewlineKeeps ==
  ASSUME NEW e \in ErrorMsgType, NEW pos \in Nat, pos <= e.tok_pos_
  PROVE  Location(Newline(e), pos).line = Location(e, pos).line
  <1>. DEFINE n == Len(e.line_pos_)
              f == Newline(e)
  <1>1. n \in Nat /\ e.line_num_ \in Nat /\ e.tok_pos_ \in Nat
    BY DEF ErrorMsgType
  <1>2. PICK i \in 1..(n + 1) : StopsAt(e, pos, i)
    BY WalkStops
  <1>3. /\ f \in ErrorMsgType /\ f.line_num_ = e.line_num_ + 1
        /\ Len(f.line_pos_) = n + 1 /\ f.line_pos_[1] = e.tok_pos_
        /\ \A k \in 2..(n + 1) : f.line_pos_[k] = e.line_pos_[k - 1]
    BY NewlineTable
  <1>. HIDE DEF f
  <1>4. StopsAt(f, pos, i + 1)
    <2>1. \A j \in 1..i : f.line_pos_[j] >= pos
      <3>. SUFFICES ASSUME NEW j \in 1..i PROVE f.line_pos_[j] >= pos
        OBVIOUS
      <3>1. CASE j = 1
        BY <3>1, <1>1, <1>3
      <3>2. CASE j # 1
        <4>1. j - 1 \in 1..(i - 1) /\ j \in 2..(n + 1)
          BY <3>2, <1>1
        <4>. QED BY <4>1, <1>2, <1>3 DEF StopsAt
      <3>. QED BY <3>1, <3>2
    <2>2. i + 1 <= n + 1 => f.line_pos_[i + 1] < pos
      <3>1. ASSUME i <= n PROVE f.line_pos_[i + 1] = e.line_pos_[i]
        <4>1. i + 1 \in 2..(n + 1) /\ (i + 1) - 1 = i
          BY <3>1, <1>1, <1>2
        <4>. QED BY <4>1, <1>3
      <3>. QED BY <3>1, <1>1, <1>2 DEF StopsAt
    <2>3. i + 1 \in 1..(n + 2) /\ (i + 1) - 1 = i
      BY <1>1, <1>2
    <2>. QED BY <2>1, <2>2, <2>3, <1>1, <1>3 DEF StopsAt
  <1>5. Location(e, pos).line = e.line_num_ - (i - 1)
    BY <1>2, LocationAt
  <1>6. Location(f, pos).line = f.line_num_ - ((i + 1) - 1)
    BY <1>3, <1>4, LocationAt
  <1>7. f.line_num_ - ((i + 1) - 1) = e.line_num_ - (i - 1)
    BY <1>1, <1>2, <1>3
  <1>. QED BY <1>5, <1>6, <1>7 DEF f

-----------------------------------------------------------------------------
(* The invariant *)

\* Inside a comment at least one is open, so that the level never goes below 0.
InComment == sc = "COMMENT" => comment_level_ > 0

\* No line begins at or after char_pos_, no token is after the current one, and the
\* current one is shown on the line it begins on.
LinesBehind ==
  /\ \A i \in DOMAIN errormsg_.line_pos_ : errormsg_.line_pos_[i] < char_pos_
  /\ \A i \in DOMAIN tokens : tokens[i].pos <= errormsg_.tok_pos_
  /\ LineOf(input, opened) - Location(errormsg_, errormsg_.tok_pos_).line \in 0..Len(echoed)

\* What the scanner has of a string, and what is still ahead, make its text.
InString ==
  /\ sc \in {"STR", "IGNORE"} => opened < cursor /\ input[opened] = Quote
  /\ sc = "STR" => string_buf_ \o StringFrom(input, cursor) = StringFrom(input, opened + 1)
  /\ sc = "IGNORE" =>
       string_buf_ \o StringFrom(input, AfterIgnored(input, cursor)) = StringFrom(input, opened + 1)

\* A comment began where the current token did.
AtComment == sc = "COMMENT" => opened < cursor /\ Opens(input, opened)

IInv ==
  /\ TypeOK /\ LineTable /\ InComment /\ ExitStatus /\ PositionExact
  /\ LinesBehind /\ LineExact
  /\ InString /\ StringText /\ AtComment /\ CommentDepth

LEMMA LineTableSound ==
  LineTable <=> Sound(errormsg_) /\ errormsg_.tok_pos_ <= char_pos_
BY DEF LineTable, Sound

LEMMA InitIInv == Init => IInv
  <1>. SUFFICES ASSUME Init PROVE IInv
    OBVIOUS
  <1>1. /\ errormsg_ \in ErrorMsgType /\ Sound(errormsg_)
        /\ errormsg_.tok_pos_ = 1 /\ errormsg_.any_errors_ = FALSE
    BY NewSound DEF Init, NewErrorMsg
  <1>2. input \in Seq(Byte)
    BY InputsAssumption DEF Init
  <1>3. TypeOK
    BY <1>1, <1>2 DEF Init, TypeOK
  <1>4. LineTable
    BY <1>1, LineTableSound DEF Init
  <1>5. ExitStatus /\ InComment
    BY <1>1 DEF Init, ExitStatus, InComment
  <1>6. PositionExact
    <2>1. {i \in DOMAIN reports : reports[i].msg = IgnoreMsg} = {} /\ Len(echoed) = 0
      BY DEF Init
    <2>2. Uncounted = 0
      BY <2>1, FS_EmptySet DEF Uncounted
    <2>. QED BY <1>1, <2>2 DEF Init, PositionExact
  <1>7. LineOf(input, 1) = 1
    <2>1. {i \in 1..(1 - 1) : input[i] = NL} = {}
      OBVIOUS
    <2>. QED BY <2>1, FS_EmptySet DEF LineOf
  <1>8. LinesBehind /\ LineExact
    <2>1. /\ errormsg_.line_pos_ = <<0>> /\ errormsg_.line_num_ = 1
          /\ char_pos_ = 1 /\ cursor = 1 /\ opened = 1
          /\ tokens = <<>> /\ reports = <<>> /\ Len(echoed) = 0
      BY DEF Init, NewErrorMsg
    <2>2. Location(errormsg_, 1).line = 1
      BY <1>1, <2>1, LastLine
    <2>. QED BY <1>1, <1>7, <2>1, <2>2 DEF LinesBehind, LineExact
  <1>9. InString /\ StringText /\ AtComment /\ CommentDepth
    <2>1. sc = "INITIAL" /\ ~(opened < cursor) /\ DOMAIN tokens = {}
      BY DEF Init
    <2>. QED BY <2>1 DEF InString, StringText, AtComment, CommentDepth
  <1>. QED BY <1>3, <1>4, <1>5, <1>6, <1>8, <1>9 DEF IInv

\* The characters ahead are bytes, and so is every match.
LEMMA AheadType ==
  ASSUME TypeOK
  PROVE  /\ Left \in Nat
         /\ Left > 0 => Char \in Byte
         /\ \A k \in 0..(Left - 1) : input[cursor + k] \in Byte
         /\ \A n \in 1..Left : Lexeme(n) \in Seq(Byte)
  <1>1. Len(input) \in Nat /\ \A k \in 1..Len(input) : input[k] \in Byte
    BY ElementOfSeq, LenProperties DEF TypeOK
  <1>2. \A k \in 0..(Left - 1) : input[cursor + k] \in Byte
    BY <1>1 DEF TypeOK, Left
  <1>3. ASSUME NEW n \in 1..Left PROVE Lexeme(n) \in Seq(Byte)
    <2>1. \A k \in cursor..(cursor + n - 1) : input[k] \in Byte
      BY <1>1 DEF TypeOK, Left
    <2>2. cursor \in Int /\ cursor + n - 1 \in Int
      BY DEF TypeOK
    <2>. QED BY <2>1, <2>2, SubSeqProperties DEF Lexeme
  <1>. QED BY <1>1, <1>2, <1>3 DEF TypeOK, Left, Char

\* What adjust() leaves in errormsg_.
LEMMA AdjustedSound ==
  ASSUME TypeOK, LineTable
  PROVE  /\ Adjusted \in ErrorMsgType /\ Sound(Adjusted)
         /\ Adjusted.tok_pos_ = char_pos_
         /\ Adjusted.any_errors_ = errormsg_.any_errors_
  <1>1. Adjusted \in ErrorMsgType
    BY DEF Adjusted, TypeOK, ErrorMsgType
  <1>2. /\ Adjusted.tok_pos_ = char_pos_
        /\ Adjusted.any_errors_ = errormsg_.any_errors_
        /\ Adjusted.line_pos_ = errormsg_.line_pos_
        /\ Adjusted.line_num_ = errormsg_.line_num_
    BY DEF Adjusted, TypeOK, ErrorMsgType
  <1>3. \A i \in DOMAIN errormsg_.line_pos_ : errormsg_.line_pos_[i] <= char_pos_
    <2>. SUFFICES ASSUME NEW i \in DOMAIN errormsg_.line_pos_
                  PROVE  errormsg_.line_pos_[i] <= char_pos_
      OBVIOUS
    <2>1. errormsg_.line_pos_[i] \in Nat /\ errormsg_.tok_pos_ \in Nat /\ char_pos_ \in Nat
      BY ElementOfSeq, LenProperties DEF TypeOK, ErrorMsgType
    <2>. QED BY <2>1 DEF LineTable
  <1>. QED BY <1>1, <1>2, <1>3, LineTableSound DEF Sound

-----------------------------------------------------------------------------
(* What a step does to the positions: one of four things *)

\* The match of n characters has no newline, or one newline, its last character.
Plain(n) == \A k \in 0..(n - 1) : input[cursor + k] # NL
Breaks(n) == input[cursor + n - 1] = NL /\ \A k \in 0..(n - 2) : input[cursor + k] # NL

\* Newline is called on e once for the newline of the match.
Counts(n, e) == \/ Plain(n) /\ errormsg_' = e
                \/ Breaks(n) /\ errormsg_' = Newline(e)

\* Error is called on e and prints one message of the set for the offset.
Complains(e, messages, at) ==
  /\ errormsg_' = Error(e)
  /\ \E r \in ReportType :
       /\ r.msg \in messages /\ r.at = at /\ r.shown = Location(e, e.tok_pos_)
       /\ reports' = Append(reports, r)

\* The messages of the rules that advance char_pos_.
Others == {"illegal token", "unterminated comment symbol", "unclosed string",
           "unclosed ignore sequence"}

\* One token is returned, at a position and an offset; or none.
Returns(pos, at) ==
  \/ UNCHANGED tokens
  \/ \E k \in Kinds, t \in Seq(Byte) : Token(k, t, pos, at)

\* The match becomes the current token.
Begins ==
  /\ \E n \in 1..Left :
       /\ Adjust(n)
       /\ \/ Counts(n, Adjusted) /\ UNCHANGED reports
          \/ Plain(n) /\ Complains(Adjusted, Others, cursor)
  /\ Returns(char_pos_, cursor)
  /\ UNCHANGED echoed

\* The match continues the current token.
Continues ==
  /\ \E n \in 1..Left : AdjustStr(n) /\ Counts(n, errormsg_)
  /\ Returns(errormsg_.tok_pos_, opened)
  /\ UNCHANGED <<reports, echoed>>

\* A character is consumed behind the back of char_pos_.
Slips ==
  /\ Left > 0 /\ cursor' = cursor + 1
  /\ UNCHANGED <<char_pos_, opened, tokens>>
  /\ \/ Char = NL /\ echoed' = Append(echoed, NL) /\ UNCHANGED <<errormsg_, reports>>
     \/ /\ Char # NL /\ Complains(errormsg_, {IgnoreMsg}, opened)
        /\ UNCHANGED echoed

\* Nothing is consumed.
Stops ==
  /\ UNCHANGED <<cursor, char_pos_, opened, tokens, echoed>>
  /\ UNCHANGED <<errormsg_, reports>> \/ Complains(errormsg_, Others, opened)

\* Error called at the current token of a sound object.
LEMMA ReportComplains ==
  ASSUME TypeOK, NEW e \in ErrorMsgType, Sound(e), NEW msg \in Messages,
         NEW at \in Nat, Report(e, msg, at)
  PROVE  Complains(e, {msg}, at) /\ (msg \in Others => Complains(e, Others, at))
  <1>. DEFINE r == [msg |-> msg, at |-> at, shown |-> Location(e, e.tok_pos_)]
  <1>1. e.tok_pos_ \in Nat
    BY DEF ErrorMsgType
  <1>2. Location(e, e.tok_pos_) \in [line : Int, col : Int]
    BY <1>1, LocationType
  <1>3. /\ r \in ReportType
        /\ r.msg = msg /\ r.at = at /\ r.shown = Location(e, e.tok_pos_)
    BY <1>2 DEF ReportType
  <1>4. reports' = Append(reports, r) /\ errormsg_' = Error(e)
    BY DEF Report
  <1>. HIDE DEF r
  <1>. QED BY <1>3, <1>4 DEF Complains

\* The matches that are symbols: of one or two characters, no newline and no letter
\* or digit first.
LEMMA SymbolShape ==
  \A s \in Symbols :
    /\ Len(s) \in 1..2 /\ s[1] \notin Letters
    /\ \A k \in 1..Len(s) : s[k] # NL
  <1>. SUFFICES ASSUME NEW s \in Symbols
                PROVE  /\ Len(s) \in 1..2 /\ s[1] \notin Letters
                       /\ \A k \in 1..Len(s) : s[k] # NL
    OBVIOUS
  <1>. DEFINE Marks == 33..64 \union 91..96 \union 123..126
  <1>1. \/ Len(s) = 1 /\ s[1] \in Marks
        \/ Len(s) = 2 /\ s[1] \in Marks /\ s[2] \in Marks
    BY DEF Symbols
  <1>2. \A m \in Marks : m \notin Letters /\ m # NL
    BY DEF Letters, Upper, NL
  <1>. HIDE DEF Marks
  <1>. QED BY <1>1, <1>2

LEMMA EmitBegins ==
  ASSUME TypeOK, NEW k \in Kinds, NEW n \in 1..Left, Emit(k, n), Plain(n)
  PROVE  Begins
  <1>1. Lexeme(n) \in Seq(Byte)
    BY AheadType
  <1>. QED BY <1>1 DEF Emit, Begins, Returns, Counts

LEMMA UnterminatedStops ==
  ASSUME TypeOK, LineTable, NEW c, NEW msg \in Others, Unterminated(c, msg)
  PROVE  Stops
  <1>1. Sound(errormsg_) /\ errormsg_ \in ErrorMsgType /\ opened \in Nat
    BY LineTableSound DEF TypeOK
  <1>2. Complains(errormsg_, Others, opened)
    BY <1>1, ReportComplains DEF Unterminated, Others, Messages
  <1>. QED BY <1>2 DEF Unterminated, Stops

LEMMA StrAppendContinues ==
  ASSUME NEW n \in 1..Left, NEW s, StrAppend(n, s), Counts(n, errormsg_)
  PROVE  Continues
BY DEF StrAppend, Continues, Returns

\* The codes of a match of one character.
LEMMA OnePlain ==
  ASSUME TypeOK, Left > 0
  PROVE  /\ 1 \in 1..Left
         /\ Char # NL => Plain(1)
         /\ Char = NL => Breaks(1)
  <1>1. 0..(1 - 1) = {0} /\ cursor + 0 = cursor /\ cursor + 1 - 1 = cursor
        /\ 0..(1 - 2) = {}
    BY DEF TypeOK
  <1>. QED BY <1>1, AheadType DEF Plain, Breaks, Char

\* The match of two characters: its newline, if it has one, is the second.
LEMMA TwoPlain ==
  ASSUME TypeOK, Left >= 2, Char # NL
  PROVE  /\ 2 \in 1..Left
         /\ input[cursor + 1] # NL => Plain(2)
         /\ input[cursor + 1] = NL => Breaks(2)
  <1>1. 0..(2 - 1) = {0, 1} /\ cursor + 0 = cursor /\ cursor + 2 - 1 = cursor + 1
        /\ 0..(2 - 2) = {0}
    BY DEF TypeOK
  <1>. QED BY <1>1, AheadType DEF Plain, Breaks, Char

LEMMA PairAhead ==
  ASSUME TypeOK, NEW c, NEW d, Ahead(<<c, d>>)
  PROVE  Left >= 2 /\ Char = c /\ input[cursor + 1] = d
  <1>1. Len(<<c, d>>) = 2 /\ <<c, d>>[1] = c /\ <<c, d>>[2] = d
        /\ cursor + 1 - 1 = cursor /\ cursor + 2 - 1 = cursor + 1
    BY DEF TypeOK
  <1>. QED BY <1>1 DEF Ahead, Char

\* Every step does one of the four.
LEMMA MoveStep ==
  ASSUME TypeOK, LineTable, Next
  PROVE  Begins \/ Continues \/ Slips \/ Stops
  <1>0. Left \in Nat
    BY AheadType
  <1>1. CASE InitialNext
    <2>1. CASE LexWord
      <3>1. PICK n \in 1..Left :
              /\ Run(WordChars, n)
              /\ Emit(IF Lexeme(n) \in Keywords THEN "KEYWORD" ELSE "ID", n)
        BY <2>1 DEF LexWord
      <3>2. Plain(n)
        <4>1. NL \notin WordChars
          BY DEF NL, WordChars, Letters, Upper, Digits
        <4>. QED BY <3>1, <4>1 DEF Run, Plain
      <3>. QED BY <3>1, <3>2, EmitBegins DEF Kinds
    <2>2. CASE LexSymbol
      <3>1. PICK s \in Symbols : SymbolAhead(s) /\ Emit("SYMBOL", Len(s))
        BY <2>2 DEF LexSymbol
      <3>2. Len(s) <= Left /\ \A i \in 1..Len(s) : input[cursor + i - 1] = s[i]
        BY <3>1 DEF SymbolAhead, Ahead
      <3>3. Len(s) \in 1..2 /\ \A k \in 1..Len(s) : s[k] # NL
        BY SymbolShape
      <3>4. Len(s) \in 1..Left
        BY <3>2, <3>3, <1>0
      <3>5. Plain(Len(s))
        <4>. SUFFICES ASSUME NEW k \in 0..(Len(s) - 1) PROVE input[cursor + k] # NL
          BY DEF Plain
        <4>1. k + 1 \in 1..Len(s) /\ cursor + (k + 1) - 1 = cursor + k
          BY <3>3 DEF TypeOK
        <4>. QED BY <4>1, <3>2, <3>3
      <3>. QED BY <3>1, <3>4, <3>5, EmitBegins DEF Kinds
    <2>3. CASE LexInt
      <3>1. PICK n \in 1..Left :
              /\ Run(Digits, n)
              /\ \/ Emit("INT", n)
                 \/ Adjust(n) /\ errormsg_' = Adjusted /\ UNCHANGED <<tokens, reports, echoed>>
        BY <2>3 DEF LexInt
      <3>2. Plain(n)
        <4>1. NL \notin Digits
          BY DEF NL, Digits
        <4>. QED BY <3>1, <4>1 DEF Run, Plain
      <3>. QED BY <3>1, <3>2, EmitBegins DEF Kinds, Begins, Returns, Counts
    <2>4. CASE OpenString
      <3>1. Left > 0 /\ Char # NL /\ Adjust(1) /\ errormsg_' = Adjusted
        BY <2>4 DEF OpenString, In, Quote, NL
      <3>. QED BY <2>4, <3>1, OnePlain DEF OpenString, Begins, Returns, Counts
    <2>5. CASE OpenComment
      <3>1. Left >= 2 /\ Char = Slash /\ input[cursor + 1] = Star
        BY <2>5, PairAhead DEF OpenComment
      <3>2. 2 \in 1..Left /\ Plain(2)
        BY <3>1, TwoPlain DEF NL, Slash, Star
      <3>. QED BY <2>5, <3>2 DEF OpenComment, Begins, Returns, Counts
    <2>6. CASE LexNewline
      <3>1. 1 \in 1..Left /\ Breaks(1)
        BY <2>6, OnePlain DEF LexNewline, In
      <3>. QED BY <2>6, <3>1 DEF LexNewline, Begins, Returns, Counts
    <2>7. CASE SkipBlanks
      <3>1. PICK n \in 1..Left : Run(Blank, n) /\ Adjust(n)
        BY <2>7 DEF SkipBlanks
      <3>2. Plain(n)
        <4>1. NL \notin Blank
          BY DEF NL, Blank
        <4>. QED BY <3>1, <4>1 DEF Run, Plain
      <3>. QED BY <2>7, <3>1, <3>2 DEF SkipBlanks, Begins, Returns, Counts
    <2>8. CASE IllegalToken
      <3>1. Complains(Adjusted, Others, cursor)
        <4>1. Report(Adjusted, "illegal token", cursor)
          BY <2>8 DEF IllegalToken
        <4>2. cursor \in Nat /\ "illegal token" \in Messages \intersect Others
          BY DEF TypeOK, Messages, Others
        <4>. QED BY <4>1, <4>2, AdjustedSound, ReportComplains
      <3>2. In("INITIAL") /\ Adjust(1) /\ UNCHANGED <<tokens, echoed>> /\ Char # NL
        BY <2>8 DEF IllegalToken
      <3>3. 1 \in 1..Left /\ Plain(1)
        BY <3>2, OnePlain DEF In
      <3>. QED BY <3>1, <3>2, <3>3 DEF Begins, Returns
    <2>9. CASE EndOfFile
      BY <2>9 DEF EndOfFile, Stops
    <2>. QED BY <1>1, <2>1, <2>2, <2>3, <2>4, <2>5, <2>6, <2>7, <2>8, <2>9 DEF InitialNext
  <1>2. CASE CommentNext
    <2>1. CASE CommentNewline
      <3>1. 1 \in 1..Left /\ Breaks(1)
        BY <2>1, OnePlain DEF CommentNewline, In
      <3>. QED BY <2>1, <3>1 DEF CommentNewline, Continues, Returns, Counts
    <2>2. CASE CommentOpen
      <3>1. Left >= 2 /\ Char = Slash /\ input[cursor + 1] = Star
        BY <2>2, PairAhead DEF CommentOpen
      <3>2. 2 \in 1..Left /\ Plain(2)
        BY <3>1, TwoPlain DEF NL, Slash, Star
      <3>. QED BY <2>2, <3>2 DEF CommentOpen, Continues, Returns, Counts
    <2>3. CASE CommentClose
      <3>1. Left >= 2 /\ Char = Star /\ input[cursor + 1] = Slash
        BY <2>3, PairAhead DEF CommentClose
      <3>2. 2 \in 1..Left /\ Plain(2)
        BY <3>1, TwoPlain DEF NL, Slash, Star
      <3>. QED BY <2>3, <3>2 DEF CommentClose, Continues, Returns, Counts
    <2>4. CASE CommentChar
      <3>1. 1 \in 1..Left /\ Plain(1)
        BY <2>4, OnePlain DEF CommentChar, In
      <3>. QED BY <2>4, <3>1 DEF CommentChar, Continues, Returns, Counts
    <2>5. CASE CommentEof
      BY <2>5, UnterminatedStops DEF CommentEof, Others
    <2>. QED BY <1>2, <2>1, <2>2, <2>3, <2>4, <2>5 DEF CommentNext
  <1>3. CASE StrNext
    <2>0. Char = Backslash => Char # NL
      BY DEF Backslash, NL
    <2>1. CASE StrEscapeNewline
      <3>1. 2 \in 1..Left /\ Plain(2)
        BY <2>1, <2>0, TwoPlain DEF StrEscapeNewline, EscapeAhead, LowerN, NL
      <3>2. IfNewLine(0) = errormsg_
        BY <2>1, <2>0 DEF StrEscapeNewline, EscapeAhead, IfNewLine, Char, TypeOK
      <3>. QED BY <2>1, <3>1, <3>2, StrAppendContinues DEF StrEscapeNewline, Counts
    <2>2. CASE StrEscapeTab
      <3>1. 2 \in 1..Left /\ Plain(2)
        BY <2>2, <2>0, TwoPlain DEF StrEscapeTab, EscapeAhead, LowerT, NL
      <3>. QED BY <2>2, <3>1, StrAppendContinues DEF StrEscapeTab, Counts
    <2>3. CASE StrEscapeControl
      <3>1. /\ Left >= 3 /\ Char # NL /\ input[cursor + 1] = Caret
            /\ input[cursor + 2] \in Upper
        BY <2>3, <2>0 DEF StrEscapeControl, ControlAhead, EscapeAhead
      <3>2. 3 \in 1..Left /\ Plain(3)
        <4>1. 0..(3 - 1) = {0, 1, 2} /\ cursor + 0 = cursor
          BY DEF TypeOK
        <4>2. Caret # NL /\ NL \notin Upper
          BY DEF Caret, NL, Upper
        <4>. QED BY <1>0, <3>1, <4>1, <4>2 DEF Plain, Char
      <3>. QED BY <2>3, <3>2, StrAppendContinues DEF StrEscapeControl, Counts
    <2>4. CASE StrEscapeDecimal
      <3>1. /\ Left >= 4 /\ Char # NL /\ input[cursor + 1] \in Digits
            /\ input[cursor + 2] \in Digits /\ input[cursor + 3] \in Digits
        BY <2>4, <2>0 DEF StrEscapeDecimal, DecimalAhead, EscapeAhead
      <3>2. 4 \in 1..Left /\ Plain(4)
        <4>1. 0..(4 - 1) = {0, 1, 2, 3} /\ cursor + 0 = cursor
          BY DEF TypeOK
        <4>2. NL \notin Digits
          BY DEF NL, Digits
        <4>. QED BY <1>0, <3>1, <4>1, <4>2 DEF Plain, Char
      <3>. QED BY <2>4, <3>2, StrAppendContinues DEF StrEscapeDecimal, Counts
    <2>5. CASE StrEscapeNul
      <3>1. 2 \in 1..Left /\ Plain(2)
        BY <2>5, <2>0, TwoPlain DEF StrEscapeNul, EscapeAhead, AtSign, NL
      <3>. QED BY <2>5, <3>1, StrAppendContinues DEF StrEscapeNul, Counts
    <2>6. CASE StrEscapeQuoted
      <3>1. 2 \in 1..Left /\ Plain(2)
        BY <2>6, <2>0, TwoPlain DEF StrEscapeQuoted, EscapeAhead, Quote, Backslash, NL
      <3>. QED BY <2>6, <3>1, StrAppendContinues DEF StrEscapeQuoted, Counts
    <2>7. CASE StrIgnore
      <3>1. Left >= 2 /\ Char # NL
        BY <2>7, <2>0 DEF StrIgnore, EscapeAhead
      <3>. QED BY <2>7, <3>1, TwoPlain DEF StrIgnore, IfNewLine, Continues, Returns, Counts
    <2>8. CASE CloseString
      <3>1. 1 \in 1..Left /\ Plain(1)
        BY <2>8, OnePlain DEF CloseString, In, Quote, NL
      <3>3. Returns(errormsg_.tok_pos_, opened)
        BY <2>8 DEF CloseString, Returns, Kinds, TypeOK
      <3>. QED BY <2>8, <3>1, <3>3 DEF CloseString, Continues, Counts
    <2>9. CASE StrChar
      <3>1. 1 \in 1..Left /\ Plain(1)
        BY <2>9, OnePlain DEF StrChar, In
      <3>. QED BY <2>9, <3>1, StrAppendContinues DEF StrChar, Counts
    <2>10. CASE StrNewline
      BY <2>10 DEF StrNewline, In, Slips
    <2>11. CASE StrEof
      BY <2>11, UnterminatedStops DEF StrEof, Others
    <2>. QED BY <1>3, <2>1, <2>2, <2>3, <2>4, <2>5, <2>6, <2>7, <2>8, <2>9, <2>10,
                <2>11 DEF StrNext
  <1>4. CASE IgnoreNext
    <2>1. CASE IgnoreBlank
      <3>1. Left > 0 /\ cursor + 0 = cursor
        BY <2>1 DEF IgnoreBlank, In, TypeOK
      <3>. QED BY <2>1, <3>1, OnePlain
               DEF IgnoreBlank, IfNewLine, Continues, Returns, Counts, Char
    <2>2. CASE IgnoreEnd
      <3>1. 1 \in 1..Left /\ Plain(1)
        BY <2>2, OnePlain DEF IgnoreEnd, In, Backslash, NL
      <3>. QED BY <2>2, <3>1 DEF IgnoreEnd, Continues, Returns, Counts
    <2>3. CASE IgnoreIllegal
      <3>1. Report(errormsg_, IgnoreMsg, opened)
        BY <2>3 DEF IgnoreIllegal, IgnoreMsg
      <3>2. errormsg_ \in ErrorMsgType /\ opened \in Nat /\ IgnoreMsg \in Messages
        BY DEF TypeOK, Messages
      <3>3. Complains(errormsg_, {IgnoreMsg}, opened)
        BY <3>1, <3>2, LineTableSound, ReportComplains
      <3>. QED BY <2>3, <3>3 DEF IgnoreIllegal, In, Slips
    <2>4. CASE IgnoreEof
      BY <2>4, UnterminatedStops DEF IgnoreEof, Others
    <2>. QED BY <1>4, <2>1, <2>2, <2>3, <2>4 DEF IgnoreNext
  <1>5. CASE Ended
    BY <1>5 DEF Ended, vars, Stops
  <1>. QED BY <1>1, <1>2, <1>3, <1>4, <1>5 DEF Next

-----------------------------------------------------------------------------
(* What a step does to the start condition and to the status *)

Conditions == {"INITIAL", "COMMENT", "STR", "IGNORE"}

\* The start condition and what it needs.
Control ==
  /\ input' = input
  /\ sc' \in Conditions
  /\ comment_level_' \in Nat
  /\ sc' = "COMMENT" => comment_level_' > 0
  /\ string_buf_' \in Seq(Byte)

\* How a step ends the process, if it does.
EndsWell ==
  /\ status' = "done" /\ sc' = "INITIAL" /\ Left = 0
  /\ ~errormsg_.any_errors_ /\ UNCHANGED <<input, cursor, errormsg_, reports>>
EndsBadly ==
  /\ status' = "exit1"
  /\ \/ errormsg_.any_errors_ /\ UNCHANGED <<errormsg_, reports>>
     \/ \E r \in ReportType : reports' = Append(reports, r)
Outcome == \/ status' \in {"running", "aborted"}
           \/ EndsWell \/ EndsBadly
           \/ UNCHANGED vars

LEMMA EmitControl ==
  ASSUME TypeOK, InComment, NEW k, NEW n, Emit(k, n), UNCHANGED status, status = "running"
  PROVE  Control /\ Outcome
BY DEF Emit, Control, Outcome, TypeOK, InComment, Conditions

LEMMA UnterminatedControl ==
  ASSUME TypeOK, LineTable, InComment, NEW c, NEW msg \in Messages, Unterminated(c, msg)
  PROVE  Control /\ Outcome
  <1>1. Control
    BY DEF Unterminated, Control, TypeOK, InComment, Conditions
  <1>2. Report(errormsg_, msg, opened) /\ status' = "exit1"
    BY DEF Unterminated
  <1>3. Sound(errormsg_) /\ errormsg_ \in ErrorMsgType /\ opened \in Nat
    BY LineTableSound DEF TypeOK
  <1>4. EndsBadly
    BY <1>2, <1>3, ReportComplains DEF EndsBadly, Complains
  <1>. QED BY <1>1, <1>4 DEF Outcome

LEMMA StrAppendControl ==
  ASSUME TypeOK, In("STR"), NEW n, NEW s \in Seq(Byte), StrAppend(n, s)
  PROVE  Control /\ Outcome
  <1>1. string_buf_' \in Seq(Byte)
    BY ConcatProperties DEF StrAppend, TypeOK
  <1>. QED BY <1>1 DEF StrAppend, Control, Outcome, TypeOK, Conditions, In

LEMMA ControlStep ==
  ASSUME TypeOK, LineTable, InComment, Next
  PROVE  Control /\ Outcome
  <1>. USE DEF Conditions
  <1>0. /\ Left \in Nat
        /\ \A k \in 0..(Left - 1) : input[cursor + k] \in Byte
        /\ Left > 0 => Char \in Byte
        /\ \A b \in Byte : <<b>> \in Seq(Byte)
    BY AheadType
  <1>b. 0 \in Byte /\ 9 \in Byte /\ NL \in Byte /\ Quote \in Byte /\ Backslash \in Byte
    BY DEF Byte, NL, Quote, Backslash
  <1>1. CASE InitialNext
    <2>1. CASE LexWord
      BY <2>1, EmitControl DEF LexWord, In
    <2>2. CASE LexSymbol
      BY <2>2, EmitControl DEF LexSymbol, In
    <2>3. CASE LexInt
      <3>1. PICK n \in 1..Left :
              \/ Emit("INT", n) /\ UNCHANGED status
              \/ /\ status' = "aborted"
                 /\ UNCHANGED <<input, sc, comment_level_, string_buf_>>
        BY <2>3 DEF LexInt
      <3>2. status = "running"
        BY <2>3 DEF LexInt, In
      <3>3. CASE Emit("INT", n) /\ UNCHANGED status
        BY <3>2, <3>3, EmitControl
      <3>4. CASE /\ status' = "aborted"
                 /\ UNCHANGED <<input, sc, comment_level_, string_buf_>>
        BY <3>4 DEF Control, Outcome, TypeOK, InComment
      <3>. QED BY <3>1, <3>3, <3>4
    <2>4. CASE OpenString
      BY <2>4, EmptySeq DEF OpenString, In, Control, Outcome, TypeOK
    <2>5. CASE OpenComment
      BY <2>5 DEF OpenComment, In, Control, Outcome, TypeOK
    <2>6. CASE LexNewline
      BY <2>6 DEF LexNewline, In, Control, Outcome, TypeOK, InComment
    <2>7. CASE SkipBlanks
      BY <2>7 DEF SkipBlanks, In, Control, Outcome, TypeOK, InComment
    <2>8. CASE IllegalToken
      BY <2>8 DEF IllegalToken, In, Control, Outcome, TypeOK, InComment
    <2>9. CASE EndOfFile
      BY <2>9 DEF EndOfFile, AtEof, Control, Outcome, EndsWell, EndsBadly, TypeOK,
                  InComment
    <2>. QED BY <1>1, <2>1, <2>2, <2>3, <2>4, <2>5, <2>6, <2>7, <2>8, <2>9 DEF InitialNext
  <1>2. CASE CommentNext
    <2>1. CASE CommentNewline
      BY <2>1 DEF CommentNewline, In, Control, Outcome, TypeOK, InComment
    <2>2. CASE CommentOpen
      BY <2>2 DEF CommentOpen, In, Control, Outcome, TypeOK, InComment
    <2>3. CASE CommentClose
      BY <2>3 DEF CommentClose, In, Control, Outcome, TypeOK, InComment
    <2>4. CASE CommentChar
      BY <2>4 DEF CommentChar, In, Control, Outcome, TypeOK, InComment
    <2>5. CASE CommentEof
      BY <2>5, UnterminatedControl DEF CommentEof, Messages
    <2>. QED BY <1>2, <2>1, <2>2, <2>3, <2>4, <2>5 DEF CommentNext
  <1>3. CASE StrNext
    <2>1. CASE StrEscapeNewline
      BY <2>1, <1>0, <1>b, StrAppendControl DEF StrEscapeNewline
    <2>2. CASE StrEscapeTab
      BY <2>2, <1>0, <1>b, StrAppendControl DEF StrEscapeTab
    <2>3. CASE StrEscapeControl
      <3>1. input[cursor + 2] - 65 + 1 \in Byte
        BY <2>3 DEF StrEscapeControl, ControlAhead, Upper, Byte
      <3>. QED BY <2>3, <3>1, <1>0, StrAppendControl DEF StrEscapeControl
    <2>4. CASE StrEscapeDecimal
      <3>. DEFINE v == 100 * (input[cursor + 1] - 48) + 10 * (input[cursor + 2] - 48)
                         + (input[cursor + 3] - 48)
      <3>1. /\ input[cursor + 1] \in Int /\ input[cursor + 2] \in Int
            /\ input[cursor + 3] \in Int
        BY <2>4 DEF StrEscapeDecimal, DecimalAhead, EscapeAhead, Digits
      <3>2. v \in Int
        BY <3>1
      <3>3. StrAppend(4, << v % 256 >>) /\ In("STR")
        BY <2>4 DEF StrEscapeDecimal
      <3>. HIDE DEF v
      <3>4. v % 256 \in Byte
        BY <3>2 DEF Byte
      <3>. QED BY <3>3, <3>4, <1>0, StrAppendControl
    <2>5. CASE StrEscapeNul
      BY <2>5, <1>0, <1>b, StrAppendControl DEF StrEscapeNul
    <2>6. CASE StrEscapeQuoted
      <3>1. input[cursor + 1] \in Byte
        BY <2>6, <1>b DEF StrEscapeQuoted, EscapeAhead
      <3>. QED BY <2>6, <3>1, <1>0, StrAppendControl DEF StrEscapeQuoted
    <2>7. CASE StrIgnore
      BY <2>7 DEF StrIgnore, In, Control, Outcome, TypeOK
    <2>8. CASE CloseString
      BY <2>8 DEF CloseString, In, Control, Outcome, TypeOK
    <2>9. CASE StrChar
      BY <2>9, <1>0, StrAppendControl DEF StrChar, In
    <2>10. CASE StrNewline
      BY <2>10 DEF StrNewline, In, Control, Outcome, TypeOK
    <2>11. CASE StrEof
      BY <2>11, UnterminatedControl DEF StrEof, Messages
    <2>. QED BY <1>3, <2>1, <2>2, <2>3, <2>4, <2>5, <2>6, <2>7, <2>8, <2>9, <2>10,
                <2>11 DEF StrNext
  <1>4. CASE IgnoreNext
    <2>1. CASE IgnoreBlank
      BY <2>1 DEF IgnoreBlank, In, Control, Outcome, TypeOK
    <2>2. CASE IgnoreEnd
      BY <2>2 DEF IgnoreEnd, In, Control, Outcome, TypeOK
    <2>3. CASE IgnoreIllegal
      BY <2>3 DEF IgnoreIllegal, In, Control, Outcome, TypeOK
    <2>4. CASE IgnoreEof
      BY <2>4, UnterminatedControl DEF IgnoreEof, Messages
    <2>. QED BY <1>4, <2>1, <2>2, <2>3, <2>4 DEF IgnoreNext
  <1>5. CASE Ended
    BY <1>5 DEF Ended, vars, Control, Outcome, TypeOK, InComment
  <1>. QED BY <1>1, <1>2, <1>3, <1>4, <1>5 DEF Next

-----------------------------------------------------------------------------
(* The step preserves each part of the invariant *)

\* A report is at the end of a longer sequence.
LEMMA Appended ==
  ASSUME NEW S, NEW s \in Seq(S), NEW x \in S
  PROVE  /\ Append(s, x) \in Seq(S) /\ Append(s, x) # <<>>
         /\ DOMAIN Append(s, x) = DOMAIN s \union {Len(s) + 1}
         /\ Append(s, x)[Len(s) + 1] = x
         /\ \A i \in DOMAIN s : Append(s, x)[i] = s[i]
OBVIOUS

\* The line table stays sound and behind the scanner.
LEMMA TableStep ==
  ASSUME TypeOK, LineTable, Next
  PROVE  /\ errormsg_' \in ErrorMsgType /\ Sound(errormsg_')
         /\ errormsg_'.tok_pos_ <= char_pos_' /\ char_pos_' \in Nat
         /\ cursor' \in 1..(Len(input) + 1) /\ opened' \in Nat
  <1>1. /\ errormsg_ \in ErrorMsgType /\ Sound(errormsg_)
        /\ errormsg_.tok_pos_ <= char_pos_ /\ errormsg_.tok_pos_ \in Nat
    BY LineTableSound DEF TypeOK, ErrorMsgType
  <1>2. /\ char_pos_ \in Nat /\ cursor \in 1..(Len(input) + 1) /\ opened \in Nat
        /\ Len(input) \in Nat
    BY LenProperties DEF TypeOK
  <1>3. CASE Begins
    <2>1. PICK n \in 1..Left : Adjust(n)
      BY <1>3 DEF Begins
    <2>2. errormsg_' \in {Adjusted, Newline(Adjusted), Error(Adjusted)}
      BY <1>3 DEF Begins, Counts, Complains
    <2>3. /\ errormsg_' \in ErrorMsgType /\ Sound(errormsg_')
          /\ errormsg_'.tok_pos_ = char_pos_
      BY <2>2, AdjustedSound, NewlineSound, ErrorSound
    <2>. QED BY <2>1, <2>3, <1>2 DEF Adjust, Left
  <1>4. CASE Continues
    <2>1. PICK n \in 1..Left : AdjustStr(n)
      BY <1>4 DEF Continues
    <2>2. /\ errormsg_' \in ErrorMsgType /\ Sound(errormsg_')
          /\ errormsg_'.tok_pos_ = errormsg_.tok_pos_
      BY <1>4, <1>1, NewlineSound DEF Continues, Counts
    <2>. QED BY <2>1, <2>2, <1>1, <1>2 DEF AdjustStr, Left
  <1>5. CASE Slips
    <2>1. errormsg_' \in {errormsg_, Error(errormsg_)}
      BY <1>5 DEF Slips, Complains
    <2>2. /\ errormsg_' \in ErrorMsgType /\ Sound(errormsg_')
          /\ errormsg_'.tok_pos_ = errormsg_.tok_pos_
      BY <2>1, <1>1, ErrorSound
    <2>. QED BY <1>5, <2>2, <1>1, <1>2 DEF Slips, Left
  <1>6. CASE Stops
    <2>1. errormsg_' \in {errormsg_, Error(errormsg_)}
      BY <1>6 DEF Stops, Complains
    <2>2. /\ errormsg_' \in ErrorMsgType /\ Sound(errormsg_')
          /\ errormsg_'.tok_pos_ = errormsg_.tok_pos_
      BY <2>1, <1>1, ErrorSound
    <2>. QED BY <1>6, <2>2, <1>1, <1>2 DEF Stops
  <1>. QED BY <1>3, <1>4, <1>5, <1>6, MoveStep

\* The three histories keep their types, and only grow.
LEMMA HistoryStep ==
  ASSUME TypeOK, LineTable, Next
  PROVE  tokens' \in Seq(TokenType) /\ reports' \in Seq(ReportType) /\ echoed' \in Seq(Byte)
  <1>1. ASSUME NEW p \in Nat, NEW a \in Nat, Returns(p, a) PROVE tokens' \in Seq(TokenType)
    <2>1. CASE UNCHANGED tokens
      BY <2>1 DEF TypeOK
    <2>2. ASSUME NEW k \in Kinds, NEW t \in Seq(Byte), Token(k, t, p, a)
          PROVE  tokens' \in Seq(TokenType)
      <3>1. [kind |-> k, text |-> t, pos |-> p, at |-> a] \in TokenType
        BY DEF TokenType
      <3>. QED BY <2>2, <3>1, Appended DEF Token, TypeOK
    <2>. QED BY <1>1, <2>1, <2>2 DEF Returns
  <1>2. /\ char_pos_ \in Nat /\ cursor \in Nat /\ opened \in Nat /\ errormsg_.tok_pos_ \in Nat
    BY DEF TypeOK, ErrorMsgType
  <1>3. tokens' \in Seq(TokenType)
    BY <1>1, <1>2, MoveStep DEF Begins, Continues, Slips, Stops, TypeOK
  <1>4. UNCHANGED reports \/ \E r \in ReportType : reports' = Append(reports, r)
    <2>1. Begins => UNCHANGED reports \/ \E r \in ReportType : reports' = Append(reports, r)
      BY DEF Begins, Complains
    <2>2. Continues => UNCHANGED reports
      BY DEF Continues
    <2>3. Slips => UNCHANGED reports \/ \E r \in ReportType : reports' = Append(reports, r)
      BY DEF Slips, Complains
    <2>4. Stops => UNCHANGED reports \/ \E r \in ReportType : reports' = Append(reports, r)
      BY DEF Stops, Complains
    <2>. QED BY <2>1, <2>2, <2>3, <2>4, MoveStep
  <1>5. reports' \in Seq(ReportType)
    <2>1. reports \in Seq(ReportType)
      BY DEF TypeOK
    <2>2. \A r \in ReportType : Append(reports, r) \in Seq(ReportType)
      BY <2>1, Appended
    <2>. QED BY <1>4, <2>1, <2>2
  <1>6. UNCHANGED echoed \/ echoed' = Append(echoed, NL)
    BY MoveStep DEF Begins, Continues, Slips, Stops
  <1>7. NL \in Byte
    BY DEF NL, Byte
  <1>8. echoed' \in Seq(Byte)
    <2>1. echoed \in Seq(Byte)
      BY DEF TypeOK
    <2>2. Append(echoed, NL) \in Seq(Byte)
      BY <2>1, <1>7, Appended
    <2>. QED BY <1>6, <2>1, <2>2
  <1>. QED BY <1>3, <1>5, <1>8

LEMMA TypeStep == TypeOK /\ LineTable /\ InComment /\ Next => TypeOK'
  <1>. SUFFICES ASSUME TypeOK, LineTable, InComment, Next PROVE TypeOK'
    OBVIOUS
  <1>1. Control /\ Outcome
    BY ControlStep
  <1>2. status' \in {"running", "done", "exit1", "aborted"}
    BY <1>1 DEF Outcome, EndsWell, EndsBadly, vars, TypeOK
  <1>3. input' \in Seq(Byte) /\ cursor' \in 1..(Len(input') + 1)
    BY <1>1, TableStep DEF Control, TypeOK
  <1>. QED BY <1>1, <1>2, <1>3, TableStep, HistoryStep DEF Control, Conditions, TypeOK

LEMMA ExitStep ==
  TypeOK /\ LineTable /\ InComment /\ ExitStatus /\ Next => ExitStatus'
  <1>. SUFFICES ASSUME TypeOK, LineTable, InComment, ExitStatus, Next PROVE ExitStatus'
    OBVIOUS
  <1>1. Outcome
    BY ControlStep
  <1>2. errormsg_'.any_errors_ <=> reports' # <<>>
    <2>1. \/ UNCHANGED reports /\ errormsg_'.any_errors_ = errormsg_.any_errors_
          \/ /\ \E r \in ReportType : reports' = Append(reports, r)
             /\ errormsg_'.any_errors_ = TRUE
      <3>1. errormsg_ \in ErrorMsgType /\ Sound(errormsg_)
        BY LineTableSound DEF TypeOK
      <3>. QED BY <3>1, MoveStep, AdjustedSound, NewlineSound, ErrorSound
               DEF Begins, Continues, Slips, Stops, Counts, Complains
    <2>. QED BY <2>1, Appended DEF ExitStatus, TypeOK
  <1>3. status' = "done" => sc' = "INITIAL" /\ Left' = 0 /\ reports' = <<>>
    BY <1>1 DEF Outcome, EndsWell, EndsBadly, ExitStatus, Left, vars
  <1>4. status' = "exit1" => reports' # <<>>
    BY <1>1, Appended DEF Outcome, EndsWell, EndsBadly, ExitStatus, vars, TypeOK
  <1>. QED BY <1>2, <1>3, <1>4 DEF ExitStatus

\* What is uncounted: one character more when one slips, and no other.
LEMMA UncountedStep ==
  ASSUME TypeOK, LineTable
  PROVE  /\ Uncounted \in Nat
         /\ Begins \/ Continues \/ Stops => Uncounted' = Uncounted
         /\ Slips => Uncounted' = Uncounted + 1
  <1>. DEFINE R(s) == {i \in DOMAIN s : s[i].msg = IgnoreMsg}
              k == Len(reports) + 1
  <1>1. /\ reports \in Seq(ReportType) /\ DOMAIN reports = 1..Len(reports)
        /\ Len(reports) \in Nat /\ echoed \in Seq(Byte) /\ Len(echoed) \in Nat
    BY LenProperties DEF TypeOK
  <1>2. IsFiniteSet(R(reports)) /\ Cardinality(R(reports)) \in Nat /\ k \notin R(reports)
    <2>1. R(reports) \subseteq 1..Len(reports) /\ IsFiniteSet(1..Len(reports))
      BY <1>1, FS_Interval
    <2>2. k \notin 1..Len(reports)
      BY <1>1
    <2>. QED BY <2>1, <2>2, FS_Subset, FS_CardinalityType
  <1>3. ASSUME NEW r \in ReportType, reports' = Append(reports, r)
        PROVE  R(reports') = IF r.msg = IgnoreMsg THEN R(reports) \union {k} ELSE R(reports)
    <2>1. /\ DOMAIN reports' = DOMAIN reports \union {k} /\ reports'[k] = r
          /\ \A i \in DOMAIN reports : reports'[i] = reports[i]
      BY <1>1, <1>3, Appended
    <2>2. k \notin DOMAIN reports
      BY <1>1
    <2>. QED BY <2>1, <2>2
  <1>4. /\ Uncounted = Len(echoed) + Cardinality(R(reports))
        /\ Uncounted' = Len(echoed') + Cardinality(R(reports'))
    BY DEF Uncounted
  <1>. HIDE DEF R, k
  <1>5. ASSUME NEW e, NEW at, Complains(e, Others, at) PROVE R(reports') = R(reports)
    <2>1. PICK r \in ReportType : r.msg \in Others /\ reports' = Append(reports, r)
      BY <1>5 DEF Complains
    <2>2. r.msg # IgnoreMsg
      BY <2>1 DEF Others, IgnoreMsg
    <2>. QED BY <1>3, <2>1, <2>2
  <1>6. ASSUME NEW e, NEW at, Complains(e, {IgnoreMsg}, at)
        PROVE  Cardinality(R(reports')) = Cardinality(R(reports)) + 1
    <2>1. PICK r \in ReportType : r.msg = IgnoreMsg /\ reports' = Append(reports, r)
      BY <1>6 DEF Complains
    <2>2. R(reports') = R(reports) \union {k}
      BY <1>3, <2>1
    <2>. QED BY <1>2, <2>2, FS_AddElement
  <1>7. ASSUME Begins \/ Continues \/ Stops
        PROVE  R(reports') = R(reports) /\ UNCHANGED echoed
    BY <1>5, <1>7 DEF Begins, Continues, Stops
  <1>8. ASSUME Slips
        PROVE  Len(echoed') + Cardinality(R(reports'))
                 = Len(echoed) + Cardinality(R(reports)) + 1
    <2>1. Len(Append(echoed, NL)) = Len(echoed) + 1
      BY <1>1
    <2>. QED BY <1>1, <1>2, <1>6, <1>8, <2>1 DEF Slips
  <1>. QED BY <1>1, <1>2, <1>4, <1>7, <1>8

\* The tokens, with one more, of a lag of d.
LEMMA LagStep ==
  ASSUME TypeOK, PositionExact, NEW d \in Nat, opened - errormsg_.tok_pos_ <= d,
         NEW p \in Nat, NEW a \in Nat, a - p = d, Returns(p, a)
  PROVE  /\ \A i \in DOMAIN tokens' : tokens'[i].at - tokens'[i].pos \in 0..d
         /\ \A i, j \in DOMAIN tokens' :
              i < j => tokens'[i].at - tokens'[i].pos <= tokens'[j].at - tokens'[j].pos
  <1>1. opened - errormsg_.tok_pos_ \in Int
    BY DEF TypeOK, ErrorMsgType
  <1>2. /\ \A i \in DOMAIN tokens : tokens[i].at - tokens[i].pos \in 0..d
        /\ \A i, j \in DOMAIN tokens :
             i < j => tokens[i].at - tokens[i].pos <= tokens[j].at - tokens[j].pos
    BY <1>1 DEF PositionExact
  <1>3. ASSUME NEW k \in Kinds, NEW t \in Seq(Byte), Token(k, t, p, a)
        PROVE  /\ \A i \in DOMAIN tokens' : tokens'[i].at - tokens'[i].pos \in 0..d
               /\ \A i, j \in DOMAIN tokens' : i < j =>
                    tokens'[i].at - tokens'[i].pos <= tokens'[j].at - tokens'[j].pos
    <2>. DEFINE x == [kind |-> k, text |-> t, pos |-> p, at |-> a]
    <2>1. x \in TokenType /\ x.at - x.pos = d
      BY DEF TokenType
    <2>2. tokens' = Append(tokens, x) /\ tokens \in Seq(TokenType)
      BY <1>3 DEF Token, TypeOK
    <2>. HIDE DEF x
    <2>3. /\ DOMAIN tokens' = DOMAIN tokens \union {Len(tokens) + 1}
          /\ tokens'[Len(tokens) + 1] = x
          /\ \A i \in DOMAIN tokens : tokens'[i] = tokens[i]
      BY <2>1, <2>2, Appended
    <2>4. Len(tokens) \in Nat /\ DOMAIN tokens = 1..Len(tokens)
      BY <2>2, LenProperties
    <2>5. \A i \in DOMAIN tokens' : tokens'[i].at - tokens'[i].pos \in 0..d
      BY <1>2, <2>1, <2>3
    <2>6. ASSUME NEW i \in DOMAIN tokens', NEW j \in DOMAIN tokens', i < j
          PROVE  tokens'[i].at - tokens'[i].pos <= tokens'[j].at - tokens'[j].pos
      <3>1. i \in DOMAIN tokens
        BY <2>3, <2>4, <2>6
      <3>2. CASE j \in DOMAIN tokens
        BY <1>2, <2>3, <2>6, <3>1, <3>2
      <3>3. CASE j = Len(tokens) + 1
        BY <2>1, <2>3, <2>5, <3>3
      <3>. QED BY <2>3, <3>2, <3>3
    <2>. QED BY <2>5, <2>6
  <1>. QED BY <1>2, <1>3 DEF Returns

LEMMA PositionStep ==
  TypeOK /\ LineTable /\ PositionExact /\ Next => PositionExact'
  <1>. SUFFICES ASSUME TypeOK, LineTable, PositionExact, Next PROVE PositionExact'
    OBVIOUS
  <1>1. /\ char_pos_ = cursor - Uncounted /\ Uncounted \in Nat
        /\ opened - errormsg_.tok_pos_ \in 0..Uncounted
        /\ errormsg_ \in ErrorMsgType /\ Sound(errormsg_) /\ errormsg_.tok_pos_ \in Nat
        /\ cursor \in Nat /\ opened \in Nat /\ char_pos_ \in Nat
    BY UncountedStep, LineTableSound DEF PositionExact, TypeOK, ErrorMsgType
  <1>2. UNCHANGED tokens => Returns(errormsg_.tok_pos_, opened)
    BY DEF Returns
  <1>3. CASE Begins
    <2>1. errormsg_'.tok_pos_ = char_pos_ /\ Uncounted' = Uncounted
      BY <1>3, AdjustedSound, NewlineSound, ErrorSound, UncountedStep
         DEF Begins, Counts, Complains
    <2>2. PICK n \in 1..Left : cursor' = cursor + n /\ char_pos_' = char_pos_ + n
                               /\ opened' = cursor
      BY <1>3 DEF Begins, Adjust
    <2>3. Returns(char_pos_, cursor)
      BY <1>3 DEF Begins
    <2>4. cursor - char_pos_ = Uncounted /\ opened - errormsg_.tok_pos_ <= Uncounted
      BY <1>1
    <2>5. /\ \A i \in DOMAIN tokens' : tokens'[i].at - tokens'[i].pos \in 0..Uncounted
          /\ \A i, j \in DOMAIN tokens' :
               i < j => tokens'[i].at - tokens'[i].pos <= tokens'[j].at - tokens'[j].pos
      BY <1>1, <2>3, <2>4, LagStep
    <2>6. char_pos_' = cursor' - Uncounted' /\ opened' - errormsg_'.tok_pos_ = Uncounted'
      BY <1>1, <2>1, <2>2
    <2>. QED BY <1>1, <2>1, <2>5, <2>6 DEF PositionExact
  <1>4. ASSUME UNCHANGED opened, errormsg_'.tok_pos_ = errormsg_.tok_pos_,
               Returns(errormsg_.tok_pos_, opened), char_pos_' = cursor' - Uncounted',
               Uncounted' \in Nat, Uncounted <= Uncounted'
        PROVE  PositionExact'
    <2>1. opened' - errormsg_'.tok_pos_ \in 0..Uncounted'
      BY <1>1, <1>4
    <2>2. opened - errormsg_.tok_pos_ \in Nat
      BY <1>1
    <2>3. /\ \A i \in DOMAIN tokens' :
               tokens'[i].at - tokens'[i].pos \in 0..(opened - errormsg_.tok_pos_)
          /\ \A i, j \in DOMAIN tokens' :
               i < j => tokens'[i].at - tokens'[i].pos <= tokens'[j].at - tokens'[j].pos
      BY <1>1, <1>4, <2>2, LagStep
    <2>. QED BY <1>4, <2>1, <2>3 DEF PositionExact
  <1>5. CASE Continues
    <2>1. errormsg_'.tok_pos_ = errormsg_.tok_pos_ /\ Uncounted' = Uncounted
      BY <1>1, <1>5, NewlineSound, UncountedStep DEF Continues, Counts
    <2>2. PICK n \in 1..Left : cursor' = cursor + n /\ char_pos_' = char_pos_ + n
                               /\ UNCHANGED opened
      BY <1>5 DEF Continues, AdjustStr
    <2>3. char_pos_' = cursor' - Uncounted'
      BY <1>1, <2>1, <2>2
    <2>. QED BY <1>1, <1>4, <1>5, <2>1, <2>2, <2>3 DEF Continues
  <1>6. CASE Slips
    <2>1. errormsg_'.tok_pos_ = errormsg_.tok_pos_ /\ Uncounted' = Uncounted + 1
      BY <1>1, <1>6, ErrorSound, UncountedStep DEF Slips, Complains
    <2>2. cursor' = cursor + 1 /\ UNCHANGED <<char_pos_, opened, tokens>>
      BY <1>6 DEF Slips
    <2>3. char_pos_' = cursor' - Uncounted' /\ Uncounted' \in Nat /\ Uncounted <= Uncounted'
      BY <1>1, <2>1, <2>2
    <2>. QED BY <1>2, <1>4, <2>1, <2>2, <2>3
  <1>7. CASE Stops
    <2>1. errormsg_'.tok_pos_ = errormsg_.tok_pos_ /\ Uncounted' = Uncounted
      BY <1>1, <1>7, ErrorSound, UncountedStep DEF Stops, Complains
    <2>2. UNCHANGED <<cursor, char_pos_, opened, tokens>>
      BY <1>7 DEF Stops
    <2>. QED BY <1>1, <1>2, <1>4, <2>1, <2>2
  <1>. QED BY <1>3, <1>5, <1>6, <1>7, MoveStep

-----------------------------------------------------------------------------
(* Lines *)

\* Lines of the file counted up to the end of the match.
LEMMA LineOfMatch ==
  ASSUME TypeOK, NEW n \in 1..Left
  PROVE  /\ LineOf(input, cursor) \in Nat
         /\ Plain(n) => LineOf(input, cursor + n) = LineOf(input, cursor)
         /\ Breaks(n) => LineOf(input, cursor + n) = LineOf(input, cursor) + 1
  <1>. DEFINE C(k) == {i \in 1..(k - 1) : input[i] = NL}
  <1>1. cursor \in Nat \ {0} /\ n \in Nat \ {0} /\ Left \in Int
    BY AheadType DEF TypeOK
  <1>2. C(cursor) \in SUBSET (1..(cursor - 1)) /\ IsFiniteSet(1..(cursor - 1))
    BY <1>1, FS_Interval
  <1>3. IsFiniteSet(C(cursor))
    BY <1>2, FS_Subset
  <1>4. Cardinality(C(cursor)) \in Nat
    BY <1>3, FS_CardinalityType
  <1>5. ASSUME Plain(n) PROVE C(cursor + n) = C(cursor)
    <2>1. ASSUME NEW i \in 1..((cursor + n) - 1), input[i] = NL PROVE i \in 1..(cursor - 1)
      <3>1. CASE i >= cursor
        <4>1. i - cursor \in 0..(n - 1) /\ cursor + (i - cursor) = i
          BY <1>1, <3>1
        <4>. QED BY <1>5, <2>1, <4>1 DEF Plain
      <3>. QED BY <1>1, <3>1
    <2>2. 1..(cursor - 1) \subseteq 1..((cursor + n) - 1)
      BY <1>1
    <2>3. \A i : i \in C(cursor + n) <=> i \in C(cursor)
      BY <2>1, <2>2
    <2>. HIDE DEF C
    <2>. QED BY <2>3
  <1>6. ASSUME Breaks(n)
        PROVE  C(cursor + n) = C(cursor) \union {cursor + n - 1} /\ cursor + n - 1 \notin C(cursor)
    <2>1. ASSUME NEW i \in 1..((cursor + n) - 1), input[i] = NL
          PROVE  i \in 1..(cursor - 1) \/ i = cursor + n - 1
      <3>1. CASE i >= cursor /\ i # cursor + n - 1
        <4>1. i - cursor \in 0..(n - 2) /\ cursor + (i - cursor) = i
          BY <1>1, <3>1
        <4>. QED BY <1>6, <2>1, <4>1 DEF Breaks
      <3>. QED BY <1>1, <3>1
    <2>2. 1..(cursor - 1) \subseteq 1..((cursor + n) - 1)
      BY <1>1
    <2>3. cursor + n - 1 \in 1..((cursor + n) - 1) /\ input[cursor + n - 1] = NL
      BY <1>1, <1>6 DEF Breaks
    <2>0. (cursor + n) - 1 = cursor + n - 1
      BY <1>1
    <2>4. cursor + n - 1 \notin 1..(cursor - 1)
      BY <1>1
    <2>5. \A i : i \in C(cursor + n) <=> i \in C(cursor) \/ i = cursor + n - 1
      BY <2>0, <2>1, <2>2, <2>3
    <2>6. cursor + n - 1 \notin C(cursor)
      BY <2>4
    <2>. HIDE DEF C
    <2>. QED BY <2>5, <2>6
  <1>7. \A k : LineOf(input, k) = 1 + Cardinality(C(k))
    BY DEF LineOf
  <1>. HIDE DEF C
  <1>8. Breaks(n) => Cardinality(C(cursor + n)) = Cardinality(C(cursor)) + 1
    BY <1>3, <1>6, FS_AddElement
  <1>. QED BY <1>4, <1>5, <1>7, <1>8

\* What the methods called on e leave of the lines shown, for a match of n characters.
LEMMA CountsLines ==
  ASSUME TypeOK, NEW e \in ErrorMsgType, NEW n \in 1..Left, NEW q \in Nat,
         Counts(n, e) \/ (Plain(n) /\ errormsg_' = Error(e)),
         \A i \in DOMAIN e.line_pos_ : e.line_pos_[i] < q,
         e.tok_pos_ < q
  PROVE  /\ errormsg_'.tok_pos_ = e.tok_pos_
         /\ \A i \in DOMAIN errormsg_'.line_pos_ : errormsg_'.line_pos_[i] < q
         /\ \A p \in Nat : p <= e.tok_pos_ =>
              Location(errormsg_', p).line = Location(e, p).line
         /\ {errormsg_'.line_num_, e.line_num_} \subseteq Int
         /\ {LineOf(input, cursor), LineOf(input, cursor + n)} \subseteq Int
         /\ errormsg_'.line_num_ - e.line_num_ = LineOf(input, cursor + n) - LineOf(input, cursor)
  <1>0. e.line_num_ \in Int /\ LineOf(input, cursor) \in Nat
    BY LineOfMatch DEF ErrorMsgType
  <1>1. CASE Plain(n) /\ errormsg_' \in {e, Error(e)}
    <2>1. /\ errormsg_'.tok_pos_ = e.tok_pos_ /\ errormsg_'.line_pos_ = e.line_pos_
          /\ errormsg_'.line_num_ = e.line_num_
      BY <1>1 DEF Error, ErrorMsgType
    <2>2. \A p \in Nat : Location(errormsg_', p) = Location(e, p)
      BY <2>1, SameLines
    <2>3. LineOf(input, cursor + n) = LineOf(input, cursor)
      BY <1>1, LineOfMatch
    <2>. QED BY <1>0, <2>1, <2>2, <2>3
  <1>2. CASE Breaks(n) /\ errormsg_' = Newline(e)
    <2>1. /\ errormsg_' \in ErrorMsgType
          /\ errormsg_'.line_num_ = e.line_num_ + 1
          /\ errormsg_'.tok_pos_ = e.tok_pos_
          /\ Len(errormsg_'.line_pos_) = Len(e.line_pos_) + 1
          /\ errormsg_'.line_pos_[1] = e.tok_pos_
          /\ \A i \in 2..(Len(e.line_pos_) + 1) : errormsg_'.line_pos_[i] = e.line_pos_[i - 1]
      BY <1>2, NewlineTable
    <2>2. \A i \in DOMAIN errormsg_'.line_pos_ : errormsg_'.line_pos_[i] < q
      <3>. SUFFICES ASSUME NEW i \in DOMAIN errormsg_'.line_pos_
                    PROVE  errormsg_'.line_pos_[i] < q
        OBVIOUS
      <3>1. Len(e.line_pos_) \in Nat /\ DOMAIN e.line_pos_ = 1..Len(e.line_pos_)
            /\ i \in 1..(Len(e.line_pos_) + 1)
        BY <2>1, LenProperties DEF ErrorMsgType
      <3>2. i = 1 \/ (i \in 2..(Len(e.line_pos_) + 1) /\ i - 1 \in DOMAIN e.line_pos_)
        BY <3>1
      <3>. QED BY <2>1, <3>2
    <2>3. \A p \in Nat : p <= e.tok_pos_ => Location(errormsg_', p).line = Location(e, p).line
      BY <1>2, NewlineKeeps
    <2>4. LineOf(input, cursor + n) = LineOf(input, cursor) + 1
      BY <1>2, LineOfMatch
    <2>. QED BY <1>0, <2>1, <2>2, <2>3, <2>4
  <1>. QED BY <1>1, <1>2 DEF Counts

\* Error changes no line.
LEMMA ErrorLines ==
  ASSUME NEW e \in ErrorMsgType, errormsg_' \in {e, Error(e)}
  PROVE  /\ errormsg_'.tok_pos_ = e.tok_pos_ /\ errormsg_'.line_pos_ = e.line_pos_
         /\ errormsg_'.line_num_ = e.line_num_
         /\ \A p \in Nat : Location(errormsg_', p) = Location(e, p)
  <1>1. /\ errormsg_'.tok_pos_ = e.tok_pos_ /\ errormsg_'.line_pos_ = e.line_pos_
        /\ errormsg_'.line_num_ = e.line_num_
    BY DEF Error, ErrorMsgType
  <1>. QED BY <1>1, SameLines

\* What adjust() leaves of the lines shown: the token it begins is on the last one.
LEMMA AdjustedLines ==
  ASSUME TypeOK, LinesBehind
  PROVE  /\ Adjusted \in ErrorMsgType /\ Adjusted.tok_pos_ = char_pos_
         /\ Adjusted.line_pos_ = errormsg_.line_pos_
         /\ Adjusted.line_num_ = errormsg_.line_num_
         /\ \A p \in Nat : Location(Adjusted, p) = Location(errormsg_, p)
         /\ Location(Adjusted, char_pos_).line = errormsg_.line_num_
  <1>1. /\ Adjusted \in ErrorMsgType /\ Adjusted.tok_pos_ = char_pos_
        /\ Adjusted.line_pos_ = errormsg_.line_pos_
        /\ Adjusted.line_num_ = errormsg_.line_num_
    BY DEF Adjusted, TypeOK, ErrorMsgType
  <1>2. char_pos_ \in Nat
    BY DEF TypeOK
  <1>3. Location(Adjusted, char_pos_).line = Adjusted.line_num_
    BY <1>1, <1>2, LastLine DEF LinesBehind
  <1>. QED BY <1>1, <1>3, SameLines

\* A token of the longer sequence is one there was, or the one returned.
LEMMA EachToken ==
  ASSUME TypeOK, NEW p \in Nat, NEW a \in Nat, Returns(p, a)
  PROVE  \A i \in DOMAIN tokens' :
           \/ i \in DOMAIN tokens /\ tokens'[i] = tokens[i] /\ tokens[i].pos \in Nat
           \/ tokens'[i].pos = p /\ tokens'[i].at = a
  <1>1. tokens \in Seq(TokenType) /\ \A i \in DOMAIN tokens : tokens[i].pos \in Nat
    <2>1. tokens \in Seq(TokenType)
      BY DEF TypeOK
    <2>2. \A i \in DOMAIN tokens : tokens[i] \in TokenType
      BY <2>1, ElementOfSeq, LenProperties
    <2>. QED BY <2>1, <2>2 DEF TokenType
  <1>2. ASSUME NEW k \in Kinds, NEW t \in Seq(Byte), Token(k, t, p, a)
        PROVE  \A i \in DOMAIN tokens' :
                 \/ i \in DOMAIN tokens /\ tokens'[i] = tokens[i]
                 \/ tokens'[i].pos = p /\ tokens'[i].at = a
    <2>. DEFINE x == [kind |-> k, text |-> t, pos |-> p, at |-> a]
    <2>1. x \in TokenType /\ x.pos = p /\ x.at = a
      BY DEF TokenType
    <2>2. tokens' = Append(tokens, x)
      BY <1>2 DEF Token
    <2>. HIDE DEF x
    <2>. QED BY <1>1, <2>1, <2>2, Appended
  <1>. QED BY <1>1, <1>2 DEF Returns

\* A report is one there was, or shows the current token of e.
LEMMA EachReport ==
  ASSUME TypeOK, NEW e, NEW messages, NEW a,
         UNCHANGED reports \/ Complains(e, messages, a)
  PROVE  \A i \in DOMAIN reports' :
           \/ i \in DOMAIN reports /\ reports'[i] = reports[i]
           \/ reports'[i].at = a /\ reports'[i].shown = Location(e, e.tok_pos_)
  <1>1. reports \in Seq(ReportType)
    BY DEF TypeOK
  <1>2. ASSUME NEW r \in ReportType, r.at = a, r.shown = Location(e, e.tok_pos_),
               reports' = Append(reports, r)
        PROVE  \A i \in DOMAIN reports' :
                 \/ i \in DOMAIN reports /\ reports'[i] = reports[i]
                 \/ reports'[i].at = a /\ reports'[i].shown = Location(e, e.tok_pos_)
    <2>1. /\ DOMAIN reports' = DOMAIN reports \union {Len(reports) + 1}
          /\ reports'[Len(reports) + 1] = r
          /\ \A i \in DOMAIN reports : reports'[i] = reports[i]
      BY <1>1, <1>2, Appended
    <2>. QED BY <1>2, <2>1
  <1>. QED BY <1>2 DEF Complains

LEMMA LineStep ==
  TypeOK /\ LineTable /\ InComment /\ LinesBehind /\ LineExact /\ Next
    => LinesBehind' /\ LineExact'
  <1>. SUFFICES ASSUME TypeOK, LineTable, InComment, LinesBehind, LineExact, Next
                PROVE  LinesBehind' /\ LineExact'
    OBVIOUS
  <1>1. input' = input
    BY ControlStep DEF Control
  <1>2. /\ errormsg_ \in ErrorMsgType /\ errormsg_.tok_pos_ \in Nat
        /\ errormsg_.tok_pos_ <= char_pos_ /\ char_pos_ \in Nat
        /\ cursor \in Nat /\ opened \in Nat /\ Left \in Nat
        /\ \A i \in DOMAIN errormsg_.line_pos_ : errormsg_.line_pos_[i] \in Nat
    BY SMTT(30), ElementOfSeq, LenProperties, AheadType DEF TypeOK, LineTable, ErrorMsgType
  <1>3. /\ \A i \in DOMAIN errormsg_.line_pos_ : errormsg_.line_pos_[i] < char_pos_
        /\ \A i \in DOMAIN tokens : tokens[i].pos <= errormsg_.tok_pos_
    BY DEF LinesBehind
  <1>4. /\ errormsg_.line_num_ = LineOf(input, cursor) - Len(echoed)
        /\ LineOf(input, opened) - Location(errormsg_, errormsg_.tok_pos_).line
             \in 0..Len(echoed)
        /\ \A i \in DOMAIN tokens :
             LineOf(input, tokens[i].at) - Location(errormsg_, tokens[i].pos).line
               \in 0..Len(echoed)
        /\ \A i \in DOMAIN reports :
             LineOf(input, reports[i].at) - reports[i].shown.line \in 0..Len(echoed)
        /\ Len(echoed) \in Nat /\ errormsg_.line_num_ \in Nat
    BY LenProperties DEF LinesBehind, LineExact, TypeOK, ErrorMsgType
  <1>. DEFINE
         Behind == /\ \A i \in DOMAIN errormsg_'.line_pos_ : errormsg_'.line_pos_[i] < char_pos_'
                   /\ \A i \in DOMAIN tokens' : tokens'[i].pos <= errormsg_'.tok_pos_
         Exact == /\ LineOf(input, opened') - Location(errormsg_', errormsg_'.tok_pos_).line
                       \in 0..Len(echoed')
                  /\ errormsg_'.line_num_ = LineOf(input, cursor') - Len(echoed')
                  /\ \A i \in DOMAIN tokens' :
                       LineOf(input, tokens'[i].at) - Location(errormsg_', tokens'[i].pos).line
                         \in 0..Len(echoed')
                  /\ \A i \in DOMAIN reports' :
                       LineOf(input, reports'[i].at) - reports'[i].shown.line
                         \in 0..Len(echoed')
  <1>. SUFFICES Behind /\ Exact
    BY <1>1 DEF LinesBehind, LineExact
  <1>5. CASE Begins
    <2>1. PICK n \in 1..Left :
            /\ Adjust(n)
            /\ \/ Counts(n, Adjusted) /\ UNCHANGED reports
               \/ Plain(n) /\ Complains(Adjusted, Others, cursor)
      BY <1>5 DEF Begins
    <2>2. n \in Nat \ {0} /\ cursor' = cursor + n /\ char_pos_' = char_pos_ + n /\ opened' = cursor
      BY <1>2, <2>1 DEF Adjust
    <2>3. /\ Adjusted \in ErrorMsgType /\ Adjusted.tok_pos_ = char_pos_
          /\ Adjusted.line_num_ = errormsg_.line_num_
          /\ \A p \in Nat : Location(Adjusted, p) = Location(errormsg_, p)
          /\ Location(Adjusted, char_pos_).line = errormsg_.line_num_
          /\ \A i \in DOMAIN Adjusted.line_pos_ : Adjusted.line_pos_[i] < char_pos_ + n
      BY <1>2, <1>3, <2>2, AdjustedLines
    <2>4. /\ errormsg_'.tok_pos_ = char_pos_
          /\ \A i \in DOMAIN errormsg_'.line_pos_ : errormsg_'.line_pos_[i] < char_pos_'
          /\ \A p \in Nat : p <= char_pos_ =>
               Location(errormsg_', p).line = Location(errormsg_, p).line
          /\ Location(errormsg_', char_pos_).line = errormsg_.line_num_
          /\ {errormsg_'.line_num_, LineOf(input, cursor), LineOf(input, cursor')} \subseteq Int
          /\ errormsg_'.line_num_ - errormsg_.line_num_
               = LineOf(input, cursor') - LineOf(input, cursor)
      <3>1. char_pos_ + n \in Nat /\ Adjusted.tok_pos_ < char_pos_ + n
        BY <1>2, <2>2, <2>3
      <3>2. Counts(n, Adjusted) \/ (Plain(n) /\ errormsg_' = Error(Adjusted))
        BY <2>1 DEF Complains
      <3>3. /\ errormsg_'.tok_pos_ = Adjusted.tok_pos_
            /\ \A i \in DOMAIN errormsg_'.line_pos_ : errormsg_'.line_pos_[i] < char_pos_ + n
            /\ \A p \in Nat : p <= Adjusted.tok_pos_ =>
                 Location(errormsg_', p).line = Location(Adjusted, p).line
            /\ {errormsg_'.line_num_, LineOf(input, cursor), LineOf(input, cursor + n)}
                 \subseteq Int
            /\ errormsg_'.line_num_ - Adjusted.line_num_
                 = LineOf(input, cursor + n) - LineOf(input, cursor)
        BY <2>3, <3>1, <3>2, CountsLines
      <3>. QED BY <1>2, <2>2, <2>3, <3>3
    <2>5. \A i \in DOMAIN tokens' :
            \/ i \in DOMAIN tokens /\ tokens'[i] = tokens[i] /\ tokens[i].pos \in Nat
            \/ tokens'[i].pos = char_pos_ /\ tokens'[i].at = cursor
      BY <1>2, <1>5, EachToken DEF Begins
    <2>6. \A i \in DOMAIN reports' :
            \/ i \in DOMAIN reports /\ reports'[i] = reports[i]
            \/ reports'[i].at = cursor /\ reports'[i].shown = Location(Adjusted, char_pos_)
      BY <2>1, <2>3, EachReport
    <2>7. Behind
      BY <1>2, <1>3, <2>4, <2>5
    <2>8. Exact
      <3>1. UNCHANGED echoed
        BY <1>5 DEF Begins
      <3>2. LineOf(input, cursor) - errormsg_.line_num_ \in 0..Len(echoed)
        BY <1>4, <2>4
      <3>3. errormsg_'.line_num_ = LineOf(input, cursor') - Len(echoed')
        BY <1>4, <2>4, <3>1
      <3>4. LineOf(input, opened') - Location(errormsg_', errormsg_'.tok_pos_).line
              \in 0..Len(echoed')
        BY <2>2, <2>4, <3>1, <3>2
      <3>5. ASSUME NEW i \in DOMAIN tokens'
            PROVE  LineOf(input, tokens'[i].at) - Location(errormsg_', tokens'[i].pos).line
                     \in 0..Len(echoed')
        <4>1. CASE i \in DOMAIN tokens /\ tokens'[i] = tokens[i] /\ tokens[i].pos \in Nat
          <5>1. tokens[i].pos <= char_pos_
            BY <1>2, <1>3, <4>1
          <5>. QED BY <1>4, <2>4, <3>1, <4>1, <5>1
        <4>2. CASE tokens'[i].pos = char_pos_ /\ tokens'[i].at = cursor
          BY <2>4, <3>1, <3>2, <4>2
        <4>. QED BY <2>5, <4>1, <4>2
      <3>6. ASSUME NEW i \in DOMAIN reports'
            PROVE  LineOf(input, reports'[i].at) - reports'[i].shown.line \in 0..Len(echoed')
        <4>1. CASE i \in DOMAIN reports /\ reports'[i] = reports[i]
          BY <1>4, <3>1, <4>1
        <4>2. CASE reports'[i].at = cursor /\ reports'[i].shown = Location(Adjusted, char_pos_)
          BY <2>3, <3>1, <3>2, <4>2
        <4>. QED BY <2>6, <4>1, <4>2
      <3>. QED BY <3>3, <3>4, <3>5, <3>6
    <2>. QED BY <2>7, <2>8
  <1>6. CASE Continues
    <2>1. PICK n \in 1..Left : AdjustStr(n) /\ Counts(n, errormsg_)
      BY <1>6 DEF Continues
    <2>2. /\ n \in Nat \ {0} /\ cursor' = cursor + n /\ char_pos_' = char_pos_ + n
          /\ opened' = opened
      BY <1>2, <2>1 DEF AdjustStr
    <2>3. /\ char_pos_ + n \in Nat /\ errormsg_.tok_pos_ < char_pos_ + n
          /\ \A i \in DOMAIN errormsg_.line_pos_ : errormsg_.line_pos_[i] < char_pos_ + n
      BY <1>2, <1>3, <2>2
    <2>4. /\ errormsg_'.tok_pos_ = errormsg_.tok_pos_
          /\ \A i \in DOMAIN errormsg_'.line_pos_ : errormsg_'.line_pos_[i] < char_pos_ + n
          /\ \A p \in Nat : p <= errormsg_.tok_pos_ =>
               Location(errormsg_', p).line = Location(errormsg_, p).line
          /\ {errormsg_'.line_num_, LineOf(input, cursor), LineOf(input, cursor + n)}
               \subseteq Int
          /\ errormsg_'.line_num_ - errormsg_.line_num_
               = LineOf(input, cursor + n) - LineOf(input, cursor)
      BY <1>2, <2>1, <2>3, CountsLines
    <2>5. \A i \in DOMAIN tokens' :
            \/ i \in DOMAIN tokens /\ tokens'[i] = tokens[i] /\ tokens[i].pos \in Nat
            \/ tokens'[i].pos = errormsg_.tok_pos_ /\ tokens'[i].at = opened
      BY <1>2, <1>6, EachToken DEF Continues
    <2>6. UNCHANGED <<reports, echoed>>
      BY <1>6 DEF Continues
    <2>7. Behind
      BY <1>2, <1>3, <2>2, <2>4, <2>5
    <2>8. Exact
      <3>1. errormsg_'.line_num_ = LineOf(input, cursor') - Len(echoed')
        BY <1>4, <2>2, <2>4, <2>6
      <3>2. Location(errormsg_', errormsg_'.tok_pos_).line
              = Location(errormsg_, errormsg_.tok_pos_).line
        BY <1>2, <2>4
      <3>3. LineOf(input, opened') - Location(errormsg_', errormsg_'.tok_pos_).line
              \in 0..Len(echoed')
        BY <1>4, <2>2, <2>6, <3>2
      <3>4. ASSUME NEW i \in DOMAIN tokens'
            PROVE  LineOf(input, tokens'[i].at) - Location(errormsg_', tokens'[i].pos).line
                     \in 0..Len(echoed')
        <4>1. CASE i \in DOMAIN tokens /\ tokens'[i] = tokens[i] /\ tokens[i].pos \in Nat
          <5>1. tokens[i].pos <= errormsg_.tok_pos_
            BY <1>3, <4>1
          <5>. QED BY <1>4, <2>4, <2>6, <4>1, <5>1
        <4>2. CASE tokens'[i].pos = errormsg_.tok_pos_ /\ tokens'[i].at = opened
          BY <1>4, <2>4, <2>6, <3>2, <4>2
        <4>. QED BY <2>5, <4>1, <4>2
      <3>5. ASSUME NEW i \in DOMAIN reports'
            PROVE  LineOf(input, reports'[i].at) - reports'[i].shown.line \in 0..Len(echoed')
        BY <1>4, <2>6
      <3>. QED BY <3>1, <3>3, <3>4, <3>5
    <2>. QED BY <2>7, <2>8
  <1>7. ASSUME UNCHANGED <<char_pos_, opened, tokens>>,
               errormsg_' \in {errormsg_, Error(errormsg_)},
               LineOf(input, cursor') - Len(echoed') = LineOf(input, cursor) - Len(echoed),
               Len(echoed') \in Nat, Len(echoed) <= Len(echoed'),
               \A i \in DOMAIN reports' :
                 \/ i \in DOMAIN reports /\ reports'[i] = reports[i]
                 \/ /\ reports'[i].at = opened
                    /\ reports'[i].shown = Location(errormsg_, errormsg_.tok_pos_)
        PROVE  Behind /\ Exact
    <2>1. /\ errormsg_'.tok_pos_ = errormsg_.tok_pos_
          /\ errormsg_'.line_pos_ = errormsg_.line_pos_
          /\ errormsg_'.line_num_ = errormsg_.line_num_
          /\ \A p \in Nat : Location(errormsg_', p) = Location(errormsg_, p)
      BY <1>2, <1>7, ErrorLines
    <2>2. \A i \in DOMAIN tokens : tokens[i].pos \in Nat
      <3>1. tokens \in Seq(TokenType)
        BY DEF TypeOK
      <3>2. \A i \in DOMAIN tokens : tokens[i] \in TokenType
        BY <3>1, ElementOfSeq, LenProperties
      <3>. QED BY <3>2 DEF TokenType
    <2>3. Behind
      BY <1>3, <1>7, <2>1
    <2>4. Exact
      BY <1>2, <1>4, <1>7, <2>1, <2>2
    <2>. QED BY <2>3, <2>4
  <1>8. CASE Slips
    <2>1. CASE /\ Char = NL /\ echoed' = Append(echoed, NL)
               /\ UNCHANGED <<errormsg_, reports>>
      <3>1. Len(echoed') = Len(echoed) + 1
        <4>1. echoed \in Seq(Byte)
          BY DEF TypeOK
        <4>. QED BY <2>1, <4>1
      <3>2. /\ cursor' = cursor + 1 /\ LineOf(input, cursor) \in Nat
            /\ LineOf(input, cursor + 1) = LineOf(input, cursor) + 1
        BY <1>8, <2>1, OnePlain, LineOfMatch DEF Slips
      <3>3. /\ LineOf(input, cursor') - Len(echoed') = LineOf(input, cursor) - Len(echoed)
            /\ Len(echoed') \in Nat /\ Len(echoed) <= Len(echoed')
        BY <1>4, <3>1, <3>2
      <3>. QED BY <1>7, <1>8, <2>1, <3>3 DEF Slips
    <2>2. CASE Char # NL /\ Complains(errormsg_, {IgnoreMsg}, opened) /\ UNCHANGED echoed
      <3>1. cursor' = cursor + 1 /\ UNCHANGED <<char_pos_, opened, tokens>>
            /\ LineOf(input, cursor + 1) = LineOf(input, cursor)
        BY <1>8, <2>2, OnePlain, LineOfMatch DEF Slips
      <3>2. errormsg_' = Error(errormsg_)
        BY <2>2 DEF Complains
      <3>3. \A i \in DOMAIN reports' :
              \/ i \in DOMAIN reports /\ reports'[i] = reports[i]
              \/ /\ reports'[i].at = opened
                 /\ reports'[i].shown = Location(errormsg_, errormsg_.tok_pos_)
        BY <2>2, EachReport
      <3>. QED BY <1>4, <1>7, <2>2, <3>1, <3>2, <3>3
    <2>. QED BY <1>8, <2>1, <2>2 DEF Slips
  <1>9. CASE Stops
    <2>1. UNCHANGED <<cursor, char_pos_, opened, tokens, echoed>>
          /\ errormsg_' \in {errormsg_, Error(errormsg_)}
      BY <1>9 DEF Stops, Complains
    <2>2. \A i \in DOMAIN reports' :
            \/ i \in DOMAIN reports /\ reports'[i] = reports[i]
            \/ /\ reports'[i].at = opened
               /\ reports'[i].shown = Location(errormsg_, errormsg_.tok_pos_)
      BY <1>9, EachReport DEF Stops
    <2>. QED BY <1>4, <1>7, <2>1, <2>2
  <1>. HIDE DEF Behind, Exact
  <1>. QED BY <1>5, <1>6, <1>8, <1>9, MoveStep

-----------------------------------------------------------------------------
(* What a step reads, and what it makes of it *)

\* A match outside any string or comment, which begins neither.
Passes ==
  /\ sc = "INITIAL" /\ ~Opens(input, cursor) /\ cursor < cursor'
  /\ sc' = "INITIAL" /\ opened' = cursor
  /\ \/ UNCHANGED tokens
     \/ \E k \in Kinds \ {"STRING"}, t \in Seq(Byte), p \in Nat : Token(k, t, p, cursor)

EntersString ==
  /\ Left > 0 /\ Char = Quote /\ cursor' = cursor + 1 /\ opened' = cursor
  /\ sc' = "STR" /\ string_buf_' = <<>> /\ UNCHANGED tokens

EntersComment ==
  /\ Opens(input, cursor) /\ cursor' = cursor + 2 /\ opened' = cursor
  /\ sc' = "COMMENT" /\ comment_level_' = 1 /\ UNCHANGED tokens

\* A delimiter inside a comment, or another character.
ReadsComment ==
  /\ sc = "COMMENT" /\ Left > 0 /\ UNCHANGED <<opened, tokens>>
  /\ \/ /\ Opens(input, cursor) /\ cursor' = cursor + 2
        /\ comment_level_' = comment_level_ + 1 /\ UNCHANGED sc
     \/ /\ Closes(input, cursor) /\ cursor' = cursor + 2
        /\ comment_level_' = comment_level_ - 1
        /\ sc' = IF comment_level_' = 0 THEN "INITIAL" ELSE sc
     \/ /\ ~Opens(input, cursor) /\ ~Closes(input, cursor) /\ cursor' = cursor + 1
        /\ UNCHANGED <<comment_level_, sc>>

\* A piece of a string, up to the ignored part of an ignore sequence.
ReadsString ==
  /\ sc = "STR" /\ Left > 0 /\ Char # Quote /\ UNCHANGED <<opened, tokens>>
  /\ \/ /\ string_buf_' = string_buf_ \o Piece(input, cursor).puts
        /\ cursor' = Piece(input, cursor).next /\ UNCHANGED sc
     \/ /\ Piece(input, cursor).puts = <<>>
        /\ Piece(input, cursor).next = AfterIgnored(input, cursor + 2)
        /\ cursor' = cursor + 2 /\ sc' = "IGNORE" /\ UNCHANGED string_buf_

LeavesString ==
  /\ sc = "STR" /\ Left > 0 /\ Char = Quote /\ cursor' = cursor + 1
  /\ sc' = "INITIAL" /\ UNCHANGED opened
  /\ Token("STRING", string_buf_, errormsg_.tok_pos_, opened)

\* A character of an ignore sequence.
Ignores ==
  /\ sc = "IGNORE" /\ Left > 0 /\ cursor' = cursor + 1
  /\ UNCHANGED <<opened, tokens, string_buf_>>
  /\ sc' = IF Char = Backslash THEN "STR" ELSE sc

ReadsNothing == UNCHANGED <<cursor, sc, opened, tokens, string_buf_, comment_level_>>

Views == \/ Passes \/ EntersString \/ EntersComment \/ ReadsComment \/ ReadsString
         \/ LeavesString \/ Ignores \/ ReadsNothing

\* The pairs a comment is delimited by, as the rules see them.
LEMMA Delimiters ==
  ASSUME TypeOK
  PROVE  /\ Ahead(<<Slash, Star>>) <=> Opens(input, cursor)
         /\ Ahead(<<Star, Slash>>) <=> Closes(input, cursor)
         /\ Opens(input, cursor) => Left >= 2 /\ Char = Slash
         /\ Opens(input, cursor) => ~Closes(input, cursor)
  <1>1. \A c, d : Ahead(<<c, d>>) <=> Left >= 2 /\ input[cursor] = c /\ input[cursor + 1] = d
    <2>. SUFFICES ASSUME NEW c, NEW d
                  PROVE  Ahead(<<c, d>>) <=>
                           Left >= 2 /\ input[cursor] = c /\ input[cursor + 1] = d
      OBVIOUS
    <2>1. Len(<<c, d>>) = 2 /\ <<c, d>>[1] = c /\ <<c, d>>[2] = d
          /\ cursor + 1 - 1 = cursor /\ cursor + 2 - 1 = cursor + 1 /\ 1..2 = {1, 2}
      BY DEF TypeOK
    <2>. QED BY <2>1 DEF Ahead
  <1>2. Left >= 2 <=> cursor < Len(input)
    BY LenProperties DEF Left, TypeOK
  <1>. QED BY <1>1, <1>2 DEF Opens, Closes, Slash, Star, Char

LEMMA EmitPasses ==
  ASSUME TypeOK, In("INITIAL"), ~Opens(input, cursor), NEW k \in Kinds \ {"STRING"},
         NEW n \in 1..Left, Emit(k, n)
  PROVE  Passes
  <1>1. Lexeme(n) \in Seq(Byte)
    BY AheadType
  <1>2. cursor < cursor + n /\ char_pos_ \in Nat
    BY AheadType DEF TypeOK
  <1>. QED BY <1>1, <1>2 DEF Emit, Adjust, Passes, In

\* What a decimal escape stands for.
Decimal(a, b, c) == (100 * (a - 48) + 10 * (b - 48) + (c - 48)) % 256

\* The pieces of a string: escapes, and single characters.
LEMMA PieceIs ==
  ASSUME NEW f \in Seq(Byte), NEW i \in 1..Len(f)
  PROVE  /\ Escape(f, i, {LowerN}) => Piece(f, i) = [puts |-> <<NL>>, next |-> i + 2]
         /\ Escape(f, i, {LowerT}) => Piece(f, i) = [puts |-> <<9>>, next |-> i + 2]
         /\ Escape(f, i, {AtSign}) => Piece(f, i) = [puts |-> <<0>>, next |-> i + 2]
         /\ Escape(f, i, {Quote, Backslash}) =>
              Piece(f, i) = [puts |-> <<f[i + 1]>>, next |-> i + 2]
         /\ Escape(f, i, Blank \union {NL}) =>
              Piece(f, i) = [puts |-> <<>>, next |-> AfterIgnored(f, i + 2)]
         /\ Escape(f, i, {Caret}) /\ i + 2 <= Len(f) /\ f[i + 2] \in Upper =>
              Piece(f, i) = [puts |-> <<f[i + 2] - 64>>, next |-> i + 3]
         /\ Escape(f, i, Digits) /\ i + 3 <= Len(f) /\ f[i + 2] \in Digits /\ f[i + 3] \in Digits =>
              Piece(f, i) = [puts |-> <<Decimal(f[i + 1], f[i + 2], f[i + 3])>>, next |-> i + 4]
         /\ \/ Escape(f, i, {LowerN, LowerT, AtSign, Quote, Backslash, NL} \union Blank)
            \/ Escape(f, i, {Caret}) /\ i + 2 <= Len(f) /\ f[i + 2] \in Upper
            \/ /\ Escape(f, i, Digits) /\ i + 3 <= Len(f)
               /\ f[i + 2] \in Digits /\ f[i + 3] \in Digits
            \/ Piece(f, i) = [puts |-> IF f[i] = NL THEN <<>> ELSE <<f[i]>>, next |-> i + 1]
  <1>. DEFINE c == f[i]
              d == f[i + 1]
  <1>. USE DEF LowerN, LowerT, AtSign, Quote, Backslash, NL, Blank, Caret, Digits, Escape
  <1>1. ASSUME i < Len(f), c = 92, d = 110
        PROVE  Piece(f, i) = [puts |-> <<10>>, next |-> i + 2]
    BY <1>1 DEF Piece
  <1>2. ASSUME i < Len(f), c = 92, d = 116
        PROVE  Piece(f, i) = [puts |-> <<9>>, next |-> i + 2]
    BY <1>2 DEF Piece
  <1>3. ASSUME i < Len(f), c = 92, d = 64
        PROVE  Piece(f, i) = [puts |-> <<0>>, next |-> i + 2]
    BY <1>3 DEF Piece
  <1>4. ASSUME i < Len(f), c = 92, d \in {34, 92}
        PROVE  Piece(f, i) = [puts |-> <<f[i + 1]>>, next |-> i + 2]
    <2>1. CASE d = 34
      BY <1>4, <2>1 DEF Piece
    <2>2. CASE d = 92
      BY <1>4, <2>2 DEF Piece
    <2>. QED BY <1>4, <2>1, <2>2
  <1>5. ASSUME i < Len(f), c = 92, d \in {32, 9, 10}
        PROVE  Piece(f, i) = [puts |-> <<>>, next |-> AfterIgnored(f, i + 2)]
    <2>1. CASE d = 32
      BY <1>5, <2>1 DEF Piece
    <2>2. CASE d = 9
      BY <1>5, <2>2 DEF Piece
    <2>3. CASE d = 10
      BY <1>5, <2>3 DEF Piece
    <2>. QED BY <1>5, <2>1, <2>2, <2>3
  <1>6. ASSUME i < Len(f), c = 92, d = 94, i + 2 <= Len(f), f[i + 2] \in Upper
        PROVE  Piece(f, i) = [puts |-> <<f[i + 2] - 64>>, next |-> i + 3]
    BY <1>6 DEF Piece
  <1>7. ASSUME i < Len(f), c = 92, d \in 48..57, i + 3 <= Len(f), f[i + 2] \in 48..57,
               f[i + 3] \in 48..57
        PROVE  Piece(f, i) = [puts |-> <<Decimal(d, f[i + 2], f[i + 3])>>, next |-> i + 4]
    <2>. DEFINE v == 10 * (10 * (d - 48) + (f[i + 2] - 48)) + (f[i + 3] - 48)
    <2>1. \A e \in 48..57 : e \notin {110, 116, 64, 34, 92, 10, 32, 9, 94}
      OBVIOUS
    <2>2. Piece(f, i) = [puts |-> <<v % 256>>, next |-> i + 4]
      BY <1>7, <2>1 DEF Piece
    <2>3. \A x, y, z \in 48..57 :
            10 * (10 * (x - 48) + (y - 48)) + (z - 48)
              = 100 * (x - 48) + 10 * (y - 48) + (z - 48)
      OBVIOUS
    <2>. HIDE DEF c, d
    <2>4. v = 100 * (f[i + 1] - 48) + 10 * (f[i + 2] - 48) + (f[i + 3] - 48)
      <3>. DEFINE y == f[i + 2]
                  z == f[i + 3]
      <3>1. d \in 48..57 /\ y \in 48..57 /\ z \in 48..57
        BY <1>7
      <3>. HIDE DEF y, z
      <3>2. 10 * (10 * (d - 48) + (y - 48)) + (z - 48)
              = 100 * (d - 48) + 10 * (y - 48) + (z - 48)
        BY <2>3, <3>1
      <3>. QED BY <3>2 DEF d, y, z
    <2>. QED BY <2>2, <2>4 DEF Decimal, d
  <1>8. ASSUME ~(i < Len(f)) \/ c # 92 \/ d \notin {110, 116, 64, 34, 92, 10, 32, 9},
               ~(i < Len(f)) \/ c # 92 \/ d # 94 \/ ~(i + 2 <= Len(f)) \/ f[i + 2] \notin Upper,
               \/ ~(i < Len(f)) \/ c # 92 \/ d \notin 48..57 \/ ~(i + 3 <= Len(f))
               \/ f[i + 2] \notin 48..57 \/ f[i + 3] \notin 48..57
        PROVE  Piece(f, i) = [puts |-> IF f[i] = NL THEN <<>> ELSE <<f[i]>>, next |-> i + 1]
    <2>1. /\ ~Escape(f, i, {LowerN}) /\ ~Escape(f, i, {LowerT}) /\ ~Escape(f, i, {AtSign})
          /\ ~Escape(f, i, {Quote, Backslash}) /\ ~Escape(f, i, Blank \union {NL})
      BY <1>8
    <2>2. ~(Escape(f, i, {Caret}) /\ i + 2 <= Len(f) /\ f[i + 2] \in Upper)
      BY <1>8
    <2>3. ~(/\ Escape(f, i, Digits) /\ i + 3 <= Len(f)
            /\ f[i + 2] \in Digits /\ f[i + 3] \in Digits)
      BY <1>8
    <2>. HIDE DEF LowerN, LowerT, AtSign, Quote, Backslash, NL, Blank, Caret, Digits, Escape
    <2>. QED BY <2>1, <2>2, <2>3 DEF Piece
  <1>9. /\ Escape(f, i, {LowerN}) => i < Len(f) /\ c = 92 /\ d = 110
        /\ Escape(f, i, {LowerT}) => i < Len(f) /\ c = 92 /\ d = 116
        /\ Escape(f, i, {AtSign}) => i < Len(f) /\ c = 92 /\ d = 64
        /\ Escape(f, i, {Quote, Backslash}) => i < Len(f) /\ c = 92 /\ d \in {34, 92}
        /\ Escape(f, i, Blank \union {NL}) => i < Len(f) /\ c = 92 /\ d \in {32, 9, 10}
        /\ Escape(f, i, {Caret}) => i < Len(f) /\ c = 92 /\ d = 94
        /\ Escape(f, i, Digits) => i < Len(f) /\ c = 92 /\ d \in 48..57
    OBVIOUS
  <1>10. /\ Escape(f, i, {LowerN, LowerT, AtSign, Quote, Backslash, NL} \union Blank)
             \/ ~(i < Len(f)) \/ c # 92 \/ d \notin {110, 116, 64, 34, 92, 10, 32, 9}
         /\ Escape(f, i, {Caret}) \/ ~(i < Len(f)) \/ c # 92 \/ d # 94
         /\ Escape(f, i, Digits) \/ ~(i < Len(f)) \/ c # 92 \/ d \notin 48..57
    OBVIOUS
  <1>. HIDE DEF LowerN, LowerT, AtSign, Quote, Backslash, Blank, Caret, Escape
  <1>11. /\ Escape(f, i, {LowerN}) => Piece(f, i) = [puts |-> <<NL>>, next |-> i + 2]
         /\ Escape(f, i, {LowerT}) => Piece(f, i) = [puts |-> <<9>>, next |-> i + 2]
         /\ Escape(f, i, {AtSign}) => Piece(f, i) = [puts |-> <<0>>, next |-> i + 2]
    BY <1>1, <1>2, <1>3, <1>9
  <1>12. Escape(f, i, {Quote, Backslash}) =>
           Piece(f, i) = [puts |-> <<f[i + 1]>>, next |-> i + 2]
    BY <1>4, <1>9
  <1>13. Escape(f, i, Blank \union {NL}) =>
           Piece(f, i) = [puts |-> <<>>, next |-> AfterIgnored(f, i + 2)]
    BY <1>5, <1>9
  <1>14. Escape(f, i, {Caret}) /\ i + 2 <= Len(f) /\ f[i + 2] \in Upper =>
           Piece(f, i) = [puts |-> <<f[i + 2] - 64>>, next |-> i + 3]
    BY <1>6, <1>9
  <1>15. Escape(f, i, Digits) /\ i + 3 <= Len(f) /\ f[i + 2] \in Digits /\ f[i + 3] \in Digits =>
           Piece(f, i) = [puts |-> <<Decimal(f[i + 1], f[i + 2], f[i + 3])>>, next |-> i + 4]
    BY <1>7, <1>9
  <1>16. \/ Escape(f, i, {LowerN, LowerT, AtSign, Quote, Backslash, NL} \union Blank)
         \/ Escape(f, i, {Caret}) /\ i + 2 <= Len(f) /\ f[i + 2] \in Upper
         \/ /\ Escape(f, i, Digits) /\ i + 3 <= Len(f)
            /\ f[i + 2] \in Digits /\ f[i + 3] \in Digits
         \/ Piece(f, i) = [puts |-> IF f[i] = NL THEN <<>> ELSE <<f[i]>>, next |-> i + 1]
    <2>. HIDE DEF NL, c, d
    <2>. QED BY ONLY SMTT(30), <1>8, <1>10 DEF Digits
  <1>. QED BY ONLY <1>11, <1>12, <1>13, <1>14, <1>15, <1>16

\* A set that has a number as soon as it has the later ones has them all.
LEMMA DownFrom ==
  ASSUME NEW n \in Nat, NEW G, \A i \in 1..n : (\A j \in (i + 1)..n : j \in G) => i \in G
  PROVE  1..n \subseteq G
  <1>. DEFINE R == OpToRel(<, Nat)
              P == {k \in 0..n : k < n /\ n - k \notin G}
  <1>. SUFFICES ASSUME P # {} PROVE FALSE
    <2>1. ASSUME NEW i \in 1..n, i \notin G PROVE n - i \in P
      <3>1. n - (n - i) = i /\ n - i \in 0..n /\ n - i < n
        OBVIOUS
      <3>. QED BY <2>1, <3>1
    <2>. HIDE DEF P
    <2>. QED BY <2>1
  <1>1. IsWellFoundedOn(R, Nat) /\ P \subseteq Nat
    <2>1. IsWellFoundedOn(R, Nat)
      BY NatLessThanWellFounded
    <2>2. P \subseteq Nat
      <3>. HIDE DEF R
      <3>. QED OBVIOUS
    <2>. HIDE DEF R, P
    <2>. QED BY <2>1, <2>2
  <1>2. PICK m \in P : \A k \in P : ~(<<k, m>> \in R)
    <2>. HIDE DEF R, P
    <2>. QED BY <1>1, WFMin
  <1>3. m \in 0..n /\ m < n /\ n - m \notin G /\ n - m \in 1..n
    OBVIOUS
  <1>4. PICK j \in ((n - m) + 1)..n : j \notin G
    BY <1>3
  <1>5. n - j \in 0..n /\ n - j < m /\ n - (n - j) = j
    BY <1>3, <1>4
  <1>6. n - j \in P /\ <<n - j, m>> \in R
    BY <1>3, <1>4, <1>5 DEF OpToRel
  <1>. QED BY <1>2, <1>6

\* A set of numbers has a least.
LEMMA LeastIs ==
  ASSUME NEW S \in SUBSET Nat, S # {}
  PROVE  Min(S) \in S /\ \A y \in S : Min(S) <= y
  <1>. DEFINE R == OpToRel(<, Nat)
  <1>1. IsWellFoundedOn(R, Nat)
    BY NatLessThanWellFounded
  <1>2. PICK m \in S : \A k \in S : ~(<<k, m>> \in R)
    <2>. HIDE DEF R
    <2>. QED BY <1>1, WFMin
  <1>3. \A k \in S : m <= k
    <2>1. m \in Nat /\ \A k \in S : k \in Nat
      OBVIOUS
    <2>2. \A k \in Nat : k < m => <<k, m>> \in R
      BY <2>1 DEF OpToRel
    <2>. HIDE DEF R
    <2>3. \A k \in S : ~(k < m)
      BY <1>2, <2>1, <2>2
    <2>. QED BY <2>1, <2>3
  <1>. QED BY <1>3 DEF Min

\* Where an ignore sequence ends.
LEMMA AfterIgnoredIs ==
  ASSUME NEW f \in Seq(Byte), NEW i \in 1..(Len(f) + 1)
  PROVE  /\ AfterIgnored(f, i) \in i..(Len(f) + 1)
         /\ i <= Len(f) /\ f[i] = Backslash => AfterIgnored(f, i) = i + 1
         /\ i <= Len(f) /\ f[i] # Backslash => AfterIgnored(f, i) = AfterIgnored(f, i + 1)
  <1>. DEFINE ends(k) == {j \in k..Len(f) : f[j] = Backslash}
  <1>0. Len(f) \in Nat /\ i \in Nat
    OBVIOUS
  <1>1. AfterIgnored(f, i) = IF ends(i) = {} THEN Len(f) + 1 ELSE Min(ends(i)) + 1
    BY DEF AfterIgnored
  <1>2. AfterIgnored(f, i + 1) = IF ends(i + 1) = {} THEN Len(f) + 1 ELSE Min(ends(i + 1)) + 1
    BY DEF AfterIgnored
  <1>3. ends(i) \subseteq i..Len(f) /\ ends(i) \in SUBSET Nat
    BY <1>0
  <1>4. ASSUME i <= Len(f), f[i] = Backslash PROVE i \in ends(i)
    BY <1>0, <1>4
  <1>5. ASSUME i <= Len(f), f[i] # Backslash PROVE ends(i) = ends(i + 1)
    <2>1. \A j \in i..Len(f) : j = i \/ j \in (i + 1)..Len(f)
      BY <1>0
    <2>2. \A j \in (i + 1)..Len(f) : j \in i..Len(f)
      BY <1>0
    <2>. QED BY <1>5, <2>1, <2>2
  <1>. HIDE DEF ends
  <1>6. ends(i) # {} => Min(ends(i)) \in ends(i) /\ \A y \in ends(i) : Min(ends(i)) <= y
    BY <1>3, LeastIs
  <1>7. AfterIgnored(f, i) \in i..(Len(f) + 1)
    BY <1>0, <1>1, <1>3, <1>6
  <1>8. ASSUME i <= Len(f), f[i] = Backslash PROVE AfterIgnored(f, i) = i + 1
    <2>1. Min(ends(i)) <= i /\ Min(ends(i)) \in i..Len(f)
      BY <1>3, <1>4, <1>6, <1>8
    <2>2. Min(ends(i)) = i
      BY <1>0, <2>1
    <2>. QED BY <1>1, <1>4, <1>8, <2>2
  <1>. QED BY <1>1, <1>2, <1>5, <1>7, <1>8

\* A piece is text, and takes at least a character.
LEMMA PieceType ==
  ASSUME NEW f \in Seq(Byte), NEW i \in 1..Len(f)
  PROVE  Piece(f, i).puts \in Seq(Byte) /\ Piece(f, i).next \in (i + 1)..(Len(f) + 1)
  <1>0. /\ Len(f) \in Nat /\ i \in Nat
        /\ \A k \in 1..Len(f) : f[k] \in Byte
        /\ \A b \in Byte : <<b>> \in Seq(Byte)
        /\ <<>> \in Seq(Byte)
    OBVIOUS
  <1>1. NL \in Byte /\ 9 \in Byte /\ 0 \in Byte
    BY DEF NL, Byte
  <1>2. \A S : Escape(f, i, S) => i + 1 \in 1..Len(f) /\ f[i + 1] \in S
    BY <1>0 DEF Escape
  <1>3. CASE \/ Escape(f, i, {LowerN}) \/ Escape(f, i, {LowerT}) \/ Escape(f, i, {AtSign})
             \/ Escape(f, i, {Quote, Backslash})
    <2>1. PICK b \in Byte : Piece(f, i) = [puts |-> <<b>>, next |-> i + 2]
      BY <1>0, <1>1, <1>2, <1>3, PieceIs
    <2>. QED BY <1>0, <1>2, <1>3, <2>1
  <1>4. CASE Escape(f, i, Blank \union {NL})
    <2>1. Piece(f, i) = [puts |-> <<>>, next |-> AfterIgnored(f, i + 2)]
      BY <1>4, PieceIs
    <2>2. i + 2 \in 1..(Len(f) + 1)
      BY <1>0, <1>2, <1>4
    <2>3. AfterIgnored(f, i + 2) \in (i + 2)..(Len(f) + 1)
      BY <2>2, AfterIgnoredIs
    <2>. QED BY <1>0, <2>1, <2>3
  <1>5. CASE Escape(f, i, {Caret}) /\ i + 2 <= Len(f) /\ f[i + 2] \in Upper
    <2>1. Piece(f, i) = [puts |-> <<f[i + 2] - 64>>, next |-> i + 3]
      BY <1>5, PieceIs
    <2>2. f[i + 2] - 64 \in Byte
      BY <1>5 DEF Upper, Byte
    <2>. QED BY <1>0, <1>5, <2>1, <2>2
  <1>6. CASE Escape(f, i, Digits) /\ i + 3 <= Len(f) /\ f[i + 2] \in Digits /\ f[i + 3] \in Digits
    <2>1. Piece(f, i) = [puts |-> <<Decimal(f[i + 1], f[i + 2], f[i + 3])>>, next |-> i + 4]
      BY <1>6, PieceIs
    <2>2. \A a, b, c \in Digits : Decimal(a, b, c) \in Byte
      BY DEF Digits, Byte, Decimal
    <2>3. Decimal(f[i + 1], f[i + 2], f[i + 3]) \in Byte
      BY <1>2, <1>6, <2>2
    <2>. QED BY <1>0, <1>6, <2>1, <2>3
  <1>7. CASE Piece(f, i) = [puts |-> IF f[i] = NL THEN <<>> ELSE <<f[i]>>, next |-> i + 1]
    BY <1>0, <1>7
  <1>8. Escape(f, i, {LowerN, LowerT, AtSign, Quote, Backslash, NL} \union Blank) =>
          \/ Escape(f, i, {LowerN}) \/ Escape(f, i, {LowerT}) \/ Escape(f, i, {AtSign})
          \/ Escape(f, i, {Quote, Backslash}) \/ Escape(f, i, Blank \union {NL})
    BY DEF Escape
  <1>. QED BY <1>3, <1>4, <1>5, <1>6, <1>7, <1>8, PieceIs

\* The text of a string is that of its first piece and of the rest.
LEMMA StringFromIs ==
  ASSUME NEW f \in Seq(Byte), NEW i \in 1..(Len(f) + 1)
  PROVE  /\ StringFrom(f, i) \in Seq(Byte)
         /\ i > Len(f) \/ f[i] = Quote => StringFrom(f, i) = <<>>
         /\ i <= Len(f) /\ f[i] # Quote =>
              StringFrom(f, i) = Piece(f, i).puts \o StringFrom(f, Piece(f, i).next)
  <1>. DEFINE n == Len(f) + 1
              Ends(j) == j > Len(f) \/ f[j] = Quote
              Step(g, j) == IF Ends(j) THEN <<>> ELSE Piece(f, j).puts \o g[Piece(f, j).next]
              from == CHOOSE g : g = [j \in 1..n |-> Step(g, j)]
              Made(m) == \E g : g = [j \in m..n |-> Step(g, j)]
  <1>1. n \in Nat /\ Len(f) \in Nat /\ n = Len(f) + 1
    OBVIOUS
  <1>2. \A k : StringFrom(f, k) = from[k]
    BY DEF StringFrom
  <1>3. \A j \in 1..n : ~Ends(j) =>
          /\ Piece(f, j).puts \in Seq(Byte)
          /\ Piece(f, j).next \in (j + 1)..n
    <2>. SUFFICES ASSUME NEW j \in 1..n, ~Ends(j)
                  PROVE  Piece(f, j).puts \in Seq(Byte) /\ Piece(f, j).next \in (j + 1)..n
      OBVIOUS
    <2>1. j \in 1..Len(f)
      BY <1>1
    <2>. QED BY <2>1, PieceType
  <1>. HIDE DEF n, Ends
  <1>4. ASSUME NEW m \in 1..n, m = n \/ Made(m + 1) PROVE Made(m)
    <2>1. PICK h : m = n \/ h = [j \in (m + 1)..n |-> Step(h, j)]
      BY <1>4
    <2>. DEFINE g == [j \in m..n |-> IF j = m THEN Step(h, m) ELSE h[j]]
    <2>2. m \in Nat /\ \A j \in m..n : j \in 1..n /\ (j = m \/ (m # n /\ j \in (m + 1)..n))
      BY <1>1
    <2>3. \A j \in m..n : \A k \in (j + 1)..n : k \in m..n /\ k # m
      BY <1>1, <2>2
    <2>4. \A j \in m..n : Step(g, j) = Step(h, j)
      BY <1>3, <2>2, <2>3
    <2>5. \A j \in m..n : g[j] = Step(h, j)
      BY <2>1, <2>2
    <2>6. g = [j \in m..n |-> Step(g, j)]
      BY <2>4, <2>5
    <2>. QED BY <2>6
  <1>5. Made(1)
    <2>. DEFINE G == {m \in 1..n : Made(m)}
    <2>1. \A m \in 1..n : (\A j \in (m + 1)..n : j \in G) => m \in G
      <3>. SUFFICES ASSUME NEW m \in 1..n, \A j \in (m + 1)..n : j \in G PROVE m \in G
        OBVIOUS
      <3>1. m = n \/ m + 1 \in (m + 1)..n
        BY <1>1
      <3>2. m = n \/ Made(m + 1)
        BY <3>1
      <3>. HIDE DEF Made
      <3>. QED BY <1>4, <3>2
    <2>2. 1 \in 1..n
      BY <1>1
    <2>. HIDE DEF Made
    <2>3. 1..n \subseteq G
      <3>. HIDE DEF G
      <3>. QED BY <1>1, <2>1, DownFrom
    <2>. QED BY <2>2, <2>3
  <1>6. from = [j \in 1..n |-> Step(from, j)]
    BY <1>5
  <1>. HIDE DEF from
  <1>7. \A j \in 1..n : from[j] = Step(from, j)
    BY <1>6
  <1>8. \A j \in 1..n : from[j] \in Seq(Byte)
    <2>. DEFINE G == {m \in 1..n : from[m] \in Seq(Byte)}
    <2>1. \A m \in 1..n : (\A j \in (m + 1)..n : j \in G) => m \in G
      <3>. SUFFICES ASSUME NEW m \in 1..n, \A j \in (m + 1)..n : j \in G
                    PROVE  from[m] \in Seq(Byte)
        OBVIOUS
      <3>1. CASE Ends(m)
        <4>1. from[m] = <<>>
          BY <1>7, <3>1
        <4>. QED BY <4>1, EmptySeq
      <3>2. CASE ~Ends(m)
        <4>1. from[m] = Piece(f, m).puts \o from[Piece(f, m).next]
          BY <1>7, <3>2
        <4>2. Piece(f, m).puts \in Seq(Byte) /\ from[Piece(f, m).next] \in Seq(Byte)
          BY <1>3, <3>2
        <4>. QED BY <4>1, <4>2, ConcatProperties
      <3>. QED BY <3>1, <3>2
    <2>2. 1..n \subseteq G
      <3>. HIDE DEF G
      <3>. QED BY <1>1, <2>1, DownFrom
    <2>. QED BY <2>2
  <1>9. i \in 1..n
    BY DEF n
  <1>10. StringFrom(f, i) \in Seq(Byte)
    BY <1>2, <1>8, <1>9
  <1>11. Ends(i) => StringFrom(f, i) = <<>>
    BY <1>2, <1>7, <1>9
  <1>12. ~Ends(i) => StringFrom(f, i) = Piece(f, i).puts \o StringFrom(f, Piece(f, i).next)
    BY <1>2, <1>7, <1>9
  <1>13. i <= Len(f) => ~(i > Len(f))
    BY <1>1
  <1>. QED BY <1>10, <1>11, <1>12, <1>13 DEF Ends

\* The rules of strings, as the language has it.
LEMMA Pieces ==
  ASSUME TypeOK, Left > 0
  PROVE  LET p == Piece(input, cursor) IN
         /\ EscapeAhead({LowerN}) => p = [puts |-> <<NL>>, next |-> cursor + 2]
         /\ EscapeAhead({LowerT}) => p = [puts |-> <<9>>, next |-> cursor + 2]
         /\ EscapeAhead({AtSign}) => p = [puts |-> <<0>>, next |-> cursor + 2]
         /\ EscapeAhead({Quote, Backslash}) =>
              p = [puts |-> <<input[cursor + 1]>>, next |-> cursor + 2]
         /\ EscapeAhead(Blank \union {NL}) =>
              p = [puts |-> <<>>, next |-> AfterIgnored(input, cursor + 2)]
         /\ ControlAhead => p = [puts |-> <<input[cursor + 2] - 64>>, next |-> cursor + 3]
         /\ DecimalAhead =>
              p = [puts |-> <<Decimal(input[cursor + 1], input[cursor + 2], input[cursor + 3])>>,
                   next |-> cursor + 4]
         /\ ~EscapeAhead({LowerN, LowerT, AtSign, Quote, Backslash, NL} \union Blank)
            /\ ~ControlAhead /\ ~DecimalAhead =>
              p = [puts |-> IF Char = NL THEN <<>> ELSE <<Char>>, next |-> cursor + 1]
  <1>1. \A S : EscapeAhead(S) <=> Escape(input, cursor, S)
    BY LenProperties DEF EscapeAhead, Escape, Left, Char, TypeOK
  <1>2. /\ Left >= 3 <=> cursor + 2 <= Len(input)
        /\ Left >= 4 <=> cursor + 3 <= Len(input)
        /\ cursor \in 1..Len(input) /\ input \in Seq(Byte)
    BY LenProperties DEF Left, TypeOK
  <1>3. /\ ControlAhead <=>
             Escape(input, cursor, {Caret}) /\ cursor + 2 <= Len(input) /\ input[cursor + 2] \in Upper
        /\ DecimalAhead <=>
             /\ Escape(input, cursor, Digits) /\ cursor + 3 <= Len(input)
             /\ input[cursor + 2] \in Digits /\ input[cursor + 3] \in Digits
    BY <1>1, <1>2 DEF ControlAhead, DecimalAhead
  <1>. QED BY <1>1, <1>2, <1>3, PieceIs DEF Char

\* A match of StrAppend is a piece of the string.
LEMMA StrAppendReads ==
  ASSUME In("STR"), Char # Quote, NEW n, NEW s, StrAppend(n, s),
         Piece(input, cursor) = [puts |-> s, next |-> cursor + n]
  PROVE  ReadsString
BY DEF StrAppend, AdjustStr, In, ReadsString

\* Every step reads the file in one of these ways.
LEMMA ViewStep ==
  ASSUME TypeOK, Next
  PROVE  Views
  <1>0. Left \in Nat /\ cursor \in Nat
    BY AheadType DEF TypeOK
  <1>. USE DEF Views
  <1>1. CASE InitialNext
    <2>0. /\ Char # Slash => ~Opens(input, cursor)
          /\ Slash \notin Letters \union Digits \union Blank \union {NL, Quote}
          /\ \A k \in {"ID", "KEYWORD", "SYMBOL", "INT"} : k \in Kinds \ {"STRING"}
      BY DEF Opens, Char, Slash, Letters, Upper, Digits, Blank, NL, Quote, Kinds
    <2>1. CASE LexWord
      BY <2>0, <2>1, EmitPasses DEF LexWord
    <2>2. CASE LexSymbol
      <3>1. PICK s \in Symbols : SymbolAhead(s) /\ Emit("SYMBOL", Len(s))
        BY <2>2 DEF LexSymbol
      <3>2. Len(s) \in 1..Left /\ ~Opens(input, cursor)
        BY <3>1, <1>0, SymbolShape, Delimiters DEF SymbolAhead, Ahead
      <3>. QED BY <2>0, <2>2, <3>1, <3>2, EmitPasses DEF LexSymbol
    <2>3. CASE LexInt
      <3>1. PICK n \in 1..Left :
              /\ Run(Digits, n)
              /\ \/ Emit("INT", n)
                 \/ Adjust(n) /\ UNCHANGED <<sc, tokens>>
        BY <2>3 DEF LexInt
      <3>2. ~Opens(input, cursor)
        <4>1. input[cursor + 0] \in Digits /\ cursor + 0 = cursor
          BY <3>1, <1>0 DEF Run
        <4>. QED BY <2>0, <4>1 DEF Char
      <3>3. CASE Emit("INT", n)
        BY <2>0, <2>3, <3>2, <3>3, EmitPasses DEF LexInt
      <3>4. CASE Adjust(n) /\ UNCHANGED <<sc, tokens>>
        BY <1>0, <2>3, <3>1, <3>2, <3>4 DEF LexInt, In, Adjust, Passes
      <3>. QED BY <3>1, <3>3, <3>4
    <2>4. CASE OpenString
      BY <2>4 DEF OpenString, In, Adjust, EntersString
    <2>5. CASE OpenComment
      BY <2>5, Delimiters DEF OpenComment, Adjust, EntersComment
    <2>6. CASE LexNewline
      BY <1>0, <2>0, <2>6 DEF LexNewline, In, Adjust, Passes
    <2>7. CASE SkipBlanks
      <3>1. PICK n \in 1..Left : Run(Blank, n) /\ Adjust(n)
        BY <2>7 DEF SkipBlanks
      <3>2. ~Opens(input, cursor)
        <4>1. input[cursor + 0] \in Blank /\ cursor + 0 = cursor
          BY <3>1, <1>0 DEF Run
        <4>. QED BY <2>0, <4>1 DEF Char
      <3>. QED BY <1>0, <2>7, <3>1, <3>2 DEF SkipBlanks, In, Adjust, Passes
    <2>8. CASE IllegalToken
      <3>0. /\ Left > 0 /\ sc = "INITIAL" /\ \A s \in Symbols : ~Ahead(s)
            /\ Adjust(1) /\ sc' = sc /\ tokens' = tokens
        BY <2>8, Zenon DEF IllegalToken, In
      <3>1. Char # Slash
        <4>1. <<Slash>> \in Symbols /\ Len(<<Slash>>) = 1 /\ <<Slash>>[1] = Slash /\ 1..1 = {1}
              /\ cursor + 1 - 1 = cursor
          BY <1>0 DEF Symbols, Slash
        <4>2. 1 <= Left
          BY <1>0, <3>0
        <4>3. ~Ahead(<<Slash>>)
          BY <3>0, <4>1
        <4>4. ASSUME input[cursor] = Slash PROVE Ahead(<<Slash>>)
          <5>. DEFINE s == <<Slash>>
          <5>1. \A i \in 1..Len(s) : input[cursor + i - 1] = s[i]
            BY <4>1, <4>4
          <5>2. Len(s) <= Left
            BY <4>1, <4>2
          <5>. HIDE DEF s
          <5>3. Ahead(s)
            BY <5>1, <5>2 DEF Ahead
          <5>. QED BY <5>3 DEF s
        <4>. QED BY <4>3, <4>4 DEF Char
      <3>. QED BY <1>0, <2>0, <3>0, <3>1 DEF Adjust, Passes
    <2>9. CASE EndOfFile
      BY <2>9 DEF EndOfFile, ReadsNothing
    <2>. QED BY <1>1, <2>1, <2>2, <2>3, <2>4, <2>5, <2>6, <2>7, <2>8, <2>9 DEF InitialNext
  <1>2. CASE CommentNext
    <2>1. CASE CommentNewline
      <3>1. ~Opens(input, cursor) /\ ~Closes(input, cursor)
        BY <2>1 DEF CommentNewline, Opens, Closes, Char, NL, Slash, Star
      <3>. QED BY <2>1, <3>1 DEF CommentNewline, In, AdjustStr, ReadsComment
    <2>2. CASE CommentOpen
      BY <2>2, Delimiters DEF CommentOpen, In, AdjustStr, ReadsComment
    <2>3. CASE CommentClose
      BY <2>3, Delimiters DEF CommentClose, In, AdjustStr, ReadsComment
    <2>4. CASE CommentChar
      BY <2>4, Delimiters DEF CommentChar, In, AdjustStr, ReadsComment
    <2>5. CASE CommentEof
      BY <2>5 DEF CommentEof, Unterminated, ReadsNothing
    <2>. QED BY <1>2, <2>1, <2>2, <2>3, <2>4, <2>5 DEF CommentNext
  <1>3. CASE StrNext
    <2>0. /\ \A S : EscapeAhead(S) => Char = Backslash /\ Left > 0
          /\ ControlAhead => Char = Backslash /\ Left > 0
          /\ DecimalAhead => Char = Backslash /\ Left > 0
          /\ Backslash # Quote /\ Backslash # NL /\ NL # Quote
      BY <1>0 DEF EscapeAhead, ControlAhead, DecimalAhead, Backslash, Quote, NL
    <2>1. CASE StrEscapeNewline
      BY <2>0, <2>1, Pieces, StrAppendReads DEF StrEscapeNewline
    <2>2. CASE StrEscapeTab
      BY <2>0, <2>2, Pieces, StrAppendReads DEF StrEscapeTab
    <2>3. CASE StrEscapeControl
      <3>1. input[cursor + 2] - 65 + 1 = input[cursor + 2] - 64
        BY <2>3 DEF StrEscapeControl, ControlAhead, Upper
      <3>. QED BY <2>0, <2>3, <3>1, Pieces, StrAppendReads DEF StrEscapeControl
    <2>4. CASE StrEscapeDecimal
      BY <2>0, <2>4, Pieces, StrAppendReads DEF StrEscapeDecimal, Decimal
    <2>5. CASE StrEscapeNul
      BY <2>0, <2>5, Pieces, StrAppendReads DEF StrEscapeNul
    <2>6. CASE StrEscapeQuoted
      BY <2>0, <2>6, Pieces, StrAppendReads DEF StrEscapeQuoted
    <2>7. CASE StrIgnore
      BY <2>0, <2>7, Pieces DEF StrIgnore, In, AdjustStr, ReadsString
    <2>8. CASE CloseString
      BY <2>8 DEF CloseString, In, AdjustStr, LeavesString
    <2>9. CASE StrChar
      <3>1. Char # NL /\ Char # Quote /\ Left > 0
        BY <2>9 DEF StrChar, In
      <3>2. Piece(input, cursor) = [puts |-> <<Char>>, next |-> cursor + 1]
        BY <2>9, <3>1, Pieces DEF StrChar
      <3>. QED BY <2>9, <3>1, <3>2, StrAppendReads DEF StrChar
    <2>10. CASE StrNewline
      <3>1. Char = NL /\ Left > 0
        BY <2>10 DEF StrNewline, In
      <3>2. /\ ~EscapeAhead({LowerN, LowerT, AtSign, Quote, Backslash, NL} \union Blank)
            /\ ~ControlAhead /\ ~DecimalAhead
        BY <2>0, <3>1
      <3>3. Piece(input, cursor).puts = <<>> /\ Piece(input, cursor).next = cursor + 1
        <4>1. Piece(input, cursor) = [puts |-> <<>>, next |-> cursor + 1]
          BY <3>1, <3>2, Pieces
        <4>. QED BY <4>1
      <3>4. string_buf_ \o <<>> = string_buf_
        BY DEF TypeOK
      <3>. QED BY <2>0, <2>10, <3>1, <3>3, <3>4 DEF StrNewline, In, ReadsString
    <2>11. CASE StrEof
      BY <2>11 DEF StrEof, Unterminated, ReadsNothing
    <2>. QED BY <1>3, <2>1, <2>2, <2>3, <2>4, <2>5, <2>6, <2>7, <2>8, <2>9, <2>10,
                <2>11 DEF StrNext
  <1>4. CASE IgnoreNext
    <2>0. Backslash \notin Blank \union {NL}
      BY DEF Backslash, Blank, NL
    <2>1. CASE IgnoreBlank
      BY <2>0, <2>1 DEF IgnoreBlank, In, AdjustStr, Ignores
    <2>2. CASE IgnoreEnd
      BY <2>2 DEF IgnoreEnd, In, AdjustStr, Ignores
    <2>3. CASE IgnoreIllegal
      BY <2>3 DEF IgnoreIllegal, In, Ignores
    <2>4. CASE IgnoreEof
      BY <2>4 DEF IgnoreEof, Unterminated, ReadsNothing
    <2>. QED BY <1>4, <2>1, <2>2, <2>3, <2>4 DEF IgnoreNext
  <1>5. CASE Ended
    BY <1>5 DEF Ended, vars, ReadsNothing
  <1>. QED BY <1>1, <1>2, <1>3, <1>4, <1>5 DEF Next

\* Each character of a string is in its text once, as the escapes have it.
LEMMA StringStep ==
  TypeOK /\ LineTable /\ InComment /\ InString /\ StringText /\ Next => InString' /\ StringText'
  <1>. SUFFICES ASSUME TypeOK, LineTable, InComment, InString, StringText, Next
                PROVE  InString' /\ StringText'
    OBVIOUS
  <1>0. /\ input' = input /\ input \in Seq(Byte) /\ string_buf_ \in Seq(Byte)
        /\ Left \in Nat /\ cursor \in 1..(Len(input) + 1) /\ opened \in Nat
        /\ Left > 0 => cursor \in 1..Len(input)
        /\ tokens \in Seq(TokenType) /\ errormsg_.tok_pos_ \in Nat
    BY SMTT(30), ControlStep, AheadType, LenProperties DEF Control, TypeOK, Left, ErrorMsgType
  <1>. DEFINE Text == \A i \in DOMAIN tokens' :
                        tokens'[i].kind = "STRING" => tokens'[i].text = StringFrom(input, tokens'[i].at + 1)
              Inside ==
                /\ sc' \in {"STR", "IGNORE"} => opened' < cursor' /\ input[opened'] = Quote
                /\ sc' = "STR" => string_buf_' \o StringFrom(input, cursor') = StringFrom(input, opened' + 1)
                /\ sc' = "IGNORE" =>
                     string_buf_' \o StringFrom(input, AfterIgnored(input, cursor')) = StringFrom(input, opened' + 1)
  <1>. SUFFICES Inside /\ Text
    BY <1>0 DEF InString, StringText
  <1>1. UNCHANGED tokens => Text
    BY DEF StringText
  <1>2. ASSUME NEW x \in TokenType, tokens' = Append(tokens, x),
               x.kind = "STRING" => x.text = StringFrom(input, x.at + 1)
        PROVE  Text
    <2>1. /\ DOMAIN tokens' = DOMAIN tokens \union {Len(tokens) + 1}
          /\ tokens'[Len(tokens) + 1] = x
          /\ \A i \in DOMAIN tokens : tokens'[i] = tokens[i]
      BY <1>0, <1>2, Appended
    <2>. QED BY <1>2, <2>1 DEF StringText
  <1>. HIDE DEF Text
  <1>3. CASE Passes
    <2>1. Inside
      BY <1>3 DEF Passes
    <2>2. ASSUME NEW k \in Kinds \ {"STRING"}, NEW t \in Seq(Byte), NEW p \in Nat, Token(k, t, p, cursor)
          PROVE  Text
      <3>. DEFINE x == [kind |-> k, text |-> t, pos |-> p, at |-> cursor]
      <3>1. x \in TokenType /\ x.kind # "STRING" /\ tokens' = Append(tokens, x)
        BY <1>0, <2>2 DEF Token, TokenType
      <3>. HIDE DEF x
      <3>. QED BY <1>2, <3>1
    <2>. QED BY <1>1, <1>3, <2>1, <2>2 DEF Passes
  <1>4. CASE EntersString
    <2>1. cursor + 1 \in 1..(Len(input) + 1)
      BY <1>0, <1>4 DEF EntersString
    <2>2. <<>> \o StringFrom(input, cursor + 1) = StringFrom(input, cursor + 1)
      BY <1>0, <2>1, StringFromIs
    <2>. QED BY <1>0, <1>1, <1>4, <2>2 DEF EntersString, Char
  <1>5. CASE EntersComment
    BY <1>1, <1>5 DEF EntersComment
  <1>6. CASE ReadsComment
    <2>1. sc' \in {"COMMENT", "INITIAL"}
      BY <1>6 DEF ReadsComment
    <2>. QED BY <1>1, <1>6, <2>1 DEF ReadsComment
  <1>7. CASE ReadsString
    <2>. DEFINE p == Piece(input, cursor)
    <2>1. /\ opened < cursor /\ input[opened] = Quote /\ UNCHANGED <<opened, tokens>>
          /\ string_buf_ \o StringFrom(input, cursor) = StringFrom(input, opened + 1)
      BY <1>7 DEF ReadsString, InString
    <2>2. StringFrom(input, cursor) = p.puts \o StringFrom(input, p.next)
      <3>1. cursor <= Len(input) /\ input[cursor] # Quote
        BY <1>0, <1>7 DEF ReadsString, Char
      <3>. QED BY <1>0, <3>1, StringFromIs
    <2>3. p.puts \in Seq(Byte) /\ p.next \in (cursor + 1)..(Len(input) + 1)
      BY <1>0, <1>7, PieceType DEF ReadsString
    <2>4. StringFrom(input, p.next) \in Seq(Byte)
      <3>1. p.next \in 1..(Len(input) + 1)
        BY <1>0, <2>3
      <3>. HIDE DEF p
      <3>. QED BY <1>0, <3>1, StringFromIs
    <2>. HIDE DEF p
    <2>5. (string_buf_ \o p.puts) \o StringFrom(input, p.next) = StringFrom(input, opened + 1)
      <3>1. \A a, b, c \in Seq(Byte) : (a \o b) \o c = a \o (b \o c)
        OBVIOUS
      <3>. DEFINE q == p.puts
                  r == StringFrom(input, p.next)
      <3>2. q \in Seq(Byte) /\ r \in Seq(Byte) /\ string_buf_ \in Seq(Byte)
        BY <1>0, <2>3, <2>4
      <3>3. string_buf_ \o (q \o r) = StringFrom(input, opened + 1)
        BY <2>1, <2>2
      <3>. HIDE DEF q, r
      <3>4. (string_buf_ \o q) \o r = string_buf_ \o (q \o r)
        BY <3>1, <3>2
      <3>. QED BY <3>3, <3>4 DEF q, r
    <2>6. CASE string_buf_' = string_buf_ \o p.puts /\ cursor' = p.next /\ UNCHANGED sc
      <3>1. opened' < cursor'
        BY <1>0, <2>1, <2>3, <2>6
      <3>. QED BY <1>1, <1>7, <2>1, <2>5, <2>6, <3>1 DEF ReadsString
    <2>7. CASE /\ p.puts = <<>> /\ p.next = AfterIgnored(input, cursor + 2)
               /\ cursor' = cursor + 2 /\ sc' = "IGNORE" /\ UNCHANGED string_buf_
      <3>1. opened' < cursor' /\ string_buf_ \o <<>> = string_buf_
        BY <1>0, <2>1, <2>7
      <3>. QED BY <1>1, <2>1, <2>5, <2>7, <3>1
    <2>. QED BY <1>7, <2>6, <2>7 DEF ReadsString, p
  <1>8. CASE LeavesString
    <2>. DEFINE x == [kind |-> "STRING", text |-> string_buf_, pos |-> errormsg_.tok_pos_, at |-> opened]
    <2>1. StringFrom(input, cursor) = <<>>
      BY <1>0, <1>8, StringFromIs DEF LeavesString, Char
    <2>2. string_buf_ = StringFrom(input, opened + 1)
      <3>1. string_buf_ \o <<>> = string_buf_
        BY <1>0
      <3>. QED BY <1>8, <2>1, <3>1 DEF LeavesString, InString
    <2>3. x \in TokenType /\ tokens' = Append(tokens, x) /\ x.text = StringFrom(input, x.at + 1)
      BY <1>0, <1>8, <2>2 DEF LeavesString, Token, TokenType, Kinds
    <2>. HIDE DEF x
    <2>. QED BY <1>2, <1>8, <2>3 DEF LeavesString
  <1>9. CASE Ignores
    <2>1. /\ opened < cursor /\ input[opened] = Quote
          /\ string_buf_ \o StringFrom(input, AfterIgnored(input, cursor)) = StringFrom(input, opened + 1)
          /\ cursor \in 1..Len(input)
          /\ cursor' = cursor + 1 /\ UNCHANGED <<opened, tokens, string_buf_>>
      BY <1>0, <1>9 DEF Ignores, InString
    <2>2. opened' < cursor'
      BY <1>0, <2>1
    <2>3. CASE Char = Backslash
      <3>1. AfterIgnored(input, cursor) = cursor + 1
        BY <1>0, <2>1, <2>3, AfterIgnoredIs DEF Char
      <3>. QED BY <1>1, <1>9, <2>1, <2>2, <2>3, <3>1 DEF Ignores
    <2>4. CASE Char # Backslash
      <3>1. AfterIgnored(input, cursor) = AfterIgnored(input, cursor + 1)
        BY <1>0, <2>1, <2>4, AfterIgnoredIs DEF Char
      <3>. QED BY <1>1, <1>9, <2>1, <2>2, <2>4, <3>1 DEF Ignores
    <2>. QED BY <2>3, <2>4
  <1>10. CASE ReadsNothing
    BY <1>1, <1>10 DEF ReadsNothing, InString
  <1>. QED BY <1>3, <1>4, <1>5, <1>6, <1>7, <1>8, <1>9, <1>10, ViewStep DEF Views

\* What the reading B of f[i .. k - 1] has open when what stands at k is read to n.
Grows(f, i, k, n, B) ==
  /\ \A b \in i..k : OpenAt(f, B \union {n}, b) = OpenAt(f, B, b)
  /\ OpenAt(f, B, k) \in Int
  /\ Opens(f, k) /\ ~Closes(f, k) => OpenAt(f, B \union {n}, n) = OpenAt(f, B, k) + 1
  /\ ~Opens(f, k) /\ Closes(f, k) => OpenAt(f, B \union {n}, n) = OpenAt(f, B, k) - 1
  /\ ~Opens(f, k) /\ ~Closes(f, k) => OpenAt(f, B \union {n}, n) = OpenAt(f, B, k)

LEMMA OpenAtNext ==
  \A f : \A i, k, n \in Nat : \A B \in SUBSET (i..k) :
    k \in B /\ i <= k /\ k < n => Grows(f, i, k, n, B)
  <1>. SUFFICES ASSUME NEW f, NEW i \in Nat, NEW k \in Nat, NEW n \in Nat,
                       NEW B \in SUBSET (i..k), k \in B, i <= k, k < n
                PROVE  Grows(f, i, k, n, B)
    OBVIOUS
  <1>. DEFINE C == B \union {n}
  <1>1. \A b \in B : b \in i..k /\ b \in Nat
    OBVIOUS
  <1>2. \A m \in i..k : {b \in C : b < m /\ Opens(f, b)} = {b \in B : b < m /\ Opens(f, b)}
    BY <1>1
  <1>3. \A m \in i..k : {b \in C : b < m /\ Closes(f, b)} = {b \in B : b < m /\ Closes(f, b)}
    BY <1>1
  <1>4. \A m \in i..k : OpenAt(f, C, m) = OpenAt(f, B, m)
    BY <1>2, <1>3 DEF OpenAt
  <1>. DEFINE Os == {b \in B : b < k /\ Opens(f, b)}
              Ks == {b \in B : b < k /\ Closes(f, b)}
  <1>5. IsFiniteSet(Os) /\ IsFiniteSet(Ks) /\ k \notin Os /\ k \notin Ks
    <2>1. IsFiniteSet(B)
      <3>1. IsFiniteSet(i..k)
        BY FS_Interval
      <3>. QED BY <3>1, FS_Subset
    <2>2. IsFiniteSet(Os) /\ IsFiniteSet(Ks)
      <3>1. Os \subseteq B /\ Ks \subseteq B
        OBVIOUS
      <3>. HIDE DEF Os, Ks
      <3>. QED BY <2>1, <3>1, FS_Subset
    <2>. QED BY <2>2
  <1>6. /\ Cardinality(Os) \in Nat /\ Cardinality(Ks) \in Nat
        /\ Cardinality(Os \union {k}) = Cardinality(Os) + 1
        /\ Cardinality(Ks \union {k}) = Cardinality(Ks) + 1
    <2>. HIDE DEF Os, Ks
    <2>. QED BY <1>5, FS_AddElement, FS_CardinalityType
  <1>m. \A b : b \in C /\ b < n <=> (b \in B /\ b < k) \/ b = k
    <2>1. \A b \in B : b < n /\ (b < k \/ b = k)
      BY <1>1
    <2>2. ~(n < n) /\ k \in C /\ k < n
      OBVIOUS
    <2>. QED BY <2>1, <2>2
  <1>7. {b \in C : b < n /\ Opens(f, b)} = IF Opens(f, k) THEN Os \union {k} ELSE Os
    <2>. HIDE DEF C
    <2>1. CASE Opens(f, k)
      BY <1>m, <2>1
    <2>2. CASE ~Opens(f, k)
      BY <1>m, <2>2
    <2>. QED BY <2>1, <2>2
  <1>8. {b \in C : b < n /\ Closes(f, b)} = IF Closes(f, k) THEN Ks \union {k} ELSE Ks
    <2>. HIDE DEF C
    <2>1. CASE Closes(f, k)
      BY <1>m, <2>1
    <2>2. CASE ~Closes(f, k)
      BY <1>m, <2>2
    <2>. QED BY <2>1, <2>2
  <1>9. OpenAt(f, B, k) = Cardinality(Os) - Cardinality(Ks)
    BY DEF OpenAt
  <1>10. OpenAt(f, C, n) = Cardinality(IF Opens(f, k) THEN Os \union {k} ELSE Os)
                             - Cardinality(IF Closes(f, k) THEN Ks \union {k} ELSE Ks)
    BY <1>7, <1>8 DEF OpenAt
  <1>. HIDE DEF Os, Ks
  <1>11. OpenAt(f, B, k) \in Int
    BY <1>6, <1>9
  <1>12. /\ Opens(f, k) /\ ~Closes(f, k) => OpenAt(f, C, n) = OpenAt(f, B, k) + 1
         /\ ~Opens(f, k) /\ Closes(f, k) => OpenAt(f, C, n) = OpenAt(f, B, k) - 1
         /\ ~Opens(f, k) /\ ~Closes(f, k) => OpenAt(f, C, n) = OpenAt(f, B, k)
    <2>. HIDE DEF C
    <2>. QED BY <1>6, <1>9, <1>10
  <1>. HIDE DEF C
  <1>. QED BY <1>4, <1>11, <1>12 DEF C, Grows

\* The level counts every delimiter once.
LEMMA DepthStep ==
  TypeOK /\ LineTable /\ InComment /\ InString /\ AtComment /\ CommentDepth /\ Next
    => AtComment' /\ CommentDepth'
  <1>. SUFFICES ASSUME TypeOK, LineTable, InComment, InString, AtComment, CommentDepth, Next
                PROVE  AtComment' /\ CommentDepth'
    OBVIOUS
  <1>0. /\ input' = input /\ input \in Seq(Byte) /\ Len(input) \in Nat
        /\ cursor \in Nat /\ opened \in Nat /\ comment_level_ \in Nat
        /\ Quote # Slash
    BY ControlStep, LenProperties DEF Control, TypeOK, Quote, Slash
  <1>. DEFINE Good(B) ==
                /\ Reads(input, B, opened', cursor')
                /\ \A b \in B \ {opened', cursor'} : OpenAt(input, B, b) > 0
                /\ comment_level_' = OpenAt(input, B, cursor')
                /\ sc' = IF comment_level_' = 0 THEN "INITIAL" ELSE "COMMENT"
              Depth == opened' < cursor' /\ Opens(input, opened') =>
                         \E B \in SUBSET (opened'..cursor') : Good(B)
              At == sc' = "COMMENT" => opened' < cursor' /\ Opens(input, opened')
  <1>. SUFFICES At /\ Depth
    BY <1>0 DEF AtComment, CommentDepth
  <1>1. CASE Passes
    BY <1>1 DEF Passes
  <1>2. CASE EntersString
    <2>1. ~Opens(input, cursor)
      BY <1>0, <1>2 DEF EntersString, Opens, Char
    <2>. QED BY <1>2, <2>1 DEF EntersString
  <1>3. CASE EntersComment
    <2>. DEFINE B == {cursor} \union {cursor + 2}
    <2>1. /\ opened' = cursor /\ cursor' = cursor + 2 /\ sc' = "COMMENT" /\ comment_level_' = 1
          /\ Opens(input, cursor) /\ ~Closes(input, cursor)
      BY <1>3, Delimiters DEF EntersComment
    <2>2. Reads(input, B, cursor, cursor + 2)
      BY <1>0, <2>1 DEF Reads
    <2>3. OpenAt(input, B, cursor + 2) = 1
      <3>1. {cursor} \in SUBSET (cursor..cursor) /\ cursor \in {cursor} /\ cursor <= cursor
            /\ cursor < cursor + 2 /\ cursor + 2 \in Nat
        BY <1>0
      <3>2. OpenAt(input, {cursor}, cursor) = 0
        <4>1. /\ {b \in {cursor} : b < cursor /\ Opens(input, b)} = {}
              /\ {b \in {cursor} : b < cursor /\ Closes(input, b)} = {}
          BY <1>0
        <4>. QED BY <4>1, FS_EmptySet DEF OpenAt
      <3>. HIDE DEF B
      <3>3. Grows(input, cursor, cursor, cursor + 2, {cursor})
        BY <1>0, <3>1, OpenAtNext
      <3>. QED BY <2>1, <3>2, <3>3 DEF B, Grows
    <2>4. B \in SUBSET (cursor..(cursor + 2)) /\ B \ {cursor, cursor + 2} = {}
      BY <1>0
    <2>. HIDE DEF B
    <2>5. Good(B)
      BY <2>1, <2>2, <2>3, <2>4
    <2>. HIDE DEF Good
    <2>. QED BY <1>0, <2>1, <2>4, <2>5
  <1>4. CASE ReadsComment
    <2>0. /\ sc = "COMMENT" /\ opened < cursor /\ Opens(input, opened) /\ opened' = opened
          /\ comment_level_ > 0
      BY <1>4 DEF ReadsComment, AtComment, InComment
    <2>1. PICK B \in SUBSET (opened..cursor) :
            /\ Reads(input, B, opened, cursor)
            /\ \A b \in B \ {opened, cursor} : OpenAt(input, B, b) > 0
            /\ comment_level_ = OpenAt(input, B, cursor)
      BY <2>0 DEF CommentDepth
    <2>2. /\ cursor' = IF Opens(input, cursor) \/ Closes(input, cursor) THEN cursor + 2 ELSE cursor + 1
          /\ Opens(input, cursor) => comment_level_' = comment_level_ + 1
          /\ ~Opens(input, cursor) /\ Closes(input, cursor) => comment_level_' = comment_level_ - 1
          /\ ~Opens(input, cursor) /\ ~Closes(input, cursor) => comment_level_' = comment_level_
          /\ sc' = IF comment_level_' = 0 THEN "INITIAL" ELSE "COMMENT"
      BY <1>0, <1>4, <2>0, Delimiters DEF ReadsComment
    <2>3. cursor' \in Nat /\ cursor < cursor' /\ opened <= cursor /\ cursor \in B /\ opened \in B
      BY <1>0, <2>0, <2>1, <2>2 DEF Reads
    <2>. DEFINE C == B \union {cursor'}
    <2>4. /\ \A b \in opened..cursor : OpenAt(input, C, b) = OpenAt(input, B, b)
          /\ OpenAt(input, C, cursor') = comment_level_'
      <3>1. B \in SUBSET (opened..cursor)
        OBVIOUS
      <3>2. Grows(input, opened, cursor, cursor', B)
        BY <1>0, <2>3, <3>1, OpenAtNext
      <3>3. ~(Opens(input, cursor) /\ Closes(input, cursor))
        BY Delimiters
      <3>. HIDE DEF C
      <3>4. OpenAt(input, B, cursor) \in Int
        BY <3>2 DEF Grows
      <3>. QED BY <2>1, <2>2, <3>2, <3>3, <3>4 DEF C, Grows
    <2>5. \A b \in C \ {opened, cursor'} : OpenAt(input, C, b) > 0
      <3>. SUFFICES ASSUME NEW b \in C \ {opened, cursor'} PROVE OpenAt(input, C, b) > 0
        OBVIOUS
      <3>1. b \in B /\ b \in opened..cursor /\ b # opened
        OBVIOUS
      <3>2. OpenAt(input, B, b) > 0
        <4>1. CASE b = cursor
          BY <2>0, <2>1, <4>1
        <4>2. CASE b # cursor
          BY <2>1, <3>1, <4>2
        <4>. QED BY <4>1, <4>2
      <3>. HIDE DEF C
      <3>. QED BY <2>4, <3>1, <3>2
    <2>6. Reads(input, C, opened, cursor')
      <3>. SUFFICES ASSUME NEW b \in C \ {cursor'}
                    PROVE  LET next == IF Opens(input, b) \/ Closes(input, b) THEN b + 2 ELSE b + 1
                           IN  next \in C /\ \A c \in C : c <= b \/ next <= c
        BY <2>3 DEF Reads
      <3>. DEFINE next == IF Opens(input, b) \/ Closes(input, b) THEN b + 2 ELSE b + 1
      <3>1. b \in B /\ \A c \in B : c \in Nat /\ c <= cursor
        BY <1>0
      <3>2. CASE b = cursor
        BY <2>2, <2>3, <3>1, <3>2
      <3>3. CASE b # cursor
        <4>1. next \in B /\ \A c \in B : c <= b \/ next <= c
          BY <2>1, <3>1, <3>3 DEF Reads
        <4>2. next <= cursor /\ next \in Nat
          BY <3>1, <4>1
        <4>. HIDE DEF next
        <4>3. next <= cursor'
          BY <1>0, <2>3, <4>2
        <4>. QED BY <4>1, <4>3 DEF next
      <3>. QED BY <3>2, <3>3
    <2>7. C \in SUBSET (opened..cursor') /\ opened < cursor'
      BY <1>0, <2>0, <2>3
    <2>. HIDE DEF C
    <2>8. Good(C)
      BY <2>0, <2>2, <2>4, <2>5, <2>6
    <2>. HIDE DEF Good
    <2>. QED BY <2>0, <2>7, <2>8
  <1>5. CASE ReadsString \/ LeavesString \/ Ignores
    <2>1. sc \in {"STR", "IGNORE"} /\ opened' = opened /\ sc' # "COMMENT"
      BY <1>5 DEF ReadsString, LeavesString, Ignores
    <2>2. ~Opens(input, opened)
      BY <1>0, <2>1 DEF InString, Opens
    <2>. QED BY <2>1, <2>2
  <1>6. CASE ReadsNothing
    BY <1>6 DEF ReadsNothing, AtComment, CommentDepth
  <1>. HIDE DEF At, Depth
  <1>. QED BY <1>1, <1>2, <1>3, <1>4, <1>5, <1>6, ViewStep DEF Views

-----------------------------------------------------------------------------
(* Theorems *)

\* IInv is inductive.
THEOREM Invariance == Spec => []IInv
  <1>1. IInv /\ Next => IInv'
    <2>. SUFFICES ASSUME IInv, Next PROVE IInv'
      OBVIOUS
    <2>. USE DEF IInv
    <2>1. TypeOK' /\ ExitStatus' /\ PositionExact'
      BY TypeStep, ExitStep, PositionStep
    <2>2. LineTable'
      BY TableStep DEF LineTable, Sound
    <2>3. InComment'
      BY ControlStep DEF Control, InComment
    <2>4. LinesBehind' /\ LineExact'
      BY LineStep
    <2>5. InString' /\ StringText' /\ AtComment' /\ CommentDepth'
      BY StringStep, DepthStep
    <2>. QED BY <2>1, <2>2, <2>3, <2>4, <2>5
  <1>2. IInv /\ UNCHANGED vars => IInv'
    BY ZenonT(60) DEF vars, IInv, TypeOK, LineTable, InComment, ExitStatus, PositionExact,
           Uncounted, Left, LinesBehind, LineExact,
           InString, StringText, AtComment, CommentDepth
  <1>. QED BY <1>1, <1>2, InitIInv, PTL DEF Spec

\* Every variable always has its type.
THEOREM TypeCorrect == Spec => []TypeOK
  BY Invariance, PTL DEF IInv

\* The exit status always tells whether an error was reported (the <<EOF>> rules).
THEOREM ExitStatusCorrect == Spec => []ExitStatus
  BY Invariance, PTL DEF IInv

\* Every token is printed at the offset of its first character less characters the rules
\* failed to count before it, of which a later token misses no fewer (adjust, adjustStr,
\* and the rules that call neither).
THEOREM PositionCorrect == Spec => []PositionExact
  BY Invariance, PTL DEF IInv

\* The line table is always sorted and in step with the line counter (Newline).
THEOREM LineTableCorrect == Spec => []LineTable
  BY Invariance, PTL DEF IInv

\* Error never falls off the line table: what it shows is a line the scanner has
\* seen and a column from 1 on.
THEOREM LocationCorrect == Spec => []LocationInFile
  <1>1. IInv => LocationInFile
    BY LocationSound, LineTableSound DEF IInv, LocationInFile, TypeOK
  <1>. QED BY <1>1, Invariance, PTL

\* The line shown for a token is the one it begins on, when it is returned and ever after,
\* less the newlines left unmatched before, at most; and so is the line of every report
\* (Newline, adjust, adjustStr, Error).
THEOREM LineCorrect == Spec => []LineExact
  BY Invariance, PTL DEF IInv

\* Comments nest: the level is always the number of comments open at the cursor, and
\* the outermost one ends with the delimiter that closes it (OpenComment, CommentOpen,
\* CommentClose).
THEOREM CommentDepthCorrect == Spec => []CommentDepth
  BY Invariance, PTL DEF IInv

\* The text of every string token is that of its own lexeme, each escape converted once
\* and nothing left in the buffer by an earlier string (the rules of <STR> and <IGNORE>).
THEOREM StringTextCorrect == Spec => []StringText
  BY Invariance, PTL DEF IInv

=============================================================================
