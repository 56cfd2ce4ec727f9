------------------------------ MODULE ErrorMsg ------------------------------
(***************************************************************************)
(* err::ErrorMsg (src/tiger/errormsg): the line table of the scanner and   *)
(* the translation of a character position into the line and the column    *)
(* that an error message shows.                                            *)
(*                                                                         *)
(* The object is a record; each method is an operator from the object to   *)
(* the object it leaves behind, so that a rule of the scanner, which calls *)
(* several of them, stays one action.  The message text, the file name and *)
(* the stream are left out.  A definition whose comment begins with "Slip" *)
(* is a variant of the one after it with a mistake in it.                  *)
(***************************************************************************)
EXTENDS Integers, Sequences

ErrorMsgType ==
  [tok_pos_    : Nat,      \* position of the current token
   any_errors_ : BOOLEAN,
   line_num_   : Nat,
   line_pos_   : Seq(Nat)] \* one position per line begun, the latest first

\* Slip: line 1 begins at the position of its first character.
NewErrorMsgAtOne ==
  [tok_pos_ |-> 1, any_errors_ |-> FALSE, line_num_ |-> 1, line_pos_ |-> <<1>>]

\* The members' initializers and the constructor: line 1 begins after position 0.
NewErrorMsg ==
  [tok_pos_ |-> 1, any_errors_ |-> FALSE, line_num_ |-> 1, line_pos_ |-> <<0>>]

\* Slip: push_back.
NewlineAtBack(e) ==
  [e EXCEPT !.line_num_ = @ + 1, !.line_pos_ = @ \o <<e.tok_pos_>>]

\* The line begun is entered under the position of the current TOKEN.
Newline(e) ==
  [e EXCEPT !.line_num_ = @ + 1, !.line_pos_ = <<e.tok_pos_>> \o @]

\* The side effect of Error; what it prints is Location.
Error(e) == [e EXCEPT !.any_errors_ = TRUE]

\* i is where the loop over line_pos_ stops for pos: the first entry before pos,
\* or one past the end when there is none.
StopsAt(e, pos, i) ==
  /\ i \in 1..(Len(e.line_pos_) + 1)
  /\ \A j \in 1..(i - 1) : e.line_pos_[j] >= pos
  /\ i <= Len(e.line_pos_) => e.line_pos_[i] < pos

\* The "line.column" Error prints for pos.  A loop that runs off the end leaves
\* val at the last entry and num decremented once for every entry.
Location(e, pos) ==
  LET i   == CHOOSE k \in 1..(Len(e.line_pos_) + 1) : StopsAt(e, pos, k)
      val == IF i <= Len(e.line_pos_) THEN e.line_pos_[i]
             ELSE e.line_pos_[Len(e.line_pos_)]
  IN  [line |-> e.line_num_ - (i - 1), col |-> pos - val]
=============================================================================
