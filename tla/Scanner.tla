------------------------------ MODULE Scanner -------------------------------
(***************************************************************************)
(* The scanner: the rules of tiger.lex, the position bookkeeping of        *)
(* scanner.h, and the loop of test_lex.cc that calls lex() until it        *)
(* returns 0 and prints each token.                                        *)
(*                                                                         *)
(* A character is its code.  One action is one match of a rule with the    *)
(* whole of the rule's code; flexc++ takes the longest match and, among    *)
(* equally long ones, the earliest rule, which the guards spell out.  An   *)
(* input character that no rule of the start condition matches is copied   *)
(* to the output by flexc++ and runs no code of the repository.            *)
(*                                                                         *)
(* A definition whose comment begins with "Slip" is a variant of the one   *)
(* after it, with a mistake in it; it is no part of Next and serves to     *)
(* show that a property would notice.                                      *)
(***************************************************************************)
EXTENDS ErrorMsg, SequencesExt

CONSTANTS
  Inputs,    \* the source files considered, sequences of character codes
  Keywords,  \* the reserved words
  IntMax     \* the largest value std::stoi returns

Byte == 0..255

ASSUME InputsAssumption == Inputs \subseteq Seq(Byte)
ASSUME IntMaxAssumption == IntMax \in Nat

NL == 10
Blank == {32, 9}                          \* space and tab
Quote == 34
Star == 42
Slash == 47
Backslash == 92
Caret == 94
AtSign == 64
LowerN == 110
LowerT == 116
Digits == 48..57
Upper == 65..90
Letters == Upper \union 97..122

\* The reserved words begin with a letter.
ASSUME KeywordsAssumption ==
  \A w \in Keywords : w \in Seq(Byte) /\ w # <<>> /\ w[1] \in Letters

WordChars == Letters \union Digits \union {95}

\* The punctuation and operator tokens:
\* , : ( ) ; [ ] { } . + - * / = := & | >= <= <> < >
Symbols ==
  { <<44>>, <<58>>, <<40>>, <<41>>, <<59>>, <<91>>, <<93>>, <<123>>, <<125>>,
    <<46>>, <<43>>, <<45>>, <<42>>, <<47>>, <<61>>, <<58, 61>>, <<38>>,
    <<124>>, <<62, 61>>, <<60, 61>>, <<60, 62>>, <<60>>, <<62>> }

VARIABLES
  input,           \* the file; never changes
  cursor,          \* index in input of the next character to match
  sc,              \* the start condition
  comment_level_,
  string_buf_,
  char_pos_,       \* the position the scanner believes it is at
  errormsg_,
  tokens,          \* the tokens lex() has returned to the driver
  reports,         \* what Error has printed
  echoed,          \* the characters flexc++ copied to the output
  status,          \* "running", or how the process ended
  opened           \* history: the offset at which tok_pos_ was last assigned

vars == <<input, cursor, sc, comment_level_, string_buf_, char_pos_, errormsg_,
          tokens, reports, echoed, status, opened>>

Init ==
  /\ input \in Inputs
  /\ cursor = 1
  /\ sc = "INITIAL"
  /\ comment_level_ = 1
  /\ string_buf_ = <<>>
  /\ char_pos_ = 1
  /\ errormsg_ = NewErrorMsg
  /\ tokens = <<>>
  /\ reports = <<>>
  /\ echoed = <<>>
  /\ status = "running"
  /\ opened = 1

-----------------------------------------------------------------------------
(* What is ahead of the cursor *)

Left == Len(input) - cursor + 1
Char == input[cursor]

\* The scanner is in start condition c with a character left to match, or at the end.
In(c) == status = "running" /\ sc = c /\ Left > 0
AtEof(c) == status = "running" /\ sc = c /\ Left = 0

Ahead(s) == Len(s) <= Left /\ \A i \in 1..Len(s) : input[cursor + i - 1] = s[i]

\* The longest run of characters of S ahead has n characters.
Run(S, n) ==
  /\ n \in 1..Left
  /\ \A i \in 0..(n - 1) : input[cursor + i] \in S
  /\ n < Left => input[cursor + n] \notin S

\* s is the longest symbol ahead, and not the beginning of a comment.
SymbolAhead(s) ==
  /\ s \in Symbols /\ Ahead(s) /\ ~Ahead(<<Slash, Star>>)
  /\ \A t \in Symbols : Ahead(t) => Len(t) <= Len(s)

\* A backslash followed by a character of S.
EscapeAhead(S) == Char = Backslash /\ Left >= 2 /\ input[cursor + 1] \in S

Lexeme(n) == SubSeq(input, cursor, cursor + n - 1)

\* The decimal number a sequence of digits denotes.
Value(digits) == FoldLeft(LAMBDA v, d : 10 * v + (d - 48), 0, digits)

-----------------------------------------------------------------------------
(* The operations of scanner.h the rules are written with *)

\* adjust(): the match becomes the current token.
Adjusted == [errormsg_ EXCEPT !.tok_pos_ = char_pos_]
Adjust(n) ==
  /\ cursor' = cursor + n
  /\ char_pos_' = char_pos_ + n
  /\ opened' = cursor

\* adjustStr(): the match continues the current token.
AdjustStr(n) ==
  /\ cursor' = cursor + n
  /\ char_pos_' = char_pos_ + n
  /\ UNCHANGED opened

\* ifNewLine(i), on the character at offset i of the match.
IfNewLine(i) == IF input[cursor + i] = NL THEN Newline(errormsg_) ELSE errormsg_

\* Error(tok_pos_, msg) on the object e.
Report(e, msg, at) ==
  /\ errormsg_' = Error(e)
  /\ reports' = Append(reports, [msg |-> msg, at |-> at,
                                 shown |-> Location(e, e.tok_pos_)])

\* lex() returns a token and the loop of the driver prints it.
Token(kind, text, pos, at) ==
  tokens' = Append(tokens, [kind |-> kind, text |-> text, pos |-> pos, at |-> at])

Emit(kind, n) ==
  /\ Adjust(n)
  /\ errormsg_' = Adjusted
  /\ Token(kind, Lexeme(n), char_pos_, cursor)
  /\ UNCHANGED <<input, sc, comment_level_, string_buf_, reports, echoed>>

-----------------------------------------------------------------------------
(* <INITIAL> *)

\* A reserved word, or an identifier: the two rules match the same characters
\* when the word is reserved, and the earlier one returns.
LexWord ==
  /\ In("INITIAL") /\ Char \in Letters
  /\ \E n \in 1..Left :
       /\ Run(WordChars, n)
       /\ Emit(IF Lexeme(n) \in Keywords THEN "KEYWORD" ELSE "ID", n)
  /\ UNCHANGED status

LexSymbol ==
  /\ In("INITIAL")
  /\ \E s \in Symbols : SymbolAhead(s) /\ Emit("SYMBOL", Len(s))
  /\ UNCHANGED status

\* The driver converts the digits before it prints the token; std::stoi throws on
\* a number out of the range of int, which nothing catches.
LexInt ==
  /\ In("INITIAL")
  /\ \E n \in 1..Left :
       /\ Run(Digits, n)
       /\ IF Value(Lexeme(n)) <= IntMax
            THEN Emit("INT", n) /\ UNCHANGED status
            ELSE /\ Adjust(n)
                 /\ errormsg_' = Adjusted
                 /\ status' = "aborted"
                 /\ UNCHANGED <<input, sc, comment_level_, string_buf_, tokens,
                                reports, echoed>>

\* Slip: the buffer keeps the text of the string before.
OpenStringUncleared ==
  /\ In("INITIAL") /\ Char = Quote
  /\ Adjust(1)
  /\ errormsg_' = Adjusted
  /\ sc' = "STR"
  /\ UNCHANGED <<input, comment_level_, string_buf_, tokens, reports, echoed, status>>

OpenString ==
  /\ In("INITIAL") /\ Char = Quote
  /\ Adjust(1)
  /\ errormsg_' = Adjusted
  /\ sc' = "STR"
  /\ string_buf_' = <<>>
  /\ UNCHANGED <<input, comment_level_, tokens, reports, echoed, status>>

\* Slip: the level is not reset.
OpenCommentUnreset ==
  /\ In("INITIAL") /\ Ahead(<<Slash, Star>>)
  /\ Adjust(2)
  /\ errormsg_' = Adjusted
  /\ sc' = "COMMENT"
  /\ UNCHANGED <<input, comment_level_, string_buf_, tokens, reports, echoed, status>>

OpenComment ==
  /\ In("INITIAL") /\ Ahead(<<Slash, Star>>)
  /\ Adjust(2)
  /\ errormsg_' = Adjusted
  /\ comment_level_' = 1
  /\ sc' = "COMMENT"
  /\ UNCHANGED <<input, string_buf_, tokens, reports, echoed, status>>

LexNewline ==
  /\ In("INITIAL") /\ Char = NL
  /\ Adjust(1)
  /\ errormsg_' = Newline(Adjusted)
  /\ UNCHANGED <<input, sc, comment_level_, string_buf_, tokens, reports, echoed,
                 status>>

SkipBlanks ==
  /\ In("INITIAL")
  /\ \E n \in 1..Left : Run(Blank, n) /\ Adjust(n)
  /\ errormsg_' = Adjusted
  /\ UNCHANGED <<input, sc, comment_level_, string_buf_, tokens, reports, echoed,
                 status>>

\* The last rule: any character that begins no other match.
IllegalToken ==
  /\ In("INITIAL")
  /\ Char \notin Letters \union Digits \union Blank \union {NL, Quote}
  /\ \A s \in Symbols : ~Ahead(s)
  /\ Adjust(1)
  /\ Report(Adjusted, "illegal token", cursor)
  /\ UNCHANGED <<input, sc, comment_level_, string_buf_, tokens, echoed, status>>

\* Slip: the rule does not ask AnyErrors().
EndOfFileRegardless ==
  /\ AtEof("INITIAL")
  /\ status' = "done"
  /\ UNCHANGED <<input, cursor, sc, comment_level_, string_buf_, char_pos_,
                 errormsg_, tokens, reports, echoed, opened>>

\* Errors do not stop the scanner; the end of the file does, with exit status 1
\* when there were any.
EndOfFile ==
  /\ AtEof("INITIAL")
  /\ status' = IF errormsg_.any_errors_ THEN "exit1" ELSE "done"
  /\ UNCHANGED <<input, cursor, sc, comment_level_, string_buf_, char_pos_,
                 errormsg_, tokens, reports, echoed, opened>>

\* Slip: the rule does not exit.
UnterminatedGoesOn(c, msg) ==
  /\ AtEof(c)
  /\ errormsg_' = Error(errormsg_)
  /\ UNCHANGED <<input, cursor, sc, comment_level_, string_buf_, char_pos_,
                 tokens, reports, echoed, status, opened>>

\* In the other start conditions the end of the file is an error and exits at once.
Unterminated(c, msg) ==
  /\ AtEof(c)
  /\ Report(errormsg_, msg, opened)
  /\ status' = "exit1"
  /\ UNCHANGED <<input, cursor, sc, comment_level_, string_buf_, char_pos_,
                 tokens, echoed, opened>>

-----------------------------------------------------------------------------
(* <COMMENT> *)

\* Slip: the newline is skipped like any other character.
CommentNewlineUncounted ==
  /\ In("COMMENT") /\ Char = NL
  /\ AdjustStr(1)
  /\ UNCHANGED <<input, sc, comment_level_, string_buf_, errormsg_, tokens,
                 reports, echoed, status>>

CommentNewline ==
  /\ In("COMMENT") /\ Char = NL
  /\ AdjustStr(1)
  /\ errormsg_' = Newline(errormsg_)
  /\ UNCHANGED <<input, sc, comment_level_, string_buf_, tokens, reports, echoed,
                 status>>

CommentOpen ==
  /\ In("COMMENT") /\ Ahead(<<Slash, Star>>)
  /\ AdjustStr(2)
  /\ comment_level_' = comment_level_ + 1
  /\ UNCHANGED <<input, sc, string_buf_, errormsg_, tokens, reports, echoed,
                 status>>

\* Slip: the level is decremented after the test.
CommentCloseLate ==
  /\ In("COMMENT") /\ Ahead(<<Star, Slash>>)
  /\ AdjustStr(2)
  /\ comment_level_' = comment_level_ - 1
  /\ sc' = IF comment_level_ = 0 THEN "INITIAL" ELSE sc
  /\ UNCHANGED <<input, string_buf_, errormsg_, tokens, reports, echoed, status>>

CommentClose ==
  /\ In("COMMENT") /\ Ahead(<<Star, Slash>>)
  /\ AdjustStr(2)
  /\ comment_level_' = comment_level_ - 1
  /\ sc' = IF comment_level_' = 0 THEN "INITIAL" ELSE sc
  /\ UNCHANGED <<input, string_buf_, errormsg_, tokens, reports, echoed, status>>

CommentChar ==
  /\ In("COMMENT") /\ Char # NL
  /\ ~Ahead(<<Slash, Star>>) /\ ~Ahead(<<Star, Slash>>)
  /\ AdjustStr(1)
  /\ UNCHANGED <<input, sc, comment_level_, string_buf_, errormsg_, tokens,
                 reports, echoed, status>>

CommentEof == Unterminated("COMMENT", "unterminated comment symbol")

-----------------------------------------------------------------------------
(* <STR> *)

\* A match of n characters that puts the characters of s into the string.
StrAppend(n, s) ==
  /\ AdjustStr(n)
  /\ string_buf_' = string_buf_ \o s
  /\ UNCHANGED <<input, sc, comment_level_, tokens, reports, echoed, status>>

\* \n, the two characters; ifNewLine looks at the first of them.
StrEscapeNewline ==
  /\ In("STR") /\ EscapeAhead({LowerN})
  /\ StrAppend(2, <<NL>>)
  /\ errormsg_' = IfNewLine(0)

StrEscapeTab ==
  /\ In("STR") /\ EscapeAhead({LowerT})
  /\ StrAppend(2, <<9>>) /\ UNCHANGED errormsg_

\* \^A to \^Z
ControlAhead == EscapeAhead({Caret}) /\ Left >= 3 /\ input[cursor + 2] \in Upper
StrEscapeControl ==
  /\ In("STR") /\ ControlAhead
  /\ StrAppend(3, <<input[cursor + 2] - 65 + 1>>) /\ UNCHANGED errormsg_

\* \ddd; the conversion to char keeps the low eight bits.
DecimalAhead ==
  /\ EscapeAhead(Digits) /\ Left >= 4
  /\ input[cursor + 2] \in Digits /\ input[cursor + 3] \in Digits
StrEscapeDecimal ==
  /\ In("STR") /\ DecimalAhead
  /\ StrAppend(4, << (100 * (input[cursor + 1] - 48) + 10 * (input[cursor + 2] - 48)
                        + (input[cursor + 3] - 48)) % 256 >>)
  /\ UNCHANGED errormsg_

StrEscapeNul ==
  /\ In("STR") /\ EscapeAhead({AtSign})
  /\ StrAppend(2, <<0>>) /\ UNCHANGED errormsg_

StrEscapeQuoted ==
  /\ In("STR") /\ EscapeAhead({Quote, Backslash})
  /\ StrAppend(2, <<input[cursor + 1]>>) /\ UNCHANGED errormsg_

StrIgnore ==
  /\ In("STR") /\ EscapeAhead(Blank \union {NL})
  /\ AdjustStr(2)
  /\ sc' = "IGNORE"
  /\ errormsg_' = IfNewLine(1)
  /\ UNCHANGED <<input, comment_level_, string_buf_, tokens, reports, echoed,
                 status>>

\* The token is the converted text, at the position of the opening quote.
CloseString ==
  /\ In("STR") /\ Char = Quote
  /\ AdjustStr(1)
  /\ sc' = "INITIAL"
  /\ Token("STRING", string_buf_, errormsg_.tok_pos_, opened)
  /\ UNCHANGED <<input, comment_level_, string_buf_, errormsg_, reports, echoed,
                 status>>

\* Any other character but a newline, a backslash that begins no escape included.
StrChar ==
  /\ In("STR") /\ Char \notin {NL, Quote}
  /\ ~EscapeAhead({LowerN, LowerT, AtSign, Quote, Backslash, NL} \union Blank)
  /\ ~ControlAhead /\ ~DecimalAhead
  /\ StrAppend(1, <<Char>>) /\ UNCHANGED errormsg_

\* No rule of STR matches a newline.
StrNewline ==
  /\ In("STR") /\ Char = NL
  /\ cursor' = cursor + 1
  /\ echoed' = Append(echoed, NL)
  /\ UNCHANGED <<input, sc, comment_level_, string_buf_, char_pos_, errormsg_,
                 tokens, reports, status, opened>>

StrEof == Unterminated("STR", "unclosed string")

-----------------------------------------------------------------------------
(* <IGNORE> *)

IgnoreBlank ==
  /\ In("IGNORE") /\ Char \in Blank \union {NL}
  /\ AdjustStr(1)
  /\ errormsg_' = IfNewLine(0)
  /\ UNCHANGED <<input, sc, comment_level_, string_buf_, tokens, reports, echoed,
                 status>>

\* Slip: the rule does not call adjustStr().
IgnoreEndUnadjusted ==
  /\ In("IGNORE") /\ Char = Backslash
  /\ cursor' = cursor + 1
  /\ sc' = "STR"
  /\ UNCHANGED <<input, comment_level_, string_buf_, char_pos_, errormsg_, tokens,
                 reports, echoed, status, opened>>

IgnoreEnd ==
  /\ In("IGNORE") /\ Char = Backslash
  /\ AdjustStr(1)
  /\ sc' = "STR"
  /\ UNCHANGED <<input, comment_level_, string_buf_, errormsg_, tokens, reports,
                 echoed, status>>

\* The rule calls neither adjust() nor adjustStr().
IgnoreIllegal ==
  /\ In("IGNORE") /\ Char \notin Blank \union {NL, Backslash}
  /\ cursor' = cursor + 1
  /\ Report(errormsg_, "illegal character in ignore sequence", opened)
  /\ UNCHANGED <<input, sc, comment_level_, string_buf_, char_pos_, tokens, echoed,
                 status, opened>>

IgnoreEof == Unterminated("IGNORE", "unclosed ignore sequence")

-----------------------------------------------------------------------------

InitialNext == \/ LexWord \/ LexSymbol \/ LexInt \/ OpenString \/ OpenComment
               \/ LexNewline \/ SkipBlanks \/ IllegalToken \/ EndOfFile
CommentNext == CommentNewline \/ CommentOpen \/ CommentClose \/ CommentChar
               \/ CommentEof
StrNext == \/ StrEscapeNewline \/ StrEscapeTab \/ StrEscapeControl
           \/ StrEscapeDecimal \/ StrEscapeNul \/ StrEscapeQuoted \/ StrIgnore
           \/ CloseString \/ StrChar \/ StrNewline \/ StrEof
IgnoreNext == IgnoreBlank \/ IgnoreEnd \/ IgnoreIllegal \/ IgnoreEof

\* The process has ended.
Ended == status # "running" /\ UNCHANGED vars

Next == InitialNext \/ CommentNext \/ StrNext \/ IgnoreNext \/ Ended

\* The scanner is one sequential program: it runs until it ends.
Spec == Init /\ [][Next]_vars /\ WF_vars(Next)

-----------------------------------------------------------------------------
(* Properties *)

Kinds == {"ID", "KEYWORD", "SYMBOL", "INT", "STRING"}
IgnoreMsg == "illegal character in ignore sequence"
Messages == {"illegal token", "unterminated comment symbol", "unclosed string",
             "unclosed ignore sequence", IgnoreMsg}

TokenType == [kind : Kinds, text : Seq(Byte), pos : Nat, at : Nat]
ReportType == [msg : Messages, at : Nat, shown : [line : Int, col : Int]]

\* Every variable has its type.
TypeOK ==
  /\ input \in Seq(Byte)
  /\ cursor \in 1..(Len(input) + 1)
  /\ sc \in {"INITIAL", "COMMENT", "STR", "IGNORE"}
  /\ comment_level_ \in Nat
  /\ string_buf_ \in Seq(Byte)
  /\ char_pos_ \in Nat
  /\ errormsg_ \in ErrorMsgType
  /\ tokens \in Seq(TokenType)
  /\ reports \in Seq(ReportType)
  /\ echoed \in Seq(Byte)
  /\ status \in {"running", "done", "exit1", "aborted"}
  /\ opened \in Nat

\* The exit status tells the truth: the process ends well only when the whole file
\* was matched, outside any string or comment, and no error was ever reported, no
\* matter how many rules ran since; and it fails with status 1 only after a report.
ExitStatus ==
  /\ status = "done" => sc = "INITIAL" /\ Left = 0 /\ reports = <<>>
  /\ status = "exit1" => reports # <<>>
  /\ errormsg_.any_errors_ <=> reports # <<>>

\* The characters consumed without advancing char_pos_: newlines inside strings, which no
\* rule matches, and illegal characters of ignore sequences, whose rule advances nothing.
Uncounted == Len(echoed) + Cardinality({i \in DOMAIN reports : reports[i].msg = IgnoreMsg})

\* Positions are offsets in the file less the uncounted characters before them, whatever
\* the mixture of tokens, comments, strings and ignore sequences: char_pos_ lags behind
\* the cursor by all of them, tok_pos_ and the position of each token printed, a string's
\* being that of its opening quote, by some of them, and a later token by no fewer.  In a
\* file without such characters every position is exact.
PositionExact ==
  /\ char_pos_ = cursor - Uncounted
  /\ opened - errormsg_.tok_pos_ \in 0..Uncounted
  /\ \A i \in DOMAIN tokens :
       tokens[i].at - tokens[i].pos \in 0..(opened - errormsg_.tok_pos_)
  /\ \A i, j \in DOMAIN tokens :
       i < j => tokens[i].at - tokens[i].pos <= tokens[j].at - tokens[j].pos

\* The line table is in step with the line counter, latest line first, and never
\* runs ahead of the scanner.  Error's backward walk over it relies on all three.
LineTable ==
  LET lp == errormsg_.line_pos_ IN
  /\ Len(lp) = errormsg_.line_num_
  /\ lp # <<>> /\ lp[Len(lp)] = 0
  /\ \A i, j \in DOMAIN lp : i <= j => lp[j] <= lp[i]
  /\ \A i \in DOMAIN lp : lp[i] <= errormsg_.tok_pos_
  /\ errormsg_.tok_pos_ <= char_pos_

\* An error at any position a token can have is placed on a line the file has, at
\* a column of that line counted from 1: the walk never falls off the table.
LocationInFile ==
  \A pos \in 1..char_pos_ :
    LET l == Location(errormsg_, pos)
    IN  l.line \in 1..errormsg_.line_num_ /\ l.col >= 1

\* The line the offset k of a file is on.
LineOf(f, k) == 1 + Cardinality({i \in 1..(k - 1) : f[i] = NL})

\* The line counter is that of the cursor less the newlines no rule counted, and the line
\* Error shows for a token is the one the token begins on less some of them, at the time
\* it is returned and at any later time (the later phases report at positions of tokens
\* long past), comments and ignore sequences over several lines notwithstanding; so is
\* the line of each report.  Without a raw newline in a string every line is exact.
LineExact ==
  /\ errormsg_.line_num_ = LineOf(input, cursor) - Len(echoed)
  /\ \A i \in DOMAIN tokens :
       LineOf(input, tokens[i].at) - Location(errormsg_, tokens[i].pos).line
         \in 0..Len(echoed)
  /\ \A i \in DOMAIN reports :
       LineOf(input, reports[i].at) - reports[i].shown.line \in 0..Len(echoed)

-----------------------------------------------------------------------------
(* Comments and strings as the language has them, read off the file f *)

\* A comment delimiter at offset i.
Opens(f, i) == i < Len(f) /\ f[i] = Slash /\ f[i + 1] = Star
Closes(f, i) == i < Len(f) /\ f[i] = Star /\ f[i + 1] = Slash

\* B is how f[i .. k - 1] reads from left to right: the offsets of its delimiters and of
\* the characters between them, and k.
Reads(f, B, i, k) ==
  /\ i \in B /\ k \in B
  /\ \A b \in B \ {k} :
       LET next == IF Opens(f, b) \/ Closes(f, b) THEN b + 2 ELSE b + 1
       IN  next \in B /\ \A c \in B : c <= b \/ next <= c

\* The comments open at offset k of such a reading.
OpenAt(f, B, k) == Cardinality({b \in B : b < k /\ Opens(f, b)})
                     - Cardinality({b \in B : b < k /\ Closes(f, b)})

\* comment_level_ is the number of comments open around the cursor, and the outermost
\* comment, which began where the current token did, ends with the delimiter that closes
\* it: not before, so that comments nest, nor after.
CommentDepth ==
  opened < cursor /\ Opens(input, opened) =>
    \E B \in SUBSET (opened..cursor) :
      /\ Reads(input, B, opened, cursor)
      /\ \A b \in B \ {opened, cursor} : OpenAt(input, B, b) > 0
      /\ comment_level_ = OpenAt(input, B, cursor)
      /\ sc = IF comment_level_ = 0 THEN "INITIAL" ELSE "COMMENT"

\* An escape sequence at offset i whose second character is in S.
Escape(f, i, S) == i < Len(f) /\ f[i] = Backslash /\ f[i + 1] \in S

\* The offset after the ignore sequence that goes on at i.
AfterIgnored(f, i) ==
  LET ends == {j \in i..Len(f) : f[j] = Backslash}
  IN  IF ends = {} THEN Len(f) + 1 ELSE Min(ends) + 1

\* What a string has at offset i: the text it stands for, and the offset after it.
Piece(f, i) ==
  LET digit(j) == f[i + j] - 48
  IN  CASE Escape(f, i, {LowerN}) -> [puts |-> <<10>>, next |-> i + 2]
        [] Escape(f, i, {LowerT}) -> [puts |-> <<9>>, next |-> i + 2]
        [] Escape(f, i, {AtSign}) -> [puts |-> <<0>>, next |-> i + 2]
        [] Escape(f, i, {Quote, Backslash}) -> [puts |-> <<f[i + 1]>>, next |-> i + 2]
        [] Escape(f, i, Blank \union {NL}) -> [puts |-> <<>>, next |-> AfterIgnored(f, i + 2)]
        [] Escape(f, i, {Caret}) /\ i + 2 <= Len(f) /\ f[i + 2] \in Upper ->
             [puts |-> <<f[i + 2] - 64>>, next |-> i + 3]
        [] Escape(f, i, Digits) /\ i + 3 <= Len(f) /\ f[i + 2] \in Digits /\ f[i + 3] \in Digits ->
             [puts |-> <<(10 * (10 * digit(1) + digit(2)) + digit(3)) % 256>>, next |-> i + 4]
        [] OTHER -> [puts |-> IF f[i] = NL THEN <<>> ELSE <<f[i]>>, next |-> i + 1]

\* The text of a string whose characters from offset i on are still to be read.
StringFrom(f, i) ==
  LET from[j \in 1..(Len(f) + 1)] ==
        IF j > Len(f) \/ f[j] = Quote THEN <<>>
        ELSE Piece(f, j).puts \o from[Piece(f, j).next]
  IN  from[i]

\* The text of a string token is that of its own lexeme: nothing of an earlier
\* string, nothing of an ignore sequence, each escape converted once.
StringText ==
  \A i \in DOMAIN tokens :
    tokens[i].kind = "STRING" => tokens[i].text = StringFrom(input, tokens[i].at + 1)
=============================================================================
