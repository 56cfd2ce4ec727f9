------------------------------- MODULE Parser -------------------------------
(***************************************************************************)
(* The parser (src/tiger/parse/parser.h) between the scanner and the two   *)
(* programs that run it, test_parse.cc and test_semant.cc: what a token    *)
(* carries to the tree, who holds the error object and the tree when, and  *)
(* how the process ends.                                                   *)
(*                                                                         *)
(* The file is a sequence of what the scanner's rules match, one character *)
(* each.  The grammar has two rules with actions as yet, and bisonc++ makes *)
(* the parser: any number of the last values may be reduced to an          *)
(* expression whenever parse is between two tokens, with the next token    *)
(* read or not, and any token read may be an error.  errormsgAt and treeAt *)
(* say whose unique_ptr holds the object; a step that reads through a null *)
(* one ends in "undefined".  The semantic analysis is not in the           *)
(* repository: it takes both objects and may report an error.              *)
(* A definition whose comment begins with "Slip" is a variant of the one   *)
(* after it, with a mistake in it.                                         *)
(***************************************************************************)
EXTENDS ErrorMsg, SequencesExt

CONSTANT Files    \* the files parsed: sequences of items with a kind and a text

ItemKinds == {"ID", "STRING", "INT", "OTHER", "BLANK", "NEWLINE", "ILLEGAL", "UNCLOSED", "HUGE"}

ASSUME FilesAssumption == Files \subseteq Seq([kind : ItemKinds, text : STRING])

VARIABLES
  driver,       \* the program: "test_parse" or "test_semant"
  argument,     \* its argument: "none", "missing" for a file that cannot be opened, "file"
  file,
  pc,           \* the statement of main
  status,       \* "running", "0", "1", "aborted" or "undefined"
  cursor,       \* how much of the file is scanned
  errormsg,     \* the error object
  errormsgAt,   \* who holds it: "nobody", "scanner", "main" or "translator"
  lookahead,    \* d_val_ and the token read and not shifted, if there is one
  stack,        \* the values shifted and not reduced
  string_pool_,
  leaves,       \* the tree, from left to right
  treeAt,       \* who holds it: "nobody", "parser", "main" or "translator"
  printed       \* the tree was printed

parserVars == <<driver, argument, file, pc, status, cursor, errormsg, errormsgAt, lookahead,
                stack, string_pool_, leaves, treeAt, printed>>

\* Slip: the error object is transferred before it has been scanned with.
StatementsEarly ==
  [test_parse |-> <<"construct", "parse", "transfer tree", "print", "return">>,
   test_semant |-> <<"construct", "transfer errormsg", "parse", "transfer tree",
                     "end of block", "translate", "return">>]

\* The statements of main.
Statements ==
  [test_parse |-> <<"construct", "parse", "transfer tree", "print", "return">>,
   test_semant |-> <<"construct", "parse", "transfer errormsg", "transfer tree",
                     "end of block", "translate", "return">>]

At(statement) == status = "running" /\ Statements[driver][pc] = statement

Continue == pc' = pc + 1 /\ UNCHANGED status
Exit(s) == status' = s /\ UNCHANGED pc

NoToken == [kind |-> "none", at |-> 0, text |-> "", sval |-> 0]
EndOfInput == [NoToken EXCEPT !.kind = "end"]

ParserInit ==
  /\ driver \in DOMAIN Statements
  /\ argument \in {"none", "missing", "file"}
  /\ file \in Files
  /\ pc = 1 /\ status = "running"
  /\ cursor = 0 /\ errormsg = NewErrorMsg /\ errormsgAt = "nobody"
  /\ lookahead = NoToken /\ stack = <<>> /\ string_pool_ = <<>>
  /\ leaves = <<>> /\ treeAt = "nobody" /\ printed = FALSE

-----------------------------------------------------------------------------
(* The scanner, called by lex *)

\* parse needs a token, and item is what the scanner matches next.
Matches(item) ==
  /\ At("parse") /\ errormsgAt = "scanner" /\ lookahead = NoToken
  /\ cursor < Len(file) /\ item = file[cursor + 1]
  /\ cursor' = cursor + 1

Adjusted == [errormsg EXCEPT !.tok_pos_ = cursor + 1]

\* Blanks or a comment, a newline, or an illegal character: the scanner goes on.
Pass(item) ==
  /\ Matches(item)
  /\ \/ item.kind = "BLANK" /\ errormsg' = Adjusted
     \/ item.kind = "NEWLINE" /\ errormsg' = Newline(Adjusted)
     \/ item.kind = "ILLEGAL" /\ errormsg' = Error(Adjusted)
  /\ UNCHANGED <<pc, status, lookahead, string_pool_>>

\* A string or a comment that does not end.
Unclosed(item) ==
  /\ Matches(item) /\ item.kind = "UNCLOSED"
  /\ errormsg' = Error(Adjusted)
  /\ Exit("1")
  /\ UNCHANGED <<lookahead, string_pool_>>

\* Slip: one buffer for all strings.
LexInPlace(item) ==
  /\ Matches(item) /\ item.kind \in {"ID", "STRING", "INT", "OTHER"}
  /\ errormsg' = Adjusted
  /\ LET token == [kind |-> item.kind, at |-> cursor + 1, text |-> item.text, sval |-> 0]
     IN  IF item.kind = "STRING"
         THEN /\ string_pool_' = <<item.text>>
              /\ lookahead' = [token EXCEPT !.text = "", !.sval = 1]
         ELSE lookahead' = token /\ UNCHANGED string_pool_
  /\ UNCHANGED <<pc, status>>

\* Parser::lex: a string goes to the pool and the token has its address.
Lex(item) ==
  /\ Matches(item) /\ item.kind \in {"ID", "STRING", "INT", "OTHER"}
  /\ errormsg' = Adjusted
  /\ LET token == [kind |-> item.kind, at |-> cursor + 1, text |-> item.text, sval |-> 0]
     IN  IF item.kind = "STRING"
         THEN /\ string_pool_' = Append(string_pool_, item.text)
              /\ lookahead' = [token EXCEPT !.text = "", !.sval = Len(string_pool_) + 1]
         ELSE lookahead' = token /\ UNCHANGED string_pool_
  /\ UNCHANGED <<pc, status>>

\* std::stoi throws on a constant that is too large, and nobody catches.
LexHuge(item) ==
  /\ Matches(item) /\ item.kind = "HUGE"
  /\ errormsg' = Adjusted
  /\ Exit("aborted")
  /\ UNCHANGED <<lookahead, string_pool_>>

\* Slip: the errors reported are forgotten.
LexEndRegardless ==
  /\ At("parse") /\ errormsgAt = "scanner" /\ lookahead = NoToken
  /\ cursor = Len(file)
  /\ lookahead' = EndOfInput
  /\ UNCHANGED <<pc, status, cursor, errormsg, string_pool_>>

\* The end of the file, where the process ends if anything was reported.
LexEnd ==
  /\ At("parse") /\ errormsgAt = "scanner" /\ lookahead = NoToken
  /\ cursor = Len(file)
  /\ IF errormsg.any_errors_ THEN Exit("1") /\ UNCHANGED lookahead
     ELSE lookahead' = EndOfInput /\ UNCHANGED <<pc, status>>
  /\ UNCHANGED <<cursor, errormsg, string_pool_>>

Scan ==
  /\ \/ \E item \in {file[k] : k \in DOMAIN file} :
          Pass(item) \/ Unclosed(item) \/ Lex(item) \/ LexHuge(item)
     \/ LexEnd
  /\ UNCHANGED <<driver, argument, file, errormsgAt, stack, leaves, treeAt, printed>>

-----------------------------------------------------------------------------
(* parse *)

\* The leaf a constructor makes of the value v: StringExp copies the text it is given
\* the address of.
Leaf(class, v) ==
  [class |-> class, at |-> v.at, pos |-> errormsg.tok_pos_,
   text |-> IF v.kind = "STRING" THEN string_pool_[v.sval] ELSE v.text]

Exp(ls) == [kind |-> "exp", leaves |-> ls]

\* The leaves of a value used in an expression.
LeavesOf(v) ==
  CASE v.kind = "exp" -> v.leaves
    [] v.kind = "STRING" -> <<Leaf("StringExp", v)>>
    [] v.kind = "INT" -> <<Leaf("IntExp", v)>>
    [] v.kind = "ID" -> <<Leaf("Symbol", v)>>
    [] OTHER -> <<>>

Parsing == At("parse") /\ errormsgAt = "scanner"

Shift ==
  /\ Parsing /\ lookahead \notin {NoToken, EndOfInput}
  /\ stack' = Append(stack, lookahead)
  /\ lookahead' = NoToken
  /\ UNCHANGED <<pc, status, errormsg, leaves, treeAt>>

\* lvalue: ID
ReduceId ==
  /\ Parsing /\ stack # <<>> /\ Last(stack).kind = "ID"
  /\ stack' = Append(Front(stack), Exp(<<Leaf("SimpleVar", Last(stack))>>))
  /\ UNCHANGED <<pc, status, errormsg, lookahead, leaves, treeAt>>

\* A rule for an expression with k values to its right.
Reduce(k) ==
  LET n == Len(stack)
      values == SubSeq(stack, n - k + 1, n)
  IN  /\ Parsing /\ k <= n
      /\ k > 1 \/ values[1].kind \notin {"exp", "ID"}
      /\ stack' = Append(SubSeq(stack, 1, n - k),
                         Exp(FlattenSeq([j \in 1..k |-> LeavesOf(values[j])])))
      /\ UNCHANGED <<pc, status, errormsg, lookahead, leaves, treeAt>>

\* program: exp
Accept ==
  /\ Parsing /\ lookahead = EndOfInput
  /\ Len(stack) = 1 /\ stack[1].kind = "exp"
  /\ leaves' = stack[1].leaves
  /\ treeAt' = "parser"
  /\ Continue
  /\ UNCHANGED <<errormsg, lookahead, stack>>

\* Parser::error
SyntaxError ==
  /\ Parsing /\ lookahead # NoToken
  /\ errormsg' = Error(errormsg)
  /\ Exit("1")
  /\ UNCHANGED <<lookahead, stack, leaves, treeAt>>

\* The scanner has no error object: reading it is undefined.
NullErrormsg ==
  /\ At("parse") /\ errormsgAt # "scanner"
  /\ Exit("undefined")
  /\ UNCHANGED <<errormsg, lookahead, stack, leaves, treeAt>>

Parse ==
  /\ \/ Shift \/ ReduceId \/ Accept \/ SyntaxError \/ NullErrormsg
     \/ \E k \in DOMAIN stack : Reduce(k)
  /\ UNCHANGED <<driver, argument, file, cursor, errormsgAt, string_pool_, printed>>

-----------------------------------------------------------------------------
(* main *)

\* The check of argc and Parser's constructor, which throws if there is no file.
Construct ==
  /\ At("construct")
  /\ CASE argument = "none" -> Exit("1") /\ UNCHANGED errormsgAt
       [] argument = "missing" -> Exit("aborted") /\ UNCHANGED errormsgAt
       [] OTHER -> Continue /\ errormsgAt' = "scanner"
  /\ UNCHANGED <<treeAt, string_pool_, errormsg, printed>>

TransferErrormsg ==
  /\ At("transfer errormsg")
  /\ errormsgAt' = IF errormsgAt = "scanner" THEN "main" ELSE errormsgAt
  /\ Continue
  /\ UNCHANGED <<treeAt, string_pool_, errormsg, printed>>

TransferAbsynTree ==
  /\ At("transfer tree")
  /\ treeAt' = IF treeAt = "parser" THEN "main" ELSE treeAt
  /\ Continue
  /\ UNCHANGED <<errormsgAt, string_pool_, errormsg, printed>>

\* absyn_tree->Print
PrintTree ==
  /\ At("print")
  /\ IF treeAt = "main" THEN printed' = TRUE /\ Continue
     ELSE Exit("undefined") /\ UNCHANGED printed
  /\ UNCHANGED <<errormsgAt, treeAt, string_pool_, errormsg>>

\* The end of the parser, and of what it still holds.
EndOfBlock ==
  /\ At("end of block")
  /\ errormsgAt' = IF errormsgAt = "scanner" THEN "nobody" ELSE errormsgAt
  /\ treeAt' = IF treeAt = "parser" THEN "nobody" ELSE treeAt
  /\ string_pool_' = <<>>
  /\ Continue
  /\ UNCHANGED <<errormsg, printed>>

\* ProgTr takes the tree and the error object, and reports what it finds.
Translate ==
  /\ At("translate")
  /\ IF treeAt = "main" /\ errormsgAt = "main"
     THEN /\ treeAt' = "translator" /\ errormsgAt' = "translator"
          /\ errormsg' \in {errormsg, Error(errormsg)}
          /\ Continue
     ELSE Exit("undefined") /\ UNCHANGED <<treeAt, errormsgAt, errormsg>>
  /\ UNCHANGED <<string_pool_, printed>>

\* return 0, and the end of all locals.
Return ==
  /\ At("return")
  /\ Exit("0")
  /\ errormsgAt' = "nobody" /\ treeAt' = "nobody" /\ string_pool_' = <<>>
  /\ UNCHANGED <<errormsg, printed>>

Main ==
  /\ \/ Construct \/ TransferErrormsg \/ TransferAbsynTree \/ PrintTree
     \/ EndOfBlock \/ Translate \/ Return
  /\ UNCHANGED <<driver, argument, file, cursor, lookahead, stack, leaves>>

-----------------------------------------------------------------------------

Ended == status # "running" /\ UNCHANGED parserVars

ParserNext == Scan \/ Parse \/ Main \/ Ended

ParserSpec == ParserInit /\ [][ParserNext]_parserVars

-----------------------------------------------------------------------------
(* Properties *)

Constants == {"ID", "STRING", "INT"}

\* A leaf holds the text of its own token, and the position of a variable is that of its
\* token or of what was read after it, short of a second token.
OwnText(l) ==
  /\ l.text = file[l.at].text
  /\ l.class = "SimpleVar" =>
       /\ l.at <= l.pos
       /\ \A k \in (l.at + 1)..(l.pos - 1) : file[k].kind \notin Constants \union {"OTHER"}

\* Whatever is read between a token and the rule that uses it, other strings included,
\* every value still leads to the text of its token, every leaf of the tree has it, and
\* the leaves are the names and constants of the file, each once and in order.
LeavesAreTokens ==
  /\ At("parse") =>
       /\ \A v \in {lookahead} \union Range(stack) :
            v.kind = "STRING" => string_pool_[v.sval] = file[v.at].text
       /\ \A v \in Range(stack) : v.kind = "exp" => \A l \in Range(v.leaves) : OwnText(l)
  /\ treeAt # "nobody" =>
       /\ \A l \in Range(leaves) : OwnText(l)
       /\ \A i, j \in DOMAIN leaves : i < j => leaves[i].at < leaves[j].at
       /\ {l.at : l \in Range(leaves)} = {k \in DOMAIN file : file[k].kind \in Constants}

\* In each program nothing is read through a null pointer, whoever has the error object
\* and the tree; the process ends with 0 only after a file with nothing to report, whose
\* tree was printed or handed on, and with 1 only after a report or for want of an
\* argument; it is aborted only for want of the file or by a constant too large.
EndsAsReported ==
  /\ status # "undefined"
  /\ printed \/ status = "0" =>
       \A k \in DOMAIN file : file[k].kind \notin {"ILLEGAL", "UNCLOSED", "HUGE"}
  /\ status = "0" => printed = (driver = "test_parse")
  /\ status = "1" => argument = "none" \/ errormsg.any_errors_
  /\ status = "aborted" => argument = "missing" \/ file[cursor].kind = "HUGE"
=============================================================================
