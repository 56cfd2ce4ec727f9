----------------------------- MODULE ParserProofs ------------------------------
(***************************************************************************)
(* How the programs that parse end, for every file: nothing is read        *)
(* through a null pointer, and the exit status is that of the file.        *)
(***************************************************************************)
EXTENDS Parser, SequenceTheorems, WellFoundedInduction, TLAPS

ParserTypeOK ==
  /\ driver \in {"test_parse", "test_semant"}
  /\ file \in Files
  /\ pc \in Nat
  /\ cursor \in 0..Len(file)
  /\ errormsg \in ErrorMsgType
  /\ printed \in BOOLEAN

\* main is at its statement p, and who holds the error object and the tree then.
Held(p, e, t) == pc = p /\ errormsgAt = e /\ treeAt = t

Hands ==
  \/ /\ driver = "test_parse"
     /\ \/ Held(1, "nobody", "nobody")
        \/ Held(2, "scanner", "nobody")
        \/ Held(3, "scanner", "parser")
        \/ Held(4, "scanner", "main")
        \/ Held(5, "scanner", "main")
  \/ /\ driver = "test_semant"
     /\ \/ Held(1, "nobody", "nobody")
        \/ Held(2, "scanner", "nobody")
        \/ Held(3, "scanner", "parser")
        \/ Held(4, "main", "parser")
        \/ Held(5, "main", "main")
        \/ Held(6, "main", "main")
        \/ Held(7, "translator", "translator")

\* The statements done: who holds what, and that parse has read the file to its end.
Course ==
  /\ status = "running" => Hands /\ (printed <=> driver = "test_parse" /\ pc = 5)
  /\ (status = "running" /\ pc > 2) \/ printed \/ status = "0" => lookahead = EndOfInput

\* What is to report in the part scanned was reported, or has ended the process.
Scanned ==
  \A k \in 1..cursor :
    /\ file[k].kind \in {"ILLEGAL", "UNCLOSED"} => errormsg.any_errors_
    /\ file[k].kind = "HUGE" => status = "aborted"

\* The end of the file is a token only of a file with nothing to report.
Clean == \A k \in DOMAIN file : file[k].kind \notin {"ILLEGAL", "UNCLOSED", "HUGE"}

PInv ==
  /\ ParserTypeOK /\ Course /\ Scanned
  /\ lookahead = EndOfInput => Clean
  /\ EndsAsReported

\* file is a sequence of items, none of which is the end of the file.
LEMMA FileType ==
  ASSUME ParserTypeOK
  PROVE  /\ Len(file) \in Nat /\ DOMAIN file = 1..Len(file)
         /\ \A k \in DOMAIN file : file[k].kind \in ItemKinds
  <1>1. file \in Seq([kind : ItemKinds, text : STRING])
    BY FilesAssumption DEF ParserTypeOK
  <1>2. \A k \in 1..Len(file) : file[k] \in [kind : ItemKinds, text : STRING]
    BY <1>1, ElementOfSeq
  <1>. QED BY <1>1, <1>2, LenProperties

\* What the methods called leave of an error object.
LEMMA MethodTypes ==
  ASSUME NEW e \in ErrorMsgType
  PROVE  /\ Error(e) \in ErrorMsgType /\ Error(e).any_errors_ = TRUE
         /\ Newline(e) \in ErrorMsgType /\ Newline(e).any_errors_ = e.any_errors_
         /\ \A p \in Nat : /\ [e EXCEPT !.tok_pos_ = p] \in ErrorMsgType
                           /\ [e EXCEPT !.tok_pos_ = p].any_errors_ = e.any_errors_
  <1>1. Error(e) \in ErrorMsgType /\ Error(e).any_errors_ = TRUE
    BY DEF Error, ErrorMsgType
  <1>2. \A p \in Nat : /\ [e EXCEPT !.tok_pos_ = p] \in ErrorMsgType
                       /\ [e EXCEPT !.tok_pos_ = p].any_errors_ = e.any_errors_
    BY DEF ErrorMsgType
  <1>3. Newline(e) \in ErrorMsgType /\ Newline(e).any_errors_ = e.any_errors_
    <2>. DEFINE k == e.line_num_ + 1
                mp == <<e.tok_pos_>> \o e.line_pos_
    <2>1. Newline(e) = [e EXCEPT !.line_num_ = k, !.line_pos_ = mp]
      BY DEF Newline
    <2>2. k \in Nat /\ mp \in Seq(Nat)
      BY ConcatProperties DEF ErrorMsgType
    <2>. HIDE DEF k, mp
    <2>. QED BY <2>1, <2>2 DEF ErrorMsgType
  <1>. QED BY <1>1, <1>2, <1>3

\* The statement each program is at, and who holds what there.
LEMMA AtPlace ==
  ASSUME PInv
  PROVE  /\ At("construct") => Held(1, "nobody", "nobody")
         /\ At("parse") => Held(2, "scanner", "nobody")
         /\ At("transfer errormsg") => driver = "test_semant" /\ Held(3, "scanner", "parser")
         /\ At("transfer tree") => \/ driver = "test_parse" /\ Held(3, "scanner", "parser")
                                   \/ driver = "test_semant" /\ Held(4, "main", "parser")
         /\ At("print") => driver = "test_parse" /\ Held(4, "scanner", "main")
         /\ At("end of block") => driver = "test_semant" /\ Held(5, "main", "main")
         /\ At("translate") => driver = "test_semant" /\ Held(6, "main", "main")
         /\ At("return") => \/ driver = "test_parse" /\ Held(5, "scanner", "main")
                            \/ driver = "test_semant" /\ Held(7, "translator", "translator")
  <1>1. status = "running" => Hands
    BY DEF PInv, Course
  <1>2. CASE driver = "test_parse"
    <2>1. /\ Statements[driver][1] = "construct"
          /\ Statements[driver][2] = "parse"
          /\ Statements[driver][3] = "transfer tree"
          /\ Statements[driver][4] = "print"
          /\ Statements[driver][5] = "return"
      BY <1>2 DEF Statements
    <2>. QED BY <1>1, <1>2, <2>1 DEF At, Hands, Held
  <1>3. CASE driver = "test_semant"
    <2>1. /\ Statements[driver][1] = "construct"
          /\ Statements[driver][2] = "parse"
          /\ Statements[driver][3] = "transfer errormsg"
          /\ Statements[driver][4] = "transfer tree"
          /\ Statements[driver][5] = "end of block"
          /\ Statements[driver][6] = "translate"
          /\ Statements[driver][7] = "return"
      BY <1>3 DEF Statements
    <2>. QED BY <1>1, <1>3, <2>1 DEF At, Hands, Held
  <1>. QED BY <1>2, <1>3 DEF PInv, ParserTypeOK

LEMMA InitPInv == ParserInit => PInv
  <1>. SUFFICES ASSUME ParserInit PROVE PInv
    OBVIOUS
  <1>1. driver \in {"test_parse", "test_semant"}
    BY DEF ParserInit, Statements
  <1>2. file \in Files /\ file \in Seq([kind : ItemKinds, text : STRING])
    BY FilesAssumption DEF ParserInit
  <1>3. 0 \in 0..Len(file)
    BY <1>2, LenProperties
  <1>4. NewErrorMsg \in ErrorMsgType
    BY DEF NewErrorMsg, ErrorMsgType
  <1>5. ParserTypeOK
    BY <1>1, <1>2, <1>3, <1>4 DEF ParserInit, ParserTypeOK
  <1>6. Course
    BY <1>1 DEF ParserInit, Course, Hands, Held
  <1>7. Scanned
    BY DEF ParserInit, Scanned
  <1>8. lookahead # EndOfInput
    BY DEF ParserInit, EndOfInput, NoToken
  <1>9. EndsAsReported
    BY DEF ParserInit, EndsAsReported
  <1>. QED BY <1>5, <1>6, <1>7, <1>8, <1>9 DEF PInv

-----------------------------------------------------------------------------
(* The scanner *)

\* One more item is scanned; what there is to report of it is reported.
LEMMA MatchStep ==
  ASSUME PInv, NEW item, Matches(item), UNCHANGED file,
         errormsg' \in ErrorMsgType,
         errormsg.any_errors_ => errormsg'.any_errors_,
         item.kind \in {"ILLEGAL", "UNCLOSED"} => errormsg'.any_errors_,
         item.kind = "HUGE" => status' = "aborted"
  PROVE  Scanned' /\ cursor' \in 0..Len(file) /\ file[cursor'] = item
  <1>1. /\ cursor < Len(file) /\ item = file[cursor + 1] /\ cursor' = cursor + 1
        /\ status = "running"
    BY DEF Matches, At
  <1>2. cursor \in Nat /\ Len(file) \in Nat
    BY FileType DEF PInv, ParserTypeOK
  <1>3. \A k \in 1..cursor' : k \in 1..cursor \/ k = cursor + 1
    BY <1>1, <1>2
  <1>4. Scanned'
    BY <1>1, <1>3 DEF PInv, Scanned
  <1>. QED BY <1>1, <1>2, <1>4

LEMMA ScanStep == ASSUME PInv, Scan PROVE PInv'
  <1>1. UNCHANGED <<driver, argument, file, errormsgAt, stack, leaves, treeAt, printed>>
    BY DEF Scan
  <1>2. /\ At("parse") /\ lookahead = NoToken /\ status = "running"
        /\ pc = 2 /\ Hands /\ ~printed
    <2>1. At("parse") /\ lookahead = NoToken /\ status = "running"
      BY DEF Scan, Pass, Unclosed, Lex, LexHuge, LexEnd, Matches, At
    <2>2. pc = 2
      BY <2>1, AtPlace DEF Held
    <2>. QED BY <2>1, <2>2 DEF PInv, Course
  <1>3. /\ errormsg \in ErrorMsgType /\ cursor \in 0..Len(file) /\ Len(file) \in Nat
        /\ cursor + 1 \in Nat
    BY FileType DEF PInv, ParserTypeOK
  <1>4. /\ Adjusted \in ErrorMsgType /\ Adjusted.any_errors_ = errormsg.any_errors_
        /\ Newline(Adjusted) \in ErrorMsgType
        /\ Newline(Adjusted).any_errors_ = errormsg.any_errors_
        /\ Error(Adjusted) \in ErrorMsgType /\ Error(Adjusted).any_errors_ = TRUE
    BY <1>3, MethodTypes DEF Adjusted
  <1>5. lookahead # EndOfInput
    BY <1>2 DEF NoToken, EndOfInput
  <1>6. ASSUME NEW item, Pass(item) PROVE PInv'
    <2>1. /\ Matches(item) /\ UNCHANGED <<pc, status, lookahead>>
          /\ errormsg' \in ErrorMsgType
          /\ errormsg.any_errors_ => errormsg'.any_errors_
          /\ item.kind \in {"BLANK", "NEWLINE", "ILLEGAL"}
          /\ item.kind = "ILLEGAL" => errormsg'.any_errors_
      BY <1>4, <1>6 DEF Pass
    <2>2. Scanned' /\ cursor' \in 0..Len(file)
      BY <1>1, <2>1, MatchStep
    <2>. QED BY <1>1, <1>2, <1>5, <2>1, <2>2
             DEF PInv, ParserTypeOK, Course, Hands, Held, EndsAsReported
  <1>7. ASSUME NEW item, Unclosed(item) PROVE PInv'
    <2>1. /\ Matches(item) /\ UNCHANGED <<pc, lookahead>> /\ status' = "1"
          /\ errormsg' \in ErrorMsgType /\ errormsg'.any_errors_
          /\ item.kind = "UNCLOSED"
      BY <1>4, <1>7 DEF Unclosed, Exit
    <2>2. Scanned' /\ cursor' \in 0..Len(file)
      BY <1>1, <2>1, MatchStep
    <2>. QED BY <1>1, <1>2, <1>5, <2>1, <2>2 DEF PInv, ParserTypeOK, Course, EndsAsReported
  <1>8. ASSUME NEW item, Lex(item) PROVE PInv'
    <2>1. /\ Matches(item) /\ UNCHANGED <<pc, status>>
          /\ errormsg' = Adjusted
          /\ item.kind \in {"ID", "STRING", "INT", "OTHER"}
      BY <1>8 DEF Lex
    <2>2. Scanned' /\ cursor' \in 0..Len(file)
      BY <1>1, <1>4, <2>1, MatchStep
    <2>3. lookahead'.kind = item.kind
      <3>. DEFINE token == [kind |-> item.kind, at |-> cursor + 1, text |-> item.text,
                            sval |-> 0]
      <3>1. CASE item.kind = "STRING"
        <4>1. lookahead' = [token EXCEPT !.text = "", !.sval = Len(string_pool_) + 1]
          BY <1>8, <3>1 DEF Lex
        <4>. QED BY <4>1
      <3>2. CASE item.kind # "STRING"
        BY <1>8, <3>2 DEF Lex
      <3>. QED BY <3>1, <3>2
    <2>4. lookahead' # EndOfInput
      BY <2>1, <2>3 DEF EndOfInput, NoToken
    <2>. QED BY <1>1, <1>2, <1>4, <2>1, <2>2, <2>4
             DEF PInv, ParserTypeOK, Course, Hands, Held, EndsAsReported
  <1>9. ASSUME NEW item, LexHuge(item) PROVE PInv'
    <2>1. /\ Matches(item) /\ UNCHANGED <<pc, lookahead>> /\ status' = "aborted"
          /\ errormsg' = Adjusted /\ item.kind = "HUGE"
      BY <1>9 DEF LexHuge, Exit
    <2>2. Scanned' /\ cursor' \in 0..Len(file) /\ file[cursor'] = item
      BY <1>1, <1>4, <2>1, MatchStep
    <2>. QED BY <1>1, <1>2, <1>4, <1>5, <2>1, <2>2
             DEF PInv, ParserTypeOK, Course, EndsAsReported
  <1>10. CASE LexEnd
    <2>1. cursor = Len(file) /\ UNCHANGED <<cursor, errormsg>>
      BY <1>10 DEF LexEnd
    <2>2. CASE errormsg.any_errors_
      <3>1. status' = "1" /\ UNCHANGED <<pc, lookahead>>
        BY <1>10, <2>2 DEF LexEnd, Exit
      <3>2. Scanned'
        BY <1>1, <1>2, <2>1, <2>2 DEF PInv, Scanned
      <3>. QED BY <1>1, <1>2, <1>5, <2>1, <2>2, <3>1, <3>2
               DEF PInv, ParserTypeOK, Course, EndsAsReported
    <2>3. CASE ~errormsg.any_errors_
      <3>1. lookahead' = EndOfInput /\ UNCHANGED <<pc, status>>
        BY <1>10, <2>3 DEF LexEnd
      <3>2. Scanned'
        BY <1>1, <2>1, <3>1 DEF PInv, Scanned
      <3>3. Clean'
        BY <1>1, <1>2, <2>1, <2>3, FileType DEF PInv, Scanned, Clean
      <3>. QED BY <1>1, <1>2, <2>1, <3>1, <3>2, <3>3
               DEF PInv, ParserTypeOK, Course, Hands, Held, EndsAsReported
    <2>. QED BY <2>2, <2>3
  <1>. QED BY <1>6, <1>7, <1>8, <1>9, <1>10 DEF Scan

-----------------------------------------------------------------------------
(* parse *)

LEMMA ParseStep == ASSUME PInv, Parse PROVE PInv'
  <1>1. UNCHANGED <<driver, argument, file, cursor, errormsgAt, string_pool_, printed>>
    BY DEF Parse
  <1>2. /\ At("parse") /\ status = "running" /\ Held(2, "scanner", "nobody")
        /\ Hands /\ ~printed
    <2>1. At("parse") /\ status = "running"
      BY DEF Parse, Shift, ReduceId, Reduce, Accept, SyntaxError, NullErrormsg, Parsing, At
    <2>2. Held(2, "scanner", "nobody")
      BY <2>1, AtPlace
    <2>. QED BY <2>1, <2>2 DEF PInv, Course, Held
  <1>3. CASE UNCHANGED <<pc, status, errormsg, treeAt>> /\ lookahead' \in {lookahead, NoToken}
    <2>1. NoToken # EndOfInput
      BY DEF NoToken, EndOfInput
    <2>2. Scanned' /\ (Clean' <=> Clean)
      BY <1>1, <1>3 DEF PInv, Scanned, Clean
    <2>. QED BY <1>1, <1>2, <1>3, <2>1, <2>2
             DEF PInv, ParserTypeOK, Course, Hands, Held, EndsAsReported
  <1>4. CASE Accept
    <2>1. /\ lookahead = EndOfInput /\ treeAt' = "parser" /\ pc' = pc + 1
          /\ UNCHANGED <<status, errormsg, lookahead>>
      BY <1>4 DEF Accept, Continue
    <2>2. Scanned' /\ (Clean' <=> Clean)
      BY <1>1, <2>1 DEF PInv, Scanned, Clean
    <2>. QED BY <1>1, <1>2, <2>1, <2>2
             DEF PInv, ParserTypeOK, Course, Hands, Held, EndsAsReported
  <1>5. CASE SyntaxError
    <2>1. /\ errormsg' = Error(errormsg) /\ status' = "1"
          /\ UNCHANGED <<pc, lookahead, treeAt>>
      BY <1>5 DEF SyntaxError, Exit
    <2>2. errormsg' \in ErrorMsgType /\ errormsg'.any_errors_ = TRUE
      BY <2>1, MethodTypes DEF PInv, ParserTypeOK
    <2>3. Scanned' /\ (Clean' <=> Clean)
      BY <1>1, <1>2, <2>1, <2>2 DEF PInv, Scanned, Clean
    <2>. QED BY <1>1, <1>2, <2>1, <2>2, <2>3 DEF PInv, ParserTypeOK, Course, EndsAsReported
  <1>6. ~NullErrormsg
    BY <1>2 DEF NullErrormsg, Held
  <1>7. Shift => UNCHANGED <<pc, status, errormsg, treeAt>> /\ lookahead' = NoToken
    BY DEF Shift
  <1>8. ReduceId => UNCHANGED <<pc, status, errormsg, treeAt, lookahead>>
    BY DEF ReduceId
  <1>9. \A k \in DOMAIN stack :
          Reduce(k) => UNCHANGED <<pc, status, errormsg, treeAt, lookahead>>
    BY DEF Reduce
  <1>. QED BY <1>3, <1>4, <1>5, <1>6, <1>7, <1>8, <1>9 DEF Parse

-----------------------------------------------------------------------------
(* main *)

LEMMA MainStep == ASSUME PInv, Main PROVE PInv'
  <1>1. UNCHANGED <<driver, argument, file, cursor, lookahead>>
    BY DEF Main
  <1>2. /\ status = "running" /\ Hands
        /\ (printed <=> driver = "test_parse" /\ pc = 5)
    <2>1. status = "running"
      BY DEF Main, Construct, TransferErrormsg, TransferAbsynTree, PrintTree, EndOfBlock,
             Translate, Return, At
    <2>. QED BY <2>1 DEF PInv, Course
  <1>3. ASSUME errormsg' \in ErrorMsgType, errormsg.any_errors_ => errormsg'.any_errors_
        PROVE  Scanned' /\ (Clean' <=> Clean)
    BY <1>1, <1>2, <1>3 DEF PInv, Scanned, Clean
  <1>4. errormsg \in ErrorMsgType
    BY DEF PInv, ParserTypeOK
  <1>5. CASE Construct
    <2>1. Held(1, "nobody", "nobody") /\ UNCHANGED <<treeAt, errormsg, printed>>
      BY <1>5, AtPlace DEF Construct
    <2>2. \/ argument = "none" /\ status' = "1" /\ UNCHANGED pc
          \/ argument = "missing" /\ status' = "aborted" /\ UNCHANGED pc
          \/ pc' = pc + 1 /\ UNCHANGED status /\ errormsgAt' = "scanner"
      BY <1>5 DEF Construct, Exit, Continue
    <2>3. Scanned' /\ (Clean' <=> Clean)
      BY <1>3, <1>4, <2>1
    <2>. QED BY <1>1, <1>2, <2>1, <2>2, <2>3
             DEF PInv, ParserTypeOK, Course, Hands, Held, EndsAsReported
  <1>6. CASE TransferErrormsg
    <2>1. /\ driver = "test_semant" /\ Held(3, "scanner", "parser")
          /\ errormsgAt' = "main" /\ pc' = pc + 1
          /\ UNCHANGED <<status, treeAt, errormsg, printed>>
      BY <1>6, AtPlace DEF TransferErrormsg, Continue, Held
    <2>2. Scanned' /\ (Clean' <=> Clean)
      BY <1>3, <1>4, <2>1
    <2>. QED BY <1>1, <1>2, <2>1, <2>2
             DEF PInv, ParserTypeOK, Course, Hands, Held, EndsAsReported
  <1>7. CASE TransferAbsynTree
    <2>1. /\ treeAt' = "main" /\ pc' = pc + 1
          /\ UNCHANGED <<status, errormsgAt, errormsg, printed>>
          /\ \/ driver = "test_parse" /\ Held(3, "scanner", "parser")
             \/ driver = "test_semant" /\ Held(4, "main", "parser")
      BY <1>7, AtPlace DEF TransferAbsynTree, Continue, Held
    <2>2. Scanned' /\ (Clean' <=> Clean)
      BY <1>3, <1>4, <2>1
    <2>. QED BY <1>1, <1>2, <2>1, <2>2
             DEF PInv, ParserTypeOK, Course, Hands, Held, EndsAsReported
  <1>8. CASE PrintTree
    <2>1. /\ driver = "test_parse" /\ Held(4, "scanner", "main")
          /\ printed' = TRUE /\ pc' = pc + 1
          /\ UNCHANGED <<status, errormsgAt, treeAt, errormsg>>
      BY <1>8, AtPlace DEF PrintTree, Continue, Held
    <2>2. Scanned' /\ (Clean' <=> Clean)
      BY <1>3, <1>4, <2>1
    <2>3. Clean
      BY <1>2, <2>1 DEF PInv, Course, Held
    <2>. QED BY <1>1, <1>2, <2>1, <2>2, <2>3
             DEF PInv, ParserTypeOK, Course, Hands, Held, EndsAsReported, Clean
  <1>9. CASE EndOfBlock
    <2>1. /\ driver = "test_semant" /\ Held(5, "main", "main") /\ pc' = pc + 1
          /\ UNCHANGED <<status, errormsgAt, treeAt, errormsg, printed>>
      BY <1>9, AtPlace DEF EndOfBlock, Continue, Held
    <2>2. Scanned' /\ (Clean' <=> Clean)
      BY <1>3, <1>4, <2>1
    <2>. QED BY <1>1, <1>2, <2>1, <2>2
             DEF PInv, ParserTypeOK, Course, Hands, Held, EndsAsReported
  <1>10. CASE Translate
    <2>1. /\ driver = "test_semant" /\ Held(6, "main", "main") /\ pc' = pc + 1
          /\ errormsgAt' = "translator" /\ treeAt' = "translator"
          /\ errormsg' \in {errormsg, Error(errormsg)}
          /\ UNCHANGED <<status, printed>>
      BY <1>10, AtPlace DEF Translate, Continue, Held
    <2>2. errormsg' \in ErrorMsgType /\ (errormsg.any_errors_ => errormsg'.any_errors_)
      BY <1>4, <2>1, MethodTypes
    <2>3. Scanned' /\ (Clean' <=> Clean)
      BY <1>3, <2>2
    <2>. QED BY <1>1, <1>2, <2>1, <2>2, <2>3
             DEF PInv, ParserTypeOK, Course, Hands, Held, EndsAsReported
  <1>11. CASE Return
    <2>1. /\ status' = "0" /\ UNCHANGED <<pc, errormsg, printed>>
          /\ \/ driver = "test_parse" /\ pc = 5
             \/ driver = "test_semant" /\ pc = 7
      BY <1>11, AtPlace DEF Return, Exit, Held
    <2>2. Scanned' /\ (Clean' <=> Clean)
      BY <1>3, <1>4, <2>1
    <2>3. lookahead = EndOfInput /\ Clean
      BY <1>2, <2>1 DEF PInv, Course
    <2>. QED BY <1>1, <1>2, <2>1, <2>2, <2>3
             DEF PInv, ParserTypeOK, Course, EndsAsReported, Clean
  <1>. QED BY <1>5, <1>6, <1>7, <1>8, <1>9, <1>10, <1>11 DEF Main

-----------------------------------------------------------------------------
(* Theorems *)

\* PInv is inductive.
THEOREM ParserInvariance == ParserSpec => []PInv
  <1>1. PInv /\ [ParserNext]_parserVars => PInv'
    <2>. SUFFICES ASSUME PInv, [ParserNext]_parserVars PROVE PInv'
      OBVIOUS
    <2>1. CASE UNCHANGED parserVars
      BY <2>1 DEF parserVars, PInv, ParserTypeOK, Course, Hands, Held, Scanned, Clean,
                  EndsAsReported
    <2>. QED BY <2>1, ScanStep, ParseStep, MainStep DEF ParserNext, Ended
  <1>. QED BY <1>1, InitPInv, PTL DEF ParserSpec

\* Whatever the file, and whatever the grammar and the semantic analysis do of what they
\* may, no program reads through a null pointer, and each ends with the status of what
\* was to report (main of test_parse and of test_semant, TransferErrormsg,
\* TransferAbsynTree, the scanner's rules for errors and the end of the file).
THEOREM EndsAsReportedAlways == ParserSpec => []EndsAsReported
  BY ParserInvariance, PTL DEF PInv

-----------------------------------------------------------------------------
(* Leaves and tokens: the inductive invariant *)

TokenKinds == Constants \union {"OTHER"}

\* The texts there are: those of the items, and that of a token whose text is in the pool.
Texts == {""} \union {file[k].text : k \in DOMAIN file}

TokenType == [kind : TokenKinds, at : Nat, text : Texts, sval : Nat]
LeafType ==
  [class : {"StringExp", "IntExp", "Symbol", "SimpleVar"}, at : Nat, pos : Nat, text : Texts]
ExpType == [kind : {"exp"}, leaves : Seq(LeafType)]

\* d comes before e in the sequence.
Before(s, d, e) == \E i, j \in DOMAIN s : i < j /\ s[i] = d /\ s[j] = e

\* The leaves are in the order of their tokens.
Ordered(ls) == \A d, e : Before(ls, d, e) => d.at < e.at

\* v is a token, of the item it came from, and leads to the text of that item.
TokenOK(v) ==
  /\ v \in TokenType
  /\ v.at \in 1..cursor /\ v.kind = file[v.at].kind
  /\ v.kind = "STRING" =>
       v.sval \in DOMAIN string_pool_ /\ string_pool_[v.sval] = file[v.at].text
  /\ v.kind # "STRING" => v.text = file[v.at].text

LeavesOK(ls) ==
  ls \in Seq(LeafType) /\ Ordered(ls) /\ \A l \in Range(ls) : OwnText(l)

ValueOK(v) == TokenOK(v) \/ (v \in ExpType /\ LeavesOK(v.leaves))

\* The places of the names and constants that the value stands for.
Yield(v) ==
  IF v.kind = "exp" THEN {l.at : l \in Range(v.leaves)}
  ELSE {v.at : c \in {v.kind} \intersect Constants}

IsRead == lookahead \notin {NoToken, EndOfInput}

\* The names and constants scanned, and those on the stack.
Seen == {k \in 1..cursor : file[k].kind \in Constants}
Stacked == UNION {Yield(stack[i]) : i \in DOMAIN stack}

\* What was read last is the token read and not shifted, or is known to the error object.
Latest ==
  /\ cursor # 0 => errormsg.tok_pos_ = cursor
  /\ lookahead = EndOfInput => cursor = Len(file)
  /\ IsRead => TokenOK(lookahead) /\ lookahead.at = cursor

\* The values on the stack and the token after them stand for all that was scanned, in
\* its order.
Whole ==
  /\ \A i, j \in DOMAIN stack :
       i < j => \A a \in Yield(stack[i]), b \in Yield(stack[j]) : a < b
  /\ IsRead => Seen = Stacked \union Yield(lookahead) /\ cursor \notin Stacked
  /\ ~IsRead => Seen = Stacked

\* A token on top of the stack is the last but for the one read after it.
OnTop ==
  stack # <<>> /\ stack[Len(stack)].kind # "exp" =>
    \A k \in (stack[Len(stack)].at + 1)..cursor :
      file[k].kind \in TokenKinds => IsRead /\ k = cursor

ValuesOK == \A i \in DOMAIN stack : ValueOK(stack[i])

Parsed ==
  /\ stack \in Seq(TokenType \union ExpType) /\ ValuesOK
  /\ string_pool_ \in Seq(Texts)
  /\ Latest /\ Whole /\ OnTop

Fresh == cursor = 0 /\ lookahead = NoToken /\ stack = <<>> /\ string_pool_ = <<>>

Tree ==
  /\ LeavesOK(leaves)
  /\ {l.at : l \in Range(leaves)} = {k \in DOMAIN file : file[k].kind \in Constants}

LInv ==
  /\ At("construct") => Fresh
  /\ At("parse") => Parsed
  /\ treeAt # "nobody" => Tree

-----------------------------------------------------------------------------
(* Sequences of leaves *)

\* Induction up to n, over a set.
LEMMA UpTo ==
  ASSUME NEW n \in Nat, NEW G, \A i \in 1..n : i = 1 \/ i - 1 \in G => i \in G
  PROVE  1..n \subseteq G
  <1>. DEFINE R == OpToRel(<, Nat)
              P == {i \in 1..n : i \notin G}
  <1>. SUFFICES ASSUME P # {} PROVE FALSE
    OBVIOUS
  <1>1. IsWellFoundedOn(R, Nat) /\ P \subseteq Nat
    <2>1. IsWellFoundedOn(R, Nat)
      BY NatLessThanWellFounded
    <2>2. P \subseteq Nat
      <3>. HIDE DEF R
      <3>. QED OBVIOUS
    <2>. HIDE DEF R, P
    <2>. QED BY <2>1, <2>2
  <1>2. PICK m \in P : \A k \in P : ~(<<k, m>> \in R)
    <2>. HIDE DEF R, P
    <2>. QED BY <1>1, WFMin
  <1>3. m \in 1..n /\ m \notin G
    OBVIOUS
  <1>4. m # 1 /\ m - 1 \in 1..n /\ m - 1 \notin G
    BY <1>3
  <1>5. m - 1 \in P /\ <<m - 1, m>> \in R
    BY <1>3, <1>4 DEF OpToRel
  <1>. QED BY <1>2, <1>5


\* What joining two sequences does to their elements and to the order of these.
LEMMA Joined ==
  ASSUME NEW S, NEW a \in Seq(S), NEW b \in Seq(S)
  PROVE  /\ a \o b \in Seq(S)
         /\ Range(a \o b) = Range(a) \union Range(b)
         /\ \A d, e : Before(a \o b, d, e) =>
              \/ Before(a, d, e) \/ Before(b, d, e)
              \/ d \in Range(a) /\ e \in Range(b)
  <1>. DEFINE m == Len(a)
              n == Len(b)
              s == a \o b
  <1>1. /\ m \in Nat /\ n \in Nat /\ DOMAIN a = 1..m /\ DOMAIN b = 1..n
        /\ s \in Seq(S) /\ DOMAIN s = 1..(m + n)
        /\ \A p \in 1..(m + n) : s[p] = IF p <= m THEN a[p] ELSE b[p - m]
    OBVIOUS
  <1>. HIDE DEF m, n, s
  <1>2. \A p \in 1..m : p \in 1..(m + n) /\ s[p] = a[p]
    BY <1>1
  <1>3. ASSUME NEW p \in 1..n PROVE m + p \in 1..(m + n) /\ s[m + p] = b[p]
    <2>1. m + p \in 1..(m + n) /\ ~(m + p <= m) /\ (m + p) - m = p
      BY <1>1
    <2>. QED BY <2>1, <1>1
  <1>4. ASSUME NEW p \in 1..(m + n)
        PROVE  p \in 1..m \/ \E q \in 1..n : p = m + q
    <2>1. CASE p <= m
      BY <2>1, <1>1
    <2>2. CASE ~(p <= m)
      <3>1. p - m \in 1..n /\ p = m + (p - m)
        BY <2>2, <1>1
      <3>. QED BY <3>1
    <2>. QED BY <2>1, <2>2
  <1>5. /\ \A x : x \in Range(s) <=> \E p \in 1..(m + n) : x = s[p]
        /\ \A x : x \in Range(a) <=> \E p \in 1..m : x = a[p]
        /\ \A x : x \in Range(b) <=> \E p \in 1..n : x = b[p]
    BY <1>1 DEF Range
  <1>6. Range(s) = Range(a) \union Range(b)
    <2>1. \A x : x \in Range(s) => x \in Range(a) \/ x \in Range(b)
      BY <1>2, <1>3, <1>4, <1>5
    <2>2. \A x : x \in Range(a) \/ x \in Range(b) => x \in Range(s)
      BY <1>2, <1>3, <1>5
    <2>. QED BY <2>1, <2>2
  <1>7. ASSUME NEW d, NEW e, Before(s, d, e)
        PROVE  \/ Before(a, d, e) \/ Before(b, d, e)
               \/ d \in Range(a) /\ e \in Range(b)
    <2>1. PICK p \in 1..(m + n), q \in 1..(m + n) : p < q /\ s[p] = d /\ s[q] = e
      BY <1>1, <1>7 DEF Before
    <2>2. CASE p \in 1..m /\ q \in 1..m
      BY <2>1, <2>2, <1>1, <1>2 DEF Before
    <2>3. CASE q \notin 1..m
      <3>1. PICK k \in 1..n : q = m + k
        BY <2>3, <1>4
      <3>2. s[q] = b[k]
        BY <3>1, <1>3
      <3>3. CASE p \in 1..m
        BY <3>2, <3>3, <2>1, <1>2, <1>5
      <3>4. CASE p \notin 1..m
        <4>1. PICK j \in 1..n : p = m + j
          BY <3>4, <1>4
        <4>2. s[p] = b[j] /\ j < k
          BY <2>1, <3>1, <4>1, <1>1, <1>3
        <4>. QED BY <2>1, <3>2, <4>2, <1>1 DEF Before
      <3>. QED BY <3>3, <3>4
    <2>4. q \in 1..m => p \in 1..m
      BY <2>1, <1>1
    <2>. QED BY <2>2, <2>3, <2>4
  <1>. QED BY <1>1, <1>6, <1>7 DEF s

\* What flattening the first i of ss has made.
Flat(t, ss, S, i) ==
  /\ t \in Seq(S)
  /\ Range(t) = UNION {Range(ss[j]) : j \in 1..i}
  /\ \A d, e : Before(t, d, e) =>
       \/ \E j \in 1..i : Before(ss[j], d, e)
       \/ \E j, k \in 1..i : j < k /\ d \in Range(ss[j]) /\ e \in Range(ss[k])

LEMMA Flattened ==
  ASSUME NEW S, NEW ss \in Seq(Seq(S)), Len(ss) # 0
  PROVE  Flat(FlattenSeq(ss), ss, S, Len(ss))
  <1>. DEFINE n == Len(ss)
              Step(g, i) == IF i = 1 THEN ss[i] ELSE g[i - 1] \o ss[i]
              flatten == CHOOSE g : g = [i \in 1..n |-> Step(g, i)]
              Made(m) == \E g : g = [i \in 1..m |-> Step(g, i)]
  <1>1. n \in Nat /\ n # 0 /\ \A i \in 1..n : ss[i] \in Seq(S)
    OBVIOUS
  <1>2. FlattenSeq(ss) = flatten[n]
    BY DEF FlattenSeq
  <1>. HIDE DEF n
  <1>3. \A m \in 1..n : m = 1 \/ Made(m - 1) => Made(m)
    <2>. SUFFICES ASSUME NEW m \in 1..n, m = 1 \/ Made(m - 1) PROVE Made(m)
      OBVIOUS
    <2>1. CASE m = 1
      <3>. DEFINE g == [i \in 1..1 |-> ss[1]]
      <3>1. \A i \in 1..1 : i = 1
        OBVIOUS
      <3>2. g = [i \in 1..1 |-> Step(g, i)]
        BY <3>1
      <3>. QED BY <2>1, <3>2
    <2>2. CASE m # 1
      <3>1. PICK h : h = [i \in 1..(m - 1) |-> Step(h, i)]
        BY <2>2
      <3>. DEFINE g == [i \in 1..m |-> IF i = m THEN h[m - 1] \o ss[m] ELSE h[i]]
      <3>2. m \in Nat /\ \A i \in 1..m : i # m => i \in 1..(m - 1)
        BY <1>1
      <3>3. \A i \in 1..m : i # 1 => i - 1 \in 1..m /\ i - 1 # m
        BY <3>2
      <3>4. \A i \in 1..m : i # 1 => g[i - 1] = h[i - 1]
        BY <3>3
      <3>5. \A i \in 1..m : g[i] = Step(g, i)
        BY <2>2, <3>1, <3>2, <3>4
      <3>6. g = [i \in 1..m |-> Step(g, i)]
        BY <3>5
      <3>. QED BY <3>6
    <2>. QED BY <2>1, <2>2
  <1>4. Made(n)
    <2>. DEFINE G == {m \in 1..n : Made(m)}
    <2>1. \A m \in 1..n : m = 1 \/ m - 1 \in G => m \in G
      BY <1>3
    <2>2. n \in 1..n
      BY <1>1
    <2>. HIDE DEF Made
    <2>3. 1..n \subseteq G
      <3>. HIDE DEF G
      <3>. QED BY <1>1, <2>1, UpTo
    <2>. QED BY <2>2, <2>3
  <1>5. flatten = [i \in 1..n |-> Step(flatten, i)]
    BY <1>4
  <1>. HIDE DEF flatten
  <1>6. \A i \in 1..n : flatten[i] = IF i = 1 THEN ss[i] ELSE flatten[i - 1] \o ss[i]
    BY <1>5
  <1>7. ASSUME NEW i \in 1..n, i = 1 \/ Flat(flatten[i - 1], ss, S, i - 1)
        PROVE  Flat(flatten[i], ss, S, i)
    <2>1. CASE i = 1
      <3>1. flatten[1] = ss[1] /\ ss[1] \in Seq(S) /\ 1..1 = {1}
        BY <2>1, <1>1, <1>6
      <3>2. UNION {Range(ss[j]) : j \in {1}} = Range(ss[1])
        OBVIOUS
      <3>. QED BY <2>1, <3>1, <3>2 DEF Flat
    <2>2. CASE i # 1
      <3>. DEFINE t == flatten[i - 1]
      <3>1. flatten[i] = t \o ss[i] /\ t \in Seq(S) /\ ss[i] \in Seq(S) /\ i \in Nat
        <4>1. flatten[i] = t \o ss[i]
          BY <2>2, <1>6
        <4>2. ss[i] \in Seq(S) /\ i \in Nat
          BY <1>1
        <4>3. t \in Seq(S)
          BY <2>2, <1>7 DEF Flat
        <4>. QED BY <4>1, <4>2, <4>3
      <3>2. /\ Range(t) = UNION {Range(ss[j]) : j \in 1..(i - 1)}
            /\ \A d, e : Before(t, d, e) =>
                 \/ \E j \in 1..(i - 1) : Before(ss[j], d, e)
                 \/ \E j, k \in 1..(i - 1) : j < k /\ d \in Range(ss[j]) /\ e \in Range(ss[k])
        BY <2>2, <1>7 DEF Flat
      <3>. HIDE DEF t
      <3>3. /\ t \o ss[i] \in Seq(S)
            /\ Range(t \o ss[i]) = Range(t) \union Range(ss[i])
            /\ \A d, e : Before(t \o ss[i], d, e) =>
                 \/ Before(t, d, e) \/ Before(ss[i], d, e)
                 \/ d \in Range(t) /\ e \in Range(ss[i])
        BY <3>1, Joined
      <3>4. i \in 1..i /\ \A j : j \in 1..i <=> j \in 1..(i - 1) \/ j = i
        BY <3>1, <1>1
      <3>5. \A j \in 1..(i - 1) : j < i
        BY <3>1
      <3>6. Range(t) \union Range(ss[i]) = UNION {Range(ss[j]) : j \in 1..i}
        BY <3>2, <3>4
      <3>7. ASSUME NEW d, NEW e, Before(t \o ss[i], d, e)
            PROVE  \/ \E j \in 1..i : Before(ss[j], d, e)
                   \/ \E j, k \in 1..i : j < k /\ d \in Range(ss[j]) /\ e \in Range(ss[k])
        <4>1. CASE Before(t, d, e)
          BY <4>1, <3>2, <3>4
        <4>2. CASE Before(ss[i], d, e)
          BY <4>2, <3>4
        <4>3. CASE d \in Range(t) /\ e \in Range(ss[i])
          <5>1. PICK j \in 1..(i - 1) : d \in Range(ss[j])
            BY <4>3, <3>2
          <5>. QED BY <4>3, <5>1, <3>4, <3>5
        <4>. QED BY <4>1, <4>2, <4>3, <3>3, <3>7
      <3>. QED BY <3>1, <3>3, <3>6, <3>7 DEF Flat
    <2>. QED BY <2>1, <2>2
  <1>8. Flat(flatten[n], ss, S, n)
    <2>. DEFINE G == {m \in 1..n : Flat(flatten[m], ss, S, m)}
    <2>1. \A m \in 1..n : m = 1 \/ m - 1 \in G => m \in G
      BY <1>7
    <2>2. n \in 1..n
      BY <1>1
    <2>3. 1..n \subseteq G
      <3>. HIDE DEF G
      <3>. QED BY <1>1, <2>1, UpTo
    <2>. QED BY <2>2, <2>3
  <1>. QED BY <1>2, <1>8 DEF n

-----------------------------------------------------------------------------
(* Values *)

\* No two kinds of value are confused.
LEMMA Kinds ==
  /\ \A v : TokenOK(v) => v.kind \in TokenKinds /\ v.kind # "exp" /\ v # NoToken /\ v # EndOfInput
  /\ \A v \in ExpType : v.kind = "exp" /\ v.leaves \in Seq(LeafType)
  /\ NoToken # EndOfInput
  <1>1. /\ NoToken.kind = "none" /\ EndOfInput.kind = "end"
        /\ \A k \in TokenKinds : k \notin {"exp", "none", "end"}
    BY DEF NoToken, EndOfInput, TokenKinds, Constants
  <1>2. \A v : TokenOK(v) => v.kind \in TokenKinds
    BY DEF TokenOK, TokenType
  <1>3. \A v \in ExpType : v.kind = "exp" /\ v.leaves \in Seq(LeafType)
    BY DEF ExpType
  <1>. QED BY <1>1, <1>2, <1>3

\* What is scanned is of the file.
LEMMA ScannedPart ==
  ASSUME PInv
  PROVE  /\ cursor \in Nat /\ Len(file) \in Nat /\ cursor <= Len(file)
         /\ DOMAIN file = 1..Len(file) /\ 1..cursor \subseteq DOMAIN file
         /\ errormsg.tok_pos_ \in Nat
         /\ \A k \in DOMAIN file : file[k].kind \in ItemKinds /\ file[k].text \in Texts
  <1>1. /\ Len(file) \in Nat /\ DOMAIN file = 1..Len(file) /\ cursor \in 0..Len(file)
        /\ \A k \in DOMAIN file : file[k].kind \in ItemKinds
    BY FileType DEF PInv, ParserTypeOK
  <1>2. errormsg.tok_pos_ \in Nat
    BY DEF PInv, ParserTypeOK, ErrorMsgType
  <1>3. \A k \in DOMAIN file : file[k].text \in Texts
    BY DEF Texts
  <1>. QED BY <1>1, <1>2, <1>3

\* A value stays good when more is scanned and more strings are in the pool.
LEMMA ValueStays ==
  ASSUME UNCHANGED file, cursor \in Nat, cursor' \in Nat, cursor <= cursor',
         \A p \in DOMAIN string_pool_ :
           p \in DOMAIN string_pool_' /\ string_pool_'[p] = string_pool_[p]
  PROVE  \A v : ValueOK(v) => ValueOK(v)'
  <1>. SUFFICES ASSUME NEW v, ValueOK(v) PROVE ValueOK(v)'
    OBVIOUS
  <1>1. Texts' = Texts
    BY DEF Texts
  <1>2. CASE TokenOK(v)
    <2>1. v.at \in 1..cursor'
      BY <1>2 DEF TokenOK
    <2>. QED BY <1>1, <1>2, <2>1 DEF ValueOK, TokenOK, TokenType
  <1>3. CASE v \in ExpType /\ LeavesOK(v.leaves)
    <2>1. \A l : OwnText(l)' <=> OwnText(l)
      BY DEF OwnText
    <2>2. LeafType' = LeafType
      BY <1>1 DEF LeafType
    <2>3. ExpType' = ExpType
      BY <2>2 DEF ExpType
    <2>. QED BY <1>3, <2>1, <2>2, <2>3 DEF ValueOK, LeavesOK
  <1>. QED BY <1>2, <1>3 DEF ValueOK

LEMMA Single ==
  ASSUME NEW S, NEW l \in S
  PROVE  /\ <<l>> \in Seq(S) /\ Range(<<l>>) = {l}
         /\ \A d, e : ~Before(<<l>>, d, e)
  <1>1. <<l>> \in Seq(S) /\ DOMAIN <<l>> = 1..1 /\ <<l>>[1] = l
    OBVIOUS
  <1>2. \A i \in 1..1 : i = 1
    OBVIOUS
  <1>3. \A d, e : ~Before(<<l>>, d, e)
    BY <1>1, <1>2 DEF Before
  <1>4. Range(<<l>>) = {l}
    BY <1>1, <1>2 DEF Range
  <1>. QED BY <1>1, <1>3, <1>4

\* The leaf made of a token has the token's text.
LEMMA LeafIs ==
  ASSUME PInv, NEW v, TokenOK(v),
         NEW class \in {"StringExp", "IntExp", "Symbol", "SimpleVar"},
         class = "SimpleVar" =>
           /\ v.at <= errormsg.tok_pos_
           /\ \A k \in (v.at + 1)..(errormsg.tok_pos_ - 1) : file[k].kind \notin TokenKinds
  PROVE  /\ LeavesOK(<<Leaf(class, v)>>)
         /\ {l.at : l \in Range(<<Leaf(class, v)>>)} = {v.at}
  <1>. DEFINE leaf == Leaf(class, v)
              t == IF v.kind = "STRING" THEN string_pool_[v.sval] ELSE v.text
  <1>1. leaf = [class |-> class, at |-> v.at, pos |-> errormsg.tok_pos_, text |-> t]
    BY DEF Leaf
  <1>2. t = file[v.at].text /\ v.at \in DOMAIN file /\ v.at \in Nat
    BY ScannedPart DEF TokenOK
  <1>3. errormsg.tok_pos_ \in Nat /\ file[v.at].text \in Texts
    BY <1>2, ScannedPart
  <1>. HIDE DEF t
  <1>4. leaf \in LeafType
    BY <1>1, <1>2, <1>3 DEF LeafType
  <1>5. OwnText(leaf) /\ leaf.at = v.at
    BY <1>1, <1>2 DEF OwnText, TokenKinds
  <1>. HIDE DEF leaf
  <1>6. /\ <<leaf>> \in Seq(LeafType) /\ Range(<<leaf>>) = {leaf}
        /\ \A d, e : ~Before(<<leaf>>, d, e)
    BY <1>4, Single
  <1>7. LeavesOK(<<leaf>>) /\ {l.at : l \in Range(<<leaf>>)} = {v.at}
    BY <1>5, <1>6 DEF LeavesOK, Ordered
  <1>. QED BY <1>7 DEF leaf

\* The leaves of a value are those of what it stands for.
LEMMA LeavesOfIs ==
  ASSUME PInv, NEW v, ValueOK(v)
  PROVE  LeavesOK(LeavesOf(v)) /\ {l.at : l \in Range(LeavesOf(v))} = Yield(v)
  <1>1. CASE TokenOK(v)
    <2>0. v.kind \in {"ID", "STRING", "INT", "OTHER"} /\ v.kind # "exp"
      BY <1>1, Kinds DEF TokenKinds, Constants
    <2>1. CASE v.kind = "OTHER"
      <3>1. LeavesOf(v) = <<>> /\ Yield(v) = {}
        BY <2>1 DEF LeavesOf, Yield, Constants
      <3>2. <<>> \in Seq(LeafType) /\ Range(<<>>) = {} /\ \A d, e : ~Before(<<>>, d, e)
        BY DEF Range, Before
      <3>. QED BY <3>1, <3>2 DEF LeavesOK, Ordered
    <2>2. CASE v.kind # "OTHER"
      <3>1. PICK class \in {"StringExp", "IntExp", "Symbol"} : LeavesOf(v) = <<Leaf(class, v)>>
        BY <2>0, <2>2 DEF LeavesOf
      <3>2. Yield(v) = {v.at}
        BY <2>0, <2>2 DEF Yield, Constants
      <3>3. class # "SimpleVar" /\ class \in {"StringExp", "IntExp", "Symbol", "SimpleVar"}
        OBVIOUS
      <3>. QED BY <1>1, <3>1, <3>2, <3>3, LeafIs
    <2>. QED BY <2>1, <2>2
  <1>2. CASE v \in ExpType /\ LeavesOK(v.leaves)
    <2>1. v.kind = "exp"
      BY <1>2, Kinds
    <2>2. LeavesOf(v) = v.leaves
      BY <2>1 DEF LeavesOf
    <2>. QED BY <1>2, <2>1, <2>2 DEF Yield
  <1>. QED BY <1>1, <1>2 DEF ValueOK

-----------------------------------------------------------------------------
(* The scanner keeps the leaves *)

LEMMA AdjustedAt ==
  ASSUME PInv
  PROVE  /\ Adjusted.tok_pos_ = cursor + 1
         /\ Newline(Adjusted).tok_pos_ = cursor + 1
         /\ Error(Adjusted).tok_pos_ = cursor + 1
  <1>1. errormsg \in ErrorMsgType
    BY DEF PInv, ParserTypeOK
  <1>2. Adjusted.tok_pos_ = cursor + 1
    BY <1>1 DEF Adjusted, ErrorMsgType
  <1>3. Adjusted \in ErrorMsgType
    <2>1. cursor + 1 \in Nat
      BY ScannedPart
    <2>. QED BY <1>1, <2>1, MethodTypes DEF Adjusted
  <1>4. \A e \in ErrorMsgType : Newline(e).tok_pos_ = e.tok_pos_ /\ Error(e).tok_pos_ = e.tok_pos_
    BY DEF Newline, Error, ErrorMsgType
  <1>. QED BY <1>2, <1>3, <1>4

\* One more item is scanned: what is below the token to come stays as it was.
LEMMA MatchKeeps ==
  ASSUME PInv, Parsed, NEW item, Matches(item), UNCHANGED <<file, stack>>
  PROVE  /\ cursor' = cursor + 1 /\ item = file[cursor'] /\ cursor' \in DOMAIN file
         /\ cursor' \in 1..cursor' /\ cursor' # 0
         /\ \A k \in 1..cursor' : k \in 1..cursor \/ k = cursor'
         /\ Seen' = Seen \union {k \in {cursor'} : item.kind \in Constants}
         /\ Stacked' = Stacked /\ Stacked = Seen /\ cursor' \notin Stacked
         /\ lookahead = NoToken
  <1>1. /\ lookahead = NoToken /\ cursor < Len(file)
        /\ item = file[cursor + 1] /\ cursor' = cursor + 1
    BY DEF Matches
  <1>2. cursor \in Nat /\ Len(file) \in Nat /\ DOMAIN file = 1..Len(file)
    BY ScannedPart
  <1>3. \A k : k \in 1..cursor' <=> k \in 1..cursor \/ k = cursor'
    BY <1>1, <1>2
  <1>4. cursor' \in DOMAIN file /\ cursor' # 0 /\ cursor' \notin 1..cursor
    BY <1>1, <1>2
  <1>5. Seen' = Seen \union {k \in {cursor'} : item.kind \in Constants}
    BY <1>1, <1>3 DEF Seen
  <1>6. Stacked' = Stacked
    BY DEF Stacked, Yield
  <1>7. Stacked = Seen
    BY <1>1 DEF Parsed, Whole, IsRead
  <1>8. cursor' \notin Stacked
    BY <1>4, <1>7 DEF Seen
  <1>. QED BY <1>1, <1>3, <1>4, <1>5, <1>6, <1>7, <1>8

LEMMA PassKeeps ==
  ASSUME PInv, Parsed, NEW item, Pass(item), UNCHANGED <<file, stack>>
  PROVE  Parsed'
  <1>1. /\ Matches(item) /\ UNCHANGED <<lookahead, string_pool_>>
        /\ errormsg'.tok_pos_ = cursor + 1
        /\ item.kind \in {"BLANK", "NEWLINE", "ILLEGAL"}
    BY AdjustedAt DEF Pass
  <1>2. /\ cursor' = cursor + 1 /\ item = file[cursor'] /\ cursor \in Nat /\ cursor' \in Nat
        /\ \A k \in 1..cursor' : k \in 1..cursor \/ k = cursor'
        /\ Seen' = Seen \union {k \in {cursor'} : item.kind \in Constants}
        /\ Stacked' = Stacked /\ Stacked = Seen /\ lookahead = NoToken
    BY <1>1, MatchKeeps, ScannedPart
  <1>3. item.kind \notin TokenKinds /\ item.kind \notin Constants
    BY <1>1 DEF TokenKinds, Constants
  <1>4. ~IsRead /\ ~IsRead' /\ lookahead' # EndOfInput
    BY <1>1, <1>2, Kinds DEF IsRead
  <1>5. Latest'
    BY <1>1, <1>2, <1>4 DEF Latest
  <1>6. Whole'
    BY <1>2, <1>3, <1>4 DEF Parsed, Whole, Yield
  <1>7. OnTop'
    <2>. SUFFICES ASSUME stack # <<>>, stack[Len(stack)].kind # "exp",
                         NEW k \in (stack[Len(stack)].at + 1)..cursor',
                         file[k].kind \in TokenKinds
                  PROVE  FALSE
      BY <1>4 DEF OnTop
    <2>1. stack[Len(stack)] \in TokenType \union ExpType
      BY DEF Parsed
    <2>2. stack[Len(stack)].at \in Nat
      BY <2>1, Kinds DEF TokenType
    <2>3. k # cursor'
      BY <1>2, <1>3
    <2>4. k \in (stack[Len(stack)].at + 1)..cursor
      BY <1>2, <2>2, <2>3
    <2>. QED BY <1>4, <2>4 DEF Parsed, OnTop
  <1>8. \A v : ValueOK(v) => ValueOK(v)'
    BY <1>1, <1>2, ValueStays
  <1>9. /\ Texts' = Texts /\ TokenType' = TokenType /\ ExpType' = ExpType
    BY DEF Texts, TokenType, ExpType, LeafType
  <1>. QED BY <1>1, <1>5, <1>6, <1>7, <1>8, <1>9 DEF Parsed, ValuesOK

LEMMA LexKeeps ==
  ASSUME PInv, Parsed, NEW item, Lex(item), UNCHANGED <<file, stack>>
  PROVE  Parsed'
  <1>1. /\ Matches(item) /\ errormsg'.tok_pos_ = cursor + 1
        /\ item.kind \in TokenKinds
    BY AdjustedAt DEF Lex, TokenKinds, Constants
  <1>2. /\ cursor' = cursor + 1 /\ item = file[cursor'] /\ cursor \in Nat /\ cursor' \in Nat
        /\ cursor' \in DOMAIN file /\ cursor' \in 1..cursor'
        /\ \A k \in 1..cursor' : k \in 1..cursor \/ k = cursor'
        /\ Seen' = Seen \union {k \in {cursor'} : item.kind \in Constants}
        /\ Stacked' = Stacked /\ Stacked = Seen /\ cursor' \notin Stacked
        /\ lookahead = NoToken /\ item.text \in Texts
    BY <1>1, MatchKeeps, ScannedPart
  <1>3. Texts' = Texts /\ TokenType' = TokenType /\ ExpType' = ExpType /\ "" \in Texts
    BY DEF Texts, TokenType, ExpType, LeafType
  <1>. DEFINE token == [kind |-> item.kind, at |-> cursor + 1, text |-> item.text, sval |-> 0]
  <1>4. /\ string_pool_' \in Seq(Texts)
        /\ \A p \in DOMAIN string_pool_ :
             p \in DOMAIN string_pool_' /\ string_pool_'[p] = string_pool_[p]
        /\ lookahead' \in TokenType /\ lookahead'.kind = item.kind /\ lookahead'.at = cursor'
        /\ item.kind = "STRING" =>
             /\ lookahead'.sval \in DOMAIN string_pool_'
             /\ string_pool_'[lookahead'.sval] = item.text
        /\ item.kind # "STRING" => lookahead'.text = item.text
    <2>0. string_pool_ \in Seq(Texts)
      BY DEF Parsed
    <2>1. CASE item.kind = "STRING"
      <3>. DEFINE n == Len(string_pool_) + 1
      <3>1. /\ string_pool_' = Append(string_pool_, item.text)
            /\ lookahead' = [token EXCEPT !.text = "", !.sval = n]
        BY <2>1 DEF Lex
      <3>2. /\ string_pool_' \in Seq(Texts) /\ n \in DOMAIN string_pool_' /\ n \in Nat
            /\ string_pool_'[n] = item.text
            /\ \A p \in DOMAIN string_pool_ :
                 p \in DOMAIN string_pool_' /\ string_pool_'[p] = string_pool_[p]
        BY <1>2, <2>0, <3>1, AppendProperties
      <3>. HIDE DEF n
      <3>3. lookahead' = [kind |-> item.kind, at |-> cursor', text |-> "", sval |-> n]
        BY <1>2, <3>1
      <3>. QED BY <1>1, <1>2, <1>3, <2>1, <3>2, <3>3 DEF TokenType
    <2>2. CASE item.kind # "STRING"
      <3>1. lookahead' = token /\ UNCHANGED string_pool_
        BY <2>2 DEF Lex
      <3>. QED BY <1>1, <1>2, <2>0, <2>2, <3>1 DEF TokenType
    <2>. QED BY <2>1, <2>2
  <1>5. TokenOK(lookahead)'
    BY <1>1, <1>2, <1>3, <1>4 DEF TokenOK
  <1>6. ~IsRead /\ IsRead' /\ lookahead' # EndOfInput
    <2>1. \A v : TokenOK(v)' => v.kind \in TokenKinds
      BY DEF TokenOK, TokenType
    <2>2. lookahead'.kind \in TokenKinds
      BY <1>1, <1>4
    <2>3. NoToken.kind \notin TokenKinds /\ EndOfInput.kind \notin TokenKinds
      BY DEF TokenKinds, Constants, NoToken, EndOfInput
    <2>. QED BY <1>2, <2>2, <2>3 DEF IsRead
  <1>7. Latest'
    BY <1>1, <1>2, <1>4, <1>5, <1>6 DEF Latest
  <1>8. Yield(lookahead)' = {k \in {cursor'} : item.kind \in Constants}
    <2>1. lookahead'.kind # "exp"
      BY <1>1, <1>4 DEF TokenKinds, Constants
    <2>. QED BY <1>4, <2>1 DEF Yield
  <1>9. Whole'
    BY <1>2, <1>6, <1>8 DEF Parsed, Whole, Yield
  <1>10. OnTop'
    <2>. SUFFICES ASSUME stack # <<>>, stack[Len(stack)].kind # "exp",
                         NEW k \in (stack[Len(stack)].at + 1)..cursor',
                         file[k].kind \in TokenKinds, k # cursor'
                  PROVE  FALSE
      BY <1>6 DEF OnTop
    <2>1. stack[Len(stack)] \in TokenType \union ExpType
      BY DEF Parsed
    <2>2. stack[Len(stack)].at \in Nat
      BY <2>1, Kinds DEF TokenType
    <2>3. k \in (stack[Len(stack)].at + 1)..cursor
      BY <1>2, <2>2
    <2>. QED BY <1>6, <2>3 DEF Parsed, OnTop
  <1>11. \A v : ValueOK(v) => ValueOK(v)'
    BY <1>2, <1>4, ValueStays
  <1>. QED BY <1>3, <1>4, <1>7, <1>9, <1>10, <1>11 DEF Parsed, ValuesOK

LEMMA LexEndKeeps ==
  ASSUME PInv, Parsed, LexEnd, UNCHANGED <<file, stack>>, ~errormsg.any_errors_
  PROVE  Parsed'
  <1>1. /\ lookahead = NoToken /\ lookahead' = EndOfInput /\ cursor = Len(file)
        /\ UNCHANGED <<cursor, errormsg, string_pool_>>
    BY DEF LexEnd
  <1>2. ~IsRead /\ ~IsRead'
    BY <1>1 DEF IsRead
  <1>3. Latest' /\ Whole' /\ OnTop'
    BY <1>1, <1>2 DEF Parsed, Latest, Whole, OnTop, Seen, Stacked, Yield
  <1>4. \A v : ValueOK(v) => ValueOK(v)'
    BY <1>1, ValueStays, ScannedPart
  <1>5. Texts' = Texts /\ TokenType' = TokenType /\ ExpType' = ExpType
    BY DEF Texts, TokenType, ExpType, LeafType
  <1>. QED BY <1>1, <1>3, <1>4, <1>5 DEF Parsed, ValuesOK

-----------------------------------------------------------------------------
(* parse keeps the leaves *)

LEMMA ShiftKeeps ==
  ASSUME PInv, Parsed, Shift, UNCHANGED <<file, cursor, string_pool_>>
  PROVE  Parsed'
  <1>. DEFINE n == Len(stack)
              T == TokenType \union ExpType
  <1>1. /\ IsRead /\ stack' = Append(stack, lookahead) /\ lookahead' = NoToken
        /\ UNCHANGED errormsg
    BY DEF Shift, IsRead
  <1>2. /\ TokenOK(lookahead) /\ lookahead.at = cursor /\ lookahead \in T
        /\ stack \in Seq(T)
    BY <1>1 DEF Parsed, Latest, TokenOK
  <1>3. /\ stack' \in Seq(T) /\ n \in Nat /\ Len(stack') = n + 1
        /\ DOMAIN stack = 1..n /\ DOMAIN stack' = 1..(n + 1)
        /\ stack'[n + 1] = lookahead /\ \A i \in 1..n : stack'[i] = stack[i]
    BY <1>1, <1>2
  <1>. HIDE DEF n, T
  <1>4. \A i \in 1..(n + 1) : i \in 1..n \/ i = n + 1
    BY <1>3
  <1>5. ~IsRead' /\ lookahead' # EndOfInput
    BY <1>1, Kinds DEF IsRead
  <1>6. Latest'
    BY <1>1, <1>5 DEF Parsed, Latest
  <1>7. Yield(lookahead) \subseteq {cursor}
    BY <1>2, Kinds DEF Yield
  <1>8. Stacked \subseteq Seen /\ cursor \notin Stacked
    BY <1>1 DEF Parsed, Whole
  <1>9. \A a \in Stacked : a < cursor
    BY <1>8, ScannedPart DEF Seen
  <1>10. Seen' = Seen
    BY DEF Seen
  <1>11. Stacked' = Stacked \union Yield(lookahead)
    <2>1. Stacked' = UNION {Yield(stack'[i]) : i \in 1..(n + 1)}
      BY <1>3 DEF Stacked, Yield
    <2>2. 1..(n + 1) = 1..n \union {n + 1}
      BY <1>3
    <2>3. UNION {Yield(stack'[i]) : i \in 1..(n + 1)}
            = (UNION {Yield(stack[i]) : i \in 1..n}) \union Yield(lookahead)
      BY <1>3, <2>2
    <2>. QED BY <1>3, <2>1, <2>3 DEF Stacked
  <1>12. ASSUME NEW i \in 1..(n + 1), NEW j \in 1..(n + 1), i < j,
                NEW a \in Yield(stack'[i]), NEW b \in Yield(stack'[j])
         PROVE  a < b
    <2>1. i \in 1..n
      BY <1>3, <1>12
    <2>2. CASE j \in 1..n
      BY <1>3, <1>12, <2>1, <2>2 DEF Parsed, Whole
    <2>3. CASE j = n + 1
      <3>1. a \in Stacked
        BY <1>3, <1>12, <2>1 DEF Stacked
      <3>. QED BY <1>3, <1>7, <1>9, <1>12, <2>3, <3>1
    <2>. QED BY <1>4, <2>2, <2>3
  <1>13. Whole'
    <2>1. Seen' = Stacked'
      BY <1>1, <1>10, <1>11 DEF Parsed, Whole
    <2>2. \A i, j \in DOMAIN stack' :
            i < j => \A a \in Yield(stack'[i]), b \in Yield(stack'[j]) : a < b
      BY <1>3, <1>12
    <2>. QED BY <1>5, <2>1, <2>2 DEF Whole, Yield
  <1>14. OnTop'
    <2>1. stack'[Len(stack')] = lookahead
      BY <1>3
    <2>2. \A k \in (cursor + 1)..cursor : FALSE
      BY ScannedPart
    <2>. QED BY <1>2, <2>1, <2>2 DEF OnTop
  <1>15. \A v : ValueOK(v) => ValueOK(v)'
    BY ValueStays, ScannedPart
  <1>16. ValuesOK'
    <2>1. \A i \in 1..(n + 1) : ValueOK(stack'[i])
      BY <1>2, <1>3, <1>4 DEF Parsed, ValuesOK, ValueOK
    <2>. QED BY <1>3, <1>15, <2>1 DEF ValuesOK
  <1>17. Texts' = Texts /\ TokenType' = TokenType /\ ExpType' = ExpType
    BY DEF Texts, TokenType, ExpType, LeafType
  <1>18. string_pool_' \in Seq(Texts) /\ stack' \in Seq(TokenType \union ExpType)
    BY <1>3 DEF Parsed, T
  <1>. QED BY <1>6, <1>13, <1>14, <1>16, <1>17, <1>18 DEF Parsed

\* The last k values are replaced by an expression that stands for all they stood for.
LEMMA ReplaceKeeps ==
  ASSUME PInv, Parsed, NEW k \in 1..Len(stack), NEW e \in ExpType, LeavesOK(e.leaves),
         Yield(e) = UNION {Yield(stack[Len(stack) - k + j]) : j \in 1..k},
         stack' = Append(SubSeq(stack, 1, Len(stack) - k), e),
         UNCHANGED <<file, cursor, string_pool_, lookahead, errormsg>>
  PROVE  Parsed'
  <1>. DEFINE n == Len(stack)
              m == n - k
              s == SubSeq(stack, 1, m)
              T == TokenType \union ExpType
  <1>1. /\ stack \in Seq(T) /\ n \in Nat /\ m \in Nat /\ m < n /\ m + k = n /\ k \in Nat
        /\ DOMAIN stack = 1..n /\ e \in T
    BY DEF Parsed
  <1>2. s \in Seq(T) /\ Len(s) = m /\ \A i \in 1..m : s[i] = stack[i]
    BY <1>1
  <1>. HIDE DEF s
  <1>3. stack' = Append(s, e)
    BY DEF s
  <1>. HIDE DEF n, m, T
  <1>4. /\ stack' \in Seq(T) /\ Len(stack') = m + 1 /\ DOMAIN stack' = 1..(m + 1)
        /\ stack'[m + 1] = e /\ \A i \in 1..m : stack'[i] = stack[i]
    BY <1>1, <1>2, <1>3
  <1>5. \A i \in 1..(m + 1) : i \in 1..m \/ i = m + 1
    BY <1>1
  <1>6. /\ \A j \in 1..k : m + j \in 1..n /\ \A i \in 1..m : i < m + j
        /\ \A i \in 1..n : i \in 1..m \/ \E j \in 1..k : i = m + j
    <2>1. \A j \in 1..k : m + j \in 1..n /\ \A i \in 1..m : i < m + j
      BY <1>1
    <2>2. ASSUME NEW i \in 1..n, i \notin 1..m PROVE i - m \in 1..k /\ i = m + (i - m)
      <3>1. i \in Nat /\ m \in Nat /\ m < i
        BY <1>1, <2>2
      <3>2. i <= m + k /\ k \in Nat
        BY <1>1
      <3>3. i - m \in Nat /\ 1 <= i - m /\ i - m <= k
        BY <3>1, <3>2
      <3>. QED BY <3>1, <3>2, <3>3
    <2>. QED BY <2>1, <2>2
  <1>7. /\ \A a \in Yield(e) : \E j \in 1..k : a \in Yield(stack[m + j])
        /\ \A j \in 1..k : Yield(stack[m + j]) \subseteq Yield(e)
    BY DEF n, m
  <1>8. \A i \in 1..m : i \in 1..n
    BY <1>1
  <1>9. Stacked' = Stacked
    <2>1. Stacked' = UNION {Yield(stack'[i]) : i \in 1..(m + 1)}
      BY <1>4 DEF Stacked, Yield
    <2>2. \A a : a \in UNION {Yield(stack'[i]) : i \in 1..(m + 1)} <=>
                   (\E i \in 1..m : a \in Yield(stack[i])) \/ a \in Yield(e)
      <3>1. m + 1 \in 1..(m + 1) /\ \A i \in 1..m : i \in 1..(m + 1)
        BY <1>1
      <3>. QED BY <1>4, <1>5, <3>1
    <2>3. \A a : a \in Stacked <=> \E i \in 1..n : a \in Yield(stack[i])
      BY <1>1 DEF Stacked
    <2>4. \A a : a \in Stacked <=> (\E i \in 1..m : a \in Yield(stack[i])) \/ a \in Yield(e)
      BY <1>6, <1>7, <1>8, <2>3
    <2>. QED BY <2>1, <2>2, <2>4
  <1>10. ASSUME NEW i \in 1..(m + 1), NEW j \in 1..(m + 1), i < j,
                NEW a \in Yield(stack'[i]), NEW b \in Yield(stack'[j])
         PROVE  a < b
    <2>1. i \in 1..m /\ a \in Yield(stack[i])
      BY SMTT(30), <1>1, <1>4, <1>10
    <2>2. CASE j \in 1..m
      <3>1. b \in Yield(stack[j])
        BY <1>4, <2>2
      <3>. QED BY <1>1, <1>8, <1>10, <2>1, <2>2, <3>1 DEF Parsed, Whole
    <2>3. CASE j = m + 1
      <3>1. PICK p \in 1..k : b \in Yield(stack[m + p])
        BY <1>4, <1>7, <2>3
      <3>2. m + p \in 1..n /\ i < m + p /\ i \in 1..n
        BY <1>6, <1>8, <2>1
      <3>. QED BY <1>1, <2>1, <3>1, <3>2 DEF Parsed, Whole
    <2>. QED BY <1>5, <2>2, <2>3
  <1>11. Whole'
    <2>1. /\ \A i, j \in DOMAIN stack' :
               i < j => \A a \in Yield(stack'[i]), b \in Yield(stack'[j]) : a < b
      BY <1>4, <1>10
    <2>2. (IsRead' <=> IsRead) /\ Seen' = Seen /\ Yield(lookahead)' = Yield(lookahead)
      BY DEF IsRead, Seen, Yield
    <2>. QED BY <1>9, <2>1, <2>2 DEF Parsed, Whole, Yield
  <1>12. OnTop'
    <2>1. stack'[Len(stack')].kind = "exp"
      BY <1>4, Kinds
    <2>. QED BY <2>1 DEF OnTop
  <1>13. \A v : ValueOK(v) => ValueOK(v)'
    BY ValueStays, ScannedPart
  <1>14. ValuesOK'
    <2>1. \A i \in 1..(m + 1) : ValueOK(stack'[i])
      BY <1>1, <1>4, <1>5, <1>8 DEF Parsed, ValuesOK, ValueOK
    <2>. QED BY <1>4, <1>13, <2>1 DEF ValuesOK
  <1>15. Texts' = Texts /\ TokenType' = TokenType /\ ExpType' = ExpType
    BY DEF Texts, TokenType, ExpType, LeafType
  <1>16. string_pool_' \in Seq(Texts) /\ stack' \in Seq(TokenType \union ExpType)
    BY <1>4 DEF Parsed, T
  <1>17. Latest'
    <2>1. IsRead' <=> IsRead
      BY DEF IsRead
    <2>2. TokenOK(lookahead) => TokenOK(lookahead)'
      BY <1>15 DEF TokenOK
    <2>. QED BY <2>1, <2>2 DEF Parsed, Latest
  <1>. QED BY <1>11, <1>12, <1>14, <1>15, <1>16, <1>17 DEF Parsed

LEMMA ReduceIdKeeps ==
  ASSUME PInv, Parsed, ReduceId, UNCHANGED <<file, cursor, string_pool_>>
  PROVE  Parsed'
  <1>. DEFINE n == Len(stack)
              v == stack[n]
              ls == <<Leaf("SimpleVar", v)>>
              e == Exp(ls)
  <1>1. /\ n \in 1..n /\ n - 1 \in Nat /\ DOMAIN stack = 1..n
        /\ stack' = Append(SubSeq(stack, 1, n - 1), e)
        /\ v.kind = "ID" /\ UNCHANGED <<errormsg, lookahead>>
    <2>1. stack # <<>> /\ stack \in Seq(TokenType \union ExpType)
      BY DEF ReduceId, Parsed
    <2>2. n \in Nat /\ n # 0 /\ DOMAIN stack = 1..n
      BY <2>1
    <2>. QED BY <2>2 DEF ReduceId, Front, Last
  <1>2. TokenOK(v)
    BY <1>1, Kinds DEF Parsed, ValuesOK, ValueOK
  <1>3. /\ v.at \in Nat /\ v.at <= cursor /\ cursor \in Nat /\ errormsg.tok_pos_ = cursor
    <2>1. v.at \in 1..cursor /\ cursor \in Nat
      BY <1>2, ScannedPart DEF TokenOK
    <2>2. cursor # 0
      BY <2>1
    <2>. QED BY <2>1, <2>2 DEF Parsed, Latest
  <1>4. \A k \in (v.at + 1)..(cursor - 1) : file[k].kind \notin TokenKinds
    <2>1. stack # <<>> /\ v.kind # "exp"
      BY <1>1
    <2>2. \A k \in (v.at + 1)..(cursor - 1) : k \in (v.at + 1)..cursor /\ k # cursor
      BY <1>3
    <2>. QED BY <2>1, <2>2 DEF Parsed, OnTop
  <1>5. LeavesOK(ls) /\ {l.at : l \in Range(ls)} = {v.at}
    BY <1>2, <1>3, <1>4, LeafIs
  <1>6. Yield(v) = {v.at}
    BY <1>1 DEF Yield, Constants
  <1>. HIDE DEF ls, v
  <1>7. e \in ExpType /\ LeavesOK(e.leaves) /\ Yield(e) = {v.at}
    BY <1>5 DEF Exp, ExpType, LeavesOK, Yield
  <1>. HIDE DEF e
  <1>8. Yield(e) = UNION {Yield(stack[n - 1 + j]) : j \in 1..1}
    <2>1. \A j \in 1..1 : n - 1 + j = n
      BY <1>1
    <2>2. {Yield(stack[n - 1 + j]) : j \in 1..1} = {Yield(stack[n])}
      BY <2>1
    <2>. QED BY <1>6, <1>7, <2>2 DEF v
  <1>9. 1 \in 1..n
    BY <1>1
  <1>. HIDE DEF n
  <1>. QED BY <1>1, <1>7, <1>8, <1>9, ReplaceKeeps DEF n

LEMMA ReduceKeeps ==
  ASSUME PInv, Parsed, NEW k \in DOMAIN stack, Reduce(k),
         UNCHANGED <<file, cursor, string_pool_>>
  PROVE  Parsed'
  <1>. DEFINE n == Len(stack)
              m == n - k
              values == SubSeq(stack, m + 1, n)
              ss == [j \in 1..k |-> LeavesOf(values[j])]
              ls == FlattenSeq(ss)
              e == Exp(ls)
  <1>1. /\ n \in Nat /\ k \in Nat /\ k # 0 /\ m \in Nat /\ m + k = n /\ k \in 1..n
        /\ DOMAIN stack = 1..n
    <2>1. stack \in Seq(TokenType \union ExpType)
      BY DEF Parsed
    <2>2. n \in Nat /\ DOMAIN stack = 1..n
      BY <2>1
    <2>3. k \in 1..n
      BY <2>2
    <2>. HIDE DEF n
    <2>. QED BY <2>2, <2>3
  <1>2. stack' = Append(SubSeq(stack, 1, m), e) /\ UNCHANGED <<errormsg, lookahead>>
    BY DEF Reduce
  <1>3. \A j \in 1..k : m + j \in 1..n /\ values[j] = stack[m + j]
    <2>1. /\ m + 1 \in Int /\ n \in Int /\ n - (m + 1) + 1 = k
          /\ \A i \in (m + 1)..n : stack[i] \in TokenType \union ExpType
      <3>1. \A i \in (m + 1)..n : i \in 1..n
        BY <1>1
      <3>2. \A i \in 1..n : stack[i] \in TokenType \union ExpType
        BY DEF Parsed
      <3>3. m + 1 \in Int /\ n \in Int /\ n - (m + 1) + 1 = k
        <4>. HIDE DEF n, m
        <4>. QED BY <1>1
      <3>. QED BY <3>1, <3>2, <3>3
    <2>2. \A j \in 1..k : m + j \in 1..n /\ m + 1 + j - 1 = m + j
      BY <1>1
    <2>3. \A j \in 1..(n - (m + 1) + 1) : values[j] = stack[m + 1 + j - 1]
      <3>. HIDE DEF n, m
      <3>. QED BY <2>1, SubSeqProperties
    <2>. HIDE DEF n, m, values
    <2>. QED BY <2>1, <2>2, <2>3
  <1>. HIDE DEF values
  <1>4. \A j \in 1..k : /\ LeavesOK(ss[j])
                        /\ {l.at : l \in Range(ss[j])} = Yield(stack[m + j])
    BY <1>1, <1>3, LeavesOfIs DEF Parsed, ValuesOK
  <1>5. ss \in Seq(Seq(LeafType)) /\ Len(ss) = k
    <2>1. \A j \in 1..k : LeavesOf(values[j]) \in Seq(LeafType)
      BY <1>4 DEF LeavesOK
    <2>. QED BY <1>1, <2>1
  <1>. HIDE DEF ss, m, n
  <1>6. Flat(ls, ss, LeafType, k)
    BY <1>1, <1>5, Flattened
  <1>. HIDE DEF ls
  <1>7. \A l : l \in Range(ls) <=> \E j \in 1..k : l \in Range(ss[j])
    BY <1>6 DEF Flat
  <1>8. LeavesOK(ls)
    <2>1. \A l \in Range(ls) : OwnText(l)
      BY <1>4, <1>7 DEF LeavesOK
    <2>2. ASSUME NEW c, NEW d, Before(ls, c, d) PROVE c.at < d.at
      <3>1. CASE \E j \in 1..k : Before(ss[j], c, d)
        BY <1>4, <3>1 DEF LeavesOK, Ordered
      <3>2. ASSUME NEW i \in 1..k, NEW j \in 1..k, i < j, c \in Range(ss[i]), d \in Range(ss[j])
            PROVE  c.at < d.at
        <4>1. c.at \in Yield(stack[m + i]) /\ d.at \in Yield(stack[m + j])
          BY <1>4, <3>2
        <4>2. m + i \in DOMAIN stack /\ m + j \in DOMAIN stack /\ m + i < m + j
          BY <1>1, <1>3, <3>2
        <4>. QED BY <4>1, <4>2 DEF Parsed, Whole
      <3>. QED BY <1>6, <2>2, <3>1, <3>2 DEF Flat
    <2>. QED BY <1>6, <2>1, <2>2 DEF LeavesOK, Ordered, Flat
  <1>9. e \in ExpType /\ LeavesOK(e.leaves) /\ Yield(e) = {l.at : l \in Range(ls)}
    BY <1>8 DEF Exp, ExpType, LeavesOK, Yield
  <1>10. Yield(e) = UNION {Yield(stack[m + j]) : j \in 1..k}
    <2>1. \A a : a \in Yield(e) <=> \E l \in Range(ls) : a = l.at
      BY <1>9
    <2>2. \A j \in 1..k : \A a : a \in Yield(stack[m + j]) <=> \E l \in Range(ss[j]) : a = l.at
      BY <1>4
    <2>3. \A a : a \in Yield(e) <=> \E j \in 1..k : a \in Yield(stack[m + j])
      BY <1>7, <2>1, <2>2
    <2>. QED BY <2>3
  <1>. HIDE DEF e
  <1>. QED BY <1>1, <1>2, <1>9, <1>10, ReplaceKeeps DEF m, n

\* What is accepted stands for the whole file.
LEMMA AcceptMakes ==
  ASSUME PInv, Parsed, Accept, UNCHANGED file
  PROVE  Tree'
  <1>. DEFINE v == stack[1]
  <1>1. /\ lookahead = EndOfInput /\ Len(stack) = 1 /\ v.kind = "exp" /\ leaves' = v.leaves
    BY DEF Accept
  <1>2. DOMAIN stack = {1} /\ ValueOK(v)
    <2>1. stack \in Seq(TokenType \union ExpType)
      BY DEF Parsed
    <2>2. DOMAIN stack = 1..1 /\ 1 \in 1..1 /\ \A i \in 1..1 : i = 1
      BY <1>1, <2>1
    <2>. QED BY <2>2 DEF Parsed, ValuesOK
  <1>3. LeavesOK(v.leaves)
    BY <1>1, <1>2, Kinds DEF ValueOK
  <1>4. {l.at : l \in Range(v.leaves)} = Yield(v) /\ Stacked = Yield(v)
    BY <1>1, <1>2 DEF Yield, Stacked
  <1>5. Stacked = Seen /\ cursor = Len(file)
    BY <1>1 DEF Parsed, Whole, Latest, IsRead
  <1>6. Seen = {k \in DOMAIN file : file[k].kind \in Constants}
    BY <1>5, ScannedPart DEF Seen
  <1>7. LeafType' = LeafType /\ \A l : OwnText(l)' <=> OwnText(l)
    BY DEF LeafType, Texts, OwnText
  <1>8. LeavesOK(leaves)'
    BY <1>1, <1>3, <1>7 DEF LeavesOK
  <1>. QED BY <1>1, <1>4, <1>5, <1>6, <1>8 DEF Tree

-----------------------------------------------------------------------------
(* The leaves are the tokens *)

\* The statements at which nothing is read yet, and at which all is.
Early == (At("construct") => pc = 1) /\ (At("parse") => pc = 2)

LEMMA EarlyPlaces == PInv => Early
  BY AtPlace DEF Early, Held

LEMMA EarlyNext == PInv' => Early'
  BY EarlyPlaces, PTL

LEMMA InitLInv == ParserInit => LInv
  <1>. SUFFICES ASSUME ParserInit PROVE LInv
    OBVIOUS
  <1>1. pc = 1 /\ Early
    BY InitPInv, EarlyPlaces DEF ParserInit
  <1>. QED BY <1>1 DEF ParserInit, LInv, Fresh, Early

\* What was made stays.
LEMMA TreeStays == Tree /\ UNCHANGED <<file, leaves>> => Tree'
  <1>. SUFFICES ASSUME Tree, UNCHANGED <<file, leaves>> PROVE Tree'
    OBVIOUS
  <1>1. LeafType' = LeafType /\ \A l : OwnText(l)' <=> OwnText(l)
    BY DEF LeafType, Texts, OwnText
  <1>2. LeavesOK(leaves)'
    BY <1>1 DEF Tree, LeavesOK
  <1>. QED BY <1>2 DEF Tree

\* parse begins with nothing read.
LEMMA FreshParsed ==
  ASSUME Fresh, UNCHANGED <<file, cursor, lookahead, stack, string_pool_>>
  PROVE  Parsed'
  <1>1. /\ cursor' = 0 /\ lookahead' = NoToken /\ stack' = <<>> /\ string_pool_' = <<>>
    BY DEF Fresh
  <1>2. <<>> \in Seq(TokenType' \union ExpType') /\ <<>> \in Seq(Texts') /\ DOMAIN <<>> = {}
        /\ 1..0 = {}
    OBVIOUS
  <1>3. ~IsRead' /\ lookahead' # EndOfInput
    BY <1>1, Kinds DEF IsRead
  <1>4. Seen' = {} /\ Stacked' = {}
    BY <1>1, <1>2 DEF Seen, Stacked
  <1>. QED BY <1>1, <1>2, <1>3, <1>4 DEF Parsed, ValuesOK, Latest, Whole, OnTop

LEMMA StepLInv == PInv /\ PInv' /\ LInv /\ [ParserNext]_parserVars => LInv'
  <1>. SUFFICES ASSUME PInv, PInv', LInv, [ParserNext]_parserVars PROVE LInv'
    OBVIOUS
  <1>1. Early /\ Early'
    BY EarlyPlaces, EarlyNext
  <1>2. CASE Scan
    <2>1. /\ UNCHANGED <<driver, file, stack, leaves, treeAt>>
          /\ At("parse") /\ status = "running"
      BY <1>2 DEF Scan, Pass, Unclosed, Lex, LexHuge, LexEnd, Matches, At
    <2>2. pc = 2 /\ Parsed
      BY <1>1, <2>1 DEF Early, LInv
    <2>3. UNCHANGED pc
      BY <1>2 DEF Scan, Pass, Unclosed, Lex, LexHuge, LexEnd, Exit
    <2>4. ~At("construct")'
      BY <1>1, <2>2, <2>3 DEF Early
    <2>5. At("parse")' => Parsed'
      <3>. SUFFICES ASSUME status' = "running" PROVE Parsed'
        BY DEF At
      <3>1. ASSUME NEW item, Pass(item) PROVE Parsed'
        BY <2>1, <2>2, <3>1, PassKeeps
      <3>2. ASSUME NEW item, Lex(item) PROVE Parsed'
        BY <2>1, <2>2, <3>2, LexKeeps
      <3>3. \A item : ~Unclosed(item) /\ ~LexHuge(item)
        BY DEF Unclosed, LexHuge, Exit
      <3>4. CASE LexEnd
        <4>1. ~errormsg.any_errors_
          BY <3>4 DEF LexEnd, Exit
        <4>. QED BY <2>1, <2>2, <3>4, <4>1, LexEndKeeps
      <3>. QED BY <1>2, <3>1, <3>2, <3>3, <3>4 DEF Scan
    <2>. QED BY <2>1, <2>4, <2>5, TreeStays DEF LInv
  <1>3. CASE Parse
    <2>1. /\ UNCHANGED <<driver, file, cursor, string_pool_>>
          /\ At("parse") /\ status = "running"
      BY <1>3 DEF Parse, Shift, ReduceId, Reduce, Accept, SyntaxError, NullErrormsg, Parsing, At
    <2>2. pc = 2 /\ Parsed /\ treeAt = "nobody" /\ errormsgAt = "scanner"
      BY <1>1, <2>1, AtPlace DEF Early, LInv, Held
    <2>3. CASE Shift \/ ReduceId \/ \E k \in DOMAIN stack : Reduce(k)
      <3>1. UNCHANGED <<pc, status, leaves, treeAt>>
        BY <2>3 DEF Shift, ReduceId, Reduce
      <3>2. ~At("construct")'
        BY <1>1, <2>2, <3>1 DEF Early
      <3>3. Parsed'
        BY <2>1, <2>2, <2>3, ShiftKeeps, ReduceIdKeeps, ReduceKeeps
      <3>. QED BY <2>2, <3>1, <3>2, <3>3 DEF LInv
    <2>4. CASE Accept
      <3>1. pc' = pc + 1
        BY <2>4 DEF Accept, Continue
      <3>2. ~At("construct")' /\ ~At("parse")'
        BY <1>1, <2>2, <3>1 DEF Early
      <3>. QED BY <2>1, <2>2, <2>4, <3>2, AcceptMakes DEF LInv
    <2>5. CASE SyntaxError
      <3>1. status' # "running" /\ treeAt' = "nobody"
        BY <2>2, <2>5 DEF SyntaxError, Exit
      <3>. QED BY <3>1 DEF LInv, At
    <2>6. ~NullErrormsg
      BY <2>2 DEF NullErrormsg
    <2>. QED BY <1>3, <2>3, <2>4, <2>5, <2>6 DEF Parse
  <1>4. CASE Main
    <2>1. UNCHANGED <<driver, file, cursor, lookahead, stack, leaves>>
      BY <1>4 DEF Main
    <2>2. CASE Construct
      <3>1. /\ Fresh /\ pc = 1 /\ UNCHANGED <<treeAt, string_pool_>>
        BY <1>1, <2>2 DEF Construct, LInv, Early
      <3>2. status' # "running" \/ pc' = pc + 1
        BY <2>2 DEF Construct, Exit, Continue
      <3>3. ~At("construct")'
        BY <1>1, <3>1, <3>2 DEF Early, At
      <3>4. Parsed'
        BY <2>1, <3>1, FreshParsed
      <3>. QED BY <2>1, <3>1, <3>3, <3>4, TreeStays DEF LInv
    <2>3. CASE ~Construct
      <3>1. \/ TransferErrormsg \/ TransferAbsynTree \/ PrintTree
            \/ EndOfBlock \/ Translate \/ Return
        BY <1>4, <2>3 DEF Main
      <3>2. pc \in Nat /\ pc > 2 /\ (status' # "running" \/ pc' = pc + 1)
        <4>1. \/ At("transfer errormsg") \/ At("transfer tree") \/ At("print")
              \/ At("end of block") \/ At("translate") \/ At("return")
          BY <3>1 DEF TransferErrormsg, TransferAbsynTree, PrintTree, EndOfBlock, Translate, Return
        <4>2. pc \in {3, 4, 5, 6, 7}
          BY <4>1, AtPlace DEF Held
        <4>3. status' # "running" \/ pc' = pc + 1
          BY <3>1 DEF TransferErrormsg, TransferAbsynTree, PrintTree, EndOfBlock, Translate,
                      Return, Exit, Continue
        <4>. QED BY <4>2, <4>3
      <3>3. ~At("construct")' /\ ~At("parse")'
        BY <1>1, <3>2 DEF Early, At
      <3>4. treeAt' # "nobody" => treeAt # "nobody"
        BY <3>1 DEF TransferErrormsg, TransferAbsynTree, PrintTree, EndOfBlock, Translate, Return
      <3>. QED BY <2>1, <3>3, <3>4, TreeStays DEF LInv
    <2>. QED BY <2>2, <2>3
  <1>5. CASE UNCHANGED parserVars
    <2>1. UNCHANGED <<driver, pc, status, cursor, file, errormsg, lookahead, stack, string_pool_,
                      leaves, treeAt>>
      BY <1>5 DEF parserVars
    <2>2. /\ At("construct")' <=> At("construct")
          /\ At("parse")' <=> At("parse")
      BY <2>1 DEF At
    <2>3. Fresh' <=> Fresh
      BY <2>1 DEF Fresh
    <2>4. Parsed => Parsed'
      <3>1. \A v : ValueOK(v) => ValueOK(v)'
        BY <2>1, ValueStays, ScannedPart
      <3>2. Texts' = Texts /\ TokenType' = TokenType /\ ExpType' = ExpType
        BY <2>1 DEF Texts, TokenType, ExpType, LeafType
      <3>3. (IsRead' <=> IsRead) /\ Seen' = Seen /\ Stacked' = Stacked
        BY <2>1 DEF IsRead, Seen, Stacked, Yield
      <3>4. TokenOK(lookahead) => TokenOK(lookahead)'
        BY <2>1, <3>2 DEF TokenOK
      <3>. QED BY <2>1, <3>1, <3>2, <3>3, <3>4
               DEF Parsed, ValuesOK, Latest, Whole, OnTop, Yield
    <2>. QED BY <2>1, <2>2, <2>3, <2>4, TreeStays DEF LInv
  <1>. QED BY <1>2, <1>3, <1>4, <1>5 DEF ParserNext, Ended

\* Whatever the grammar, and whatever is read between a token and the rule that uses it,
\* every value leads to the text of its token, and the leaves of the tree are the names
\* and constants of the file, each once, in order, with its own text (Parser::lex and
\* string_pool_, StringExp's copy, the rules of tiger.y).
THEOREM LeavesAreTokensAlways == ParserSpec => []LeavesAreTokens
  <1>1. LInv => LeavesAreTokens
    <2>. SUFFICES ASSUME LInv PROVE LeavesAreTokens
      OBVIOUS
    <2>1. ASSUME At("parse"), NEW v \in {lookahead} \union Range(stack), v.kind = "STRING"
          PROVE  string_pool_[v.sval] = file[v.at].text
      <3>1. Parsed
        BY <2>1 DEF LInv
      <3>2. CASE v = lookahead
        <4>1. IsRead
          <5>1. NoToken.kind # "STRING" /\ EndOfInput.kind # "STRING"
            BY DEF NoToken, EndOfInput
          <5>. QED BY <2>1, <3>2, <5>1 DEF IsRead
        <4>. QED BY <2>1, <3>1, <3>2, <4>1 DEF Parsed, Latest, TokenOK
      <3>3. CASE v \in Range(stack)
        <4>1. ValueOK(v) /\ v.kind # "exp"
          BY <2>1, <3>1, <3>3 DEF Parsed, ValuesOK, Range
        <4>. QED BY <2>1, <4>1, Kinds DEF ValueOK, TokenOK
      <3>. QED BY <3>2, <3>3
    <2>2. ASSUME At("parse"), NEW v \in Range(stack), v.kind = "exp"
          PROVE  \A l \in Range(v.leaves) : OwnText(l)
      <3>1. ValueOK(v)
        BY <2>2 DEF LInv, Parsed, ValuesOK, Range
      <3>. QED BY <2>2, <3>1, Kinds DEF ValueOK, LeavesOK
    <2>3. ASSUME treeAt # "nobody"
          PROVE  /\ \A l \in Range(leaves) : OwnText(l)
                 /\ \A i, j \in DOMAIN leaves : i < j => leaves[i].at < leaves[j].at
                 /\ {l.at : l \in Range(leaves)} = {k \in DOMAIN file : file[k].kind \in Constants}
      <3>1. Tree
        BY <2>3 DEF LInv
      <3>2. ASSUME NEW i \in DOMAIN leaves, NEW j \in DOMAIN leaves, i < j
            PROVE  leaves[i].at < leaves[j].at
        <4>1. Before(leaves, leaves[i], leaves[j])
          BY <3>2 DEF Before
        <4>. QED BY <3>1, <4>1 DEF Tree, LeavesOK, Ordered
      <3>. QED BY <3>1, <3>2 DEF Tree, LeavesOK
    <2>. QED BY <2>1, <2>2, <2>3 DEF LeavesAreTokens
  <1>2. ParserSpec => []LInv
    BY InitLInv, StepLInv, ParserInvariance, PTL DEF ParserSpec
  <1>. QED BY <1>1, <1>2, PTL
=============================================================================
