----------------------------- MODULE MCScanner ------------------------------
(***************************************************************************)
(* Instances of Scanner for TLC: every source file up to a length over a   *)
(* small alphabet. The column an offset has, which one property is about,  *)
(* is read off the file.                                                   *)
(***************************************************************************)
EXTENDS Scanner

FilesOver(alphabet, max) == UNION {[1..n -> alphabet] : n \in 0..max}

\* i f 9 : = / newline " !  --  words, numbers, one- and two-character symbols.
\* i space tab  --  blanks, which separate words.
TokenFiles == FilesOver({105, 102, 57, 58, 61, NL, 33}, 5) \union FilesOver({105} \union Blank, 4)
\* / * newline "  --  comments, nested and unterminated, over several lines.
CommentFiles == FilesOver({Slash, Star, NL, Quote}, 7)
\* Strings with one escape of each numeric kind: "\ddd", "\^C", "\@" and "\t".
EscapeFiles ==
  {<<Quote, Backslash>> \o s \o t : s \in FilesOver({48, 51, 57, Caret, AtSign, LowerT, 65}, 3),
                                    t \in {<<>>, <<Quote>>, <<48, Quote>>}}
\* " \ newline n a  --  strings, escapes and ignore sequences.
StringFiles ==
  FilesOver({Quote, Backslash, NL, LowerN, 97}, 6) \union EscapeFiles
Files == TokenFiles \union CommentFiles \union StringFiles
If == {<<105, 102>>}

-----------------------------------------------------------------------------
(* A reference definition *)

\* The column an offset has on its line.
ColumnOf(k) ==
  LET breaks == {0} \union {i \in 1..(k - 1) : input[i] = NL}
  IN  k - (CHOOSE b \in breaks : \A c \in breaks : c <= b)

-----------------------------------------------------------------------------
(* Properties *)

\* The scan of every file ends.
Terminates == <>(status # "running")

\* scripts/grade.sh:80 expects the error of test49.tig at "5.18", the column counted
\* from the beginning of the line: the column shown for a token is its column.
ColumnExact ==
  Uncounted = 0 =>
    \A i \in DOMAIN tokens :
      Location(errormsg_, tokens[i].pos).col = ColumnOf(tokens[i].at)

\* doc/lab2_doc.md says of the escape \n in a string that it must make errormsg_
\* begin a line.
EscapeNewlineCounts ==
  [][StrEscapeNewline => errormsg_'.line_num_ = errormsg_.line_num_ + 1]_vars
=============================================================================
