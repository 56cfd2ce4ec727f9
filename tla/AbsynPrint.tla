----------------------------- MODULE AbsynPrint -----------------------------
(***************************************************************************)
(* Print of the syntax tree (src/tiger/absyn/absyn.cc), which test_parse.cc *)
(* calls once on the tree it has parsed and whose text scripts/grade.sh    *)
(* compares with that of a reference tree.                                 *)
(*                                                                         *)
(* A node is its class, its pointers in the order of the constructor's     *)
(* parameters, and in leaf the one thing it holds beside them: val_, str_, *)
(* oper_ or escape_; a symbol is a node whose leaf is its name.  The text  *)
(* is the sequence of what is written: a blank, a newline, a parenthesis,  *)
(* a comma, or a word of any length.  What the Print methods have in       *)
(* common is said once, and tables hold what they differ in.               *)
(* A definition whose comment begins with "Slip" is a variant of the one   *)
(* after it, with a mistake in it.                                         *)
(***************************************************************************)
EXTENDS AbsynClasses, Integers, FiniteSets, SequencesExt

CONSTANTS
  Trees,    \* the nodes there are
  Height,   \* how deep the nodes below each are nested
  Roots,    \* the trees printed
  Names     \* what names, integers and the texts of strings are printed as

Null == [class |-> "null", parts |-> <<>>, leaf |-> ""]
Symbol(name) == [class |-> "Symbol", parts |-> <<>>, leaf |-> name]

\* The parts that Print looks at before it prints them, and that a constructor takes as
\* null.  The other parts are read through unlooked at; no tree has a null there.
MayBeNull ==
  Optional \union
  {<<"RecordExp", 2>>, <<"WhileExp", 1>>, <<"WhileExp", 2>>, <<"ForExp", 2>>,
   <<"ForExp", 3>>, <<"ForExp", 4>>, <<"LetExp", 1>>, <<"LetExp", 2>>,
   <<"ArrayExp", 2>>, <<"ArrayExp", 3>>, <<"FunctionDec", 1>>, <<"VarDec", 3>>,
   <<"TypeDec", 1>>, <<"RecordTy", 1>>, <<"FunDec", 4>>}

\* The word each class prints.
Kind ==
  [SimpleVar |-> "simpleVar", FieldVar |-> "fieldVar", SubscriptVar |-> "subscriptVar",
   VarExp |-> "varExp", NilExp |-> "nilExp", IntExp |-> "intExp",
   StringExp |-> "stringExp", CallExp |-> "callExp", OpExp |-> "opExp",
   RecordExp |-> "recordExp", SeqExp |-> "seqExp", AssignExp |-> "assignExp",
   IfExp |-> "iffExp", WhileExp |-> "whileExp", ForExp |-> "forExp",
   BreakExp |-> "breakExp", LetExp |-> "letExp", ArrayExp |-> "arrayExp",
   VoidExp |-> "voidExp", FunctionDec |-> "functionDec", VarDec |-> "varDec",
   TypeDec |-> "typeDec", NameTy |-> "nameTy", RecordTy |-> "recordTy",
   ArrayTy |-> "arrayTy", Field |-> "field", FunDec |-> "fundec",
   NameAndTy |-> "nameAndTy", EField |-> "efield", FieldList |-> "fieldList",
   ExpList |-> "expList", FunDecList |-> "fundecList", DecList |-> "decList",
   NameAndTyList |-> "nameAndTyList", EFieldList |-> "efieldList"]

\* The enumeration Oper, and the names PrintOper finds at its values.
Oper == <<"PLUS_OP", "MINUS_OP", "TIMES_OP", "DIVIDE_OP", "EQ_OP", "NEQ_OP", "LT_OP",
          "LE_OP", "GT_OP", "GE_OP">>
str_oper == <<"PLUS", "MINUS", "TIMES", "DIVIDE", "EQUAL", "NOTEQUAL", "LESSTHAN",
              "LESSEQ", "GREAT", "GREATEQ">>
PrintOper(d) == str_oper[CHOOSE i \in DOMAIN Oper : Oper[i] = d]

\* What is not a word.
Marks == {" ", "\n", "(", ")", ","}

\* What a node of class c may hold beside its parts.
LeafOf(c) ==
  CASE c \in {"Symbol", "IntExp", "StringExp"} -> Names
    [] c = "OpExp" -> {Oper[i] : i \in DOMAIN Oper}
    [] c \in {"ForExp", "VarDec", "Field"} -> {"TRUE", "FALSE"}
    [] OTHER -> {""}

\* p can stand where a constructor takes a pointer to a sort s.
Fits(p, s) ==
  IF s = "Symbol" THEN p = Symbol(p.leaf) /\ p.leaf \in LeafOf("Symbol")
  ELSE p \in Trees /\ Base(p.class) = s

\* What the constructors and Append take.
Sort(n, j) == IF n.class \in Lists THEN ElementOf[n.class] ELSE Params[n.class][j]
MayLack(n, j) == n.class = "EFieldList" \/ <<n.class, j>> \in MayBeNull
WellMade(n) ==
  /\ n = [class |-> n.class, parts |-> n.parts, leaf |-> n.leaf]
  /\ n.class \in DOMAIN Kind /\ n.leaf \in LeafOf(n.class)
  /\ n.parts \in Seq({n.parts[j] : j \in DOMAIN n.parts})
  /\ n.class \notin Lists => Len(n.parts) = Len(Params[n.class])
  /\ \A j \in DOMAIN n.parts :
       Fits(n.parts[j], Sort(n, j)) \/ (n.parts[j] = Null /\ MayLack(n, j))

\* The nodes that n points to.
Children(n) == {n.parts[j] : j \in DOMAIN n.parts} \intersect Trees

\* A node is made after its parts.
ASSUME PrintTreesAssumption ==
  /\ Height \in [Trees -> Nat]
  /\ \A n \in Trees : WellMade(n) /\ \A c \in Children(n) : Height[c] < Height[n]
ASSUME NamesAssumption == Names \intersect Marks = {}
ASSUME RootsAssumption == Roots \subseteq {n \in Trees : n.class \in Exps}

Indent(d) == [i \in 1..(d + 1) |-> " "]

Named(c) == Params[c] # <<>> /\ Params[c][1] = "Symbol"

\* What is on the line of the class: a value, or the name that comes first.
HeadWords(n) ==
  CASE n.class \in {"IntExp", "StringExp"} -> <<n.leaf>>
    [] Named(n.class) -> <<n.parts[1].leaf>>
    [] OTHER -> <<>>

\* A part at depth d: a null one prints nothing.  print is PrintNode.
PrintPart(print, p, d) ==
  CASE p = Null -> <<>>
    [] p.class = "Symbol" -> Indent(d) \o <<p.leaf>>
    [] OTHER -> print[p][d]

\* Slip: the comma is printed only with the part before it.
ShownAlone(n) == SelectSeq(IF Named(n.class) THEN Tail(n.parts) ELSE n.parts, LAMBDA p : p # Null)

\* The parts that are not on the line of the class; an absent optional part is left out.
Shown(n) ==
  FlattenSeq([j \in DOMAIN n.parts |->
                IF \/ j = 1 /\ Named(n.class)
                   \/ n.parts[j] = Null /\ <<n.class, j>> \in Optional
                THEN <<>> ELSE <<n.parts[j]>>])

\* What has a line of its own: the operator before the parts, the escape after them.
Below(n) ==
  (IF n.class = "OpExp" THEN <<Symbol(PrintOper(n.leaf))>> ELSE <<>>)
  \o Shown(n)
  \o (IF n.class \in {"ForExp", "VarDec", "Field"} THEN <<Symbol(n.leaf)>> ELSE <<>>)

\* These lines, with a comma after each but the last.
Lines(print, ps, d) ==
  FlattenSeq([i \in DOMAIN ps |->
                (IF i = 1 THEN <<>> ELSE <<",", "\n">>) \o PrintPart(print, ps[i], d)])

\* The end of a list.
Closing(n) == [i \in 1..(Len(n.parts) + 1) |-> ")"]

\* Slip: d++ for ++d.
ElementLate(print, e, d) ==
  IF e = Null THEN <<"efield", "(", ")">> ELSE PrintPart(print, e, d - 1)

\* An element.  A null one, which only an EFieldList looks for, is not indented.
Element(print, e, d) ==
  IF e = Null THEN <<"efield", "(", ")">> ELSE PrintPart(print, e, d)

\* A list: each element is followed by the list of the rest, one deeper.
PrintList(print, n, d) ==
  LET open == <<Kind[n.class], "(">>
  IN  Indent(d) \o open
      \o FlattenSeq([i \in DOMAIN n.parts |->
           <<"\n">> \o Element(print, n.parts[i], d + i)
             \o <<",", "\n">> \o Indent(d + i) \o open])
      \o Closing(n)

\* What is between the line of the class and those below it.
Break(n) == (IF HeadWords(n) = <<>> THEN <<>> ELSE <<",">>) \o <<"\n">>

\* Print(out, d) of any class.
PrintNode[n \in Trees] ==
  [d \in Nat |->
     IF n.class \in Lists THEN PrintList(PrintNode, n, d)
     ELSE Indent(d) \o <<Kind[n.class], "(">> \o HeadWords(n)
          \o (IF Below(n) = <<>> THEN <<>> ELSE Break(n))
          \o Lines(PrintNode, Below(n), d + 1) \o <<")">>]

-----------------------------------------------------------------------------

VARIABLES
  tree,     \* root_
  out       \* what was printed; nothing is before

PrintInit == tree \in Roots /\ out = <<>>

\* AbsynTree::Print(out)
PrintTree ==
  /\ out = <<>>
  /\ out' = PrintNode[tree][0]
  /\ UNCHANGED tree

Done == out # <<>> /\ UNCHANGED <<tree, out>>

PrintNext == PrintTree \/ Done

PrintSpec == PrintInit /\ [][PrintNext]_<<tree, out>>

-----------------------------------------------------------------------------
(* Properties *)

\* The parentheses open before out[i].
Opened(i) ==
  Cardinality({j \in 1..(i - 1) : out[j] = "("}) - Cardinality({j \in 1..(i - 1) : out[j] = ")"})

\* Whatever the nesting, a line begins with one blank for each parenthesis open before it
\* and one more, so that the depth handed down, and that counted up in a list, are those
\* of the text; and at its end none is open.  A line for an absent part has no blanks,
\* nor has an absent field of a record.
Indented ==
  /\ Opened(Len(out) + 1) = 0
  /\ \A i \in DOMAIN out :
       (i = 1 \/ out[i - 1] = "\n") /\ out[i] \notin {",", ")"}
         /\ ~(i + 2 \in DOMAIN out /\ SubSeq(out, i, i + 2) = <<"efield", "(", ")">>)
       => LET first == i + Opened(i) + 1
          IN  first \in DOMAIN out /\ out[first] # " " /\ \A j \in i..(first - 1) : out[j] = " "

\* The text without its layout, which diff -w does not look at.
Words(text) ==
  FlattenSeq([i \in DOMAIN text |-> IF text[i] \in {" ", "\n"} THEN <<>> ELSE <<text[i]>>])

Printed == {<<t, Words(PrintNode[t][0])>> : t \in Roots}

\* The text has in it the tree it was printed from, absent parts, lists and all, even
\* without its blanks and newlines: no two trees print alike, and one that differs from
\* the reference never passes the comparison of grade.sh.
NoTwoAlike ==
  out # <<>> => LET words == Words(out) IN \A p \in Printed : p[2] = words => p[1] = tree
=============================================================================
