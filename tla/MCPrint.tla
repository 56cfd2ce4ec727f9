------------------------------- MODULE MCPrint ------------------------------
(***************************************************************************)
(* Trees for TLC: expressions of every class over the smallest parts of    *)
(* every kind, and over larger parts one level at a time, so that lists of *)
(* up to two elements, absent parts and every operator occur inside one    *)
(* another.                                                                *)
(***************************************************************************)
EXTENDS AbsynPrint

Node(c, parts, leaf) == [class |-> c, parts |-> parts, leaf |-> leaf]

AllNames == {"a", "7", "text", "TRUE"}

Leaves(c) ==
  CASE c = "IntExp" -> {"7"}
    [] c = "StringExp" -> {"text", "TRUE"}
    [] c = "OpExp" -> ToSet(Oper)
    [] c \in {"ForExp", "VarDec", "Field"} -> {"TRUE", "FALSE"}
    [] OTHER -> {""}

\* The smallest parts: two names, one of them a word that Print prints for an escape.
a == Node("SimpleVar", <<Symbol("a")>>, "")
seven == Node("IntExp", <<>>, "7")
Smallest ==
  [Symbol |-> {Symbol("a"), Symbol("TRUE")}, Var |-> {a},
   Exp |-> {seven, Node("VarExp", <<a>>, "")},
   Dec |-> {Node("VarDec", <<Symbol("a"), Null, seven>>, "TRUE")},
   Ty |-> {Node("NameTy", <<Symbol("a")>>, "")},
   Field |-> {Node("Field", <<Symbol("a"), Symbol("a")>>, "TRUE")},
   FunDec |-> {Node("FunDec", <<Symbol("a"), Node("FieldList", <<>>, ""), Null, seven>>, "")},
   NameAndTy |-> {Node("NameAndTy", <<Symbol("a"), Node("NameTy", <<Symbol("a")>>, "")>>, "")},
   EField |-> {Node("EField", <<Symbol("a"), seven>>, "")},
   ExpList |-> {Node("ExpList", <<>>, "")}, FieldList |-> {Node("FieldList", <<>>, "")},
   DecList |-> {Node("DecList", <<>>, "")}, EFieldList |-> {Node("EFieldList", <<>>, "")},
   FunDecList |-> {}, NameAndTyList |-> {}]

\* The nodes of class c whose parts are in pool; for a list, one that is empty if it can
\* be made so, or has one element of pool and perhaps a smallest one after it.
NodesOf(c, pool) ==
  LET choices(j) == pool[Params[c][j]] \union (IF <<c, j>> \in MayBeNull THEN {Null} ELSE {})
      tuples == FoldLeftDomain(LAMBDA ts, j : {Append(t, p) : t \in ts, p \in choices(j)},
                               {<<>>}, Params[c])
      elements == pool[ElementOf[c]] \union (IF c = "EFieldList" THEN {Null} ELSE {})
      lists == (IF c \in {"FunDecList", "NameAndTyList"} THEN {} ELSE {<<>>})
               \union {<<e>> : e \in elements} \union (elements \X Smallest[ElementOf[c]])
  IN  {Node(c, parts, leaf) : parts \in IF c \in Lists THEN lists ELSE tuples,
                              leaf \in Leaves(c)}

\* pool with those parts of sort s that can be made out of pool.
Grown(pool, s) ==
  [pool EXCEPT ![s] = UNION {NodesOf(c, pool) : c \in {k \in DOMAIN Kind : Base(k) = s}}]

\* Declarations down to the fields of record types and of functions.
GrownDecs ==
  FoldLeft(Grown, Smallest, <<"Field", "FieldList", "Ty", "NameAndTy", "NameAndTyList",
                              "FunDec", "FunDecList", "Dec", "DecList">>)

\* Lists and variables over any expression over the smallest parts; an if with and
\* without an else, and a while without anything, for the other places.
GrownExps ==
  [FoldLeft(Grown, Smallest, <<"Exp", "Var", "EField", "ExpList", "EFieldList">>)
     EXCEPT !["Exp"] = {seven, Node("IfExp", <<seven, seven, Null>>, ""),
                        Node("IfExp", <<seven, seven, seven>>, ""),
                        Node("WhileExp", <<Null, Null>>, "")}]

Sample == NodesOf("LetExp", GrownDecs) \union UNION {NodesOf(c, GrownExps) : c \in Exps}

\* The nodes of all these trees, and how deep each is.
RECURSIVE WithParts(_), Deep(_)
PartsIn(n) == {n.parts[j] : j \in {i \in DOMAIN n.parts : n.parts[i].class \in DOMAIN Kind}}
WithParts(S) ==
  LET parts == UNION {PartsIn(n) : n \in S}
  IN  IF parts = {} THEN S ELSE S \union WithParts(parts)
Deep(n) == Max({0} \union {1 + Deep(c) : c \in PartsIn(n)})

SampleTrees == WithParts(Sample)
SampleHeights == [n \in SampleTrees |-> Deep(n)]

\* The constants, as names of the above: TLC evaluates a definition once, but one that
\* stands for a constant again and again.
AllRoots == Sample
AllTrees == SampleTrees
Heights == SampleHeights
=============================================================================
