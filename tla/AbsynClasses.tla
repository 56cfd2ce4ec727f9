---------------------------- MODULE AbsynClasses ----------------------------
(***************************************************************************)
(* The classes of the syntax tree (src/tiger/absyn/absyn.h) and the        *)
(* pointers their nodes hold, for Absyn and AbsynPrint.                    *)
(***************************************************************************)

\* The pointers each constructor takes, in order.
Params ==
  [SimpleVar |-> <<"Symbol">>, FieldVar |-> <<"Var", "Symbol">>,
   SubscriptVar |-> <<"Var", "Exp">>,
   VarExp |-> <<"Var">>, NilExp |-> <<>>, IntExp |-> <<>>, StringExp |-> <<>>,
   CallExp |-> <<"Symbol", "ExpList">>, OpExp |-> <<"Exp", "Exp">>,
   RecordExp |-> <<"Symbol", "EFieldList">>, SeqExp |-> <<"ExpList">>,
   AssignExp |-> <<"Var", "Exp">>, IfExp |-> <<"Exp", "Exp", "Exp">>,
   WhileExp |-> <<"Exp", "Exp">>, ForExp |-> <<"Symbol", "Exp", "Exp", "Exp">>,
   BreakExp |-> <<>>, LetExp |-> <<"DecList", "Exp">>,
   ArrayExp |-> <<"Symbol", "Exp", "Exp">>, VoidExp |-> <<>>,
   FunctionDec |-> <<"FunDecList">>, VarDec |-> <<"Symbol", "Symbol", "Exp">>,
   TypeDec |-> <<"NameAndTyList">>,
   NameTy |-> <<"Symbol">>, RecordTy |-> <<"FieldList">>, ArrayTy |-> <<"Symbol">>,
   Field |-> <<"Symbol", "Symbol">>,
   FunDec |-> <<"Symbol", "FieldList", "Symbol", "Exp">>,
   NameAndTy |-> <<"Symbol", "Ty">>, EField |-> <<"Symbol", "Exp">>]

\* The parts a program may lack: the else of an if, the types of a variable and of a
\* function's result.
Optional == {<<"IfExp", 3>>, <<"VarDec", 2>>, <<"FunDec", 3>>}

Vars == {"SimpleVar", "FieldVar", "SubscriptVar"}
Exps == {"VarExp", "NilExp", "IntExp", "StringExp", "CallExp", "OpExp", "RecordExp",
         "SeqExp", "AssignExp", "IfExp", "WhileExp", "ForExp", "BreakExp", "LetExp",
         "ArrayExp", "VoidExp"}
Decs == {"FunctionDec", "VarDec", "TypeDec"}
Tys == {"NameTy", "RecordTy", "ArrayTy"}

\* The base class of a class.
Base(c) == IF c \in Vars THEN "Var" ELSE IF c \in Exps THEN "Exp"
           ELSE IF c \in Decs THEN "Dec" ELSE IF c \in Tys THEN "Ty" ELSE c

\* The lists, and what each is a list of.
ElementOf == [ExpList |-> "Exp", FieldList |-> "Field", FunDecList |-> "FunDec",
              DecList |-> "Dec", NameAndTyList |-> "NameAndTy", EFieldList |-> "EField"]
Lists == DOMAIN ElementOf
=============================================================================
