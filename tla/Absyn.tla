-------------------------------- MODULE Absyn -------------------------------
(***************************************************************************)
(* The life of a syntax tree (src/tiger/absyn/absyn.h and absyn.cc) in     *)
(* test_parse.cc: the parser builds it from the bottom, out of symbols     *)
(* that UniqueSymbol returns, and the end of main destroys it, each        *)
(* destructor deleting what its node points to.                            *)
(*                                                                         *)
(* The k-th node made is at address k of nodes.  An entry is a pointer     *)
(* with the class it points to, as the parser's values have; stack holds   *)
(* the values of the parser, whose grammar has few rules yet: any          *)
(* constructor may take the values last made, and each value is taken      *)
(* once.  pos_, oper_, val_, str_ and escape_ are left out; Print is in    *)
(* AbsynPrint.  A definition whose comment begins with "Slip" is a variant *)
(* of the one after it, with a mistake in it.                              *)
(***************************************************************************)
EXTENDS Symbols, AbsynClasses

CONSTANTS
  Class,    \* the classes of the instance, out of DOMAIN Params
  MaxNodes, \* bound: the nodes of a tree
  MaxStack  \* bound: the values the parser has when it takes one more

ASSUME ClassAssumption == Class \subseteq DOMAIN Params \union Lists

VARIABLES
  nodes,    \* class and pointers of each node
  stack,    \* the parser's values
  phase,    \* "parsing", "deleting", "done" or "undefined"
  pending,  \* what is still to delete, the next first
  freed     \* the entries deleted

absynVars == <<hashtable, name_, nodes, stack, phase, pending, freed>>

\* The lists that can be made empty.
MayBeEmpty == {"ExpList", "FieldList", "DecList", "EFieldList"}

\* Slip: the destructor of AssignExp is the default one.
OwnersLessAssign ==
  (Vars \union Exps \union Decs \union Tys \union {"EField"}) \ {"ForExp", "AssignExp"}

\* The classes whose destructor deletes all the node's pointers.  That of the others,
\* ForExp, the lists and three of the things they are lists of, deletes none.
Owners == (Vars \union Exps \union Decs \union Tys \union {"EField"}) \ {"ForExp"}

Null == [kind |-> "null", at |-> 0]

AbsynInit ==
  /\ SymbolsInit
  /\ nodes = <<>> /\ stack = <<>> /\ phase = "parsing" /\ pending = <<>> /\ freed = {}

-----------------------------------------------------------------------------
(* Parsing *)

\* The last k values are taken and e takes their place.
Replace(k, e) == stack' = Append(SubSeq(stack, 1, Len(stack) - k), e)

\* The parser reads an identifier.
LexId(n) ==
  /\ phase = "parsing" /\ Len(stack) < MaxStack
  /\ \E a \in 1..(Len(name_) + 1) :
       UniqueSymbol(n, a) /\ Replace(0, [kind |-> "Symbol", at |-> a])
  /\ UNCHANGED <<nodes, phase, pending, freed>>

\* A part is left out.
Absent ==
  /\ phase = "parsing" /\ Len(stack) < MaxStack
  /\ Replace(0, Null)
  /\ UNCHANGED <<hashtable, name_, nodes, phase, pending, freed>>

\* Slip: the new value points to the node made before.
MakeOff(c, fields, k) ==
  /\ Len(nodes) < MaxNodes
  /\ nodes' = Append(nodes, [class |-> c, fields |-> fields])
  /\ Replace(k, [kind |-> Base(c), at |-> Len(nodes)])
  /\ UNCHANGED <<hashtable, name_, phase, pending, freed>>

\* A node of class c with these pointers takes the place of the last k values.
Make(c, fields, k) ==
  /\ Len(nodes) < MaxNodes
  /\ nodes' = Append(nodes, [class |-> c, fields |-> fields])
  /\ Replace(k, [kind |-> Base(c), at |-> Len(nodes) + 1])
  /\ UNCHANGED <<hashtable, name_, phase, pending, freed>>

\* The last k values.
LastValues(k) == SubSeq(stack, Len(stack) - k + 1, Len(stack))

\* The constructor of c.
New(c) ==
  LET params == Params[c]
      args == LastValues(Len(params))
  IN  /\ phase = "parsing" /\ Len(stack) >= Len(params)
      /\ \A j \in DOMAIN params : \/ args[j].kind = params[j]
                                  \/ args[j] = Null /\ <<c, j>> \in Optional
      /\ Make(c, args, Len(params))

\* The constructors of lists: of none, and of one element.
NewEmpty(l) == phase = "parsing" /\ l \in MayBeEmpty /\ Make(l, <<>>, 0)

NewList(l) ==
  /\ phase = "parsing" /\ stack # <<>>
  /\ stack[Len(stack)].kind = ElementOf[l]
  /\ Make(l, LastValues(1), 1)

\* l->Append(element), after the rest of the list has been read.
AppendTo(l) ==
  /\ phase = "parsing" /\ Len(stack) >= 2
  /\ LET element == stack[Len(stack) - 1]
         list == stack[Len(stack)]
     IN  /\ list.kind = l /\ element.kind = ElementOf[l]
         /\ nodes' = [nodes EXCEPT ![list.at].fields = << element >> \o @]
         /\ Replace(2, list)
  /\ UNCHANGED <<hashtable, name_, phase, pending, freed>>

\* program: exp, and the end of main.
Destroy ==
  /\ phase = "parsing" /\ Len(stack) = 1 /\ stack[1].kind = "Exp"
  /\ phase' = "deleting"
  /\ pending' = stack
  /\ stack' = <<>>
  /\ UNCHANGED <<hashtable, name_, nodes, freed>>

-----------------------------------------------------------------------------
(* Deleting *)

\* What a destructor deletes.
Deletes(e) ==
  IF e.kind = "Symbol" \/ e = Null \/ nodes[e.at].class \notin Owners THEN <<>>
  ELSE nodes[e.at].fields

\* delete of a pointer: nothing for a null one.  The destructor deletes the node's
\* pointers, one by one, and the node goes.
Delete ==
  /\ phase = "deleting" /\ pending # <<>>
  /\ pending[1] \notin freed
  /\ pending' = Deletes(pending[1]) \o Tail(pending)
  /\ freed' = IF pending[1] = Null THEN freed ELSE freed \union {pending[1]}
  /\ UNCHANGED <<hashtable, name_, nodes, stack, phase>>

\* delete of what has been deleted.
DeleteAgain ==
  /\ phase = "deleting" /\ pending # <<>>
  /\ pending[1] \in freed
  /\ phase' = "undefined"
  /\ UNCHANGED <<hashtable, name_, nodes, stack, pending, freed>>

Deleted ==
  /\ phase = "deleting" /\ pending = <<>>
  /\ phase' = "done"
  /\ UNCHANGED <<hashtable, name_, nodes, stack, pending, freed>>

Deleting == Delete \/ DeleteAgain \/ Deleted

-----------------------------------------------------------------------------

AbsynNext ==
  \/ \E n \in Name : LexId(n)
  \/ Absent
  \/ \E c \in Class \ Lists : New(c)
  \/ \E l \in Class \intersect Lists : NewEmpty(l) \/ NewList(l) \/ AppendTo(l)
  \/ Destroy
  \/ Deleting
  \/ phase # "deleting" /\ UNCHANGED absynVars

AbsynSpec == AbsynInit /\ [][AbsynNext]_absynVars

-----------------------------------------------------------------------------
(* Properties *)

\* A pointer points to an object of the class it is declared with.
Points(e) ==
  \/ e = Null
  \/ e.kind = "Symbol" /\ e.at \in DOMAIN name_
  \/ e.at \in DOMAIN nodes /\ e.kind = Base(nodes[e.at].class)

\* Every variable has its type, and so has every pointer.
AbsynTypeOK ==
  /\ SymbolsTypeOK
  /\ \A k \in DOMAIN nodes :
       /\ nodes[k].class \in Class
       /\ \A j \in DOMAIN nodes[k].fields : Points(nodes[k].fields[j])
  /\ \A j \in DOMAIN stack : Points(stack[j])
  /\ \A j \in DOMAIN pending : Points(pending[j])
  /\ \A e \in freed : Points(e) /\ e # Null
  /\ phase \in {"parsing", "deleting", "done", "undefined"}

\* What keeps its parts when it is deleted: a list does not own its elements, nor a
\* for, a field, a function or a named type what it is made of.
Keepers == Lists \union {"ForExp", "Field", "FunDec", "NameAndTy"}

\* The nodes that the pointers of node k lead to.
Below(k) ==
  {nodes[k].fields[j].at : j \in {i \in DOMAIN nodes[k].fields :
                                    nodes[k].fields[i].kind \notin {"null", "Symbol"}}}

\* Closed under the parts of what owns its parts.
Closed(S) == \A k \in S : nodes[k].class \notin Keepers => Below(k) \subseteq S

\* The root, which was made last, and the parts of what owns its parts and is owned.
Owned ==
  {k \in DOMAIN nodes : \A S \in SUBSET DOMAIN nodes : Len(nodes) \in S /\ Closed(S) => k \in S}

\* Where n is owned: the pointers to its symbol from owned nodes that own their parts.
Uses(n) ==
  UNION {{<<k, j>> : j \in {i \in DOMAIN nodes[k].fields :
                             /\ nodes[k].fields[i].kind = "Symbol"
                             /\ name_[nodes[k].fields[i].at] = n}}
         : k \in {p \in Owned : nodes[p].class \notin Keepers}}

OwnedTwice(n) == \E u, v \in Uses(n) : u # v

\* The tree is deleted once and whole, but for what is below a list, a for or a member
\* of a list, and with it every symbol it owns.
OnlyKeepersLeak ==
  phase = "done" =>
    /\ {e.at : e \in {x \in freed : x.kind # "Symbol"}} = Owned
    /\ {name_[e.at] : e \in {x \in freed : x.kind = "Symbol"}}
         = {n \in Name : Uses(n) # {}}

\* Symbols are deleted by every node that owns them although all nodes of a name share
\* one: deletion goes well exactly when no name is owned twice.
SharedNamesBreak ==
  /\ phase = "done" => ~\E n \in Name : OwnedTwice(n)
  /\ phase = "undefined" => \E n \in Name : OwnedTwice(n)

\* The call an identifier makes, with the answer that is the parser's value for it, is the
\* abstract call; a step that reads no identifier leaves every name its symbol.
InternStep ==
  /\ \A n \in Name : LexId(n) => I!Intern(n, stack'[Len(stack')].at)
  /\ (\A n \in Name : ~LexId(n)) => UNCHANGED SymbolOf

\* Each identifier read gets the one symbol of its name, when it is made and whenever it
\* is found again among those of its bucket: comparing symbols by address is comparing
\* their names.
ImplementsInterning == I!Init /\ [][InternStep]_absynVars
=============================================================================
