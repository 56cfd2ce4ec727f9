-------------------------------- MODULE Slp ---------------------------------
(***************************************************************************)
(* The interpreter of straight-line programs (src/straightline/slp.cc):    *)
(* the Interp methods of the tree's classes, which call one another.       *)
(*                                                                         *)
(* A tree is a record whose kind is its class.  An action is the part of   *)
(* one Interp between two calls; a call whose result is returned as it is  *)
(* replaces the frame of its caller.  A table is the sequence of its       *)
(* bindings, the latest first, and the null pointer the empty one; tables  *)
(* are never written to once made.  A definition whose comment begins with *)
(* "Slip" is a variant of the one after it, with a mistake in it.          *)
(***************************************************************************)
EXTENDS Integers, SequencesExt

CONSTANTS
  Trees,      \* the objects of the classes of slp.h
  Height,     \* how deep the objects below each tree are nested
  Programs,   \* the trees interpreted
  Id,
  IntMax      \* the largest int

Int_ == -(IntMax + 1) .. IntMax

Stms == {"CompoundStm", "AssignStm", "PrintStm"}
Exps == {"IdExp", "NumExp", "OpExp", "EseqExp"}
ExpLists == {"PairExpList", "LastExpList"}
BinOp == {"PLUS", "MINUS", "TIMES", "DIV"}

\* The objects that the object n points to.
Children(n) ==
  CASE n.kind = "CompoundStm"  -> {n.stm1, n.stm2}
    [] n.kind = "AssignStm"    -> {n.exp}
    [] n.kind = "PrintStm"     -> {n.exps}
    [] n.kind = "OpExp"        -> {n.left, n.right}
    [] n.kind = "EseqExp"      -> {n.stm, n.exp}
    [] n.kind = "PairExpList"  -> {n.exp, n.tail}
    [] n.kind = "LastExpList"  -> {n.exp}
    [] OTHER                   -> {}

\* What the constructors take.
WellMade(n) ==
  CASE n.kind = "CompoundStm"  -> n.stm1.kind \in Stms /\ n.stm2.kind \in Stms
    [] n.kind = "AssignStm"    -> n.id \in Id /\ n.exp.kind \in Exps
    [] n.kind = "PrintStm"     -> n.exps.kind \in ExpLists
    [] n.kind = "IdExp"        -> n.id \in Id
    [] n.kind = "NumExp"       -> n.num \in Int_
    [] n.kind = "OpExp"        -> /\ n.left.kind \in Exps /\ n.right.kind \in Exps
                                  /\ n.oper \in BinOp
    [] n.kind = "EseqExp"      -> n.stm.kind \in Stms /\ n.exp.kind \in Exps
    [] n.kind = "PairExpList"  -> n.exp.kind \in Exps /\ n.tail.kind \in ExpLists
    [] n.kind = "LastExpList"  -> n.exp.kind \in Exps
    [] OTHER                   -> FALSE

\* A tree is made after its parts, so that it is not among them.
ASSUME TreesAssumption ==
  /\ Height \in [Trees -> Nat]
  /\ \A n \in Trees :
       WellMade(n) /\ \A c \in Children(n) : c \in Trees /\ Height[c] < Height[n]
ASSUME ProgramsAssumption == Programs \subseteq {n \in Trees : n.kind \in Stms}
ASSUME IntMaxAssumption == IntMax \in Nat

VARIABLES
  program,
  frames,      \* the activations of Interp, the innermost last
  ret,         \* what the last call returned, until its caller has taken it
  out,         \* the numbers printed, each with whether it ended its line
  status,      \* "running", "done", or how the process died
  assigned,    \* history: the identifiers an AssignStm has assigned
  sought       \* history: the identifiers a Lookup did not find

slpVars == <<program, frames, ret, out, status, assigned, sought>>

TableType == Seq([id : Id, value : Int_])
None == [none |-> TRUE]

\* An activation: its object, its parameter t, and the left operand once it is known.
Activation(n, t) == [node |-> n, t |-> t, left |-> None]

Top == Last(frames)

SlpInit ==
  /\ program \in Programs
  /\ frames = <<Activation(program, <<>>)>>
  /\ ret = None
  /\ out = <<>>
  /\ status = "running"
  /\ assigned = {}
  /\ sought = {}

-----------------------------------------------------------------------------
(* Calls and returns *)

\* The innermost activation, of class kind, has just been called.
Called(kind) == status = "running" /\ ret = None /\ frames # <<>> /\ Top.node.kind = kind

\* A call it made has returned.
Resumed(kind) == status = "running" /\ ret # None /\ frames # <<>> /\ Top.node.kind = kind

Call(n, t) == frames' = Append(frames, Activation(n, t)) /\ ret' = None

CallInstead(n, t) == frames' = Append(Front(frames), Activation(n, t)) /\ ret' = None

Return(i, t) == frames' = Front(frames) /\ ret' = [i |-> i, t |-> t]

\* A statement returns a table alone.
ReturnTable(t) == Return(0, t)

Output(i, ends) == out' = Append(out, [i |-> i, ends |-> ends])

Quiet == UNCHANGED <<program, out, status, assigned, sought>>

Dies(how) == status' = how /\ UNCHANGED <<program, frames, ret, out, assigned>>

-----------------------------------------------------------------------------
(* Tables and numbers *)

\* Lookup returns the value at p: the latest binding of id.
Lookup(t, id, p) ==
  /\ p \in DOMAIN t /\ t[p].id = id
  /\ \A q \in 1..(p - 1) : t[q].id # id

Bound(t, id) == \E p \in DOMAIN t : t[p].id = id

\* Slip: the new binding replaces the table.
UpdateForgets(t, id, v) == << [id |-> id, value |-> v] >>

\* Slip: the new binding comes last, after an older one of the identifier.
UpdateAtEnd(t, id, v) == t \o << [id |-> id, value |-> v] >>

Update(t, id, v) == << [id |-> id, value |-> v] >> \o t

\* Slip: an int holds any integer.
Unwrapped(n) == n

\* What the machine's two's complement arithmetic leaves of n.
Wrap(n) == ((n + IntMax + 1) % (2 * (IntMax + 1))) - (IntMax + 1)

\* C's division, which truncates towards zero.
Quotient(m, n) ==
  LET Abs(x) == IF x < 0 THEN -x ELSE x
      q == Abs(m) \div Abs(n)
  IN  IF (m < 0) = (n < 0) THEN q ELSE -q

\* The divisions that trap: by zero, and the one whose quotient is no int.
Traps(oper, m, n) == oper = "DIV" /\ (n # 0 => Quotient(m, n) \notin Int_)

Apply(oper, m, n) ==
  CASE oper = "PLUS"  -> Wrap(m + n)
    [] oper = "MINUS" -> Wrap(m - n)
    [] oper = "TIMES" -> Wrap(m * n)
    [] oper = "DIV"   -> Quotient(m, n)

-----------------------------------------------------------------------------
(* Interp, class by class *)

CompoundStm == Called("CompoundStm") /\ Call(Top.node.stm1, Top.t) /\ Quiet

\* Slip: the second statement starts from the table the first started from.
CompoundStmSecondStale ==
  Resumed("CompoundStm") /\ CallInstead(Top.node.stm2, Top.t) /\ Quiet

CompoundStmSecond ==
  Resumed("CompoundStm") /\ CallInstead(Top.node.stm2, ret.t) /\ Quiet

AssignStm == Called("AssignStm") /\ Call(Top.node.exp, Top.t) /\ Quiet

\* The table extended is the parameter, not the one the expression returned.
AssignStmEnd ==
  /\ Resumed("AssignStm")
  /\ ReturnTable(Update(Top.t, Top.node.id, ret.i))
  /\ assigned' = assigned \union {Top.node.id}
  /\ UNCHANGED <<program, out, status, sought>>

PrintStm == Called("PrintStm") /\ CallInstead(Top.node.exps, Top.t) /\ Quiet

IdExp ==
  /\ Called("IdExp")
  /\ \E p \in DOMAIN Top.t : Lookup(Top.t, Top.node.id, p) /\ Return(Top.t[p].value, Top.t)
  /\ Quiet

\* The null table is read through, or assert(false) fails.
IdExpUnbound ==
  /\ Called("IdExp") /\ ~Bound(Top.t, Top.node.id)
  /\ Dies(IF Top.t = <<>> THEN "crashed" ELSE "aborted")
  /\ sought' = {Top.node.id}

NumExp == Called("NumExp") /\ Return(Top.node.num, Top.t) /\ Quiet

OpExp == Called("OpExp") /\ Call(Top.node.left, Top.t) /\ Quiet

OpExpRight ==
  /\ Resumed("OpExp") /\ Top.left = None
  /\ frames' = Front(frames) \o << [Top EXCEPT !.left = ret],
                                   Activation(Top.node.right, ret.t) >>
  /\ ret' = None
  /\ Quiet

OpExpApply ==
  /\ Resumed("OpExp") /\ Top.left # None
  /\ ~Traps(Top.node.oper, Top.left.i, ret.i)
  /\ Return(Apply(Top.node.oper, Top.left.i, ret.i), ret.t)
  /\ Quiet

OpExpTrap ==
  /\ Resumed("OpExp") /\ Top.left # None
  /\ Traps(Top.node.oper, Top.left.i, ret.i)
  /\ Dies("trapped")
  /\ UNCHANGED sought

EseqExp == Called("EseqExp") /\ Call(Top.node.stm, Top.t) /\ Quiet

\* The table the statement returned is dropped.
EseqExpEnd == Resumed("EseqExp") /\ CallInstead(Top.node.exp, Top.t) /\ Quiet

ExpList(kind) == Called(kind) /\ Call(Top.node.exp, Top.t) /\ Quiet

LastExpListEnd ==
  /\ Resumed("LastExpList")
  /\ Output(ret.i, TRUE)
  /\ Return(ret.i, ret.t)
  /\ UNCHANGED <<program, status, assigned, sought>>

\* Slip: the line ends after every number.
PairExpListTailEnds ==
  /\ Resumed("PairExpList")
  /\ Output(ret.i, TRUE)
  /\ CallInstead(Top.node.tail, ret.t)
  /\ UNCHANGED <<program, status, assigned, sought>>

PairExpListTail ==
  /\ Resumed("PairExpList")
  /\ Output(ret.i, FALSE)
  /\ CallInstead(Top.node.tail, ret.t)
  /\ UNCHANGED <<program, status, assigned, sought>>

\* Interp has returned to main.
Done ==
  /\ status = "running" /\ frames = <<>>
  /\ status' = "done"
  /\ UNCHANGED <<program, frames, ret, out, assigned, sought>>

-----------------------------------------------------------------------------

SlpStep ==
  \/ CompoundStm \/ CompoundStmSecond
  \/ AssignStm \/ AssignStmEnd
  \/ PrintStm
  \/ IdExp \/ IdExpUnbound
  \/ NumExp
  \/ OpExp \/ OpExpRight \/ OpExpApply \/ OpExpTrap
  \/ EseqExp \/ EseqExpEnd
  \/ ExpList("LastExpList") \/ LastExpListEnd
  \/ ExpList("PairExpList") \/ PairExpListTail
  \/ Done

SlpNext == SlpStep \/ (status # "running" /\ UNCHANGED slpVars)

SlpSpec == SlpInit /\ [][SlpNext]_slpVars

-----------------------------------------------------------------------------
(* Properties; those that take the tree as a whole are in SlpMeaning *)

\* Every variable has its type; a number kept anywhere fits an int.
SlpTypeOK ==
  /\ program \in Programs
  /\ \A j \in DOMAIN frames :
       /\ frames[j].node \in Trees
       /\ frames[j].t \in TableType
       /\ frames[j].left # None => frames[j].left.i \in Int_ /\ frames[j].left.t \in TableType
  /\ ret # None => ret.i \in Int_ /\ ret.t \in TableType
  /\ out \in Seq([i : Int_, ends : BOOLEAN])
  /\ status \in {"running", "done", "crashed", "aborted", "trapped"}
  /\ assigned \in SUBSET Id
  /\ sought \in SUBSET Id

\* The assert(false) of Lookup (slp.cc:114), which says that an identifier looked up
\* is in the table: at least one that has been assigned is.  An assignment inside an
\* expression breaks it: EseqExp drops the table its statement returned.
AssignedIsFound == sought \intersect assigned = {}
=============================================================================
