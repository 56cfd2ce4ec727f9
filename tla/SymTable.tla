------------------------------ MODULE SymTable -------------------------------
(***************************************************************************)
(* sym::Table (src/tiger/symbol/symbol.h): a table of symbols with scopes. *)
(* BeginScope enters a mark, EndScope pops until it has popped one.        *)
(*                                                                         *)
(* The loop of EndScope is one step per Pop.  Nothing but the assert of    *)
(* Pop stops it when there is no mark.  A definition whose comment begins  *)
(* with "Slip" is a variant of the one after it, with a mistake in it.     *)
(***************************************************************************)
EXTENDS Table, FiniteSets

CONSTANT Mark     \* &marksym_

ASSUME MarkAssumption == Mark \in Key

VARIABLES
  ending,     \* EndScope runs
  aborted     \* an assert failed

symVars == <<tableVars, ending, aborted>>

Symbols == Key \ {Mark}

SymInit == TableInit /\ ending = FALSE /\ aborted = FALSE

\* The program is between two calls.
Ready == phase = "idle" /\ ~ending /\ ~aborted

BeginScope == Enter(Mark, Null) /\ UNCHANGED <<ending, aborted>>

EndScope ==
  /\ ending' = TRUE
  /\ UNCHANGED <<tableVars, aborted>>

\* Slip: the loop stops short of the mark.
EndScopePopShort ==
  /\ ending /\ ~aborted
  /\ Pop
  /\ ending' = (top_' # Mark)
  /\ UNCHANGED aborted

\* Slip: the loop looks for a key that is not the mark.
EndScopePopOn ==
  /\ ending /\ ~aborted
  /\ Pop
  /\ ending' = (Head(table_[Index[top_]]).key = Mark)
  /\ UNCHANGED aborted

\* One round of the loop.
EndScopePop ==
  /\ ending /\ ~aborted
  /\ Pop
  /\ ending' = (Head(table_[Index[top_]]).key # Mark)
  /\ UNCHANGED aborted

\* assert(k) in Pop: the last binding is gone and no mark was among them.
EndScopeAssert ==
  /\ ending /\ ~aborted
  /\ top_ = Null
  /\ aborted' = TRUE
  /\ UNCHANGED <<tableVars, ending>>

EndScopeStep == EndScopePop \/ EndScopeAssert

\* The operations a symbol table has from tab::Table.
Inherited ==
  /\ \/ \E k \in Symbols, v \in Value \union {Null} : Enter(k, v) \/ Set(k, v)
     \/ Pop
     \/ Dump
  /\ UNCHANGED <<ending, aborted>>

SymNext ==
  \/ Ready /\ (Inherited \/ BeginScope \/ EndScope)
  \/ DumpStep /\ UNCHANGED <<ending, aborted>>
  \/ EndScopeStep
  \/ aborted /\ UNCHANGED symVars

\* A call that was made runs to its end.
SymSpec == SymInit /\ [][SymNext]_symVars /\ WF_symVars(EndScopeStep) /\ WF_tableVars(DumpStep)

-----------------------------------------------------------------------------
(* Properties *)

marks == {d \in 1..size : entered[d] = Mark}

\* Where the n-th mark is; 0 for the beginning of the outermost scope.
MarkAt(n) ==
  IF n = 0 THEN 0 ELSE CHOOSE d \in marks : Cardinality({e \in marks : e <= d}) = n

\* The scopes open: what lies between two marks.  The innermost is closed from the
\* moment EndScope is called.
Scopes ==
  [i \in 1..(Cardinality(marks) + (IF ending THEN 0 ELSE 1)) |->
     SubSeq(Bindings, MarkAt(i - 1) + 1,
            IF i - 1 = Cardinality(marks) THEN size ELSE MarkAt(i) - 1)]

S == INSTANCE ScopedEnv WITH scopes <- Scopes, Key <- Symbols

Corresponds ==
  \/ BeginScope /\ S!Open
  \/ EndScope /\ S!Close
  \/ \E k \in Symbols, v \in Value \union {Null} :
       \/ Enter(k, v) /\ S!Bind(k, v)
       \/ Set(k, v) /\ S!Assign(k, v)
  \/ Pop /\ ~ending /\ S!Undo
  \/ (Dump \/ DumpStep \/ EndScopeStep) /\ UNCHANGED Scopes

\* The table is a stack of scopes, operation by operation: however many bindings,
\* hidden or not, on shared chains or not, EndScope undoes those since the matching
\* BeginScope and no other.
ImplementsScopes == S!Spec /\ [][Corresponds]_symVars

\* What is called returns: a Dump always, EndScope when a scope is open.
CallsReturn ==
  /\ phase # "idle" ~> phase = "idle"
  /\ ending /\ marks # {} ~> ~ending
=============================================================================
