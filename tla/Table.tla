-------------------------------- MODULE Table -------------------------------
(***************************************************************************)
(* tab::Table (src/tiger/util/table.h): a hash table of chained binders,   *)
(* whose binders are also linked, through prevtop, in the order they were  *)
(* entered in.  It underlies the symbol tables and the graph's node        *)
(* tables.                                                                 *)
(*                                                                         *)
(* A bucket is the sequence of the binders on its chain, the head first.   *)
(* Dump is recursive and calls back to show between the two halves of its  *)
(* work, so each half of each level is a step; show only prints.           *)
(* A definition whose comment begins with "Slip" is a variant of the one   *)
(* after it, with a mistake in it.                                         *)
(***************************************************************************)
EXTENDS Integers, Sequences, Functions

CONSTANTS
  Key,
  Value,
  Null,       \* the null pointer
  Bucket,     \* the indices of table_
  Index,      \* the bucket of a pointer: its address modulo TABSIZE
  MaxDepth    \* bound: the binders a table holds at a time

ASSUME NullAssumption == Null \notin Key \union Value
ASSUME IndexAssumption == Index \in [Key \union {Null} -> Bucket]
ASSUME MaxDepthAssumption == MaxDepth \in Nat

VARIABLES
  table_,
  top_,     \* the key entered last
  phase,    \* "idle", or the half of Dump that runs
  frames,   \* the locals of the activations of Dump, the innermost last
  shown,    \* history: what the Dump that runs has shown
  entered   \* history: the keys entered and not popped, the latest last

tableVars == <<table_, top_, phase, frames, shown, entered>>

size == Len(entered)

\* depth is history: how many binders there were when this one was entered, itself
\* included.
Binder == [key : Key, value : Value \union {Null}, prevtop : Key \union {Null},
           depth : Nat]

\* An activation of Dump: its k and b, and the depth of b->next (0 for null).
Frame == [k : Key, b : Binder, next : Nat]

TableInit ==
  /\ table_ = [i \in Bucket |-> <<>>]
  /\ top_ = Null
  /\ phase = "idle"
  /\ frames = <<>>
  /\ shown = <<>>
  /\ entered = <<>>

\* The first binder of k on its chain is at p.
FirstOf(k, p) ==
  LET chain == table_[Index[k]]
  IN  /\ p \in DOMAIN chain /\ chain[p].key = k
      /\ \A q \in 1..(p - 1) : chain[q].key # k

\* Slip: an if for the for, and only the head of the chain is compared.
LookHead(k, v) ==
  LET chain == table_[Index[k]]
  IN  \/ chain # <<>> /\ chain[1].key = k /\ v = chain[1].value
      \/ v = Null /\ (chain # <<>> => chain[1].key # k)

\* Look returns v for k.
Look(k, v) ==
  LET chain == table_[Index[k]]
  IN  \/ \E p \in DOMAIN chain : FirstOf(k, p) /\ v = chain[p].value
      \/ v = Null /\ \A p \in DOMAIN chain : chain[p].key # k

-----------------------------------------------------------------------------

\* Slip: the binder remembers itself as the previous top.
EnterSelf(k, v) ==
  /\ phase = "idle" /\ size < MaxDepth
  /\ table_' = [table_ EXCEPT ![Index[k]] =
                  << [key |-> k, value |-> v, prevtop |-> k, depth |-> size + 1] >> \o @]
  /\ top_' = k
  /\ entered' = Append(entered, k)
  /\ UNCHANGED <<phase, frames, shown>>

\* Slip: the binder's value and prevtop are swapped.
EnterSwapped(k, v) ==
  /\ phase = "idle" /\ size < MaxDepth
  /\ table_' = [table_ EXCEPT ![Index[k]] =
                  << [key |-> k, value |-> top_, prevtop |-> v, depth |-> size + 1] >> \o @]
  /\ top_' = k
  /\ entered' = Append(entered, k)
  /\ UNCHANGED <<phase, frames, shown>>

Enter(k, v) ==
  /\ phase = "idle" /\ size < MaxDepth
  /\ table_' = [table_ EXCEPT ![Index[k]] =
                  << [key |-> k, value |-> v, prevtop |-> top_, depth |-> size + 1] >> \o @]
  /\ top_' = k
  /\ entered' = Append(entered, k)
  /\ UNCHANGED <<phase, frames, shown>>

\* Slip: the keys are not compared, and the head of the chain is written to.
SetHead(k, v) ==
  /\ phase = "idle" /\ table_[Index[k]] # <<>>
  /\ table_' = [table_ EXCEPT ![Index[k]][1].value = v]
  /\ UNCHANGED <<top_, phase, frames, shown, entered>>

\* The first binder of k gets the value v; Set does nothing when there is none.
Set(k, v) ==
  /\ phase = "idle"
  /\ \E p \in DOMAIN table_[Index[k]] :
       FirstOf(k, p) /\ table_' = [table_ EXCEPT ![Index[k]][p].value = v]
  /\ UNCHANGED <<top_, phase, frames, shown, entered>>

\* Slip: the new top is the key that is next on the chain.
PopToNext ==
  /\ phase = "idle" /\ top_ # Null
  /\ table_[Index[top_]] # <<>>
  /\ LET i == Index[top_]
         rest == Tail(table_[i])
     IN  /\ table_' = [table_ EXCEPT ![i] = rest]
         /\ top_' = IF rest = <<>> THEN Null ELSE Head(rest).key
  /\ entered' = SubSeq(entered, 1, size - 1)
  /\ UNCHANGED <<phase, frames, shown>>

\* The head of the chain of top_ goes.  The two asserts are guards here; that the
\* second never stops a Pop is PopTakesTop.
Pop ==
  /\ phase = "idle" /\ top_ # Null
  /\ table_[Index[top_]] # <<>>
  /\ LET i == Index[top_]
     IN  /\ table_' = [table_ EXCEPT ![i] = Tail(@)]
         /\ top_' = Head(table_[i]).prevtop
  /\ entered' = SubSeq(entered, 1, size - 1)
  /\ UNCHANGED <<phase, frames, shown>>

-----------------------------------------------------------------------------
(* Dump *)

\* Dump is called.
Dump ==
  /\ phase = "idle"
  /\ phase' = "down"
  /\ UNCHANGED <<table_, top_, frames, shown, entered>>

\* An activation, up to its recursive call: it takes its binder out of the table
\* and shows it.
DumpDown ==
  /\ phase = "down" /\ table_[Index[top_]] # <<>>
  /\ LET i == Index[top_]
         b == Head(table_[i])
         rest == Tail(table_[i])
     IN  /\ table_' = [table_ EXCEPT ![i] = rest]
         /\ top_' = b.prevtop
         /\ frames' = Append(frames, [k |-> top_, b |-> b,
                                      next |-> IF rest = <<>> THEN 0 ELSE Head(rest).depth])
         /\ shown' = Append(shown, [key |-> b.key, value |-> b.value])
  /\ UNCHANGED <<phase, entered>>

\* Slip: the outermost activation does not return on an empty table.
DumpBottomStays ==
  /\ phase = "down" /\ table_[Index[top_]] = <<>> /\ frames # <<>>
  /\ phase' = "up"
  /\ UNCHANGED <<table_, top_, frames, shown, entered>>

\* The activation that finds no binder returns.
DumpBottom ==
  /\ phase = "down" /\ table_[Index[top_]] = <<>>
  /\ phase' = IF frames = <<>> THEN "idle" ELSE "up"
  /\ UNCHANGED <<table_, top_, frames, shown, entered>>

\* Slip: top_ is not restored.
DumpUpTopless ==
  /\ phase = "up"
  /\ LET f == frames[Len(frames)]
     IN  table_' = [table_ EXCEPT ![Index[f.k]] = <<f.b>> \o @]
  /\ frames' = SubSeq(frames, 1, Len(frames) - 1)
  /\ phase' = IF Len(frames) = 1 THEN "idle" ELSE "up"
  /\ shown' = IF Len(frames) = 1 THEN <<>> ELSE shown
  /\ UNCHANGED <<top_, entered>>

\* The rest of an activation: it puts its binder back.  The chain of b->next is the
\* present chain of the bucket when the assert holds, which DumpAssert says.
DumpUp ==
  /\ phase = "up"
  /\ LET f == frames[Len(frames)]
     IN  /\ table_' = [table_ EXCEPT ![Index[f.k]] = <<f.b>> \o @]
         /\ top_' = f.k
  /\ frames' = SubSeq(frames, 1, Len(frames) - 1)
  /\ phase' = IF Len(frames) = 1 THEN "idle" ELSE "up"
  /\ shown' = IF Len(frames) = 1 THEN <<>> ELSE shown
  /\ UNCHANGED entered

DumpStep == DumpDown \/ DumpBottom \/ DumpUp

-----------------------------------------------------------------------------

TableNext ==
  \/ \E k \in Key, v \in Value \union {Null} : Enter(k, v) \/ Set(k, v)
  \/ Pop
  \/ Dump \/ DumpStep

\* A Dump that was called runs to its end; the other operations come when they come.
TableSpec == TableInit /\ [][TableNext]_tableVars /\ WF_tableVars(DumpStep)

-----------------------------------------------------------------------------
(* Properties *)

\* Every variable has its type.
TableTypeOK ==
  /\ table_ \in [Bucket -> Seq(Binder)]
  /\ top_ \in Key \union {Null}
  /\ phase \in {"idle", "down", "up"}
  /\ frames \in Seq(Frame)
  /\ shown \in Seq([key : Key, value : Value \union {Null}])
  /\ entered \in Seq(Key)

\* The binders of the table and of the frames, and the one of the d-th Enter still
\* in force.
Live ==
  (UNION {Range(table_[i]) : i \in Bucket}) \union {frames[j].b : j \in DOMAIN frames}
BinderAt(d) == CHOOSE b \in Live : b.depth = d

Bindings == [d \in 1..size |-> [key |-> BinderAt(d).key, value |-> BinderAt(d).value]]
E == INSTANCE Env WITH stack <- Bindings

\* What each operation promises of the bindings, whatever the others would explain.
EnvStep ==
  /\ \A k \in Key, v \in Value \union {Null} :
       (Enter(k, v) => E!Bind(k, v)) /\ (Set(k, v) => E!Assign(k, v))
  /\ Pop => E!Unbind
  /\ Dump \/ DumpStep => UNCHANGED Bindings

\* The table is a stack of bindings, operation by operation, also while a Dump is in
\* the middle of taking the table apart.  Each operation is judged by what it is called
\* with: a Set that writes to another key's binder on the same chain is no Set of it.
ImplementsEnv == E!Spec /\ [][EnvStep]_tableVars

\* While no Dump runs, Look returns the value of the latest binding of the key, at
\* whatever place on a chain shared with other keys it is.
LookAgrees ==
  phase = "idle" =>
    \A k \in Key : \A v \in Value \union {Null} : Look(k, v) <=> E!Finds(k, v)

\* The binder Pop takes, the head of the chain of top_, is there and is that of
\* top_: neither assert of Pop fails on a table that holds a binding, and the key
\* returned is the one entered last.
PopTakesTop ==
  /\ top_ # Null => /\ table_[Index[top_]] # <<>>
                    /\ Head(table_[Index[top_]]).key = top_
                    /\ Head(table_[Index[top_]]).depth = size - Len(frames)
  /\ top_ = Null => \A i \in Bucket : table_[i] = <<>>

\* The assert of Dump: a recursive call leaves top_ and the bucket as it found them.
DumpAssert ==
  phase = "up" =>
    LET f == frames[Len(frames)]
        chain == table_[Index[f.k]]
    IN  /\ top_ = f.b.prevtop
        /\ f.next = IF chain = <<>> THEN 0 ELSE chain[1].depth

\* A Dump shows every binding once, the latest first, and is over when it has.
DumpShowsAll ==
  phase = "up" =>
    /\ Len(shown) = size
    /\ \A d \in 1..size : shown[d] = Bindings[size - d + 1]
=============================================================================
