------------------------------- MODULE Symbols ------------------------------
(***************************************************************************)
(* sym::Symbol::UniqueSymbol (src/tiger/symbol/symbol.cc): a hash table of *)
(* the symbols made so far.                                                *)
(*                                                                         *)
(* The k-th symbol made is at address k and 0 is the null pointer.  The    *)
(* symbols linked through next_ from hashtable[i] are the sequence         *)
(* hashtable[i].  Index is the bucket of a name: Hash depends on the       *)
(* characters of the name alone, up to the terminator the std::string that *)
(* the parser passes has.                                                  *)
(* A definition whose comment begins with "Slip" is a variant of the one   *)
(* after it, with a mistake in it.                                         *)
(***************************************************************************)
EXTENDS Integers, Sequences

CONSTANTS
  Name,
  Bucket,  \* the indices of hashtable
  Index    \* Hash(name) % HASH_TABSIZE

ASSUME IndexAssumption == Index \in [Name -> Bucket]

VARIABLES
  hashtable,
  name_      \* the name of each symbol

symbolVars == <<hashtable, name_>>

SymbolsInit ==
  /\ hashtable = [i \in Bucket |-> <<>>]
  /\ name_ = <<>>

\* Slip: the first symbol of the bucket is taken for the name's.
UniqueSymbolOfBucket(n, a) ==
  LET chain == hashtable[Index[n]]
  IN  \/ chain # <<>> /\ a = chain[1] /\ UNCHANGED symbolVars
      \/ /\ chain = <<>>
         /\ a = Len(name_) + 1
         /\ name_' = Append(name_, n)
         /\ hashtable' = [hashtable EXCEPT ![Index[n]] = << a >>]

\* UniqueSymbol returns a for n.
UniqueSymbol(n, a) ==
  LET chain == hashtable[Index[n]]
  IN  \/ \E p \in DOMAIN chain :
           /\ name_[chain[p]] = n /\ \A q \in 1..(p - 1) : name_[chain[q]] # n
           /\ a = chain[p]
           /\ UNCHANGED symbolVars
      \/ /\ \A p \in DOMAIN chain : name_[chain[p]] # n
         /\ a = Len(name_) + 1
         /\ name_' = Append(name_, n)
         /\ hashtable' = [hashtable EXCEPT ![Index[n]] = << a >> \o @]

-----------------------------------------------------------------------------
(* Properties *)

SymbolsTypeOK ==
  /\ name_ \in Seq(Name)
  /\ hashtable \in [Bucket -> Seq(1..Len(name_))]

\* The last symbol made for each name.
SymbolOf == [n \in Name |-> IF \E a \in DOMAIN name_ : name_[a] = n
                            THEN CHOOSE a \in DOMAIN name_ :
                                   name_[a] = n /\ \A b \in DOMAIN name_ : b > a => name_[b] # n
                            ELSE 0]
I == INSTANCE Interning WITH symbolOf <- SymbolOf
=============================================================================
