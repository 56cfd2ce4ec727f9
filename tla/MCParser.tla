------------------------------ MODULE MCParser -------------------------------
(***************************************************************************)
(* Every file of up to four items: two strings, so that one is read while  *)
(* the other waits, a name, a constant, and all that is no token.          *)
(***************************************************************************)
EXTENDS Parser

Of(kind, text) == [kind |-> kind, text |-> text]

Tokens == {Of("ID", "x"), Of("STRING", "s"), Of("STRING", "t"), Of("INT", "7"), Of("OTHER", "")}
Rest == {Of(k, "") : k \in {"BLANK", "NEWLINE", "ILLEGAL", "UNCLOSED", "HUGE"}}

SmallFiles == UNION {[1..n -> Tokens \union Rest] : n \in 0..4}
=============================================================================
