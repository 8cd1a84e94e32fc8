----------------------------- MODULE MCAccounts -----------------------------
(***************************************************************************)
(* Registrations of two names, and the histories of calls the rate limiter *)
(* is tried on: two callers, gaps around the span, limits of one and two.  *)
(***************************************************************************)
EXTENDS Accounts

Gap == {0, 1, Span - 1, Span, Span + 1}
Call == [gap : Gap, key : Callers]
At(gaps) == [i \in DOMAIN gaps |->
               [key |-> gaps[i].key,
                at |-> LET sum[j \in 0..i] == IF j = 0 THEN 0 ELSE sum[j - 1] + gaps[j].gap
                       IN  sum[i]]]
MCHistories == {At(gaps) : gaps \in UNION {[1..n -> Call] : n \in 1..4}}
=============================================================================
