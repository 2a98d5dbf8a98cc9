------------------------------- MODULE Results -------------------------------
(***************************************************************************)
(* What may be unset, and what may fail: Rust's Option and Result, which   *)
(* the settings, requests and triggers of this client are made of.         *)
(***************************************************************************)
EXTENDS Sequences, SequencesExt

Unset           == <<>>
Given(x)        == <<x>>
IsGiven(option) == option # Unset
OrElse(option, other) == IF IsGiven(option) THEN option ELSE other

Ok(value)   == [ok |-> TRUE, value |-> value]
Err(kind)   == [ok |-> FALSE, error |-> kind]
Then(r, Use(_)) == IF r.ok THEN Use(r.value) ELSE r

(* The results of a sequence, in order, or the first error among them.     *)
Collected(results) ==
  LET i == SelectInSeq(results, LAMBDA r : ~r.ok)
  IN IF i = 0 THEN Ok([j \in DOMAIN results |-> results[j].value]) ELSE results[i]
=============================================================================
