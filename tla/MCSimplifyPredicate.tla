------------------------ MODULE MCSimplifyPredicate ------------------------
(***************************************************************************)
(* Conditions of up to four operands.  The one pair of results for which   *)
(* the OR table of the code is wrong is left out, or alone looked for.     *)
(***************************************************************************)
EXTENDS SimplifyPredicate

WrongPair == {<<"not_sure", "constant_false_or_unknown">>}
NoPair == {}

=============================================================================
