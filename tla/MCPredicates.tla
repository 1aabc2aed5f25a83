----------------------------- MODULE MCPredicates -----------------------------
(***************************************************************************)
(* The three passes that rewrite or add to conditions wherever they stand, *)
(* each alone: constants are folded, the ranges a disjunction implies are  *)
(* collected, or a LIKE is replaced.                                       *)
(*                                                                         *)
(* Patterns of up to four and texts of up to three characters over two     *)
(* letters, both wildcards and "!"; the escape is none, "!", a letter, a   *)
(* wildcard, or two characters.                                            *)
(***************************************************************************)
EXTENDS MCSimplifyPredicate, RangeHints, PrefixMatch

MCChars == {"!", "%", "_", "a", "b"}

\* ASCII
MCCode(c) == CASE c = "!" -> 33 [] c = "%" -> 37 [] c = "_" -> 95 [] c = "a" -> 97 [] c = "b" -> 98

MCEscapes == {<<>>, <<"!">>, <<"%">>, <<"_">>, <<"a">>, <<"!", "!">>}

\* An escape of two characters is refused: nothing is to be said of any text.
NoLike == input = "other" /\ pattern = <<>> /\ literal = FALSE /\ escape = <<"!", "!">> /\ condition = Like
NoConstants == stack = <<>> /\ made = 0 /\ outcome = "none"
NoRanges ==
  /\ row = [c \in Column |-> Null] /\ host = [h \in Host |-> Null]
  /\ parts = <<>> /\ operands = MaxRangeOperands /\ terms = TRUE

PredicatesVars == <<vars, rangeVars, prefixVars>>

PredicatesSpec ==
  /\ \/ Init /\ NoRanges /\ NoLike
     \/ RangeInit /\ NoConstants /\ NoLike
     \/ PrefixInit /\ NoConstants /\ NoRanges
  /\ [][\/ Next /\ UNCHANGED <<rangeVars, prefixVars>>
        \/ RangeNext /\ UNCHANGED <<vars, prefixVars>>
        \/ Replace /\ UNCHANGED <<vars, rangeVars>>]_PredicatesVars

=============================================================================
