-------------------------- MODULE SimplifyPredicate --------------------------
(***************************************************************************)
(* simplify_predicate and remove_redundant_conditions: the last pass of    *)
(* the optimizer folds boolean constants in the conditions the other       *)
(* passes have left, and removes a condition that is always true.          *)
(*                                                                         *)
(* The condition is visited bottom up: an operand leaves the result of its *)
(* visit on a stack and an operator takes those of its operands.  The      *)
(* condition itself is not kept; one row is fixed for the whole behaviour, *)
(* and each entry of the stack tells what its part of the condition is     *)
(* worth for that row, as it was given and as it has been rewritten.  What *)
(* columns and other expressions are worth is arbitrary.                   *)
(***************************************************************************)
EXTENDS Naturals, Sequences

CONSTANTS MaxOperands,   \* bound: the operands of one condition
          Avoided        \* pairs of results this instance never joins by OR

ASSUME SimplifyAssumption == MaxOperands \in Nat

VARIABLES stack,    \* for each visited part: result, value and rewritten value
          made,     \* how many operands the condition has so far
          outcome   \* what has become of the condition

vars == <<stack, made, outcome>>

-----------------------------------------------------------------------------
\* util/ternary.h: no < unknown < yes

Ternary == {"yes", "no", "unknown"}

Less(a, b) == \/ a = "no" /\ b \in {"yes", "unknown"}
              \/ a = "unknown" /\ b = "yes"
Not(a) == IF a = "yes" THEN "no" ELSE IF a = "no" THEN "yes" ELSE "unknown"
And(a, b) == IF Less(b, a) THEN b ELSE a
Or(a, b) == IF Less(a, b) THEN b ELSE a
Of(condition) == IF condition THEN "yes" ELSE "no"

-----------------------------------------------------------------------------
\* simplify_predicate_result

Results == {"constant_true", "constant_false", "constant_unknown",
            "constant_true_or_unknown", "constant_false_or_unknown", "not_sure"}

\* The values each result allows, as its documentation says.
Allows(result) ==
  CASE result = "constant_true" -> {"yes"}
    [] result = "constant_false" -> {"no"}
    [] result = "constant_unknown" -> {"unknown"}
    [] result = "constant_false_or_unknown" -> {"no", "unknown"}
    [] result = "constant_true_or_unknown" -> {"yes", "unknown"}
    [] result = "not_sure" -> Ternary

FromTernary(v) ==
  CASE v = "yes" -> "constant_true" [] v = "no" -> "constant_false" [] v = "unknown" -> "constant_unknown"

Visited(result, value, now) == [result |-> result, value |-> value, now |-> now]

\* The operators of one operand, and what each is worth.
UnaryOperators == {"conditional_not", "is_null", "is_true", "is_false", "is_unknown"}

UnaryValue(op, v) ==
  CASE op = "conditional_not" -> Not(v)
    [] op = "is_true" -> Of(v = "yes")
    [] op = "is_false" -> Of(v = "no")
    [] op \in {"is_null", "is_unknown"} -> Of(v = "unknown")

NotResult(r) ==
  CASE r = "constant_true" -> "constant_false"
    [] r = "constant_false" -> "constant_true"
    [] r = "constant_true_or_unknown" -> "constant_false_or_unknown"
    [] r = "constant_false_or_unknown" -> "constant_true_or_unknown"
    [] OTHER -> r

IsResult(r, yes, no) ==
  IF r \in yes THEN "constant_true" ELSE IF r \in no THEN "constant_false" ELSE "not_sure"

UnaryResultTwoValued(op, r) ==   \* mutant: what is not true is taken to be false
  CASE op = "conditional_not" -> NotResult(r)
    [] op = "is_true" -> IsResult(r, {"constant_true"}, {"constant_false"})
    [] op = "is_false" ->
         IsResult(r, {"constant_false", "constant_unknown", "constant_false_or_unknown"}, {"constant_true"})
    [] op \in {"is_null", "is_unknown"} -> IsResult(r, {"constant_unknown"}, {"constant_true", "constant_false"})

UnaryResult(op, r) ==
  CASE op = "conditional_not" -> NotResult(r)
    [] op = "is_true" ->
         IsResult(r, {"constant_true"}, {"constant_false", "constant_unknown", "constant_false_or_unknown"})
    [] op = "is_false" ->
         IsResult(r, {"constant_false"}, {"constant_true", "constant_unknown", "constant_true_or_unknown"})
    [] op \in {"is_null", "is_unknown"} -> IsResult(r, {"constant_unknown"}, {"constant_true", "constant_false"})

\* The tables for operands of which neither is true or false for certain.
AndTable(l, r) ==
  CASE l = "constant_true_or_unknown" -> r
    [] l = "constant_false_or_unknown" -> "constant_false_or_unknown"
    [] l = "constant_unknown" ->
         IF r \in {"constant_true_or_unknown", "constant_unknown"}
           THEN "constant_unknown" ELSE "constant_false_or_unknown"
    [] l = "not_sure" ->
         IF r \in {"constant_unknown", "constant_false_or_unknown"}
           THEN "constant_false_or_unknown" ELSE "not_sure"

OrTable(l, r) ==
  CASE l = "constant_true_or_unknown" -> "constant_true_or_unknown"
    [] l = "constant_false_or_unknown" -> r
    [] l = "constant_unknown" ->
         IF r \in {"constant_true_or_unknown", "not_sure"}
           THEN "constant_true_or_unknown" ELSE "constant_unknown"
    [] l = "not_sure" ->
         IF r \in {"constant_false_or_unknown", "constant_unknown"}
           THEN "constant_true_or_unknown" ELSE "not_sure"

\* A true operand of AND, a false one of OR, is replaced by the other operand.  Behind a left
\* operand that decides alone the right one is not visited.
AndVisitSwapped(l, r) ==   \* mutant: the true operand itself is kept
  LET value == And(l.value, r.value)
  IN  CASE l.result = "constant_true" -> Visited(r.result, value, l.now)
        [] l.result = "constant_false" -> Visited("constant_false", value, And(l.now, r.value))
        [] OTHER -> Visited("not_sure", value, And(l.now, r.now))

AndVisit(l, r) ==
  LET value == And(l.value, r.value)
  IN  CASE l.result = "constant_true" -> Visited(r.result, value, r.now)
        [] l.result = "constant_false" -> Visited("constant_false", value, And(l.now, r.value))
        [] OTHER ->
             CASE r.result = "constant_true" -> Visited(l.result, value, l.now)
               [] r.result = "constant_false" -> Visited("constant_false", value, And(l.now, r.now))
               [] OTHER -> Visited(AndTable(l.result, r.result), value, And(l.now, r.now))

OrVisit(l, r) ==
  LET value == Or(l.value, r.value)
  IN  CASE l.result = "constant_true" -> Visited("constant_true", value, Or(l.now, r.value))
        [] l.result = "constant_false" -> Visited(r.result, value, r.now)
        [] OTHER ->
             CASE r.result = "constant_true" -> Visited("constant_true", value, Or(l.now, r.now))
               [] r.result = "constant_false" -> Visited(l.result, value, l.now)
               [] OTHER -> Visited(OrTable(l.result, r.result), value, Or(l.now, r.now))

-----------------------------------------------------------------------------

Init == stack = <<>> /\ made = 0 /\ outcome = "visiting"

Push(part) ==
  /\ outcome = "visiting" /\ made < MaxOperands
  /\ made' = made + 1
  /\ stack' = Append(stack, part)
  /\ UNCHANGED outcome

\* TRUE, FALSE and NULL; anything else is not looked into.
Immediate(v) == Push(Visited(FromTernary(v), v, v))
OtherExpression(v) == Push(Visited("not_sure", v, v))

UnaryOperator(op) ==
  LET n == Len(stack)
      e == stack[n]
  IN  /\ outcome = "visiting" /\ n >= 1
      /\ stack' = [stack EXCEPT ![n] =
                     Visited(UnaryResult(op, e.result), UnaryValue(op, e.value), UnaryValue(op, e.now))]
      /\ UNCHANGED <<made, outcome>>

TopTwo(Visit(_, _)) ==
  LET n == Len(stack)
  IN  /\ outcome = "visiting" /\ n >= 2
      /\ stack' = Append(SubSeq(stack, 1, n - 2), Visit(stack[n - 1], stack[n]))
      /\ UNCHANGED <<made, outcome>>

ConditionalAnd == TopTwo(AndVisit)
ConditionalOr ==
  /\ TopTwo(OrVisit)
  /\ <<stack[Len(stack) - 1].result, stack[Len(stack)].result>> \notin Avoided

RemoveUnlessFalse ==   \* mutant: removed although it may be unknown
  /\ outcome = "visiting" /\ Len(stack) = 1
  /\ outcome' = IF stack[1].result \in {"constant_true", "constant_true_or_unknown"} THEN "removed" ELSE "kept"
  /\ UNCHANGED <<stack, made>>

\* The filter is taken out of the plan, or the join loses its condition, if it is always true.
RemoveCondition ==
  /\ outcome = "visiting" /\ Len(stack) = 1
  /\ outcome' = IF stack[1].result = "constant_true" THEN "removed" ELSE "kept"
  /\ UNCHANGED <<stack, made>>

Next ==
  \/ \E v \in Ternary : Immediate(v) \/ OtherExpression(v)
  \/ \E op \in UnaryOperators : UnaryOperator(op)
  \/ ConditionalAnd \/ ConditionalOr
  \/ RemoveCondition

Spec == Init /\ [][Next]_vars

-----------------------------------------------------------------------------

\* A visit never claims a value its part of the condition does not have, for any values of
\* the columns: "always true", "either false or unknown" (simplify_predicate.h) are true of
\* every row, whatever operators they are combined with.
ResultSound == \A k \in DOMAIN stack : stack[k].value \in Allows(stack[k].result)

\* A filter accepts the rows for which its condition is true: it is removed only where every
\* row is accepted, and what is kept accepts the same rows.
RowsKept ==
  /\ outcome = "removed" => stack[1].value = "yes"
  /\ outcome = "kept" => (stack[1].now = "yes" <=> stack[1].value = "yes")

=============================================================================
