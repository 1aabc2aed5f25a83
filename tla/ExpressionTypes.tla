---------------------------- MODULE ExpressionTypes ----------------------------
(***************************************************************************)
(* expression_analyzer: the type of an expression, by those of its         *)
(* operands, and what is reported about it.  Everything is validated, and  *)
(* nothing may be left unresolved: so the compiler asks for it.            *)
(*                                                                         *)
(* Where something is reported the type may still be known: the result of  *)
(* a comparison is a boolean, whatever is compared.  Diagnostics are       *)
(* counted: some operators report each operand, or one mistake twice.      *)
(***************************************************************************)
EXTENDS SqlTypes, FiniteSets

\* The diagnostics for what went wrong, one for each condition that does not hold.
Diagnostics(oks) == Cardinality({i \in DOMAIN oks : ~ oks[i]})

CheckedType(t, ok) == [type |-> t, reports |-> IF ok THEN 0 ELSE 1]
CheckedAll(t, oks) == [type |-> t, reports |-> Diagnostics(oks)]
Accepted(t) == CheckedType(t, TRUE)
Raised == CheckedType(Error, FALSE)                    \* raise
BooleanIf(ok) == CheckedType(Just("boolean"), ok)

Unresolved(t) == category_of(t) = "unresolved"         \* is_unresolved_or_error

-----------------------------------------------------------------------------
(* Expressions without operands *)

\* literal_type: the type of the value itself, a time in the zone the immediate says.
LiteralType(value, t) ==
  CASE value = "decimal" -> Decimal(Any, 0)
    [] value \in Text -> Varying(value, Any)
    [] value \in Clock -> Type(value, 0, 0, t.kind \in Clock /\ t.flag)
    [] value \in Composed -> Unknown   \* none, and not checked: as if it could be assigned
    [] OTHER -> Just(value)

immediate(value, t) ==
  IF Unresolved(t) \/ is_assignment_convertible(LiteralType(value, t), t) # "yes" THEN Raised ELSE Accepted(t)

\* variable_reference, by what the variables known have been resolved to
variable_reference(types, v) == IF v \in DOMAIN types THEN Accepted(types[v]) ELSE Raised

\* resolve_stream_column, of an external variable
external_variable(t) == IF Unresolved(t) THEN Raised ELSE Accepted(t)

-----------------------------------------------------------------------------
(* One operand *)

cast(t, target) == IF Unresolved(target) THEN Raised ELSE CheckedType(target, is_cast_convertible(t, target) # "no")

\* plus, sign_inversion
Sign(t) ==
  CASE category_of(t) = "number" -> Accepted(unary_numeric_promotion(t))
    [] category_of(t) \in {"datetime_interval", "unresolved"} -> Accepted(t)
    [] OTHER -> Raised

length(t) == CheckedType(Just("int4"), category_of(t) \in Text \cup {"unresolved"})

\* conditional_not, is_true, is_false, is_unknown; and where a condition is expected
Truth3(t) == BooleanIf(category_of(t) \in {"boolean", "unknown", "unresolved"})
is_null(t) == BooleanIf(category_of(t) \notin {"collection", "structure", "unique", "external"})

-----------------------------------------------------------------------------
(* Two operands *)

\* category_pair: NULL is of the category of the other operand.
category_pair(l, r) ==
  LET pair(a, b) == IF a = "unknown" THEN <<b, b>> ELSE IF b = "unknown" THEN <<a, a>> ELSE <<a, b>>
  IN  pair(category_of(l), category_of(r))

\* An operator looks at the categories, unless an operand is unresolved: then that is the type.
Operated(l, r, result(_)) ==
  LET of(pair) == IF pair[1] = "unresolved" THEN Accepted(l) ELSE IF pair[2] = "unresolved" THEN Accepted(r) ELSE result(pair)
  IN  of(category_pair(l, r))

DecimalOfUnknown(t) == IF t.kind = "unknown" THEN Decimal(1, 0) ELSE AsDecimal(t)   \* unary_decimal_promotion

AdditiveLeft(l, r) ==   \* mutant: the scale of the left operand
  IF binary_numeric_promotion(l, r).kind = "decimal" THEN Decimal(Any, DecimalOfUnknown(l).scale) ELSE binary_numeric_promotion(l, r)

LargerScale(a, b) == IF Any \in {a, b} THEN Any ELSE IF a < b THEN b ELSE a

\* process_numeric_additive_binary_operator
Additive(l, r) ==
  LET of(t) == IF t.kind # "decimal" THEN t ELSE Decimal(Any, LargerScale(DecimalOfUnknown(l).scale, DecimalOfUnknown(r).scale))
  IN  of(binary_numeric_promotion(l, r))

\* multiply, divide, remainder: any precision, any scale
Multiplicative(l, r) ==
  LET of(t) == IF t.kind = "decimal" THEN Decimal(Any, Any) ELSE t
  IN  of(binary_numeric_promotion(l, r))

\* unary_temporal_promotion
Moment(t) == IF t.kind = "unknown" THEN Type("time_point", 0, 0, FALSE) ELSE IF category_of(t) = "temporal" THEN t ELSE Error

add(l, r) ==
  Operated(l, r, LAMBDA pair :
        CASE pair = <<"number", "number">> -> Accepted(Additive(l, r))
          [] pair = <<"temporal", "datetime_interval">> -> Accepted(Moment(l))
          [] pair = <<"datetime_interval", "temporal">> -> Accepted(Moment(r))
          [] pair = <<"datetime_interval", "datetime_interval">> -> Accepted(BinaryPlain("datetime_interval", l, r))
          [] OTHER -> Raised)

subtract(l, r) ==
  Operated(l, r, LAMBDA pair :
        CASE pair = <<"number", "number">> -> Accepted(Additive(l, r))
          [] pair = <<"temporal", "datetime_interval">> -> Accepted(Moment(l))
          [] pair = <<"datetime_interval", "datetime_interval">> -> Accepted(BinaryPlain("datetime_interval", l, r))
          [] OTHER -> Raised)

multiply(l, r) ==
  Operated(l, r, LAMBDA pair :
        CASE pair = <<"number", "number">> -> Accepted(Multiplicative(l, r))
          [] pair \in {<<"number", "datetime_interval">>, <<"datetime_interval", "number">>} -> Accepted(Just("datetime_interval"))
          [] OTHER -> Raised)

\* and remainder
divide(l, r) ==
  Operated(l, r, LAMBDA pair :
        CASE pair = <<"number", "number">> -> Accepted(Multiplicative(l, r))
          [] pair = <<"datetime_interval", "number">> -> Accepted(Just("datetime_interval"))
          [] OTHER -> Raised)

LongerLength(l, r) ==   \* mutant: the longer of the two lengths
  IF Any \in {l.size, r.size} THEN Any ELSE IF l.size < r.size THEN r.size ELSE l.size

SumOfLengths(l, r) == IF Any \in {l.size, r.size} THEN Any ELSE l.size + r.size

StringPromotion(kind, l, r) == IF kind = "bit" THEN binary_bit_string_promotion(l, r) ELSE BinaryString(kind, l, r)

concat(l, r) ==
  Operated(l, r, LAMBDA pair :
        IF pair[1] \notin Text \/ pair[2] # pair[1] THEN Raised
        ELSE IF {l.kind, r.kind} = {pair[1]}
          THEN Accepted([StringPromotion(pair[1], l, r) EXCEPT !.size = SumOfLengths(l, r)])
        ELSE Accepted(StringPromotion(pair[1], l, r)))

ConditionalEach(l, r) ==   \* mutant: each operand that is no truth value is reported
  LET truth(i) == "unresolved" \in {category_of(l), category_of(r)} \/ category_pair(l, r)[i] \in {"boolean", "unknown"}
  IN  CheckedAll(Just("boolean"), <<truth(1), truth(2)>>)

\* conditional_and, conditional_or: the right operand is looked at where the left one is a truth value.
conditional_and(l, r) ==
  LET truths(pair) == "unresolved" \in {pair[1], pair[2]} \/ {pair[1], pair[2]} \subseteq {"boolean", "unknown"}
  IN  BooleanIf(truths(category_pair(l, r)))

\* Types without a common one are inconsistent, and the error that stands for it is not comparable.
Compared(cmp, t) == CheckedAll(Just("boolean"), <<~ Unresolved(t), is_comparable(cmp, t)>>)

ComparesAny(cmp, l, r) == Compared(cmp, Unify(l, r))   \* mutant: an unresolved operand is compared like any

\* compare, and quantified_compare
compare(cmp, l, r) ==
  IF Unresolved(l) \/ Unresolved(r) THEN Accepted(Just("boolean")) ELSE Compared(cmp, Unify(l, r))

\* match: the text, the pattern and the escape character, each by itself
match(input, pattern, escape) ==
  LET text(t) == category_of(t) \in {"character", "unknown", "unresolved"}
  IN  CheckedAll(Just("boolean"), <<text(input), text(pattern), text(escape)>>)

-----------------------------------------------------------------------------
(* Functions and search keys *)

\* validate_function_call: as many arguments as parameters, each assignable unless unresolved
ArgumentsFit(function, arguments) ==
  /\ ~ Unresolved(function.result)
  /\ Len(function.parameters) = Len(arguments)
  /\ \A i \in DOMAIN arguments :
       Unresolved(arguments[i]) \/ is_assignment_convertible(arguments[i], function.parameters[i]) = "yes"

\* validate_function_declaration: a function is scalar or gives a table, and not both
DeclaredAs(function, feature) == function.features \cap {"scalar_function", "table_valued_function"} = {feature}

\* function_call, aggregate_function_call
function_call(function, arguments) ==
  CheckedAll(function.result, <<DeclaredAs(function, "scalar_function"), ArgumentsFit(function, arguments)>>)
aggregate_function_call(function, arguments) == CheckedType(function.result, ArgumentsFit(function, arguments))

\* One operator or the other.
Unary(op, t) ==
  CASE op = "sign" -> Sign(t) [] op = "length" -> length(t) [] op = "not" -> Truth3(t) [] op = "is_null" -> is_null(t)
Binary(op, l, r) ==
  CASE op = "add" -> add(l, r) [] op = "subtract" -> subtract(l, r) [] op = "multiply" -> multiply(l, r)
    [] op = "divide" -> divide(l, r) [] op = "concat" -> concat(l, r) [] op = "and" -> conditional_and(l, r)
    [] op \in {"=", "<"} -> compare(op, l, r)

\* validate_keys: what is compared with a column of an index or exchange
search_key(value, column, ordered) ==
  /\ is_assignment_convertible(value, column) = "yes"
  /\ is_equality_comparable(value)
  /\ ordered => is_order_comparable(value)

=============================================================================
