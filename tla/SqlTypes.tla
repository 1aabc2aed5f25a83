------------------------------- MODULE SqlTypes -------------------------------
(***************************************************************************)
(* The types of yugawara::type, the conversions between them, and which of *)
(* them can be compared.                                                   *)
(*                                                                         *)
(* A type is its kind with what the conversions look at: the precision of  *)
(* a decimal, the length of a string or an identity in size; the scale of  *)
(* a decimal; and whether a string varies or a time has a zone in flag.    *)
(* Tables and the identifiers of rows, which no expression has, are left   *)
(* out.                                                                    *)
(***************************************************************************)
EXTENDS Integers, Sequences

Any == -1   \* std::nullopt

Integral == {"int1", "int2", "int4", "int8"}
Approximate == {"float4", "float8"}
Number == Integral \cup Approximate \cup {"decimal"}
Text == {"character", "octet", "bit"}
Clock == {"time_of_day", "time_point"}
Composed == {"array", "record", "declared", "extension"}
Plain == Integral \cup Approximate
          \cup {"boolean", "date", "datetime_interval", "blob", "clob", "unknown", "error", "pending"}
Kind == Plain \cup {"decimal"} \cup Text \cup Clock \cup Composed

Type(kind, size, scale, flag) == [kind |-> kind, size |-> size, scale |-> scale, flag |-> flag]
Just(kind) == Type(kind, 0, 0, FALSE)
Decimal(precision, scale) == Type("decimal", precision, scale, FALSE)
Varying(kind, length) == Type(kind, length, 0, TRUE)

\* The types there are.
SqlType ==
  {t \in [kind : Kind, size : Nat \cup {Any}, scale : Nat \cup {Any}, flag : BOOLEAN] :
     /\ t.kind \in Plain => t = Just(t.kind)
     /\ t.kind # "decimal" => t.scale = 0
     /\ t.kind \in {"decimal"} \cup Composed => ~ t.flag
     /\ t.kind \in Clock => t.size = 0}

Unknown == Just("unknown")
Error == Just("error")
Pending == Just("pending")

is_conversion_stop_type(t) == t.kind \in {"error", "pending"}

-----------------------------------------------------------------------------
(* Categories *)

category_of(t) ==
  CASE t.kind = "boolean" -> "boolean"
    [] t.kind \in Number -> "number"
    [] t.kind \in Text -> t.kind
    [] t.kind \in Clock \cup {"date"} -> "temporal"
    [] t.kind \in {"datetime_interval", "blob", "clob", "unknown"} -> t.kind
    [] t.kind = "array" -> "collection"
    [] t.kind = "record" -> "structure"
    [] t.kind = "declared" -> "unique"
    [] t.kind = "extension" -> "external"
    [] OTHER -> "unresolved"

unify_category(a, b) ==
  CASE a = b -> a
    [] a # b /\ "unresolved" \in {a, b} -> "unresolved"
    [] a # b /\ a = "unknown" /\ b # "unresolved" -> b
    [] a # b /\ b = "unknown" /\ a # "unresolved" -> a
    [] a # b /\ {"unresolved", "unknown"} \cap {a, b} = {} /\ "external" \in {a, b} -> "external"
    [] OTHER -> "none"

-----------------------------------------------------------------------------
(* Promotions.  None is asked about an erroneous or pending type.          *)

unary_numeric_promotion(t) ==
  CASE t.kind \in {"int1", "int2", "int4", "unknown"} -> Just("int4")
    [] t.kind \in {"int8", "float4", "float8", "decimal"} -> t
    [] OTHER -> Error

\* The decimal an exact number is promoted to before it meets another.
AsDecimal(t) == IF t.kind = "decimal" THEN t ELSE Decimal(IF t.kind = "int8" THEN 19 ELSE 10, 0)

UnifyDecimalsWiden(a, b) ==   \* mutant: the longer precision only if it is the second
  IF a.scale # b.scale THEN Decimal(Any, Any)
  ELSE Decimal(IF a.size = b.size \/ b.size = Any THEN b.size
               ELSE IF a.size # Any /\ a.size < b.size THEN b.size ELSE Any, a.scale)

UnifyDecimals(a, b) ==
  IF a.scale # b.scale THEN Decimal(Any, Any)
  ELSE Decimal(IF a.size = b.size THEN a.size
               ELSE IF Any \in {a.size, b.size} THEN Any
               ELSE IF a.size < b.size THEN b.size ELSE a.size, a.scale)

UnifyApproximateNarrow(t, with) ==   \* mutant: float8 only if both are
  Just(IF t.kind = "float8" /\ with.kind = "float8" THEN "float8" ELSE "float4")

UnifyApproximate(t, with) == Just(IF t.kind = "float4" /\ with.kind = "float4" THEN "float4" ELSE "float8")

binary_numeric_promotion(t, with) ==
  IF ~ {t.kind, with.kind} \subseteq Number \cup {"unknown"} THEN Error
  ELSE IF with.kind = "unknown" THEN unary_numeric_promotion(t)
  ELSE IF t.kind = "unknown" THEN unary_numeric_promotion(with)
  ELSE IF {t.kind, with.kind} \cap Approximate # {} THEN UnifyApproximate(t, with)
  ELSE IF "decimal" \in {t.kind, with.kind} THEN UnifyDecimals(AsDecimal(t), AsDecimal(with))
  ELSE Just(IF "int8" \in {t.kind, with.kind} THEN "int8" ELSE "int4")

\* unary_character_string_promotion, and those of octets and bits.
UnaryString(kind, t) ==
  CASE t.kind = kind -> Varying(kind, t.size)
    [] t.kind = "unknown" -> Varying(kind, 0)
    [] OTHER -> Error

BinaryStringShorter(kind, t, with) ==   \* mutant: the shorter length
  IF t.kind = kind /\ with.kind = kind
    THEN Varying(kind, IF t.size = Any \/ (with.size # Any /\ with.size < t.size) THEN with.size ELSE t.size)
  ELSE IF with.kind = "unknown" THEN UnaryString(kind, t)
  ELSE IF t.kind = "unknown" THEN UnaryString(kind, with)
  ELSE Error

BinaryStringWiden(kind, t, with) ==   \* mutant: the longer length only if it is the second
  IF t.kind = kind /\ with.kind = kind
    THEN Varying(kind, IF t.size # Any /\ t.size <= with.size THEN with.size ELSE Any)
  ELSE IF with.kind = "unknown" THEN UnaryString(kind, t)
  ELSE IF t.kind = "unknown" THEN UnaryString(kind, with)
  ELSE Error

\* binary_character_string_promotion and that of octets.
BinaryString(kind, t, with) ==
  IF t.kind = kind /\ with.kind = kind THEN Varying(kind, IF t.size = with.size THEN t.size ELSE Any)
  ELSE IF with.kind = "unknown" THEN UnaryString(kind, t)
  ELSE IF t.kind = "unknown" THEN UnaryString(kind, with)
  ELSE Error

binary_bit_string_promotion(t, with) ==
  IF {t.kind, with.kind} \subseteq {"bit", "unknown"} THEN UnaryString("bit", t) ELSE Error

\* The binary promotions of kinds of one type: booleans, intervals and large objects.
BinaryPlain(kind, t, with) == IF {t.kind, with.kind} \subseteq {kind, "unknown"} THEN Just(kind) ELSE Error

identity_conversion(t, with) ==
  CASE t.kind = "unknown" -> with
    [] with.kind = "unknown" -> t
    [] t.kind # "unknown" /\ with.kind # "unknown" /\ t = with -> t
    [] OTHER -> Error

binary_external_promotion(t, with) ==
  IF t.kind = "extension" /\ with.kind = "extension" /\ t = with THEN t ELSE Error

-----------------------------------------------------------------------------
(* The common type *)

\* unifying_conversion of one type; temporal types and those of one type are kept.
UnaryUnify(t) ==
  CASE category_of(t) = "number" -> unary_numeric_promotion(t)
    [] category_of(t) \in Text -> UnaryString(t.kind, t)
    [] category_of(t) = "unresolved" -> Pending
    [] OTHER -> t

Unify(t, with) ==
  LET c == unify_category(category_of(t), category_of(with))
  IN  CASE c = "unresolved" -> Pending
        [] c = "none" -> Error
        [] c = "unknown" -> t
        [] c = "number" -> binary_numeric_promotion(t, with)
        [] c \in {"character", "octet"} -> BinaryString(c, t, with)
        [] c = "bit" -> binary_bit_string_promotion(t, with)
        [] c \in {"boolean", "datetime_interval", "blob", "clob"} -> BinaryPlain(c, t, with)
        [] c = "external" -> binary_external_promotion(t, with)
        [] OTHER -> identity_conversion(t, with)

-----------------------------------------------------------------------------
(* Conversions to a given type: "yes", "no" or "unknown" *)

ternary_of(b) == IF b THEN "yes" ELSE "no"

Stops(t, target) == is_conversion_stop_type(t) \/ is_conversion_stop_type(target)

AssignmentStrict(t, target) ==   \* mutant: strings only to the same type
  IF Stops(t, target) THEN "unknown"
  ELSE IF t.kind = "unknown" THEN "yes"
  ELSE CASE t.kind \in Approximate -> ternary_of(target.kind \in Approximate)
         [] t.kind \in Number \ Approximate -> ternary_of(target.kind \in Number)
         [] t.kind = "date" -> ternary_of(target.kind \in {"date", "time_point"})
         [] t.kind \in Clock /\ target.kind \in Clock -> ternary_of(t.flag = target.flag)
         [] t.kind \in Clock /\ target.kind \notin Clock ->
              ternary_of(t.kind = "time_point" /\ target.kind = "date")
         [] t.kind \in Composed -> ternary_of(t = target)
         [] OTHER -> ternary_of(t = target)

is_assignment_convertible(t, target) ==
  IF Stops(t, target) THEN "unknown"
  ELSE IF t.kind = "unknown" THEN "yes"
  ELSE CASE t.kind \in Approximate -> ternary_of(target.kind \in Approximate)
         [] t.kind \in Number \ Approximate -> ternary_of(target.kind \in Number)
         [] t.kind = "date" -> ternary_of(target.kind \in {"date", "time_point"})
         [] t.kind \in Clock /\ target.kind \in Clock -> ternary_of(t.flag = target.flag)
         [] t.kind \in Clock /\ target.kind \notin Clock ->
              ternary_of(t.kind = "time_point" /\ target.kind = "date")
         [] t.kind \in Composed -> ternary_of(t = target)
         [] OTHER -> ternary_of(t.kind = target.kind)

CastExact(t, target) ==   \* mutant: no approximate number becomes exact
  LET assignable == is_assignment_convertible(t, target)
  IN  IF assignable # "no" THEN assignable
      ELSE IF "character" \in {t.kind, target.kind} THEN ternary_of(t.kind # "blob")
      ELSE ternary_of(\/ t.kind \in Clock /\ target.kind \in Clock
                      \/ {t.kind, target.kind} = {"octet", "blob"})

is_cast_convertible(t, target) ==
  LET assignable == is_assignment_convertible(t, target)
  IN  IF assignable # "no" THEN assignable
      ELSE IF "character" \in {t.kind, target.kind} THEN ternary_of(t.kind # "blob")
      ELSE ternary_of(\/ t.kind \in Approximate /\ target.kind \in Number
                      \/ t.kind \in Clock /\ target.kind \in Clock
                      \/ {t.kind, target.kind} = {"octet", "blob"})

is_most_upperbound_compatible_type(t) ==
  CASE is_conversion_stop_type(t) -> "unknown"
    [] t.kind \in {"int1", "int2"} -> "no"
    [] t.kind = "decimal" -> ternary_of(t = Decimal(Any, Any))
    [] t.kind \in Text -> ternary_of(t.flag /\ t.size = Any)
    [] OTHER -> "yes"

\* The numbers in the order in which each may be passed for the next.
Passed == <<"int1", "int2", "int4", "int8", "decimal", "float4", "float8">>
Rank(kind) == CHOOSE i \in 1 .. 7 : Passed[i] = kind

ParameterWithin(t, target) ==   \* mutant: within exact and approximate numbers any
  IF Stops(t, target) \/ is_most_upperbound_compatible_type(target) = "no" THEN "unknown"
  ELSE IF t.kind = "unknown" THEN "yes"
  ELSE IF {t.kind, target.kind} \subseteq Number THEN ternary_of((t.kind \in Approximate) => (target.kind \in Approximate))
  ELSE ternary_of(/\ t.kind = target.kind
                  /\ t.kind \in Clock \cup Text \cup {"boolean", "date", "blob", "clob"}
                  /\ t.kind \in Clock => t.flag = target.flag)

is_parameter_application_convertible(t, target) ==
  IF Stops(t, target) \/ is_most_upperbound_compatible_type(target) = "no" THEN "unknown"
  ELSE IF t.kind = "unknown" THEN "yes"
  ELSE IF {t.kind, target.kind} \subseteq Number THEN ternary_of(Rank(t.kind) <= Rank(target.kind))
  ELSE ternary_of(/\ t.kind = target.kind
                  /\ t.kind \in Clock \cup Text \cup {"boolean", "date", "blob", "clob"}
                  /\ t.kind \in Clock => t.flag = target.flag)

-----------------------------------------------------------------------------
(* Comparisons *)

is_order_comparable(t) == t.kind \in Number \cup Text \cup Clock \cup {"boolean", "date"}
is_equality_comparable(t) == is_order_comparable(t) \/ t.kind \in {"datetime_interval", "array", "record", "unknown"}
is_comparable(cmp, t) == IF cmp \in {"=", "<>"} THEN is_equality_comparable(t) ELSE is_order_comparable(t)

=============================================================================
