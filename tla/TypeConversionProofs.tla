------------------------- MODULE TypeConversionProofs -------------------------
(***************************************************************************)
(* For types of any precision, scale and length, folded in any number:     *)
(* a common type holds everything that was folded into it and does not     *)
(* depend on which of two types comes first (bits excepted, of which       *)
(* neither is true); the tables of common types, assignments and           *)
(* parameters agree; and operators give types that their operands fit      *)
(* into, or report a mistake once.                                         *)
(*                                                                         *)
(* A fold makes of types, bits excepted, the least type within which all   *)
(* of them are, and the least one does not depend on their order.  What a  *)
(* recursive function computes is proved by its least exception: of the    *)
(* numbers for which it would compute something else there would be a      *)
(* least one.                                                              *)
(***************************************************************************)
EXTENDS TypeConversion, FiniteSetTheorems, SequenceTheorems, WellFoundedInduction, TLAPS

LEMMA DecimalHoldsTransitive ==
  ASSUME NEW t \in SqlType, NEW u \in SqlType, NEW v \in SqlType,
         HoldsDecimal(u, v), HoldsDecimal(t, u)
  PROVE  HoldsDecimal(t, v)
  BY DEF HoldsDecimal, SqlType, Any

\* A type that holds a type holds all that the latter holds.
LEMMA HoldsTransitive ==
  ASSUME NEW t \in SqlType, NEW u \in SqlType, NEW v \in SqlType, Holds(u, v), Holds(t, u)
  PROVE  Holds(t, v)
<1>1. CASE u = t \/ v = u \/ v.kind = "unknown"
  BY <1>1 DEF Holds
<1>2. CASE v.kind \in Text /\ u.kind \in Text /\ t.kind \in Text
  BY <1>2 DEF Holds, Text, Integral, Number, Approximate, SqlType, Any
<1>3. CASE v.kind \in Integral
  BY <1>3 DEF Holds, HoldsDecimal, AsDecimal, Decimal, Type, Text, Integral, Number, Approximate, SqlType, Any, Plain, Just
<1>4. CASE v.kind = "decimal"
  BY <1>4, DecimalHoldsTransitive DEF Holds, AsDecimal, Text, Integral, Number, Approximate
<1>5. CASE v.kind \in Approximate
  BY <1>5 DEF Holds, Text, Integral, Number, Approximate, SqlType, Plain, Just
<1>6. QED
  BY <1>1, <1>2, <1>3, <1>4, <1>5 DEF Holds, Text, Integral, Number, Approximate

\* The types but those of bits.
Bitless == {t \in SqlType : t.kind # "bit"}

LEMMA DecimalType ==
  ASSUME NEW p \in Nat \cup {Any}, NEW s \in Nat \cup {Any}
  PROVE  Decimal(p, s) \in Bitless
  BY DEF Decimal, Type, Bitless, SqlType, Kind, Plain, Composed, Clock, Text, Integral, Approximate, Any

LEMMA PlainType ==
  ASSUME NEW k \in Plain
  PROVE  Just(k) \in Bitless
  BY DEF Just, Type, Bitless, SqlType, Kind, Plain, Composed, Clock, Text, Integral, Approximate

LEMMA StringType ==
  ASSUME NEW k \in {"character", "octet"}, NEW n \in Nat \cup {Any}
  PROVE  Varying(k, n) \in Bitless
  BY DEF Varying, Type, Bitless, SqlType, Kind, Plain, Composed, Clock, Text, Integral, Approximate

\* Of numbers.
LEMMA NumbersHeld ==
  ASSUME NEW t \in Bitless, NEW w \in Bitless,
         t.kind \in Number \cup {"unknown"}, w.kind \in Number \cup {"unknown"}
  PROVE  LET u == binary_numeric_promotion(t, w)
         IN  u \in Bitless /\ Holds(u, t) /\ Holds(u, w)
<1>1. CASE w.kind = "unknown" \/ t.kind = "unknown"
  <2>1. ASSUME NEW x \in Bitless, x.kind \in Number \cup {"unknown"}
        PROVE  unary_numeric_promotion(x) \in Bitless /\ Holds(unary_numeric_promotion(x), x)
    BY <2>1, PlainType DEF unary_numeric_promotion, Holds, Number, Integral, Approximate, Plain, Just, Type
  <2>2. QED
    BY <1>1, <2>1 DEF binary_numeric_promotion, Holds
<1>2. CASE {t.kind, w.kind} \cap Approximate # {} /\ "unknown" \notin {t.kind, w.kind}
  BY <1>2, PlainType DEF binary_numeric_promotion, UnifyApproximate, Holds, Number, Integral, Approximate, Plain,
     Just, Type, Bitless, SqlType
<1>3. CASE /\ {t.kind, w.kind} \cap Approximate = {} /\ "unknown" \notin {t.kind, w.kind}
           /\ "decimal" \in {t.kind, w.kind}
  <2>1. binary_numeric_promotion(t, w) = UnifyDecimals(AsDecimal(t), AsDecimal(w))
    BY <1>3 DEF binary_numeric_promotion
  <2>2. ASSUME NEW x \in Bitless, x.kind \in Integral \cup {"decimal"}
        PROVE  AsDecimal(x) \in Bitless /\ AsDecimal(x).kind = "decimal"
    BY <2>2, DecimalType DEF AsDecimal, Decimal, Type
  <2>3. ASSUME NEW a \in Bitless, NEW b \in Bitless
        PROVE  LET u == UnifyDecimals(a, b)
               IN  u \in Bitless /\ u.kind = "decimal" /\ HoldsDecimal(u, a) /\ HoldsDecimal(u, b)
    BY DecimalType DEF UnifyDecimals, Decimal, Type, HoldsDecimal, Bitless, SqlType, Any
  <2>4. t.kind \in Integral \cup {"decimal"} /\ w.kind \in Integral \cup {"decimal"}
    BY <1>3 DEF Number, Integral, Approximate
  <2>5. QED
    BY <2>1, <2>2, <2>3, <2>4 DEF Holds
<1>4. CASE {t.kind, w.kind} \cap (Approximate \cup {"decimal", "unknown"}) = {}
  <2>1. t.kind \in Integral /\ w.kind \in Integral
    BY <1>4 DEF Number
  <2>2. binary_numeric_promotion(t, w) = Just(IF "int8" \in {t.kind, w.kind} THEN "int8" ELSE "int4")
    BY <1>4, <2>1 DEF binary_numeric_promotion, Number
  <2>3. Just("int8") \in Bitless /\ Just("int4") \in Bitless
    BY PlainType DEF Plain, Integral
  <2>4. Just("int8").kind = "int8" /\ Just("int4").kind = "int4"
    BY DEF Just, Type
  <2>5. CASE t.kind = "int8" \/ w.kind = "int8"
    BY <2>1, <2>2, <2>3, <2>4, <2>5 DEF Holds
  <2>6. CASE t.kind # "int8" /\ w.kind # "int8"
    BY <2>1, <2>2, <2>3, <2>4, <2>6 DEF Holds, Integral
  <2>7. QED
    BY <2>5, <2>6
<1>5. QED
  BY <1>1, <1>2, <1>3, <1>4

\* Of characters, and of octets.
LEMMA StringsHeld ==
  ASSUME NEW k \in {"character", "octet"}, NEW t \in Bitless, NEW w \in Bitless,
         t.kind \in {k, "unknown"}, w.kind \in {k, "unknown"}
  PROVE  LET u == BinaryString(k, t, w)
         IN  u \in Bitless /\ Holds(u, t) /\ Holds(u, w)
<1>1. ASSUME NEW x \in Bitless, x.kind \in {k, "unknown"}
      PROVE  UnaryString(k, x) \in Bitless /\ Holds(UnaryString(k, x), x)
  BY <1>1, StringType DEF UnaryString, Holds, Varying, Type, Text, Bitless, SqlType, Any
<1>2. CASE t.kind = k /\ w.kind = k
  BY <1>2, StringType DEF BinaryString, Holds, Varying, Type, Text, Bitless, SqlType, Any
<1>3. CASE ~ (t.kind = k /\ w.kind = k)
  BY <1>1, <1>3 DEF BinaryString, Holds
<1>4. QED
  BY <1>2, <1>3

LEMMA ErrorType == Error \in Bitless /\ Pending \in Bitless /\ Unknown \in Bitless
  BY PlainType DEF Error, Pending, Unknown, Plain

\* What unifying_conversion makes of two types holds both, if it is a type at all.
THEOREM CommonTypeHolds ==
  ASSUME NEW t \in Bitless, NEW w \in Bitless
  PROVE  LET u == Unify(t, w)
         IN  u \in Bitless /\ (~ is_conversion_stop_type(u) => Holds(u, t) /\ Holds(u, w))
<1> DEFINE c == unify_category(category_of(t), category_of(w))
<1>1. CASE c \in {"unresolved", "none"}
  BY <1>1, ErrorType DEF Unify, is_conversion_stop_type, Error, Pending, Just, Type
<1>2. CASE c = "unknown"
  BY <1>2 DEF Unify, Holds, unify_category, category_of
<1>3. CASE c = "number"
  <2>1. t.kind \in Number \cup {"unknown"} /\ w.kind \in Number \cup {"unknown"}
    BY <1>3 DEF unify_category, category_of, Text
  <2>2. Unify(t, w) = binary_numeric_promotion(t, w)
    BY <1>3 DEF Unify
  <2>3. QED
    BY <2>1, <2>2, NumbersHeld
<1>4. CASE c \in {"character", "octet"}
  <2>1. t.kind \in {c, "unknown"} /\ w.kind \in {c, "unknown"}
    <3>1. category_of(t) \in {c, "unknown"} /\ category_of(w) \in {c, "unknown"}
      BY <1>4 DEF unify_category
    <3>2. \A x \in Bitless : category_of(x) \in {"character", "octet", "unknown"} => x.kind = category_of(x)
      BY DEF category_of, Text
    <3>3. QED
      BY <1>4, <3>1, <3>2
  <2>2. Unify(t, w) = BinaryString(c, t, w)
    BY <1>4 DEF Unify
  <2>3. QED
    BY <1>4, <2>1, <2>2, StringsHeld
<1>5. CASE c \in {"boolean", "datetime_interval", "blob", "clob"}
  BY <1>5, PlainType, ErrorType DEF Unify, BinaryPlain, Holds, Plain, Error, Just, Type, is_conversion_stop_type,
     Bitless, SqlType
<1>6. CASE c = "external"
  BY <1>6, ErrorType DEF Unify, binary_external_promotion, Holds, Error, Just, Type, is_conversion_stop_type
<1>7. c # "bit"
  BY DEF unify_category, category_of, Text, Bitless
<1>8. CASE c \in {"temporal", "collection", "structure", "unique"}
  BY <1>8, ErrorType DEF Unify, identity_conversion, Holds, Error, Just, Type, is_conversion_stop_type
<1>9. c \in {"unresolved", "none", "unknown", "number", "character", "octet", "bit", "boolean", "datetime_interval",
            "blob", "clob", "external", "temporal", "collection", "structure", "unique"}
  BY DEF unify_category, category_of, Text
<1>10. QED
  BY <1>1, <1>2, <1>3, <1>4, <1>5, <1>6, <1>7, <1>8, <1>9

-----------------------------------------------------------------------------

LEMMA ListType ==
  ASSUME NEW n \in Nat, NEW ts \in [1 .. n -> Types]
  PROVE  Len(ts) = n /\ DOMAIN ts = 1 .. n
<1>1. ts \in Seq(Types)
  BY SeqDef
<1>2. QED
  BY <1>1, LenProperties

\* What HoldsAll rests on: the result is a type, and holds all that was folded.
Folding ==
  /\ fold \in Fold
  /\ \E n \in 1 .. MaxLength : types \in [1 .. n -> Types]
  /\ at \in 0 .. Len(types)
  /\ result \in Bitless
  /\ HoldsAll

\* One type alone, in whatever fold, is held by what the fold starts with.
LEMMA StartHolds ==
  ASSUME NEW t \in Bitless
  PROVE  /\ UnaryUnify(t) \in Bitless
         /\ ~ is_conversion_stop_type(UnaryUnify(t)) => Holds(UnaryUnify(t), t)
<1>1. CASE category_of(t) = "number"
  BY <1>1, PlainType DEF category_of, UnaryUnify, unary_numeric_promotion, Holds, Number, Integral, Approximate,
     Plain, Just, Type, Text
<1>2. CASE category_of(t) \in Text
  <2>1. t.kind \in {"character", "octet"}
    BY <1>2 DEF category_of, Text, Bitless
  <2>2. UnaryUnify(t) = Varying(t.kind, t.size)
    BY <1>2, <2>1 DEF UnaryUnify, UnaryString, Text
  <2>3. QED
    BY <2>1, <2>2, StringType DEF Varying, Type, Holds, Text, Bitless, SqlType, Any
<1>3. CASE category_of(t) = "unresolved"
  BY <1>3, ErrorType DEF UnaryUnify, Text, is_conversion_stop_type, Pending, Just, Type
<1>4. CASE category_of(t) \notin Text \cup {"number", "unresolved"}
  BY <1>4 DEF UnaryUnify, Holds
<1>5. QED
  BY <1>1, <1>2, <1>3, <1>4

LEMMA InitFolding ==
  ASSUME \A t \in Types : t.kind # "bit", Init
  PROVE  Folding
<1>1. PICK n \in 1 .. MaxLength : types \in [1 .. n -> Types]
  BY DEF Init
<1>2. MaxLength \in Nat /\ n \in Nat /\ Len(types) = n /\ n >= 1
  BY <1>1, TypesAssumption, ListType
<1>3. types[1] \in Bitless
  BY <1>1, <1>2, TypesAssumption DEF Bitless
<1>4. CASE fold = "case"
  BY <1>1, <1>2, <1>4, ErrorType DEF Init, Start, Folding, HoldsAll
<1>5. CASE fold = "range" /\ Len(types) = 1
  BY <1>1, <1>2, <1>3, <1>5, StartHolds DEF Init, Start, Folding, HoldsAll
<1>6. CASE fold # "case" /\ ~ (fold = "range" /\ Len(types) = 1)
  BY <1>1, <1>2, <1>3, <1>6 DEF Init, Start, Folding, HoldsAll, Holds
<1>7. QED
  BY <1>4, <1>5, <1>6

LEMMA NextFolding ==
  ASSUME \A t \in Types : t.kind # "bit", Folding, [Next]_vars
  PROVE  Folding'
<1>1. CASE UNCHANGED vars
  BY <1>1 DEF Folding, HoldsAll, vars
<1>2. CASE Step
  <2>1. PICK n \in 1 .. MaxLength : types \in [1 .. n -> Types]
    BY DEF Folding
  <2>2. MaxLength \in Nat /\ n \in Nat /\ Len(types) = n
    BY <2>1, TypesAssumption, ListType
  <2>3. at \in 0 .. n /\ at + 1 \in 1 .. n /\ at' = at + 1 /\ types' = types /\ fold' = fold
    BY <1>2, <2>2 DEF Step, Folding
  <2> DEFINE next == types[at + 1]
  <2>4. next \in Bitless /\ \A i \in 1 .. at : types[i] \in Bitless
    BY <2>1, <2>2, <2>3, TypesAssumption DEF Bitless
  <2>5. result \in Bitless
    BY DEF Folding
  <2>6. result' \in Bitless /\ (~ is_conversion_stop_type(result') => Holds(result', result) /\ Holds(result', next))
    <3>1. CASE fold = "cogroup" /\ result = next
      BY <1>2, <2>5, <3>1 DEF Step, Folded, Holds
    <3>2. CASE fold = "offer"
      BY <1>2, <2>4, <2>5, <3>2, CommonTypeHolds DEF Step, Folded
    <3>3. CASE fold # "offer" /\ ~ (fold = "cogroup" /\ result = next)
      BY <1>2, <2>4, <2>5, <3>3, CommonTypeHolds DEF Step, Folded
    <3>4. QED
      BY <3>1, <3>2, <3>3
  <2>7. ASSUME ~ is_conversion_stop_type(result'), NEW i \in 1 .. at'
        PROVE  Holds(result', types[i])
    <3>1. CASE i = at + 1
      BY <2>6, <2>7, <3>1
    <3>2. CASE i \in 1 .. at
      <4>1. CASE ~ is_conversion_stop_type(result)
        <5>1. Holds(result, types[i])
          BY <3>2, <4>1 DEF Folding, HoldsAll
        <5>2. QED
          BY <2>4, <2>5, <2>6, <2>7, <3>2, <5>1, HoldsTransitive DEF Bitless
      <4>2. CASE is_conversion_stop_type(result)
        \* Only the first type of a range is folded although it stops the fold.
        <5>1. result.kind \in {"error", "pending"}
          BY <4>2 DEF is_conversion_stop_type
        <5>2. result' = result
          BY <2>6, <2>7, <5>1 DEF Holds, Number, Integral, Approximate, Text
        <5>3. QED
          BY <2>7, <4>2, <5>2
      <4>3. QED
        BY <4>1, <4>2
    <3>3. QED
      BY <2>3, <3>1, <3>2
  <2>8. QED
    BY <2>1, <2>2, <2>3, <2>6, <2>7 DEF Folding, HoldsAll
<1>3. QED
  BY <1>1, <1>2 DEF Next

\* The common type of any number of types of any length holds every value of every one of them.
THEOREM FoldHolds ==
  ASSUME \A t \in Types : t.kind # "bit"
  PROVE  Spec => []HoldsAll
<1>1. Init => Folding
  BY InitFolding
<1>2. Folding /\ [Next]_vars => Folding'
  BY NextFolding
<1>3. Folding => HoldsAll
  BY DEF Folding
<1>4. QED
  BY <1>1, <1>2, <1>3, PTL DEF Spec

-----------------------------------------------------------------------------

\* What unifying_conversion makes of two types does not depend on which comes first: the two
\* sides of a union, or two offers to an exchange.
THEOREM CommonTypeCommutes ==
  ASSUME NEW t \in Bitless, NEW w \in Bitless
  PROVE  Unify(t, w) = Unify(w, t)
<1> DEFINE c == unify_category(category_of(t), category_of(w))
<1>1. c = unify_category(category_of(w), category_of(t))
  BY DEF unify_category
<1>2. CASE c \in {"unresolved", "none"}
  BY <1>1, <1>2 DEF Unify
<1>3. CASE c = "unknown"
  BY <1>1, <1>3 DEF Unify, unify_category, category_of, Bitless, SqlType, Plain, Text
<1>4. CASE c = "number"
  <2>1. UnifyDecimals(AsDecimal(t), AsDecimal(w)) = UnifyDecimals(AsDecimal(w), AsDecimal(t))
    <3>1. AsDecimal(t) \in Bitless /\ AsDecimal(w) \in Bitless
      BY DecimalType DEF AsDecimal
    <3>2. ASSUME NEW a \in Bitless, NEW b \in Bitless
          PROVE  UnifyDecimals(a, b) = UnifyDecimals(b, a)
      BY DEF UnifyDecimals, Bitless, SqlType, Any
    <3>3. QED
      BY <3>1, <3>2
  <2>2. t.kind = "unknown" /\ w.kind = "unknown" => t = w
    BY DEF Bitless, SqlType, Plain
  <2>3. binary_numeric_promotion(t, w) = binary_numeric_promotion(w, t)
    BY <2>1, <2>2 DEF binary_numeric_promotion, UnifyApproximate
  <2>4. QED
    BY <1>1, <1>4, <2>3 DEF Unify
<1>5. CASE c \in {"character", "octet"}
  <2>1. t.kind = "unknown" /\ w.kind = "unknown" => t = w
    BY DEF Bitless, SqlType, Plain
  <2>2. BinaryString(c, t, w) = BinaryString(c, w, t)
    BY <2>1 DEF BinaryString
  <2>3. QED
    BY <1>1, <1>5, <2>2 DEF Unify
<1>6. CASE c \in {"boolean", "datetime_interval", "blob", "clob"}
  BY <1>1, <1>6 DEF Unify, BinaryPlain
<1>7. CASE c = "external"
  BY <1>1, <1>7 DEF Unify, binary_external_promotion
<1>8. c # "bit"
  BY DEF unify_category, category_of, Text, Bitless
<1>9. CASE c \in {"temporal", "collection", "structure", "unique"}
  <2>1. t.kind = "unknown" /\ w.kind = "unknown" => t = w
    BY DEF Bitless, SqlType, Plain
  <2>2. QED
    BY <1>1, <1>9, <2>1 DEF Unify, identity_conversion
<1>10. c \in {"unresolved", "none", "unknown", "number", "character", "octet", "bit", "boolean", "datetime_interval",
             "blob", "clob", "external", "temporal", "collection", "structure", "unique"}
  BY DEF unify_category, category_of, Text
<1>11. QED
  BY <1>2, <1>3, <1>4, <1>5, <1>6, <1>7, <1>8, <1>9, <1>10

-----------------------------------------------------------------------------
(* The tables of assignments, casts and parameters agree with the common   *)
(* types, for types of bits too.                                           *)

\* What a fold may make of a type: NULL becomes anything, a number a number, though an
\* approximate one no exact one, and a string a string of another length.
Becomes(t, u) ==
  \/ t = u
  \/ t.kind = "unknown"
  \/ /\ t.kind \in Number /\ u.kind \in Number
     /\ t.kind \in Approximate => u.kind \in Approximate
  \/ t.kind = u.kind /\ t.kind \in Text

LEMMA BecomesTransitive ==
  ASSUME NEW t, NEW u, NEW v, Becomes(t, u), Becomes(u, v)
  PROVE  Becomes(t, v)
  BY DEF Becomes, Number, Integral, Approximate, Text

\* What has become another type can be assigned to it, and cast back from it unless it was NULL.
LEMMA BecomesConverts ==
  ASSUME NEW t \in SqlType, NEW u \in SqlType, Becomes(t, u), ~ is_conversion_stop_type(u)
  PROVE  /\ is_assignment_convertible(t, u) = "yes"
         /\ t.kind # "unknown" => is_cast_convertible(u, t) = "yes"
<1>1. CASE t.kind = "unknown"
  BY <1>1 DEF is_assignment_convertible, Stops, is_conversion_stop_type
<1>2. CASE t.kind \in Number /\ u.kind \in Number /\ (t.kind \in Approximate => u.kind \in Approximate)
  <2>1. ~ Stops(t, u) /\ ~ Stops(u, t) /\ t.kind # "unknown" /\ u.kind # "unknown"
    BY <1>2 DEF Stops, is_conversion_stop_type, Number, Integral, Approximate
  <2>2. is_assignment_convertible(t, u) = "yes"
    BY <1>2, <2>1 DEF is_assignment_convertible, ternary_of, Number, Integral, Approximate, Clock, Composed
  <2>3. is_assignment_convertible(u, t) \in {"yes", "no"} /\ (is_assignment_convertible(u, t) = "no" => u.kind \in Approximate)
    BY <1>2, <2>1 DEF is_assignment_convertible, ternary_of, Number, Integral, Approximate, Clock, Composed
  <2>4. is_cast_convertible(u, t) = "yes"
    BY <1>2, <2>3 DEF is_cast_convertible, ternary_of, Number, Integral, Approximate
  <2>5. QED
    BY <2>2, <2>4
<1>3. CASE t.kind = u.kind /\ t.kind \in Text
  BY <1>3 DEF is_assignment_convertible, is_cast_convertible, ternary_of, Stops, is_conversion_stop_type,
     Number, Integral, Approximate, Text, Clock, Composed
<1>4. CASE t = u
  <2>1. is_assignment_convertible(u, u) = "yes"
    BY <1>4 DEF is_assignment_convertible, ternary_of, Stops
  <2>2. QED
    BY <1>4, <2>1 DEF is_cast_convertible
<1>5. QED
  BY <1>1, <1>2, <1>3, <1>4 DEF Becomes

LEMMA PromotedString ==
  ASSUME NEW k \in Text, NEW t \in SqlType, NEW w \in SqlType,
         t.kind \in {k, "unknown"}, w.kind \in {k, "unknown"}, t.kind = k \/ w.kind = k
  PROVE  /\ UnaryString(k, t) \in SqlType /\ UnaryString(k, t).kind = k
         /\ BinaryString(k, t, w) \in SqlType /\ BinaryString(k, t, w).kind = k
<1>1. ASSUME NEW n \in Nat \cup {Any}
      PROVE  Varying(k, n) \in SqlType /\ Varying(k, n).kind = k
  BY DEF Varying, Type, SqlType, Kind, Plain, Composed, Clock, Text, Integral, Approximate, Any
<1>2. t.size \in Nat \cup {Any} /\ w.size \in Nat \cup {Any} /\ 0 \in Nat /\ Any = Any
  BY DEF SqlType
<1>3. ASSUME NEW x \in SqlType, x.kind \in {k, "unknown"}
      PROVE  UnaryString(k, x) \in SqlType /\ UnaryString(k, x).kind = k
  <2>1. x.size \in Nat \cup {Any}
    BY DEF SqlType
  <2>2. QED
    BY <1>1, <1>3, <2>1 DEF UnaryString, Text
<1>4. QED
  BY <1>1, <1>2, <1>3 DEF BinaryString

LEMMA PromotedNumber ==
  ASSUME NEW t \in SqlType, NEW w \in SqlType,
         t.kind \in Number \cup {"unknown"}, w.kind \in Number \cup {"unknown"}
  PROVE  LET u == binary_numeric_promotion(t, w)
         IN  u \in SqlType /\ Becomes(t, u) /\ Becomes(w, u)
<1>1. t \in Bitless /\ w \in Bitless
  BY DEF Bitless, Number, Integral, Approximate
<1>2. binary_numeric_promotion(t, w) \in SqlType
  BY <1>1, NumbersHeld DEF Bitless
<1>3. ASSUME NEW x \in SqlType, x.kind \in Number \cup {"unknown"}
      PROVE  /\ unary_numeric_promotion(x).kind \in Number
             /\ x.kind \in Approximate => unary_numeric_promotion(x).kind \in Approximate
  BY <1>3 DEF unary_numeric_promotion, Number, Integral, Approximate, Just, Type
<1>4. CASE "unknown" \in {t.kind, w.kind}
  BY <1>2, <1>3, <1>4 DEF binary_numeric_promotion, Becomes
<1>5. CASE "unknown" \notin {t.kind, w.kind}
  <2>1. LET u == binary_numeric_promotion(t, w)
        IN  u.kind \in Number /\ ({t.kind, w.kind} \cap Approximate # {} => u.kind \in Approximate)
    BY <1>5 DEF binary_numeric_promotion, UnifyApproximate, UnifyDecimals, Decimal, Just, Type, Number, Integral, Approximate
  <2>2. QED
    BY <1>2, <1>5, <2>1 DEF Becomes
<1>6. QED
  BY <1>4, <1>5

\* Two types become their common type, if it is a type at all.
LEMMA BecomeCommon ==
  ASSUME NEW t \in SqlType, NEW w \in SqlType
  PROVE  LET u == Unify(t, w)
         IN  u \in SqlType /\ (~ is_conversion_stop_type(u) => Becomes(t, u) /\ Becomes(w, u))
<1> DEFINE c == unify_category(category_of(t), category_of(w))
<1>0. Error \in SqlType /\ Pending \in SqlType
  BY ErrorType DEF Bitless
<1>1. CASE c \in {"unresolved", "none"}
  BY <1>0, <1>1 DEF Unify, is_conversion_stop_type, Error, Pending, Just, Type
<1>2. CASE c = "unknown"
  BY <1>2 DEF Unify, Becomes, unify_category, category_of
<1>3. CASE c = "number"
  <2>1. t.kind \in Number \cup {"unknown"} /\ w.kind \in Number \cup {"unknown"}
    BY <1>3 DEF unify_category, category_of, Text
  <2>2. Unify(t, w) = binary_numeric_promotion(t, w)
    BY <1>3 DEF Unify
  <2>3. QED
    BY <2>1, <2>2, PromotedNumber
<1>4. CASE c \in Text
  <2>1. t.kind \in {c, "unknown"} /\ w.kind \in {c, "unknown"} /\ (t.kind = c \/ w.kind = c)
    <3>1. /\ category_of(t) \in {c, "unknown"} /\ category_of(w) \in {c, "unknown"}
          /\ category_of(t) = c \/ category_of(w) = c
      BY <1>4 DEF unify_category, Text
    <3>2. \A x \in SqlType : category_of(x) \in Text \cup {"unknown"} => x.kind = category_of(x)
      BY DEF category_of, Text
    <3>3. QED
      BY <1>4, <3>1, <3>2
  <2>2. Unify(t, w) \in {BinaryString(c, t, w), UnaryString(c, t)}
    BY <1>4, <2>1 DEF Unify, binary_bit_string_promotion, Text
  <2>3. Unify(t, w) \in SqlType /\ Unify(t, w).kind = c
    BY <1>4, <2>1, <2>2, PromotedString
  <2>4. QED
    BY <1>4, <2>1, <2>3 DEF Becomes
<1>5. CASE c \in {"boolean", "datetime_interval", "blob", "clob"}
  <2>1. Unify(t, w) = BinaryPlain(c, t, w)
    BY <1>5 DEF Unify, Text
  <2>2. CASE {t.kind, w.kind} \subseteq {c, "unknown"}
    <3>1. Just(c) \in SqlType
      BY <1>5, PlainType DEF Plain, Bitless
    <3>2. \A x \in {t, w} : x.kind = "unknown" \/ x = Just(c)
      BY <1>5, <2>2 DEF SqlType, Plain
    <3>3. QED
      BY <2>1, <2>2, <3>1, <3>2 DEF BinaryPlain, Becomes
  <2>3. CASE ~ {t.kind, w.kind} \subseteq {c, "unknown"}
    BY <1>0, <2>1, <2>3 DEF BinaryPlain, is_conversion_stop_type, Error, Just, Type
  <2>4. QED
    BY <2>2, <2>3
<1>6. CASE c = "external"
  BY <1>0, <1>6 DEF Unify, binary_external_promotion, Becomes, Error, Just, Type, is_conversion_stop_type
<1>7. CASE c \in {"temporal", "collection", "structure", "unique"}
  BY <1>0, <1>7 DEF Unify, identity_conversion, Becomes, Error, Just, Type, is_conversion_stop_type
<1>8. c \in {"unresolved", "none", "unknown", "number", "character", "octet", "bit", "boolean", "datetime_interval",
            "blob", "clob", "external", "temporal", "collection", "structure", "unique"}
  BY DEF unify_category, category_of, Text
<1>9. QED
  BY <1>1, <1>2, <1>3, <1>4, <1>5, <1>6, <1>7, <1>8 DEF Text

\* And the types a range of one, and every other fold, starts with.
LEMMA BecomeStart ==
  ASSUME NEW t \in SqlType
  PROVE  /\ UnaryUnify(t) \in SqlType
         /\ ~ is_conversion_stop_type(UnaryUnify(t)) => Becomes(t, UnaryUnify(t))
<1>1. CASE category_of(t) = "number"
  <2>1. t.kind \in Number /\ UnaryUnify(t) = unary_numeric_promotion(t)
    BY <1>1 DEF UnaryUnify, category_of, Text
  <2>2. /\ unary_numeric_promotion(t).kind \in Number
        /\ t.kind \in Approximate => unary_numeric_promotion(t).kind \in Approximate
        /\ unary_numeric_promotion(t) \in {t, Just("int4")}
    BY <2>1 DEF unary_numeric_promotion, Number, Integral, Approximate, Just, Type
  <2>3. Just("int4") \in SqlType
    BY PlainType DEF Plain, Integral, Bitless
  <2>4. QED
    BY <2>1, <2>2, <2>3 DEF Becomes
<1>2. CASE category_of(t) \in Text
  <2>1. t.kind \in Text /\ UnaryUnify(t) = UnaryString(t.kind, t)
    BY <1>2 DEF UnaryUnify, category_of, Text
  <2>2. UnaryString(t.kind, t) \in SqlType /\ UnaryString(t.kind, t).kind = t.kind
    BY <2>1, PromotedString
  <2>3. QED
    BY <2>1, <2>2 DEF Becomes
<1>3. CASE category_of(t) = "unresolved"
  BY <1>3, ErrorType DEF UnaryUnify, Text, is_conversion_stop_type, Pending, Just, Type, Bitless
<1>4. CASE category_of(t) \notin Text \cup {"number", "unresolved"}
  BY <1>4 DEF UnaryUnify, Becomes
<1>5. QED
  BY <1>1, <1>2, <1>3, <1>4

\* What ResultConvertible rests on: all that was folded has become the result.
AllBecome ==
  /\ fold \in Fold
  /\ \E n \in 1 .. MaxLength : types \in [1 .. n -> Types]
  /\ at \in 0 .. Len(types)
  /\ result \in SqlType
  /\ ~ is_conversion_stop_type(result) => \A i \in 1 .. at : Becomes(types[i], result)

LEMMA InitBecome == Init => AllBecome
<1> SUFFICES ASSUME Init PROVE AllBecome
  OBVIOUS
<1>1. PICK n \in 1 .. MaxLength : types \in [1 .. n -> Types]
  BY DEF Init
<1>2. MaxLength \in Nat /\ n \in Nat /\ Len(types) = n /\ n >= 1
  BY <1>1, TypesAssumption, ListType
<1>3. types[1] \in SqlType
  BY <1>1, <1>2, TypesAssumption
<1>4. CASE fold = "case"
  BY <1>1, <1>2, <1>4, ErrorType DEF Init, Start, AllBecome, Bitless
<1>5. CASE fold = "range" /\ Len(types) = 1
  BY <1>1, <1>2, <1>3, <1>5, BecomeStart DEF Init, Start, AllBecome
<1>6. CASE fold # "case" /\ ~ (fold = "range" /\ Len(types) = 1)
  BY <1>1, <1>2, <1>3, <1>6 DEF Init, Start, AllBecome, Becomes
<1>7. QED
  BY <1>4, <1>5, <1>6

LEMMA NextBecome == AllBecome /\ [Next]_vars => AllBecome'
<1> SUFFICES ASSUME AllBecome, [Next]_vars PROVE AllBecome'
  OBVIOUS
<1>1. CASE UNCHANGED vars
  BY <1>1 DEF AllBecome, vars
<1>2. CASE Step
  <2>1. PICK n \in 1 .. MaxLength : types \in [1 .. n -> Types]
    BY DEF AllBecome
  <2>2. MaxLength \in Nat /\ n \in Nat /\ Len(types) = n
    BY <2>1, TypesAssumption, ListType
  <2>3. at \in 0 .. n /\ at + 1 \in 1 .. n /\ at' = at + 1 /\ types' = types /\ fold' = fold
    BY <1>2, <2>2 DEF Step, AllBecome
  <2> DEFINE next == types[at + 1]
  <2>4. next \in SqlType /\ result \in SqlType
    BY <2>1, <2>2, <2>3, TypesAssumption DEF AllBecome
  <2>5. result' \in SqlType /\ (~ is_conversion_stop_type(result') => Becomes(result, result') /\ Becomes(next, result'))
    <3>1. CASE fold = "cogroup" /\ result = next
      BY <1>2, <2>4, <3>1 DEF Step, Folded, Becomes
    <3>2. CASE fold = "offer"
      BY <1>2, <2>4, <3>2, BecomeCommon DEF Step, Folded
    <3>3. CASE fold # "offer" /\ ~ (fold = "cogroup" /\ result = next)
      BY <1>2, <2>4, <3>3, BecomeCommon DEF Step, Folded
    <3>4. QED
      BY <3>1, <3>2, <3>3
  <2>6. ASSUME ~ is_conversion_stop_type(result'), NEW i \in 1 .. at'
        PROVE  Becomes(types[i], result')
    <3>1. CASE i = at + 1
      BY <2>5, <2>6, <3>1
    <3>2. CASE i \in 1 .. at
      <4>1. ~ is_conversion_stop_type(result)
        BY <2>5, <2>6 DEF Becomes, is_conversion_stop_type, Number, Integral, Approximate, Text
      <4>2. Becomes(types[i], result)
        BY <3>2, <4>1 DEF AllBecome
      <4>3. QED
        BY <2>5, <2>6, <4>2, BecomesTransitive
    <3>3. QED
      BY <2>3, <3>1, <3>2
  <2>7. QED
    BY <2>1, <2>2, <2>3, <2>5, <2>6 DEF AllBecome
<1>3. QED
  BY <1>1, <1>2 DEF Next

Passes(t, u) == is_parameter_application_convertible(t, u) = "yes"

\* Numbers are passed in the order of their ranks.
LEMMA Ranks ==
  /\ Rank("int1") = 1 /\ Rank("int2") = 2 /\ Rank("int4") = 3 /\ Rank("int8") = 4
  /\ Rank("decimal") = 5 /\ Rank("float4") = 6 /\ Rank("float8") = 7
  BY DEF Rank, Passed

LEMMA PassedIsAssigned ==
  ASSUME NEW t \in SqlType, NEW u \in SqlType, Passes(t, u)
  PROVE  is_assignment_convertible(t, u) = "yes"
  BY Ranks DEF Passes, is_parameter_application_convertible, is_assignment_convertible, ternary_of, Stops,
     Number, Integral, Approximate, Clock, Text, Composed

LEMMA PassesAntisymmetric ==
  ASSUME NEW t \in SqlType, NEW u \in SqlType, Passes(t, u), Passes(u, t),
         is_most_upperbound_compatible_type(t) = "yes"
  PROVE  t = u
<1>1. t.kind = u.kind
  BY Ranks DEF Passes, is_parameter_application_convertible, ternary_of, Number, Integral, Approximate
<1>2. ~ is_conversion_stop_type(u) /\ is_most_upperbound_compatible_type(u) # "no"
  BY DEF Passes, is_parameter_application_convertible, Stops
<1>3. CASE t.kind \in Plain
  BY <1>1, <1>3 DEF SqlType
<1>4. CASE t.kind = "decimal"
  BY <1>1, <1>2, <1>4 DEF is_most_upperbound_compatible_type, ternary_of, is_conversion_stop_type, Text
<1>5. CASE t.kind \in Text
  BY <1>1, <1>2, <1>5 DEF is_most_upperbound_compatible_type, ternary_of, is_conversion_stop_type, Text, SqlType
<1>6. CASE t.kind \in Clock
  BY <1>1, <1>6 DEF Passes, is_parameter_application_convertible, ternary_of, Number, Integral, Approximate, Clock, SqlType
<1>7. t.kind \notin Composed
  BY <1>1 DEF Passes, is_parameter_application_convertible, ternary_of, Number, Integral, Approximate, Clock, Text, Composed
<1>8. QED
  BY <1>3, <1>4, <1>5, <1>6, <1>7 DEF SqlType, Kind

LEMMA PassesTransitive ==
  ASSUME NEW t \in SqlType, NEW u \in SqlType, NEW v \in SqlType, Passes(t, u), Passes(u, v)
  PROVE  Passes(t, v)
<1>1. CASE t.kind = "unknown"
  BY <1>1 DEF Passes, is_parameter_application_convertible, Stops, is_conversion_stop_type
<1>2. CASE t.kind \in Number
  <2>1. u.kind \in Number /\ v.kind \in Number
    BY <1>2 DEF Passes, is_parameter_application_convertible, ternary_of, Number, Integral, Approximate, Clock, Text
  <2>2. Rank(t.kind) <= Rank(v.kind)
    BY <1>2, <2>1, Ranks DEF Passes, is_parameter_application_convertible, ternary_of, Number, Integral, Approximate
  <2>3. QED
    BY <1>2, <2>1, <2>2 DEF Passes, is_parameter_application_convertible, ternary_of, Stops
<1>3. CASE t.kind \notin Number \cup {"unknown"}
  BY <1>3 DEF Passes, is_parameter_application_convertible, ternary_of, Stops, Number, Integral, Approximate, Clock, Text
<1>4. QED
  BY <1>1, <1>2, <1>3

\* For any types, folded in any number: the rules for assignments and casts know every pair the
\* rules for common types bring together, and which parameter a type may be passed for is a
\* partial order within the assignments.
THEOREM RulesCorrect == Spec => []RulesAgree
<1>1. AllBecome => RulesAgree
  <2> SUFFICES ASSUME AllBecome PROVE RulesAgree
    OBVIOUS
  <2>1. PICK n \in 1 .. MaxLength : types \in [1 .. n -> Types]
    BY DEF AllBecome
  <2>2. MaxLength \in Nat /\ n \in Nat /\ Len(types) = n /\ DOMAIN types = 1 .. n
    BY <2>1, TypesAssumption, ListType
  <2>3. \A i \in 1 .. n : types[i] \in SqlType
    BY <2>1, TypesAssumption
  <2>4. ResultConvertible
    <3> SUFFICES ASSUME at = n, ~ is_conversion_stop_type(result), NEW i \in 1 .. at
                 PROVE  /\ is_assignment_convertible(types[i], result) = "yes"
                        /\ types[i].kind # "unknown" => is_cast_convertible(result, types[i]) = "yes"
      BY <2>2 DEF ResultConvertible
    <3>1. Becomes(types[i], result) /\ result \in SqlType
      BY DEF AllBecome
    <3>2. QED
      BY <2>3, <3>1, BecomesConverts
  <2>5. ParameterOrder
    <3> SUFFICES ASSUME NEW i \in 1 .. n, NEW j \in 1 .. n, Passes(types[i], types[j])
                 PROVE  /\ is_assignment_convertible(types[i], types[j]) = "yes"
                        /\ Passes(types[j], types[i]) =>
                             types[i] = types[j] \/ "yes" # is_most_upperbound_compatible_type(types[i])
                        /\ \A k \in 1 .. n : Passes(types[j], types[k]) => Passes(types[i], types[k])
      BY <2>2 DEF ParameterOrder, Passes
    <3>1. is_assignment_convertible(types[i], types[j]) = "yes"
      BY <2>3, PassedIsAssigned
    <3>2. Passes(types[j], types[i]) =>
            types[i] = types[j] \/ "yes" # is_most_upperbound_compatible_type(types[i])
      BY <2>3, PassesAntisymmetric
    <3>3. \A k \in 1 .. n : Passes(types[j], types[k]) => Passes(types[i], types[k])
      BY <2>3, PassesTransitive
    <3>4. QED
      BY <3>1, <3>2, <3>3
  <2>6. QED
    BY <2>4, <2>5 DEF RulesAgree
<1>2. QED
  BY InitBecome, NextBecome, <1>1, PTL DEF Spec

-----------------------------------------------------------------------------
(* The operators of the expression analyzer *)

LEMMA Categories ==
  ASSUME NEW t \in SqlType
  PROVE  /\ category_of(t) = "number" <=> t.kind \in Number
         /\ category_of(t) = "unknown" <=> t.kind = "unknown"
         /\ \A k \in Text : category_of(t) = k <=> t.kind = k
         /\ category_of(t) = "unresolved" <=> is_conversion_stop_type(t)
<1>1. t.kind \in Kind
  BY DEF SqlType
<1>2. category_of(t) = "number" <=> t.kind \in Number
  BY <1>1 DEF category_of, Kind, Number, Integral, Approximate, Text, Clock, Composed, Plain
<1>3. category_of(t) = "unknown" <=> t.kind = "unknown"
  BY <1>1 DEF category_of, Kind, Number, Integral, Approximate, Text, Clock, Composed, Plain
<1>4. \A k \in Text : category_of(t) = k <=> t.kind = k
  BY <1>1 DEF category_of, Kind, Number, Integral, Approximate, Text, Clock, Composed, Plain
<1>5. category_of(t) = "unresolved" <=> is_conversion_stop_type(t)
  BY <1>1 DEF category_of, Kind, Number, Integral, Approximate, Text, Clock, Composed, Plain, is_conversion_stop_type
<1>6. QED
  BY <1>2, <1>3, <1>4, <1>5

\* The pair of categories an operator looks at: that of an operand that is not NULL.
LEMMA Pairs ==
  ASSUME NEW l \in SqlType, NEW r \in SqlType
  PROVE  LET pair == category_pair(l, r)
         IN  /\ pair = <<pair[1], pair[2]>>
             /\ pair[1] = category_of(l) \/ (l.kind = "unknown" /\ pair[1] = category_of(r))
             /\ pair[2] = category_of(r) \/ (r.kind = "unknown" /\ pair[2] = category_of(l))
<1>1. l.kind = "unknown" <=> category_of(l) = "unknown"
  BY Categories
<1>2. r.kind = "unknown" <=> category_of(r) = "unknown"
  BY Categories
<1>3. QED
  BY <1>1, <1>2 DEF category_pair

\* Only an arithmetic operator on numbers, or on one and NULL, gives a number.
LEMMA NumericOperator ==
  ASSUME NEW l \in SqlType, NEW r \in SqlType, NEW op \in {"add", "subtract", "multiply", "divide"},
         Binary(op, l, r).type.kind \in Number
  PROVE  /\ l.kind \in Number \cup {"unknown"} /\ r.kind \in Number \cup {"unknown"}
         /\ Binary(op, l, r).type \in {Additive(l, r), Multiplicative(l, r)}
<1> DEFINE pair == category_pair(l, r)
<1>1. pair = <<pair[1], pair[2]>>
  BY Pairs
<1>2. pair[1] = "unresolved" => l.kind \notin Number
  BY Pairs, Categories DEF is_conversion_stop_type, Number, Integral, Approximate
<1>3. pair[2] = "unresolved" => r.kind \notin Number
  BY Pairs, Categories DEF is_conversion_stop_type, Number, Integral, Approximate
<1>4. \A t : Moment(t).kind \notin Number
  BY DEF Moment, Type, Error, Just, category_of, Number, Integral, Approximate, Text, Clock
<1>5. Raised.type.kind \notin Number /\ BinaryPlain("datetime_interval", l, r).kind \notin Number
      /\ Just("datetime_interval").kind \notin Number
  BY DEF Raised, CheckedType, BinaryPlain, Error, Just, Type, Number, Integral, Approximate
<1> HIDE DEF pair
<1>6. CASE pair = <<"number", "number">>
  <2>1. l.kind \in Number \cup {"unknown"} /\ r.kind \in Number \cup {"unknown"}
    BY <1>6, Pairs, Categories DEF pair
  <2>2. Binary(op, l, r).type \in {Additive(l, r), Multiplicative(l, r)}
    BY <1>6 DEF Binary, add, subtract, multiply, divide, Operated, Accepted, CheckedType, pair
  <2>3. QED
    BY <2>1, <2>2
<1>7. CASE pair # <<"number", "number">>
  <2>1. op = "add" => FALSE
    BY <1>1, <1>2, <1>3, <1>4, <1>5, <1>7 DEF Binary, add, Operated, Accepted, CheckedType, pair
  <2>2. op = "subtract" => FALSE
    BY <1>1, <1>2, <1>3, <1>4, <1>5, <1>7 DEF Binary, subtract, Operated, Accepted, CheckedType, pair
  <2>3. op = "multiply" => FALSE
    BY <1>1, <1>2, <1>3, <1>4, <1>5, <1>7 DEF Binary, multiply, Operated, Accepted, CheckedType, pair
  <2>4. op = "divide" => FALSE
    BY <1>1, <1>2, <1>3, <1>4, <1>5, <1>7 DEF Binary, divide, Operated, Accepted, CheckedType, pair
  <2>5. QED
    BY <2>1, <2>2, <2>3, <2>4
<1>8. QED
  BY <1>6, <1>7

\* The result of an arithmetic operator on numbers holds both.
LEMMA ArithmeticHolds ==
  ASSUME NEW l \in SqlType, NEW r \in SqlType,
         l.kind \in Number \cup {"unknown"}, r.kind \in Number \cup {"unknown"}
  PROVE  FitsBoth(Additive(l, r), l, r) /\ FitsBoth(Multiplicative(l, r), l, r)
<1> DEFINE t == binary_numeric_promotion(l, r)
<1>1. l \in Bitless /\ r \in Bitless
  BY DEF Bitless, Number, Integral, Approximate
<1>2. t \in Bitless /\ Holds(t, l) /\ Holds(t, r)
  BY <1>1, NumbersHeld
<1>3. CASE t.kind # "decimal"
  BY <1>2, <1>3 DEF Additive, Multiplicative, FitsBoth
<1>4. CASE t.kind = "decimal"
  <2>1. \A x \in {l, r} : x.kind \in Integral \cup {"decimal", "unknown"}
    BY <1>2, <1>4 DEF Holds, Number, Integral, Approximate, Text
  <2>2. ASSUME NEW x \in SqlType, x.kind \in Integral \cup {"decimal", "unknown"},
               NEW n \in Nat \cup {Any}, n = Any \/ (DecimalOfUnknown(x).scale # Any /\ DecimalOfUnknown(x).scale <= n)
        PROVE  Holds(Decimal(Any, n), x)
    <3>1. CASE x.kind = "unknown"
      BY <3>1 DEF Holds
    <3>2. CASE x.kind \in Integral \cup {"decimal"}
      <4>1. x.kind # "unknown"
        BY <3>2 DEF Integral
      <4>2. DecimalOfUnknown(x) = AsDecimal(x) /\ AsDecimal(x) \in SqlType
        BY <4>1, DecimalType DEF DecimalOfUnknown, AsDecimal, Bitless
      <4>3. HoldsDecimal(Decimal(Any, n), AsDecimal(x))
        BY <2>2, <4>2 DEF HoldsDecimal, Decimal, Type, SqlType, Any
      <4>4. QED
        BY <3>2, <4>3 DEF Holds, Decimal, Type
    <3>3. QED
      BY <2>2, <3>1, <3>2
  <2>3. ASSUME NEW x \in SqlType PROVE DecimalOfUnknown(x).scale \in Nat \cup {Any}
    BY DEF DecimalOfUnknown, AsDecimal, Decimal, Type, SqlType
  <2> DEFINE n == LargerScale(DecimalOfUnknown(l).scale, DecimalOfUnknown(r).scale)
  <2>4. n \in Nat \cup {Any}
    BY <2>3 DEF LargerScale
  <2>5. \A x \in {l, r} : n = Any \/ (DecimalOfUnknown(x).scale # Any /\ DecimalOfUnknown(x).scale <= n)
    <3>1. DecimalOfUnknown(l).scale \in Nat \cup {Any} /\ DecimalOfUnknown(r).scale \in Nat \cup {Any}
      BY <2>3
    <3>2. ASSUME NEW a \in Nat \cup {Any}, NEW b \in Nat \cup {Any}, LargerScale(a, b) # Any
          PROVE  a # Any /\ b # Any /\ a <= LargerScale(a, b) /\ b <= LargerScale(a, b)
      BY <3>2 DEF LargerScale, Any
    <3>3. QED
      BY <3>1, <3>2
  <2>6. Additive(l, r) = Decimal(Any, n) /\ Multiplicative(l, r) = Decimal(Any, Any)
    BY <1>4 DEF Additive, Multiplicative
  <2> HIDE DEF n
  <2>7. QED
    BY <2>1, <2>2, <2>4, <2>5, <2>6 DEF FitsBoth
<1>5. QED
  BY <1>3, <1>4

\* A sign keeps a number.
LEMMA SignHolds ==
  ASSUME NEW l \in SqlType, Sign(l).type.kind \in Number
  PROVE  Holds(Sign(l).type, l)
<1>1. l.kind \in Number /\ Sign(l).type = unary_numeric_promotion(l)
  BY DEF Sign, Accepted, Raised, CheckedType, category_of, Error, Just, Type, Number, Integral, Approximate, Text
<1>2. QED
  BY <1>1 DEF unary_numeric_promotion, Holds, Number, Integral, Approximate, Just, Type

\* Two strings of a kind, together.
LEMMA Concatenated ==
  ASSUME NEW l \in SqlType, NEW r \in SqlType, l.kind = r.kind, concat(l, r).type.kind \in Text
  PROVE  LET t == concat(l, r).type
         IN  t.flag /\ (t.size = Any \/ (Any \notin {l.size, r.size} /\ t.size >= l.size + r.size))
<1> DEFINE k == l.kind
           pair == category_pair(l, r)
           joined == [StringPromotion(k, l, r) EXCEPT !.size = SumOfLengths(l, r)]
<1>1. category_of(l) = category_of(r) /\ pair = <<category_of(l), category_of(l)>>
  BY DEF category_of, category_pair
<1>2. k \in Text
  <2>1. CASE category_of(l) = "unresolved"
    BY <1>1, <2>1 DEF concat, Operated, Accepted, CheckedType
  <2>2. CASE category_of(l) \notin Text /\ category_of(l) # "unresolved"
    BY <1>1, <2>2 DEF concat, Operated, Raised, CheckedType, Error, Just, Type, Text
  <2>3. CASE category_of(l) \in Text
    BY <2>3, Categories DEF Text
  <2>4. QED
    BY <2>1, <2>2, <2>3
<1>3. category_of(l) = k
  BY <1>2, Categories
<1>4. concat(l, r).type = joined
  BY <1>1, <1>2, <1>3 DEF concat, Operated, Accepted, CheckedType, Text
<1>5. \E n : StringPromotion(k, l, r) = Varying(k, n)
  BY <1>2 DEF StringPromotion, binary_bit_string_promotion, BinaryString, UnaryString, Text
<1>6. joined.flag /\ joined.size = SumOfLengths(l, r)
  BY <1>5 DEF Varying, Type
<1>7. SumOfLengths(l, r) = Any \/ (Any \notin {l.size, r.size} /\ SumOfLengths(l, r) >= l.size + r.size)
  BY DEF SumOfLengths, SqlType, Any
<1> HIDE DEF joined
<1>8. QED
  BY <1>4, <1>6, <1>7

\* The types that are folded, which never change.
TypesFolded ==
  \E n \in 1 .. MaxLength : types \in [1 .. n -> Types]

LEMMA OperandTypes ==
  ASSUME TypesFolded
  PROVE  /\ DOMAIN types = 1 .. Len(types) /\ Len(types) >= 1 /\ Len(types) \in Nat
         /\ \A i \in DOMAIN types : types[i] \in SqlType
<1>1. PICK n \in 1 .. MaxLength : types \in [1 .. n -> Types]
  BY DEF TypesFolded
<1>2. MaxLength \in Nat /\ n \in Nat /\ Len(types) = n /\ DOMAIN types = 1 .. n
  BY <1>1, TypesAssumption, ListType
<1>3. QED
  BY <1>1, <1>2, TypesAssumption

LEMMA AlwaysTypes == (Init => TypesFolded) /\ (TypesFolded /\ [Next]_vars => TypesFolded')
<1>1. Init => TypesFolded
  BY DEF Init, TypesFolded
<1>2. TypesFolded /\ [Next]_vars => TypesFolded'
  BY DEF TypesFolded, Next, Step, vars
<1>3. QED
  BY <1>1, <1>2

\* For any types, bits among them: the result of an arithmetic operator holds every value of both
\* operands, that of a sign every value of its one, and a concatenation has room for both strings.
THEOREM OperandsCorrect == Spec => []OperandsFit
<1>1. TypesFolded => OperandsFit
  <2> SUFFICES ASSUME TypesFolded, Len(types) = 2 PROVE OperandsFit
    BY DEF OperandsFit
  <2> DEFINE l == types[1]
             r == types[2]
             joins(t) == l.kind = r.kind /\ t.kind \in Text =>
                           t.flag /\ (t.size = Any \/ (Any \notin {l.size, r.size} /\ t.size >= l.size + r.size))
  <2>1. l \in SqlType /\ r \in SqlType
    BY OperandTypes
  <2> HIDE DEF l, r
  <2>2. \A op \in {"add", "subtract", "multiply", "divide"} :
          Binary(op, l, r).type.kind \in Number => FitsBoth(Binary(op, l, r).type, l, r)
    BY <2>1, NumericOperator, ArithmeticHolds
  <2>3. joins(concat(l, r).type)
    BY <2>1, Concatenated
  <2>4. Sign(l).type.kind \in Number => Holds(Sign(l).type, l)
    BY <2>1, SignHolds
  <2>5. QED
    BY <2>2, <2>3, <2>4 DEF OperandsFit, l, r
<1>2. QED
  BY AlwaysTypes, <1>1, PTL DEF Spec

-----------------------------------------------------------------------------
(* What is reported *)

\* An operator is silent where an operand has no type, and elsewhere has a type or is reported.
LEMMA LocatedIf ==
  ASSUME NEW operands, NEW found, found.reports \in {0, 1},
         (\E t \in operands : Unresolved(t)) => found.reports = 0,
         (\A t \in operands : ~ Unresolved(t)) => found.reports = 1 \/ ~ Unresolved(found.type)
  PROVE  Located(operands, found, 1)
  BY DEF Located

LEMMA ReportsOne ==
  /\ \A t : Accepted(t).reports = 0 /\ Accepted(t).type = t
  /\ Raised.reports = 1
  /\ \A t, ok : CheckedType(t, ok).reports \in {0, 1} /\ CheckedType(t, ok).type = t
  /\ \A t, ok : ok => CheckedType(t, ok).reports = 0
  BY DEF Accepted, Raised, CheckedType

LEMMA DiagnosticsWithin ==
  ASSUME NEW n \in Nat, NEW oks, DOMAIN oks = 1 .. n,
         NEW wrong \in SUBSET (1 .. n), \A i \in 1 .. n : ~ oks[i] => i \in wrong
  PROVE  /\ Diagnostics(oks) \in Nat /\ Diagnostics(oks) <= Cardinality(wrong)
         /\ (\A i \in wrong : ~ oks[i]) => Diagnostics(oks) = Cardinality(wrong)
<1>1. IsFiniteSet(1 .. n)
  BY FS_Interval
<1>2. IsFiniteSet(wrong) /\ Cardinality(wrong) \in Nat
  BY <1>1, FS_Subset, FS_CardinalityType
<1>3. {i \in DOMAIN oks : ~ oks[i]} \subseteq wrong
  OBVIOUS
<1>4. (\A i \in wrong : ~ oks[i]) => {i \in DOMAIN oks : ~ oks[i]} = wrong
  OBVIOUS
<1>5. QED
  BY <1>2, <1>3, <1>4, FS_Subset, FS_CardinalityType DEF Diagnostics

\* The same of two conditions.
LEMMA DiagnosticsOfTwo ==
  ASSUME NEW a \in BOOLEAN, NEW b \in BOOLEAN
  PROVE  /\ Diagnostics(<<a, b>>) \in 0 .. 2
         /\ ~ a /\ ~ b => Diagnostics(<<a, b>>) = 2
         /\ a => Diagnostics(<<a, b>>) \in 0 .. 1
         /\ a /\ b => Diagnostics(<<a, b>>) = 0
<1> DEFINE oks == <<a, b>>
<1>1. DOMAIN oks = 1 .. 2 /\ (oks[1] <=> a) /\ (oks[2] <=> b)
  OBVIOUS
<1>2. 2 \in Nat /\ 1 .. 2 = {1, 2} /\ 1 .. 2 \in SUBSET (1 .. 2) /\ {2} \in SUBSET (1 .. 2) /\ {} \in SUBSET (1 .. 2)
  OBVIOUS
<1>3. Cardinality(1 .. 2) = 2
  <2>1. 1 \in Int /\ 2 \in Int
    OBVIOUS
  <2>2. Cardinality(1 .. 2) = IF 1 > 2 THEN 0 ELSE 2 - 1 + 1
    BY <2>1, FS_Interval
  <2>3. QED
    BY <2>2
<1>4. Cardinality({2}) = 1 /\ Cardinality({}) = 0
  BY FS_Singleton, FS_EmptySet
<1> HIDE DEF oks
<1>5. /\ Diagnostics(oks) \in Nat /\ Diagnostics(oks) <= Cardinality(1 .. 2)
      /\ (\A i \in 1 .. 2 : ~ oks[i]) => Diagnostics(oks) = Cardinality(1 .. 2)
  BY <1>1, <1>2, DiagnosticsWithin
<1>6. a => Diagnostics(oks) <= Cardinality({2})
  <2>1. a => \A i \in 1 .. 2 : ~ oks[i] => i \in {2}
    BY <1>1, <1>2
  <2>2. QED
    BY <1>1, <1>2, <2>1, DiagnosticsWithin
<1>7. a /\ b => Diagnostics(oks) <= Cardinality({})
  <2>1. a /\ b => \A i \in 1 .. 2 : ~ oks[i] => i \in {}
    BY <1>1, <1>2
  <2>2. QED
    BY <1>1, <1>2, <2>1, DiagnosticsWithin
<1>8. ~ a /\ ~ b => Diagnostics(oks) = 2
  <2>1. ~ a /\ ~ b => \A i \in 1 .. 2 : ~ oks[i]
    BY <1>1, <1>2
  <2>2. QED
    BY <1>3, <1>5, <2>1
<1>9. QED
  BY <1>3, <1>4, <1>5, <1>6, <1>7, <1>8 DEF oks

LEMMA Resolved ==
  /\ ~ Unresolved(Just("boolean")) /\ ~ Unresolved(Just("int4")) /\ ~ Unresolved(Just("datetime_interval"))
  /\ \A k \in Text : \A n : ~ Unresolved(Varying(k, n))
  BY DEF Unresolved, category_of, Just, Varying, Type, Number, Integral, Approximate, Text, Clock

LEMMA UnaryLocated ==
  ASSUME NEW t \in SqlType, NEW op \in {"sign", "length", "not", "is_null"}
  PROVE  Located({t}, Unary(op, t), 1)
<1>1. Located({t}, Sign(t), 1)
  <2>1. category_of(t) = "number" => ~ Unresolved(t) /\ ~ Unresolved(unary_numeric_promotion(t))
    BY Resolved DEF unary_numeric_promotion, Unresolved, category_of, Number, Integral, Approximate, Text
  <2>2. Sign(t) \in {Accepted(unary_numeric_promotion(t)), Accepted(t), Raised}
    BY DEF Sign
  <2>3. QED
    BY <2>1, <2>2, LocatedIf, ReportsOne DEF Sign, Unresolved
<1>2. Located({t}, length(t), 1)
  BY Resolved DEF Located, length, CheckedType, Unresolved
<1>3. Located({t}, Truth3(t), 1)
  BY Resolved DEF Located, Truth3, BooleanIf, CheckedType, Unresolved
<1>4. Located({t}, is_null(t), 1)
  BY Resolved DEF Located, is_null, BooleanIf, CheckedType, Unresolved
<1>5. QED
  BY <1>1, <1>2, <1>3, <1>4 DEF Unary

\* Where an operand has no type, an operator has that of an operand.
LEMMA OperatedUnresolved ==
  ASSUME NEW l \in SqlType, NEW r \in SqlType, Unresolved(l) \/ Unresolved(r)
  PROVE  "unresolved" \in {category_pair(l, r)[1], category_pair(l, r)[2]}
  BY DEF category_pair, Unresolved

LEMMA OperatedResolved ==
  ASSUME NEW l \in SqlType, NEW r \in SqlType, ~ Unresolved(l), ~ Unresolved(r)
  PROVE  "unresolved" \notin {category_pair(l, r)[1], category_pair(l, r)[2]}
  BY DEF category_pair, Unresolved

LEMMA NumbersResolved ==
  ASSUME NEW l \in SqlType, NEW r \in SqlType, category_pair(l, r) = <<"number", "number">>
  PROVE  ~ Unresolved(Additive(l, r)) /\ ~ Unresolved(Multiplicative(l, r))
<1>1. l.kind \in Number \cup {"unknown"} /\ r.kind \in Number \cup {"unknown"} /\ ~ (l.kind = "unknown" /\ r.kind = "unknown")
  BY Pairs, Categories
<1>2. binary_numeric_promotion(l, r).kind \in Number
  BY <1>1, PromotedNumber DEF Becomes, Number, Integral, Approximate, Text
<1>3. \A n, m : Decimal(n, m).kind \in Number
  BY DEF Decimal, Type, Number
<1>4. Additive(l, r).kind \in Number /\ Multiplicative(l, r).kind \in Number
  BY <1>2, <1>3 DEF Additive, Multiplicative
<1>5. \A t : t.kind \in Number => ~ Unresolved(t)
  BY DEF Unresolved, category_of, Number, Integral, Approximate, Text, Clock
<1>6. QED
  BY <1>4, <1>5

LEMMA MomentsResolved ==
  ASSUME NEW t \in SqlType, category_of(t) = "temporal" \/ t.kind = "unknown"
  PROVE  ~ Unresolved(Moment(t))
<1>1. CASE t.kind = "unknown"
  BY <1>1 DEF Moment, Unresolved, category_of, Type, Number, Integral, Approximate, Text, Clock
<1>2. CASE category_of(t) = "temporal"
  BY <1>2, Categories DEF Moment, Unresolved
<1>3. QED
  BY <1>1, <1>2

LEMMA ArithmeticLocated ==
  ASSUME NEW l \in SqlType, NEW r \in SqlType, NEW op \in {"add", "subtract", "multiply", "divide"}
  PROVE  Located({l, r}, Binary(op, l, r), 1)
<1> DEFINE pair == category_pair(l, r)
<1>1. CASE Unresolved(l) \/ Unresolved(r)
  <2>1. pair[1] = "unresolved" \/ pair[2] = "unresolved"
    BY <1>1, OperatedUnresolved
  <2>2. Binary(op, l, r).reports = 0
    BY <2>1, ReportsOne DEF Binary, add, subtract, multiply, divide, Operated
  <2>3. QED
    BY <1>1, <2>2, LocatedIf
<1>2. CASE ~ Unresolved(l) /\ ~ Unresolved(r)
  <2>1. pair[1] # "unresolved" /\ pair[2] # "unresolved"
    BY <1>2, OperatedResolved
  <2>2. pair = <<"number", "number">> => ~ Unresolved(Additive(l, r)) /\ ~ Unresolved(Multiplicative(l, r))
    BY NumbersResolved
  <2>3. pair = <<"temporal", "datetime_interval">> => ~ Unresolved(Moment(l))
    BY Pairs, MomentsResolved
  <2>4. pair = <<"datetime_interval", "temporal">> => ~ Unresolved(Moment(r))
    BY Pairs, MomentsResolved
  <2>5. pair = <<"datetime_interval", "datetime_interval">> => ~ Unresolved(BinaryPlain("datetime_interval", l, r))
    <3>1. \A t \in SqlType : category_of(t) = "datetime_interval" => t.kind = "datetime_interval"
      BY DEF category_of, Text
    <3>2. QED
      BY <3>1, Pairs, Resolved DEF BinaryPlain
  <2>6. Raised.reports = 1 /\ \A t : Accepted(t).reports = 0 /\ Accepted(t).type = t
    BY ReportsOne
  <2>7. ~ Unresolved(Just("datetime_interval"))
    BY Resolved
  <2> HIDE DEF pair
  <2>8. LET found == Binary(op, l, r) 
               IN  found.reports = 1 \/ (found.reports = 0 /\ ~ Unresolved(found.type))
    <3>1. CASE op = "add"
      BY <2>1, <2>2, <2>3, <2>4, <2>5, <2>6, <3>1 DEF Binary, add, Operated, pair
    <3>2. CASE op = "subtract"
      BY <2>1, <2>2, <2>3, <2>5, <2>6, <3>2 DEF Binary, subtract, Operated, pair
    <3>3. CASE op = "multiply"
      BY <2>1, <2>2, <2>6, <2>7, <3>3 DEF Binary, multiply, Operated, pair
    <3>4. CASE op = "divide"
      BY <2>1, <2>2, <2>6, <2>7, <3>4 DEF Binary, divide, Operated, pair
    <3>5. QED
      BY <3>1, <3>2, <3>3, <3>4
  <2>9. QED
    BY <1>2, <2>8, LocatedIf
<1>3. QED
  BY <1>1, <1>2

LEMMA ConcatLocated ==
  ASSUME NEW l \in SqlType, NEW r \in SqlType
  PROVE  Located({l, r}, concat(l, r), 1)
<1> DEFINE pair == category_pair(l, r)
           k == pair[1]
<1>1. CASE Unresolved(l) \/ Unresolved(r)
  <2>1. pair[1] = "unresolved" \/ pair[2] = "unresolved"
    BY <1>1, OperatedUnresolved
  <2>2. concat(l, r).reports = 0
    BY <2>1, ReportsOne DEF concat, Operated
  <2>3. QED
    BY <1>1, <2>2, LocatedIf
<1>2. CASE ~ Unresolved(l) /\ ~ Unresolved(r)
  <2>1. pair[1] # "unresolved" /\ pair[2] # "unresolved"
    BY <1>2, OperatedResolved
  <2>2. CASE k \notin Text \/ pair[2] # k
    <3>1. concat(l, r) = Raised
      BY <2>1, <2>2 DEF concat, Operated
    <3>2. QED
      BY <1>2, <3>1, ReportsOne, LocatedIf
  <2>3. CASE k \in Text /\ pair[2] = k
    <3>1. l.kind \in {k, "unknown"} /\ r.kind \in {k, "unknown"}
      BY <2>3, Pairs, Categories
    <3>2. l.kind = k \/ r.kind = k
      BY <2>3, Pairs, Categories
    <3>3. \E n : StringPromotion(k, l, r) = Varying(k, n)
      BY <2>3, <3>1, <3>2 DEF StringPromotion, binary_bit_string_promotion, BinaryString, UnaryString
    <3>4. PICK n : StringPromotion(k, l, r) = Varying(k, n)
      BY <3>3
    <3>5. ASSUME NEW m
          PROVE  [StringPromotion(k, l, r) EXCEPT !.size = m].kind = k /\ StringPromotion(k, l, r).kind = k
      BY <3>4 DEF Varying, Type
    <3>6. \A x : x.kind \in Text => ~ Unresolved(x)
      BY Resolved DEF Unresolved, category_of, Number, Integral, Approximate, Text, Clock
    <3>7. concat(l, r).reports = 0 /\ ~ Unresolved(concat(l, r).type)
      <4>1. \E t : t.kind = k /\ concat(l, r) = Accepted(t)
        <5>1. CASE {l.kind, r.kind} = {k}
          <6>1. concat(l, r) = Accepted([StringPromotion(k, l, r) EXCEPT !.size = SumOfLengths(l, r)])
            BY <2>1, <2>3, <5>1 DEF concat, Operated
          <6>2. [StringPromotion(k, l, r) EXCEPT !.size = SumOfLengths(l, r)].kind = k
            BY <3>5
          <6>3. QED
            BY <6>1, <6>2, Zenon
        <5>2. CASE {l.kind, r.kind} # {k}
          <6>1. concat(l, r) = Accepted(StringPromotion(k, l, r))
            BY <2>1, <2>3, <5>2 DEF concat, Operated
          <6>2. StringPromotion(k, l, r).kind = k
            BY <3>5
          <6>3. QED
            BY <6>1, <6>2, Zenon
        <5>3. QED
          BY <5>1, <5>2
      <4>2. PICK t : t.kind = k /\ concat(l, r) = Accepted(t)
        BY <4>1, Zenon
      <4>3. concat(l, r).reports = 0 /\ concat(l, r).type = t
        BY <4>2, ReportsOne, Zenon
      <4>4. ~ Unresolved(t)
        BY <2>3, <3>6, <4>2, Zenon
      <4>5. QED
        BY <4>3, <4>4, Zenon
    <3>8. QED
      BY <1>2, <3>7, LocatedIf
  <2>4. QED
    BY <2>2, <2>3
<1>3. QED
  BY <1>1, <1>2

LEMMA BinaryLocated ==
  ASSUME NEW l \in SqlType, NEW r \in SqlType, NEW op \in {"add", "subtract", "multiply", "divide", "concat", "and"}
  PROVE  Located({l, r}, Binary(op, l, r), 1)
<1>1. CASE op \in {"add", "subtract", "multiply", "divide"}
  BY <1>1, ArithmeticLocated
<1>2. CASE op = "concat"
  BY <1>2, ConcatLocated DEF Binary
<1>3. CASE op = "and"
  <2>1. (Unresolved(l) \/ Unresolved(r)) => conditional_and(l, r).reports = 0
    BY OperatedUnresolved, ReportsOne DEF conditional_and, BooleanIf
  <2>2. conditional_and(l, r).type = Just("boolean") /\ conditional_and(l, r).reports \in {0, 1}
    BY ReportsOne DEF conditional_and, BooleanIf
  <2>3. QED
    BY <1>3, <2>1, <2>2, Resolved, LocatedIf DEF Binary
<1>4. QED
  BY <1>1, <1>2, <1>3

\* Of the two diagnostics of a comparison the first is about types without a common type; that the
\* common type is not comparable is the second, and an error never is.
LEMMA ComparesLocated ==
  ASSUME NEW l \in SqlType, NEW r \in SqlType, NEW op \in {"=", "<"}
  PROVE  ComparisonLocated(op, l, r)
<1> DEFINE u == Unify(l, r)
           a == ~ Unresolved(u)
           b == is_comparable(op, u)
<1>1. CASE Unresolved(l) \/ Unresolved(r)
  <2>1. compare(op, l, r).reports = 0 /\ compare(op, l, r).type = Just("boolean")
    BY <1>1, ReportsOne DEF compare
  <2>2. QED
    BY <1>1, <2>1, Resolved DEF ComparisonLocated, Located
<1>2. CASE ~ (Unresolved(l) \/ Unresolved(r))
  <2>1. compare(op, l, r) = [type |-> Just("boolean"), reports |-> Diagnostics(<<a, b>>)]
    BY <1>2 DEF compare, Compared, CheckedAll
  <2>2. a \in BOOLEAN /\ b \in BOOLEAN
    <3>1. a \in BOOLEAN
      BY DEF Unresolved
    <3>2. is_order_comparable(u) \in BOOLEAN
      BY DEF is_order_comparable
    <3>3. is_equality_comparable(u) \in BOOLEAN
      BY DEF is_equality_comparable
    <3>4. b \in {is_equality_comparable(u), is_order_comparable(u)}
      BY Zenon DEF is_comparable
    <3>5. QED
      BY <3>1, <3>2, <3>3, <3>4
  <2>3. ~ a => ~ b
    BY DEF is_comparable, is_equality_comparable, is_order_comparable, Unresolved, category_of, Number, Integral, Approximate, Text, Clock
  <2>4. /\ Diagnostics(<<a, b>>) \in 0 .. 2
        /\ ~ a => Diagnostics(<<a, b>>) = 2
        /\ a => Diagnostics(<<a, b>>) \in 0 .. 1
    <3> HIDE DEF a, b
    <3>1. QED
      BY <2>2, <2>3, DiagnosticsOfTwo
  <2>5. /\ compare(op, l, r).reports \in 0 .. 2
        /\ Unresolved(u) => compare(op, l, r).reports = 2
        /\ ~ Unresolved(u) => compare(op, l, r).reports \in 0 .. 1
        /\ compare(op, l, r).type = Just("boolean")
    BY <2>1, <2>4
  <2> HIDE DEF u
  <2>6. QED
    BY <1>2, <2>5, Resolved DEF ComparisonLocated, Located, u
<1>3. QED
  BY <1>1, <1>2

LEMMA CastLocated ==
  ASSUME NEW t \in SqlType, NEW u \in SqlType, ~ Unresolved(u)
  PROVE  Located({t}, cast(t, u), 1)
<1>1. Unresolved(t) => is_conversion_stop_type(t)
  BY Categories DEF Unresolved
<1>2. Unresolved(t) => is_cast_convertible(t, u) = "unknown"
  BY <1>1 DEF is_cast_convertible, is_assignment_convertible, Stops
<1>3. QED
  BY <1>2 DEF Located, cast, CheckedType

LEMMA FunctionsLocated ==
  ASSUME NEW t \in SqlType, NEW u \in SqlType, ~ Unresolved(u)
  PROVE  CallsLocated(t, u)
<1> DEFINE f == [features |-> {"scalar_function"}, parameters |-> <<u>>, result |-> u]
           a == DeclaredAs(f, "scalar_function")
           b == ArgumentsFit(f, <<t>>)
<1>1. a /\ a \in BOOLEAN /\ b \in BOOLEAN
  BY DEF DeclaredAs, ArgumentsFit
<1>2. Unresolved(t) => b
  BY DEF ArgumentsFit
<1>3. f.result = u
  OBVIOUS
<1>4. function_call(f, <<t>>) = [type |-> f.result, reports |-> Diagnostics(<<a, b>>)]
  BY DEF function_call, CheckedAll
<1>5. aggregate_function_call(f, <<t>>) = CheckedType(f.result, b)
  BY DEF aggregate_function_call
<1> HIDE DEF f, a, b
<1>6. Located({t}, function_call(f, <<t>>), 1)
  <2>1. Diagnostics(<<a, b>>) \in 0 .. 1 /\ (Unresolved(t) => Diagnostics(<<a, b>>) = 0)
    BY <1>1, <1>2, DiagnosticsOfTwo
  <2>2. QED
    BY <1>3, <1>4, <2>1 DEF Located
<1>7. Located({t}, aggregate_function_call(f, <<t>>), 1)
  BY <1>1, <1>2, <1>3, <1>5 DEF Located, CheckedType
<1>8. QED
  BY <1>6, <1>7 DEF CallsLocated, f

\* A match has a diagnostic for each operand that is no text, and none for one without a type.
LEMMA MatchLocated ==
  ASSUME NEW ts, DOMAIN ts = 1 .. 3
  PROVE  match(ts[1], ts[2], ts[3]).reports <= Cardinality({i \in 1 .. 3 : ~ Unresolved(ts[i])})
<1> DEFINE text(t) == category_of(t) \in {"character", "unknown", "unresolved"}
           oks == <<text(ts[1]), text(ts[2]), text(ts[3])>>
           typed == {i \in 1 .. 3 : ~ Unresolved(ts[i])}
<1>1. match(ts[1], ts[2], ts[3]).reports = Diagnostics(oks)
  BY DEF match, CheckedAll
<1>2. DOMAIN oks = 1 .. 3 /\ \A i \in 1 .. 3 : oks[i] = text(ts[i])
  OBVIOUS
<1>3. \A i \in 1 .. 3 : ~ oks[i] => i \in typed
  BY <1>2 DEF Unresolved
<1> HIDE DEF oks, typed
<1>4. Diagnostics(oks) <= Cardinality(typed)
  BY <1>2, <1>3, DiagnosticsWithin DEF typed
<1>5. QED
  BY <1>1, <1>4 DEF typed

\* For any types: what has no type though its operands do is reported, what has none because of an
\* operand is not reported once more, and an operator has one diagnostic; but for a match, with one
\* for each operand, and for a comparison of types without a common type, which has two.
THEOREM ReportsCorrect == Spec => []ReportedOnce
<1>1. TypesFolded => ReportedOnce
  <2> SUFFICES ASSUME TypesFolded PROVE ReportedOnce
    OBVIOUS
  <2> DEFINE t == types[1]
  <2>1. t \in SqlType /\ (Len(types) = 2 => types[2] \in SqlType)
    BY OperandTypes
  <2>2. Len(types) = 3 => match(t, types[2], types[3]).reports <= Cardinality({i \in 1 .. 3 : ~ Unresolved(types[i])})
    <3>1. Len(types) = 3 => DOMAIN types = 1 .. 3
      BY OperandTypes
    <3>2. QED
      BY <3>1, MatchLocated
  <2> HIDE DEF t
  <2>3. \A op \in {"sign", "length", "not", "is_null"} : Located({t}, Unary(op, t), 1)
    BY <2>1, UnaryLocated
  <2>4. Len(types) = 2 => \A op \in {"add", "subtract", "multiply", "divide", "concat", "and"} :
          Located({t, types[2]}, Binary(op, t, types[2]), 1)
    BY <2>1, BinaryLocated
  <2>5. Len(types) = 2 => \A op \in {"=", "<"} : ComparisonLocated(op, t, types[2])
    BY <2>1, ComparesLocated
  <2>6. Len(types) = 2 /\ ~ Unresolved(types[2]) => Located({t}, cast(t, types[2]), 1) /\ CallsLocated(t, types[2])
    BY <2>1, CastLocated, FunctionsLocated
  <2>7. QED
    BY <2>2, <2>3, <2>4, <2>5, <2>6 DEF ReportedOnce, t
<1>2. QED
  BY AlwaysTypes, <1>1, PTL DEF Spec

-----------------------------------------------------------------------------
(* The order of the types *)

DecimalWithin(a, v) ==
  \/ v.size = Any /\ v.scale = Any
  \/ v.scale = a.scale /\ (v.size = Any \/ (a.size # Any /\ a.size <= v.size))

NumberWithin(t, v) ==
  \/ v.kind = "int4" /\ t.kind \in {"int1", "int2", "int4"}
  \/ v.kind = "int8" /\ t.kind \in Integral
  \/ v.kind = "decimal" /\ t.kind \in Integral \cup {"decimal"} /\ DecimalWithin(AsDecimal(t), v)
  \/ v.kind = "float4" /\ t.kind = "float4"
  \/ v.kind = "float8" /\ t.kind \in Number

\* The types two types may have in common.
Settled(v) == ~ is_conversion_stop_type(v) /\ v.kind \notin {"int1", "int2"} /\ (v.kind \in Text => v.flag)

\* The common type of t and v is v.
Within(t, v) ==
  /\ Settled(v)
  /\ \/ t.kind = "unknown" /\ v.kind # "extension"
     \/ NumberWithin(t, v)
     \/ t.kind = v.kind /\ v.kind \in Text /\ (v.size = Any \/ t.size = v.size)
     \/ t = v /\ v.kind \notin Number \cup Text

LEMMA WithinKind ==
  ASSUME NEW t \in Bitless, NEW v \in Bitless, Within(t, v)
  PROVE  /\ ~ is_conversion_stop_type(t)
         /\ v.kind \in Number => t.kind \in Number \cup {"unknown"}
         /\ v.kind \in {"character", "octet"} => t.kind \in {v.kind, "unknown"}
  BY DEF Within, NumberWithin, Settled, is_conversion_stop_type, Number, Integral, Approximate, Text

LEMMA WithinItself ==
  ASSUME NEW v \in Bitless, Settled(v)
  PROVE  Within(v, v)
<1>1. CASE v.kind \in Number
  <2>1. NumberWithin(v, v)
    BY <1>1 DEF Settled, NumberWithin, DecimalWithin, AsDecimal, Number, Integral, Approximate, Bitless, SqlType, Any
  <2>2. QED
    BY <2>1 DEF Within
<1>2. CASE v.kind \notin Number
  BY <1>2 DEF Within
<1>3. QED
  BY <1>1, <1>2

LEMMA WithinAntisymmetric ==
  ASSUME NEW t \in Bitless, NEW v \in Bitless, Within(t, v), Within(v, t)
  PROVE  t = v
<1>1. CASE t.kind = "decimal" /\ v.kind = "decimal"
  <2>1. DecimalWithin(t, v) /\ DecimalWithin(v, t)
    BY <1>1 DEF Within, NumberWithin, AsDecimal, Text, Number
  <2>2. t.size = v.size /\ t.scale = v.scale
    BY <2>1 DEF DecimalWithin, Bitless, SqlType, Any
  <2>3. QED
    BY <1>1, <2>2 DEF Bitless, SqlType
<1>2. CASE t.kind \in Text /\ t.kind = v.kind
  <2>1. t.size = v.size /\ t.flag /\ v.flag
    BY <1>2 DEF Within, NumberWithin, Settled, Text, Number, Integral, Approximate
  <2>2. QED
    BY <1>2, <2>1 DEF Bitless, SqlType, Text
<1>3. t = v \/ t.kind = v.kind
  BY DEF Within, NumberWithin, Number, Integral, Approximate, Text
<1>4. CASE t.kind = v.kind /\ t.kind \in Plain
  BY <1>4 DEF Bitless, SqlType
<1>5. t.kind = v.kind /\ t.kind \notin Plain \cup Text \cup {"decimal"} => t = v
  BY DEF Within, NumberWithin, Plain, Number, Integral, Approximate
<1>6. QED
  BY <1>1, <1>2, <1>3, <1>4, <1>5

LEMMA WithinTransitive ==
  ASSUME NEW t \in Bitless, NEW u \in Bitless, NEW v \in Bitless, Within(t, u), Within(u, v)
  PROVE  Within(t, v)
<1>1. CASE t.kind = "unknown"
  BY <1>1 DEF Within, NumberWithin, Number, Integral, Text
<1>2. CASE t.kind \in Number
  <2>1. NumberWithin(t, u) /\ NumberWithin(u, v)
    BY <1>2 DEF Within, NumberWithin, Number, Integral, Approximate, Text
  <2>2. CASE u.kind = "decimal" /\ v.kind = "decimal"
    <3>1. DecimalWithin(AsDecimal(t), u) /\ DecimalWithin(u, v) /\ AsDecimal(t) \in SqlType
      BY <2>1, <2>2, DecimalType DEF NumberWithin, AsDecimal, Bitless
    <3>2. DecimalWithin(AsDecimal(t), v)
      BY <3>1 DEF DecimalWithin, Bitless, SqlType, Any
    <3>3. QED
      BY <2>1, <2>2, <3>2 DEF Within, NumberWithin
  <2>3. CASE u.kind \in Integral /\ v.kind = "decimal"
    <3>1. u.kind = "int8" => DecimalWithin(Decimal(19, 0), v)
      BY <2>1, <2>3 DEF NumberWithin, AsDecimal, Integral
    <3>2. u.kind = "int4" => DecimalWithin(Decimal(10, 0), v) /\ t.kind \in {"int1", "int2", "int4"}
      BY <2>1, <2>3 DEF NumberWithin, AsDecimal, Integral
    <3>3. DecimalWithin(AsDecimal(t), v)
      BY <2>1, <2>3, <3>1, <3>2 DEF NumberWithin, DecimalWithin, AsDecimal, Decimal, Type, Integral, Bitless, SqlType, Any
    <3>4. QED
      BY <2>1, <2>3, <3>3 DEF Within, NumberWithin, Integral
  <2>4. CASE ~ (u.kind \in Integral \cup {"decimal"} /\ v.kind = "decimal")
    BY <2>1, <2>4 DEF Within, NumberWithin, Number, Integral, Approximate
  <2>5. QED
    BY <2>1, <2>2, <2>3, <2>4 DEF NumberWithin
<1>3. CASE t.kind \in Text
  BY <1>3 DEF Within, NumberWithin, Number, Integral, Approximate, Text
<1>4. CASE t.kind \notin Number \cup Text \cup {"unknown"}
  BY <1>4 DEF Within, NumberWithin, Number, Integral, Approximate, Text
<1>5. QED
  BY <1>1, <1>2, <1>3, <1>4

-----------------------------------------------------------------------------
(* The common type of two types is the least of those within which both    *)
(* of them are.                                                            *)

LEMMA NumbersUnify ==
  ASSUME NEW t \in Bitless, NEW w \in Bitless,
         t.kind \in Number \cup {"unknown"}, w.kind \in Number \cup {"unknown"}
  PROVE  Unify(t, w) = IF t.kind = "unknown" /\ w.kind = "unknown" THEN t ELSE binary_numeric_promotion(t, w)
<1>1. \A x \in Bitless : x.kind \in Number => category_of(x) = "number"
  BY Categories DEF Bitless
<1>2. \A x \in Bitless : x.kind = "unknown" => category_of(x) = "unknown"
  BY Categories DEF Bitless
<1>3. QED
  BY <1>1, <1>2 DEF Unify, unify_category

LEMMA StringsUnify ==
  ASSUME NEW k \in {"character", "octet"}, NEW t \in Bitless, NEW w \in Bitless,
         t.kind \in {k, "unknown"}, w.kind \in {k, "unknown"}
  PROVE  Unify(t, w) = IF t.kind = "unknown" /\ w.kind = "unknown" THEN t ELSE BinaryString(k, t, w)
<1>1. \A x \in Bitless : x.kind \in {"character", "octet", "unknown"} => category_of(x) = x.kind
  BY DEF category_of, Number, Integral, Approximate, Text, Clock
<1>2. QED
  BY <1>1 DEF Unify, unify_category

LEMMA NumberCommon ==
  ASSUME NEW t \in Bitless, NEW w \in Bitless,
         t.kind \in Number \cup {"unknown"}, w.kind \in Number \cup {"unknown"}
  PROVE  Within(t, Unify(t, w))
<1> DEFINE u == binary_numeric_promotion(t, w)
<1>1. CASE t.kind = "unknown" /\ w.kind = "unknown"
  BY <1>1, NumbersUnify DEF Within, Settled, is_conversion_stop_type, Text
<1>2. CASE t.kind = "unknown" /\ w.kind # "unknown"
  <2>1. u.kind \in {"int4", "int8", "decimal", "float4", "float8"}
    BY <1>2 DEF binary_numeric_promotion, unary_numeric_promotion, Just, Type, Number, Integral, Approximate
  <2>2. QED
    BY <1>2, <2>1, NumbersUnify DEF Within, Settled, is_conversion_stop_type, Text
<1>3. CASE t.kind # "unknown" /\ w.kind = "unknown"
  <2>1. u = unary_numeric_promotion(t)
    BY <1>3 DEF binary_numeric_promotion, Number
  <2>2. u.kind \in {"int4", "int8", "decimal", "float4", "float8"} /\ Settled(u)
    BY <1>3, <2>1 DEF unary_numeric_promotion, Just, Type, Number, Integral, Approximate, Settled,
       is_conversion_stop_type, Text
  <2>3. CASE u = t
    BY <1>3, <2>2, <2>3, NumbersUnify, WithinItself
  <2>4. CASE u # t
    <3>1. u.kind = "int4" /\ t.kind \in {"int1", "int2", "int4"}
      BY <1>3, <2>1, <2>4 DEF unary_numeric_promotion, Just, Type, Number, Integral, Approximate
    <3>2. Within(t, u)
      BY <2>2, <3>1 DEF Within, NumberWithin
    <3>3. QED
      BY <1>3, <3>2, NumbersUnify
  <2>5. QED
    BY <2>3, <2>4
<1>4. CASE t.kind # "unknown" /\ w.kind # "unknown"
  <2>1. Unify(t, w) = u /\ {t.kind, w.kind} \subseteq Number
    BY <1>4, NumbersUnify
  <2>2. CASE {t.kind, w.kind} \cap Approximate # {}
    BY <1>4, <2>1, <2>2 DEF binary_numeric_promotion, UnifyApproximate, Within, NumberWithin, Settled,
       is_conversion_stop_type, Just, Type, Number, Integral, Approximate, Text
  <2>3. CASE {t.kind, w.kind} \cap Approximate = {} /\ "decimal" \in {t.kind, w.kind}
    <3>1. u = UnifyDecimals(AsDecimal(t), AsDecimal(w))
      BY <1>4, <2>1, <2>3 DEF binary_numeric_promotion
    <3>2. AsDecimal(t) \in Bitless /\ AsDecimal(w) \in Bitless
      BY DecimalType DEF AsDecimal
    <3>3. ASSUME NEW a \in Bitless, NEW b \in Bitless
          PROVE  UnifyDecimals(a, b).kind = "decimal" /\ DecimalWithin(a, UnifyDecimals(a, b))
      BY DEF UnifyDecimals, DecimalWithin, Decimal, Type, Bitless, SqlType, Any
    <3>4. u.kind = "decimal" /\ DecimalWithin(AsDecimal(t), u)
      BY <3>1, <3>2, <3>3
    <3>5. t.kind \in Integral \cup {"decimal"}
      BY <2>1, <2>3 DEF Number
    <3>6. QED
      BY <2>1, <3>4, <3>5 DEF Within, NumberWithin, Settled, is_conversion_stop_type, Text
  <2>4. CASE {t.kind, w.kind} \subseteq Integral
    BY <1>4, <2>1, <2>4 DEF binary_numeric_promotion, Within, NumberWithin, Settled,
       is_conversion_stop_type, Just, Type, Number, Integral, Approximate, Text
  <2>5. QED
    BY <2>1, <2>2, <2>3, <2>4 DEF Number
<1>5. QED
  BY <1>1, <1>2, <1>3, <1>4

LEMMA StringCommon ==
  ASSUME NEW k \in {"character", "octet"}, NEW t \in Bitless, NEW w \in Bitless,
         t.kind \in {k, "unknown"}, w.kind \in {k, "unknown"}
  PROVE  Within(t, Unify(t, w))
<1>1. CASE t.kind = "unknown" /\ w.kind = "unknown"
  BY <1>1, StringsUnify DEF Within, Settled, is_conversion_stop_type, Text
<1>2. CASE ~ (t.kind = "unknown" /\ w.kind = "unknown")
  BY <1>2, StringsUnify DEF BinaryString, UnaryString, Varying, Type, Within, Settled, is_conversion_stop_type, Text
<1>3. QED
  BY <1>1, <1>2

LEMMA LeftWithin ==
  ASSUME NEW t \in Bitless, NEW w \in Bitless, ~ is_conversion_stop_type(Unify(t, w))
  PROVE  Within(t, Unify(t, w))
<1> DEFINE c == unify_category(category_of(t), category_of(w))
<1>0. is_conversion_stop_type(Error) /\ is_conversion_stop_type(Pending)
  BY DEF is_conversion_stop_type, Error, Pending, Just, Type
<1>1. c \notin {"unresolved", "none"}
  BY <1>0 DEF Unify
<1>2. CASE c = "unknown"
  <2>1. t.kind = "unknown" /\ w.kind = "unknown"
    BY <1>2, Categories DEF unify_category, Bitless
  <2>2. QED
    BY <2>1, NumberCommon
<1>3. CASE c = "number"
  <2>1. t.kind \in Number \cup {"unknown"} /\ w.kind \in Number \cup {"unknown"}
    BY <1>3, Categories DEF unify_category, Bitless
  <2>2. QED
    BY <2>1, NumberCommon
<1>4. CASE c \in {"character", "octet"}
  <2>1. t.kind \in {c, "unknown"} /\ w.kind \in {c, "unknown"}
    BY <1>4, Categories DEF unify_category, Bitless, Text
  <2>2. QED
    BY <1>4, <2>1, StringCommon
<1>5. c # "bit"
  BY DEF unify_category, category_of, Text, Bitless
<1>6. CASE c \in {"boolean", "datetime_interval", "blob", "clob"}
  <2>1. Unify(t, w) = Just(c) /\ t.kind \in {c, "unknown"}
    BY <1>0, <1>6 DEF Unify, BinaryPlain
  <2>2. t.kind = c => t = Just(c)
    BY <1>6 DEF Bitless, SqlType, Plain
  <2>3. QED
    BY <1>6, <2>1, <2>2 DEF Within, Settled, is_conversion_stop_type, Just, Type, Number, Integral, Approximate, Text
<1>7. CASE c = "external"
  <2>1. Unify(t, w) = t /\ t.kind = "extension"
    BY <1>0, <1>7 DEF Unify, binary_external_promotion
  <2>2. QED
    BY <2>1 DEF Within, Settled, is_conversion_stop_type, Number, Integral, Approximate, Text
<1>8. CASE c \in {"temporal", "collection", "structure", "unique"}
  <2>1. Unify(t, w) = identity_conversion(t, w)
    BY <1>8 DEF Unify
  <2>2. /\ category_of(t) = c \/ t.kind = "unknown"
        /\ category_of(w) = c \/ w.kind = "unknown"
        /\ category_of(t) = c \/ category_of(w) = c
    BY <1>8, Categories DEF unify_category, Bitless
  <2>3. \A x \in Bitless : category_of(x) = c =>
          x.kind \notin Number \cup Text \cup {"int1", "int2", "extension"}
    BY <1>8 DEF category_of, Number, Integral, Approximate, Text, Clock
  <2>4. \A x \in Bitless : category_of(x) = c => Settled(x)
    BY <1>8, <2>3, Categories DEF Settled, Bitless
  <2>5. CASE t.kind = "unknown"
    <3>1. category_of(t) # c
      BY <1>8, <2>5, Categories DEF Bitless
    <3>2. identity_conversion(t, w) = w
      <4>1. w.kind # "unknown"
        BY <1>8, <2>2, <3>1, Categories DEF Bitless
      <4>2. QED
        BY <2>5, <4>1 DEF identity_conversion
    <3>3. QED
      BY <2>1, <2>2, <2>3, <2>4, <2>5, <3>1, <3>2 DEF Within
  <2>6. CASE t.kind # "unknown"
    BY <1>0, <2>1, <2>2, <2>3, <2>4, <2>6 DEF identity_conversion, Within
  <2>7. QED
    BY <2>5, <2>6
<1>9. c \in {"unresolved", "none", "unknown", "number", "character", "octet", "bit", "boolean", "datetime_interval",
            "blob", "clob", "external", "temporal", "collection", "structure", "unique"}
  BY DEF unify_category, category_of, Text
<1>10. QED
  BY <1>1, <1>2, <1>3, <1>4, <1>5, <1>6, <1>7, <1>8, <1>9

LEMMA NumberLeast ==
  ASSUME NEW t \in Bitless, NEW w \in Bitless, NEW v \in Bitless,
         v.kind \in Number, Within(t, v), Within(w, v)
  PROVE  ~ is_conversion_stop_type(Unify(t, w)) /\ Within(Unify(t, w), v)
<1>0. t.kind \in Number \cup {"unknown"} /\ w.kind \in Number \cup {"unknown"}
  BY WithinKind
<1>1. CASE t.kind = "unknown" /\ w.kind = "unknown"
  BY <1>0, <1>1, NumbersUnify DEF is_conversion_stop_type
<1>2. ASSUME NEW x \in Bitless, x.kind \in Number, Within(x, v)
      PROVE  /\ unary_numeric_promotion(x).kind \in Number
             /\ Within(unary_numeric_promotion(x), v)
  BY <1>2 DEF unary_numeric_promotion, Within, NumberWithin, AsDecimal, Just, Type, Number, Integral, Approximate, Text
<1>3. CASE {t.kind, w.kind} \cap {"unknown"} # {} /\ {t.kind, w.kind} \cap Number # {}
  <2>1. \E x \in {t, w} : x.kind \in Number /\ Unify(t, w) = unary_numeric_promotion(x)
    BY <1>0, <1>3, NumbersUnify DEF binary_numeric_promotion, Number, Integral, Approximate
  <2>2. QED
    BY <1>2, <2>1 DEF is_conversion_stop_type, Number, Integral, Approximate
<1>4. CASE {t.kind, w.kind} \subseteq Number
  <2>0. Unify(t, w) = binary_numeric_promotion(t, w) /\ t.kind # "unknown" /\ w.kind # "unknown"
    BY <1>0, <1>4, NumbersUnify DEF Number, Integral, Approximate
  <2>1. NumberWithin(t, v) /\ NumberWithin(w, v)
    BY <1>4, <2>0 DEF Within, NumberWithin, Number, Integral, Approximate, Text
  <2>2. CASE {t.kind, w.kind} \cap Approximate # {}
    <3>1. Unify(t, w) = UnifyApproximate(t, w)
      BY <1>4, <2>0, <2>2 DEF binary_numeric_promotion
    <3>2. QED
      BY <2>1, <2>2, <3>1 DEF UnifyApproximate, Within, NumberWithin,
         is_conversion_stop_type, Just, Type, Number, Integral, Approximate
  <2>3. CASE {t.kind, w.kind} \cap Approximate = {} /\ "decimal" \in {t.kind, w.kind}
    <3>1. Unify(t, w) = UnifyDecimals(AsDecimal(t), AsDecimal(w))
      BY <1>4, <2>0, <2>3 DEF binary_numeric_promotion
    <3>2. AsDecimal(t) \in Bitless /\ AsDecimal(w) \in Bitless
      BY DecimalType DEF AsDecimal
    <3>3. ASSUME NEW a \in Bitless, NEW b \in Bitless
          PROVE  /\ UnifyDecimals(a, b).kind = "decimal" /\ AsDecimal(UnifyDecimals(a, b)) = UnifyDecimals(a, b)
                 /\ DecimalWithin(a, v) /\ DecimalWithin(b, v) => DecimalWithin(UnifyDecimals(a, b), v)
      BY DEF UnifyDecimals, DecimalWithin, AsDecimal, Decimal, Type, Bitless, SqlType, Any
    <3>4. CASE v.kind = "decimal"
      <4>1. DecimalWithin(AsDecimal(t), v) /\ DecimalWithin(AsDecimal(w), v)
        BY <2>1, <3>4 DEF NumberWithin
      <4>2. QED
        BY <3>1, <3>2, <3>3, <3>4, <4>1 DEF Within, NumberWithin, is_conversion_stop_type
    <3>5. CASE v.kind # "decimal"
      <4>1. v.kind = "float8"
        BY <2>1, <2>3, <3>5 DEF NumberWithin, Integral, Approximate
      <4>2. Unify(t, w).kind = "decimal"
        BY <3>1, <3>2, <3>3
      <4>3. QED
        BY <4>1, <4>2 DEF Within, NumberWithin, Number, is_conversion_stop_type
    <3>6. QED
      BY <3>4, <3>5
  <2>4. CASE {t.kind, w.kind} \subseteq Integral
    <3>1. Unify(t, w) = Just(IF "int8" \in {t.kind, w.kind} THEN "int8" ELSE "int4")
      BY <1>4, <2>0, <2>4 DEF binary_numeric_promotion, Integral, Approximate
    <3>2. QED
      BY <2>1, <2>4, <3>1 DEF Within, NumberWithin, AsDecimal, is_conversion_stop_type, Just, Type, Number, Integral, Approximate
  <2>5. QED
    BY <1>4, <2>2, <2>3, <2>4 DEF Number
<1>5. QED
  BY <1>0, <1>1, <1>3, <1>4

\* The common type of two types is within every type within which both are: unifying_conversion
\* never widens further than it must.
THEOREM CommonTypeLeast ==
  ASSUME NEW t \in Bitless, NEW w \in Bitless, NEW v \in Bitless, Within(t, v), Within(w, v)
  PROVE  ~ is_conversion_stop_type(Unify(t, w)) /\ Within(Unify(t, w), v)
<1>1. CASE v.kind \in Number
  BY <1>1, NumberLeast
<1>2. CASE v.kind \in {"character", "octet"}
  <2>1. t.kind \in {v.kind, "unknown"} /\ w.kind \in {v.kind, "unknown"}
    BY <1>2, WithinKind
  <2>2. \A x \in Bitless : x.kind = v.kind /\ Within(x, v) => v.size = Any \/ x.size = v.size
    BY <1>2 DEF Within, NumberWithin, Number, Integral, Approximate, Text
  <2>3. Settled(v)
    BY DEF Within
  <2>4. CASE t.kind = "unknown" /\ w.kind = "unknown"
    BY <1>2, <2>1, <2>4, StringsUnify DEF is_conversion_stop_type
  <2>5. CASE t.kind = v.kind /\ w.kind = v.kind
    BY <1>2, <2>1, <2>2, <2>3, <2>5, StringsUnify DEF BinaryString, Varying, Type, Within, is_conversion_stop_type, Text
  <2>6. CASE t.kind = v.kind /\ w.kind = "unknown"
    BY <1>2, <2>1, <2>2, <2>3, <2>6, StringsUnify DEF BinaryString, UnaryString, Varying, Type, Within, is_conversion_stop_type, Text
  <2>7. CASE t.kind = "unknown" /\ w.kind = v.kind
    BY <1>2, <2>1, <2>2, <2>3, <2>7, StringsUnify DEF BinaryString, UnaryString, Varying, Type, Within, is_conversion_stop_type, Text
  <2>8. QED
    BY <2>1, <2>4, <2>5, <2>6, <2>7
<1>3. CASE v.kind \notin Number \cup {"character", "octet"}
  <2>1. v.kind # "bit" /\ Settled(v)
    BY DEF Bitless, Within
  <2>2. \A x \in {t, w} : x = v \/ (x = Unknown /\ v.kind # "extension")
    <3>1. \A x \in Bitless : x.kind = "unknown" => x = Unknown
      BY DEF Unknown, Bitless, SqlType, Plain
    <3>2. QED
      BY <1>3, <2>1, <3>1 DEF Within, NumberWithin, Number, Integral, Approximate, Text
  <2>3. category_of(v) \notin {"unresolved", "number"} /\ category_of(v) \notin Text
    BY <1>3, <2>1, Categories DEF Settled, Bitless, Text
  <2>4. category_of(Unknown) = "unknown" /\ Unknown.kind = "unknown"
    BY DEF category_of, Unknown, Just, Type, Number, Integral, Approximate, Text, Clock
  <2>5. Unify(t, w) \in {v, Unknown}
    <3>1. CASE t = Unknown /\ w = Unknown
      BY <2>4, <3>1 DEF Unify, unify_category
    <3>2. CASE v.kind \in {"boolean", "datetime_interval", "blob", "clob"}
      <4>1. v = Just(v.kind) /\ category_of(v) = v.kind
        BY <3>2 DEF Bitless, SqlType, Plain, category_of, Number, Integral, Approximate, Text, Clock
      <4>2. CASE t = v \/ w = v
        BY <2>2, <2>4, <3>2, <4>1, <4>2 DEF Unify, unify_category, BinaryPlain
      <4>3. QED
        BY <2>2, <3>1, <4>2
    <3>3. CASE v.kind = "extension"
      <4>1. category_of(v) = "external"
        BY <3>3 DEF category_of, Number, Integral, Approximate, Text, Clock
      <4>2. QED
        BY <2>2, <3>3, <4>1 DEF Unify, unify_category, binary_external_promotion
    <3>4. CASE v.kind = "unknown"
      BY <2>2, <3>1, <3>4 DEF Unknown, Bitless, SqlType, Plain
    <3>5. CASE v.kind \in Clock \cup {"date", "array", "record", "declared"}
      <4>1. category_of(v) \in {"temporal", "collection", "structure", "unique"}
        BY <3>5 DEF category_of, Number, Integral, Approximate, Text, Clock
      <4>2. CASE t = v \/ w = v
        BY <2>2, <2>4, <4>1, <4>2 DEF Unify, unify_category, identity_conversion
      <4>3. QED
        BY <2>2, <3>1, <4>2
    <3>6. QED
      BY <1>3, <2>1, <3>2, <3>3, <3>4, <3>5 DEF Settled, is_conversion_stop_type, Bitless, SqlType, Kind, Plain,
         Number, Integral, Approximate, Text, Clock, Composed
  <2>6. Unify(t, w) = Unknown => v.kind # "extension"
    <3> SUFFICES ASSUME Unify(t, w) = Unknown PROVE v.kind # "extension"
      OBVIOUS
    <3>1. Within(t, Unknown)
      BY <2>4, LeftWithin DEF is_conversion_stop_type
    <3>2. t.kind = "unknown"
      BY <2>4, <3>1 DEF Within, NumberWithin, Text
    <3>3. QED
      BY <2>2, <3>2
  <2>7. Within(v, v)
    BY <2>1, WithinItself
  <2>8. QED
    BY <2>1, <2>2, <2>4, <2>5, <2>6, <2>7 DEF Within, Settled, is_conversion_stop_type
<1>4. QED
  BY <1>1, <1>2, <1>3

-----------------------------------------------------------------------------
(* What Reduced computes *)

LEMMA LeastException ==
  ASSUME NEW S \in SUBSET Nat, S # {}
  PROVE  \E i \in S : \A j \in S : i <= j
<1> DEFINE less == OpToRel(<, Nat)
<1>1. IsWellFoundedOn(less, Nat)
  BY NatLessThanWellFounded
<1>2. PICK i \in S : \A j \in S : ~ (<<j, i>> \in less)
  <2> HIDE DEF less
  <2>1. QED
    BY <1>1, WFMin
<1>3. \A j \in S : ~ (j < i)
  BY <1>2 DEF OpToRel
<1>4. QED
  BY <1>3

Continued(f, ts, g, i) ==
  IF i = (IF f = "case" THEN 0 ELSE 1) THEN Start(f, ts)
  ELSE IF i = 0 THEN Unknown
  ELSE IF is_conversion_stop_type(g[i - 1]) THEN g[i - 1]
  ELSE Folded(f, g[i - 1], ts[i])

FoldsInto(f, ts, n, g) == g = [i \in 0 .. n |-> Continued(f, ts, g, i)]

\* Whatever is folded, there is a function of the results so far.
LEMMA FoldExists ==
  ASSUME NEW f, NEW ts, NEW n \in Nat
  PROVE  \E g : FoldsInto(f, ts, n, g)
<1> DEFINE Without == {m \in Nat : ~ \E g : FoldsInto(f, ts, m, g)}
<1>1. SUFFICES ASSUME Without # {} PROVE FALSE
  OBVIOUS
<1>2. PICK m \in Without : \A j \in Without : m <= j
  <2> HIDE DEF Without
  <2>1. Without \in SUBSET Nat
    BY DEF Without
  <2>2. QED
    BY <1>1, <2>1, LeastException
<1>3. CASE m = 0
  <2> DEFINE g == [i \in 0 .. 0 |-> IF f = "case" THEN Start(f, ts) ELSE Unknown]
  <2>1. \A i \in 0 .. 0 : Continued(f, ts, g, i) = IF f = "case" THEN Start(f, ts) ELSE Unknown
    BY DEF Continued
  <2> HIDE DEF g
  <2>2. FoldsInto(f, ts, 0, g)
    BY <2>1 DEF FoldsInto, g
  <2>3. QED
    BY <1>3, <2>2
<1>4. CASE m # 0
  <2>1. PICK g : FoldsInto(f, ts, m - 1, g)
    BY <1>2, <1>4
  <2> DEFINE h == [i \in 0 .. m |-> IF i = m THEN Continued(f, ts, g, m) ELSE g[i]]
  <2>2. m \in Nat /\ m - 1 \in Nat
    BY <1>4
  <2>3. ASSUME NEW i \in 0 .. m PROVE h[i] = Continued(f, ts, h, i)
    <3>1. i # 0 => h[i - 1] = g[i - 1]
      BY <2>2
    <3> HIDE DEF h
    <3>2. Continued(f, ts, h, i) = Continued(f, ts, g, i)
      BY <3>1 DEF Continued
    <3>3. h[i] = Continued(f, ts, g, i)
      <4>1. CASE i = m
        BY <4>1 DEF h
      <4>2. CASE i # m
        <5>1. i \in 0 .. m - 1
          BY <2>2, <4>2
        <5>2. g[i] = Continued(f, ts, g, i)
          BY <2>1, <5>1 DEF FoldsInto
        <5>3. QED
          BY <4>2, <5>2 DEF h
      <4>3. QED
        BY <4>1, <4>2
    <3>4. QED
      BY <3>2, <3>3
  <2>4. h = [i \in 0 .. m |-> h[i]]
    OBVIOUS
  <2> HIDE DEF h
  <2>5. FoldsInto(f, ts, m, h)
    BY <2>3, <2>4 DEF FoldsInto
  <2>6. QED
    BY <2>5
<1>5. QED
  BY <1>3, <1>4

LEMMA ReducedFolds ==
  ASSUME NEW f, NEW ts, Len(ts) \in Nat
  PROVE  \E g : FoldsInto(f, ts, Len(ts), g) /\ Reduced(f, ts) = g[Len(ts)]
<1> DEFINE r == CHOOSE g : FoldsInto(f, ts, Len(ts), g)
<1>1. FoldsInto(f, ts, Len(ts), r)
  BY FoldExists
<1>2. Reduced(f, ts) = r[Len(ts)]
  BY DEF Reduced, FoldsInto, Continued
<1>3. QED
  BY <1>1, <1>2

-----------------------------------------------------------------------------
(* The least type within which all are that were folded *)

\* v is a type within which the first k are, and NULL where the fold begins with it.
Bounds(f, ts, k, v) ==
  /\ f = "case" => Within(Unknown, v)
  /\ \A i \in 1 .. k : Within(ts[i], v)

\* One type, or equal ones in a cogroup, are kept as they are.
Kept(f, ts, k) ==
  /\ f # "case"
  /\ k = 1 \/ f = "cogroup"
  /\ \A i \in 1 .. k : ts[i] = ts[1]

Least(f, ts, k, r) ==
  /\ r \in Bitless /\ ~ is_conversion_stop_type(r)
  /\ IF Kept(f, ts, k) THEN r = ts[1] ELSE Bounds(f, ts, k, r)
  /\ \A v \in Bitless : Bounds(f, ts, k, v) => Within(r, v)

LEMMA LeastStart ==
  ASSUME NEW f \in Fold, NEW ts, NEW k \in {0, 1}, k = IF f = "case" THEN 0 ELSE 1,
         NEW r, r = (IF f = "case" THEN Unknown ELSE ts[1]), r \in Bitless, ~ is_conversion_stop_type(r)
  PROVE  Least(f, ts, k, r)
<1>1. CASE f = "case"
  <2>1. Within(Unknown, Unknown)
    BY DEF Within, Settled, is_conversion_stop_type, Unknown, Just, Type, Text
  <2>2. QED
    BY <1>1, <2>1 DEF Least, Kept, Bounds
<1>2. CASE f # "case"
  BY <1>2 DEF Least, Kept, Bounds
<1>3. QED
  BY <1>1, <1>2

\* A fold goes on to the least type of one more, unless it comes to an error; and it does not
\* where there is a type within which all of them are.
LEMMA LeastStep ==
  ASSUME NEW f \in Fold, NEW ts, NEW k \in Nat, f # "case" => k >= 1,
         \A i \in 1 .. k + 1 : ts[i] \in Bitless,
         NEW r, Least(f, ts, k, r), NEW u, u = Folded(f, r, ts[k + 1])
  PROVE  /\ ~ is_conversion_stop_type(u) => Least(f, ts, k + 1, u)
         /\ \A v \in Bitless : Bounds(f, ts, k + 1, v) => ~ is_conversion_stop_type(u)
         /\ Kept(f, ts, k + 1) => ~ is_conversion_stop_type(u)
<1> DEFINE q == ts[k + 1]
<1>1. q \in Bitless /\ r \in Bitless /\ ~ is_conversion_stop_type(r)
  BY DEF Least
<1>2. ASSUME NEW v \in Bitless, Bounds(f, ts, k + 1, v)
      PROVE  Within(r, v) /\ Within(q, v)
  <2>1. Bounds(f, ts, k, v) /\ Within(q, v)
    BY <1>2 DEF Bounds
  <2>2. QED
    BY <2>1 DEF Least
<1>3. CASE f = "cogroup" /\ r = q
  <2>1. u = r
    BY <1>3 DEF Folded
  <2>2. ASSUME Kept(f, ts, k) PROVE Kept(f, ts, k + 1) /\ r = ts[1]
    <3>1. r = ts[1]
      BY <2>2 DEF Least
    <3>2. \A i \in 1 .. k + 1 : i \in 1 .. k \/ i = k + 1
      OBVIOUS
    <3>3. QED
      BY <1>3, <2>2, <3>1, <3>2 DEF Kept
  <2>3. ASSUME ~ Kept(f, ts, k) PROVE ~ Kept(f, ts, k + 1) /\ Bounds(f, ts, k + 1, r)
    <3>1. Bounds(f, ts, k, r)
      BY <2>3 DEF Least
    <3>2. Settled(r)
      BY <1>3, <3>1 DEF Bounds, Within
    <3>3. Within(q, r)
      BY <1>1, <1>3, <3>2, WithinItself
    <3>4. \A i \in 1 .. k + 1 : i \in 1 .. k \/ i = k + 1
      OBVIOUS
    <3>5. ~ Kept(f, ts, k + 1)
      BY <1>3, <2>3 DEF Kept
    <3>6. QED
      BY <3>1, <3>3, <3>4, <3>5 DEF Bounds
  <2>4. \A v \in Bitless : Bounds(f, ts, k + 1, v) => Within(r, v)
    BY <1>2
  <2>5. Least(f, ts, k + 1, r)
    BY <1>1, <2>2, <2>3, <2>4 DEF Least
  <2>6. QED
    BY <1>1, <2>1, <2>5
<1>4. CASE ~ (f = "cogroup" /\ r = q)
  <2>1. u = Unify(r, q) /\ u = Unify(q, r) /\ u \in Bitless
    BY <1>1, <1>4, CommonTypeCommutes, CommonTypeHolds DEF Folded
  <2>2. ASSUME NEW v \in Bitless, Bounds(f, ts, k + 1, v)
        PROVE  ~ is_conversion_stop_type(u) /\ Within(u, v)
    BY <1>1, <1>2, <2>1, <2>2, CommonTypeLeast
  <2>3. ~ Kept(f, ts, k + 1)
    <3> SUFFICES ASSUME Kept(f, ts, k + 1) PROVE FALSE
      OBVIOUS
    <3>1. f = "cogroup" /\ k >= 1
      BY DEF Kept
    <3>2. Kept(f, ts, k) /\ q = ts[1]
      BY <3>1 DEF Kept
    <3>3. QED
      BY <1>4, <3>1, <3>2 DEF Least
  <2>4. ASSUME ~ is_conversion_stop_type(u) PROVE Bounds(f, ts, k + 1, u)
    <3>1. Within(r, u) /\ Within(q, u)
      BY <1>1, <2>1, <2>4, LeftWithin
    <3>2. ASSUME NEW t \in Bitless, Within(t, r) PROVE Within(t, u)
      BY <1>1, <2>1, <3>1, <3>2, WithinTransitive
    <3>3. Unknown \in Bitless
      BY ErrorType
    <3>4. \A i \in 1 .. k + 1 : i \in 1 .. k \/ i = k + 1
      OBVIOUS
    <3>5. CASE Kept(f, ts, k)
      BY <3>1, <3>4, <3>5 DEF Kept, Least, Bounds
    <3>6. CASE ~ Kept(f, ts, k)
      <4>1. Bounds(f, ts, k, r)
        BY <3>6 DEF Least
      <4>2. f = "case" => Within(Unknown, u)
        BY <3>2, <3>3, <4>1 DEF Bounds
      <4>3. \A i \in 1 .. k : Within(ts[i], u)
        BY <3>2, <4>1 DEF Bounds
      <4>4. QED
        BY <3>1, <3>4, <4>2, <4>3 DEF Bounds
    <3>7. QED
      BY <3>5, <3>6
  <2>5. ~ is_conversion_stop_type(u) => Least(f, ts, k + 1, u)
    BY <2>1, <2>2, <2>3, <2>4 DEF Least
  <2>6. QED
    BY <2>2, <2>3, <2>5
<1>5. QED
  BY <1>3, <1>4

\* What OrderIrrelevant rests on.  A range of one type only makes that type one of any length.
LeastSoFar ==
  /\ fold \in Fold
  /\ \E n \in 1 .. MaxLength : types \in [1 .. n -> Types]
  /\ at \in (IF fold = "case" THEN 0 ELSE 1) .. Len(types)
  /\ IF fold = "range" /\ Len(types) = 1 THEN result = Start(fold, types)
     ELSE result \in Bitless /\ (~ is_conversion_stop_type(result) => Least(fold, types, at, result))

LEMMA InitLeast ==
  ASSUME \A t \in Types : t.kind # "bit", Init
  PROVE  LeastSoFar
<1>1. PICK n \in 1 .. MaxLength : types \in [1 .. n -> Types]
  BY DEF Init
<1>2. MaxLength \in Nat /\ n \in Nat /\ Len(types) = n /\ n >= 1
  BY <1>1, TypesAssumption, ListType
<1>3. types[1] \in Bitless /\ Unknown \in Bitless
  BY <1>1, <1>2, TypesAssumption, ErrorType DEF Bitless
<1>4. CASE fold = "range" /\ Len(types) = 1
  BY <1>1, <1>2, <1>4 DEF Init, LeastSoFar
<1>5. CASE ~ (fold = "range" /\ Len(types) = 1)
  <2>1. result = (IF fold = "case" THEN Unknown ELSE types[1]) /\ at = (IF fold = "case" THEN 0 ELSE 1) /\ fold \in Fold
    BY <1>5 DEF Init, Start
  <2>2. result \in Bitless
    BY <1>3, <2>1
  <2>3. ~ is_conversion_stop_type(result) => Least(fold, types, at, result)
    BY <2>1, <2>2, LeastStart
  <2>4. QED
    BY <1>1, <1>2, <1>5, <2>1, <2>2, <2>3 DEF LeastSoFar
<1>6. QED
  BY <1>4, <1>5

LEMMA NextLeast ==
  ASSUME \A t \in Types : t.kind # "bit", LeastSoFar, [Next]_vars
  PROVE  LeastSoFar'
<1>1. CASE UNCHANGED vars
  BY <1>1 DEF LeastSoFar, Least, Kept, Bounds, vars
<1>2. CASE Step
  <2>1. PICK n \in 1 .. MaxLength : types \in [1 .. n -> Types]
    BY DEF LeastSoFar
  <2>2. MaxLength \in Nat /\ n \in Nat /\ Len(types) = n
    BY <2>1, TypesAssumption, ListType
  <2>3. /\ at \in Nat /\ at + 1 \in 1 .. n /\ at' = at + 1 /\ types' = types /\ fold' = fold
        /\ fold # "case" => at >= 1
        /\ fold \in Fold
    BY <1>2, <2>2 DEF Step, LeastSoFar
  <2>4. ~ (fold = "range" /\ n = 1)
    BY <2>3
  <2>5. result \in Bitless /\ (~ is_conversion_stop_type(result) => Least(fold, types, at, result))
    BY <2>2, <2>4 DEF LeastSoFar
  <2>6. \A i \in 1 .. at + 1 : types[i] \in Bitless
    BY <2>1, <2>3, TypesAssumption DEF Bitless
  <2>7. result' = Folded(fold, result, types[at + 1]) /\ types[at + 1] \in Bitless
    BY <1>2, <2>3, <2>6 DEF Step
  <2>8. result' \in Bitless
    BY <2>5, <2>7, CommonTypeHolds DEF Folded
  <2>9. ASSUME ~ is_conversion_stop_type(result') PROVE Least(fold, types, at + 1, result')
    <3>1. CASE ~ is_conversion_stop_type(result)
      BY <2>3, <2>5, <2>6, <2>7, <2>9, <3>1, LeastStep
    <3>2. CASE is_conversion_stop_type(result)
      \* Only the first type of a range is folded although it stops the fold.
      <4>1. fold = "range" /\ result' = Unify(result, types[at + 1])
        BY <1>2, <2>7, <3>2 DEF Step, Folded
      <4>2. Within(result, result')
        BY <2>5, <2>7, <2>9, <4>1, LeftWithin
      <4>3. QED
        BY <2>5, <2>8, <3>2, <4>2, WithinKind
    <3>3. QED
      BY <3>1, <3>2
  <2>10. QED
    <3>1. LeastSoFar' <=>
            /\ fold' \in Fold
            /\ \E m \in 1 .. MaxLength : types' \in [1 .. m -> Types]
            /\ at' \in (IF fold' = "case" THEN 0 ELSE 1) .. Len(types')
            /\ IF fold' = "range" /\ Len(types') = 1 THEN result' = Start(fold', types')
               ELSE result' \in Bitless /\ (~ is_conversion_stop_type(result') => Least(fold', types', at', result'))
      BY DEF LeastSoFar, Least, Kept, Bounds
    <3>2. QED
      BY <2>1, <2>2, <2>3, <2>4, <2>8, <2>9, <3>1
<1>3. QED
  BY <1>1, <1>2 DEF Next

-----------------------------------------------------------------------------

\* The same types in two orders have the same bounds.
Rearranged(ts, qs, n) ==
  /\ \A i \in 1 .. n : \E j \in 1 .. n : qs[i] = ts[j]
  /\ \A i \in 1 .. n : \E j \in 1 .. n : ts[i] = qs[j]

LEMMA SameBounds ==
  ASSUME NEW f, NEW n \in Nat, n >= 1, NEW ts, NEW qs, Rearranged(ts, qs, n)
  PROVE  /\ Kept(f, ts, n) <=> Kept(f, qs, n)
         /\ Kept(f, ts, n) => \A i \in 1 .. n : qs[i] = ts[1]
         /\ \A v : Bounds(f, ts, n, v) <=> Bounds(f, qs, n, v)
<1>1. 1 \in 1 .. n
  OBVIOUS
<1>2. (\A i \in 1 .. n : ts[i] = ts[1]) => \A i \in 1 .. n : qs[i] = ts[1]
  BY DEF Rearranged
<1>3. (\A i \in 1 .. n : qs[i] = qs[1]) => \A i \in 1 .. n : ts[i] = qs[1]
  BY DEF Rearranged
<1>4. ASSUME NEW v PROVE Bounds(f, ts, n, v) <=> Bounds(f, qs, n, v)
  BY DEF Bounds, Rearranged
<1>5. QED
  BY <1>1, <1>2, <1>3, <1>4 DEF Kept

\* What a list is folded into, from the least type of another list of the same types.
LEMMA SameFold ==
  ASSUME NEW f \in Fold, NEW n \in Nat, n >= 1, ~ (f = "range" /\ n = 1),
         NEW ts, NEW qs, Len(qs) = n, Rearranged(ts, qs, n),
         \A i \in 1 .. n : qs[i] \in Bitless,
         NEW top, Least(f, ts, n, top)
  PROVE  Reduced(f, qs) = top
<1> DEFINE from == IF f = "case" THEN 0 ELSE 1
<1>1. PICK g : FoldsInto(f, qs, n, g) /\ Reduced(f, qs) = g[n]
  <2>1. Len(qs) \in Nat
    OBVIOUS
  <2>2. \E g : FoldsInto(f, qs, Len(qs), g) /\ Reduced(f, qs) = g[Len(qs)]
    BY <2>1, ReducedFolds
  <2>3. QED
    BY <2>2
<1>2. from \in {0, 1} /\ from <= n /\ from \in 0 .. n
  OBVIOUS
<1>3. \A i \in 0 .. n : g[i] = Continued(f, qs, g, i)
  BY <1>1 DEF FoldsInto
<1>4. top \in Bitless /\ ~ is_conversion_stop_type(top)
  BY DEF Least
<1>5. Kept(f, ts, n) => Kept(f, qs, n) /\ \A i \in 1 .. n : qs[i] = top
  BY SameBounds DEF Least
<1>6. ~ Kept(f, ts, n) => ~ Kept(f, qs, n) /\ Bounds(f, qs, n, top)
  BY SameBounds DEF Least
<1>7. g[from] = (IF f = "case" THEN Unknown ELSE qs[1])
  <2>1. g[from] = Continued(f, qs, g, from)
    BY <1>2, <1>3
  <2>2. Continued(f, qs, g, from) = Start(f, qs)
    BY DEF Continued
  <2>3. QED
    BY <2>1, <2>2 DEF Start
<1>8. g[from] \in Bitless /\ ~ is_conversion_stop_type(g[from])
  <2>1. CASE f = "case"
    BY <1>7, <2>1, ErrorType DEF is_conversion_stop_type, Unknown, Just, Type
  <2>2. CASE f # "case"
    <3>1. g[from] = qs[1] /\ qs[1] \in Bitless
      BY <1>7, <2>2
    <3>2. CASE Kept(f, ts, n)
      BY <1>4, <1>5, <3>1, <3>2
    <3>3. CASE ~ Kept(f, ts, n)
      <4>1. Within(qs[1], top)
        BY <1>6, <3>3 DEF Bounds
      <4>2. QED
        BY <1>4, <3>1, <4>1, WithinKind
    <3>4. QED
      BY <3>2, <3>3
  <2>3. QED
    BY <2>1, <2>2
<1>9. Least(f, qs, from, g[from])
  BY <1>2, <1>7, <1>8, LeastStart
<1> HIDE DEF from
<1>10. ASSUME NEW k \in Nat, k >= from, k < n, Least(f, qs, k, g[k])
       PROVE  Least(f, qs, k + 1, g[k + 1])
  <2>1. ~ is_conversion_stop_type(g[k])
    BY <1>10 DEF Least
  <2>2. k \in Nat /\ k + 1 \in 1 .. n /\ (f # "case" => k >= 1) /\ \A i \in 1 .. k + 1 : i \in 1 .. n
    BY <1>10 DEF from
  <2>3. g[k + 1] = Folded(f, g[k], qs[k + 1])
    <3>1. g[k + 1] = Continued(f, qs, g, k + 1)
      <4>1. k + 1 \in 0 .. n
        BY <2>2
      <4>2. QED
        BY <1>3, <4>1
    <3>2. k + 1 # from /\ k + 1 # 0 /\ k + 1 - 1 = k
      BY <1>2, <1>10
    <3>3. QED
      BY <2>1, <3>1, <3>2 DEF Continued, from
  <2>4. \A i \in 1 .. k + 1 : qs[i] \in Bitless
    BY <2>2
  <2>5. Kept(f, ts, n) => Kept(f, qs, k + 1)
    BY <1>5, <2>2 DEF Kept
  <2>6. ~ Kept(f, ts, n) => Bounds(f, qs, k + 1, top)
    BY <1>6, <2>2 DEF Bounds
  <2>7. QED
    BY <1>4, <1>10, <2>2, <2>3, <2>4, <2>5, <2>6, LeastStep
<1>11. Least(f, qs, n, g[n])
  <2> DEFINE Without == {k \in Nat : k >= from /\ k <= n /\ ~ Least(f, qs, k, g[k])}
  <2>1. SUFFICES ASSUME Without # {} PROVE FALSE
    <3>1. n >= from /\ n <= n
      BY <1>2
    <3>2. QED
      BY <3>1
  <2>2. PICK k \in Without : \A j \in Without : k <= j
    <3> HIDE DEF Without
    <3>1. Without \in SUBSET Nat
      BY DEF Without
    <3>2. QED
      BY <2>1, <3>1, LeastException
  <2>3. k \in Nat /\ k >= from /\ k <= n /\ ~ Least(f, qs, k, g[k])
    BY <2>2
  <2>4. k # from
    BY <1>9, <2>3
  <2>5. k - 1 \in Nat /\ k - 1 >= from /\ k - 1 < n /\ k - 1 + 1 = k
    BY <1>2, <2>3, <2>4
  <2>6. Least(f, qs, k - 1, g[k - 1])
    BY <2>2, <2>5
  <2>7. QED
    BY <1>10, <2>3, <2>5, <2>6
<1>12. CASE Kept(f, ts, n)
  BY <1>1, <1>5, <1>11, <1>12 DEF Least
<1>13. CASE ~ Kept(f, ts, n)
  <2>1. g[n] \in Bitless /\ Within(g[n], top)
    BY <1>4, <1>6, <1>11, <1>13 DEF Least
  <2>2. Bounds(f, qs, n, g[n])
    BY <1>6, <1>11, <1>13 DEF Least
  <2>3. Bounds(f, ts, n, g[n])
    BY <2>2, SameBounds
  <2>4. Within(top, g[n])
    BY <2>1, <2>3 DEF Least
  <2>5. QED
    BY <1>1, <1>4, <2>1, <2>4, WithinAntisymmetric
<1>14. QED
  BY <1>12, <1>13

\* For any number of types of any precision, scale and length: whatever is folded, the common
\* type depends on the types alone and not on their order.
THEOREM OrderCorrect ==
  ASSUME \A t \in Types : t.kind # "bit"
  PROVE  Spec => []OrderIrrelevant
<1>1. Init => LeastSoFar
  BY InitLeast
<1>2. LeastSoFar /\ [Next]_vars => LeastSoFar'
  BY NextLeast
<1>3. LeastSoFar => OrderIrrelevant
  <2> SUFFICES ASSUME LeastSoFar, at = Len(types), ~ is_conversion_stop_type(result),
                      NEW p \in [DOMAIN types -> DOMAIN types],
                      \A i \in DOMAIN types : \E j \in DOMAIN types : p[j] = i
               PROVE  Reduced(fold, [i \in DOMAIN types |-> types[p[i]]]) = result
    BY DEF OrderIrrelevant
  <2>1. PICK n \in 1 .. MaxLength : types \in [1 .. n -> Types]
    BY DEF LeastSoFar
  <2>2. MaxLength \in Nat /\ n \in Nat /\ n >= 1 /\ Len(types) = n /\ DOMAIN types = 1 .. n
    BY <2>1, TypesAssumption, ListType
  <2> DEFINE qs == [i \in 1 .. n |-> types[p[i]]]
  <2>3. qs \in [1 .. n -> Types]
    BY <2>1, <2>2
  <2>4. Len(qs) = n
    BY <2>2, <2>3, ListType
  <2>5. \A i \in 1 .. n : qs[i] = types[p[i]] /\ p[i] \in 1 .. n
    BY <2>2
  <2>6. \A i \in 1 .. n : qs[i] \in Bitless
    BY <2>3, TypesAssumption DEF Bitless
  <2> HIDE DEF qs
  <2>7. \A i \in 1 .. n : \E j \in 1 .. n : qs[i] = types[j]
    BY <2>5
  <2>8. \A i \in 1 .. n : \E j \in 1 .. n : types[i] = qs[j]
    <3>1. ASSUME NEW i \in 1 .. n PROVE \E j \in 1 .. n : types[i] = qs[j]
      <4>1. PICK j \in 1 .. n : p[j] = i
        BY <2>2
      <4>2. qs[j] = types[i]
        BY <2>5, <4>1
      <4>3. QED
        BY <4>2
    <3>2. QED
      BY <3>1
  <2>9. CASE fold = "range" /\ n = 1
    <3>1. qs[1] = types[1]
      <4>1. p[1] = 1
        BY <2>2, <2>5, <2>9
      <4>2. QED
        BY <2>5, <2>9, <4>1
    <3>2. PICK g : FoldsInto(fold, qs, n, g) /\ Reduced(fold, qs) = g[n]
      <4>1. Len(qs) \in Nat
        BY <2>2, <2>4
      <4>2. \E g : FoldsInto(fold, qs, Len(qs), g) /\ Reduced(fold, qs) = g[Len(qs)]
        BY <4>1, ReducedFolds
      <4>3. QED
        BY <2>4, <4>2
    <3>3. g[1] = Continued(fold, qs, g, 1)
      BY <2>9, <3>2 DEF FoldsInto
    <3>4. g[1] = Start(fold, qs)
      BY <2>9, <3>3 DEF Continued
    <3>5. Start(fold, qs) = Start(fold, types)
      BY <3>1, <2>2, <2>4 DEF Start
    <3>6. result = Start(fold, types)
      BY <2>2, <2>9 DEF LeastSoFar
    <3>7. QED
      BY <2>2, <2>9, <3>2, <3>4, <3>5, <3>6 DEF qs
  <2>10. CASE ~ (fold = "range" /\ n = 1)
    <3>1. Least(fold, types, n, result) /\ fold \in Fold
      BY <2>2, <2>10 DEF LeastSoFar
    <3>2. Reduced(fold, qs) = result
      <4>1. Rearranged(types, qs, n)
        BY <2>7, <2>8 DEF Rearranged
      <4>2. QED
        BY <2>2, <2>4, <2>6, <2>10, <3>1, <4>1, SameFold
    <3>3. QED
      BY <2>2, <3>2 DEF qs
  <2>11. QED
    BY <2>9, <2>10
<1>4. QED
  BY <1>1, <1>2, <1>3, PTL DEF Spec

=============================================================================
