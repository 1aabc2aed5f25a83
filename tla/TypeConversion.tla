---------------------------- MODULE TypeConversion ----------------------------
(***************************************************************************)
(* How the compiler folds the conversions over the types of several        *)
(* expressions, and the operators over the first of them.                  *)
(***************************************************************************)
EXTENDS ExpressionTypes

CONSTANTS Types,     \* the types of expressions
          MaxLength  \* bound: how many types are folded

ASSUME TypesAssumption == Types \subseteq SqlType /\ MaxLength \in Nat

-----------------------------------------------------------------------------
(* Who folds: the template over iterators ("range"); conditional and       *)
(* coalesce expressions ("case"); a column of values; the group keys of a  *)
(* take_cogroup; and the offers to one column of an exchange.              *)

VARIABLES fold,     \* who
          types,    \* the types it folds
          at,       \* how many it has folded
          result    \* into this type

vars == <<fold, types, at, result>>

Fold == {"range", "case", "values", "cogroup", "offer"}

Start(f, ts) ==
  CASE f = "case" -> Unknown
    [] f = "range" /\ Len(ts) = 1 -> UnaryUnify(ts[1])
    [] OTHER -> ts[1]

\* All but the template give up before they fold a type that is not resolved.
Init ==
  /\ fold \in Fold
  /\ \E n \in 1 .. MaxLength : types \in [1 .. n -> Types]
  /\ fold # "range" => \A i \in DOMAIN types : ~ is_conversion_stop_type(types[i])
  /\ at = IF fold = "case" THEN 0 ELSE 1
  /\ result = Start(fold, types)

Folded(f, r, t) ==
  CASE f = "offer" -> Unify(t, r)
    [] f = "cogroup" /\ r = t -> r
    [] OTHER -> Unify(r, t)

Step ==
  /\ at < Len(types)
  /\ is_conversion_stop_type(result) => fold = "range" /\ at = 1
  /\ result' = Folded(fold, result, types[at + 1])
  /\ at' = at + 1
  /\ UNCHANGED <<fold, types>>

Next == Step

Spec == Init /\ [][Next]_vars

-----------------------------------------------------------------------------
(* Properties *)

HoldsDecimal(t, u) ==
  \/ t.size = Any /\ t.scale = Any
  \/ /\ u.scale = Any /\ t.scale = Any
     /\ t.size = Any \/ (u.size # Any /\ u.size <= t.size)
  \/ /\ u.scale # Any /\ t.scale # Any /\ u.scale <= t.scale
     /\ t.size = Any \/ (u.size # Any /\ u.size - u.scale <= t.size - t.scale)

\* Every value of type u is one of type t, exact numbers being approximated by float8.
Holds(t, u) ==
  \/ u = t \/ u.kind = "unknown"
  \/ u.kind \in Integral /\ t.kind = "int8"
  \/ u.kind \in {"int1", "int2", "int4"} /\ t.kind = "int4"
  \/ u.kind \in Number /\ t.kind = "float8"
  \/ u.kind \in Integral \cup {"decimal"} /\ t.kind = "decimal" /\ HoldsDecimal(t, AsDecimal(u))
  \/ /\ u.kind = t.kind /\ t.kind \in Text /\ t.flag
     /\ t.size = Any \/ (u.size # Any /\ u.size <= t.size)

\* The "common type" holds every value of every type that was folded into it: a row of a case,
\* of values or of a union never loses digits or characters to the type the compiler has chosen.
HoldsAll == ~ is_conversion_stop_type(result) => \A i \in 1 .. at : Holds(result, types[i])

\* What is folded can be assigned to the result, and be cast back from it: the rules for
\* assignments and for casts know every pair the rules for common types bring together.
ResultConvertible ==
  at = Len(types) /\ ~ is_conversion_stop_type(result) => \A i \in 1 .. at :
    /\ is_assignment_convertible(types[i], result) = "yes"
    /\ types[i].kind # "unknown" => is_cast_convertible(result, types[i]) = "yes"

\* The result of a fold of ts.
Reduced(f, ts) ==
  LET r[i \in 0 .. Len(ts)] ==
        IF i = (IF f = "case" THEN 0 ELSE 1) THEN Start(f, ts)
        ELSE IF i = 0 THEN Unknown
        ELSE IF is_conversion_stop_type(r[i - 1]) THEN r[i - 1]
        ELSE Folded(f, r[i - 1], ts[i])
  IN  r[Len(ts)]

\* The common type depends on the types alone and not on their order: the processes that offer
\* to an exchange, for one, are resolved in an order the query does not tell.
OrderIrrelevant ==
  at = Len(types) /\ ~ is_conversion_stop_type(result) =>
    \A p \in [DOMAIN types -> DOMAIN types] :
      (\A i \in DOMAIN types : \E j \in DOMAIN types : p[j] = i) =>
        Reduced(fold, [i \in DOMAIN types |-> types[p[i]]]) = result

\* A choice among overloads is well founded: "may be passed for" is a partial order of the
\* parameter types, and what may be passed may be assigned.
ParameterOrder ==
  LET passes(t, u) == is_parameter_application_convertible(t, u) = "yes"
  IN  \A i, j \in DOMAIN types : passes(types[i], types[j]) =>
        /\ is_assignment_convertible(types[i], types[j]) = "yes"
        /\ passes(types[j], types[i]) => types[i] = types[j] \/ "yes" # is_most_upperbound_compatible_type(types[i])
        /\ \A k \in DOMAIN types : passes(types[j], types[k]) => passes(types[i], types[k])

\* The five tables over pairs of kinds agree.
RulesAgree == ResultConvertible /\ ParameterOrder

FitsBoth(t, l, r) == Holds(t, l) /\ Holds(t, r)

\* The result of an arithmetic operator is of a type that holds both operands, and a concatenation
\* has room for both: x + 0 and x * 1 keep every digit of x, and x || y every character.
OperandsFit ==
  Len(types) = 2 =>
    LET l == types[1]
        r == types[2]
        sound(op, t) == t.kind \in Number => FitsBoth(t, l, r)
        joined(t) == l.kind = r.kind /\ t.kind \in Text => t.flag /\ (t.size = Any \/ (Any \notin {l.size, r.size} /\ t.size >= l.size + r.size))
    IN  /\ \A op \in {"add", "subtract", "multiply", "divide"} : sound(op, Binary(op, l, r).type)
        /\ joined(concat(l, r).type)
        /\ Sign(l).type.kind \in Number => Holds(Sign(l).type, l)

\* What is reported of one operator with operands that have been resolved, and how often at most.
Located(operands, found, most) ==
  /\ found.reports \in 0 .. most
  /\ (\E t \in operands : Unresolved(t)) => found.reports = 0
  /\ Unresolved(found.type) => found.reports = 1 \/ \E t \in operands : Unresolved(t)

CallsLocated(t, parameter) ==
  LET declared == [features |-> {"scalar_function"}, parameters |-> <<parameter>>, result |-> parameter]
  IN  \A call \in {function_call(declared, <<t>>), aggregate_function_call(declared, <<t>>)} : Located({t}, call, 1)

\* Types without a common type are reported twice where they are compared, which is one mistake.
ComparisonLocated(cmp, l, r) ==
  /\ Located({l, r}, compare(cmp, l, r), IF Unresolved(Unify(l, r)) THEN 2 ELSE 1)
  /\ Unresolved(Unify(l, r)) /\ ~ Unresolved(l) /\ ~ Unresolved(r) => compare(cmp, l, r).reports = 2

\* Every mistake is reported, where it is made, and once: what has no type though its operands do
\* is reported; an operand without a type, which has been reported, is not reported again by any
\* operator above it; and one operator has one diagnostic.  Two things are known to differ: a match
\* has one for each operand that is no text, and a comparison without a common type has two.
ReportedOnce ==
  LET t == types[1]
  IN  /\ \A op \in {"sign", "length", "not", "is_null"} : Located({t}, Unary(op, t), 1)
      /\ Len(types) = 2 => \A op \in {"add", "subtract", "multiply", "divide", "concat", "and"} :
           Located({t, types[2]}, Binary(op, t, types[2]), 1)
      /\ Len(types) = 2 => \A op \in {"=", "<"} : ComparisonLocated(op, t, types[2])
      /\ Len(types) = 2 /\ ~ Unresolved(types[2]) => Located({t}, cast(t, types[2]), 1) /\ CallsLocated(t, types[2])
      /\ Len(types) = 3 => match(t, types[2], types[3]).reports <= Cardinality({i \in 1 .. 3 : ~ Unresolved(types[i])})

=============================================================================
