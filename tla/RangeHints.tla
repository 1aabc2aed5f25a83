----------------------------- MODULE RangeHints -----------------------------
(***************************************************************************)
(* decompose_disjunction_range: a filter whose condition is a disjunction  *)
(* gets the value ranges it implies for single columns as additional       *)
(* terms, so that a later pass may find a range scan.                      *)
(*                                                                         *)
(* The condition is visited bottom up: an operand leaves its range hints   *)
(* on a stack and a connective merges the hints of its two operands.  The  *)
(* condition itself is not kept.  One row and one value of each host       *)
(* variable are fixed for the whole behaviour, and each entry of the stack *)
(* also tells whether its part of the condition is true for them: as they  *)
(* are arbitrary, so are the rows the filter will see.                     *)
(***************************************************************************)
EXTENDS Integers, Sequences

CONSTANTS Column,   \* stream variables
          Host,     \* host variables
          Family,   \* kinds of values, of which compare(...) can compare those of one family
          Approximate,   \* the families of floating point numbers
          Infinite,      \* the values that stand for their infinities
          Value,    \* what columns, host variables and immediates hold
          Null,
          MaxRangeOperands   \* bound: the comparisons in one condition

ASSUME ValueAssumption == Value \subseteq Int /\ Null \notin Int
ASSUME OperandsAssumption == MaxRangeOperands \in Nat

VARIABLES row, host,   \* the row and the host variables the filter is asked about
          parts,       \* for each visited part: is it true, its hints, and its connective
          operands,    \* how many operands the condition has so far
          terms        \* after the visit: are all the added terms true

rangeVars == <<row, host, parts, operands, terms>>

-----------------------------------------------------------------------------
\* The values of bounds.

ImmediateValue == [is : {"immediate"}, family : Family, value : Value \cup {Null}]
Variable == [is : {"variable"}, name : Host]
NoValue == [is |-> "none"]

\* The value of an operand when the filter runs.
Eval(v) == IF v.is = "variable" THEN host[v.name] ELSE v.value

\* Exact numbers are one family, as are floating point numbers, character strings, dates and so
\* on.  Two infinities of one sign are not comparable.  NULL is comparable with nothing, NaN like it.
compare_values(a, b) == IF a = b THEN "equal" ELSE IF a < b THEN "less" ELSE "greater"
compare_value(a, b) ==
  IF a.family = b.family /\ ~ (a.family \in Approximate /\ a.value = b.value /\ a.value \in Infinite)
    THEN compare_values(a.value, b.value) ELSE "undefined"

\* Values of types that unify: of one family they do.
compare(a, b) == IF Null \in {a.value, b.value} THEN "undefined" ELSE compare_value(a, b)

-----------------------------------------------------------------------------
\* range_hint_entry: a lower and an upper bound.  The two sides mirror each other: a bound is
\* tighter than another in the direction its side gives.

Infinity == [type |-> "infinity", value |-> NoValue]
Bound(v, inclusive) == [type |-> IF inclusive THEN "inclusive" ELSE "exclusive", value |-> v]
Bounds == {Infinity} \cup [type : {"inclusive", "exclusive"}, value : ImmediateValue \cup Variable]

Lower == "less"      \* a lower bound is tightened by a value it is less than
Upper == "greater"
Other(side) == IF side = Lower THEN Upper ELSE Lower

\* intersect_lower, intersect_upper: may only shrink the range
Intersect(b, v, inclusive, side) ==
  IF b.type = "infinity" THEN Bound(v, inclusive)
  ELSE IF v.is = "variable" /\ b.value.is # "variable" THEN Bound(v, inclusive)
  ELSE IF v.is # "variable" /\ b.value.is = "variable" THEN b
  ELSE IF v.is = "variable" THEN
    IF b.value = v /\ b.type = "inclusive" /\ ~ inclusive THEN Bound(v, FALSE) ELSE b
  ELSE
    CASE compare(b.value, v) = "equal" -> IF b.type = "inclusive" /\ ~ inclusive THEN Bound(v, FALSE) ELSE b
      [] compare(b.value, v) = side -> Bound(v, inclusive)
      [] OTHER -> b

UnionKeepsValue(b, v, inclusive, side) ==   \* mutant: an infinite bound keeps its value
  [type |-> "infinity", value |-> b.value]

UnionCommon(b, v, inclusive, side) ==   \* mutant: a bound that cannot be compared is kept
  IF b.type = "infinity" \/ v.is # b.value.is THEN b
  ELSE IF v.is = "variable" THEN IF b.value = v /\ inclusive THEN Bound(v, TRUE) ELSE b
  ELSE
    CASE compare(b.value, v) = "equal" -> IF inclusive THEN Bound(v, TRUE) ELSE b
      [] compare(b.value, v) = Other(side) -> Bound(v, inclusive)
      [] OTHER -> b

UnionGivesUp(b, v, inclusive, side) ==   \* mutant: the other bound is dropped where it is wider
  IF b.type = "infinity" \/ v.is # b.value.is \/ v.is = "variable" THEN Infinity
  ELSE
    CASE compare(b.value, v) \in {"undefined", Other(side)} -> Infinity
      [] OTHER -> b

\* union_lower, union_upper: must cover both ranges, infinity where they cannot be compared
Union(b, v, inclusive, side) ==
  IF b.type = "infinity" THEN b
  ELSE IF v.is # b.value.is THEN Infinity
  ELSE IF v.is = "variable" THEN
    IF b.value # v THEN Infinity
    ELSE IF b.type = "exclusive" /\ inclusive THEN Bound(v, TRUE) ELSE b
  ELSE
    CASE compare(b.value, v) = "undefined" -> Infinity
      [] compare(b.value, v) = "equal" -> IF b.type = "exclusive" /\ inclusive THEN Bound(v, TRUE) ELSE b
      [] compare(b.value, v) = Other(side) -> Bound(v, inclusive)
      [] OTHER -> b

IntersectBound(b, o, side) == IF o.type = "infinity" THEN b ELSE Intersect(b, o.value, o.type = "inclusive", side)
UnionBound(b, o, side) == IF o.type = "infinity" THEN Infinity ELSE Union(b, o.value, o.type = "inclusive", side)

NoHint == [lower |-> Infinity, upper |-> Infinity]
Hint == [lower : Bounds, upper : Bounds]

IntersectMerge(e, o) == [lower |-> IntersectBound(e.lower, o.lower, Lower),
                         upper |-> IntersectBound(e.upper, o.upper, Upper)]
UnionMerge(e, o) == [lower |-> UnionBound(e.lower, o.lower, Lower),
                     upper |-> UnionBound(e.upper, o.upper, Upper)]

\* range_hint_map: a column without an entry has no hint
NoHints == [c \in Column |-> NoHint]
IntersectMaps(m, o) ==
  [c \in Column |-> IF o[c] = NoHint THEN m[c] ELSE IntersectMerge(m[c], o[c])]

UnionMapsKept(m, o) ==   \* mutant: a column the other side does not restrict keeps its hint
  [c \in Column |-> IF o[c] = NoHint THEN m[c] ELSE UnionMerge(m[c], o[c])]

UnionMaps(m, o) ==
  [c \in Column |-> IF o[c] = NoHint THEN NoHint ELSE UnionMerge(m[c], o[c])]

-----------------------------------------------------------------------------
\* The visit.

Comparators == {"equal", "not_equal", "less", "less_equal", "greater", "greater_equal"}

transpose(op) ==
  CASE op = "less" -> "greater" [] op = "less_equal" -> "greater_equal"
    [] op = "greater" -> "less" [] op = "greater_equal" -> "less_equal"
    [] OTHER -> op

\* The hint of "column op v".
Extracted(op, v) ==
  [lower |-> IF op \in {"equal", "greater_equal"} THEN Bound(v, TRUE)
             ELSE IF op = "greater" THEN Bound(v, FALSE) ELSE Infinity,
   upper |-> IF op \in {"equal", "less_equal"} THEN Bound(v, TRUE)
             ELSE IF op = "less" THEN Bound(v, FALSE) ELSE Infinity]

Extract(c, op, v) == [NoHints EXCEPT ![c] = Extracted(op, v)]

\* A comparison with NULL is not true.
Compared(a, op, b) ==
  /\ a # Null /\ b # Null
  /\ CASE op = "equal" -> a = b [] op = "not_equal" -> a # b
       [] op = "less" -> a < b [] op = "less_equal" -> a <= b
       [] op = "greater" -> a > b [] op = "greater_equal" -> a >= b

Above(x, b) ==
  b.type = "infinity" \/ Compared(Eval(b.value), IF b.type = "inclusive" THEN "less_equal" ELSE "less", x)
Beneath(x, b) ==
  b.type = "infinity" \/ Compared(x, IF b.type = "inclusive" THEN "less_equal" ELSE "less", Eval(b.value))
Within(x, e) == Above(x, e.lower) /\ Beneath(x, e.upper)

\* to_vector: the terms made of the hints, as one conjunction
TermsHold(hints) == \A c \in Column : Within(row[c], hints[c])

RangeInit ==
  /\ row \in [Column -> Value \cup {Null}]
  /\ host \in [Host -> Value \cup {Null}]
  /\ parts = <<>>
  /\ operands = 0
  /\ terms = TRUE

Part(holds, hints, op) == [holds |-> holds, hints |-> hints, op |-> op]

PushPart(part) ==
  /\ operands < MaxRangeOperands
  /\ operands' = operands + 1
  /\ parts' = Append(parts, part)
  /\ UNCHANGED <<row, host, terms>>

\* column op value, and value op column
CompareLeft(c, op, v) == PushPart(Part(Compared(row[c], op, Eval(v)), Extract(c, op, v), "compare"))
CompareRight(c, op, v) ==
  PushPart(Part(Compared(Eval(v), op, row[c]), Extract(c, transpose(op), v), "compare"))

\* any other expression, comparisons of two columns included
OtherOperand(holds) == PushPart(Part(holds, NoHints, "other"))

MergeTopTwo(op, holds(_, _), Merge(_, _)) ==
  LET n == Len(parts)
      l == parts[n - 1]
      r == parts[n]
  IN  /\ n >= 2
      /\ parts' = Append(SubSeq(parts, 1, n - 2), Part(holds(l.holds, r.holds), Merge(l.hints, r.hints), op))
      /\ UNCHANGED <<row, host, operands, terms>>

MergeAnd == MergeTopTwo("and", LAMBDA l, r : l /\ r, IntersectMaps)
MergeOr == MergeTopTwo("or", LAMBDA l, r : l \/ r, UnionMaps)

AddTermsStrict ==   \* mutant: inclusive bounds are written with < too
  /\ Len(parts) = 1
  /\ parts[1].op = "or"
  /\ terms' = \A c \in Column :
       LET e == parts[1].hints[c]
       IN  /\ e.lower.type # "infinity" => Compared(Eval(e.lower.value), "less", row[c])
           /\ e.upper.type # "infinity" => Compared(row[c], "less", Eval(e.upper.value))
  /\ parts' = <<[parts[1] EXCEPT !.op = "done"]>>
  /\ operands' = MaxRangeOperands
  /\ UNCHANGED <<row, host>>

\* process, to_vector: only a disjunction gets terms
AddTerms ==
  /\ Len(parts) = 1
  /\ parts[1].op = "or"
  /\ terms' = TermsHold(parts[1].hints)
  /\ parts' = <<[parts[1] EXCEPT !.op = "done"]>>
  /\ operands' = MaxRangeOperands
  /\ UNCHANGED <<row, host>>

RangeNext ==
  \/ \E c \in Column, op \in Comparators, v \in ImmediateValue \cup Variable :
       CompareLeft(c, op, v) \/ CompareRight(c, op, v)
  \/ \E holds \in BOOLEAN : OtherOperand(holds)
  \/ MergeAnd \/ MergeOr
  \/ AddTerms

RangeSpec == RangeInit /\ [][RangeNext]_rangeVars

-----------------------------------------------------------------------------

\* An infinite bound has no value (range_hint.h: "if the lower bound is infinity, lower_value()
\* will return empty"), and a bound of a hint is an immediate or a host variable.
TypeOK ==
  /\ row \in [Column -> Value \cup {Null}]
  /\ host \in [Host -> Value \cup {Null}]
  /\ parts \in Seq([holds : BOOLEAN, hints : [Column -> Hint], op : {"compare", "other", "and", "or", "done"}])
  /\ operands \in 0 .. MaxRangeOperands
  /\ terms \in BOOLEAN

\* Whatever part of the condition has been visited, a row for which it is true lies within the
\* hints collected for it, in every column: merging never cuts off a row.
HintsImplied == \A k \in DOMAIN parts : parts[k].holds => TermsHold(parts[k].hints)

\* The filter with the added terms accepts exactly the rows it accepted without them.
SameRows == \A k \in DOMAIN parts : parts[k].op = "done" => ((parts[k].holds /\ terms) <=> parts[k].holds)

\* Where two bounds can be compared, a merge keeps all they say: the disjunction is bounded by
\* the wider one ("try to cover column value range"), the conjunction by the tighter one.
Comparable(a, b) ==
  \/ a.type = "infinity" \/ b.type = "infinity"
  \/ a.value.is = "variable" /\ a.value = b.value
  \/ a.value.is = "immediate" /\ b.value.is = "immediate" /\ compare(a.value, b.value) # "undefined"

Exact(l, r, m, both) ==
  \A c \in Column : \A x \in Value :
    /\ Comparable(l[c].lower, r[c].lower) =>
         (Above(x, m[c].lower) <=> IF both THEN Above(x, l[c].lower) /\ Above(x, r[c].lower)
                                            ELSE Above(x, l[c].lower) \/ Above(x, r[c].lower))
    /\ Comparable(l[c].upper, r[c].upper) =>
         (Beneath(x, m[c].upper) <=> IF both THEN Beneath(x, l[c].upper) /\ Beneath(x, r[c].upper)
                                              ELSE Beneath(x, l[c].upper) \/ Beneath(x, r[c].upper))

MergedExactly ==
  [][\A n \in 2 .. MaxRangeOperands :
       Len(parts) = n /\ Len(parts') = n - 1 =>
         Exact(parts[n - 1].hints, parts[n].hints, parts'[n - 1].hints, parts'[n - 1].op = "and")]_rangeVars

=============================================================================
