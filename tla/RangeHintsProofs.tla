-------------------------- MODULE RangeHintsProofs --------------------------
(***************************************************************************)
(* Merging range hints never cuts off a row, for every set of integer      *)
(* values, any families of values that cannot be compared with each other, *)
(* any host variables and conditions of any size.                          *)
(***************************************************************************)
EXTENDS RangeHints, SequenceTheorems, TLAPS

Operand == ImmediateValue \cup Variable
Held == Value \cup {Null}
Part_ == [holds : BOOLEAN, hints : [Column -> Hint], op : {"compare", "other", "and", "or", "done"}]

Valued == host \in [Host -> Held]

-----------------------------------------------------------------------------
(* What operands and bounds are when the filter runs. *)

\* An operand has a value or NULL when the filter runs.
LEMMA EvalType ==
  ASSUME Valued, NEW v \in Operand
  PROVE  Eval(v) \in Held
BY DEF Eval, Operand, ImmediateValue, Variable, Held, Valued

\* A bound is infinite or names an operand.
LEMMA BoundCases ==
  ASSUME NEW b \in Bounds
  PROVE  \/ b = Infinity /\ b.type = "infinity"
         \/ b.type \in {"inclusive", "exclusive"} /\ b.value \in Operand
BY DEF Bounds, Infinity, Operand

\* A bound made of an operand is a bound.
LEMMA BoundType ==
  ASSUME NEW v \in Operand, NEW i \in BOOLEAN
  PROVE  Bound(v, i) \in Bounds
BY DEF Bound, Bounds, Operand

\* A merge of two bounds is a bound.
LEMMA MergedBoundType ==
  ASSUME NEW b \in Bounds, NEW o \in Bounds, NEW side \in {Lower, Upper}
  PROVE  IntersectBound(b, o, side) \in Bounds /\ UnionBound(b, o, side) \in Bounds
<1>1. CASE o.type = "infinity"
  BY <1>1 DEF IntersectBound, UnionBound, Bounds
<1>2. CASE o.type # "infinity"
  <2>1. o.value \in Operand /\ (o.type = "inclusive") \in BOOLEAN
    BY <1>2, BoundCases
  <2>2. /\ Bound(o.value, o.type = "inclusive") \in Bounds
        /\ Bound(o.value, FALSE) \in Bounds /\ Bound(o.value, TRUE) \in Bounds
        /\ Infinity \in Bounds
    BY <2>1, BoundType DEF Bounds
  <2>3. Intersect(b, o.value, o.type = "inclusive", side) \in Bounds
    BY <2>2 DEF Intersect
  <2>4. Union(b, o.value, o.type = "inclusive", side) \in Bounds
    BY <2>2 DEF Union
  <2> QED BY <1>2, <2>3, <2>4 DEF IntersectBound, UnionBound
<1> QED BY <1>1, <1>2

-----------------------------------------------------------------------------
(* One bound. *)

\* What a bound made of an operand lets through, below and above.
LEMMA BoundMeaning ==
  ASSUME NEW v \in Operand, NEW i \in BOOLEAN, NEW x \in Held, Valued
  PROVE  /\ Above(x, Bound(v, i)) <=>
              Eval(v) # Null /\ x # Null /\ (Eval(v) < x \/ (i /\ Eval(v) = x))
         /\ Beneath(x, Bound(v, i)) <=>
              Eval(v) # Null /\ x # Null /\ (x < Eval(v) \/ (i /\ Eval(v) = x))
<1>1. Eval(v) \in Held
  BY EvalType
<1>2. CASE i
  BY <1>1, <1>2, ValueAssumption DEF Above, Beneath, Bound, Compared, Held
<1>3. CASE ~ i
  BY <1>1, <1>3, ValueAssumption DEF Above, Beneath, Bound, Compared, Held
<1> QED BY <1>2, <1>3

\* A finite bound is the bound made of its value.
LEMMA BoundOf ==
  ASSUME NEW b \in Bounds, b.type # "infinity"
  PROVE  b = Bound(b.value, b.type = "inclusive") /\ b.value \in Operand /\ (b.type = "inclusive") \in BOOLEAN
BY DEF Bounds, Bound, Infinity, Operand

\* What compare tells of two operands that are immediates.
LEMMA CompareMeaning ==
  ASSUME NEW v \in ImmediateValue, NEW w \in ImmediateValue, Valued
  PROVE  /\ compare(v, w) \in {"undefined", "equal", "less", "greater"}
         /\ compare(v, w) # "undefined" => Eval(v) \in Value /\ Eval(w) \in Value
         /\ compare(v, w) = "equal" => Eval(v) = Eval(w)
         /\ compare(v, w) = "less" => Eval(v) < Eval(w)
         /\ compare(v, w) = "greater" => Eval(w) < Eval(v)
<1>1. /\ v.is = "immediate" /\ v.value \in Value \cup {Null}
      /\ w.is = "immediate" /\ w.value \in Value \cup {Null}
  BY DEF ImmediateValue
<1>2. Eval(v) = v.value /\ Eval(w) = w.value
  BY <1>1 DEF Eval
<1>3. CASE v.family # w.family \/ v.value = Null \/ w.value = Null
  BY <1>3 DEF compare, compare_value, compare_values
<1>4. CASE ~ (v.family # w.family \/ v.value = Null \/ w.value = Null)
  <2>1. v.value \in Value /\ w.value \in Value /\ v.value \in Int /\ w.value \in Int
    BY <1>1, <1>4, ValueAssumption
  <2>2. CASE v.value = w.value
    BY <1>2, <1>4, <2>1, <2>2 DEF compare, compare_value, compare_values
  <2>3. CASE v.value < w.value
    BY <1>2, <1>4, <2>1, <2>3 DEF compare, compare_value, compare_values
  <2>4. CASE w.value < v.value
    BY <1>2, <1>4, <2>1, <2>4 DEF compare, compare_value, compare_values
  <2> QED BY <2>1, <2>2, <2>3, <2>4
<1> QED BY <1>3, <1>4

\* The intersection of two lower bounds lets through what both let through.
LEMMA IntersectKeeps ==
  ASSUME NEW b \in Bounds, NEW o \in Bounds, NEW x \in Held, Valued
  PROVE  /\ Above(x, b) /\ Above(x, o) => Above(x, IntersectBound(b, o, Lower))
         /\ Beneath(x, b) /\ Beneath(x, o) => Beneath(x, IntersectBound(b, o, Upper))
<1>1. CASE o.type = "infinity"
  BY <1>1 DEF IntersectBound
<1>2. CASE o.type # "infinity" /\ b.type = "infinity"
  BY <1>2, BoundOf DEF IntersectBound, Intersect
<1>3. CASE o.type # "infinity" /\ b.type # "infinity"
  <2> DEFINE v == o.value
             i == o.type = "inclusive"
             w == b.value
             j == b.type = "inclusive"
  <2>1. /\ o = Bound(v, i) /\ v \in Operand /\ i \in BOOLEAN
        /\ b = Bound(w, j) /\ w \in Operand /\ j \in BOOLEAN
    BY <1>3, BoundOf
  <2>2. /\ v.is \in {"immediate", "variable"} /\ w.is \in {"immediate", "variable"}
        /\ v.is = "immediate" => v \in ImmediateValue
        /\ w.is = "immediate" => w \in ImmediateValue
    BY <2>1 DEF Operand, ImmediateValue, Variable
  <2>3. \A side \in {Lower, Upper} :
          \/ IntersectBound(b, o, side) \in {b, o}
          \/ v = w /\ IntersectBound(b, o, side) = Bound(v, FALSE) /\ ~ i
          \/ /\ v \in ImmediateValue /\ w \in ImmediateValue /\ compare(w, v) = "equal"
             /\ IntersectBound(b, o, side) = Bound(v, FALSE) /\ ~ i
    BY <1>3, <2>1, <2>2 DEF IntersectBound, Intersect
  <2>4. \A side \in {Lower, Upper} : IntersectBound(b, o, side) \in {b, o}
    BY <2>1, <2>3
  <2> QED BY <2>4
<1> QED BY <1>1, <1>2, <1>3

\* The union of two bounds lets through what either lets through.
LEMMA UnionKeeps ==
  ASSUME NEW b \in Bounds, NEW o \in Bounds, NEW x \in Held, Valued
  PROVE  /\ Above(x, b) \/ Above(x, o) => Above(x, UnionBound(b, o, Lower))
         /\ Beneath(x, b) \/ Beneath(x, o) => Beneath(x, UnionBound(b, o, Upper))
<1>0. Above(x, Infinity) /\ Beneath(x, Infinity) /\ Infinity.type = "infinity"
  BY DEF Above, Beneath, Infinity
<1>1. CASE o.type = "infinity"
  BY <1>0, <1>1 DEF UnionBound
<1>2. CASE o.type # "infinity" /\ b.type = "infinity"
  BY <1>2, BoundCases, <1>0 DEF UnionBound, Union
<1>3. CASE o.type # "infinity" /\ b.type # "infinity"
  <2> DEFINE v == o.value
             i == o.type = "inclusive"
             w == b.value
             j == b.type = "inclusive"
  <2>1. /\ o = Bound(v, i) /\ v \in Operand /\ i \in BOOLEAN
        /\ b = Bound(w, j) /\ w \in Operand /\ j \in BOOLEAN
        /\ j = (b.type # "exclusive")
    BY <1>3, BoundOf, BoundCases
  <2>2. /\ v.is \in {"immediate", "variable"} /\ w.is \in {"immediate", "variable"}
        /\ v.is = "immediate" => v \in ImmediateValue
        /\ w.is = "immediate" => w \in ImmediateValue
    BY <2>1 DEF Operand, ImmediateValue, Variable
  <2>3. CASE v.is # w.is
    BY <1>0, <1>3, <2>3 DEF UnionBound, Union
  <2>4. CASE v.is = "variable" /\ w.is = "variable"
    <3>1. CASE v # w
      BY <1>0, <1>3, <2>4, <3>1 DEF UnionBound, Union
    <3>2. CASE v = w
      <4>1. \A side \in {Lower, Upper} :
              UnionBound(b, o, side) = IF ~ j /\ i THEN Bound(v, TRUE) ELSE b
        BY <1>3, <2>1, <2>4, <3>2 DEF UnionBound, Union
      <4>2. /\ Above(x, b) => Above(x, Bound(v, TRUE))
            /\ Beneath(x, b) => Beneath(x, Bound(v, TRUE))
            /\ Above(x, o) => Above(x, Bound(v, TRUE))
            /\ Beneath(x, o) => Beneath(x, Bound(v, TRUE))
        BY <2>1, <3>2, BoundMeaning
      <4>3. ~ (~ j /\ i) => /\ Above(x, o) => Above(x, b)
                            /\ Beneath(x, o) => Beneath(x, b)
        BY <2>1, <3>2, BoundMeaning
      <4> QED BY <4>1, <4>2, <4>3
    <3> QED BY <3>1, <3>2
  <2>5. CASE v.is = "immediate" /\ w.is = "immediate"
    <3>1. /\ compare(w, v) \in {"undefined", "equal", "less", "greater"}
          /\ compare(w, v) # "undefined" => Eval(v) \in Value /\ Eval(w) \in Value
          /\ compare(w, v) = "equal" => Eval(v) = Eval(w)
          /\ compare(w, v) = "less" => Eval(w) < Eval(v)
          /\ compare(w, v) = "greater" => Eval(v) < Eval(w)
      BY <2>2, <2>5, CompareMeaning
    <3>2. /\ Above(x, o) <=> Eval(v) # Null /\ x # Null /\ (Eval(v) < x \/ (i /\ Eval(v) = x))
          /\ Beneath(x, o) <=> Eval(v) # Null /\ x # Null /\ (x < Eval(v) \/ (i /\ Eval(v) = x))
          /\ Above(x, b) <=> Eval(w) # Null /\ x # Null /\ (Eval(w) < x \/ (j /\ Eval(w) = x))
          /\ Beneath(x, b) <=> Eval(w) # Null /\ x # Null /\ (x < Eval(w) \/ (j /\ Eval(w) = x))
          /\ Above(x, Bound(v, TRUE)) <=> Eval(v) # Null /\ x # Null /\ (Eval(v) < x \/ Eval(v) = x)
          /\ Beneath(x, Bound(v, TRUE)) <=> Eval(v) # Null /\ x # Null /\ (x < Eval(v) \/ Eval(v) = x)
      BY <2>1, BoundMeaning
    <3>3. \A side \in {Lower, Upper} :
            UnionBound(b, o, side) =
              IF compare(w, v) = "undefined" THEN Infinity
              ELSE IF compare(w, v) = "equal" THEN IF ~ j /\ i THEN Bound(v, TRUE) ELSE b
              ELSE IF compare(w, v) = Other(side) THEN o ELSE b
      BY <1>3, <2>1, <2>5 DEF UnionBound, Union, Lower, Upper, Other
    <3>4. Other(Lower) = "greater" /\ Other(Upper) = "less"
      BY DEF Other, Lower, Upper
    <3>5. x # Null => x \in Int
      BY ValueAssumption DEF Held
    <3>6. CASE compare(w, v) = "undefined"
      BY <3>3, <3>6, <1>0
    <3>7. CASE compare(w, v) = "equal"
      BY <3>1, <3>2, <3>3, <3>7
    <3>8. CASE compare(w, v) = "less"
      <4>1. UnionBound(b, o, Lower) = b /\ UnionBound(b, o, Upper) = o
        BY <3>3, <3>4, <3>8
      <4>2. Eval(v) \in Int /\ Eval(w) \in Int /\ Eval(w) < Eval(v) /\ Eval(w) # Null /\ Eval(v) # Null
        BY <3>1, <3>8, ValueAssumption
      <4>3. Above(x, o) => Above(x, b)
        BY <3>2, <3>5, <4>2
      <4>4. Beneath(x, b) => Beneath(x, o)
        BY <3>2, <3>5, <4>2
      <4> QED BY <4>1, <4>3, <4>4
    <3>9. CASE compare(w, v) = "greater"
      <4>1. UnionBound(b, o, Lower) = o /\ UnionBound(b, o, Upper) = b
        BY <3>3, <3>4, <3>9
      <4>2. Eval(v) \in Int /\ Eval(w) \in Int /\ Eval(v) < Eval(w) /\ Eval(w) # Null /\ Eval(v) # Null
        BY <3>1, <3>9, ValueAssumption
      <4>3. Above(x, b) => Above(x, o)
        BY <3>2, <3>5, <4>2
      <4>4. Beneath(x, o) => Beneath(x, b)
        BY <3>2, <3>5, <4>2
      <4> QED BY <4>1, <4>3, <4>4
    <3> QED BY <3>1, <3>6, <3>7, <3>8, <3>9
  <2> QED BY <2>2, <2>3, <2>4, <2>5
<1> QED BY <1>1, <1>2, <1>3

\* Where two bounds can be compared, what a merge of them lets through is settled.
LEMMA BoundsExact ==
  ASSUME NEW b \in Bounds, NEW o \in Bounds, NEW x \in Value, Valued, Comparable(b, o)
  PROVE  /\ Above(x, IntersectBound(b, o, Lower)) <=> Above(x, b) /\ Above(x, o)
         /\ Beneath(x, IntersectBound(b, o, Upper)) <=> Beneath(x, b) /\ Beneath(x, o)
         /\ Above(x, UnionBound(b, o, Lower)) <=> Above(x, b) \/ Above(x, o)
         /\ Beneath(x, UnionBound(b, o, Upper)) <=> Beneath(x, b) \/ Beneath(x, o)
<1>0. /\ \A u : u.type = "infinity" => Above(x, u) /\ Beneath(x, u)
      /\ Infinity.type = "infinity" /\ x \in Held /\ x \in Int /\ x # Null
  BY ValueAssumption DEF Above, Beneath, Infinity, Held
<1>1. CASE o.type = "infinity"
  BY <1>0, <1>1 DEF IntersectBound, UnionBound
<1>2. CASE o.type # "infinity" /\ b.type = "infinity"
  BY <1>0, <1>2, BoundOf DEF IntersectBound, UnionBound, Intersect, Union
<1>3. CASE o.type # "infinity" /\ b.type # "infinity"
  <2> DEFINE v == o.value
             i == o.type = "inclusive"
             w == b.value
             j == b.type = "inclusive"
  <2>1. /\ o = Bound(v, i) /\ v \in Operand /\ i \in BOOLEAN
        /\ b = Bound(w, j) /\ w \in Operand /\ j \in BOOLEAN
        /\ j = (b.type # "exclusive")
    BY <1>3, BoundOf, BoundCases
  <2>2. /\ Above(x, o) <=> Eval(v) # Null /\ (Eval(v) < x \/ (i /\ Eval(v) = x))
        /\ Beneath(x, o) <=> Eval(v) # Null /\ (x < Eval(v) \/ (i /\ Eval(v) = x))
        /\ Above(x, b) <=> Eval(w) # Null /\ (Eval(w) < x \/ (j /\ Eval(w) = x))
        /\ Beneath(x, b) <=> Eval(w) # Null /\ (x < Eval(w) \/ (j /\ Eval(w) = x))
        /\ Above(x, Bound(v, TRUE)) <=> Eval(v) # Null /\ (Eval(v) < x \/ Eval(v) = x)
        /\ Beneath(x, Bound(v, TRUE)) <=> Eval(v) # Null /\ (x < Eval(v) \/ Eval(v) = x)
        /\ Above(x, Bound(v, FALSE)) <=> Eval(v) # Null /\ Eval(v) < x
        /\ Beneath(x, Bound(v, FALSE)) <=> Eval(v) # Null /\ x < Eval(v)
    BY <1>0, <2>1, BoundMeaning
  <2>3. CASE w.is = "variable" /\ w = v
    <3>1. \A side \in {Lower, Upper} :
            /\ IntersectBound(b, o, side) = IF j /\ ~ i THEN Bound(v, FALSE) ELSE b
            /\ UnionBound(b, o, side) = IF ~ j /\ i THEN Bound(v, TRUE) ELSE b
      BY <1>3, <2>1, <2>3 DEF IntersectBound, UnionBound, Intersect, Union
    <3> QED BY <2>1, <2>2, <2>3, <3>1
  <2>4. CASE w.is = "immediate" /\ v.is = "immediate" /\ compare(w, v) # "undefined"
    <3>1. w \in ImmediateValue /\ v \in ImmediateValue
      BY <2>1, <2>4 DEF Operand, ImmediateValue, Variable
    <3>2. /\ compare(w, v) \in {"equal", "less", "greater"}
          /\ Eval(v) \in Int /\ Eval(w) \in Int /\ Eval(v) # Null /\ Eval(w) # Null
          /\ compare(w, v) = "equal" => Eval(v) = Eval(w)
          /\ compare(w, v) = "less" => Eval(w) < Eval(v)
          /\ compare(w, v) = "greater" => Eval(v) < Eval(w)
      BY <2>4, <3>1, CompareMeaning, ValueAssumption
    <3>3. \A side \in {Lower, Upper} :
            /\ IntersectBound(b, o, side) =
                 IF compare(w, v) = "equal" THEN IF j /\ ~ i THEN Bound(v, FALSE) ELSE b
                 ELSE IF compare(w, v) = side THEN o ELSE b
            /\ UnionBound(b, o, side) =
                 IF compare(w, v) = "equal" THEN IF ~ j /\ i THEN Bound(v, TRUE) ELSE b
                 ELSE IF compare(w, v) = Other(side) THEN o ELSE b
      BY <1>3, <2>1, <2>4 DEF IntersectBound, UnionBound, Intersect, Union, Lower, Upper, Other
    <3>4. Lower = "less" /\ Upper = "greater" /\ Other(Lower) = "greater" /\ Other(Upper) = "less"
      BY DEF Other, Lower, Upper
    <3>5. CASE compare(w, v) = "equal"
      BY <2>1, <2>2, <3>2, <3>3, <3>5
    <3>6. CASE compare(w, v) = "less"
      <4>1. /\ IntersectBound(b, o, Lower) = o /\ IntersectBound(b, o, Upper) = b
            /\ UnionBound(b, o, Lower) = b /\ UnionBound(b, o, Upper) = o
        BY <3>3, <3>4, <3>6
      <4>2. (Above(x, o) => Above(x, b)) /\ (Beneath(x, b) => Beneath(x, o))
        BY <1>0, <2>2, <3>2, <3>6
      <4> QED BY <4>1, <4>2
    <3>7. CASE compare(w, v) = "greater"
      <4>1. /\ IntersectBound(b, o, Lower) = b /\ IntersectBound(b, o, Upper) = o
            /\ UnionBound(b, o, Lower) = o /\ UnionBound(b, o, Upper) = b
        BY <3>3, <3>4, <3>7
      <4>2. (Above(x, b) => Above(x, o)) /\ (Beneath(x, o) => Beneath(x, b))
        BY <1>0, <2>2, <3>2, <3>7
      <4> QED BY <4>1, <4>2
    <3> QED BY <3>2, <3>5, <3>6, <3>7
  <2> QED BY <1>3, <2>3, <2>4 DEF Comparable
<1> QED BY <1>1, <1>2, <1>3

-----------------------------------------------------------------------------
(* The hints of all columns. *)

\* Merged hints are hints.
LEMMA MapsType ==
  ASSUME NEW m \in [Column -> Hint], NEW o \in [Column -> Hint]
  PROVE  IntersectMaps(m, o) \in [Column -> Hint] /\ UnionMaps(m, o) \in [Column -> Hint]
<1>1. NoHint \in Hint
  BY DEF NoHint, Hint, Bounds
<1>2. \A c \in Column : /\ m[c].lower \in Bounds /\ m[c].upper \in Bounds
                        /\ o[c].lower \in Bounds /\ o[c].upper \in Bounds
  BY DEF Hint
<1>3. \A c \in Column : IntersectMerge(m[c], o[c]) \in Hint /\ UnionMerge(m[c], o[c]) \in Hint
  BY <1>2, MergedBoundType DEF IntersectMerge, UnionMerge, Hint
<1> QED BY <1>1, <1>3 DEF IntersectMaps, UnionMaps

\* A row within both operands' hints is within their conjunction's, and a row within either
\* is within their disjunction's.
LEMMA MapsKeep ==
  ASSUME NEW m \in [Column -> Hint], NEW o \in [Column -> Hint], Valued, row \in [Column -> Held]
  PROVE  /\ TermsHold(m) /\ TermsHold(o) => TermsHold(IntersectMaps(m, o))
         /\ TermsHold(m) \/ TermsHold(o) => TermsHold(UnionMaps(m, o))
<1>1. \A c \in Column : /\ m[c].lower \in Bounds /\ m[c].upper \in Bounds
                        /\ o[c].lower \in Bounds /\ o[c].upper \in Bounds
                        /\ row[c] \in Held
  BY DEF Hint
<1>2. \A c \in Column :
        Within(row[c], m[c]) /\ Within(row[c], o[c]) => Within(row[c], IntersectMerge(m[c], o[c]))
  BY <1>1, IntersectKeeps DEF Within, IntersectMerge
<1>3. \A c \in Column :
        Within(row[c], m[c]) \/ Within(row[c], o[c]) => Within(row[c], UnionMerge(m[c], o[c]))
  BY <1>1, UnionKeeps DEF Within, UnionMerge
<1>4. \A c \in Column : Within(row[c], NoHint)
  BY DEF Within, Above, Beneath, NoHint, Infinity
<1>5. TermsHold(m) /\ TermsHold(o) => TermsHold(IntersectMaps(m, o))
  BY <1>2 DEF TermsHold, IntersectMaps
<1>6. TermsHold(m) \/ TermsHold(o) => TermsHold(UnionMaps(m, o))
  BY <1>3, <1>4 DEF TermsHold, UnionMaps
<1> QED BY <1>5, <1>6

\* The merges of the hints of all columns keep all that comparable bounds say.
LEMMA MapsExact ==
  ASSUME NEW m \in [Column -> Hint], NEW o \in [Column -> Hint], Valued
  PROVE  Exact(m, o, IntersectMaps(m, o), TRUE) /\ Exact(m, o, UnionMaps(m, o), FALSE)
<1> SUFFICES ASSUME NEW c \in Column, NEW x \in Value
             PROVE  LET b == m[c]  d == o[c]  i == IntersectMaps(m, o)[c]  u == UnionMaps(m, o)[c]
                    IN  /\ Comparable(b.lower, d.lower) =>
                             /\ Above(x, i.lower) <=> Above(x, b.lower) /\ Above(x, d.lower)
                             /\ Above(x, u.lower) <=> Above(x, b.lower) \/ Above(x, d.lower)
                        /\ Comparable(b.upper, d.upper) =>
                             /\ Beneath(x, i.upper) <=> Beneath(x, b.upper) /\ Beneath(x, d.upper)
                             /\ Beneath(x, u.upper) <=> Beneath(x, b.upper) \/ Beneath(x, d.upper)
  BY DEF Exact
<1>1. /\ m[c].lower \in Bounds /\ m[c].upper \in Bounds
      /\ o[c].lower \in Bounds /\ o[c].upper \in Bounds
  BY DEF Hint
<1>2. CASE o[c] = NoHint
  <2>1. /\ IntersectMaps(m, o)[c] = m[c] /\ UnionMaps(m, o)[c] = NoHint
        /\ Above(x, NoHint.lower) /\ Beneath(x, NoHint.upper)
    BY <1>2 DEF IntersectMaps, UnionMaps, NoHint, Infinity, Above, Beneath
  <2> QED BY <1>2, <2>1
<1>3. CASE o[c] # NoHint
  <2>1. /\ IntersectMaps(m, o)[c] = IntersectMerge(m[c], o[c])
        /\ UnionMaps(m, o)[c] = UnionMerge(m[c], o[c])
    BY <1>3 DEF IntersectMaps, UnionMaps
  <2> QED BY <1>1, <2>1, BoundsExact DEF IntersectMerge, UnionMerge
<1> QED BY <1>2, <1>3

\* The hint taken from a comparison is a hint, and holds where the comparison does.
LEMMA ExtractKeeps ==
  ASSUME NEW c \in Column, NEW op \in Comparators, NEW v \in Operand, Valued, row \in [Column -> Held]
  PROVE  /\ Extract(c, op, v) \in [Column -> Hint]
         /\ Compared(row[c], op, Eval(v)) => TermsHold(Extract(c, op, v))
<1>1. Infinity \in Bounds /\ Bound(v, TRUE) \in Bounds /\ Bound(v, FALSE) \in Bounds
  BY BoundType DEF Bounds
<1>2. Extracted(op, v) \in Hint /\ NoHint \in Hint
  BY <1>1 DEF Extracted, Hint, NoHint
<1>3. Extract(c, op, v) \in [Column -> Hint]
  BY <1>2 DEF Extract, NoHints
<1>4. Eval(v) \in Held /\ row[c] \in Held
  BY EvalType
<1>5. /\ Above(row[c], Infinity) /\ Beneath(row[c], Infinity)
      /\ \A d \in Column : Within(row[d], NoHint)
  BY DEF Above, Beneath, Within, NoHint, Infinity
<1>6. ASSUME Compared(row[c], op, Eval(v))
      PROVE  Above(row[c], Extracted(op, v).lower) /\ Beneath(row[c], Extracted(op, v).upper)
  <2>1. row[c] \in Int /\ Eval(v) \in Int /\ row[c] # Null /\ Eval(v) # Null
    BY <1>4, <1>6, ValueAssumption DEF Compared, Held
  <2> DEFINE x == row[c]
             y == Eval(v)
  <2>a. /\ Above(x, Bound(v, TRUE)) <=> y # Null /\ x # Null /\ (y < x \/ (TRUE /\ y = x))
        /\ Beneath(x, Bound(v, TRUE)) <=> y # Null /\ x # Null /\ (x < y \/ (TRUE /\ y = x))
    BY <1>4, BoundMeaning
  <2>b. /\ Above(x, Bound(v, FALSE)) <=> y # Null /\ x # Null /\ (y < x \/ (FALSE /\ y = x))
        /\ Beneath(x, Bound(v, FALSE)) <=> y # Null /\ x # Null /\ (x < y \/ (FALSE /\ y = x))
    BY <1>4, BoundMeaning
  <2>c. x \in Int /\ y \in Int /\ x # Null /\ y # Null
    BY <2>1
  <2> HIDE DEF x, y
  <2>2. /\ Above(x, Bound(v, TRUE)) <=> y <= x
        /\ Above(x, Bound(v, FALSE)) <=> y < x
        /\ Beneath(x, Bound(v, TRUE)) <=> x <= y
        /\ Beneath(x, Bound(v, FALSE)) <=> x < y
    <3>1. (y <= x <=> (y < x \/ y = x)) /\ (x <= y <=> (x < y \/ y = x))
      BY <2>c
    <3> QED BY <2>a, <2>b, <2>c, <3>1, Zenon
  <2> USE DEF x, y
  <2>3. CASE op = "equal"
    <3>1. x = y
      BY <1>6, <2>3 DEF Compared
    <3>2. Extracted(op, v).lower = Bound(v, TRUE) /\ Extracted(op, v).upper = Bound(v, TRUE)
      BY <2>3 DEF Extracted
    <3>3. y <= x /\ x <= y
      BY <3>1, <2>c
    <3> QED BY <2>2, <3>2, <3>3
  <2>4. CASE op = "not_equal"
    BY <1>5, <2>4 DEF Extracted
  <2>5. CASE op \in {"less", "less_equal"}
    BY <1>5, <1>6, <2>1, <2>2, <2>5 DEF Extracted, Compared
  <2>6. CASE op \in {"greater", "greater_equal"}
    BY <1>5, <1>6, <2>1, <2>2, <2>6 DEF Extracted, Compared
  <2> QED BY <2>3, <2>4, <2>5, <2>6 DEF Comparators
<1>7. Compared(row[c], op, Eval(v)) => Within(row[c], Extracted(op, v))
  BY <1>6 DEF Within
<1>8. \A d \in Column : Extract(c, op, v)[d] = IF d = c THEN Extracted(op, v) ELSE NoHint
  BY DEF Extract, NoHints
<1> QED BY <1>3, <1>5, <1>7, <1>8 DEF TermsHold

\* A comparison with its sides swapped is the transposed comparison.
LEMMA Transposed ==
  ASSUME NEW op \in Comparators, NEW a \in Held, NEW b \in Held
  PROVE  transpose(op) \in Comparators /\ (Compared(a, op, b) <=> Compared(b, transpose(op), a))
<1>1. CASE a = Null \/ b = Null
  BY <1>1 DEF Compared, transpose, Comparators
<1>2. CASE a # Null /\ b # Null
  <2>1. a \in Int /\ b \in Int
    BY <1>2, ValueAssumption DEF Held
  <2>2. CASE op \in {"equal", "not_equal"}
    BY <1>2, <2>1, <2>2 DEF Compared, transpose, Comparators
  <2>3. CASE op \in {"less", "less_equal"}
    BY <1>2, <2>1, <2>3 DEF Compared, transpose, Comparators
  <2>4. CASE op \in {"greater", "greater_equal"}
    BY <1>2, <2>1, <2>4 DEF Compared, transpose, Comparators
  <2> QED BY <2>2, <2>3, <2>4 DEF Comparators
<1> QED BY <1>1, <1>2

-----------------------------------------------------------------------------
(* The visit. *)

\* Once the terms are added nothing more happens, and they are true where the condition is.
DoneIsLast ==
  \A k \in DOMAIN parts :
    parts[k].op = "done" => Len(parts) = 1 /\ operands = MaxRangeOperands /\ (parts[k].holds => terms)

IInv == TypeOK /\ HintsImplied /\ DoneIsLast

\* An operand whose hints are right can be pushed.
LEMMA PushKeeps ==
  ASSUME IInv, NEW p \in Part_, p.op # "done", p.holds => TermsHold(p.hints), PushPart(p)
  PROVE  IInv'
<1>1. /\ parts \in Seq(Part_) /\ parts' = Append(parts, p) /\ operands \in 0 .. MaxRangeOperands /\ MaxRangeOperands \in Nat
      /\ operands < MaxRangeOperands /\ operands' = operands + 1
      /\ row' = row /\ host' = host /\ terms' = terms
  BY OperandsAssumption DEF IInv, TypeOK, PushPart, Part_
<1>2. /\ parts' \in Seq(Part_)
      /\ Len(parts') = Len(parts) + 1 /\ Len(parts) \in Nat
      /\ \A k \in DOMAIN parts' : (k \in DOMAIN parts /\ parts'[k] = parts[k]) \/ parts'[k] = p
  BY <1>1
<1>3. TypeOK'
  BY <1>1, <1>2 DEF IInv, TypeOK, Part_
<1>4. \A h : TermsHold(h)' <=> TermsHold(h)
  BY <1>1 DEF TermsHold, Within, Above, Beneath, Eval
<1>5. HintsImplied'
  <2> SUFFICES ASSUME NEW k \in DOMAIN parts', parts'[k].holds
               PROVE  TermsHold(parts'[k].hints)
    BY <1>1 DEF HintsImplied, TermsHold, Within, Above, Beneath, Eval
  <2> QED BY <1>2 DEF IInv, HintsImplied
<1>6. DoneIsLast'
  BY <1>1, <1>2 DEF IInv, DoneIsLast
<1> QED BY <1>3, <1>5, <1>6 DEF IInv

\* Two operands whose hints are right can be replaced by one whose hints are.
LEMMA ReplaceKeeps ==
  ASSUME IInv, NEW p \in Part_, p.op # "done", p.holds => TermsHold(p.hints), Len(parts) >= 2,
         parts' = Append(SubSeq(parts, 1, Len(parts) - 2), p), UNCHANGED <<row, host, operands, terms>>
  PROVE  IInv'
<1>1. /\ parts \in Seq(Part_) /\ row' = row /\ host' = host /\ operands' = operands /\ terms' = terms
      /\ Len(parts) \in Nat
  BY DEF IInv, TypeOK, Part_
<1> DEFINE n == Len(parts)
           rest == SubSeq(parts, 1, n - 2)
<1>2. /\ rest \in Seq(Part_) /\ Len(rest) = n - 2
      /\ \A k \in 1 .. n - 2 : rest[k] = parts[k]
  <2>1. n - 2 \in Int /\ n - 2 >= 0 /\ \A k \in 1 .. n - 2 : parts[k] \in Part_
    BY <1>1
  <2> HIDE DEF n
  <2>2. /\ rest \in Seq(Part_)
        /\ Len(rest) = IF 1 <= n - 2 THEN n - 2 - 1 + 1 ELSE 0
        /\ \A k \in 1 .. n - 2 - 1 + 1 : rest[k] = parts[1 + k - 1]
    BY <2>1, SubSeqProperties
  <2> HIDE DEF rest
  <2>3. Len(rest) = n - 2
    BY <2>1, <2>2
  <2>4. \A k \in 1 .. n - 2 : rest[k] = parts[k]
    BY <2>1, <2>2
  <2> QED BY <2>2, <2>3, <2>4
<1>3. /\ parts' \in Seq(Part_)
      /\ \A k \in DOMAIN parts' : (k \in DOMAIN parts /\ parts'[k] = parts[k]) \/ parts'[k] = p
  <2> HIDE DEF rest
  <2>1. parts' = Append(rest, p)
    BY DEF rest
  <2>2. parts' \in Seq(Part_) /\ Len(parts') = n - 1
    BY <1>1, <1>2, <2>1
  <2>3. \A k \in 1 .. n - 2 : parts'[k] = rest[k]
    BY <1>1, <1>2, <2>1
  <2>4. parts'[n - 1] = p
    BY <1>1, <1>2, <2>1
  <2> QED BY <1>1, <1>2, <2>2, <2>3, <2>4
<1>4. TypeOK'
  BY <1>1, <1>3 DEF IInv, TypeOK, Part_
<1>5. HintsImplied'
  <2>1. row' = row /\ host' = host
    BY <1>1
  <2>2. \A k \in DOMAIN parts' : parts'[k].holds => TermsHold(parts'[k].hints)
    BY <1>3 DEF IInv, HintsImplied
  <2>3. \A hints : TermsHold(hints)' <=> TermsHold(hints)
    BY ONLY <2>1 DEF TermsHold, Within, Above, Beneath, Eval
  <2>4. \A k \in DOMAIN parts' : parts'[k].holds => (TermsHold(parts[k].hints))'
    BY ONLY <2>2, <2>3
  <2> QED BY ONLY <2>4 DEF HintsImplied
<1>6. DoneIsLast'
  <2>1. \A k \in DOMAIN parts : parts[k].op # "done"
    BY <1>1 DEF IInv, DoneIsLast
  <2> QED BY <1>3, <2>1 DEF DoneIsLast
<1> QED BY <1>4, <1>5, <1>6 DEF IInv

\* The stack is empty at first.
LEMMA InitIInv == RangeInit => IInv
BY OperandsAssumption DEF RangeInit, IInv, TypeOK, HintsImplied, DoneIsLast

\* Every step keeps the invariant.
LEMMA NextIInv == IInv /\ [RangeNext]_rangeVars => IInv'
<1> SUFFICES ASSUME IInv, [RangeNext]_rangeVars PROVE IInv'
  OBVIOUS
<1>0. Valued /\ row \in [Column -> Held] /\ parts \in Seq(Part_)
  BY DEF IInv, TypeOK, Valued, Held, Part_
<1>1. ASSUME NEW c \in Column, NEW op \in Comparators, NEW v \in Operand, CompareLeft(c, op, v)
      PROVE  IInv'
  <2>1. Part(Compared(row[c], op, Eval(v)), Extract(c, op, v), "compare") \in Part_
    <3>1. Compared(row[c], op, Eval(v)) \in BOOLEAN
      BY DEF Compared, Comparators
    <3> QED BY <1>0, <3>1, ExtractKeeps DEF Part, Part_
  <2> QED BY <1>0, <1>1, <2>1, ExtractKeeps, PushKeeps DEF CompareLeft, Part
<1>2. ASSUME NEW c \in Column, NEW op \in Comparators, NEW v \in Operand, CompareRight(c, op, v)
      PROVE  IInv'
  <2>1. /\ transpose(op) \in Comparators
        /\ Compared(Eval(v), op, row[c]) <=> Compared(row[c], transpose(op), Eval(v))
    BY <1>0, EvalType, Transposed
  <2>2. Part(Compared(Eval(v), op, row[c]), Extract(c, transpose(op), v), "compare") \in Part_
    <3>1. Compared(Eval(v), op, row[c]) \in BOOLEAN
      BY DEF Compared, Comparators
    <3> QED BY <1>0, <2>1, <3>1, ExtractKeeps DEF Part, Part_
  <2> QED BY <1>0, <1>2, <2>1, <2>2, ExtractKeeps, PushKeeps DEF CompareRight, Part
<1>3. ASSUME NEW holds \in BOOLEAN, OtherOperand(holds)
      PROVE  IInv'
  <2>1. NoHints \in [Column -> Hint] /\ TermsHold(NoHints)
    BY DEF NoHints, NoHint, Hint, Bounds, TermsHold, Within, Above, Beneath, Infinity
  <2>2. Part(holds, NoHints, "other") \in Part_
    BY <2>1 DEF Part, Part_
  <2> QED BY <1>3, <2>1, <2>2, PushKeeps DEF OtherOperand, Part
<1> DEFINE n == Len(parts)
           l == parts[n - 1]
           r == parts[n]
<1>4. ASSUME n >= 2
      PROVE  /\ l \in Part_ /\ r \in Part_
             /\ l.holds => TermsHold(l.hints)
             /\ r.holds => TermsHold(r.hints)
  BY <1>0, <1>4 DEF IInv, HintsImplied
<1>5. CASE MergeAnd
  <2>1. /\ n >= 2
        /\ parts' = Append(SubSeq(parts, 1, n - 2), Part(l.holds /\ r.holds, IntersectMaps(l.hints, r.hints), "and"))
        /\ UNCHANGED <<row, host, operands, terms>>
    BY <1>5 DEF MergeAnd, MergeTopTwo
  <2>2. /\ l.hints \in [Column -> Hint] /\ r.hints \in [Column -> Hint]
        /\ l.holds \in BOOLEAN /\ r.holds \in BOOLEAN
    BY <1>4, <2>1 DEF Part_
  <2>3. /\ IntersectMaps(l.hints, r.hints) \in [Column -> Hint]
        /\ l.holds /\ r.holds => TermsHold(IntersectMaps(l.hints, r.hints))
    BY <1>0, <1>4, <2>1, <2>2, MapsType, MapsKeep
  <2>4. Part(l.holds /\ r.holds, IntersectMaps(l.hints, r.hints), "and") \in Part_
    BY <2>2, <2>3 DEF Part, Part_
  <2> QED BY <2>1, <2>3, <2>4, ReplaceKeeps DEF Part
<1>6. CASE MergeOr
  <2>1. /\ n >= 2
        /\ parts' = Append(SubSeq(parts, 1, n - 2), Part(l.holds \/ r.holds, UnionMaps(l.hints, r.hints), "or"))
        /\ UNCHANGED <<row, host, operands, terms>>
    BY <1>6 DEF MergeOr, MergeTopTwo
  <2>2. /\ l.hints \in [Column -> Hint] /\ r.hints \in [Column -> Hint]
        /\ l.holds \in BOOLEAN /\ r.holds \in BOOLEAN
    BY <1>4, <2>1 DEF Part_
  <2>3. /\ UnionMaps(l.hints, r.hints) \in [Column -> Hint]
        /\ l.holds \/ r.holds => TermsHold(UnionMaps(l.hints, r.hints))
    BY <1>0, <1>4, <2>1, <2>2, MapsType, MapsKeep
  <2>4. Part(l.holds \/ r.holds, UnionMaps(l.hints, r.hints), "or") \in Part_
    BY <2>2, <2>3 DEF Part, Part_
  <2> QED BY <2>1, <2>3, <2>4, ReplaceKeeps DEF Part
<1>7. CASE AddTerms
  <2>0. /\ Len(parts) = 1
        /\ terms' = TermsHold(parts[1].hints)
        /\ parts' = <<[parts[1] EXCEPT !.op = "done"]>>
        /\ operands' = MaxRangeOperands /\ row' = row /\ host' = host
    BY <1>7, Zenon DEF AddTerms
  <2>1. /\ Len(parts) = 1 /\ parts[1] \in Part_
        /\ terms' = TermsHold(parts[1].hints)
        /\ parts' = <<[parts[1] EXCEPT !.op = "done"]>>
        /\ operands' = MaxRangeOperands /\ row' = row /\ host' = host
        /\ parts[1].holds => TermsHold(parts[1].hints)
    <3>0. parts \in Seq(Part_) /\ Len(parts) = 1
      BY <1>0, <2>0, Zenon
    <3>1. 1 \in DOMAIN parts /\ parts[1] \in Part_
      BY <3>0
    <3>2. parts[1].holds => TermsHold(parts[1].hints)
      BY <3>1, Zenon DEF IInv, HintsImplied
    <3> QED BY <2>0, <3>1, <3>2, Zenon
  <2>2. [parts[1] EXCEPT !.op = "done"] \in Part_
    BY <2>1 DEF Part_
  <2>3. parts' \in Seq(Part_) /\ Len(parts') = 1 /\ DOMAIN parts' = {1}
        /\ parts'[1].holds = parts[1].holds /\ parts'[1].hints = parts[1].hints
    BY <2>1, <2>2 DEF Part_
  <2>4. TypeOK'
    <3>1. terms' \in BOOLEAN
      BY <2>1 DEF TermsHold
    <3> QED BY <2>1, <2>3, <3>1, OperandsAssumption DEF IInv, TypeOK, Part_
  <2>5. HintsImplied'
    <3>1. row' = row /\ host' = host
      BY <2>1
    <3>2. parts'[1].holds => TermsHold(parts'[1].hints)
      BY <2>1, <2>3
    <3> SUFFICES ASSUME NEW k \in DOMAIN parts', parts'[k].holds
                 PROVE  TermsHold(parts'[k].hints)
      BY <3>1 DEF HintsImplied, TermsHold, Within, Above, Beneath, Eval
    <3> QED BY <2>3, <3>2
  <2>6. DoneIsLast'
    BY <2>1, <2>3 DEF DoneIsLast
  <2> QED BY <2>4, <2>5, <2>6 DEF IInv
<1>8. CASE UNCHANGED rangeVars
  BY <1>8 DEF rangeVars, IInv, TypeOK, HintsImplied, DoneIsLast, TermsHold, Within, Above, Beneath, Eval
<1> QED BY <1>1, <1>2, <1>3, <1>5, <1>6, <1>7, <1>8 DEF RangeNext, Operand

\* The invariant of the whole visit.
LEMMA Invariant == RangeSpec => []IInv
BY InitIInv, NextIInv, PTL DEF RangeSpec

\* Every hint is made of bounds and every bound of a value, as range_hint_entry promises.
THEOREM TypeCorrect == RangeSpec => []TypeOK
<1>1. IInv => TypeOK
  BY DEF IInv
<1> QED BY <1>1, Invariant, PTL

\* Merging hints never cuts off a row, in a condition of any size.
THEOREM HintsCorrect == RangeSpec => []HintsImplied
<1>1. IInv => HintsImplied
  BY DEF IInv
<1> QED BY <1>1, Invariant, PTL

\* The added terms do not change which rows the filter accepts.
THEOREM FilterCorrect == RangeSpec => []SameRows
<1>1. IInv => SameRows
  BY DEF IInv, DoneIsLast, SameRows
<1> QED BY <1>1, Invariant, PTL

\* Where two bounds can be compared, intersect_merge makes one that admits exactly the values both
\* admit, and union_merge one that admits those either admits: no filter is looser than it need be.
THEOREM MergesCorrect == RangeSpec => MergedExactly
<1> DEFINE Merged ==
      \A n \in 2 .. MaxRangeOperands :
        Len(parts) = n /\ Len(parts') = n - 1 =>
          Exact(parts[n - 1].hints, parts[n].hints, parts'[n - 1].hints, parts'[n - 1].op = "and")
<1>1. IInv /\ [RangeNext]_rangeVars => [Merged]_rangeVars
  <2> SUFFICES ASSUME IInv, RangeNext, NEW n \in 2 .. MaxRangeOperands, Len(parts) = n, Len(parts') = n - 1
               PROVE  Exact(parts[n - 1].hints, parts[n].hints, parts'[n - 1].hints, parts'[n - 1].op = "and")
    OBVIOUS
  <2>0. /\ parts \in Seq(Part_) /\ Valued /\ n \in Nat /\ n >= 2
        /\ parts[n - 1].hints \in [Column -> Hint] /\ parts[n].hints \in [Column -> Hint]
    <3>1. parts \in Seq(Part_) /\ Valued /\ n \in Nat /\ n >= 2
      BY OperandsAssumption DEF IInv, TypeOK, Valued, Held, Part_
    <3>2. parts[n - 1] \in Part_ /\ parts[n] \in Part_
      BY <3>1
    <3> QED BY <3>1, <3>2 DEF Part_
  <2>1. ASSUME NEW p, PushPart(p)
        PROVE  FALSE
    <3>1. parts' = Append(parts, p)
      BY <2>1 DEF PushPart
    <3> QED BY <2>0, <3>1
  <2>2. ASSUME NEW p, parts' = Append(SubSeq(parts, 1, n - 2), p)
        PROVE  parts'[n - 1] = p
    <3>1. SubSeq(parts, 1, n - 2) \in Seq(Part_) /\ Len(SubSeq(parts, 1, n - 2)) = n - 2
      <4>1. n - 2 \in Nat /\ \A k \in 1 .. n - 2 : parts[k] \in Part_
        BY <2>0
      <4>2. /\ SubSeq(parts, 1, n - 2) \in Seq(Part_)
            /\ Len(SubSeq(parts, 1, n - 2)) = IF 1 <= n - 2 THEN n - 2 - 1 + 1 ELSE 0
        BY <4>1, SubSeqProperties
      <4> QED BY <2>0, <4>1, <4>2
    <3> QED BY <2>0, <2>2, <3>1
  <2>3. CASE MergeAnd
    <3>1. parts' = Append(SubSeq(parts, 1, n - 2),
                     Part(parts[n - 1].holds /\ parts[n].holds,
                          IntersectMaps(parts[n - 1].hints, parts[n].hints), "and"))
      BY <2>3 DEF MergeAnd, MergeTopTwo
    <3>2. /\ parts'[n - 1].hints = IntersectMaps(parts[n - 1].hints, parts[n].hints)
          /\ (parts'[n - 1].op = "and") = TRUE
      BY <2>2, <3>1 DEF Part
    <3> QED BY <2>0, <3>2, MapsExact
  <2>4. CASE MergeOr
    <3>1. parts' = Append(SubSeq(parts, 1, n - 2),
                     Part(parts[n - 1].holds \/ parts[n].holds,
                          UnionMaps(parts[n - 1].hints, parts[n].hints), "or"))
      BY <2>4 DEF MergeOr, MergeTopTwo
    <3>2. /\ parts'[n - 1].hints = UnionMaps(parts[n - 1].hints, parts[n].hints)
          /\ (parts'[n - 1].op = "and") = FALSE
      BY <2>2, <3>1 DEF Part
    <3> QED BY <2>0, <3>2, MapsExact
  <2>5. CASE AddTerms
    BY <2>0, <2>5 DEF AddTerms
  <2> QED BY <2>1, <2>3, <2>4, <2>5 DEF RangeNext, CompareLeft, CompareRight, OtherOperand
<1> QED BY <1>1, Invariant, PTL DEF RangeSpec, MergedExactly

=============================================================================
