---------------------------- MODULE PredicatesProofs ----------------------------
(***************************************************************************)
(* The two passes that rewrite conditions wherever they stand.             *)
(*                                                                         *)
(* Constants: for conditions of any size over any operands, in which no    *)
(* part that is not sure is joined by OR with one that is false or         *)
(* unknown, a visit claims nothing that is not so, and no row is gained or *)
(* lost.                                                                   *)
(*                                                                         *)
(* LIKE: what decompose_prefix_match puts in the place of a LIKE accepts   *)
(* the same texts, whatever the pattern, the escape and the text are.  The *)
(* loops of the code are recursive functions.  That each of them has a     *)
(* value, and what the value is, is proved by induction: a set of numbers  *)
(* that has 0 and the successor of each of its members has all.            *)
(***************************************************************************)
EXTENDS SimplifyPredicate, PrefixMatch, SequenceTheorems, WellFoundedInduction, TLAPS

-----------------------------------------------------------------------------
(* Constants are folded *)

\* The pair of results for which the code's table of OR is wrong.
WrongPairAvoided == <<"not_sure", "constant_false_or_unknown">> \in Avoided

\* What a visit leaves: a claim that is true, and a part rewritten to one of the same value.
Faithful ==
  {e \in [result : Results, value : Ternary, now : Ternary] : e.value \in Allows(e.result) /\ e.now = e.value}

\* A condition is rewritten as it is visited: that its parts keep their values is what makes the
\* values of the operators above them those of the given condition.
Visiting ==
  /\ stack \in Seq(Faithful)
  /\ outcome # "visiting" => Len(stack) = 1
  /\ outcome = "removed" => stack[1].result = "constant_true"

-----------------------------------------------------------------------------

LEMMA OperandFaithful ==
  ASSUME NEW v \in Ternary
  PROVE  Visited(FromTernary(v), v, v) \in Faithful /\ Visited("not_sure", v, v) \in Faithful
  BY DEF Visited, FromTernary, Faithful, Ternary, Results, Allows

\* The tables of the operators with one operand.
LEMMA UnaryFaithful ==
  ASSUME NEW op \in UnaryOperators, NEW e \in Faithful
  PROVE  Visited(UnaryResult(op, e.result), UnaryValue(op, e.value), UnaryValue(op, e.now)) \in Faithful
<1>1. e.result \in Results /\ e.value \in Ternary /\ e.now = e.value /\ e.value \in Allows(e.result)
  BY DEF Faithful
<1>2. UnaryValue(op, e.value) \in Ternary
  BY <1>1 DEF UnaryValue, UnaryOperators, Ternary, Not, Of
<1>3. UnaryResult(op, e.result) \in Results
  BY <1>1 DEF UnaryResult, UnaryOperators, NotResult, IsResult, Results
<1>4. UnaryValue(op, e.value) \in Allows(UnaryResult(op, e.result))
  <2>1. CASE op = "conditional_not"
    BY <1>1, <2>1 DEF UnaryValue, UnaryResult, NotResult, Results, Allows, Ternary, Not
  <2>2. CASE op = "is_true"
    BY <1>1, <2>2 DEF UnaryValue, UnaryResult, IsResult, Results, Allows, Ternary, Of
  <2>3. CASE op = "is_false"
    BY <1>1, <2>3 DEF UnaryValue, UnaryResult, IsResult, Results, Allows, Ternary, Of
  <2>4. CASE op \in {"is_null", "is_unknown"}
    BY <1>1, <2>4 DEF UnaryValue, UnaryResult, IsResult, Results, Allows, Ternary, Of
  <2>5. QED
    BY <2>1, <2>2, <2>3, <2>4 DEF UnaryOperators
<1>5. QED
  BY <1>1, <1>2, <1>3, <1>4 DEF Visited, Faithful

Sure == {"constant_true", "constant_false"}

\* What an operand that is true or false for certain is replaced by has the value of the whole.
LEMMA AndFaithful ==
  ASSUME NEW l \in Faithful, NEW r \in Faithful
  PROVE  AndVisit(l, r) \in Faithful
<1>1. /\ l.result \in Results /\ l.value \in Ternary /\ l.now = l.value /\ l.value \in Allows(l.result)
      /\ r.result \in Results /\ r.value \in Ternary /\ r.now = r.value /\ r.value \in Allows(r.result)
  BY DEF Faithful
<1>2. CASE l.result \in Sure
  BY <1>1, <1>2 DEF AndVisit, Visited, Faithful, Sure, Results, Allows, Ternary, And, Less
<1>3. CASE l.result \notin Sure /\ r.result \in Sure
  BY <1>1, <1>3 DEF AndVisit, Visited, Faithful, Sure, Results, Allows, Ternary, And, Less
<1>4. CASE l.result \notin Sure /\ r.result \notin Sure
  <2>1. AndTable(l.result, r.result) \in Results
    BY <1>1, <1>4 DEF AndTable, Sure, Results
  <2>2. And(l.value, r.value) \in Allows(AndTable(l.result, r.result))
    BY <1>1, <1>4 DEF AndTable, Sure, Results, Allows, Ternary, And, Less
  <2>3. And(l.value, r.value) \in Ternary
    BY <1>1 DEF And, Less, Ternary
  <2>4. AndVisit(l, r) = Visited(AndTable(l.result, r.result), And(l.value, r.value), And(l.now, r.now))
    BY <1>4 DEF AndVisit, Sure
  <2>5. QED
    BY <1>1, <2>1, <2>2, <2>3, <2>4 DEF Visited, Faithful
<1>5. QED
  BY <1>2, <1>3, <1>4

LEMMA OrFaithful ==
  ASSUME NEW l \in Faithful, NEW r \in Faithful,
         <<l.result, r.result>> # <<"not_sure", "constant_false_or_unknown">>
  PROVE  OrVisit(l, r) \in Faithful
<1>1. /\ l.result \in Results /\ l.value \in Ternary /\ l.now = l.value /\ l.value \in Allows(l.result)
      /\ r.result \in Results /\ r.value \in Ternary /\ r.now = r.value /\ r.value \in Allows(r.result)
  BY DEF Faithful
<1>2. CASE l.result \in Sure
  BY <1>1, <1>2 DEF OrVisit, Visited, Faithful, Sure, Results, Allows, Ternary, Or, Less
<1>3. CASE l.result \notin Sure /\ r.result \in Sure
  BY <1>1, <1>3 DEF OrVisit, Visited, Faithful, Sure, Results, Allows, Ternary, Or, Less
<1>4. CASE l.result \notin Sure /\ r.result \notin Sure
  <2>1. OrTable(l.result, r.result) \in Results
    BY <1>1, <1>4 DEF OrTable, Sure, Results
  <2>2. ~ (l.result = "not_sure" /\ r.result = "constant_false_or_unknown")
    OBVIOUS
  <2>3. Or(l.value, r.value) \in Allows(OrTable(l.result, r.result))
    BY <1>1, <1>4, <2>2 DEF OrTable, Sure, Results, Allows, Ternary, Or, Less
  <2>4. Or(l.value, r.value) \in Ternary
    BY <1>1 DEF Or, Less, Ternary
  <2>5. OrVisit(l, r) = Visited(OrTable(l.result, r.result), Or(l.value, r.value), Or(l.now, r.now))
    BY <1>4 DEF OrVisit, Sure
  <2>6. QED
    BY <1>1, <2>1, <2>3, <2>4, <2>5 DEF Visited, Faithful
<1>5. QED
  BY <1>2, <1>3, <1>4

-----------------------------------------------------------------------------

\* An operator takes the parts of its two operands off the stack.
LEMMA TopTwoVisited ==
  ASSUME stack \in Seq(Faithful), Len(stack) >= 2, NEW e \in Faithful
  PROVE  Append(SubSeq(stack, 1, Len(stack) - 2), e) \in Seq(Faithful)
<1>1. Len(stack) \in Nat /\ Len(stack) - 2 \in 0 .. Len(stack)
  BY LenProperties
<1>2. \A i \in 1 .. Len(stack) - 2 : stack[i] \in Faithful
  BY <1>1, ElementOfSeq
<1>3. SubSeq(stack, 1, Len(stack) - 2) \in Seq(Faithful)
  BY <1>1, <1>2, SubSeqProperties
<1>4. QED
  BY <1>3, AppendProperties

LEMMA InitVisiting == Init => Visiting
  BY EmptySeq DEF Init, Visiting

LEMMA NextVisiting ==
  ASSUME WrongPairAvoided
  PROVE  Visiting /\ [Next]_vars => Visiting'
<1> SUFFICES ASSUME Visiting, [Next]_vars PROVE Visiting'
  OBVIOUS
<1>1. ASSUME NEW v \in Ternary, Immediate(v) \/ OtherExpression(v) PROVE Visiting'
  BY <1>1, OperandFaithful, AppendProperties DEF Immediate, OtherExpression, Push, Visiting
<1>2. ASSUME NEW op \in UnaryOperators, UnaryOperator(op) PROVE Visiting'
  <2> DEFINE n == Len(stack)
             e == stack[n]
             f == Visited(UnaryResult(op, e.result), UnaryValue(op, e.value), UnaryValue(op, e.now))
  <2>1. n \in Nat /\ n >= 1 /\ outcome' = "visiting" /\ stack' = [stack EXCEPT ![n] = f]
    BY <1>2, LenProperties DEF UnaryOperator, Visiting
  <2>2. e \in Faithful
    BY <2>1, ElementOfSeq DEF Visiting
  <2>3. f \in Faithful
    BY <2>2, UnaryFaithful
  <2>4. stack' \in Seq(Faithful)
    BY <2>1, <2>3, ExceptSeq DEF Visiting
  <2>5. QED
    BY <2>1, <2>4 DEF Visiting
<1>3. CASE ConditionalAnd
  <2> DEFINE n == Len(stack)
  <2>1. /\ n \in Nat /\ n >= 2 /\ outcome' = "visiting"
        /\ stack' = Append(SubSeq(stack, 1, n - 2), AndVisit(stack[n - 1], stack[n]))
    BY <1>3, LenProperties DEF ConditionalAnd, TopTwo, Visiting
  <2>2. stack[n - 1] \in Faithful /\ stack[n] \in Faithful
    BY <2>1, ElementOfSeq DEF Visiting
  <2>3. AndVisit(stack[n - 1], stack[n]) \in Faithful
    BY <2>2, AndFaithful
  <2>4. stack' \in Seq(Faithful)
    BY <2>1, <2>3, TopTwoVisited DEF Visiting
  <2>5. QED
    BY <2>1, <2>4 DEF Visiting
<1>4. CASE ConditionalOr
  <2> DEFINE n == Len(stack)
  <2>1. /\ n \in Nat /\ n >= 2 /\ outcome' = "visiting"
        /\ stack' = Append(SubSeq(stack, 1, n - 2), OrVisit(stack[n - 1], stack[n]))
        /\ <<stack[n - 1].result, stack[n].result>> \notin Avoided
    BY <1>4, LenProperties DEF ConditionalOr, TopTwo, Visiting
  <2>2. stack[n - 1] \in Faithful /\ stack[n] \in Faithful
    BY <2>1, ElementOfSeq DEF Visiting
  <2>3. OrVisit(stack[n - 1], stack[n]) \in Faithful
    BY <2>1, <2>2, OrFaithful DEF WrongPairAvoided
  <2>4. stack' \in Seq(Faithful)
    BY <2>1, <2>3, TopTwoVisited DEF Visiting
  <2>5. QED
    BY <2>1, <2>4 DEF Visiting
<1>5. CASE RemoveCondition
  BY <1>5 DEF RemoveCondition, Visiting
<1>6. CASE UNCHANGED vars
  BY <1>6 DEF vars, Visiting
<1>7. QED
  BY <1>1, <1>2, <1>3, <1>4, <1>5, <1>6 DEF Next

-----------------------------------------------------------------------------

\* What simplify_predicate claims of a condition is true of every row, whatever its operands are
\* worth and however many there are.
THEOREM ClaimsCorrect ==
  ASSUME WrongPairAvoided
  PROVE  Spec => []ResultSound
<1>1. Visiting => ResultSound
  <2> SUFFICES ASSUME Visiting, NEW k \in DOMAIN stack PROVE stack[k].value \in Allows(stack[k].result)
    BY DEF ResultSound
  <2>1. stack[k] \in Faithful
    BY ElementOfSeq, LenProperties DEF Visiting
  <2>2. QED
    BY <2>1 DEF Faithful
<1>2. QED
  BY <1>1, InitVisiting, NextVisiting, PTL DEF Spec

\* remove_redundant_conditions takes away no filter that refuses a row, and what is left of a
\* condition accepts the rows the whole accepted.
THEOREM RowsCorrect ==
  ASSUME WrongPairAvoided
  PROVE  Spec => []RowsKept
<1>1. Visiting => RowsKept
  <2> SUFFICES ASSUME Visiting, outcome \in {"removed", "kept"} PROVE RowsKept
    BY DEF RowsKept
  <2>1. stack[1] \in Faithful
    BY ElementOfSeq, LenProperties DEF Visiting
  <2>2. QED
    BY <2>1 DEF Visiting, RowsKept, Faithful, Allows
<1>2. QED
  BY <1>1, InitVisiting, NextVisiting, PTL DEF Spec

-----------------------------------------------------------------------------
(* Induction *)

LEMMA LeastException ==
  ASSUME NEW S \in SUBSET Nat, S # {}
  PROVE  \E i \in S : \A j \in S : i <= j
<1> DEFINE less == OpToRel(<, Nat)
<1>1. IsWellFoundedOn(less, Nat)
  BY NatLessThanWellFounded
<1>2. PICK i \in S : \A j \in S : ~ (<<j, i>> \in less)
  <2> HIDE DEF less
  <2>1. QED
    BY <1>1, WFMin
<1>3. \A j \in S : ~ (j < i)
  BY <1>2 DEF OpToRel
<1>4. QED
  BY <1>3

LEMMA Induction ==
  ASSUME NEW S, 0 \in S, \A n \in Nat : n \in S => n + 1 \in S
  PROVE  \A n \in Nat : n \in S
<1> DEFINE Rest == {n \in Nat : n \notin S}
<1>1. SUFFICES ASSUME Rest # {} PROVE FALSE
  OBVIOUS
<1>2. PICK n \in Rest : \A m \in Rest : n <= m
  <2> HIDE DEF Rest
  <2>1. Rest \in SUBSET Nat
    BY DEF Rest
  <2>2. QED
    BY <1>1, <2>1, LeastException
<1>3. n # 0 /\ n - 1 \in Nat
  OBVIOUS
<1>4. n - 1 \in S
  BY <1>2, <1>3
<1>5. n - 1 + 1 = n
  BY <1>3
<1>6. QED
  BY <1>3, <1>4, <1>5

-----------------------------------------------------------------------------
(* Which characters are escaped *)

SawStep(g, i) == i > 0 /\ ~ g[i - 1] /\ IsEscape(pattern[i])
Saws(g, n) == g = [i \in 0 .. n |-> SawStep(g, i)]

LEMMA SawExists ==
  ASSUME NEW n \in Nat
  PROVE  \E g : Saws(g, n)
<1> DEFINE S == {m \in Nat : \E g : Saws(g, m)}
<1>1. 0 \in S
  <2> DEFINE g == [i \in 0 .. 0 |-> FALSE]
  <2>1. \A i \in 0 .. 0 : SawStep(g, i) = FALSE
    BY DEF SawStep
  <2> HIDE DEF g
  <2>2. Saws(g, 0)
    BY <2>1 DEF Saws, g
  <2>3. QED
    BY <2>2
<1>2. ASSUME NEW m \in Nat, m \in S PROVE m + 1 \in S
  <2>1. PICK g : Saws(g, m)
    BY <1>2
  <2> DEFINE h == [i \in 0 .. m + 1 |-> IF i = m + 1 THEN SawStep(g, i) ELSE g[i]]
  <2>2. ASSUME NEW i \in 0 .. m + 1 PROVE h[i] = SawStep(h, i)
    <3>1. i # 0 => h[i - 1] = g[i - 1]
      OBVIOUS
    <3> HIDE DEF h
    <3>2. SawStep(h, i) = SawStep(g, i)
      BY <3>1 DEF SawStep
    <3>3. h[i] = SawStep(g, i)
      <4>1. CASE i = m + 1
        BY <4>1 DEF h
      <4>2. CASE i # m + 1
        <5>1. i \in 0 .. m
          BY <4>2
        <5>2. g[i] = SawStep(g, i)
          BY <2>1, <5>1 DEF Saws
        <5>3. QED
          BY <4>2, <5>2 DEF h
      <4>3. QED
        BY <4>1, <4>2
    <3>4. QED
      BY <3>2, <3>3
  <2>3. h = [i \in 0 .. m + 1 |-> h[i]]
    OBVIOUS
  <2> HIDE DEF h
  <2>4. Saws(h, m + 1)
    BY <2>2, <2>3 DEF Saws
  <2>5. QED
    BY <2>4
<1> HIDE DEF S
<1>3. n \in S
  BY <1>1, <1>2, Induction
<1>4. QED
  BY <1>3 DEF S

\* A character is an escape if it is the escape character and not escaped itself.
LEMMA SawEscape ==
  ASSUME pattern \in Seq(Chars), NEW i \in 0 .. Len(pattern)
  PROVE  /\ saw_escape[i] \in BOOLEAN
         /\ i = 0 => ~ saw_escape[i]
         /\ i > 0 => (saw_escape[i] <=> ~ saw_escape[i - 1] /\ IsEscape(pattern[i]))
<1>1. Len(pattern) \in Nat
  OBVIOUS
<1>2. \E g : Saws(g, Len(pattern))
  BY <1>1, SawExists
<1>3. saw_escape = CHOOSE g : Saws(g, Len(pattern))
  BY DEF saw_escape, Saws, SawStep
<1>4. Saws(saw_escape, Len(pattern))
  BY <1>2, <1>3
<1>5. saw_escape[i] = SawStep(saw_escape, i)
  BY <1>4 DEF Saws
<1>6. SawStep(saw_escape, i) \in BOOLEAN
  BY DEF SawStep
<1>7. i = 0 => ~ SawStep(saw_escape, i)
  BY DEF SawStep
<1>8. i > 0 => (SawStep(saw_escape, i) <=> ~ saw_escape[i - 1] /\ IsEscape(pattern[i]))
  BY DEF SawStep
<1>9. QED
  BY <1>5, <1>6, <1>7, <1>8, Zenon

-----------------------------------------------------------------------------
(* What a pattern decodes to *)

DecodeStep(g, i) == IF i = 0 THEN <<>> ELSE IF saw_escape[i] THEN g[i - 1] ELSE Append(g[i - 1], pattern[i])
Decodes(g, n) == g = [i \in 0 .. n |-> DecodeStep(g, i)]

LEMMA DecodeExists ==
  ASSUME NEW n \in Nat
  PROVE  \E g : Decodes(g, n)
<1> DEFINE S == {m \in Nat : \E g : Decodes(g, m)}
<1>1. 0 \in S
  <2> DEFINE g == [i \in 0 .. 0 |-> <<>>]
  <2>1. \A i \in 0 .. 0 : DecodeStep(g, i) = <<>>
    BY DEF DecodeStep
  <2> HIDE DEF g
  <2>2. Decodes(g, 0)
    BY <2>1 DEF Decodes, g
  <2>3. QED
    BY <2>2
<1>2. ASSUME NEW m \in Nat, m \in S PROVE m + 1 \in S
  <2>1. PICK g : Decodes(g, m)
    BY <1>2
  <2> DEFINE h == [i \in 0 .. m + 1 |-> IF i = m + 1 THEN DecodeStep(g, i) ELSE g[i]]
  <2>2. ASSUME NEW i \in 0 .. m + 1 PROVE h[i] = DecodeStep(h, i)
    <3>1. i # 0 => h[i - 1] = g[i - 1]
      OBVIOUS
    <3> HIDE DEF h
    <3>2. DecodeStep(h, i) = DecodeStep(g, i)
      BY <3>1 DEF DecodeStep
    <3>3. h[i] = DecodeStep(g, i)
      <4>1. CASE i = m + 1
        BY <4>1 DEF h
      <4>2. CASE i # m + 1
        <5>1. i \in 0 .. m
          BY <4>2
        <5>2. g[i] = DecodeStep(g, i)
          BY <2>1, <5>1 DEF Decodes
        <5>3. QED
          BY <4>2, <5>2 DEF h
      <4>3. QED
        BY <4>1, <4>2
    <3>4. QED
      BY <3>2, <3>3
  <2>3. h = [i \in 0 .. m + 1 |-> h[i]]
    OBVIOUS
  <2> HIDE DEF h
  <2>4. Decodes(h, m + 1)
    BY <2>2, <2>3 DEF Decodes
  <2>5. QED
    BY <2>4
<1> HIDE DEF S
<1>3. n \in S
  BY <1>1, <1>2, Induction
<1>4. QED
  BY <1>3 DEF S

\* The decoded pattern grows by each character that is not an escape.
LEMMA DecodedPattern ==
  ASSUME pattern \in Seq(Chars), NEW i \in 0 .. Len(pattern)
  PROVE  /\ i = 0 => decode_pattern(i) = <<>>
         /\ i > 0 /\ saw_escape[i] => decode_pattern(i) = decode_pattern(i - 1)
         /\ i > 0 /\ ~ saw_escape[i] => decode_pattern(i) = Append(decode_pattern(i - 1), pattern[i])
<1> DEFINE g == CHOOSE g : Decodes(g, Len(pattern))
<1>1. Len(pattern) \in Nat
  OBVIOUS
<1>2. \E h : Decodes(h, Len(pattern))
  BY <1>1, DecodeExists
<1>3. \A j : decode_pattern(j) = g[j]
  BY DEF decode_pattern, Decodes, DecodeStep
<1>4. Decodes(g, Len(pattern))
  BY <1>2
<1> HIDE DEF g
<1>5. g[i] = DecodeStep(g, i)
  BY <1>4 DEF Decodes
<1>6. decode_pattern(i) = g[i] /\ decode_pattern(i - 1) = g[i - 1]
  BY <1>3
<1>7. QED
  BY <1>5, <1>6 DEF DecodeStep

LEMMA DecodedType ==
  ASSUME pattern \in Seq(Chars)
  PROVE  \A i \in 0 .. Len(pattern) : decode_pattern(i) \in Seq(Chars)
<1> DEFINE S == {i \in Nat : i <= Len(pattern) => decode_pattern(i) \in Seq(Chars)}
<1>1. 0 \in S
  <2>1. decode_pattern(0) = <<>>
    BY DecodedPattern
  <2>2. <<>> \in Seq(Chars)
    OBVIOUS
  <2>3. QED
    BY <2>1, <2>2
<1>2. ASSUME NEW i \in Nat, i \in S PROVE i + 1 \in S
  <2>1. SUFFICES ASSUME i + 1 <= Len(pattern) PROVE decode_pattern(i + 1) \in Seq(Chars)
    OBVIOUS
  <2>2. /\ saw_escape[i + 1] => decode_pattern(i + 1) = decode_pattern(i)
        /\ ~ saw_escape[i + 1] => decode_pattern(i + 1) = Append(decode_pattern(i), pattern[i + 1])
    BY <2>1, DecodedPattern
  <2>3. decode_pattern(i) \in Seq(Chars) /\ pattern[i + 1] \in Chars
    BY <1>2, <2>1
  <2>4. QED
    BY <2>2, <2>3
<1> HIDE DEF S
<1>3. \A i \in Nat : i \in S
  BY <1>1, <1>2, Induction
<1>4. QED
  BY <1>3 DEF S

-----------------------------------------------------------------------------
(* Where a pattern matches *)

MatchStep(text, g, i) ==
  IF i = Len(pattern) + 1 THEN {Len(text) + 1}
  ELSE IF IsEscape(pattern[i])
         THEN {j \in 1 .. Len(text) : i < Len(pattern) /\ pattern[i + 1] = text[j] /\ j + 1 \in g[i + 2]}
  ELSE IF pattern[i] = "%" THEN {j \in 1 .. Len(text) + 1 : \E k \in g[i + 1] : j <= k}
  ELSE {j \in 1 .. Len(text) : pattern[i] \in {"_", text[j]} /\ j + 1 \in g[i + 1]}

MatchesFrom(text, g, n) == g = [i \in n .. Len(pattern) + 1 |-> MatchStep(text, g, i)]

LEMMA MatchExists ==
  ASSUME pattern \in Seq(Chars), NEW text
  PROVE  \E g : MatchesFrom(text, g, 1)
<1> DEFINE p == Len(pattern)
           S == {m \in Nat : m <= p => \E g : MatchesFrom(text, g, p + 1 - m)}
<1>0. p \in Nat
  OBVIOUS
<1> HIDE DEF p
<1>1. 0 \in S
  <2> DEFINE g == [i \in p + 1 .. p + 1 |-> {Len(text) + 1}]
  <2>1. \A i \in p + 1 .. p + 1 : MatchStep(text, g, i) = {Len(text) + 1}
    BY <1>0 DEF MatchStep, p
  <2> HIDE DEF g
  <2>2. MatchesFrom(text, g, p + 1)
    BY <2>1 DEF MatchesFrom, g, p
  <2>3. p + 1 = p + 1 - 0
    BY <1>0
  <2>4. QED
    BY <2>2, <2>3
<1>2. ASSUME NEW m \in Nat, m \in S PROVE m + 1 \in S
  <2>0. SUFFICES ASSUME m + 1 <= p PROVE \E g : MatchesFrom(text, g, p + 1 - (m + 1))
    OBVIOUS
  <2>1. PICK g : MatchesFrom(text, g, p + 1 - m)
    BY <1>0, <1>2, <2>0
  <2> DEFINE a == p + 1 - (m + 1)
             h == [i \in a .. p + 1 |-> IF i = a THEN MatchStep(text, g, i) ELSE g[i]]
  <2>a. a \in Nat /\ a + 1 = p + 1 - m /\ a <= p
    BY <1>0, <2>0
  <2> HIDE DEF a
  <2>2. ASSUME NEW i \in a .. p + 1 PROVE h[i] = MatchStep(text, h, i)
    <3>1. (i <= p => h[i + 1] = g[i + 1]) /\ (i < p => h[i + 2] = g[i + 2])
      BY <1>0, <2>a
    <3> HIDE DEF h
    <3>2. MatchStep(text, h, i) = MatchStep(text, g, i)
      <4>1. CASE i = p + 1
        BY <1>0, <4>1 DEF MatchStep, p
      <4>2. CASE i # p + 1
        <5>1. i \in Nat /\ i <= p /\ h[i + 1] = g[i + 1] /\ (i < p => h[i + 2] = g[i + 2])
          BY <1>0, <2>a, <3>1, <4>2
        <5>2. {j \in 1 .. Len(text) : i < p /\ pattern[i + 1] = text[j] /\ j + 1 \in h[i + 2]}
              = {j \in 1 .. Len(text) : i < p /\ pattern[i + 1] = text[j] /\ j + 1 \in g[i + 2]}
          BY <5>1
        <5>3. QED
          BY <4>2, <5>1, <5>2 DEF MatchStep, p
      <4>3. QED
        BY <4>1, <4>2
    <3>3. h[i] = MatchStep(text, g, i)
      <4>1. CASE i = a
        BY <4>1 DEF h
      <4>2. CASE i # a
        <5>1. i \in a + 1 .. p + 1
          BY <1>0, <2>a, <4>2
        <5>2. g[i] = MatchStep(text, g, i)
          BY <2>1, <2>a, <5>1 DEF MatchesFrom, p
        <5>3. QED
          BY <4>2, <5>2 DEF h
      <4>3. QED
        BY <4>1, <4>2
    <3>4. QED
      BY <3>2, <3>3
  <2>3. h = [i \in a .. p + 1 |-> h[i]]
    OBVIOUS
  <2> HIDE DEF h
  <2>4. MatchesFrom(text, h, a)
    BY <2>2, <2>3 DEF MatchesFrom, p
  <2>5. QED
    BY <2>4 DEF a
<1> HIDE DEF S
<1>3. p \in S
  BY <1>0, <1>1, <1>2, Induction
<1>4. p + 1 - p = 1
  BY <1>0
<1>5. QED
  BY <1>0, <1>3, <1>4 DEF S

\* The positions of the text from which the pattern from i on matches.
Match(text) == CHOOSE g : MatchesFrom(text, g, 1)

LEMMA MatchIs ==
  ASSUME pattern \in Seq(Chars), NEW text
  PROVE  /\ Matches(text) <=> 1 \in Match(text)[1]
         /\ \A i \in 1 .. Len(pattern) + 1 : Match(text)[i] = MatchStep(text, Match(text), i)
<1>1. MatchesFrom(text, Match(text), 1)
  BY MatchExists DEF Match
<1>2. Matches(text) <=> 1 \in Match(text)[1]
  BY DEF Matches, Match, MatchesFrom, MatchStep
<1>3. ASSUME NEW i \in 1 .. Len(pattern) + 1 PROVE Match(text)[i] = MatchStep(text, Match(text), i)
  BY <1>1 DEF MatchesFrom
<1>4. QED
  BY <1>2, <1>3

-----------------------------------------------------------------------------
(* The constant prefix *)

Wild(c) == c = "%" \/ c = "_"

\* The prefix ends behind a whole character, and no wildcard is in it that is not escaped.
LEMMA ConstantPrefix ==
  ASSUME pattern \in Seq(Chars), fetch_constant_prefix > 0
  PROVE  /\ fetch_constant_prefix \in 1 .. Len(pattern)
         /\ ~ saw_escape[fetch_constant_prefix]
         /\ \A i \in 1 .. fetch_constant_prefix :
              ~ saw_escape[i - 1] /\ ~ saw_escape[i] => ~ Wild(pattern[i])
         /\ fetch_constant_prefix < Len(pattern) =>
              /\ ~ saw_escape[fetch_constant_prefix + 1]
              /\ Wild(pattern[fetch_constant_prefix + 1])
<1> DEFINE wildcards == {i \in DOMAIN pattern :
                           ~ saw_escape[i - 1] /\ ~ saw_escape[i] /\ pattern[i] \in {"%", "_"}}
           n == fetch_constant_prefix
<1>1. DOMAIN pattern = 1 .. Len(pattern) /\ Len(pattern) \in Nat
  OBVIOUS
<1>2. n = IF wildcards # {} THEN Min(wildcards) - 1
          ELSE IF saw_escape[Len(pattern)] THEN 0 ELSE Len(pattern)
  BY DEF fetch_constant_prefix
<1>3. \A i \in 1 .. Len(pattern) :
        i \in wildcards <=> ~ saw_escape[i - 1] /\ ~ saw_escape[i] /\ Wild(pattern[i])
  BY <1>1, Zenon DEF Wild
<1>4. wildcards \subseteq 1 .. Len(pattern)
  BY <1>1
<1>5. n > 0
  OBVIOUS
<1> HIDE DEF wildcards, n
<1>6. CASE wildcards # {}
  <2>1. PICK m \in wildcards : \A i \in wildcards : m <= i
    <3>1. wildcards \in SUBSET Nat
      BY <1>1, <1>4
    <3>2. QED
      BY <1>6, <3>1, LeastException
  <2>2. Min(wildcards) \in wildcards /\ \A i \in wildcards : Min(wildcards) <= i
    BY <2>1 DEF Min
  <2>3. /\ n \in Nat /\ n + 1 = Min(wildcards) /\ n + 1 \in 1 .. Len(pattern)
        /\ n + 1 \in wildcards /\ \A i \in wildcards : n + 1 <= i
    <3>1. Min(wildcards) \in 1 .. Len(pattern) /\ n = Min(wildcards) - 1
      BY <1>2, <1>4, <1>6, <2>2
    <3>2. n \in Nat /\ n + 1 = Min(wildcards)
      BY <1>1, <1>5, <3>1
    <3>3. QED
      BY <2>2, <3>1, <3>2
  <2>4. n + 1 - 1 = n /\ n \in 1 .. Len(pattern)
    BY <1>1, <1>5, <2>3
  <2>5. ~ saw_escape[n] /\ ~ saw_escape[n + 1] /\ Wild(pattern[n + 1])
    BY <1>3, <2>3, <2>4
  <2>6. ASSUME NEW i \in 1 .. n, ~ saw_escape[i - 1], ~ saw_escape[i]
        PROVE  ~ Wild(pattern[i])
    <3>1. i \notin wildcards /\ i \in 1 .. Len(pattern)
      BY <2>3, <2>4
    <3>2. QED
      BY <1>3, <2>6, <3>1
  <2>7. QED
    BY <2>4, <2>5, <2>6 DEF n
<1>7. CASE wildcards = {}
  <2>1. n = Len(pattern) /\ ~ saw_escape[Len(pattern)]
    BY <1>2, <1>5, <1>7
  <2>2. ASSUME NEW i \in 1 .. n, ~ saw_escape[i - 1], ~ saw_escape[i]
        PROVE  ~ Wild(pattern[i])
    <3>1. i \notin wildcards /\ i \in 1 .. Len(pattern)
      BY <1>7, <2>1
    <3>2. QED
      BY <1>3, <2>2, <3>1
  <2>3. n \in 1 .. Len(pattern) /\ ~ (n < Len(pattern))
    BY <1>1, <1>5, <2>1
  <2>4. QED
    BY <2>1, <2>2, <2>3 DEF n
<1>8. QED
  BY <1>6, <1>7

StartsWith(text, d) == Len(d) <= Len(text) /\ \A j \in 1 .. Len(d) : text[j] = d[j]

LEMMA StartsAppend ==
  ASSUME NEW text \in Seq(Chars), NEW d \in Seq(Chars), NEW c \in Chars
  PROVE  StartsWith(text, Append(d, c)) <=>
           StartsWith(text, d) /\ Len(d) + 1 \in 1 .. Len(text) /\ c = text[Len(d) + 1]
<1>1. /\ Len(Append(d, c)) = Len(d) + 1 /\ Len(d) \in Nat /\ Len(text) \in Nat
      /\ \A j \in 1 .. Len(d) : Append(d, c)[j] = d[j]
      /\ Append(d, c)[Len(d) + 1] = c
  OBVIOUS
<1> DEFINE a == Append(d, c)
<1> HIDE DEF a
<1>2. /\ Len(a) = Len(d) + 1
      /\ \A j \in 1 .. Len(d) : a[j] = d[j]
      /\ a[Len(d) + 1] = c
  BY <1>1 DEF a
<1>3. \A j \in 1 .. Len(a) : j \in 1 .. Len(d) \/ j = Len(d) + 1
  BY <1>1, <1>2
<1>4. 1 .. Len(d) \subseteq 1 .. Len(a) /\ Len(d) + 1 \in 1 .. Len(a)
  BY <1>1, <1>2
<1>5. StartsWith(text, a) <=>
        StartsWith(text, d) /\ Len(d) + 1 \in 1 .. Len(text) /\ c = text[Len(d) + 1]
  BY <1>1, <1>2, <1>3, <1>4 DEF StartsWith
<1>6. QED
  BY <1>5 DEF a

\* The pattern matches a text that starts with the first i characters decoded and that the
\* rest of the pattern matches behind them.
MatchedBehind(text, i) ==
  Matches(text) <=>
    StartsWith(text, decode_pattern(i)) /\ Len(decode_pattern(i)) + 1 \in Match(text)[i + 1]

LEMMA OrdinaryCharacter ==
  ASSUME pattern \in Seq(Chars), NEW text \in Seq(Chars), NEW i \in 1 .. Len(pattern),
         ~ saw_escape[i - 1], ~ saw_escape[i], ~ Wild(pattern[i]), MatchedBehind(text, i - 1)
  PROVE  MatchedBehind(text, i)
<1> DEFINE d == decode_pattern(i - 1)
           k == Len(d) + 1
<1>1. i - 1 \in 0 .. Len(pattern) /\ i \in 0 .. Len(pattern) /\ i > 0 /\ i # Len(pattern) + 1 /\ i - 1 + 1 = i
  OBVIOUS
<1>2. d \in Seq(Chars) /\ pattern[i] \in Chars
  BY <1>1, DecodedType
<1>3. decode_pattern(i) = Append(d, pattern[i])
  BY <1>1, DecodedPattern
<1>4. ~ IsEscape(pattern[i])
  BY <1>1, SawEscape
<1>5. Match(text)[i] = {j \in 1 .. Len(text) : pattern[i] = text[j] /\ j + 1 \in Match(text)[i + 1]}
  <2>1. Match(text)[i] = MatchStep(text, Match(text), i)
    BY <1>1, MatchIs
  <2>2. MatchStep(text, Match(text), i)
        = {j \in 1 .. Len(text) : pattern[i] \in {"_", text[j]} /\ j + 1 \in Match(text)[i + 1]}
    BY <1>1, <1>4 DEF MatchStep, Wild
  <2>3. pattern[i] # "_"
    BY DEF Wild
  <2>4. QED
    BY <2>1, <2>2, <2>3
<1>6. Len(decode_pattern(i)) = k
  BY <1>2, <1>3
<1>7. StartsWith(text, decode_pattern(i)) <=>
        StartsWith(text, d) /\ k \in 1 .. Len(text) /\ pattern[i] = text[k]
  BY <1>2, <1>3, StartsAppend
<1>8. Matches(text) <=> StartsWith(text, d) /\ k \in Match(text)[i]
  BY <1>1 DEF MatchedBehind
<1> HIDE DEF d, k
<1>9. QED
  BY <1>5, <1>6, <1>7, <1>8 DEF MatchedBehind

LEMMA EscapedCharacter ==
  ASSUME pattern \in Seq(Chars), NEW text \in Seq(Chars), NEW i \in 1 .. Len(pattern) - 1,
         saw_escape[i], MatchedBehind(text, i - 1)
  PROVE  MatchedBehind(text, i + 1)
<1> DEFINE d == decode_pattern(i - 1)
           k == Len(d) + 1
<1>1. /\ i - 1 \in 0 .. Len(pattern) /\ i \in 0 .. Len(pattern) /\ i + 1 \in 0 .. Len(pattern)
      /\ i > 0 /\ i + 1 > 0 /\ i \in 1 .. Len(pattern) + 1 /\ i # Len(pattern) + 1 /\ i < Len(pattern)
      /\ i - 1 + 1 = i /\ i + 1 - 1 = i /\ i + 1 + 1 = i + 2
  OBVIOUS
<1>2. d \in Seq(Chars) /\ pattern[i + 1] \in Chars
  BY <1>1, DecodedType
<1>3. ~ saw_escape[i + 1] /\ IsEscape(pattern[i])
  BY <1>1, SawEscape
<1>4. decode_pattern(i + 1) = Append(d, pattern[i + 1])
  BY <1>1, <1>3, DecodedPattern
<1>5. Match(text)[i] = {j \in 1 .. Len(text) : pattern[i + 1] = text[j] /\ j + 1 \in Match(text)[i + 2]}
  <2>1. Match(text)[i] = MatchStep(text, Match(text), i)
    BY <1>1, MatchIs
  <2>2. MatchStep(text, Match(text), i)
        = {j \in 1 .. Len(text) : pattern[i + 1] = text[j] /\ j + 1 \in Match(text)[i + 2]}
    BY <1>1, <1>3 DEF MatchStep
  <2>3. QED
    BY <2>1, <2>2
<1>6. Len(decode_pattern(i + 1)) = k
  BY <1>2, <1>4
<1>7. StartsWith(text, decode_pattern(i + 1)) <=>
        StartsWith(text, d) /\ k \in 1 .. Len(text) /\ pattern[i + 1] = text[k]
  <2>1. \A c \in Chars : StartsWith(text, Append(d, c)) <=>
                           StartsWith(text, d) /\ k \in 1 .. Len(text) /\ c = text[k]
    BY <1>2, StartsAppend
  <2> HIDE DEF d, k
  <2>2. QED
    BY <1>2, <1>4, <2>1
<1>8. Matches(text) <=> StartsWith(text, d) /\ k \in Match(text)[i]
  BY <1>1 DEF MatchedBehind
<1> HIDE DEF d, k
<1>9. QED
  BY <1>1, <1>5, <1>6, <1>7, <1>8 DEF MatchedBehind

LEMMA PrefixMatched ==
  ASSUME pattern \in Seq(Chars), NEW text \in Seq(Chars), fetch_constant_prefix > 0
  PROVE  MatchedBehind(text, fetch_constant_prefix)
<1> DEFINE n == fetch_constant_prefix
           Known(i) == IF saw_escape[i] THEN MatchedBehind(text, i - 1) ELSE MatchedBehind(text, i)
           S == {i \in Nat : i <= n => Known(i)}
<1>1. /\ n \in 1 .. Len(pattern) /\ ~ saw_escape[n] /\ Len(pattern) \in Nat
      /\ \A i \in 1 .. n : ~ saw_escape[i - 1] /\ ~ saw_escape[i] => ~ Wild(pattern[i])
  BY ConstantPrefix
<1> HIDE DEF n
<1>2. 0 \in S
  <2>1. ~ saw_escape[0] /\ decode_pattern(0) = <<>>
    BY <1>1, SawEscape, DecodedPattern
  <2>2. StartsWith(text, <<>>)
    BY DEF StartsWith
  <2>3. Matches(text) <=> 1 \in Match(text)[1]
    BY MatchIs
  <2>4. MatchedBehind(text, 0)
    BY <2>1, <2>2, <2>3 DEF MatchedBehind
  <2>5. QED
    BY <2>1, <2>4
<1>3. ASSUME NEW i \in Nat, i \in S PROVE i + 1 \in S
  <2>1. SUFFICES ASSUME i + 1 <= n PROVE Known(i + 1)
    OBVIOUS
  <2>2. /\ Known(i) /\ i + 1 - 1 = i /\ i + 1 \in 1 .. Len(pattern) /\ i \in 0 .. Len(pattern)
        /\ i + 1 \in 1 .. n
    BY <1>1, <1>3, <2>1
  <2>3. CASE saw_escape[i]
    <3>1. i > 0
      BY <2>2, <2>3, SawEscape
    <3>2. i \in 1 .. Len(pattern) - 1 /\ ~ saw_escape[i + 1]
      BY <1>1, <2>2, <2>3, <3>1, SawEscape
    <3>3. MatchedBehind(text, i + 1)
      BY <2>2, <2>3, <3>2, EscapedCharacter
    <3>4. QED
      BY <3>2, <3>3
  <2>4. CASE ~ saw_escape[i]
    <3>1. CASE saw_escape[i + 1]
      BY <2>2, <2>4, <3>1
    <3>2. CASE ~ saw_escape[i + 1]
      <4>1. ~ Wild(pattern[i + 1])
        BY <1>1, <2>2, <2>4, <3>2
      <4>2. MatchedBehind(text, i + 1)
        BY <2>2, <2>4, <3>2, <4>1, OrdinaryCharacter
      <4>3. QED
        BY <3>2, <4>2
    <3>3. QED
      BY <3>1, <3>2
  <2>5. QED
    BY <2>3, <2>4
<1> HIDE DEF S
<1>4. n \in S
  BY <1>1, <1>2, <1>3, Induction
<1>5. MatchedBehind(text, n)
  BY <1>1, <1>4 DEF S
<1>6. QED
  BY <1>5 DEF n

-----------------------------------------------------------------------------
(* The replacements *)

\* The texts from a prefix on and before the prefix with \xff are those that start with it.
LEMMA PrefixRange ==
  ASSUME NEW text \in Seq(Chars), NEW prefix \in Seq(Chars)
  PROVE  CreatePrefixMatch(text, prefix) <=> StartsWith(text, prefix)
<1> DEFINE t == Codes(text)
           d == Codes(prefix)
           e == Append(d, 255)
<1>1. /\ DOMAIN t = 1 .. Len(text) /\ Len(text) \in Nat
      /\ \A i \in 1 .. Len(text) : text[i] \in Chars /\ t[i] = Code(text[i])
  BY DEF Codes
<1>2. /\ DOMAIN d = 1 .. Len(prefix) /\ Len(prefix) \in Nat
      /\ \A i \in 1 .. Len(prefix) : prefix[i] \in Chars /\ d[i] = Code(prefix[i])
  BY DEF Codes
<1>a. \A c, b \in Chars : Code(c) \in 0 .. 254 /\ (Code(c) = Code(b) => c = b)
  BY PrefixAssumption
<1> HIDE DEF t, d
<1>3. ASSUME NEW i \in 1 .. Len(text) PROVE t[i] \in 0 .. 254
  <2>1. t[i] = Code(text[i]) /\ text[i] \in Chars
    BY <1>1
  <2>2. Code(text[i]) \in 0 .. 254
    BY <1>a, <2>1, Zenon
  <2>3. QED
    BY <2>1, <2>2
<1>4. ASSUME NEW i \in 1 .. Len(prefix) PROVE d[i] \in 0 .. 254
  <2>1. d[i] = Code(prefix[i]) /\ prefix[i] \in Chars
    BY <1>2
  <2>2. Code(prefix[i]) \in 0 .. 254
    BY <1>a, <2>1, Zenon
  <2>3. QED
    BY <2>1, <2>2
<1>5. /\ t \in Seq(0 .. 254) /\ d \in Seq(0 .. 254)
      /\ Len(t) = Len(text) /\ Len(d) = Len(prefix)
  <2>1. t = [i \in 1 .. Len(text) |-> t[i]] /\ d = [i \in 1 .. Len(prefix) |-> d[i]]
    BY DEF Codes, t, d
  <2>2. QED
    BY <1>1, <1>2, <1>3, <1>4, <2>1
<1>6. /\ Len(e) = Len(d) + 1 /\ e[Len(d) + 1] = 255
      /\ \A i \in 1 .. Len(d) : e[i] = d[i]
  BY <1>5
<1>7. \A i \in 1 .. Len(text), j \in 1 .. Len(prefix) : t[i] = d[j] <=> text[i] = prefix[j]
  BY <1>1, <1>2, <1>a
<1> HIDE DEF e
<1>8. ASSUME ~ Before(t, d), Before(t, e) PROVE StartsWith(text, prefix)
  <2>1. PICK i \in 1 .. Len(e) :
          /\ \A j \in 1 .. i - 1 : j \in DOMAIN t /\ t[j] = e[j]
          /\ i > Len(t) \/ t[i] < e[i]
    BY <1>8 DEF Before
  <2>2. CASE i <= Len(d)
    <3>1. i \in 1 .. Len(d) /\ e[i] = d[i] /\ \A j \in 1 .. i - 1 : e[j] = d[j]
      BY <1>2, <1>5, <1>6, <2>1, <2>2
    <3>2. Before(t, d)
      BY <2>1, <3>1 DEF Before
    <3>3. QED
      BY <1>8, <3>2
  <2>3. CASE i = Len(d) + 1
    <3>1. i - 1 = Len(prefix)
      BY <1>2, <1>5, <2>3
    <3>2. \A j \in 1 .. Len(prefix) : j \in 1 .. Len(text) /\ text[j] = prefix[j]
      BY <1>1, <1>5, <1>6, <1>7, <2>1, <3>1
    <3>3. Len(prefix) <= Len(text)
      BY <1>1, <1>2, <3>2
    <3>4. QED
      BY <3>2, <3>3 DEF StartsWith
  <2>4. QED
    BY <1>2, <1>5, <1>6, <2>1, <2>2, <2>3
<1>9. ASSUME StartsWith(text, prefix) PROVE ~ Before(t, d) /\ Before(t, e)
  <2>1. /\ Len(d) <= Len(t) /\ Len(d) \in Nat /\ Len(t) \in Nat
        /\ \A j \in 1 .. Len(d) : j \in DOMAIN t /\ t[j] = d[j]
    BY <1>1, <1>2, <1>5, <1>7, <1>9 DEF StartsWith
  <2>2. ~ Before(t, d)
    <3>1. ASSUME NEW i \in 1 .. Len(d) PROVE ~ (i > Len(t)) /\ ~ (t[i] < d[i])
      <4>1. d[i] \in 0 .. 254 /\ t[i] = d[i] /\ i <= Len(t)
        BY <1>4, <1>5, <2>1
      <4>2. \A a \in 0 .. 254 : ~ (a < a)
        OBVIOUS
      <4>3. ~ (t[i] < d[i])
        BY <4>1, <4>2
      <4>4. i \in Nat /\ Len(t) \in Nat /\ i <= Len(t)
        BY <2>1, <4>1
      <4>5. ~ (i > Len(t))
        BY <4>4
      <4>6. QED
        BY <4>3, <4>5
    <3>2. QED
      BY <3>1 DEF Before
  <2>3. /\ Len(d) + 1 \in 1 .. Len(e) /\ Len(d) + 1 - 1 = Len(d)
        /\ \A j \in 1 .. Len(d) : j \in DOMAIN t /\ t[j] = e[j]
        /\ Len(d) + 1 > Len(t) \/ t[Len(d) + 1] < e[Len(d) + 1]
    <3>1. Len(d) + 1 <= Len(t) => t[Len(d) + 1] \in 0 .. 254
      BY <1>3, <1>5, <2>1
    <3>2. Len(d) + 1 > Len(t) \/ t[Len(d) + 1] < e[Len(d) + 1]
      <4>1. CASE Len(d) + 1 <= Len(t)
        <5> DEFINE a == t[Len(d) + 1]
                   b == e[Len(d) + 1]
        <5>1. a \in 0 .. 254 /\ b = 255
          BY <1>6, <3>1, <4>1
        <5> HIDE DEF a, b
        <5>2. a < b
          BY <5>1
        <5>3. QED
          BY <5>2 DEF a, b
      <4>2. CASE ~ (Len(d) + 1 <= Len(t))
        BY <2>1, <4>2
      <4>3. QED
        BY <4>1, <4>2
    <3>3. Len(d) + 1 \in 1 .. Len(e) /\ Len(d) + 1 - 1 = Len(d)
      BY <1>6, <2>1
    <3>4. QED
      BY <1>6, <2>1, <3>2, <3>3
  <2>4. Before(t, e)
    BY <2>3 DEF Before
  <2>5. QED
    BY <2>2, <2>4
<1>10. QED
  BY <1>8, <1>9 DEF CreatePrefixMatch, t, d, e

\* A tail of wildcards for any characters matches from everywhere.
LEMMA AnyTail ==
  ASSUME pattern \in Seq(Chars), NEW text \in Seq(Chars), NEW n \in 0 .. Len(pattern) - 1,
         ~ IsEscape("%"), \A i \in n + 1 .. Len(pattern) : pattern[i] = "%"
  PROVE  Match(text)[n + 1] = 1 .. Len(text) + 1
<1> DEFINE p == Len(pattern)
           S == {m \in Nat : m < p - n => Match(text)[p - m] = 1 .. Len(text) + 1}
<1>1. p \in Nat /\ n \in Nat /\ n < p /\ Len(text) \in Nat
  OBVIOUS
<1>2. ASSUME NEW i \in n + 1 .. p
      PROVE  Match(text)[i] = {j \in 1 .. Len(text) + 1 : \E k \in Match(text)[i + 1] : j <= k}
  <2>1. i \in 1 .. p + 1 /\ i # p + 1 /\ pattern[i] = "%" /\ ~ IsEscape(pattern[i])
    BY <1>1
  <2>2. Match(text)[i] = MatchStep(text, Match(text), i)
    BY <2>1, MatchIs
  <2>3. QED
    BY <2>1, <2>2 DEF MatchStep
<1>3. Match(text)[p + 1] = {Len(text) + 1}
  <2>1. p + 1 \in 1 .. p + 1
    BY <1>1
  <2>2. Match(text)[p + 1] = MatchStep(text, Match(text), p + 1)
    BY <2>1, MatchIs
  <2>3. QED
    BY <2>2 DEF MatchStep
<1> HIDE DEF p
<1>4. 0 \in S
  <2>1. p \in n + 1 .. p /\ p - 0 = p
    BY <1>1
  <2>2. Match(text)[p] = {j \in 1 .. Len(text) + 1 : \E k \in Match(text)[p + 1] : j <= k}
    BY <1>2, <2>1
  <2>3. \A j \in 1 .. Len(text) + 1 : j <= Len(text) + 1
    BY <1>1
  <2>4. Match(text)[p] = 1 .. Len(text) + 1
    BY <1>3, <2>2, <2>3
  <2>5. QED
    BY <2>1, <2>4
<1>5. ASSUME NEW m \in Nat, m \in S PROVE m + 1 \in S
  <2>1. SUFFICES ASSUME m + 1 < p - n PROVE Match(text)[p - (m + 1)] = 1 .. Len(text) + 1
    OBVIOUS
  <2> DEFINE i == p - (m + 1)
  <2>2. i \in n + 1 .. p /\ i + 1 = p - m /\ m < p - n
    BY <1>1, <2>1
  <2> HIDE DEF i
  <2>3. Match(text)[i + 1] = 1 .. Len(text) + 1
    BY <1>5, <2>2
  <2>4. Match(text)[i] = {j \in 1 .. Len(text) + 1 : \E k \in 1 .. Len(text) + 1 : j <= k}
    BY <1>2, <2>2, <2>3
  <2>5. \A j \in 1 .. Len(text) + 1 : j <= j
    BY <1>1
  <2>6. Match(text)[i] = 1 .. Len(text) + 1
    BY <2>4, <2>5
  <2>7. QED
    BY <2>6 DEF i
<1>6. p - (n + 1) \in Nat /\ p - (n + 1) < p - n /\ p - (p - (n + 1)) = n + 1
  BY <1>1
<1> HIDE DEF S
<1>7. p - (n + 1) \in S
  BY <1>4, <1>5, <1>6, Induction
<1>8. QED
  BY <1>6, <1>7 DEF S

LEMMA TextsAreSequences ==
  ASSUME NEW n \in Nat, NEW text \in Texts(n)
  PROVE  text \in Seq(Chars)
<1>1. PICK m \in 0 .. n : text \in [1 .. m -> Chars]
  BY DEF Texts, SeqOf
<1>2. m \in Nat
  OBVIOUS
<1>3. QED
  BY <1>1, <1>2

-----------------------------------------------------------------------------
(* The theorem *)

Inv == pattern \in Seq(Chars) /\ SameTexts

\* What the loops of replace answer is what the replacement accepts: wherever the pattern
\* ends in its constant prefix, in wildcards for any characters or in anything else.
THEOREM TextsCorrect ==
  PrefixSpec => []SameTexts
<1>1. PrefixInit => Inv
  <2> SUFFICES ASSUME PrefixInit PROVE Inv
    OBVIOUS
  <2>1. pattern \in Seq(Chars)
    BY TextsAreSequences, PrefixAssumption DEF PrefixInit
  <2>2. condition = Like /\ Like.is = "like"
    BY DEF PrefixInit, Like
  <2>3. \A text : Accepts(text) = Matches(text)
    BY <2>2 DEF Accepts
  <2>4. QED
    BY <2>1, <2>3 DEF Inv, SameTexts
<1>2. Inv /\ [Replace]_prefixVars => Inv'
  <2> SUFFICES ASSUME Inv, [Replace]_prefixVars PROVE Inv'
    OBVIOUS
  <2>1. CASE Replace
    <3> DEFINE n == fetch_constant_prefix
               d == decode_pattern(n)
    <3>1. /\ n > 0
          /\ condition' = [is |-> IF n = Len(pattern) THEN "equal"
                                  ELSE IF \A i \in n + 1 .. Len(pattern) : pattern[i] = "%" THEN "range"
                                  ELSE "range_and_like",
                           prefix |-> d]
          /\ pattern' = pattern /\ escape' = escape
      BY <2>1 DEF Replace
    <3>2. pattern \in Seq(Chars) /\ Len(pattern) \in Nat
      BY DEF Inv
    <3>3. ASSUME NEW text \in Texts(MaxText) PROVE Accepts(text)' <=> Matches(text)'
      <4>1. text \in Seq(Chars) /\ Len(text) \in Nat
        <5>1. MaxText \in Nat
          BY PrefixAssumption
        <5>2. text \in Seq(Chars)
          BY <3>3, <5>1, TextsAreSequences
        <5>3. QED
          BY <5>2
      <4>2. Matches(text)' <=> Matches(text)
        BY <3>1 DEF Matches, IsEscape
      <4>3. /\ n \in 1 .. Len(pattern) /\ d \in Seq(Chars)
            /\ n < Len(pattern) => ~ saw_escape[n + 1]
        BY <3>1, <3>2, ConstantPrefix, DecodedType
      <4>4. Matches(text) <=> StartsWith(text, d) /\ Len(d) + 1 \in Match(text)[n + 1]
        BY <3>1, <3>2, <4>1, PrefixMatched DEF MatchedBehind
      <4>5. CreatePrefixMatch(text, d) <=> StartsWith(text, d)
        BY <4>1, <4>3, PrefixRange
      <4>6. CASE n = Len(pattern)
        <5>1. condition'.is = "equal" /\ condition'.prefix = d
          BY <3>1, <4>6
        <5>2. Match(text)[n + 1] = {Len(text) + 1}
          <6>1. n + 1 = Len(pattern) + 1 /\ n + 1 \in 1 .. Len(pattern) + 1
            BY <3>2, <4>6
          <6>2. Match(text)[n + 1] = MatchStep(text, Match(text), n + 1)
            BY <3>2, <6>1, MatchIs
          <6>3. QED
            BY <6>1, <6>2 DEF MatchStep
        <5>3. StartsWith(text, d) /\ Len(d) = Len(text) <=> text = d
          <6> HIDE DEF d, n
          <6>1. ASSUME StartsWith(text, d), Len(d) = Len(text) PROVE text = d
            BY <4>1, <4>3, <6>1, SeqEqual DEF StartsWith
          <6>2. ASSUME text = d PROVE StartsWith(text, d) /\ Len(d) = Len(text)
            BY <4>1, <6>2 DEF StartsWith
          <6>3. QED
            BY <6>1, <6>2
        <5>4. Matches(text) <=> text = d
          <6>1. Len(d) \in Nat
            BY <4>3
          <6> HIDE DEF d, n
          <6>2. Len(d) + 1 = Len(text) + 1 <=> Len(d) = Len(text)
            BY <4>1, <6>1
          <6>3. QED
            BY <4>4, <5>2, <5>3, <6>2
        <5>5. Accepts(text)' <=> text = d
          BY <5>1 DEF Accepts
        <5>6. QED
          BY <4>2, <5>4, <5>5
      <4>7. CASE n # Len(pattern) /\ \A i \in n + 1 .. Len(pattern) : pattern[i] = "%"
        <5>1. condition'.is = "range" /\ condition'.prefix = d
          BY <3>1, <4>7
        <5>2. n \in 0 .. Len(pattern) - 1 /\ n + 1 \in 1 .. Len(pattern) /\ n + 1 \in 0 .. Len(pattern)
              /\ n + 1 > 0 /\ n + 1 - 1 = n /\ n < Len(pattern)
          BY <3>2, <4>3, <4>7
        <5>3. ~ IsEscape("%")
          <6>1. pattern[n + 1] = "%" /\ ~ saw_escape[n + 1] /\ ~ saw_escape[n]
            BY <3>1, <3>2, <4>3, <4>7, <5>2, ConstantPrefix
          <6>2. QED
            BY <3>2, <5>2, <6>1, SawEscape
        <5>4. Match(text)[n + 1] = 1 .. Len(text) + 1
          BY <3>2, <4>1, <4>7, <5>2, <5>3, AnyTail
        <5>5. StartsWith(text, d) => Len(d) + 1 \in 1 .. Len(text) + 1
          BY <4>1, <4>3 DEF StartsWith
        <5>6. Matches(text) <=> StartsWith(text, d)
          BY <4>4, <5>4, <5>5
        <5>7. Accepts(text)' <=> CreatePrefixMatch(text, d)
          BY <5>1 DEF Accepts
        <5>8. QED
          BY <4>2, <4>5, <5>6, <5>7
      <4>8. CASE n # Len(pattern) /\ ~ \A i \in n + 1 .. Len(pattern) : pattern[i] = "%"
        <5>1. condition'.is = "range_and_like" /\ condition'.prefix = d
          BY <3>1, <4>8
        <5>2. Accepts(text)' <=> CreatePrefixMatch(text, d) /\ Matches(text)'
          BY <5>1 DEF Accepts
        <5>3. QED
          BY <4>2, <4>4, <4>5, <5>2
      <4>9. QED
        BY <4>6, <4>7, <4>8
    <3>4. QED
      BY <3>1, <3>2, <3>3 DEF Inv, SameTexts
  <2>2. CASE UNCHANGED prefixVars
    <3>1. pattern' = pattern /\ escape' = escape /\ condition' = condition
      BY <2>2 DEF prefixVars
    <3>2. \A text : Accepts(text)' = Accepts(text) /\ Matches(text)' = Matches(text)
      BY <3>1 DEF Accepts, Matches, IsEscape
    <3>3. QED
      BY <3>1, <3>2 DEF Inv, SameTexts
  <2>3. QED
    BY <2>1, <2>2
<1>3. Inv => SameTexts
  BY DEF Inv
<1>4. QED
  BY <1>1, <1>2, <1>3, PTL DEF PrefixSpec

=============================================================================
