------------------------ MODULE MCPushDownSelections ------------------------
(***************************************************************************)
(* Small plans for push_down_selections: two tables (a, b) and (c, d), a   *)
(* chain of operators above each, a join or set operator over them, a      *)
(* chain with filters on top, and an emit.  Terms use zero to two          *)
(* variables and want a value, or NULL.                                    *)
(***************************************************************************)
EXTENDS PushDownSelections, PlanMeaning

Op(op, from, keys, cond) == [op |-> op, from |-> from, keys |-> keys, cond |-> cond]
Source1(op, columns) == Op(op, [v \in columns |-> <<>>], {}, <<>>)
Define(op, v, src) == Op(op, v :> <<src>>, {}, <<>>)
Grouped(op, keys) == Op(op, <<>>, keys, <<>>)
Plain(op) == Op(op, <<>>, {}, <<>>)

Is(want, uses) == {[uses |-> uses, want |-> want]}
Filter(cond) == Op("filter", <<>>, {}, cond)
Join(kind, cond) == Op(kind, <<>>, {}, cond)

Above(ops) == [k \in DOMAIN ops |-> ops[k] @@ [ins |-> IF k = 1 THEN <<>> ELSE <<k - 1>>]]
Over(l, r, ops) ==
  LET all == l \o r \o ops
  IN  [k \in DOMAIN all |->
         all[k] @@ [ins |-> IF k \in {1, Len(l) + 1} THEN <<>>
                            ELSE IF k = Len(l) + Len(r) + 1 THEN <<Len(l), Len(l) + Len(r)>>
                            ELSE <<k - 1>>]]

TableL == Source1("scan", {"a", "b"})
TableR == Source1("find", {"c", "d"})
Emit == Plain("emit")

-----------------------------------------------------------------------------
\* One input: one or two operators between a filter and the table.

Middle ==
  {Define("project", "p", "b"), Define("identify", "p", "b"), Define("apply", "p", "b"),
   Define("join_find", "p", "b"), Op("aggregate", "p" :> <<"b">>, {"a"}, <<>>),
   Grouped("distinct", {"a"}), Grouped("limit", {"a"}), Grouped("limit", {}), Grouped("distinct", {"a", "b"}),
   Filter(<<Is(1, {"b"})>>), Filter(<<Is(1, {"a"}), Is(0, {"b"})>>)}
Second ==
  {Define("project", "q", "a"), Define("apply", "q", "a"), Op("aggregate", "q" :> <<"a">>, {"a"}, <<>>),
   Op("escape", "a" :> <<"b">> @@ "b" :> <<"a">>, {}, <<>>), Filter(<<Is(0, {"a"})>>)}
Tops == {<<Is(1, {"a"})>>, <<Is(0, {"b"})>>, <<Is(1, {"p"})>>, <<Is(1, {"a", "p"}), Is(0, {"a"})>>,
         <<Is(1, {"a", "b"}), Is(1, {})>>, <<Is(1, {"q"}), Is(1, {"p"})>>, <<Is(1, {"q"})>>, <<Is(1, {"a"}), {}>>}

Chains ==
  {Above(<<TableL, m, Filter(t), Emit>>) : m \in Middle, t \in Tops}
  \cup {Above(<<TableL, s, m, Filter(t), Emit>>) : s \in Second, m \in Middle, t \in Tops}
  \cup {Above(<<TableL, m, s, Filter(t), Emit>>) : s \in Second, m \in Middle, t \in Tops}

\* A condition uses what its input has, a variable is declared once, and an operator uses what
\* is below it.
Sound(p) ==
  /\ \A x \in DOMAIN p :
       /\ UsesOf(TermsIn(p[x].cond)) \cup UNION {{v : v \in Range(p[x].from[d])} : d \in DOMAIN p[x].from}
            \subseteq UNION {VisibleAt(p, p[x].ins[k]) : k \in DOMAIN p[x].ins}
       /\ p[x].op \notin {"intersection", "difference"} =>
            p[x].keys \subseteq UNION {VisibleAt(p, p[x].ins[k]) : k \in DOMAIN p[x].ins}

\* distinct and limit put a copy of a term that uses a non-key variable above them and carry
\* the term on, without its uses: it passes whatever declares them.
CopiedPast(p) ==
  \E x, y, z \in DOMAIN p :
    /\ p[y].op \in {"distinct", "limit"} /\ x < y /\ y < z
    /\ p[x].op \notin {"filter", "distinct", "limit"} /\ p[x].ins # <<>>
    /\ \E k \in DOMAIN p[z].cond : ~ UsesOf(p[z].cond[k]) \subseteq p[y].keys

ChainPlans == {p \in Chains : Sound(p) /\ ~ CopiedPast(p)}

-----------------------------------------------------------------------------
\* Two inputs.

Lefts == {<<TableL>>, <<TableL, Define("project", "p", "b")>>, <<TableL, Grouped("distinct", {"a"})>>,
          <<TableL, Define("apply", "p", "b")>>}
Rights == {<<TableR>>, <<TableR, Op("aggregate", "q" :> <<"d">>, {"c"}, <<>>)>>,
           <<TableR, Filter(<<Is(0, {"d"})>>)>>}
Conditions == {<<>>, <<Is(1, {"a", "c"})>>, <<Is(1, {"a"}), Is(0, {"c"})>>, <<Is(1, {"b"}), Is(1, {"b", "c"})>>,
               <<Is(1, {"c"})>>, <<Is(1, {})>>}
Wheres == {<<Is(1, {"a"})>>, <<Is(0, {"c"})>>, <<Is(2, {"c"})>>, <<Is(2, {"a"})>>, <<Is(1, {"a", "c"}), Is(1, {"b"})>>,
           <<Is(1, {"p"}), Is(1, {"a"})>>, <<Is(1, {"q"})>>, <<Is(1, {"b", "q"}), Is(1, {})>>}

\* A join condition of one term is named as a whole: when incoming terms are merged into it
\* they go where that term goes.
MergedIntoOne(p) ==
  \E x \in DOMAIN p :
    /\ p[x].op = "inner" /\ Len(p[x].cond) = 1
    /\ \E k \in 1 .. 2 : UsesOf(p[x].cond[1]) \subseteq VisibleAt(p, p[x].ins[k])
    /\ \E z \in DOMAIN p : z > x /\
         \E k \in DOMAIN p[z].cond :
           \A j \in 1 .. 2 : ~ UsesOf(p[z].cond[k]) \subseteq VisibleAt(p, p[x].ins[j])

JoinPlansRaw ==
  {Over(l, r, <<Join(kind, on), Filter(w), Emit>>) :
     l \in Lefts, r \in Rights, kind \in JoinKinds, on \in Conditions, w \in Wheres}

JoinPlans == {p \in JoinPlansRaw : Sound(p) /\ ~ CopiedPast(p) /\ ~ MergedIntoOne(p)}

SetOperators ==
  {Op("union", "a" :> <<"b", "c">> @@ "b" :> <<"a", "d">>, {}, <<>>),
   Op("intersection", <<>>, {<<"a", "c">>}, <<>>), Op("difference", <<>>, {<<"b", "c">>}, <<>>)}
SetPlans ==
  {p \in {Over(l, r, <<s, Filter(w), Emit>>) :
            l \in Lefts, r \in Rights, s \in SetOperators,
            w \in {<<Is(1, {"a"})>>, <<Is(0, {"b"}), Is(1, {"a"})>>, <<Is(1, {})>>, <<Is(1, {"p"})>>}} :
     Sound(p) /\ ~ CopiedPast(p)}

\* One buffer read by two chains, and one below a join.
BufferPlans ==
  {[Above(<<TableL, Plain("buffer"), Filter(v), Emit, Filter(w), Plain("write")>>) EXCEPT ![5].ins = <<2>>] :
     v \in {<<Is(1, {"a"})>>, <<Is(1, {"a"}), Is(0, {"b"})>>}, w \in {<<Is(1, {"b"})>>, <<Is(0, {"a"}), Is(0, {"b"})>>}}
  \cup {Over(<<TableL, Plain("buffer")>>, <<TableR>>, <<Join(kind, <<Is(1, {"a", "c"})>>), Filter(w), Emit>>) :
     kind \in {"inner", "left_outer"}, w \in {<<Is(1, {"a"}), Is(0, {"c"})>>, <<Is(1, {"a"}), Is(0, {"b"})>>}}
  \cup {Above(<<TableL, Plain("extension"), Filter(<<Is(1, {"a"})>>), Emit>>)}

AllPlans == ChainPlans \cup JoinPlans \cup SetPlans \cup BufferPlans

CopyPlans == {p \in Chains : Sound(p) /\ CopiedPast(p) /\ \E x \in DOMAIN p : p[x].op = "apply"}
MergePlans == {p \in JoinPlansRaw : Sound(p) /\ ~ CopiedPast(p) /\ MergedIntoOne(p)}

-----------------------------------------------------------------------------

MeaningOf(p, x) == Outcomes(p, x, [y \in DOMAIN p |-> VisibleAt(p, y)])

\* The optimizer may choose among the results a plan allows, where limit and distinct leave a
\* choice, but a plan whose selections have been pushed down (the rules of the handlers for each
\* operator) produces no rows that the plan it was given could not produce.
ResultPreserved ==
  status = "done" => \A x \in Bottoms(given) : MeaningOf(plan, x) \subseteq MeaningOf(given, x)

=============================================================================
