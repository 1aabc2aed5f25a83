------------------------------ MODULE MCStepPlan ------------------------------
(***************************************************************************)
(* Intermediate plans over two sources, with every operator, strategy hint *)
(* and runtime feature, and some of two or three operators.                *)
(***************************************************************************)
EXTENDS StreamVariables, StepMeaning

CONSTANTS LeftTag, RightTag

Id(n) == <<n, "plan">>

\* Columns a and b of the left source, c and d of the right one; the tags tell equal rows apart.
\* A source is empty, holds equal rows, or rows with different keys.
Left(i, a, b) == [a |-> a, b |-> b] @@ LeftTag :> i
Right(i, c, d) == [c |-> c, d |-> d] @@ RightTag :> i
Lefts == {{}, {Left(1, 1, 1), Left(2, 1, 1)}, {Left(1, 1, 1), Left(3, 1, 2), Left(4, 2, 1)}}
Rights == {{}, {Right(1, 1, 1), Right(2, 1, 1)}, {Right(1, 1, 1), Right(3, 2, 2)}}

MCTags == {LeftTag, RightTag}

AsIs(names) == [i \in DOMAIN names |-> <<names[i], names[i]>>]
Scan(names, rows) ==
  [op |-> "scan", in |-> <<>>, columns |-> AsIs(names), rows |-> rows, lower |-> Unbound, upper |-> Unbound]
ScanLeft(rows) == Scan(<<"a", "b">>, rows)
ScanRight(rows) == Scan(<<"c", "d">>, rows)
Unary(op, x) == [op |-> op, in |-> <<Id(x)>>]
Binary(op, x, y) == [op |-> op, in |-> <<Id(x), Id(y)>>]

Column(name) == [is |-> "column", name |-> name]
Host == [is |-> "host", name |-> "h"]
Constant(n) == [is |-> "constant", const |-> n]

Endpoint(kind, keys) == [kind |-> kind, keys |-> keys]
OnKeys(keys) == <<Endpoint("inclusive", keys), Endpoint("inclusive", keys)>>
KeyOn(column, value) == [column |-> column, value |-> value]

KeyPairs == {OnKeys(<<KeyOn("c", Column("a"))>>),
             OnKeys(<<KeyOn("c", Column("a")), KeyOn("d", Column("b"))>>)}
PrefixKeys == {OnKeys(<<KeyOn("c", Constant(1))>>),
             OnKeys(<<KeyOn("c", Column("a")), KeyOn("d", Constant(2))>>)}
Ranges == {<<Endpoint("exclusive", <<KeyOn("c", Column("a"))>>), Unbound>>,
           <<Endpoint("inclusive", <<KeyOn("c", Column("a"))>>),
             Endpoint("inclusive", <<KeyOn("c", Constant(2))>>)>>,
           <<Unbound, Endpoint("inclusive", <<KeyOn("d", Column("b"))>>)>>}
HostKeys == {OnKeys(<<KeyOn("c", Host)>>)}
Same(a, b) == [left |-> Column(a), cmp |-> "=", right |-> Column(b), negated |-> FALSE]
Conditions == {{}, {Same("b", "d")}}

JoinOp(x, y, kind, endpoints, cond, hint) ==
  [kind |-> kind, lower |-> endpoints[1], upper |-> endpoints[2], cond |-> cond, hint |-> hint] @@ Binary("join", x, y)

Function(destination, arguments) == [destination |-> destination, arguments |-> arguments]
AggregateOp(x, keys, incremental, hint) ==
  [group_keys |-> keys, columns |-> <<Function("n", <<>>), Function("s", <<"b">>)>>,
   incremental |-> incremental, hint |-> hint] @@ Unary("aggregate", x)
DistinctOp(x, keys) == [group_keys |-> keys] @@ Unary("distinct", x)
LimitOp(x, n, keys, sort) == [count |-> n, group_keys |-> keys, sort_keys |-> sort] @@ Unary("limit", x)
UnionOp(x, y, quantifier, mappings) == [quantifier |-> quantifier, mappings |-> mappings] @@ Binary("union", x, y)
SetOp(op, x, y, quantifier, pairs) == [quantifier |-> quantifier, pairs |-> pairs] @@ Binary(op, x, y)

Maps(l, r, d) == [left |-> l, right |-> r, destination |-> d]

JoinKinds == {"inner", "left_outer", "left_outer_at_most_one", "full_outer", "semi", "anti"}

\* The strategies of joins: by a hint, or by what is available.
Joins(kinds, endpoints, hints) ==
  {JoinOp(1, 2, k, e, c, h) : k \in kinds, e \in endpoints, c \in Conditions, h \in hints}

Keys == {<<>>, <<"a">>, <<"a", "a">>, <<"b", "a">>}
OneInput ==
  {AggregateOp(1, keys, i, h) : keys \in Keys, i \in BOOLEAN, h \in {"none", "group"}}
  \cup {DistinctOp(1, keys) : keys \in Keys}
  \cup {LimitOp(1, n, keys, sort) : n \in {1, 2}, keys \in Keys, sort \in {<<>>, <<"b">>}}
Mappings == {<<Maps("a", "c", "x")>>, <<Maps("a", "c", "x"), Maps("b", "d", "y")>>,
             <<Maps("a", "none", "x"), Maps("none", "d", "y")>>}
SetOperators ==
  {UnionOp(1, 2, q, m) : q \in {"all", "distinct"}, m \in Mappings}
  \cup {SetOp(op, 1, 2, q, p) : op \in {"intersection", "difference"}, q \in {"all", "distinct"},
                                p \in {<<<<"a", "c">>>>, <<<<"a", "c">>, <<"b", "d">>>>}}

FeatureSets == SUBSET {"broadcast_exchange", "aggregate_exchange"}

Plan(graph, fs) == [ops |-> graph, features |-> fs]
Emit(x, names) == [columns |-> AsIs(names)] @@ Unary("emit", x)

\* A sink asks for everything an operator gives, or for one column of it.
Given(op) ==
  CASE op.op = "aggregate" -> op.group_keys \o <<"n", "s">>
    [] op.op \in {"distinct", "limit", "intersection", "difference"} -> <<"a", "b">>
    [] op.op = "union" -> [i \in DOMAIN op.mappings |-> op.mappings[i].destination]
    [] op.op = "join" -> IF op.kind \in {"semi", "anti"} THEN <<"a", "b">> ELSE <<"a", "b", "c", "d">>
Asks(op) == {Given(op), <<Given(op)[Len(Given(op))]>>}

OfUnary(op, ls, fs) ==
  {Plan(Id(1) :> ScanLeft(ls) @@ Id(3) :> op @@ Id(4) :> Emit(3, names), fs) : names \in Asks(op)}
OfBinary(op, ls, rs, fs) ==
  {Plan(Id(1) :> ScanLeft(ls) @@ Id(2) :> ScanRight(rs) @@ Id(3) :> op @@ Id(4) :> Emit(3, names), fs) : names \in Asks(op)}

\* Anti joins by co-groups and host variables as keys are apart: see AntiPlans and HostPlans.
OneOperator ==
  UNION {OfUnary(op, ls, fs) : op \in OneInput, ls \in Lefts, fs \in {{}, {"aggregate_exchange"}}}
  \cup UNION {OfBinary(op, ls, rs, {}) : op \in SetOperators, ls \in Lefts, rs \in Rights}
  \cup UNION {OfBinary(op, ls, rs, {"broadcast_exchange"}) :
          op \in Joins(JoinKinds, KeyPairs \cup PrefixKeys, {"broadcast"}), ls \in Lefts, rs \in Rights}
  \cup UNION {OfBinary(op, ls, rs, fs) :
          op \in Joins(JoinKinds \ {"anti"}, KeyPairs \cup {<<Unbound, Unbound>>}, {"none"}),
          ls \in Lefts, rs \in Rights, fs \in {{}, {"broadcast_exchange"}}}
  \cup UNION {OfBinary(op, ls, rs, {"broadcast_exchange"}) :
          op \in Joins(JoinKinds, Ranges, {"none"}) \cup Joins({"inner"}, KeyPairs \cup PrefixKeys, {"cogroup"}),
          ls \in Lefts, rs \in Rights}

\* Several operators, one of them kept: an escape, a project, a buffer with two outputs.
Joined == JoinOp(1, 2, "left_outer", OnKeys(<<KeyOn("c", Column("a"))>>), {}, "none")
Escape(x, mappings) == [mappings |-> mappings] @@ Unary("escape", x)
Project(x, columns) == [columns |-> columns] @@ Unary("project", x)
Variable(v, value) == [variable |-> v, value |-> value]
\* p is a, q is p, and nobody asks for u.
Projection(x) == Project(x, <<Variable("p", Column("a")), Variable("u", Column("b")), Variable("q", Column("p"))>>)
Filter(x, cond) == [cond |-> cond] @@ Unary("filter", x)
Apply(x) == [arguments |-> <<Column("a")>>, columns |-> <<"t", "w">>] @@ Unary("apply", x)
Identify(x) == [variable |-> "i"] @@ Unary("identify", x)
Write(x, keys, names) == [keys |-> AsIs(keys), columns |-> AsIs(names)] @@ Unary("write", x)
Values(names, rows) ==
  [op |-> "values", in |-> <<>>, columns |-> names,
   table |-> [n \in DOMAIN rows |-> [i \in DOMAIN rows[n] |-> Constant(rows[n][i])]]]
OneGroup(x) == AggregateOp(x, <<>>, TRUE, "none")

Both(ls, rs) == Id(1) :> ScanLeft(ls) @@ Id(2) :> ScanRight(rs)

\* Below a join, with its columns under new names.
Escaped(ls, rs) == Both(ls, rs) @@ Id(5) :> Joined @@ Id(6) :> Escape(5, <<<<"a", "e">>, <<"b", "f">>, <<"d", "g">>>>)
BelowEscape ==
  {<<[OneGroup(6) EXCEPT !.group_keys = <<"e">>, !.columns = <<Function("n", <<>>), Function("s", <<"g">>)>>], <<"e", "s">>>>,
   <<DistinctOp(6, <<"f">>), <<"g">>>>,
   <<LimitOp(6, 2, <<>>, <<>>), <<"e", "g">>>>,
   <<[Projection(6) EXCEPT !.columns[1].value.name = "e", !.columns[2].value.name = "g"], <<"q", "f">>>>,
   <<Filter(6, {Same("f", "g")}), <<"e">>>>}

\* A buffer feeds a join, or the join twice, and another sink.
Branches(ls, rs) == Both(ls, rs) @@ Id(3) :> Unary("buffer", 1) @@ Id(5) :> [Joined EXCEPT !.in = <<Id(3), Id(2)>>]
BelowBuffer ==
  {<<OneGroup(3), <<"n">>>>, <<LimitOp(3, 1, <<"a">>, <<"b">>), <<"a">>>>, <<Projection(3), <<"q">>>>}
SelfJoin(ls, names) ==
  Id(1) :> ScanLeft(ls) @@ Id(3) :> Unary("buffer", 1)
  @@ Id(5) :> Escape(3, <<<<"a", "c">>, <<"b", "d">>>>) @@ Id(6) :> Escape(3, <<<<"a", "a2">>, <<"b", "b2">>>>)
  @@ Id(7) :> Escape(6, <<<<"a2", "e">>, <<"b2", "f">>>>)
  @@ Id(8) :> UnionOp(5, 7, "all", <<Maps("c", "none", "x"), Maps("d", "f", "y"), Maps("none", "e", "z")>>)
  @@ Id(9) :> Emit(8, names)

\* The buffer feeds both inputs of a join, one below an aggregate or not; or two buffers feed two
\* joins crosswise.  With a broadcast a process, or two of them, then wait for themselves.  The rows
\* of both inputs have the same tags, so no two of them may be equal.
Unequal == {ls \in Lefts : \A l, m \in ls : l.a = m.a /\ l.b = m.b => l = m}
OtherInput(x) ==
  {Id(5) :> Escape(x, <<<<"a", "c">>, <<"b", "d">>>>),
   Id(4) :> AggregateOp(x, <<"a">>, TRUE, "none") @@ Id(5) :> Escape(4, <<<<"a", "c">>, <<"s", "d">>>>)}
Forked ==
  {Id(1) :> ScanLeft(ls) @@ Id(3) :> Unary("buffer", 1) @@ other
     @@ Id(6) :> JoinOp(3, 5, kind, OnKeys(<<KeyOn("c", Column("a"))>>), cond, "none") @@ Id(7) :> Emit(6, <<"b", "d">>) :
     ls \in Unequal, other \in OtherInput(3), kind \in {"inner", "left_outer"}, cond \in Conditions}
Crossed ==
  {Both(ls, rs) @@ Id(3) :> Unary("buffer", 1) @@ Id(4) :> Unary("buffer", 2)
     @@ Id(5) :> JoinOp(3, 4, "inner", OnKeys(<<KeyOn("c", Column("a"))>>), {}, left)
     @@ Id(6) :> JoinOp(4, 3, "inner", OnKeys(<<KeyOn("a", Column("c"))>>), {}, "broadcast")
     @@ Id(7) :> Emit(5, <<"b", "d">>) @@ Id(8) :> Emit(6, <<"d", "a">>) :
     ls \in Lefts, rs \in Rights, left \in {"broadcast", "cogroup"}}

IndexJoin(op, kind, rs, endpoints) ==
  [op |-> op, in |-> <<Id(1)>>, kind |-> kind, source |-> Index, columns |-> <<<<"c", "cc">>, <<"d", "dd">>>>, rows |-> rs,
   cond |-> {Same("b", "dd")}, keys |-> endpoints[1].keys, lower |-> endpoints[1], upper |-> endpoints[2]]

Chains ==
  {Plan(Escaped(ls, rs) @@ Id(7) :> below[1] @@ Id(8) :> Emit(7, below[2]), fs) :
     ls \in Lefts, rs \in Rights, fs \in FeatureSets, below \in BelowEscape}
  \cup {Plan(Branches(ls, rs) @@ Id(6) :> Emit(5, <<"b", "d">>) @@ Id(7) :> below[1] @@ Id(8) :> Emit(7, below[2]), fs) :
          ls \in Lefts, rs \in Rights, fs \in FeatureSets, below \in BelowBuffer}
  \cup {Plan(SelfJoin(ls, names), {}) : ls \in Lefts, names \in {<<"x", "y", "z">>, <<"z">>}}
  \cup {Plan(graph, fs) : graph \in Forked \cup Crossed, fs \in {{}, {"broadcast_exchange"}}}
  \cup {Plan(Both(ls, rs) @@ Id(5) :> Joined @@ Id(6) :> Unary("extension", 5) @@ Id(7) :> Emit(6, <<"a">>), {}) :
          ls \in Lefts, rs \in Rights}
  \cup {Plan(Id(1) :> ScanLeft(ls) @@ Id(5) :> IndexJoin(op, kind, rs, OnKeys(<<KeyOn("c", Column("a"))>>))
             @@ Id(6) :> Emit(5, names), {}) :
          ls \in Lefts, rs \in Rights, op \in {"join_find", "join_scan"}, kind \in JoinKinds,
          names \in {<<"a">>, <<"b", "a">>}}
  \cup {Plan(Id(1) :> ScanLeft(ls) @@ Id(5) :> Apply(1) @@ Id(6) :> Identify(5) @@ Id(7) :> LimitOp(6, 2, <<>>, <<>>)
             @@ Id(8) :> Write(7, keys, names), {}) :
          ls \in Lefts, keys \in {<<"i">>, <<"a">>}, names \in {<<>>, <<"w">>}}
  \cup {Plan(Id(1) :> Values(<<"a", "b", "v">>, <<<<1, 2, 3>>, <<1, 1, 2>>>>) @@ Id(2) :> ScanRight(rs) @@ Id(3) :> op
             @@ Id(4) :> Emit(3, <<names>>), fs) :
          rs \in Rights, op \in Joins({"inner"}, KeyPairs, {"none"}), names \in {"v", "d"},
          fs \in {{}, {"broadcast_exchange"}}}
  \cup {Plan(Id(1) :> ScanLeft(ls) @@ Id(2) :> ScanRight(rs) @@ Id(5) :> AggregateOp(1, <<"a">>, TRUE, "none")
             @@ Id(6) :> [Joined EXCEPT !.in = <<Id(5), Id(2)>>] @@ Id(7) :> Projection(6) @@ Id(8) :> Emit(7, names), fs) :
          ls \in Lefts, rs \in Rights, fs \in FeatureSets, names \in {<<"n", "q">>, <<"s">>, <<"d">>}}

MCPlans == OneOperator \cup Chains

AntiPlans == UNION {OfBinary(op, ls, rs, {}) : op \in Joins({"anti"}, KeyPairs, {"none"}), ls \in Lefts, rs \in Rights}
HostPlans == UNION {OfBinary(op, ls, rs, {"broadcast_exchange"}) :
                op \in Joins({"inner"}, HostKeys, {"none"}), ls \in Lefts, rs \in Rights}

===============================================================================
