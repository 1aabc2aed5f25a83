----------------------------- MODULE MCOptimizer -----------------------------
(***************************************************************************)
(* Intermediate plans over two indexed tables, taken through the optimizer *)
(* and the step plan builder.  The conditions are where push_down_selections *)
(* leaves them: it stands between two of the passes modelled here.         *)
(***************************************************************************)
EXTENDS PlanTypes, MCStepPlan

Ix(keys, values, fs) == [keys |-> keys, values |-> values, features |-> fs]
Sorted == {"find", "scan"}
Unique == {"find", "scan", "unique"}

\* Tables by their columns: A, B of the left one, C, D of the right one.
Renamings == <<<<"a", "A">>, <<"b", "B">>, <<"c", "C">>, <<"d", "D">>>>
TableScan(names, rows, indexes) ==
  LET columns == SelectSeq(Renamings, LAMBDA c : c[1] \in names)
  IN  [op |-> "scan", in |-> <<>>, columns |-> Swapped(columns), rows |-> Renamed(rows, columns),
       indexes |-> indexes, lower |-> Unbound, upper |-> Unbound]

SomeLeft == {Left(1, 1, 1), Left(3, 1, 2), Left(4, 2, 1)}
SomeRight == {Right(1, 1, 1), Right(2, 1, 2), Right(3, 2, 2)}
UniqueRight == {Right(1, 1, 2), Right(3, 2, 1)}

\* The right table: its rows and indexes.
RightTables ==
  {<<UniqueRight, <<Ix(<<"D">>, {"C"}, Unique), Ix(<<"C">>, {}, Unique)>>>>,
   <<SomeRight, <<Ix(<<"C", "D">>, {}, Unique), Ix(<<"D">>, {}, Sorted)>>>>,
   <<SomeRight, <<Ix(<<"D", "C">>, {}, {"scan"}), Ix(<<"C">>, {}, {"find"})>>>>}
LeftIndexes == <<Ix(<<"A", "B">>, {}, Unique)>>
LeftTable == TableScan({"a", "b"}, SomeLeft, LeftIndexes)
RightTable(t) == TableScan({"c", "d"}, t[1], t[2])

Term(l, cmp, r) == [left |-> l, cmp |-> cmp, right |-> r, negated |-> FALSE]
NotTerm(l, cmp, r) == [left |-> l, cmp |-> cmp, right |-> r, negated |-> TRUE]
A == Column("a")
B == Column("b")
C == Column("c")
D == Column("d")
One == Constant(1)
Two == Constant(2)

\* Conditions of both inputs, and of the outer joins also of one.
PairConditions ==
  {{Term(A, "=", C)}, {Term(C, "=", A), NotTerm(B, "<>", D)}, {Term(A, "=", C), Term(D, ">", B)},
   {NotTerm(C, "<", A)}, {Term(C, ">=", A), Term(B, ">", C)}, {Term(A, "=", C), Term(B, "=", C)},
   {Term(A, "=", C), Term(C, "<=", B)}, {Term(D, "=", [is |-> "sum", left |-> A, right |-> One])}}
OuterConditions == {{Term(A, "=", C), Term(D, "=", One)}, {Term(A, "=", C), Term(D, "<", Two), Term(B, "=", One)}}

RightFilters == {{}, {Term(D, "=", One)}, {NotTerm(D, "<", One), Term(D, "<", Two)}}
LeftFilters == {{}, {Term(Two, ">", B)}}

Behind(x, cond, id) == IF cond = {} THEN Nothing ELSE Id(id) :> Filter(x, cond)
Joining(t, kind, cond, lf, rf) ==
  LET l == IF lf = {} THEN 1 ELSE 5
      r == IF rf = {} THEN 2 ELSE 6
  IN  Id(1) :> LeftTable @@ Id(2) :> RightTable(t) @@ Behind(1, lf, 5) @@ Behind(2, rf, 6)
      @@ Id(3) :> JoinOp(l, r, kind, <<Unbound, Unbound>>, cond, "none")
      @@ Id(4) :> Emit(3, IF kind \in {"semi", "anti"} THEN <<"a", "b">> ELSE <<"a", "d">>)

Everything == {"broadcast_exchange", "broadcast_join_scan", "index_join", "index_join_scan", "disjunction_range_hinting"}
Options == {{}, {"broadcast_exchange", "broadcast_join_scan"}, {"index_join"}, Everything}

BothOptions == {{}, Everything}
BothFilters == {<<{}, rf>> : rf \in RightFilters} \cup {<<lf, {}>> : lf \in LeftFilters}
JoinPlans ==
  {Plan(Joining(t, "inner", cond, f[1], f[2]), fs) :
     t \in RightTables, cond \in PairConditions, f \in BothFilters, fs \in Options}
  \cup {Plan(Joining(t, "semi", cond, {}, rf), fs) : t \in RightTables, cond \in PairConditions, rf \in RightFilters, fs \in BothOptions}
  \cup {Plan(Joining(t, kind, cond, {}, rf), fs) :
     t \in RightTables, kind \in {"left_outer", "left_outer_at_most_one", "full_outer"}, cond \in PairConditions \cup OuterConditions,
     rf \in {{}, {Term(D, "=", One)}}, fs \in BothOptions}

\* A table behind one or two filters: searched by a whole key, a prefix, a range, and not at all.
ScanConditions ==
  {{Term(D, "=", One)}, {Term(D, "=", Host), Term(C, "<", Two)}, {Term(C, "=", One), Term(Two, "=", D)},
   {NotTerm(D, "<", One), NotTerm(D, ">", One)}, {Term(C, "=", One), Term(D, ">", One), Term(D, "<=", Two)},
   {NotTerm(C, "=", One)}, {Term(C, "=", D)}, {Term(C, ">", One), Term(C, ">=", One), Term(D, "=", Two)}}
ScanPlans ==
  {Plan(Id(2) :> RightTable(t) @@ Id(5) :> Filter(2, cond) @@ Behind(5, more, 6) @@ Id(7) :> Emit(IF more = {} THEN 5 ELSE 6, names), fs) :
     t \in RightTables, cond \in ScanConditions, more \in {{}, {Term(C, "=", One)}}, names \in {<<"c">>, <<"d", "c">>},
     fs \in {{}, {"disjunction_range_hinting"}}}

\* Variables that repeat others, that nobody uses, and expressions with variables of their own:
\* ly and lz are trivial, lw is not.
Local(v) == [is |-> "local", name |-> v]
Sum(l, r) == [is |-> "sum", left |-> l, right |-> r]
Let == [is |-> "let", variables |-> <<Variable("ly", Column("q")), Variable("lz", Local("ly")), Variable("lw", Sum(Local("lz"), One)),
                                      Variable("lu", B)>>,
        body |-> Sum(Local("lw"), Local("lz"))]
Repeating == Project(1, <<Variable("p", A), Variable("u", Sum(B, One)), Variable("q", Column("p")), Variable("r", Sum(Column("q"), B)),
                         Variable("l", Let), Variable("o", Column("u")), Variable("k", Host)>>)
OnRenamed ==
  {<<Filter(5, {Term(Column("q"), "<", Column("r")), Term(Let, "=", Column("l"))}), <<"q", "b">>>>,
   <<Filter(5, {Term(Column("k"), "=", Column("p"))}), <<"u">>>>,
   <<AggregateOp(5, <<"p", "q">>, TRUE, "none"), <<"q", "s">>>>,
   <<AggregateOp(5, <<"p">>, FALSE, "none"), <<"n">>>>,
   <<DistinctOp(5, <<"q">>), <<"l">>>>, <<DistinctOp(5, <<"p", "r">>), <<"p">>>>,
   <<LimitOp(5, 1, <<"q">>, <<"r">>), <<"p", "o">>>>, <<LimitOp(5, 2, <<>>, <<>>), <<"r">>>>,
   <<[Apply(5) EXCEPT !.arguments = <<Let>>], <<"t", "q">>>>,
   <<Identify(5), <<"o">>>>, <<Identify(5), <<"i", "q">>>>,
   <<Unary("buffer", 5), <<"l", "k">>>>,
   <<Escape(5, <<<<"q", "e">>, <<"p", "f">>, <<"l", "g">>, <<"r", "h">>>>), <<"e", "g">>>>,
   <<Project(5, <<Variable("v", Column("l")), Variable("x", Sum(Column("v"), Column("q")))>>), <<"x">>>>}
RenamedPlans ==
  {Plan(Id(1) :> LeftTable @@ Id(5) :> Repeating @@ Id(6) :> below[1] @@ Id(7) :> Emit(6, below[2]), fs) :
     below \in OnRenamed,
     fs \in {{}, {"always_inline_scalar_local_variables"}, {"aggregate_exchange", "disjunction_range_hinting"}}}
  \cup {Plan(Id(1) :> LeftTable @@ Id(5) :> Repeating @@ Id(7) :> Write(5, <<"q">>, names), fs) :
          names \in {<<>>, <<"p", "l">>}, fs \in {{}, {"external_variable_inlining"}}}
  \cup {Plan(Id(1) :> LeftTable @@ Id(5) :> Project(1, <<Variable("k", Host)>>) @@ Id(6) :> Filter(5, {Term(A, op, Column("k"))})
             @@ Id(7) :> Emit(6, <<"b">>), {"external_variable_inlining"}) : op \in {"=", "<", ">="}}
  \cup {Plan(Id(1) :> LeftTable @@ Id(5) :> Unary("extension", 1) @@ Id(6) :> Emit(5, <<"b">>), {})}

\* Two such inputs of one operator.
RepeatingRight == Project(2, <<Variable("s", D), Variable("m", Column("s")), Variable("unasked", C)>>)
RenamedConditions == {{Term(Column("q"), "=", Column("s")), Term(Column("r"), ">", Column("m"))}, {Term(Let, ">", Column("m")), Term(C, ">=", Column("p"))}}
OnBoth ==
  {<<JoinOp(5, 6, kind, <<Unbound, Unbound>>, cond, "none"), <<"q", "s">>>> :
     kind \in {"inner", "left_outer", "semi"}, cond \in RenamedConditions}
  \cup {<<JoinOp(5, 6, kind, OnKeys(<<KeyOn("m", Column("q"))>>), {Term(Let, "<>", Column("c"))}, "none"), <<"q", "s">>>> :
          kind \in {"inner", "left_outer"}}
  \cup {<<UnionOp(5, 6, "all", <<Maps("q", "m", "x"), Maps("r", "c", "y"), Maps("none", "d", "z")>>), names>> :
          names \in {<<"x">>, <<"z", "y">>}}
  \cup {<<UnionOp(5, 6, "distinct", <<Maps("q", "m", "x"), Maps("r", "c", "y")>>), <<"y", "x">>>>}
  \cup {<<SetOp(op, 5, 6, "all", <<<<"q", "m">>, <<"p", "s">>>>), <<"q">>>> : op \in {"intersection", "difference"}}
WithResult(op, names) == IF op.op = "join" /\ op.kind = "semi" THEN <<"q", "l">> ELSE names
BothPlans ==
  {Plan(Id(1) :> LeftTable @@ Id(2) :> RightTable(t) @@ Id(5) :> Repeating @@ Id(6) :> RepeatingRight @@ Id(7) :> both[1]
        @@ Id(8) :> Emit(7, WithResult(both[1], both[2])), fs) :
     t \in RightTables, both \in OnBoth, fs \in {{}, Everything}}

\* Rows given in the plan, tables read and not used, a join below a buffer with two outputs.
OtherPlans ==
  {Plan(Id(1) :> Values(<<"a", "v", "b">>, <<<<1, 2, 3>>, <<1, 1, 2>>>>) @@ Id(5) :> op @@ Id(7) :> Emit(5, <<"b">>), {}) :
     op \in {Filter(1, {Term(A, "=", One)}), [Apply(1) EXCEPT !.columns = <<"t">>], LimitOp(1, 1, <<>>, <<"a">>)}}
  \cup {Plan(Id(1) :> LeftTable @@ Id(2) :> RightTable(t) @@ Id(3) :> Unary("buffer", 2)
             @@ Id(5) :> JoinOp(1, 3, "inner", <<Unbound, Unbound>>, cond, "none")
             @@ Id(6) :> Emit(5, <<"b">>) @@ Id(7) :> Filter(3, {Term(D, "=", One)}) @@ Id(8) :> Emit(7, <<"d">>), fs) :
          t \in RightTables, cond \in {{Term(A, "=", C)}, {Term(B, ">", D)}, {}}, fs \in Options}
  \cup {Plan(Id(1) :> LeftTable @@ Id(5) :> Apply(1) @@ Id(2) :> RightTable(t)
             @@ Id(6) :> JoinOp(5, 2, "inner", <<Unbound, Unbound>>, cond, "none") @@ Id(7) :> Emit(6, <<"t">>), {}) :
          t \in RightTables, cond \in {{Term(Column("w"), "=", C)}, {}}}

-----------------------------------------------------------------------------
\* Plans with subqueries.  An operator of a subquery has an identifier of its own in the whole plan.

InnerScan(columns, t) ==
  [op |-> "scan", in |-> <<>>, columns |-> columns, rows |-> Renamed(t[1], <<<<"c", "C">>, <<"d", "D">>>>), indexes |-> t[2], lower |-> Unbound, upper |-> Unbound]
Scalar(column, graph) == [is |-> "subquery", column |-> column, graph |-> graph]
Exists(graph) == [is |-> "exists", graph |-> graph]
Quantified(left, cmp, quantifier, column, graph) ==
  [is |-> "quantified", left |-> left, cmp |-> cmp, quantifier |-> quantifier, column |-> column, graph |-> graph]
Not(value) == [is |-> "not", operand |-> value]
Or(l, r) == [is |-> "or", left |-> l, right |-> r]
Predicate(value) == Term(value, "=", TrueValue)
Nested(graph, mappings, is_clone) ==
  [op |-> "subquery", in |-> <<>>, graph |-> graph, mappings |-> mappings, is_clone |-> is_clone]

\* Of one row at most: an aggregation, rows of the plan, and none.
AtMostOne(n) ==
  {<<"z", Id(n) :> InnerScan(<<<<"D", "y">>>>, t) @@ Id(n + 1) :> [AggregateOp(n, <<>>, TRUE, "none") EXCEPT !.columns = <<Function("z", <<"y">>)>>]>> :
     t \in RightTables}
  \cup {<<"z", Id(n) :> Values(<<"z">>, <<<<2>>>>)>>,
        <<"z", Id(n) :> Values(<<"z">>, <<<<2>>>>) @@ Id(n + 1) :> Filter(n, {Term(Column("z"), "=", One)})>>}

\* Of any number of rows; one of them with a subquery of its own.
Own(n, v) == IF n = 20 THEN v ELSE v \o ToString(n)
Rows(n, more) == Id(n) :> InnerScan(<<<<"C", Own(n, "x")>>, <<"D", Own(n, "y")>>>>, <<SomeRight, <<Ix(<<"C", "D">>, {}, Unique)>>>>) @@ more
Sometimes(n) ==
  {Rows(n, Nothing), Rows(n, Id(n + 1) :> Filter(n, {Term(Column("y"), ">", Two)})),
   Rows(n, Id(n + 1) :> Filter(n, {Term(Column("y"), "=", Two), Predicate(Exists(Rows(n + 5, Nothing)))}))}
Some(n) == Rows(n, Nothing)

Conditional ==
  {{Term(A, "=", Scalar(s[1], s[2]))} : s \in AtMostOne(20)}
  \cup {{Predicate(Exists(g)), Term(B, "=", One)} : g \in Sometimes(20)}
  \cup {{Predicate(Not(Exists(Some(20))))},
        {Predicate(Or(Exists(Rows(20, Id(21) :> Filter(20, {Term(Column("y"), ">", Two)}))), Not(Exists(Some(30)))))},
        {Predicate(Or(Not(Exists(Rows(20, Id(21) :> Filter(20, {Term(Column("y"), ">", Two)})))), Exists(Some(30))))},
        {Predicate(Not(Not(Exists(Some(20)))))}}
  \cup {{Predicate(Quantified(A, cmp, "any", "x", g))} : cmp \in {"=", "<"}, g \in Sometimes(20)}
  \cup {{Predicate(Not(Quantified(Sum(A, One), cmp, "all", "x", g)))} : cmp \in {"<>", "<="}, g \in Sometimes(20)}
  \cup {{Predicate(Quantified(A, "=", "any", "x", Some(20))), Term(Scalar("z", Id(30) :> Values(<<"z">>, <<<<1>>>>)), "=", B)}}
  \cup {{Predicate(value)} : value \in   \* not supported
          {Quantified(A, "=", "all", "x", Some(20)), Not(Quantified(A, "=", "any", "x", Some(20))),
           Or(Quantified(A, "=", "any", "x", Some(20)), [is |-> "is_null", operand |-> B])}}

Computed ==
  {<<Project(1, <<Variable("p", Sum(A, Scalar(s[1], s[2])))>>), <<"p", "b">>>> : s \in AtMostOne(20)}
  \cup {<<Project(1, <<Variable("p", Exists(g)), Variable("q", Not(Exists(Some(30))))>>), <<"p", "q", "a">>>> : g \in {Some(20)}}
  \cup {<<[Apply(1) EXCEPT !.arguments = <<Scalar(s[1], s[2])>>], <<"t", "a">>>> : s \in AtMostOne(20)}
  \cup {<<Project(1, <<Variable("p", [is |-> "let", variables |-> <<Variable("ly", Scalar("z", Id(20) :> Values(<<"z">>, <<<<2>>>>)))>>,
                                      body |-> Sum(Local("ly"), Local("ly"))])>>), <<"p", "b">>>>}

\* A relation subquery, and a copy of it; the variables of all its operators are changed in the copy.
Queries ==
  {Some(20), Rows(20, Id(21) :> Filter(20, {Term(Column("x"), "=", One)})),
   Rows(20, Id(21) :> Project(20, <<Variable("v", Sum(Column("x"), One))>>) @@ Id(22) :> LimitOp(21, 1, <<"x">>, <<"v">>)),
   Rows(20, Id(21) :> [AggregateOp(20, <<"x">>, FALSE, "none") EXCEPT !.columns = <<Function("n", <<>>), Function("m", <<"y">>)>>]),
   Rows(20, Id(21) :> DistinctOp(20, <<"x">>) @@ Id(22) :> Unary("buffer", 21)),
   Rows(20, Id(21) :> Identify(20) @@ Id(22) :> Escape(21, <<<<"x", "e">>>>)),
   Rows(20, Id(21) :> Values(<<"g">>, <<<<1>>, <<2>>>>) @@ Id(22) :> JoinOp(20, 21, "left_outer", <<Unbound, Unbound>>, {Term(Column("g"), "=", Column("y"))}, "none"))}
  \cup {Rows(20, Id(21) :> Values(<<"g">>, <<<<1>>, <<2>>>>) @@ Id(22) :> op) :
          op \in {UnionOp(20, 21, "all", <<Maps("x", "g", "u"), Maps("y", "g", "w")>>),
                 UnionOp(20, 21, "distinct", <<Maps("x", "g", "u")>>),
                 SetOp("intersection", 20, 21, "all", <<<<"x", "g">>>>), SetOp("difference", 20, 21, "distinct", <<<<"x", "g">>>>)}}
Result(g) ==
  LET o == g[OutputOf(g)]
  IN  CASE o.op = "escape" -> "e" [] o.op = "union" -> "u" [] OTHER -> "x"
Moved(g) ==   \* the operators of a copy are operators of their own
  [x \in {Id(y[1] + 20) : y \in DOMAIN g} |->
     LET o == g[Id(x[1] - 20)]
         inputs == [o EXCEPT !.in = [k \in DOMAIN @ |-> Id(@[k][1] + 20)]]
     IN  inputs]
InQuery(n, is_clone) ==   \* a subquery of a subquery
  Id(n + 1) :> Nested(IF is_clone THEN Moved(Some(20)) ELSE Some(20), <<<<"x", "n">>>>, is_clone)
  @@ Id(n + 2) :> Filter(n + 1, {Term(Column("n"), "<", Two)})
FromQuery(g, is_clone, v) == Nested(IF is_clone THEN Moved(g) ELSE g, <<<<Result(g), v>>>>, is_clone)

WithSubquery == Scalar("z", Id(20) :> Values(<<"z">>, <<<<2>>>>))
OtherSubquery == Scalar("y", Id(30) :> Values(<<"y">>, <<<<1>>>>))
Tables ==
  {<<<<WithSubquery, One>>>>, <<<<One, WithSubquery>>, <<Two, One>>>>, <<<<One, One>>, <<One, Two>>, <<WithSubquery, OtherSubquery>>>>,
   <<<<Two, OtherSubquery>>, <<One, One>>, <<WithSubquery, Two>>, <<One, Two>>>>}
ValuesOf(names, rows) == [columns |-> names, table |-> rows, op |-> "values", in |-> <<>>]

SubqueryPlans ==
  {Plan(Id(1) :> LeftTable @@ Id(5) :> Filter(1, cond) @@ Id(7) :> Emit(5, <<"a", "b">>), fs) : cond \in Conditional, fs \in {{}, Everything}}
  \cup {Plan(Id(1) :> LeftTable @@ Id(5) :> o[1] @@ Id(7) :> Emit(5, o[2]), fs) : o \in Computed, fs \in {{}, Everything}}
  \cup {Plan(Id(1) :> FromQuery(g, FALSE, "f") @@ Id(2) :> FromQuery(g, TRUE, "h")
             @@ Id(5) :> JoinOp(1, 2, "inner", <<Unbound, Unbound>>, {Term(Column("f"), "=", Column("h"))}, "none") @@ Id(7) :> Emit(5, <<"f", "h">>), {}) :
          g \in Queries}
  \cup {Plan(Id(1) :> Nested(InQuery(26, FALSE), <<<<"n", "f">>>>, FALSE) @@ Id(2) :> Nested(InQuery(46, TRUE), <<<<"n", "h">>>>, TRUE)
             @@ Id(5) :> JoinOp(1, 2, "full_outer", <<Unbound, Unbound>>, {Term(Column("f"), "=", Column("h"))}, "none")
             @@ Id(7) :> Emit(5, <<"f", "h">>), {})}
  \cup {Plan(Id(1) :> ValuesOf(<<"a", "b">>, table) @@ Id(5) :> Filter(1, cond) @@ Id(7) :> Emit(5, <<"b", "a">>), {}) :
          table \in Tables, cond \in {{}}}
  \cup {Plan(Id(1) :> LeftTable @@ Id(2) :> RightTable(t) @@ Id(5) :> JoinOp(1, 2, "inner", <<Unbound, Unbound>>, {Term(A, "=", WithSubquery)}, "none")
             @@ Id(7) :> Emit(5, <<"a">>), {}) : t \in RightTables}
  \cup {Plan(Id(1) :> [LeftTable EXCEPT !.lower = [kind |-> "inclusive", keys |-> <<KeyOn("A", WithSubquery)>>]] @@ Id(7) :> Emit(1, <<"a">>), {})}

MCOptimizerPlans == JoinPlans \cup ScanPlans \cup RenamedPlans \cup BothPlans \cup OtherPlans \cup SubqueryPlans

-----------------------------------------------------------------------------
\* Types: of the columns of the tables, of what is written in the plan, and of the functions.

ColumnTypes(a, b, c, d) == [x \in {"A", "B", "C", "D"} |-> CASE x = "A" -> a [] x = "B" -> b [] x = "C" -> c [] x = "D" -> d]
Typing(columns, literal, constant, host, parameter) ==
  [columns |-> columns, literal |-> literal, constant |-> constant, host |-> host,
   parameters |-> <<parameter>>, result |-> T!Just("int8"), identity |-> T!Just("int8"), written |-> columns["A"],
   table |-> [columns |-> <<constant, columns["B"]>>, features |-> {"table_valued_function"}, parameters |-> <<parameter>>,
              result |-> T!Type("declared", 0, 0, FALSE)]]

Int1 == T!Just("int1")
Int4 == T!Just("int4")
Int8 == T!Just("int8")
Float == T!Just("float8")
Interval == T!Just("datetime_interval")
Text10 == T!Varying("character", 10)
MCRestrictions == {{}, {"join_scan", "semi_join", "exchange_broadcast"}, {"buffer", "write_insert", "flatten"}}
MCTypings ==
  {Typing(ColumnTypes(Int1, Int1, Int1, Int1), "int4", Int1, Int1, Int4),
   Typing(ColumnTypes(Int4, Int8, Int8, T!Decimal(15, 2)), "int4", Int4, Int8, T!Decimal(T!Any, T!Any)),
   Typing(ColumnTypes(Float, Int4, Int4, Int8), "int8", Int8, Float, Float),
   Typing(ColumnTypes(Int4, Int4, Int8, Int8), "unknown", T!Unknown, Int4, Int8),
   Typing(ColumnTypes(Interval, Interval, Interval, Interval), "datetime_interval", Interval, Interval, Interval),
   [Typing(ColumnTypes(Text10, Text10, T!Varying("character", T!Any), Text10), "character", Text10, Text10, Text10)
      EXCEPT !.table.features = {"scalar_function"}],
   [Typing(ColumnTypes(Int4, Int8, Int4, Int8), "int4", Int8, T!Pending, Int8) EXCEPT !.parameters = <<Int8, Int8>>]}
==============================================================================
