-------------------------- MODULE MCVariableLiveness --------------------------
(***************************************************************************)
(* The plans of MCStepPlan, and processes of one source whose rows go      *)
(* several ways, each using variables of its own.                          *)
(***************************************************************************)
EXTENDS MCStepPlan, VariableLiveness

Let(v, value, body) == [is |-> "let", variables |-> <<Variable(v, value)>>, body |-> body]
Local(v) == [is |-> "local", name |-> v]
Sum(l, r) == [is |-> "sum", left |-> l, right |-> r]
More(x) ==
  Project(x, <<Variable("p", Let("ly", Column("a"), Sum(Local("ly"), Column("b")))), Variable("u", Column("b")), Variable("q", Column("p"))>>)

\* What is done before the rows part, on two of the ways, and where one of them parts again.
Above == {Unary("buffer", 5), Filter(5, {Same("a", "u")}), Filter(5, {Same("p", "q")}), Apply(5)}
OnOneWay ==
  {<<Filter(7, {Same("p", "a")}), 7>>, <<Project(7, <<Variable("x", Column("q"))>>), 7>>, <<Unary("buffer", 7), 8>>, <<Unary("buffer", 7), 7>>}
Ways ==
  {Plan(Id(1) :> ScanLeft({Left(1, 1, 1), Left(4, 2, 1)}) @@ Id(5) :> More(1) @@ Id(6) :> above @@ Id(7) :> Unary("buffer", 6)
        @@ Id(8) :> way[1] @@ Id(9) :> Emit(8, one) @@ Id(10) :> Emit(7, <<"q">>) @@ Id(11) :> Emit(way[2], other), {}) :
     above \in Above, way \in OnOneWay, one \in {<<"p">>, <<"a", "u">>}, other \in {<<"a">>, <<"u">>}}

MCLivenessPlans == MCPlans \cup Ways
===============================================================================
