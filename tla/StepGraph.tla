------------------------------- MODULE StepGraph -------------------------------
(***************************************************************************)
(* The graphs of operators the step plan builder works on, whatever their  *)
(* operators compute: functions from identifiers to operators, of which    *)
(* each has an op and the operators before it, in.                         *)
(***************************************************************************)
EXTENDS Naturals, Sequences, SequencesExt

CONSTANT Unlimited   \* the limit of an exchange without one

Index == <<"index">>   \* the source of a join that reads a table and no exchange

\* A function of one point, and one function over another: :> and @@ of module TLC, for which the
\* provers have no definition.
At(x, o) == [y \in {x} |-> o]
f ++ g == [x \in DOMAIN f \cup DOMAIN g |-> IF x \in DOMAIN f THEN f[x] ELSE g[x]]

Follows(graph, y, x) == \E k \in DOMAIN graph[y].in : graph[y].in[k] = x

\* The operator of a graph nothing follows, whose rows are those of the graph.
OutputOf(graph) == CHOOSE x \in DOMAIN graph : \A y \in DOMAIN graph : ~ Follows(graph, y, x)

\* The kinds of expressions with one operand, with two, and with a graph of their own.
Unaries == {"not", "is_null", "is_true"}
Binaries == {"sum", "or"}
Subqueries == {"subquery", "exists", "quantified"}

Unbound == [kind |-> "unbound", keys |-> <<>>]

\* The columns a union takes from one side, <<from, to>> for each.
Side(mappings, k) ==
  LET named == SelectSeq(mappings, LAMBDA m : m[k] # "none")
  IN  [i \in DOMAIN named |-> <<named[i][k], named[i].destination>>]

=============================================================================
