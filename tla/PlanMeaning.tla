---------------------------- MODULE PlanMeaning ----------------------------
(***************************************************************************)
(* What a plan computes: the sets of rows it may produce.  A row is a      *)
(* function from variables to values 0, 1 and Null.  Where an operator has *)
(* a choice (which row of a group distinct and limit keep) every choice is *)
(* an outcome.  The meaning of the operators belongs to the executor, not  *)
(* to the optimizer; it is only used to state what the optimizer promises. *)
(***************************************************************************)
EXTENDS Integers, Sequences, FiniteSets, TLC

Null == 2

\* A term holds where all its variables have the value it wants; a term without
\* variables never holds.
TermHolds(t, row) == t.uses # {} /\ \A v \in t.uses : row[v] = t.want
CondHolds(cond, row) == \A k \in DOMAIN cond : \A t \in cond[k] : TermHolds(t, row)

\* Every row over the declared columns is in the table.
Table(columns) == [columns -> {0, 1}]

Restricted(row, vs) == [v \in vs |-> row[v]]
Nulls(rows) == [v \in UNION {DOMAIN r : r \in rows} |-> Null]

Matches(l, rows, cond) == {r \in rows : CondHolds(cond, l @@ r)}

JoinRows(op, cond, ls, rs, absent) ==
  LET matched == UNION {{l @@ r : r \in Matches(l, rs, cond)} : l \in ls}
      lonely == {l \in ls : Matches(l, rs, cond) = {}}
      lonelyRight == {r \in rs : \A l \in ls : ~ CondHolds(cond, l @@ r)}
      AbsentRight == [v \in absent[2] |-> Null]
      AbsentLeft == [v \in absent[1] |-> Null]
  IN  CASE op = "inner" -> matched
        [] op = "semi" -> ls \ lonely
        [] op = "anti" -> lonely
        [] op \in {"left_outer", "left_outer_at_most_one"} -> matched \cup {l @@ AbsentRight : l \in lonely}
        [] op = "full_outer" ->
             matched \cup {l @@ AbsentRight : l \in lonely} \cup {AbsentLeft @@ r : r \in lonelyRight}

Groups(rows, keys) == {{r \in rows : Restricted(r, keys) = g} : g \in {Restricted(r, keys) : r \in rows}}

\* One row of each group, in every possible way.
Representatives(rows, keys) ==
  LET gs == Groups(rows, keys)
  IN  {{pick[g] : g \in gs} : pick \in {f \in [gs -> rows] : \A g \in gs : f[g] \in g}}

\* The aggregate functions tell whether any row of the group has the value 1; without
\* group keys there is one group, even of no rows.
AggregateRow(group, x) ==
  [d \in DOMAIN x.from |-> IF \E r \in group : r[x.from[d][1]] = 1 THEN 1 ELSE 0]
AggregateRows(rows, x) ==
  IF x.keys = {}
    THEN {AggregateRow(rows, x)}
    ELSE {Restricted(CHOOSE r \in g : TRUE, x.keys) @@ AggregateRow(g, x) : g \in Groups(rows, x.keys)}

SameKeys(l, r, pairs) == \A pair \in pairs : l[pair[1]] = r[pair[2]]

UnaryOutcomes(x, rows) ==
  CASE x.op = "filter" -> {{r \in rows : CondHolds(x.cond, r)}}
    [] x.op = "project" -> {{r @@ [d \in DOMAIN x.from |-> r[x.from[d][1]]] : r \in rows}}
    [] x.op = "identify" -> {{r @@ [d \in DOMAIN x.from |-> 1] : r \in rows}}
    [] x.op \in {"apply", "join_find", "join_scan"} -> {UNION {{r @@ c : c \in [DOMAIN x.from -> {0, 1}]} : r \in rows}}
    [] x.op = "escape" -> {{[d \in DOMAIN x.from |-> r[x.from[d][1]]] : r \in rows}}
    [] x.op = "aggregate" -> {AggregateRows(rows, x)}
    [] x.op \in {"distinct", "limit"} -> Representatives(rows, x.keys)
    [] x.op \in {"emit", "write", "buffer"} -> {rows}

BinaryRows(x, ls, rs, absent) ==
  CASE x.op = "union" ->
         {[d \in DOMAIN x.from |-> l[x.from[d][1]]] : l \in ls}
         \cup {[d \in DOMAIN x.from |-> r[x.from[d][2]]] : r \in rs}
    [] x.op = "intersection" -> {l \in ls : \E r \in rs : SameKeys(l, r, x.keys)}
    [] x.op = "difference" -> {l \in ls : ~ \E r \in rs : SameKeys(l, r, x.keys)}
    [] OTHER -> JoinRows(x.op, x.cond, ls, rs, absent)

RECURSIVE Outcomes(_, _, _)
\* The sets of rows operator x of plan p may produce; out gives the variables of each input.
Outcomes(p, x, out) ==
  LET y == p[x]
      In(k) == Outcomes(p, y.ins[k], out)
  IN  CASE Len(y.ins) = 0 -> {Table(DOMAIN y.from)}
        [] Len(y.ins) = 1 -> UNION {UnaryOutcomes(y, rows) : rows \in In(1)}
        [] OTHER ->
             {BinaryRows(y, io[1], io[2], <<out[y.ins[1]], out[y.ins[2]]>>) : io \in In(1) \X In(2)}

=============================================================================
