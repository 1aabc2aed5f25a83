----------------------------- MODULE StepMeaning -----------------------------
(***************************************************************************)
(* What the operators and exchanges of a plan compute, for intermediate    *)
(* operators, step operators and any mixture of them.  The meaning belongs *)
(* to the executor; it is only used to state what the step plan builder    *)
(* promises.                                                               *)
(*                                                                         *)
(* A row is a function from columns to values; a column it lacks is NULL.  *)
(* The sources give each row a column of its own, so that a set of rows    *)
(* counts equal rows; the join keys of the sources are never NULL.  Where  *)
(* an operator may keep any row of several, the executor has its way of    *)
(* picking, the same for the same rows.                                    *)
(***************************************************************************)
EXTENDS StepGraph

CONSTANTS HostValue,   \* the value of the host variables
          Tags         \* the columns that tell equal rows apart

Null == 0   \* no column of a source holds it
True == 1
False == 2

Get(row, column) == IF column \in DOMAIN row THEN row[column] ELSE Null
Key(row, columns) == [i \in DOMAIN columns |-> Get(row, columns[i])]

LexLess(a, b) ==
  \E i \in DOMAIN b :
    /\ \A j \in 1 .. i - 1 : j \in DOMAIN a /\ a[j] = b[j]
    /\ i \notin DOMAIN a \/ a[i] < b[i]

Groups(rows, columns) == {{r \in rows : Key(r, columns) = k} : k \in {Key(r, columns) : r \in rows}}

\* What tells a row from the others, whatever its columns are called and which of them are left.
Identity(row) == [t \in Tags |-> Get(row, t)]

Pick(rows, n, sort_keys) ==
  LET picked ==
        CHOOSE s \in SUBSET {Identity(r) : r \in rows} :
          /\ Cardinality(s) = Min({n, Cardinality(rows)})
          /\ \A x, y \in rows :
               Identity(x) \in s /\ Identity(y) \notin s => ~ LexLess(Key(y, sort_keys), Key(x, sort_keys))
  IN  {r \in rows : Identity(r) \in picked}

Limited(rows, limit, sort_keys) == IF limit = Unlimited THEN rows ELSE Pick(rows, limit, sort_keys)

Truth(holds) == IF holds THEN True ELSE False
Compares(cmp, a, b) ==
  CASE cmp = "=" -> a = b [] cmp = "<>" -> a # b [] cmp = "<" -> a < b
    [] cmp = "<=" -> a <= b [] cmp = ">" -> a > b [] cmp = ">=" -> a >= b
Compared(cmp, a, b) == IF Null \in {a, b} THEN Null ELSE Truth(Compares(cmp, a, b))

\* Of truth values: as much as one of them says, and as all of them say together.
AnyOf(values) == IF True \in values THEN True ELSE IF Null \in values THEN Null ELSE False
EachOf(values) == IF False \in values THEN False ELSE IF Null \in values THEN Null ELSE True

RECURSIVE Value(_, _, _)

\* What an expression is worth for a row.  A let names the values of its body: a local variable is
\* looked up as if it were a column.
RECURSIVE Eval(_, _)
Eval(value, row) ==
  CASE value.is \in {"column", "local"} -> Get(row, value.name)
    [] value.is = "host" -> HostValue
    [] value.is = "constant" -> value.const
    [] value.is = "true" -> True
    [] value.is = "sum" ->
         LET a == Eval(value.left, row)
             b == Eval(value.right, row)
         IN  IF Null \in {a, b} THEN Null ELSE a + b
    [] value.is = "or" -> AnyOf({Eval(value.left, row), Eval(value.right, row)})
    [] value.is = "not" ->
         LET a == Eval(value.operand, row) IN IF a = Null THEN Null ELSE Truth(a = False)
    [] value.is = "is_null" -> Truth(Eval(value.operand, row) = Null)
    [] value.is = "is_true" -> Truth(Eval(value.operand, row) = True)
    [] value.is = "let" ->
         Eval(value.body, FoldLeft(LAMBDA r, d : (d.variable :> Eval(d.value, r)) @@ r, row, value.variables))
    [] value.is \in Subqueries ->
         LET rows == Value(value.graph, [x \in {} |-> {}], FALSE)[OutputOf(value.graph)]
         IN  CASE value.is = "subquery" -> IF rows = {} THEN Null ELSE Get(CHOOSE r \in rows : TRUE, value.column)
               [] value.is = "exists" -> Truth(rows # {})
               [] value.is = "quantified" ->
                    LET compared == {Compared(value.cmp, Eval(value.left, row), Get(r, value.column)) : r \in rows}
                    IN  IF value.quantifier = "any" THEN AnyOf(compared) ELSE EachOf(compared)

\* A condition is a set of terms, all of which must hold.  A comparison with NULL is unknown, and
\* so is its negation: neither holds.
Holds(cond, row) ==
  \A t \in cond : Compared(t.cmp, Eval(t.left, row), Eval(t.right, row)) = (IF t.negated THEN False ELSE True)

EndpointColumns(e) == [i \in DOMAIN e.keys |-> e.keys[i].column]
EndpointValues(e, row) == [i \in DOMAIN e.keys |-> Eval(e.keys[i].value, row)]

\* No row is before, after or at NULL.
Between(l, r, lower, upper) ==
  LET AtLower == Key(r, EndpointColumns(lower))
      AtUpper == Key(r, EndpointColumns(upper))
  IN  /\ Null \notin Range(EndpointValues(lower, l)) \cup Range(EndpointValues(upper, l)) \cup Range(AtLower) \cup Range(AtUpper)
      /\ \/ lower.kind = "unbound"
         \/ LexLess(EndpointValues(lower, l), AtLower)
         \/ lower.kind = "inclusive" /\ EndpointValues(lower, l) = AtLower
      /\ \/ upper.kind = "unbound"
         \/ LexLess(AtUpper, EndpointValues(upper, l))
         \/ upper.kind = "inclusive" /\ EndpointValues(upper, l) = AtUpper

FoundBy(keys, l, r) ==
  \A i \in DOMAIN keys : Eval(keys[i].value, l) # Null /\ Get(r, keys[i].column) = Eval(keys[i].value, l)

JoinRows(kind, ls, rs, Match(_, _)) ==
  LET matched == {l @@ r : <<l, r>> \in {lr \in ls \X rs : Match(lr[1], lr[2])}}
      lonely == {l \in ls : \A r \in rs : ~ Match(l, r)}
  IN  CASE kind = "inner" -> matched
        [] kind \in {"left_outer", "left_outer_at_most_one"} -> matched \cup lonely
        [] kind = "full_outer" -> matched \cup lonely \cup {r \in rs : \A l \in ls : ~ Match(l, r)}
        [] kind = "semi" -> ls \ lonely
        [] kind = "anti" -> lonely

\* An aggregate function counts the rows, or adds up its argument.
Worth(group, arguments) ==
  IF arguments = <<>> THEN Cardinality(group)
  ELSE MapThenSumSet(LAMBDA r : Get(r, arguments[1]), group)

\* The row of a group: its keys, the results of the functions, and the identity of one of its rows.
Count(group, keys, columns) ==
  [c \in {keys[i] : i \in DOMAIN keys} |-> Get(CHOOSE r \in group : TRUE, c)]
  @@ [d \in {columns[i].destination : i \in DOMAIN columns} |->
        Worth(group, (CHOOSE c \in {columns[i] : i \in DOMAIN columns} : c.destination = d).arguments)]
  @@ (IF group = {} THEN [t \in {} |-> Null] ELSE CHOOSE i \in {Identity(r) : r \in group} : TRUE)

\* Without columns the rows are one group, even if there is none.
WholeGroups(rows, keys) == IF keys = <<>> THEN {rows} ELSE Groups(rows, keys)
Counts(rows, keys, columns) == {Count(g, keys, columns) : g \in WholeGroups(rows, keys)}

\* What a list of columns, <<from, to>> for each, makes of rows.
Renamed(rows, columns) ==
  {LET named == {c \in {columns[i] : i \in DOMAIN columns} : c[1] \in DOMAIN r}
   IN  [to \in {c[2] : c \in named} |-> r[(CHOOSE c \in named : c[2] = to)[1]]]
       @@ [t \in Tags \cap DOMAIN r |-> r[t]] : r \in rows}

\* What a group exchange makes of the rows offered to it.
Exchanged(rows, e) ==
  {Limited(g, e.limit, e.sort_keys) :
     g \in IF e.mode = "equivalence_or_whole" THEN WholeGroups(rows, e.group_keys) ELSE Groups(rows, e.group_keys)}

\* The co-groups: the groups of both sides with the same key, or nothing for the side without.
Cogroups(ls, left, rs, right) ==
  LET KeyOf(g, e) == Key(CHOOSE r \in g : TRUE, e.group_keys)
      Having(gs, e, k) == UNION {g \in gs : KeyOf(g, e) = k}
  IN  {<<Having(ls, left, k), Having(rs, right, k)>> :
         k \in {KeyOf(g, left) : g \in ls} \cup {KeyOf(g, right) : g \in rs}}

SetOperator(kind, quantifier, ls, rs) ==
  LET n == IF kind = "intersection" THEN Min({Cardinality(ls), Cardinality(rs)})
           ELSE Max({Cardinality(ls), Cardinality(rs)}) - Cardinality(rs)
  IN  IF quantifier = "all" THEN Pick(ls, n, <<>>)
      ELSE IF ls # {} /\ ((kind = "intersection") <=> (rs # {})) THEN Pick(ls, 1, <<>>) ELSE {}

\* The columns of a project are worked out in their order, each may use those before it.
Projected(row, columns) ==
  FoldLeft(LAMBDA r, c : [r EXCEPT !.row = (c.variable :> Eval(c.value, r.row)) @@ @], [row |-> row], columns).row

Table(columns, rows) ==
  {[c \in {columns[i] : i \in DOMAIN columns} |->
       Eval(rows[n][CHOOSE i \in DOMAIN columns : columns[i] = c], [x \in {} |-> {}])]
   @@ [t \in Tags |-> n] : n \in DOMAIN rows}

\* The rows, groups or co-groups each operator gives to the next one.  The columns of exchanges
\* are named by collect_exchange_columns; until then every column goes through.
Value(ops, exchanges, named) ==
  LET v[x \in DOMAIN ops] ==
        LET o == ops[x]
            left == v[o.in[1]]
            right == v[o.in[2]]
            Offered(e) == UNION {IF named \/ ops[y].columns # <<>> THEN Renamed(v[ops[y].in[1]], ops[y].columns)
                                 ELSE v[ops[y].in[1]] :
                                   y \in {z \in DOMAIN ops : ops[z].op = "offer" /\ ops[z].to = e}}
            As(rows, columns) == IF named THEN Renamed(rows, columns) ELSE rows
            \* what a join reads beside its input, from an index or an exchange, and calls it
            Read == IF o.source = Index THEN o.rows ELSE Offered(o.source)
            Seen == IF o.source = Index THEN Renamed(o.rows, o.columns) ELSE As(Read, o.columns)
            Source(r) == CHOOSE row \in Read : Identity(row) = Identity(r)
        IN  CASE o.op = "scan" -> Renamed({r \in o.rows : Between(<<>>, r, o.lower, o.upper)}, o.columns)
              [] o.op = "find" -> Renamed({r \in o.rows : FoundBy(o.keys, <<>>, r)}, o.columns)
              [] o.op = "values" -> Table(o.columns, o.table)
              [] o.op = "subquery" ->
                   Renamed(Value(o.graph, exchanges, named)[OutputOf(o.graph)], o.mappings)
              [] o.op \in {"offer", "buffer", "extension"} -> left
              [] o.op = "escape" -> Renamed(left, o.mappings)
              [] o.op = "emit" -> Renamed(left, o.columns)
              [] o.op = "write" -> Renamed(left, o.keys \o o.columns)
              [] o.op = "filter" -> {r \in left : Holds(o.cond, r)}
              [] o.op = "project" -> {Projected(r, o.columns) : r \in left}
              [] o.op = "identify" -> {o.variable :> Get(r, CHOOSE t \in Tags : TRUE) @@ r : r \in left}
              [] o.op = "apply" ->   \* a table function of one row
                   {[c \in {o.columns[i] : i \in DOMAIN o.columns} |-> Eval(o.arguments[1], r)] @@ r : r \in left}
              [] o.op = "join" ->
                   JoinRows(o.kind, left, right, LAMBDA l, r : Between(l, r, o.lower, o.upper) /\ Holds(o.cond, l @@ r))
              [] o.op = "aggregate" -> Counts(left, o.group_keys, o.columns)
              [] o.op = "distinct" -> UNION {Pick(g, 1, <<>>) : g \in Groups(left, o.group_keys)}
              [] o.op = "limit" -> UNION {Pick(g, o.count, o.sort_keys) : g \in Groups(left, o.group_keys)}
              [] o.op = "union" ->
                   LET all == Renamed(left, Side(o.mappings, "left")) \cup Renamed(right, Side(o.mappings, "right"))
                   IN  IF o.quantifier = "all" THEN all
                       ELSE UNION {Pick(g, 1, <<>>) :
                                     g \in Groups(all, [i \in DOMAIN o.mappings |-> o.mappings[i].destination])}
              [] o.op \in {"intersection", "difference"} ->
                   LET columns(k) == [group_keys |-> [i \in DOMAIN o.pairs |-> o.pairs[i][k]]]
                       gs(k) == Groups(v[o.in[k]], columns(k).group_keys)
                   IN  UNION {SetOperator(o.op, o.quantifier, c[1], c[2]) :
                                c \in Cogroups(gs(1), columns(1), gs(2), columns(2))}
              [] o.op = "take_flat" -> As(Limited(Offered(o.source), exchanges[o.source].limit, <<>>), o.columns)
              [] o.op = "take_group" ->
                   LET e == exchanges[o.source]
                   IN  {As(g, o.columns) :
                          g \in IF e.kind = "aggregate" THEN {Counts(Offered(o.source), e.group_keys, e.aggregations)}
                                ELSE Exchanged(Offered(o.source), e)}
              [] o.op = "take_cogroup" ->   \* skips a co-group that lacks a mandatory side
                   LET side(k) == exchanges[o.groups[k].source]
                       gs(k) == Exchanged(Offered(o.groups[k].source), side(k))
                   IN  {[k \in {1, 2} |-> As(c[k], o.groups[k].columns)] :
                          c \in {c \in Cogroups(gs(1), side(1), gs(2), side(2)) :
                                   \A k \in {1, 2} : o.groups[k].mandatory => c[k] # {}}}
              [] o.op = "flatten" -> UNION left
              [] o.op = "step_aggregate" ->
                   LET take == ops[o.in[1]]
                       keys == exchanges[take.source].group_keys
                       taken == SelectSeq(take.columns, LAMBDA c : \E i \in DOMAIN keys : keys[i] = c[1])
                   IN  {Count(g, IF named THEN [i \in DOMAIN taken |-> taken[i][2]] ELSE keys, o.columns) : g \in left}
              [] o.op = "step_join" ->
                   UNION {JoinRows(o.kind, c[1], c[2], LAMBDA l, r : Holds(o.cond, l @@ r)) : c \in left}
              [] o.op \in {"step_intersection", "step_difference"} ->
                   UNION {SetOperator(IF o.op = "step_intersection" THEN "intersection" ELSE "difference",
                                      "all", c[1], c[2]) : c \in left}
              [] o.op = "join_find" ->
                   JoinRows(o.kind, left, Seen,
                            LAMBDA l, r : FoundBy(o.keys, l, Source(r)) /\ Holds(o.cond, l @@ r))
              [] o.op = "join_scan" ->
                   JoinRows(o.kind, left, Seen,
                            LAMBDA l, r : Between(l, Source(r), o.lower, o.upper) /\ Holds(o.cond, l @@ r))
  IN  v

\* How many times each row is there, whatever tells equal rows apart.
Counted(rows) ==
  LET bare(r) == [c \in DOMAIN r \ Tags |-> r[c]]
  IN  [b \in {bare(r) : r \in rows} |-> Cardinality({r \in rows : bare(r) = b})]

\* The rows of each sink.
SinksOf(graph) == {x \in DOMAIN graph : graph[x].op \in {"emit", "write"}}
MeaningOf(graph, steps, named) == LET v == Value(graph, steps, named) IN [x \in SinksOf(graph) |-> Counted(v[x])]

=============================================================================
