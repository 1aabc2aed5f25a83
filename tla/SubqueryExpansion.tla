--------------------------- MODULE SubqueryExpansion ---------------------------
(***************************************************************************)
(* The intermediate plan normalizer: subqueries become part of the plan.   *)
(*                                                                         *)
(*   collect    every operator is looked at, those of the subqueries met   *)
(*              on the way included; what stands for a scalar subquery,    *)
(*              EXISTS or a comparison with a subquery takes its place,    *)
(*              and a command says how to join it; rows with subqueries    *)
(*              are cut out of values                                      *)
(*   process    the commands, one after the other: a join in front of the  *)
(*              operator, or a project in the place of a relation subquery *)
(*                                                                         *)
(* The operators of a subquery belong to the plan from when it is met; the *)
(* code moves them there when its command is processed, which makes no     *)
(* difference: nothing else looks at the owner of an operator in between.  *)
(***************************************************************************)
EXTENDS AccessPaths

VARIABLES worklist,   \* the operators to look at, in order
          commands    \* what is left to do, in order

normalizerVars == <<worklist, commands>>

InOrder(xs) == SetToSortSeq(xs, LAMBDA x, y : x[1] < y[1])
PlanId(n) == <<n, "plan">>

Reference(name) == [is |-> "column", name |-> name]
TrueValue == [is |-> "true"]
TermOf(left, cmp, right) == [left |-> left, cmp |-> cmp, right |-> right, negated |-> FALSE]

-----------------------------------------------------------------------------
\* Scalar expressions.  A work record holds the operators, the ones to be looked at, the commands,
\* whether something was reported, and the value that stands for the expression visited last.

\* insertion_context_operand_block: only a conjunction keeps a condition a condition.
OfOperand(context) == IF context = "filter" THEN "value" ELSE context

NoWork == [ops |-> Nothing, work |-> <<>>, commands |-> <<>>, reported |-> FALSE, failed |-> FALSE, value |-> None]
Reported(w) == [w EXCEPT !.reported = TRUE]

\* The command joins the rows of the graph to the input of the operator; with a marker it only
\* tells by a column whether there is one.
Commanded(w, kind, cond, marker, graph, value) ==
  [w EXCEPT !.commands = Append(@, [kind |-> kind, cond |-> cond, marker |-> marker, output |-> OutputOf(graph)]),
            !.ops = @ @@ graph, !.work = @ \o InOrder(DOMAIN graph), !.value = value]

\* normalize: under NOT, and with the other quantifier
Opposite(quantifier) == IF quantifier = "any" THEN "all" ELSE "any"

ExistsReplaced(w, context, value, negated) ==
  IF context = "filter"
    THEN Commanded(w, IF negated THEN "anti" ELSE "semi", {}, None, value.graph, TrueValue)
    ELSE LET x == "exists " \o ToString(OutputOf(value.graph)[1])
         IN  Commanded(w, "left_outer", {}, x, value.graph,
                       [is |-> IF negated THEN "is_null" ELSE "is_true", operand |-> Reference(x)])

\* The rows for which the comparison with one of the subquery is true
QuantifiedCommanded(w, value, cmp) ==
  Commanded(w, "semi", {TermOf(value.left, cmp, Reference(value.column))}, None, value.graph, TrueValue)

QuantifiedReplacedAsIs(w, context, value, negated) ==   \* mutant: under NOT only the quantifier is changed
  LET quantifier == IF negated THEN Opposite(value.quantifier) ELSE value.quantifier
  IN  IF context # "filter" \/ quantifier = "all" THEN Reported(w)
      ELSE QuantifiedCommanded(w, value, value.cmp)

QuantifiedReplaced(w, context, value, negated) ==
  LET quantifier == IF negated THEN Opposite(value.quantifier) ELSE value.quantifier
      cmp == IF negated THEN Negated(value.cmp) ELSE value.cmp
  IN  IF context # "filter" \/ quantifier = "all" THEN Reported(w)
      ELSE QuantifiedCommanded(w, value, cmp)

\* check_subquery_context_kind
Replaced(w, context, value, negated) ==
  CASE context \in {"scan", "join"} -> [Reported(w) EXCEPT !.value = value]
    [] value.is = "subquery" -> Commanded(w, "left_outer_at_most_one", {}, None, value.graph, Reference(value.column))
    [] value.is = "exists" -> ExistsReplaced(w, context, value, negated)
    [] value.is = "quantified" -> QuantifiedReplaced(w, context, value, negated)

\* NOT EXISTS, NOT IN
IsNegation(value) == value.is = "not" /\ value.operand.is \in {"exists", "quantified"}

\* The value with what stands for its parts.
OfOne(v, value) == [v EXCEPT !.value = [value EXCEPT !.operand = v.value]]
OfTwo(left, r, value) == [r EXCEPT !.value = [value EXCEPT !.left = left, !.right = r.value]]
OfLet(declared, v, value) == [v EXCEPT !.value = [value EXCEPT !.variables = declared, !.body = v.value]]
Followed(before, v, x) == [v EXCEPT !.value = Append(before, x)]

RECURSIVE Expanded(_, _, _)
Expanded(w, context, value) ==
  CASE value.is \in Subqueries -> Replaced(w, context, value, FALSE)
    [] IsNegation(value) -> Replaced(w, context, value.operand, TRUE)
    [] value.is \in Unaries /\ ~ IsNegation(value) -> OfOne(Expanded(w, OfOperand(context), value.operand), value)
    [] value.is \in Binaries ->
         LET right(l) == OfTwo(l.value, Expanded(l, OfOperand(context), value.right), value)
         IN  right(Expanded(w, OfOperand(context), value.left))
    [] value.is = "let" ->
         LET entry(u, v, d) == Followed(u.value, v, [d EXCEPT !.value = v.value])
             declared(u, d) == entry(u, Expanded(u, OfOperand(context), d.value), d)
             body(ds) == OfLet(ds.value, Expanded(ds, OfOperand(context), value.body), value)
         IN  body(FoldLeft(declared, [w EXCEPT !.value = <<>>], value.variables))
    [] OTHER -> [w EXCEPT !.value = value]

\* Of a list of expressions, or of records with a value, what stands for them.
ExpandedAll(w, context, values) ==
  LET entry(u, v) == Followed(u.value, v, v.value)
      expand(u, value) == entry(u, Expanded(u, context, value))
  IN  FoldLeft(expand, [w EXCEPT !.value = <<>>], values)
ExpandedKeys(w, context, keys) ==
  LET v == ExpandedAll(w, context, [i \in DOMAIN keys |-> keys[i].value])
  IN  [v EXCEPT !.value = [i \in DOMAIN keys |-> [keys[i] EXCEPT !.value = v.value[i]]]]

\* A term is a comparison, or a predicate that has to be true.
IsPredicate(t) == t.right = TrueValue /\ t.left.is \in {"exists", "quantified", "or"} \cup Unaries
ExpandedTerms(w, context, cond) ==
  LET operand(t) == IF IsPredicate(t) THEN context ELSE OfOperand(context)
      of(u, l, r, t) == [r EXCEPT !.value = u.value \cup {[t EXCEPT !.left = l.value, !.right = r.value]}]
      right(u, l, t) == of(u, l, Expanded(l, operand(t), t.right), t)
      expand(u, t) == right(u, Expanded(u, operand(t), t.left), t)
  IN  FoldLeft(expand, [w EXCEPT !.value = {}], SetToSeq(cond))

-----------------------------------------------------------------------------
\* Values: rows with subqueries are cut out, and a project gives them the columns that had some.

HasSubquery(cell) == Expanded(NoWork, "value", cell).commands # <<>>
SplitColumns(row) == {i \in DOMAIN row : HasSubquery(row[i])}

Link(graph, x, y) ==   \* what followed x follows y
  [z \in DOMAIN graph |-> [graph[z] EXCEPT !.in = [k \in DOMAIN @ |-> IF @[k] = x THEN y ELSE @[k]]]]

\* process_values_row: values x of one row; its commands are for the input of project p.
RowSplitInto(w, x, p, split, kept, v) ==
  LET o == w.ops[x]
      met == SubSeq(v.commands, Len(w.commands) + 1, Len(v.commands))
      project == [op |-> "project", in |-> <<x>>,
                  columns |-> [i \in DOMAIN split |-> [variable |-> o.columns[split[i]], value |-> v.value[i]]]]
      values == [o EXCEPT !.columns = [i \in DOMAIN kept |-> @[kept[i]]],
                          !.table = <<[i \in DOMAIN kept |-> @[1][kept[i]]]>>]
  IN  [v EXCEPT !.ops = p :> project @@ [Link(@, x, p) EXCEPT ![x] = values],
                !.commands = w.commands \o [i \in DOMAIN met |-> [at |-> p] @@ met[i]]]
RowSplitAt(w, x, p, split, kept) ==
  RowSplitInto(w, x, p, split, kept, ExpandedAll(w, "value", [i \in DOMAIN split |-> w.ops[x].table[1][split[i]]]))
RowSplit(w, x, p) ==
  LET row == w.ops[x].table[1]
      sorted(is) == SetToSortSeq(is, LAMBDA i, j : i < j)
  IN  RowSplitAt(w, x, p, sorted(SplitColumns(row)), sorted(DOMAIN row \ SplitColumns(row)))

\* migrate_values_into_shards: the rows with subqueries one by one, those between them together
ShardsFrom(table, starts) ==
  [k \in DOMAIN starts |-> SubSeq(table, starts[k], IF k = Len(starts) THEN Len(table) ELSE starts[k + 1] - 1)]
Shards(table) ==
  LET ends == UNION {{n, n + 1} : n \in {n \in DOMAIN table : SplitColumns(table[n]) # {}}}
  IN  ShardsFrom(table, SetToSortSeq(({1} \cup ends) \cap DOMAIN table, LAMBDA i, j : i < j))

ShardColumns(x, k, columns) == [i \in DOMAIN columns |-> "shard " \o ToString(<<x[1], k, i>>)]

AssembledLeft(x, k, shards, columns) ==   \* mutant: the last union keeps its fresh columns
  [i \in DOMAIN columns |-> ShardColumns(x, Len(shards) + k, columns)[i]]

\* The columns of the union with shard k; the last has those of the values.
Assembled(x, k, shards, columns) ==
  IF k = Len(shards) THEN columns ELSE ShardColumns(x, Len(shards) + k, columns)

Shard(x, k) == PlanId(1000 * x[1] + k)

\* assemble_values_shards: a union of each shard and those before it
Unions(x, shards, columns) ==
  LET union(k) == IF k = Len(shards) THEN x ELSE PlanId(1000 * x[1] + 200 + k)
      before(k) == IF k = 2 THEN ShardColumns(x, 1, columns) ELSE Assembled(x, k - 1, shards, columns)
  IN  [y \in {union(k) : k \in DOMAIN shards \ {1}} |->
         LET k == CHOOSE k \in DOMAIN shards \ {1} : union(k) = y
         IN  [op |-> "union", quantifier |-> "all", in |-> <<IF k = 2 THEN Shard(x, 1) ELSE union(k - 1), Shard(x, k)>>,
              mappings |-> [i \in DOMAIN columns |->
                 [left |-> before(k)[i], right |-> ShardColumns(x, k, columns)[i],
                  destination |-> Assembled(x, k, shards, columns)[i]]]]]

\* The values, in shards, and their unions; the last union takes the place of the values.
ValuesSplitInto(w, x, shards) ==
  LET columns == w.ops[x].columns
      values == [y \in {Shard(x, k) : k \in DOMAIN shards} |->
                   LET k == CHOOSE k \in DOMAIN shards : Shard(x, k) = y
                   IN  [op |-> "values", in |-> <<>>, columns |-> ShardColumns(x, k, columns), table |-> shards[k]]]
      row(v, k) == IF SplitColumns(shards[k][1]) = {} THEN v ELSE RowSplit(v, Shard(x, k), PlanId(1000 * x[1] + 100 + k))
  IN  FoldLeft(row, [w EXCEPT !.ops = values @@ Unions(x, shards, columns) @@ @], [k \in DOMAIN shards |-> k])
ValuesSplit(w, x) == ValuesSplitInto(w, x, Shards(w.ops[x].table))

-----------------------------------------------------------------------------
\* Relation subqueries: the variables of a copy become its own, see rewrite_stream_variables.

\* The intermediate operators; the others are rewritten as in a process.
RewriteIntermediate(w, x) ==
  LET o == w.ops[x]
      names(u, vs) == [i \in DOMAIN vs |-> Rewritten(u, vs[i])]
  IN  CASE o.op = "join" ->
             LET u == Uses(w, CondUses(o.cond) \cup KeyUses(o.lower.keys \o o.upper.keys))
             IN  Put(u, x, [o EXCEPT !.cond = RewrittenCond(u, @), !.lower.keys = RewrittenKeys(u, @),
                                     !.upper.keys = RewrittenKeys(u, @)])
        [] o.op = "aggregate" ->
             LET u == RewriteAggregate(Uses(w, AllOf(o.group_keys)), x)
             IN  Put(u, x, [u.ops[x] EXCEPT !.group_keys = names(u, @)])
        [] o.op = "distinct" ->
             LET u == Uses(w, AllOf(o.group_keys)) IN Put(u, x, [o EXCEPT !.group_keys = names(u, @)])
        [] o.op = "limit" ->
             LET u == Uses(w, AllOf(o.group_keys) \cup AllOf(o.sort_keys))
             IN  Put(u, x, [o EXCEPT !.group_keys = names(u, @), !.sort_keys = names(u, @)])
        [] o.op = "union" ->   \* force_rewrite_define: a distinct one keeps every mapping
             LET kept == SelectSeq(o.mappings, LAMBDA m : o.quantifier = "distinct" \/ IsUsed(w, m.destination))
                 known == [w EXCEPT !.context = @ @@ [v \in {kept[i].destination : i \in DOMAIN kept} |-> [status |-> "undefined"]]]
                 d == FoldLeft(LAMBDA v, m : Defines(v, m.destination), known, kept)
                 u == Uses(d, {kept[i].left : i \in DOMAIN kept} \cup {kept[i].right : i \in DOMAIN kept})
             IN  Put(u, x, [o EXCEPT !.mappings = [i \in DOMAIN kept |->
                       [left |-> Rewritten(u, kept[i].left), right |-> Rewritten(u, kept[i].right),
                        destination |-> Rewritten(u, kept[i].destination)]]])
        [] o.op \in {"intersection", "difference"} ->
             LET u == Uses(w, AllOf(Firsts(o.pairs)) \cup AllOf(Seconds(o.pairs)))
             IN  Put(u, x, [o EXCEPT !.pairs = [i \in DOMAIN @ |-> names(u, @[i])]])
        [] o.op = "escape" ->
             LET u == Uses(DefinesAll(w, o.mappings), AllOf(Firsts(Kept(w, o.mappings))))
             IN  Put(u, x, [o EXCEPT !.mappings = [i \in DOMAIN Kept(w, @) |-> names(u, Kept(w, @)[i])]])
        [] o.op = "subquery" ->   \* its own operators keep their variables
             Put(DefinesAll(w, o.mappings), x, [o EXCEPT !.mappings = DefinedColumns(w, Kept(w, @))])
        [] o.op = "extension" -> [w EXCEPT !.failed = TRUE]
        [] OTHER -> RewriteOperator(w, x)

\* sort_from_downstream
FromEnd(graph) ==
  LET height[x \in DOMAIN graph] ==
        LET next == {y \in DOMAIN graph : \E k \in DOMAIN graph[y].in : graph[y].in[k] = x}
        IN  1 + Max({0} \cup {height[y] : y \in next})
  IN  SetToSortSeq(DOMAIN graph, LAMBDA x, y : height[x] < height[y])

\* Relation subquery x, its variables its own: a work record, with the sources of the mappings.
OwnVariables(x) ==
  LET o == ops[x]
      start == [ops |-> o.graph, process |-> " of " \o ToString(x[1]), in_subquery |-> TRUE,
                context |-> Nothing, failed |-> FALSE]
      w == FoldLeft(RewriteIntermediate, Uses(start, AllOf(Firsts(o.mappings))), FromEnd(o.graph))
  IN  [w EXCEPT !.failed = @ \/ AnyUndefined(w)]

SubqueryTakenAsIs(w, x) ==   \* mutant: a copy shares the variables of its original
  [w EXCEPT !.ops = w.ops[x].graph @@ [@ EXCEPT ![x] = [op |-> "subquery", in |-> <<>>, mappings |-> w.ops[x].mappings]],
            !.work = @ \o InOrder(DOMAIN w.ops[x].graph),
            !.commands = Append(@, [kind |-> "relation", at |-> x, output |-> OutputOf(w.ops[x].graph)])]

SubqueryTakenWith(w, x, own) ==
  LET o == w.ops[x]
      graph == IF o.is_clone THEN own.ops ELSE o.graph
      mappings == IF o.is_clone THEN [i \in DOMAIN o.mappings |-> <<Rewritten(own, o.mappings[i][1]), o.mappings[i][2]>>] ELSE o.mappings
  IN  IF o.is_clone /\ own.failed THEN [w EXCEPT !.failed = TRUE]
      ELSE [w EXCEPT !.ops = graph @@ [@ EXCEPT ![x] = [op |-> "subquery", in |-> <<>>, mappings |-> mappings]],
                     !.work = @ \o InOrder(DOMAIN graph),
                     !.commands = Append(@, [kind |-> "relation", at |-> x, output |-> OutputOf(graph)])]
SubqueryTaken(w, x) == SubqueryTakenWith(w, x, OwnVariables(x))

-----------------------------------------------------------------------------
\* collector::collect

\* The operator with its expressions replaced; the commands met there are for its input.
Located(v, x, op) ==
  [v EXCEPT !.ops[x] = op, !.commands = [i \in DOMAIN @ |-> [at |-> x] @@ @[i]]]

\* What a join has in its keys and its condition is only reported.
JoinCollected(w, o) == ExpandedTerms(ExpandedKeys(w, "join", o.lower.keys \o o.upper.keys), "join", o.cond)

CollectedFrom(w, x) ==
  LET o == w.ops[x]
  IN  CASE o.op = "filter" -> LET v == ExpandedTerms(w, "filter", o.cond) IN Located(v, x, [o EXCEPT !.cond = v.value])
        [] o.op = "project" -> LET v == ExpandedKeys(w, "value", o.columns) IN Located(v, x, [o EXCEPT !.columns = v.value])
        [] o.op = "apply" -> LET v == ExpandedAll(w, "value", o.arguments) IN Located(v, x, [o EXCEPT !.arguments = v.value])
        [] o.op = "scan" -> ExpandedKeys(w, "scan", o.lower.keys \o o.upper.keys)
        [] o.op = "join" -> JoinCollected(w, o)
        [] o.op = "values" ->
             IF \A n \in DOMAIN o.table : SplitColumns(o.table[n]) = {} THEN w
             ELSE IF Len(o.table) = 1 THEN RowSplit(w, x, PlanId(1000 * x[1])) ELSE ValuesSplit(w, x)
        [] o.op = "subquery" -> SubqueryTaken(w, x)
        [] o.op = "extension" -> [w EXCEPT !.failed = TRUE]
        [] OTHER -> w   \* nothing to do

Collecting == Running("subqueries") /\ worklist # <<>>

CollectNext ==
  /\ Collecting
  /\ \E v \in {CollectedFrom([NoWork EXCEPT !.ops = ops], Head(worklist))} :
         /\ ops' = IF v.reported THEN ops ELSE v.ops
         /\ worklist' = Tail(worklist) \o v.work
         /\ commands' = commands \o v.commands
         /\ phase' = IF v.failed THEN "refused" ELSE IF v.reported THEN "reported" ELSE phase
  /\ UNCHANGED <<Others, todo, passVars>>

SubqueriesCollected ==
  /\ Running("subqueries") /\ worklist = <<>>
  /\ phase' = "commands"
  /\ UNCHANGED <<Others, ops, todo, passVars, normalizerVars>>

-----------------------------------------------------------------------------
\* process, for each command

\* find_output_port: what the command was for may be followed by a project by now.
End(x) ==
  LET end[y \in DOMAIN ops] == IF Followers(y) = {} THEN y ELSE end[CHOOSE z \in Followers(y) : TRUE]
  IN  end[x]

MarkedAll(n, command) ==   \* mutant: the marker is given to every row
  PlanId(n) :> [op |-> "project", in |-> <<End(command.output)>>, columns |-> <<[variable |-> command.marker, value |-> TrueValue]>>]
  @@ PlanId(n + 1) :> [op |-> "buffer", in |-> <<PlanId(n)>>]

\* The marker is given to one row of the subquery, if there is one.
MarkerOf(n, command) ==
  PlanId(n) :> [op |-> "project", in |-> <<End(command.output)>>, columns |-> <<[variable |-> command.marker, value |-> TrueValue]>>]
  @@ PlanId(n + 1) :> [op |-> "limit", in |-> <<PlanId(n)>>, count |-> 1, group_keys |-> <<>>, sort_keys |-> <<>>]

\* bypass: the join comes between operator x and what was before it.
JoinedBefore(graph, x, n, command, right) ==
  PlanId(n) :> [op |-> "join", in |-> <<graph[x].in[1], right>>, kind |-> command.kind,
                lower |-> Unbound, upper |-> Unbound, cond |-> command.cond, hint |-> "none"]
  @@ [graph EXCEPT ![x].in = <<PlanId(n)>>]

ProcessCommand ==
  /\ Running("commands") /\ commands # <<>>
  /\ LET command == Head(commands)
         x == command.at
         n == 100000 + 10 * Len(commands)
     IN  ops' = IF command.kind = "relation"
                  THEN [ops EXCEPT ![x] = [op |-> "project", in |-> <<End(command.output)>>,
                                           columns |-> [i \in DOMAIN ops[x].mappings |->
                                              [variable |-> ops[x].mappings[i][2], value |-> Reference(ops[x].mappings[i][1])]]]]
                ELSE IF command.marker = None THEN JoinedBefore(ops, x, n, command, End(command.output))
                ELSE JoinedBefore(MarkerOf(n + 1, command) @@ ops, x, n, command, PlanId(n + 2))
  /\ commands' = Tail(commands)
  /\ UNCHANGED <<Others, phase, todo, passVars, worklist>>

SubqueriesExpanded ==
  /\ Running("commands") /\ commands = <<>> /\ Then("aliases", ops)
  /\ UNCHANGED <<Others, passVars, normalizerVars>>

-----------------------------------------------------------------------------
\* The compiler: the normalizer, the optimizer, and the step plan builder.

CompilerVars == <<builderVars, passVars, normalizerVars>>

CompilerInit ==
  /\ \E plan \in Plans : Starts(plan, "subqueries")
  /\ worklist = InOrder(DOMAIN ops) /\ commands = <<>>
  /\ PassesInit

CompilerNext ==
  \/ CollectNext \/ SubqueriesCollected \/ ProcessCommand \/ SubqueriesExpanded
  \/ OptimizerNext /\ UNCHANGED normalizerVars
  \/ (BuilderNext \/ Returned) /\ UNCHANGED <<passVars, normalizerVars>>

CompilerSpec == CompilerInit /\ [][CompilerNext]_CompilerVars

-----------------------------------------------------------------------------

\* From the plan without subqueries to the finished step plan, every state with a meaning has
\* that of the plan given: for each row, a subquery was worth what the join in its place says.
\* While aliases are removed those below the operator that runs refer to nothing.
SameRowsCompiled ==
  /\ phase \in {"unused", "locals", "filters", "index joins", "join keys", "scans", "redundant"}
       \/ (phase = "aliases" /\ originals = Nothing /\ todo = DOMAIN ops) => SameRows
  /\ SameRowsThroughout

\* The expressions of an operator with what they are made of.
RECURSIVE Parts(_)
Parts(value) ==
  {value} \cup
    CASE value.is \in Unaries -> Parts(value.operand)
      [] value.is \in Binaries -> Parts(value.left) \cup Parts(value.right)
      [] value.is = "let" -> Parts(value.body) \cup UNION {Parts(c.value) : c \in Range(value.variables)}
      [] OTHER -> {}
PartsOf(o) ==
  CASE o.op \in {"filter", "join"} -> UNION {Parts(t.left) \cup Parts(t.right) : t \in o.cond}
    [] o.op = "project" -> UNION {Parts(c.value) : c \in Range(o.columns)}
    [] o.op = "apply" -> UNION {Parts(value) : value \in Range(o.arguments)}
    [] o.op = "values" -> UNION {Parts(cell) : cell \in UNION {Range(row) : row \in Range(o.table)}}
    [] o.op = "scan" -> UNION {Parts(k.value) : k \in Range(o.lower.keys \o o.upper.keys)}
    [] OTHER -> {}

\* What is left when the subqueries are gone is a plan any pass can take: no operator refers to a
\* subquery, and no two give the same variable, be they copies of one another.
SubqueriesGone ==
  phase = "aliases" /\ todo = DOMAIN ops =>
    /\ \A x \in DOMAIN ops : ops[x].op # "subquery" /\ \A v \in PartsOf(ops[x]) : v.is \notin Subqueries
    /\ \A x, y \in DOMAIN ops : x # y => Declared(ops[x]) \cap Declared(ops[y]) = {}

=============================================================================
