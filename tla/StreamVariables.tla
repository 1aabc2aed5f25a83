---------------------------- MODULE StreamVariables ----------------------------
(***************************************************************************)
(* rewrite_stream_variables: the last pass of the step plan builder.       *)
(*                                                                         *)
(* The steps are visited from downstream to upstream, and the operators of *)
(* a process from its ends to its head.  A use makes a variable known, its *)
(* definition renames it; a definition nobody uses is removed, and so is a *)
(* column of an exchange that no process downstream has touched.  Escapes  *)
(* go away first and leave aliases behind.                                 *)
(***************************************************************************)
EXTENDS ExchangeColumns

builderVars == <<vars, columnVars>>

-----------------------------------------------------------------------------
\* stream_variable_rewriter_context: the status of each variable it was told of, undefined until
\* its definition is met, or the variable it is an alias of.

Root(context, v) ==
  LET aliases == {u \in DOMAIN context : context[u].status = "alias"}
      root[u \in aliases] == IF context[u].variable \in aliases THEN root[context[u].variable] ELSE context[u].variable
  IN  IF v \in aliases THEN root[v] ELSE v

UsesAlias(w, vs) ==   \* mutant: an alias is used as a variable of its own
  [w EXCEPT !.context = [v \in vs \ DOMAIN w.context |-> [status |-> "undefined"]] @@ @]

\* rewrite_use, for some variables.  "use before define": the definition was met already.
Uses(w, vs) ==
  LET roots == {Root(w.context, v) : v \in vs}
  IN  [w EXCEPT !.context = [v \in roots \ DOMAIN @ |-> [status |-> "undefined"]] @@ @,
                !.failed = @ \/ \E v \in roots \cap DOMAIN w.context : w.context[v].status = "defined"]

\* Variable v of process p becomes <<p, v>>; the copies of a subquery, see SubqueryExpansion, keep
\* names that are strings.
NewName(w, v) == IF w.in_subquery THEN v \o w.process ELSE <<w.process, v>>
Rewritten(w, v) == NewName(w, Root(w.context, v))

\* try_rewrite_define: what is known must not be defined yet; the others may be removed.
IsUsed(w, v) == v \in DOMAIN w.context
Defines(w, v) ==
  IF ~ IsUsed(w, v) THEN w
  ELSE [w EXCEPT !.context[v] = [status |-> "defined"], !.failed = @ \/ w.context[v].status # "undefined"]

AnyUndefined(w) == \E v \in DOMAIN w.context : w.context[v].status = "undefined"
RaiseUndefined(w) == [w EXCEPT !.failed = @ \/ (~ w.in_subquery /\ AnyUndefined(w))]

\* remove_escape
Aliases(p) ==
  LET escapes == SelectSeq(Walk(p), LAMBDA x : ops[x].op = "escape")
  IN  FlattenSeq([i \in DOMAIN escapes |-> ops[escapes[i]].mappings])

\* The operator before x when the escapes are gone.
Before(x) ==
  LET before[y \in DOMAIN ops] == IF ops[y].op = "escape" THEN before[ops[y].in[1]] ELSE y
  IN  before[x]

-----------------------------------------------------------------------------
\* The operators of a process.  A work record holds the operators, the exchanges known, the
\* process, the context, and whether an exception was thrown.

RECURSIVE OperandUses(_)
OperandUses(value) ==
  CASE value.is = "column" -> {value.name}
    [] value.is \in Binaries -> OperandUses(value.left) \cup OperandUses(value.right)
    [] value.is \in Unaries -> OperandUses(value.operand)
    [] value.is = "let" -> UNION {OperandUses(value.variables[i].value) : i \in DOMAIN value.variables} \cup OperandUses(value.body)
    [] OTHER -> {}   \* local variables are no stream variables
KeyUses(keys) == UNION {OperandUses(keys[i].value) : i \in DOMAIN keys}
CondUses(cond) == UNION {OperandUses(t.left) \cup OperandUses(t.right) : t \in cond}

RECURSIVE RewrittenOperand(_, _)
RewrittenOperand(w, value) ==
  CASE value.is = "column" -> [value EXCEPT !.name = Rewritten(w, @)]
    [] value.is = "local" -> [value EXCEPT !.name = NewName(w, @)]
    [] value.is \in Unaries -> [value EXCEPT !.operand = RewrittenOperand(w, @)]
    [] value.is \in Binaries -> [value EXCEPT !.left = RewrittenOperand(w, @), !.right = RewrittenOperand(w, @)]
    [] value.is = "let" ->
         [value EXCEPT !.variables = [i \in DOMAIN @ |-> [variable |-> NewName(w, @[i].variable),
                                                         value |-> RewrittenOperand(w, @[i].value)]],
                       !.body = RewrittenOperand(w, @)]
    [] OTHER -> value
RewrittenKeys(w, keys) == [i \in DOMAIN keys |-> [keys[i] EXCEPT !.value = RewrittenOperand(w, @)]]
RewrittenCond(w, cond) ==
  {[t EXCEPT !.left = RewrittenOperand(w, @), !.right = RewrittenOperand(w, @)] : t \in cond}
RewrittenSources(w, columns) == [i \in DOMAIN columns |-> <<Rewritten(w, columns[i][1]), columns[i][2]>>]

Touched(w, e, columns) == [w EXCEPT !.infos[e].touched = @ \cup columns]

\* define_used_columns: the columns kept of those an operator reads from elsewhere.
Kept(w, columns) == SelectSeq(columns, LAMBDA c : IsUsed(w, c[2]))
DefinesAll(w, columns) == FoldLeft(LAMBDA v, c : Defines(v, c[2]), w, Kept(w, columns))
DefinedColumns(w, columns) == [i \in DOMAIN columns |-> <<columns[i][1], Rewritten(w, columns[i][2])>>]

Put(w, x, op) == [w EXCEPT !.ops[x] = op]

RewriteScan(w, x) ==
  LET columns == w.ops[x].columns
  IN  RaiseUndefined(Put(DefinesAll(w, columns), x, [w.ops[x] EXCEPT !.columns = DefinedColumns(w, Kept(w, columns))]))

\* The columns nobody uses leave the rows of the table, too.
RewriteValues(w, x) ==
  LET o == w.ops[x]
      kept == SelectSeq([i \in DOMAIN o.columns |-> i], LAMBDA i : IsUsed(w, o.columns[i]))
      only(row) == [i \in DOMAIN kept |-> row[kept[i]]]
      defined == FoldLeft(LAMBDA v, i : Defines(v, o.columns[i]), w, kept)
  IN  RaiseUndefined(Put(defined, x, [o EXCEPT !.columns = [i \in DOMAIN kept |-> Rewritten(w, o.columns[kept[i]])],
                                               !.table = [n \in DOMAIN @ |-> only(@[n])]]))

RewriteJoinReadUntouched(w, x) ==   \* mutant: the columns the keys search are not touched
  LET o == w.ops[x]
      keys == IF o.op = "join_find" THEN o.keys ELSE o.lower.keys \o o.upper.keys
      u == Uses(w, CondUses(o.cond) \cup KeyUses(keys))
      kept == Kept(u, o.columns)
      columns == [o EXCEPT !.cond = RewrittenCond(u, @), !.columns = DefinedColumns(u, kept)]
      op == IF o.op = "join_find" THEN [columns EXCEPT !.keys = RewrittenKeys(u, @)]
            ELSE [columns EXCEPT !.lower.keys = RewrittenKeys(u, @), !.upper.keys = RewrittenKeys(u, @)]
      done == Put(DefinesAll(u, o.columns), x, op)
  IN  IF o.source = Index THEN done ELSE Touched(done, o.source, AllOf(Firsts(kept)))

\* The columns its keys search are touched, be they used or not.
RewriteJoinRead(w, x) ==
  LET o == w.ops[x]
      keys == IF o.op = "join_find" THEN o.keys ELSE o.lower.keys \o o.upper.keys
      u == Uses(w, CondUses(o.cond) \cup KeyUses(keys))
      kept == Kept(u, o.columns)
      columns == [o EXCEPT !.cond = RewrittenCond(u, @), !.columns = DefinedColumns(u, kept)]
      op == IF o.op = "join_find" THEN [columns EXCEPT !.keys = RewrittenKeys(u, @)]
            ELSE [columns EXCEPT !.lower.keys = RewrittenKeys(u, @), !.upper.keys = RewrittenKeys(u, @)]
      done == Put(DefinesAll(u, o.columns), x, op)
  IN  IF o.source = Index THEN done
      ELSE Touched(done, o.source, AllOf(Firsts(kept)) \cup {keys[i].column : i \in DOMAIN keys})

RewriteApply(w, x) ==
  LET o == w.ops[x]
      u == Uses(w, UNION {OperandUses(o.arguments[i]) : i \in DOMAIN o.arguments})
      kept == SelectSeq(o.columns, LAMBDA v : IsUsed(u, v))
  IN  Put(FoldLeft(Defines, u, kept), x,
          [o EXCEPT !.arguments = [i \in DOMAIN @ |-> RewrittenOperand(u, @[i])],
                    !.columns = [i \in DOMAIN kept |-> Rewritten(u, kept[i])]])

ProjectColumn(w, x, c) ==
  LET d == Uses(Defines(w, c.variable), OperandUses(c.value))
      column == [variable |-> Rewritten(w, c.variable), value |-> RewrittenOperand(d, c.value)]
  IN  IF IsUsed(w, c.variable) THEN [d EXCEPT !.ops[x].columns = <<column>> \o @] ELSE w

ProjectFromFront(w, x) ==   \* mutant: a column is visited before those that use it
  FoldLeft(LAMBDA v, c : ProjectColumn(v, x, c), [w EXCEPT !.ops[x].columns = <<>>], w.ops[x].columns)

\* From the last column to the first, as a column may use those before it.
RewriteProject(w, x) ==
  FoldRight(LAMBDA c, v : ProjectColumn(v, x, c), w.ops[x].columns, [w EXCEPT !.ops[x].columns = <<>>])

RewriteAggregate(w, x) ==
  LET o == w.ops[x]
      kept == SelectSeq(o.columns, LAMBDA c : IsUsed(w, c.destination))
      u == FoldLeft(LAMBDA v, c : Uses(Defines(v, c.destination), AllOf(c.arguments)), w, kept)
      rewrite(c) == [destination |-> Rewritten(w, c.destination),
                     arguments |-> [i \in DOMAIN c.arguments |-> Rewritten(u, c.arguments[i])]]
  IN  Put(u, x, [o EXCEPT !.columns = [i \in DOMAIN kept |-> rewrite(kept[i])]])

RewriteCond(w, x) ==
  LET u == Uses(w, CondUses(w.ops[x].cond)) IN Put(u, x, [w.ops[x] EXCEPT !.cond = RewrittenCond(u, @)])

RewriteEmit(w, x) ==
  LET u == Uses(w, AllOf(Firsts(w.ops[x].columns)))
  IN  Put(u, x, [w.ops[x] EXCEPT !.columns = RewrittenSources(u, @)])

RewriteWrite(w, x) ==
  LET u == Uses(w, AllOf(Firsts(w.ops[x].keys \o w.ops[x].columns)))
  IN  Put(u, x, [w.ops[x] EXCEPT !.keys = RewrittenSources(u, @), !.columns = RewrittenSources(u, @)])

RewriteTake(w, x) ==
  LET o == w.ops[x]
      kept == Kept(w, o.columns)
  IN  RaiseUndefined(Touched(Put(DefinesAll(w, o.columns), x, [o EXCEPT !.columns = DefinedColumns(w, kept)]),
                             o.source, AllOf(Firsts(kept))))

RewriteTakeCogroup(w, x) ==
  LET take(v, k) ==
        LET o == v.ops[x].groups[k]
            kept == Kept(v, o.columns)
        IN  Touched([DefinesAll(v, o.columns) EXCEPT !.ops[x].groups[k].columns = DefinedColumns(v, kept)],
                    o.source, AllOf(Firsts(kept)))
  IN  RaiseUndefined(FoldLeft(take, w, [k \in DOMAIN w.ops[x].groups |-> k]))

RewriteOffer(w, x) ==
  LET o == w.ops[x]
      kept == SelectSeq(o.columns, LAMBDA c : c[2] \in w.infos[o.to].touched)
      u == Uses(w, AllOf(Firsts(kept)))
  IN  Put(u, x, [o EXCEPT !.columns = RewrittenSources(u, kept)])

RewriteOperator(w, x) ==
  LET o == w.ops[x]
  IN  CASE o.op \in {"find", "scan"} -> RewriteScan(w, x)
        [] o.op = "values" -> RewriteValues(w, x)
        [] o.op \in {"join_find", "join_scan"} -> RewriteJoinRead(w, x)
        [] o.op = "apply" -> RewriteApply(w, x)
        [] o.op = "project" -> RewriteProject(w, x)
        [] o.op \in {"filter", "step_join"} -> RewriteCond(w, x)
        \* an identifier nobody uses stays, under a name that does not matter
        [] o.op = "identify" -> Put(Defines(w, o.variable), x, [o EXCEPT !.variable = Rewritten(w, @)])
        [] o.op = "emit" -> RewriteEmit(w, x)
        [] o.op = "write" -> RewriteWrite(w, x)
        [] o.op = "step_aggregate" -> RewriteAggregate(w, x)
        [] o.op \in {"take_flat", "take_group"} -> RewriteTake(w, x)
        [] o.op = "take_cogroup" -> RewriteTakeCogroup(w, x)
        [] o.op = "offer" -> RewriteOffer(w, x)
        [] OTHER -> w   \* buffer, flatten and the set operators refer to no columns

RewriteProcess(p) ==
  /\ phase = "variables" /\ p \in DOMAIN processes \ visited
  /\ links[p].downstreams \subseteq visited
  /\ LET aliases == Aliases(p)
         kept == [x \in {x \in DOMAIN ops : ~ (x \in processes[p] /\ ops[x].op = "escape")} |->
                    [ops[x] EXCEPT !.in = [k \in DOMAIN @ |-> Before(@[k])]]]
         start == [ops |-> kept, infos |-> infos, process |-> p, in_subquery |-> FALSE,
                   context |-> [v \in AllOf(Seconds(aliases)) |->
                                  [status |-> "alias", variable |-> (CHOOSE a \in AllOf(aliases) : a[2] = v)[1]]],
                   failed |-> \E i, j \in DOMAIN aliases : i < j /\ aliases[i][2] = aliases[j][2]]
         w == FoldRight(LAMBDA x, v : IF v.failed THEN v ELSE RewriteOperator(v, x),
                        SelectSeq(Walk(p), LAMBDA x : x \in DOMAIN kept), start)
     IN  IF w.failed THEN phase' = "broken" /\ UNCHANGED <<ops, infos, visited, processes>>
         ELSE /\ ops' = w.ops /\ infos' = w.infos /\ visited' = visited \cup {p}
              /\ processes' = [processes EXCEPT ![p] = @ \cap DOMAIN kept]
              /\ UNCHANGED phase
  /\ UNCHANGED <<features, wanted, todo, exchanges, links>>

-----------------------------------------------------------------------------
\* The exchanges

Retain(columns, touched) == SelectSeq(columns, LAMBDA c : c \in touched)

\* The keys are retained; an aggregate exchange also drops the functions nobody asks for, and
\* then needs of its sources what is left of them.
RewriteExchange(e) ==
  /\ phase = "variables" /\ e \in DOMAIN exchanges \ visited
  /\ \A p \in DOMAIN links : e \in links[p].upstreams => p \in visited
  /\ LET step == exchanges[e]
         keys == IF step.kind \in {"group", "aggregate"} THEN AllOf(step.group_keys) ELSE {}
         touched == infos[e].touched \cup keys \cup (IF step.kind = "group" THEN AllOf(step.sort_keys) ELSE {})
         asked == SelectSeq(step.aggregations, LAMBDA a : a.destination \in touched)
         needed == keys \cup UNION {AllOf(asked[i].arguments) : i \in DOMAIN asked}
         retained == [step EXCEPT !.columns = Retain(@, touched)]
     IN  IF step.kind = "aggregate"
           THEN /\ exchanges' = [exchanges EXCEPT ![e] = [retained EXCEPT !.aggregations = asked,
                                                                          !.source_columns = Retain(@, needed)]]
                /\ infos' = [infos EXCEPT ![e].touched = needed]
           ELSE /\ exchanges' = [exchanges EXCEPT ![e] = retained]
                /\ infos' = [infos EXCEPT ![e].touched = touched]
  /\ visited' = visited \cup {e}
  /\ UNCHANGED <<ops, features, wanted, todo, processes, links, phase>>

VariablesRewritten ==
  /\ phase = "variables" /\ visited = DOMAIN processes \cup DOMAIN exchanges
  /\ phase' = "built"
  /\ UNCHANGED <<ops, features, wanted, todo, exchanges, processes, links, infos, visited>>

-----------------------------------------------------------------------------
\* step_plan_builder

BuilderNext ==
  \/ Next /\ UNCHANGED columnVars
  \/ ColumnsNext
  \/ \E p \in DOMAIN processes : RewriteProcess(p)
  \/ \E e \in DOMAIN exchanges : RewriteExchange(e)
  \/ VariablesRewritten

\* The builder returns the step plan, or the refusal; anywhere else a state without a step is a deadlock.
Returned == phase \in {"built", "refused", "reported", "unordered"} /\ UNCHANGED builderVars

BuilderSpec == ColumnsInit /\ [][BuilderNext \/ Returned]_builderVars

-----------------------------------------------------------------------------

\* From the intermediate plan to the finished one every state with a meaning has the same: the
\* sinks get the same rows, with the same values in the columns they ask for, through exchanges
\* that first pass on everything and in the end only what was found to be used.
SameRowsThroughout ==
  /\ phase \in {"exchanges", "processes", "relations", "done"} => SameRows
  /\ phase = "built" \/ (phase = "variables" /\ visited = {}) => RowsOf(ops, exchanges, TRUE) = wanted

TakenFrom(e) ==
  UNION {LET o == ops[x]
         IN  CASE o.op \in {"take_flat", "take_group"} /\ o.source = e -> AllOf(Firsts(o.columns))
               [] o.op = "take_cogroup" ->
                    UNION {AllOf(Firsts(o.groups[k].columns)) : k \in {k \in DOMAIN o.groups : o.groups[k].source = e}}
               [] o.op = "join_find" /\ o.source = e ->
                    AllOf(Firsts(o.columns)) \cup {o.keys[i].column : i \in DOMAIN o.keys}
               [] o.op = "join_scan" /\ o.source = e ->
                    AllOf(Firsts(o.columns))
                    \cup {(o.lower.keys \o o.upper.keys)[i].column : i \in DOMAIN (o.lower.keys \o o.upper.keys)}
               [] OTHER -> {} : x \in DOMAIN ops}

\* The columns exchange e itself looks at, and those it has to be given.
Inside(e) ==
  LET step == exchanges[e]
  IN  (IF step.kind \in {"group", "aggregate"} THEN AllOf(step.group_keys) ELSE {})
      \cup (IF step.kind = "group" THEN AllOf(step.sort_keys) ELSE {})
Asked(e) ==
  Inside(e) \cup AllOf(IF exchanges[e].kind = "aggregate" THEN exchanges[e].source_columns ELSE exchanges[e].columns)

\* The columns of a finished plan are those in use, no more and no less: an exchange has each
\* column that is taken from it and every other one it has is a key of its own; each offer fills
\* what the exchange asks for and nothing else.  Only a union may lack a column on one side.
CarriesWhatIsUsed ==
  phase = "built" =>
    \A e \in DOMAIN exchanges :
      LET offers == {x \in DOMAIN ops : ops[x].op = "offer" /\ ops[x].to = e}
          offered(x) == AllOf(Seconds(ops[x].columns))
      IN  /\ TakenFrom(e) \subseteq AllOf(exchanges[e].columns)
          /\ AllOf(exchanges[e].columns) \subseteq TakenFrom(e) \cup Inside(e)
          /\ UNION {offered(x) : x \in offers} = Asked(e)
          /\ exchanges[e].kind # "forward" => \A x \in offers : offered(x) = Asked(e)

\* No pass meets a graph it finds broken, a column nobody gave, a variable that is used before its
\* definition, defined twice or not at all.
NeverBroken == phase # "broken"

=============================================================================
