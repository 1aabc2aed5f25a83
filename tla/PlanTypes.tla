------------------------------ MODULE PlanTypes ------------------------------
(***************************************************************************)
(* The compiler resolves the types of a plan twice: first those of the     *)
(* plan it is given, then, with nothing remembered, those of the step plan *)
(* made of it.  It goes by what was reported and not by what resolve       *)
(* returns.                                                                *)
(*                                                                         *)
(* The passes between never look at a type, so that the types of columns,  *)
(* literals, host variables and functions are chosen when they are over;   *)
(* a plan whose types are refused at first has been taken through them for *)
(* nothing.  Expressions are those of StepMeaning: a column, a comparison  *)
(* or a sum stands for any of its kind.                                    *)
(***************************************************************************)
EXTENDS SubqueryExpansion

CONSTANTS Typings,       \* what the types may be, one of them for all that is the same in a plan
          Restrictions   \* what a runtime may have restricted, sets of features

VARIABLES given,     \* the plan as it was given
          typing,    \* the types chosen
          analyses   \* what each resolve has found, in order

typeVars == <<given, typing, analyses>>

T == INSTANCE ExpressionTypes

\* What the engine knows: variable_mapping, whether something was reported, whether it gave up;
\* and the type of the expression resolved last.  An exception ends everything.
Clear == [types |-> Nothing, reported |-> FALSE, failed |-> FALSE, thrown |-> FALSE, type |-> T!Unknown]

Gives(w, r) == [w EXCEPT !.type = r.type, !.reported = @ \/ r.reports > 0]
Binds(w, v, type) == [w EXCEPT !.types = (v :> type) @@ @]
BindsAll(w, vs, type) == [w EXCEPT !.types = [v \in vs |-> type] @@ @]
GivesUp(w) == [w EXCEPT !.failed = TRUE]
ReportsAndGivesUp(w) == [w EXCEPT !.reported = TRUE, !.failed = TRUE]
RequiresSilently(w, ok) == IF ok THEN w ELSE GivesUp(w)   \* mutant: nothing is reported
Requires(w, ok) == IF ok THEN w ELSE ReportsAndGivesUp(w)
Each(w, resolve(_, _), xs) == FoldLeft(LAMBDA v, x : IF v.failed THEN v ELSE resolve(v, x), w, xs)

\* Whatever is before a thing, and then the thing.
InOrderOf(things, before(_)) ==
  LET rank[x \in things] == 1 + Max({0} \cup {rank[y] : y \in before(x)})
  IN  FlattenSeq([r \in 1 .. Max({0} \cup Range(rank)) |-> SetToSeq({x \in things : rank[x] = r})])

-----------------------------------------------------------------------------
\* Scalar expressions

UnaryTyped(v, op) == Gives(v, IF op = "is_null" THEN T!is_null(v.type) ELSE T!Truth3(v.type))
BinaryTyped(left, v, op) == Gives(v, IF op = "sum" THEN T!add(left, v.type) ELSE T!conditional_and(left, v.type))
CompareTyped(l, cmp, right) == Gives(l, T!compare(cmp, l.type, right))
VariableTyped(v, name) == Gives(v, T!variable_reference(v.types, name))
DeclaredLocal(v, d) == Binds(v, d.variable, v.type)

RECURSIVE TypeOf(_, _, _), OperatorTyped(_, _, _), ResolvedGraph(_, _, _)
TypeOf(w, t, value) ==
  LET binary(l) == BinaryTyped(l.type, TypeOf(l, t, value.right), value.is)
      declared(u, d) == DeclaredLocal(TypeOf(u, t, d.value), d)
      answered(v) ==   \* a subquery that cannot be resolved is no more than a value of no type
        IF value.is = "exists" THEN [v EXCEPT !.failed = w.failed, !.type = T!Just("boolean")]
        ELSE IF v.failed THEN [v EXCEPT !.failed = w.failed, !.type = T!Error]
        ELSE IF value.is = "subquery" THEN VariableTyped(v, value.column)
        ELSE CompareTyped(TypeOf(v, t, value.left), value.cmp, v.types[value.column])
  IN  CASE value.is = "constant" -> Gives(w, T!immediate(t.literal, t.constant))
        [] value.is = "true" -> Gives(w, T!immediate("boolean", T!Just("boolean")))
        [] value.is = "host" -> Gives(w, T!external_variable(t.host))
        [] value.is \in {"column", "local"} -> VariableTyped(w, value.name)
        [] value.is \in Unaries -> UnaryTyped(TypeOf(w, t, value.operand), value.is)
        [] value.is \in Binaries -> binary(TypeOf(w, t, value.left))
        [] value.is = "let" -> TypeOf(FoldLeft(declared, w, value.variables), t, value.body)
        [] value.is \in {"subquery", "exists", "quantified"} -> answered(ResolvedGraph(w, t, value.graph))

\* Each term of a condition: a comparison, or a predicate; see IsPredicate.
TermTyped(w, t, term) ==
  LET compared(left, r) == CompareTyped([r EXCEPT !.type = left], term.cmp, r.type)
      tested(l) == IF term.right = TrueValue THEN UnaryTyped(l, "is_true") ELSE compared(l.type, TypeOf(l, t, term.right))
  IN  tested(TypeOf(w, t, term.left))
ConditionTyped(w, t, cond) == FoldLeft(LAMBDA v, term : TermTyped(v, t, term), w, SetToSeq(cond))   \* validate_condition

ArgumentTypes(w, t, arguments) ==   \* a work record, and the types
  FoldLeft(LAMBDA u, x : LET v == TypeOf(u[1], t, x) IN <<v, Append(u[2], v.type)>>, <<w, <<>>>>, arguments)

-----------------------------------------------------------------------------
\* Relation operators of the given plan

\* resolve_external_relation_column: of a table, or of an exchange, where it must be known
Searched(w, t, source, column) ==
  IF source = Index THEN t.columns[column] ELSE IF column \in DOMAIN w.types THEN w.types[column] ELSE T!Error

\* resolve_read_like, resolve_exchange_columns
ColumnRead(w, type, v) == IF T!Unresolved(type) THEN ReportsAndGivesUp(w) ELSE Binds(w, v, type)
ColumnsRead(w, t, source, columns) == Each(w, LAMBDA v, c : ColumnRead(v, Searched(v, t, source, c[1]), c[2]), columns)

KeyTyped(v, column, ordered) ==
  IF T!Unresolved(v.type) \/ T!Unresolved(column) THEN GivesUp(v) ELSE Requires(v, T!search_key(v.type, column, ordered))

\* validate_keys: the last key of a range has to have an order.
KeysTyped(w, t, source, keys, range) ==
  Each(w, LAMBDA v, i : KeyTyped(TypeOf(v, t, keys[i].value), Searched(v, t, source, keys[i].column), range /\ i = Len(keys)),
       [i \in DOMAIN keys |-> i])

CellTyped(u, v) ==
  LET unified(type) == IF T!Unresolved(type) THEN ReportsAndGivesUp(v) ELSE [v EXCEPT !.common = type]
  IN  IF T!Unresolved(v.type) THEN GivesUp(v) ELSE unified(IF u.common = None THEN v.type ELSE T!Unify(u.common, v.type))
ValuesTyped(w, t, o) ==
  LET column(v, i) ==
        LET u == Each([common |-> None] @@ v, LAMBDA x, n : CellTyped(x, TypeOf(x, t, o.table[n][i])), [n \in DOMAIN o.table |-> n])
        IN  Binds(u, o.columns[i], IF u.common = None THEN T!Unknown ELSE u.common)
  IN  IF \E n \in DOMAIN o.table : Len(o.table[n]) # Len(o.columns) THEN ReportsAndGivesUp(w)
      ELSE Each(w, column, [i \in DOMAIN o.columns |-> i])

\* The columns of the table a table function gives.
ApplyTyped(w, t, o) ==
  LET bound == [w EXCEPT !.types = [v \in Range(o.columns) |->
                   LET i == CHOOSE i \in DOMAIN o.columns : o.columns[i] = v
                   IN  IF i \in DOMAIN t.table.columns THEN t.table.columns[i] ELSE T!Error] @@ @]
      called(u) == Requires(u[1], T!ArgumentsFit(t.table, u[2]))
  IN  IF Len(o.columns) > Len(t.table.columns) THEN ReportsAndGivesUp(bound)
      ELSE IF ~ T!DeclaredAs(t.table, "table_valued_function") THEN ReportsAndGivesUp(bound)
      ELSE called(ArgumentTypes(bound, t, o.arguments))

ColumnProjected(v, c) == IF v.type = T!Error THEN GivesUp(v) ELSE Binds(v, c.variable, v.type)
ProjectTyped(w, t, o) == Each(w, LAMBDA v, c : ColumnProjected(TypeOf(v, t, c.value), c), o.columns)

\* resolve_stream_column: a column that is not known is reported, one without a type is not.
StreamColumn(w, v) ==
  LET resolved(u) == IF T!Unresolved(u.type) THEN GivesUp(u) ELSE u
  IN  resolved(VariableTyped(w, v))
Known(w, v, next(_)) ==
  LET resolved(u) == IF u.failed THEN u ELSE next(u)
  IN  resolved(StreamColumn(w, v))

\* The types of group keys have an equality, those of sort keys an order.
GroupKeys(w, keys) ==
  Each(w, LAMBDA v, key : Known(v, key, LAMBDA u : Requires(u, T!is_equality_comparable(u.type))), keys)
SortKeys(w, keys) ==
  Each(w, LAMBDA v, key : Known(v, key, LAMBDA u : Requires(u, T!is_order_comparable(u.type))), keys)

\* resolve_aggregate_columns: another number of parameters is not reported.
Parameters(t, arguments) == IF arguments = <<>> THEN <<>> ELSE t.parameters
FunctionTyped(w, t, c) ==
  IF Len(Parameters(t, c.arguments)) # Len(c.arguments) \/ \E i \in DOMAIN c.arguments : w.types[c.arguments[i]] = T!Error
    THEN GivesUp(w)
  ELSE Binds(Requires(w, \A i \in DOMAIN c.arguments :
                T!is_assignment_convertible(w.types[c.arguments[i]], t.parameters[i]) # "no"), c.destination, t.result)
FunctionsTyped(w, t, columns) == Each(w, LAMBDA v, c : FunctionTyped(v, t, c), columns)

\* The common type of two variables: of a union, of the keys of a set operator.
OfType(w, type, distinct) ==
  [Requires(w, type # T!Error /\ (distinct => T!is_equality_comparable(type))) EXCEPT !.type = type]
Paired(w, left, right, distinct) ==
  IF T!Unresolved(w.types[left]) \/ T!Unresolved(w.types[right]) THEN GivesUp(w)
  ELSE OfType(w, T!Unify(w.types[left], w.types[right]), distinct)
MappingTyped(w, distinct, m) ==
  LET bound(v) == IF v.failed THEN v ELSE Binds(v, m.destination, v.type)
  IN  bound(CASE m.right = "none" -> OfType(w, w.types[m.left], distinct)
              [] m.left = "none" -> OfType(w, w.types[m.right], distinct)
              [] OTHER -> Paired(w, m.left, m.right, distinct))

\* intersection, difference: the keys rows are matched by
SetOperatorTyped(w, o) == Each(w, LAMBDA v, pair : Paired(v, pair[1], pair[2], TRUE), o.pairs)

EmitTyped(w, o) == Each(w, LAMBDA v, c : StreamColumn(v, c[1]), o.columns)

\* validate_table_write
Written(w, t, columns) ==
  Each(w, LAMBDA v, c : Known(v, c[1], LAMBDA u : Requires(u, T!is_assignment_convertible(u.type, t.written) = "yes")), columns)
WriteTyped(w, t, o) == Each(w, LAMBDA v, columns : Written(v, t, columns), <<o.keys, o.columns>>)

-----------------------------------------------------------------------------
\* Relation operators of a step plan

\* step::offer: a column several processes offer gets the common type of all.
ColumnOffered(w, c) ==
  LET offered(type) == Binds([w EXCEPT !.reported = @ \/ type = T!Error], c[2], type)
  IN  IF T!Unresolved(w.types[c[1]]) THEN GivesUp(w)
      ELSE offered(IF c[2] \in DOMAIN w.types THEN T!Unify(w.types[c[1]], w.types[c[2]]) ELSE w.types[c[1]])

\* step::take_cogroup: the keys of all groups become of one type.
CogroupKey(w, left, right) ==
  LET unified(type) == IF type = T!Error THEN ReportsAndGivesUp(w) ELSE BindsAll(w, {left, right}, type)
  IN  IF w.types[left] = w.types[right] THEN w ELSE unified(T!Unify(w.types[left], w.types[right]))
CogroupTyped(w, groups) ==
  LET keys(k) == exchanges[groups[k].source].group_keys
      unified == Each(w, LAMBDA v, i : CogroupKey(v, keys(1)[i], keys(2)[i]), [i \in DOMAIN keys(1) |-> i])
  IN  IF Len(keys(1)) # Len(keys(2)) THEN ReportsAndGivesUp(w)
      ELSE Each(unified, LAMBDA v, k : ColumnsRead(v, Nothing, groups[k].source, groups[k].columns), <<1, 2>>)

-----------------------------------------------------------------------------

\* find, scan, join_find, join_scan: the columns, the search keys
SearchTyped(w, t, o, source) ==
  Each(ColumnsRead(w, t, source, o.columns), LAMBDA v, keys : KeysTyped(v, t, source, keys, "lower" \in DOMAIN o),
       IF "lower" \in DOMAIN o THEN <<o.upper.keys, o.lower.keys>> ELSE <<o.keys>>)

\* The join operators and filter: what they search, and the condition
ConditionalTyped(w, t, o) ==
  LET searched == IF o.op \in {"join_find", "join_scan"} THEN SearchTyped(w, t, o, o.source) ELSE w
  IN  IF searched.failed THEN searched ELSE ConditionTyped(searched, t, o.cond)

\* A relation subquery: its operators, and then the names they give its columns outside.
MappingsTyped(w, o) == Each(w, LAMBDA v, m : Known(v, m[1], LAMBDA u : Binds(u, m[2], u.type)), o.mappings)
SubqueryTyped(w, t, o) ==
  LET mapped(v) == IF v.failed THEN v ELSE MappingsTyped(v, o)
  IN  mapped(ResolvedGraph(w, t, o.graph))

Conditionals == {"join_find", "join_scan", "join", "filter", "step_join"}
OperatorTyped(w, t, o) ==
  LET then(v, next(_)) == IF v.failed THEN v ELSE next(v)
      sorted(v) == IF o.op = "limit" THEN then(v, LAMBDA u : SortKeys(u, o.sort_keys)) ELSE v
      functions(v) == then(v, LAMBDA u : FunctionsTyped(u, t, o.columns))
  IN  CASE o.op \in {"find", "scan"} -> SearchTyped(w, t, o, Index)
        [] o.op \in Conditionals -> ConditionalTyped(w, t, o)
        [] o.op = "values" -> ValuesTyped(w, t, o)
        [] o.op = "apply" -> ApplyTyped(w, t, o)
        [] o.op = "project" -> ProjectTyped(w, t, o)
        [] o.op = "identify" -> Binds(w, o.variable, t.identity)
        [] o.op \in {"aggregate", "step_aggregate"} -> functions(IF o.op = "aggregate" THEN GroupKeys(w, o.group_keys) ELSE w)
        [] o.op \in {"distinct", "limit"} -> sorted(GroupKeys(w, o.group_keys))
        [] o.op = "union" -> Each(w, LAMBDA v, m : MappingTyped(v, o.quantifier = "distinct", m), o.mappings)
        [] o.op \in {"intersection", "difference"} -> SetOperatorTyped(w, o)
        [] o.op = "subquery" -> SubqueryTyped(w, t, o)
        [] o.op = "emit" -> EmitTyped(w, o)
        [] o.op = "write" -> WriteTyped(w, t, o)
        [] o.op = "offer" -> Each(w, ColumnOffered, o.columns)
        [] o.op \in {"take_flat", "take_group"} -> ColumnsRead(w, t, o.source, o.columns)
        [] o.op = "take_cogroup" -> CogroupTyped(w, o.groups)
        [] o.op \in {"buffer", "flatten", "step_intersection", "step_difference"} -> w
        [] o.op \in {"escape", "extension"} -> [w EXCEPT !.thrown = TRUE, !.failed = TRUE]   \* no resolver

\* A plan: sources before what reads them.
ResolvedGraph(w, t, graph) ==
  Each(w, LAMBDA v, x : OperatorTyped(v, t, graph[x]), InOrderOf(DOMAIN graph, LAMBDA x : Range(graph[x].in)))

\* validate_exchange_group_column, validate_exchange_sort_column
ExchangeKeys(w, keys, test(_)) ==
  LET checked(v, type) == IF type = T!Error THEN GivesUp(v) ELSE Requires(v, test(type))
  IN  Each(w, LAMBDA v, key : IF key \in DOMAIN v.types THEN checked(v, v.types[key]) ELSE ReportsAndGivesUp(v), keys)
GroupColumns(w, keys) == ExchangeKeys(w, keys, LAMBDA type : T!is_equality_comparable(type))
SortColumns(w, keys) == ExchangeKeys(w, keys, LAMBDA type : T!is_order_comparable(type))

\* plan::forward, group, aggregate, broadcast: every column has been offered.
ExchangeTyped(w, t, e) ==
  LET offered(v, columns) == [v EXCEPT !.reported = @ \/ \E i \in DOMAIN columns : columns[i] \notin DOMAIN v.types]
      then(v, next(_)) == IF v.failed THEN v ELSE next(v)
      grouped(v) == then(v, LAMBDA u : GroupColumns(offered(u, e.source_columns), e.group_keys))
  IN  CASE e.kind \in {"forward", "broadcast"} -> offered(w, e.columns)
        [] e.kind = "group" -> then(GroupColumns(offered(w, e.columns), e.group_keys), LAMBDA v : SortColumns(v, e.sort_keys))
        [] e.kind = "aggregate" -> then(grouped(FunctionsTyped(w, t, e.aggregations)), LAMBDA v : offered(v, e.columns))

StepTyped(w, t, s) ==
  IF s \in DOMAIN exchanges THEN ExchangeTyped(w, t, exchanges[s])
  ELSE Each(w, LAMBDA v, x : OperatorTyped(v, t, ops[x]), Walk(s))

StepsBefore(s) == IF s \in DOMAIN exchanges THEN {p \in DOMAIN links : s \in links[p].downstreams} ELSE links[s].upstreams
ResolvedSteps(t) ==
  Each(Clear, LAMBDA v, s : StepTyped(v, t, s), InOrderOf(DOMAIN exchanges \cup DOMAIN processes, StepsBefore))

-----------------------------------------------------------------------------
\* restricted_feature: operators and exchanges that a runtime has not got.

FeatureOf == [buffer |-> "buffer", identify |-> "identify", join_find |-> "join_find", join_scan |-> "join_scan", apply |-> "apply",
          values |-> "values", flatten |-> "flatten", step_difference |-> "difference", step_intersection |-> "intersection",
          write |-> "write_insert"]   \* every write inserts
MatchFeatures(o) ==
  IF o.op \in {"join_find", "join_scan", "step_join"} /\ o.kind \in {"semi", "anti"} THEN {o.kind \o "_join"} ELSE {}
OperatorFeatures(o) == MatchFeatures(o) \cup {FeatureOf[name] : name \in {o.op} \cap DOMAIN FeatureOf}
ExchangeFeatures(e) == {"exchange_" \o e.kind}

\* The features of a step plan.
FeaturesUsed ==
  UNION ({OperatorFeatures(ops[x]) : x \in DOMAIN ops} \cup {ExchangeFeatures(exchanges[e]) : e \in DOMAIN exchanges})

-----------------------------------------------------------------------------
\* compile

\* resolve, and what the compiler goes by.
Concluded(w) == CASE w.thrown -> "thrown" [] w.reported /\ ~ w.thrown -> "ill typed" [] OTHER -> "typed"

ResolvePlan ==
  /\ phase = "built"
  /\ \E t \in Typings : \E w \in {ResolvedGraph(Clear, t, given)} :
       typing' = t /\ analyses' = <<w>> /\ phase' = Concluded(w)
  /\ UNCHANGED <<given, Others, ops, todo, passVars, normalizerVars>>

\* collect_restricted_features
CheckRestricted ==
  /\ phase = "typed"
  /\ \E restricted \in Restrictions : phase' = IF restricted \cap FeaturesUsed = {} THEN "allowed" ELSE "restricted"
  /\ UNCHANGED <<typeVars, Others, ops, todo, passVars, normalizerVars>>

ResolveStatement ==
  /\ phase = "allowed"
  /\ \E w \in {ResolvedSteps(typing)} : analyses' = Append(analyses, w) /\ phase' = IF Concluded(w) = "typed" THEN "compiled" ELSE Concluded(w)
  /\ UNCHANGED <<given, typing, Others, ops, todo, passVars, normalizerVars>>

TypesInit == CompilerInit /\ given = ops /\ typing = None /\ analyses = <<>>

TypesNext ==
  \/ CompilerNext /\ UNCHANGED typeVars
  \/ ResolvePlan \/ CheckRestricted \/ ResolveStatement
  \/ phase \in {"thrown", "ill typed", "restricted", "compiled"} /\ UNCHANGED <<CompilerVars, typeVars>>

TypesSpec == TypesInit /\ [][TypesNext]_<<CompilerVars, typeVars>>

-----------------------------------------------------------------------------

\* The search keys of a finished plan with the type of the column each is compared with: a value
\* that cannot be assigned to it, or that has no order at the end of a range.
HardKeys ==
  LET w == Last(analyses)
      keysOf(o) == IF o.op \in {"find", "join_find"} THEN o.keys ELSE IF o.op \in {"scan", "join_scan"} THEN o.lower.keys \o o.upper.keys ELSE <<>>
      source(o) == IF o.op \in {"join_find", "join_scan"} THEN o.source ELSE Index
  IN  \E x \in DOMAIN ops : \E i \in DOMAIN keysOf(ops[x]) :
        LET value == TypeOf([w EXCEPT !.failed = FALSE], typing, keysOf(ops[x])[i].value).type
            column == Searched(w, typing, source(ops[x]), keysOf(ops[x])[i].column)
        IN  \/ T!is_assignment_convertible(value, column) = "no"
            \/ ops[x].op \in {"scan", "join_scan"} /\ ~ T!is_order_comparable(value)

\* The aggregate functions of a plan are declared with another number of parameters than they are given.
Miscounted == Len(typing.parameters) # 1

\* A plan whose types are accepted is compiled, and what its sinks get has the types the given plan
\* says, whatever subqueries, joins and exchanges have become of it: no key two groups are matched
\* by changes the column it was made of.  Only a comparison may turn out to be none an index or a
\* join can search by, though it can be evaluated.
TypesKept ==
  Len(analyses) = 2 /\ ~ analyses[1].failed /\ ~ Miscounted =>
    IF analyses[2].failed THEN HardKeys
    ELSE \A x \in DOMAIN given : given[x].op = "emit" =>
           \A i \in DOMAIN given[x].columns :
             analyses[2].types[ops[x].columns[i][1]] = analyses[1].types[given[x].columns[i][1]]

\* The compiler goes by the diagnostics alone, so that whatever was left unresolved has to be
\* reported: but for functions that are given more or fewer arguments than they have parameters,
\* a plan that compiles has a type for every variable.
NeverSilent ==
  \A i \in DOMAIN analyses :
    LET w == analyses[i]
    IN  (w.failed \/ \E v \in DOMAIN w.types : T!Unresolved(w.types[v])) /\ ~ w.reported /\ ~ w.thrown => Miscounted

\* A runtime is given nothing but what it runs: the passes know no subqueries, a finished plan
\* has an exchange or a join of a kind only if the options of the compiler offer it, and a join
\* keeps or drops the rows that have a match only if the plan asks for that somewhere.
Offered ==
  LET all(names) == names \subseteq features
  IN  (IF all({"broadcast_exchange"}) \/ all({"index_join"}) THEN {"join_find"} ELSE {})
      \cup (IF all({"broadcast_exchange", "broadcast_join_scan"}) \/ all({"index_join", "index_join_scan"}) THEN {"join_scan"} ELSE {})
      \cup (IF all({"broadcast_exchange"}) THEN {"exchange_broadcast"} ELSE {})
      \cup (IF all({"aggregate_exchange"}) THEN {"exchange_aggregate"} ELSE {})
AsksToMatch ==
  \E x \in DOMAIN given :
    \/ given[x].op \in {"intersection", "difference", "subquery"}
    \/ given[x].op = "join" /\ given[x].kind \in {"semi", "anti"}
    \/ \E v \in PartsOf(given[x]) : v.is \in Subqueries
OnlyWhatRuns ==
  /\ SubqueriesGone
  /\ phase \in {"built", "compiled"} =>
       /\ FeaturesUsed \cap {"join_find", "join_scan", "exchange_broadcast", "exchange_aggregate"} \subseteq Offered
       /\ FeaturesUsed \cap {"semi_join", "anti_join"} # {} => AsksToMatch

==============================================================================
