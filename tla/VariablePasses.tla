---------------------------- MODULE VariablePasses ----------------------------
(***************************************************************************)
(* The first passes of the intermediate plan optimizer.                    *)
(*                                                                         *)
(*   remove_variable_aliases         a column of a project that only       *)
(*                                   repeats another one is dropped, and   *)
(*                                   those after it use the other one      *)
(*   remove_unused_stream_variables  columns nobody uses are dropped       *)
(*   collect_local_variables         the trivial variables of let          *)
(*                                   expressions are put in their place    *)
(*   decompose_filter                a conjunction becomes several filters *)
(*                                                                         *)
(* Each visits the operators one by one, from upstream, from downstream or *)
(* in any order.  Plans, expressions and conditions are those of StepPlan. *)
(***************************************************************************)
EXTENDS StreamVariables

VARIABLES originals,  \* alias_map_: for each alias met, what it stands for
          used,       \* used_: the variables the operators visited so far use
          removing    \* to_be_removed_

passVars == <<originals, used, removing>>
Others == <<features, wanted, exchanges, processes, links, infos, visited>>

Enabled(option) == option \in features

\* sort_from_upstream, sort_from_downstream
Followers(x) == {y \in DOMAIN ops : \E k \in DOMAIN ops[y].in : ops[y].in[k] = x}
FromUpstream(x) == \A k \in DOMAIN ops[x].in : ops[x].in[k] \notin todo
FromDownstream(x) == Followers(x) \cap todo = {}

Running(pass) == phase = pass
Passed(x) == todo' = todo \ {x}

\* The next pass starts with every operator of the graph.
Then(pass, graph) == phase' = pass /\ todo' = DOMAIN graph /\ ops' = graph

-----------------------------------------------------------------------------
\* remove_variable_aliases

Referred(known, v) == IF v \in DOMAIN known THEN known[v].name ELSE v

RECURSIVE ReferredIn(_, _)
ReferredIn(known, value) ==
  CASE value.is = "column" -> IF value.name \in DOMAIN known THEN known[value.name] ELSE value
    [] value.is \in Unaries -> [value EXCEPT !.operand = ReferredIn(known, @)]
    [] value.is \in Binaries -> [value EXCEPT !.left = ReferredIn(known, @), !.right = ReferredIn(known, @)]
    [] value.is = "let" ->
         [value EXCEPT !.variables = [i \in DOMAIN @ |-> [@[i] EXCEPT !.value = ReferredIn(known, @)]],
                       !.body = ReferredIn(known, @)]
    [] OTHER -> value

ReferredTerms(known, cond) == {[t EXCEPT !.left = ReferredIn(known, @), !.right = ReferredIn(known, @)] : t \in cond}
ReferredKeys(known, e) ==
  [e EXCEPT !.keys = [i \in DOMAIN @ |-> [column |-> Referred(known, @[i].column), value |-> ReferredIn(known, @[i].value)]]]
ReferredNames(known, names) == [i \in DOMAIN names |-> Referred(known, names[i])]
ReferredSources(known, columns) == [i \in DOMAIN columns |-> <<Referred(known, columns[i][1]), columns[i][2]>>]

\* extract_variable
IsReference(value) == value.is = "column" \/ (value.is = "host" /\ Enabled("external_variable_inlining"))

TakeAliasAsIs(w, c) ==   \* mutant: an alias of an alias stands for the alias
  IF IsReference(c.value)
    THEN [w EXCEPT !.known = (c.variable :> c.value) @@ @, !.failed = @ \/ c.variable \in DOMAIN w.known]
    ELSE [w EXCEPT !.columns = Append(@, [c EXCEPT !.value = ReferredIn(w.known, @)])]

\* A work record of a project: the aliases known, the columns kept.
TakeAlias(w, c) ==
  LET value == ReferredIn(w.known, c.value)
  IN  IF IsReference(value)
        THEN [w EXCEPT !.known = (c.variable :> value) @@ @, !.failed = @ \/ c.variable \in DOMAIN w.known]
        ELSE [w EXCEPT !.columns = Append(@, [c EXCEPT !.value = value])]

WithoutAliases(known, o) ==
  CASE o.op = "filter" -> [o EXCEPT !.cond = ReferredTerms(known, @)]
    [] o.op = "join" -> [o EXCEPT !.cond = ReferredTerms(known, @),
                                  !.lower = ReferredKeys(known, @), !.upper = ReferredKeys(known, @)]
    [] o.op = "apply" -> [o EXCEPT !.arguments = [i \in DOMAIN @ |-> ReferredIn(known, @[i])]]
    [] o.op = "emit" -> [o EXCEPT !.columns = ReferredSources(known, @)]
    [] o.op = "write" -> [o EXCEPT !.keys = ReferredSources(known, @), !.columns = ReferredSources(known, @)]
    [] o.op = "aggregate" ->
         [o EXCEPT !.group_keys = ReferredNames(known, @),
                   !.columns = [i \in DOMAIN @ |-> [@[i] EXCEPT !.arguments = ReferredNames(known, @)]]]
    [] o.op = "distinct" -> [o EXCEPT !.group_keys = ReferredNames(known, @)]
    [] o.op = "limit" -> [o EXCEPT !.group_keys = ReferredNames(known, @), !.sort_keys = ReferredNames(known, @)]
    [] o.op = "union" ->
         [o EXCEPT !.mappings = [i \in DOMAIN @ |-> [@[i] EXCEPT !.left = Referred(known, @), !.right = Referred(known, @)]]]
    [] o.op \in {"intersection", "difference"} ->
         [o EXCEPT !.pairs = [i \in DOMAIN @ |-> <<Referred(known, @[i][1]), Referred(known, @[i][2])>>]]
    [] o.op = "escape" -> [o EXCEPT !.mappings = ReferredSources(known, @)]
    [] OTHER -> o   \* it uses no variable

RemoveAliases(x) ==
  /\ Running("aliases") /\ x \in todo /\ FromUpstream(x)
  /\ LET o == ops[x]
         w == IF o.op # "project" THEN [known |-> originals, columns |-> <<>>, failed |-> FALSE]
              ELSE FoldLeft(TakeAlias, [known |-> originals, columns |-> <<>>, failed |-> FALSE], o.columns)
     IN  IF o.op = "extension" THEN phase' = "refused" /\ UNCHANGED <<ops, todo, originals>>
         ELSE IF w.failed THEN phase' = "broken" /\ UNCHANGED <<ops, todo, originals>>
         ELSE /\ ops' = [ops EXCEPT ![x] = IF o.op = "project" THEN [o EXCEPT !.columns = w.columns]
                                           ELSE WithoutAliases(originals, o)]
              /\ originals' = w.known
              /\ Passed(x) /\ UNCHANGED phase
  /\ UNCHANGED <<Others, used, removing>>

AliasesRemoved ==
  /\ Running("aliases") /\ todo = {} /\ Then("unused", ops)
  /\ UNCHANGED <<Others, passVars>>

-----------------------------------------------------------------------------
\* remove_unused_stream_variables

\* collect: what is left of an expression, and the variables used.  A let asks for its body, then from its last variable for those in use; the others go.
RECURSIVE Collected(_, _)
Collected(value, us) ==
  CASE value.is \in {"column", "local"} -> [value |-> value, used |-> us \cup {value.name}]
    [] value.is \in Unaries ->
         LET a == Collected(value.operand, us) IN [a EXCEPT !.value = [value EXCEPT !.operand = a.value]]
    [] value.is \in Binaries ->
         LET l == Collected(value.left, us)
             r == Collected(value.right, l.used)
         IN  [value |-> [value EXCEPT !.left = l.value, !.right = r.value], used |-> r.used]
    [] value.is = "let" ->
         LET body == Collected(value.body, us)
             w == FoldRight(LAMBDA d, v :
                              LET c == Collected(d.value, v.used)
                              IN  IF d.variable \notin v.used THEN v
                                  ELSE [variables |-> <<[d EXCEPT !.value = c.value]>> \o v.variables, used |-> c.used],
                            value.variables, [variables |-> <<>>, used |-> body.used])
         IN  [value |-> [value EXCEPT !.variables = w.variables, !.body = body.value], used |-> w.used]
    [] OTHER -> [value |-> value, used |-> us]

CollectedUses(values, us) == UNION {Collected(v, us).used : v \in values} \cup us
CondCollected(cond, us) == CollectedUses({t.left : t \in cond} \cup {t.right : t \in cond}, us)
KeysCollected(o, us) == CollectedUses({(o.lower.keys \o o.upper.keys)[i].value : i \in DOMAIN (o.lower.keys \o o.upper.keys)}, us)

UsedColumns(columns, us) == SelectSeq(columns, LAMBDA c : c[2] \in us)

\* remove_unused_declarators: from the last column, as it may use those before it.
ProjectFirst(o, us) ==   \* mutant: what a column uses is not collected before those above it are tested
  [op |-> [o EXCEPT !.columns = SelectSeq(@, LAMBDA c : c.variable \in us)],
   used |-> CollectedUses({o.columns[i].value : i \in DOMAIN o.columns}, us)]
Projects(o, us) ==
  LET w == FoldRight(LAMBDA c, v :
                       LET value == Collected(c.value, v.used)
                       IN  IF c.variable \notin v.used THEN v
                           ELSE [columns |-> <<[c EXCEPT !.value = value.value]>> \o v.columns, used |-> value.used],
                     o.columns, [columns |-> <<>>, used |-> us])
  IN  [op |-> [o EXCEPT !.columns = w.columns], used |-> w.used]

\* An operator that gives columns the others may not use, and what it uses itself.
Trimmed(o, us) ==
  CASE o.op = "scan" -> [op |-> [o EXCEPT !.columns = UsedColumns(@, us)], used |-> us]
    [] o.op = "values" ->
         LET kept == SelectSeq([i \in DOMAIN o.columns |-> i], LAMBDA i : o.columns[i] \in us)
         IN  [op |-> [o EXCEPT !.columns = [i \in DOMAIN kept |-> o.columns[kept[i]]],
                               !.table = [n \in DOMAIN @ |-> [i \in DOMAIN kept |-> @[n][kept[i]]]]], used |-> us]
    [] o.op = "join" -> [op |-> o, used |-> KeysCollected(o, CondCollected(o.cond, us))]
    [] o.op = "apply" ->
         LET u == CollectedUses(AllOf(o.arguments), us)
         IN  [op |-> [o EXCEPT !.columns = SelectSeq(@, LAMBDA v : v \in u)], used |-> u]
    [] o.op = "project" -> Projects(o, us)
    [] o.op = "filter" -> [op |-> o, used |-> CondCollected(o.cond, us)]
    [] o.op = "aggregate" ->
         LET kept == SelectSeq(o.columns, LAMBDA c : c.destination \in us)
         IN  [op |-> [o EXCEPT !.columns = kept],
              used |-> us \cup AllOf(o.group_keys) \cup UNION {AllOf(kept[i].arguments) : i \in DOMAIN kept}]
    [] o.op = "distinct" -> [op |-> o, used |-> us \cup AllOf(o.group_keys)]
    [] o.op = "limit" -> [op |-> o, used |-> us \cup AllOf(o.group_keys) \cup AllOf(o.sort_keys)]
    [] o.op = "union" ->
         LET kept == SelectSeq(o.mappings, LAMBDA m : m.destination \in us)
         IN  [op |-> [o EXCEPT !.mappings = kept],
              used |-> us \cup {kept[i].left : i \in DOMAIN kept} \cup {kept[i].right : i \in DOMAIN kept}]
    [] o.op \in {"intersection", "difference"} -> [op |-> o, used |-> us \cup AllOf(Firsts(o.pairs)) \cup AllOf(Seconds(o.pairs))]
    [] o.op = "emit" -> [op |-> o, used |-> us \cup AllOf(Firsts(o.columns))]
    [] o.op = "write" -> [op |-> o, used |-> us \cup AllOf(Firsts(o.keys)) \cup AllOf(Firsts(o.columns))]
    [] o.op = "escape" ->
         LET kept == UsedColumns(o.mappings, us)
         IN  [op |-> [o EXCEPT !.mappings = kept], used |-> us \cup AllOf(Firsts(kept))]
    [] OTHER -> [op |-> o, used |-> us]

RemoveUnused(x) ==
  /\ Running("unused") /\ x \in todo /\ FromDownstream(x)
  /\ LET t == Trimmed(ops[x], used)
         useless == \/ t.op.op = "project" /\ t.op.columns = <<>>
                    \/ t.op.op = "identify" /\ t.op.variable \notin used
     IN  /\ ops' = [ops EXCEPT ![x] = t.op]
         /\ used' = t.used
         /\ removing' = IF useless THEN removing \cup {x} ELSE removing
  /\ Passed(x)
  /\ UNCHANGED <<Others, phase, originals>>

\* The graph without some operators of one input: what followed them follows what was before them.
Without(graph, gone) ==
  LET before[y \in DOMAIN graph] == IF y \in gone THEN before[graph[y].in[1]] ELSE y
  IN  [x \in DOMAIN graph \ gone |-> [graph[x] EXCEPT !.in = [k \in DOMAIN @ |-> before[@[k]]]]]

UnusedRemoved ==
  /\ Running("unused") /\ todo = {} /\ Then("locals", Without(ops, removing))
  /\ removing' = {}
  /\ UNCHANGED <<Others, originals, used>>

-----------------------------------------------------------------------------
\* collect_local_variables, inline_variables, classify_expression

\* replacements: what stands for some local variables
RECURSIVE Inlined(_, _)
Inlined(replacements, value) ==
  CASE value.is = "local" -> IF value.name \in DOMAIN replacements THEN replacements[value.name] ELSE value
    [] value.is \in Unaries -> [value EXCEPT !.operand = Inlined(replacements, @)]
    [] value.is \in Binaries -> [value EXCEPT !.left = Inlined(replacements, @), !.right = Inlined(replacements, @)]
    [] value.is = "let" ->
         [value EXCEPT !.variables = [i \in DOMAIN @ |-> [@[i] EXCEPT !.value = Inlined(replacements, @)]],
                       !.body = Inlined(replacements, @)]
    [] OTHER -> value

\* Immediate values and variables, of whatever kind.
IsTrivial(value) == value.is \in {"constant", "true", "column", "host", "local"}
IsInlineTarget(value) == Enabled("always_inline_scalar_local_variables") \/ IsTrivial(value)

TakeLocalAsIs(w, d) ==   \* mutant: the variables inlined before are not replaced in the next ones
  IF IsInlineTarget(d.value)
    THEN [w EXCEPT !.replacements = (d.variable :> d.value) @@ @]
    ELSE [w EXCEPT !.variables = Append(@, d)]

\* A work record of a let: what replaces the variables inlined so far, the variables kept.
TakeLocal(w, d) ==
  LET value == Inlined(w.replacements, d.value)
  IN  IF IsInlineTarget(value)
        THEN [w EXCEPT !.replacements = (d.variable :> value) @@ @]
        ELSE [w EXCEPT !.variables = Append(@, [d EXCEPT !.value = value])]

\* The innermost expressions first.
RECURSIVE WithoutLocals(_)
WithoutLocals(value) ==
  CASE value.is \in Unaries -> [value EXCEPT !.operand = WithoutLocals(@)]
    [] value.is \in Binaries -> [value EXCEPT !.left = WithoutLocals(@), !.right = WithoutLocals(@)]
    [] value.is = "let" ->
         LET inner == [i \in DOMAIN value.variables |-> [value.variables[i] EXCEPT !.value = WithoutLocals(@)]]
             w == FoldLeft(TakeLocal, [replacements |-> Nothing, variables |-> <<>>], inner)
             body == Inlined(w.replacements, WithoutLocals(value.body))
         IN  IF w.variables = <<>> THEN body ELSE [value EXCEPT !.variables = w.variables, !.body = body]
    [] OTHER -> value

TermsWithoutLocals(cond) == {[t EXCEPT !.left = WithoutLocals(@), !.right = WithoutLocals(@)] : t \in cond}
KeysWithoutLocals(keys) == [i \in DOMAIN keys |-> [keys[i] EXCEPT !.value = WithoutLocals(@)]]

OperatorWithoutLocals(o) ==
  CASE o.op = "join" -> [o EXCEPT !.cond = TermsWithoutLocals(@),
                                  !.lower.keys = KeysWithoutLocals(@), !.upper.keys = KeysWithoutLocals(@)]
    [] o.op = "filter" -> [o EXCEPT !.cond = TermsWithoutLocals(@)]
    [] o.op = "apply" -> [o EXCEPT !.arguments = [i \in DOMAIN @ |-> WithoutLocals(@[i])]]
    [] o.op = "project" -> [o EXCEPT !.columns = KeysWithoutLocals(@)]
    [] OTHER -> o

CollectLocals ==
  /\ Running("locals")
  /\ Then("filters", [x \in DOMAIN ops |-> OperatorWithoutLocals(ops[x])])
  /\ UNCHANGED <<Others, passVars>>

-----------------------------------------------------------------------------
\* decompose_filter, where ranges are looked for in disjunctions

DecomposeFilter(x) ==
  /\ Running("filters") /\ x \in todo /\ Enabled("disjunction_range_hinting")
  /\ ops[x].op = "filter" /\ Cardinality(ops[x].cond) > 1
  /\ LET terms == SetToSeq(ops[x].cond)
         id(i) == <<x[1], ToString(i)>>
         chain == [y \in {id(i) : i \in DOMAIN terms} |->
                     LET i == CHOOSE i \in DOMAIN terms : id(i) = y
                     IN  [op |-> "filter", cond |-> {terms[i]}, in |-> IF i = 1 THEN ops[x].in ELSE <<id(i - 1)>>]]
     IN  ops' = [y \in DOMAIN ops \ {x} |->
                   [ops[y] EXCEPT !.in = [k \in DOMAIN @ |-> IF @[k] = x THEN id(Len(terms)) ELSE @[k]]]] @@ chain
  /\ Passed(x)
  /\ UNCHANGED <<Others, passVars, phase>>

FiltersDecomposed ==
  /\ Running("filters")
  /\ \A x \in todo : ops[x].op = "filter" => Cardinality(ops[x].cond) = 1 \/ ~ Enabled("disjunction_range_hinting")
  /\ Then("index joins", ops)
  /\ UNCHANGED <<Others, passVars>>

-----------------------------------------------------------------------------

PassesInit ==
  /\ infos = Nothing /\ visited = {}
  /\ originals = Nothing /\ used = {} /\ removing = {}

PassesNext ==
  \/ \E x \in todo : RemoveAliases(x) \/ RemoveUnused(x) \/ DecomposeFilter(x)
  \/ AliasesRemoved \/ UnusedRemoved \/ CollectLocals \/ FiltersDecomposed

=============================================================================
