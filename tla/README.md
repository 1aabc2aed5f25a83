# A verification of yugawara in TLA+

yugawara turns the relational algebra of a SQL statement into a step plan, the
graph of processes and exchanges that an executor runs. It is a library in C++
without threads or files of its own. What is hard to get right in it is of two
kinds:

- the *providers* (tables, indices, variables, functions) are shared by the
  threads that compile statements and the ones that change the schema, with one
  mutex per provider, parents behind children and callbacks under locks;
- the *passes* rewrite a graph, or fold a condition or a list of types, by many
  small handlers. Each handler is easy to test, and what goes wrong goes wrong
  several handlers later: a term of a filter that forgot which columns it uses,
  a bound that survived its disjunction, a row that two operators upstream was
  still there.

This directory holds TLA+ modules of both kinds, the TLC configurations that
check them, and proofs for TLAPS. `PROJECT.json` says which lines of the source
each definition stands for, which run checks which property, and which mutation
of the code makes each property fail. Paths below are relative to the
repository; `include/` is short for `src/include/yugawara/`, `src/` for
`src/src/yugawara/`.

## 1. Inventory

### 1.1 Shared state

| component | state | operations | what makes it correct |
|---|---|---|---|
| storage provider `include/storage/basic_configurable_provider.h`, `src/storage/provider.cpp` | three maps from names to relations, indices, sequences; a mutex; a parent; `owner_` in each relation and sequence | find, each, find_primary_index, add (with and without overwrite), remove; bless, unbless | an answer is one the hierarchy had at one moment; owner and map agree; every call returns |
| variable provider `include/variable/basic_configurable_provider.h` | a map from names to declarations, a mutex, a parent | find, each, add, remove | a reference is followed while its entry stands; nothing declared throughout is missed; a find answers by what was visible |
| function and aggregate providers | as above, with many overloads under one name, and no hiding | each, each by name and number of parameters, add, remove | an enumeration over two levels misses no overload that was there throughout |
| type and schema providers | a flat map from names | find, each, add, remove | as for variables, at one level |
| schema catalog | a catalog's providers | setters | records only |
| object cache and repository `include/util/object_cache.h` | an ordered map of weak references | find, add, erase_expired, clear | equal objects are shared; belongs to one compilation |

### 1.2 The compiler: the passes in the order they run

`compiler.cpp` resolves the types of the plan, normalizes it, optimizes it,
builds the step plan, resolves prototypes of storage elements, refuses what the
runtime does not support, and resolves the types again. Any phase may end the
compilation with diagnostics.

| pass | state | operations | what makes it correct |
|---|---|---|---|
| expand_subquery | the plan, a subquery being cloned | one rule per kind of subquery | the rows stay what the subquery means |
| remove_variable_aliases | a map from alias to variable | one handler per operator | every use names a variable that is still declared |
| remove_unused_stream_variables | the variables in use, upstream | one handler per operator | no row is gained, lost or merged |
| collect_local_variables, inline_variables | how often a local variable is used | visit of an expression | the value and the number of evaluations stay |
| decompose_prefix_match `src/analyzer/details/decompose_prefix_match.cpp` | a LIKE pattern | replace by `=` or by a range | the same texts are accepted |
| decompose_filter, decompose_disjunction_range | a stack of range hints | intersect, union, extract, add terms | the added terms are implied |
| push_down_selections | a task stack, counted references to terms | one handler per operator | no term lost, doubled or moved past what it uses; the same rows |
| rewrite_join, collect_join_keys, rewrite_scan | terms, keys, an index chosen by cost | take terms out of a condition into keys and ranges | keys and what is left of the condition are the condition |
| remove_redundant_conditions, simplify_predicate | the result of a visit | fold `AND`, `OR`, `NOT`, `is_...` with NULL | what is claimed of a condition is true of every row |
| collect_exchange_steps, collect_process_steps, collect_step_relations | the graph and a cursor, exchanges, processes | one handler per operator | the same rows; every exchange filled and read; no process waits for itself |
| collect_exchange_columns, rewrite_stream_variables | columns of exchanges, a rewriter with undefined, defined and alias states | downstream to upstream | an exchange carries what is used after it, and each use finds its definition |
| blocks and variable liveness `src/analyzer/block*.cpp`, `variable_liveness*` | basic blocks of a process; sets defined, used and killed | split, connect, analyze | a variable is live exactly between its definition and its last use |
| resolve_prototype `src/storage/resolve_prototype.cpp`, basic_prototype_processor | the statement, the table that was made, diagnostics | copy a table, copy an index with its columns looked up by name, refuse | what defines a table is all of one table, and no prototype is left |
| expression_analyzer, type conversion | the type of each variable, by resolution | unify over operands, offers, rows | the common type holds every value; the order of offers does not matter |

### 1.3 Records and output

Storage elements, variable criteria, binding descriptors,
feature restrictions, aggregate and join information, the serializer: accessors
and output, with no sequence of steps to model. Section 6 says so for each;
what a runtime restricts is asked by the compiler, and is modelled there.

### 1.4 How the parts meet

- A compilation holds a shared provider and calls it at any time: *shared
  state under locks*. Names are resolved before the compiler runs, so a plan
  holds elements whose provider may have dropped them since.
- A provider calls its parent while it holds its own lock, and the consumer of
  `each` under all locks: *callbacks*.
- The passes share one mutable graph. A handler keeps *references into
  conditions* over the handlers that follow (`predicate_info`), and is told
  what a variable is by flow information that reads the graph as it was.
- The step plan builder makes exchanges first and asks later which columns they
  need. What an operator reads is known only downstream, what exists only
  upstream.
- The optimizer's conditions end in different passes: range hints and prefix
  ranges add terms, push down moves them, rewrite_scan consumes them,
  remove_redundant_conditions folds what is left.

### 1.5 What is hard

The list, with lines and the properties that watch each, is `hazards` in
`PROJECT.json`. In groups:

- *Interleavings of threads*: a parent asked while the child changes, a lock
  given back before the answer is used, `owner_` under no common lock.
- *One step of several failing*: `bless` throws after the insertion, the flow
  information throws after some terms were moved.
- *References that outlive what they refer to*: a join condition replaced by a
  merge, a term whose uses were cleared, a map node erased by another thread.
- *Order of handlers*: the graph a handler finds is the one others left.
- *Boundaries*: NULL and three-valued logic, empty inputs and empty groups,
  bounds that are infinite, lengths that are unbounded, an escape at the end.
- *Endings*: every call returns, the cursor of a pass moves, no process waits
  for itself.

## 2. Modules

A module `X` models code, `MCX` gives it an instance for TLC, `XProofs` holds
its theorems. The modules with theorems, and those they extend, recurse by
functions and folds only. RECURSIVE operators, which walk expressions or plans,
stand in modules that only TLC's runs use: `PlanMeaning`, `StepMeaning`,
`StreamVariables`, `VariablePasses`, `SubqueryExpansion`, `PlanTypes` and
`VariableLiveness`.

| module | models | role |
|---|---|---|
| `StorageCatalog` | the maps of a provider and what it shows | shared by the next two |
| `ProviderContents` | what a provider promises, without locks | abstract specification |
| `StorageProvider` | the storage provider with its locks | implements `ProviderContents` (`Contained`, an INSTANCE with the maps and the calls, no locks) |
| `DeclarationProvider` | the providers of variables, of types and schemas, of functions and aggregates, with their locks | |
| `PushDownSelections` | push_down_selections | uses `PlanMeaning` in its MC module |
| `PlanMeaning` | the rows of an intermediate plan | external: the executor's side |
| `RangeHints` | decompose_disjunction_range, range_hint | |
| `SimplifyPredicate` | simplify_predicate, remove_redundant_conditions | |
| `PrefixMatch` | decompose_prefix_match | checked with the two above by `MCPredicates`, each alone |
| `SqlTypes` | types and `conversion.cpp` | |
| `TypeConversion` | the folds of conversions in expression_analyzer | extends `SqlTypes` |
| `ExpressionTypes` | the types of scalar expressions, calls and LIKE | used by the plans' types below |
| `Statements` | the compiler on statements that are no plans: prototypes, restrictions, types | extends `ExpressionTypes`; checked with `TypeConversion` by `MCTypes` |
| `StepGraph` | how the operators of a plan are connected | shared by the next and the chain |
| `StepMeaning` | the rows of a plan of operators and exchanges | external: the executor's side |

The compiler is one chain, each module extending the one before it and adding
its variables and phases, so that the plan one pass leaves *is* the one the
next finds:

| module | models | phases |
|---|---|---|
| `StepPlan` | collect_exchange_steps, collect_process_steps, collect_step_relations | `exchanges`, `processes`, `relations` |
| `ExchangeColumns` | collect_exchange_columns | `columns` |
| `StreamVariables` | rewrite_stream_variables with its context | `variables`, `built` |
| `VariablePasses` | remove_variable_aliases, remove_unused_stream_variables, collect_local_variables, decompose_filter | `aliases`, `unused`, `locals`, `filters` |
| `AccessPaths` | rewrite_join, collect_join_keys, rewrite_scan | `index joins`, `join keys`, `scans`, `redundant` |
| `SubqueryExpansion` | intermediate_plan_normalizer, expand_subquery | `subqueries`, `commands` |
| `PlanTypes` | the analyzer on plans and the compiler's phases | `built` on to `typed`, `compiled`, or one of the refusals |
| `VariableLiveness` | block_builder, variable_liveness_analyzer | a branch off `StreamVariables`: from `built` on to `blocks`, `liveness` |

### 2.1 Storage provider

*State.* `entries[p][k]` are the three maps of provider `p`, a key being a kind
and a name; `owner[e]` is `owner_`; `writer` and `readers` are the
`std::shared_mutex` of each provider; `call`, `pc`, `level`, `seen` and `reply`
are the stack of a thread: the call it makes, where it is in it, how far up
`Chain` it has walked, what it passed to the consumer and what it returns.

*Actions.* One action takes a lock and does what the code does up to the next
point where another thread can interfere: the mutex of the parent, or `owner_`,
which no mutex of the provider protects. `Call` begins any request.
`FindHit`, `WalkUp`, `FindMiss` are `internal_find`, which recurses into the
parent *under* its reader lock; `EachUp` and `EachDone` are `internal_each`,
which filters the parent's elements by its own map; `PrimaryHit`,
`PrimaryAgain`, `PrimaryMiss` are `find_primary_index`, which asks itself in
place of the parent. `AddLock`, `ParentHit`, `ParentMiss`, `Emplace`,
`EmplaceConflict`, `Put` are `internal_add`; `BlessCheck`, `BlessThrows`, `Own`
are `bless` with its test and its assignment apart; `RemoveMiss`,
`RemoveIndex`, `RemoveLock`, `UnblessCheck`, `UnblessThrows`, `Disown` are
`internal_remove`. An exception releases the locks of the call as unwinding does.

*Left out.* A consumer that calls back into the provider: it is client code and
would block on the lock `each` holds (a hazard with a note). `add_relation`,
`add_table`, `add_index` and `add_sequence` differ in the map and in whether
the element is blessed, which the element's kind decides.

*Abstract specification.* `ProviderContents` has no locks: a client asks, and
one indivisible step looks at the whole hierarchy and answers, or changes one
entry. That `add` without overwrite may meet a parent that got the name
meanwhile is *not* hidden: the abstract `Store` promises a conflict-free child
only, and `HidesOnlyByPut` is stated apart, because the code does not have it.

### 2.2 Providers of declarations

Three kinds of one template. `variables` is a map by name under a parent it
hides; `types` (and schemas) is a map by name; `functions` (and aggregates)
keeps all overloads of a name, at two levels that do not hide each other.
Unlike the storage provider, a find or an enumeration gives the lock of a level
back before the next, and `internal_find` and `add` return a reference into the
map. An entry is a number, new for each map node, so a reference to an erased
node names nothing. `LockShared` and `Lock` acquire; `Look`, `LookFlat`, `Copy`
find; `Enumerate`, `Filter` are `each` of variables with its unlocked search of
the child's map; `EnumerateFlat`, `EnumerateOverloads` the others; `Put`,
`PutOverload`, `Added`, `Throw` add; `Erase`, `EraseOverload` remove, the latter
the first overload with the identifier; `Return` ends a call. `Offered` says which
members a provider of a kind has.

`insert_or_assign` of a name that is there assigns the shared pointer in its node, and a
reference another thread took before may be followed at that moment. So the assignment
has two steps, `Put` and `Assign`, and between them the entry is not `Settled`; nor is one
that has been erased. To read such an entry is undefined: `Copy` may return it or
nothing. `seen[t]` is a history variable: for each name, the sets of
declarations visible at some moment since the call began.

The classes are documented as thread-safe, and two conditions on what clients
call stand in the module by name because they are not: `RacesApart` (what one
thread removes or replaces is not looked for or added by another there or below)
and `EachAlone` (no other thread adds to or removes from a child whose variables are
enumerated). `declaration_references` and the instances of 3.8 show what happens
without them, or in spite of them.

### 2.3 Selection push down

*State.* A plan is a sequence of operators that name their inputs. A condition
is a sequence of leaves read as a conjunction; a leaf is the *set* of terms now
in it, which lets two terms share the place that one reference names. A term is
known by the variables it uses (and, for the meaning, by the value it wants).
`tasks` is the stack of operators to visit with the predicates that arrive,
`preds` the `predicate_info`s with `home`/`slot` (the ownership reference),
`uses` (which the code clears) and `count`.

*Actions.* One per group of handlers that does the same: `VisitSource`,
`VisitProject` (project, apply, identify), `VisitFilter`, `VisitAggregate`,
`VisitDistinctLike`, `VisitEscape` (and join_find, join_scan), `VisitSink`,
`VisitUnion`, `VisitSetOperator`, `VisitInner`, `VisitLeftOuter`. `Throw` is the
exception of the flow information for an operator it does not know,
`Finish` the end. `flush`, `flush_copy`, `release`, `merge_predicates` and the
mask computations are operators of the same names; a mask is scanned by one
function of the predicates so far (`Each`).

What is assumed of a plan (`PlansAssumption`, `IsPlan`) is what takatori enforces: operators have
as many inputs as their kind says, and an output has one consumer unless it is a buffer's.

`PlanMeaning` gives the set of row sets a plan may produce; distinct and limit
choose, so there may be several.

### 2.4 Predicates

`RangeHints`, `SimplifyPredicate`: a condition is visited bottom up, so a
condition *is* a sequence of pushes and merges on a stack. Both modules fix one
arbitrary row for the behaviour and keep with each stack entry the value its
part has for that row. "The hints are implied" and "what a visit claims is
true" then are state invariants about data of any size, and for `RangeHints`
provable ones.

- `RangeHints`: `Intersect`, `Union` and their liftings to hints and maps are
  the merge functions of `range_hint.cpp`; `Extract` with `transpose` the
  comparison handlers; `AddTerms` the building of the new conjunction.
  `compare(...)` decides only within a family of values.
- `SimplifyPredicate`: the result lattice of a visit (constant, not NULL, true
  or unknown, ...) with one operator per table of the code; what becomes of a
  filter and of a join condition.
- `PrefixMatch`: the scan of a LIKE pattern with its escape, and the prefix,
  equality or range it becomes. A character is a byte with a code below \xff, which
  the upper end of the range appends to the prefix.

### 2.5 Step plan

`StepPlan` has the plan as a function from identifiers to operators, each with
the identifiers before it. `Visit...` actions are the handlers of
collect_exchange_steps in any order (the code walks the graph's list, whose
order is that of insertion; a handler touches its operator and neighbours
only). `CollectProcess` moves a take or scan and what follows it into a
process, `Connect` makes the links. Strategies of joins and aggregates are
those of the code, from hints, runtime features, the style of the endpoints and
`available_join_strategies`.

`ExchangeColumns`: `VisitProcess` walks a process from its head along the
columns available after each operator; `infos[e]` is `exchange_column_info`:
what of the exchange stands for what, which columns are touched. What is
offered allocates a column of the exchange, what is taken gets back what was
allocated, and `VisitExchange` names the exchange's own columns and keys by
those. Upstream comes before downstream; between steps that do not depend on
each other the order is free. The order is takatori's `sort_from_upstream`; where steps wait
for each other there is none (`NoOrder`), and the model stops, since what takatori does is not
in this repository.

`StreamVariables`: the same walk backwards. A work record holds the context of
the rewriter, each variable *undefined* until its definition is met, then
*defined*, or an *alias* of another. `RewriteProcess` and `RewriteExchange` are
whole steps. `Fails` and `failed` collect every exception and assertion of
either pass, and lead to the phase `broken`.

`StepMeaning` computes rows for intermediate operators, step operators and
*mixtures*, so that the rows can be asked for after every single replacement;
and, when all is named, through the columns each process and exchange has. The
builder itself never asks for rows: `StepPlan` takes them as a constant, `RowsOf`,
which the configurations set to `MeaningOf`, and so can be reasoned about without
them. Its other constant is the set of plans. `PlansAssumption` says they
are graphs as takatori makes them: without a cycle, each input connected, one input
for a limit and two for a join, no operators of a step plan among them; TLC evaluates
it for every plan of both runs. What an operator follows is `Follows` of `StepGraph`,
and `At` and `++` are `:>` and `@@` of the module TLC, whose definitions the provers
do not know.

### 2.6 The optimizer

`VariablePasses` and `AccessPaths` have an action for each operator a pass
visits and one for what it does at its end. `originals` is `alias_map_`, `used`
and `removing` the sets of remove_unused_stream_variables; `todo` the operators
left, taken in the order the code sorts them in, or any order if the code has
none. Expressions are columns, literals, host variables, sums, truth tests,
LET and subqueries; a condition is the set of its terms.

`AccessPaths` has the *factors* of search_key_term_builder (a term that
compares a key with something else, the comparison transposed or negated), the
terms built of them, and what they fill: the keys of a find, the bounds of a
scan, the key pairs of a join. A term used is *purged* from the condition it
came from. `Estimated` is the default index estimator, `IsBetter` the order of
its results; indexes are tried in the order the provider lists them.

push_down_selections stands between these passes and has its module of its own:
it works on terms with references to where they stand, which no other pass
looks at. The plans of the chain have their conditions where it leaves them.

### 2.7 Subqueries and the compiler

`SubqueryExpansion` is collector and commands. `CollectNext` takes one operator
off `worklist`, puts into its expressions what stands for each subquery and
appends to `commands`; an operator of a subquery met on the way joins the work.
`ProcessCommand` puts the join (or, for a relation subquery, the project, with the
columns of a copy renamed) in front of its operator. `context` tells where a
subquery stands: in the conjunction of a filter EXISTS becomes a semi join,
elsewhere an outer join with a marker. Meanings of subqueries are in
`StepMeaning`: a row is evaluated with the rows of its subquery's graph.

`PlanTypes` resolves the given plan, has the passes run, and resolves the step plan
with nothing remembered. The passes never look at a type; so the types of
columns, literals, host variables and functions are chosen when the passes are
over, which makes each plan pass through them once for all typings. A work
record holds the engine's variable mapping, whether something was *reported*,
and whether the engine gave up: two things the code keeps apart, as it does
`compiler.cpp`, which asks for diagnostics only. `CheckRestricted` is the
feature check.

### 2.8 Blocks and liveness

`VariableLiveness` starts from a finished process a host looks at. `BuildBlock`
makes a block from a head operator to the next that has several outputs or
none. `Inspect` is the analyzer asked for any set of kinds of liveness (define,
use, kill), in any order of calls; `resolved` is its `resolved_`.

### 2.9 Types

`SqlTypes` has `Unify`, which is `unifying_conversion`; under it are the
promotions of `conversion.cpp`, numeric, string, plain and by identity.
`is_assignment_convertible`, `is_cast_convertible` and
`is_parameter_application_convertible` are the three tables. The types are arbitrary members
of `SqlType`: precision, scale and length are any naturals (or unbounded).
`TypeConversion`: `Start` and `Step` fold them as the expression analyzer does,
over the columns of a range template, the branches of a case or coalesce, the rows of
values, the keys of a take_cogroup and the offers to an exchange.
`ExpressionTypes` has the type of each operator of a scalar expression, with
whether a problem is reported.

### 2.10 Statements

`Statements` is `compile(statement)` of `compiler.cpp` for all but plans, one
action for each prototype that is resolved and one for each phase after.
`indexes` is the primary key followed by the unique keys, or the index of
create_index, and `current` the one that is resolved next. A table is an
identifier with its columns, and a column of an index names its table, as in
the code it refers to an object: `IndexCopy` is `create_index_copy`, which has
to look each of them up in the copy (`Copy`, with the columns `copied`). The processor is the
runtime's; it accepts, refuses with a diagnostic, or
(`"silent"`) without one, and may change the type of a column of the copy
(`Completed`). Then what is restricted is refused (`CheckFeatures`),
and defaults, keys and values are checked (`CheckTypes`). The stage `thrown` is
a call of `fail` or an exception.

## 3. Runs

`pass` runs end without error. A `violation` run checks one property that a
comment or documentation of the code states and the code does not have; the
quotation is under `findings`. Other deviations met while modelling are listed
in 3.8; the instances of the passing runs leave them out by a condition on the
inputs, so that everything around them is checked.

### 3.1 Storage provider

Instance: a child under a parent, two tables of one name, an index, a sequence;
two threads. One name is enough since keys do not interact; two levels since a
level only knows its parent and the lock protocol between two neighbours is the
same at each; two threads since every conflict is between two. The theorems of
section 5 do not depend on any of it.

| run | shows |
|---|---|
| `storage_contents` | Every call at both levels, of two threads in any order, as often as they like: writers exclude everybody and a call holds the reader locks of what it walked through (`LocksHeld`); nobody changes an entry between its insertion and bless (`EntryStays`); nothing appears below a lookup in its parent (`WalkedPastNothing`), nor below what an enumeration has passed (`SeenIsCurrent`); and all of it implements `ProviderContents`. |
| `storage_returns` | No order of locks and no exception leaves a thread waiting (`EveryCallReturns`), two calls per thread; and what is held is owned whenever nobody writes (`HeldIsOwned`), whatever else is put over it or offered under its name. |
| `storage_hiding` (violation) | add without overwrite hides a table the parent got after it was asked. |

The symmetry of the threads in `storage_contents` is sound since no property names one.

### 3.2 Providers of declarations

Two threads, two names, two levels, two calls each. A *program* is the kind of
provider, the tables it begins with and the calls each thread makes.
`SafePrograms` satisfy `RacesApart` and, of variables, `EachAlone`; those of
`declaration_references` do not satisfy the first (TLC evaluates both).

| run | shows |
|---|---|
| `declarations` | A find answers by what was visible at some moment of it, or by a declaration of the parent made after another of the name came during the find, so it never misses what was declared throughout (`FindsDeclared`); an enumeration while the parent changes provides every name, and of functions every overload asked for, that was declared throughout, and no overload that never was (`EachProvidesAll`); every call returns (`CallsReturn`). |
| `declaration_references` (violation) | The reference that a find or an add took is followed while another thread has erased or is assigning the entry (`ReferenceValid`). The programs race at one level, between two, and with overloads; with `SafePrograms` the property holds. |

The stricter claim, that a find returns what was visible at some moment of it
(`FindsVisible`), fails in programs that `RacesApart` allows: the find looks at the
empty child, another thread adds the name to the child and then to the parent, and the
find returns what the parent got, which the child hid from the first (3.8). Where
clients do not keep to `EachAlone`, an enumeration may provide neither the
declaration an add with overwrite hides between the two levels nor the one that hides
it (3.8); where they do not keep to `RacesApart`, a find may also return nothing though
the name was declared throughout: one thread looks for it while another gives it
to the child with overwrite and removes it from the parent.

### 3.3 Selection push down

Plans over tables (a, b) and (c, d): every pair of middle operators under every
filter of a set that has terms of no, one and two variables and NULL tests;
every join kind with conditions on one side, on both and constant, under
filters likewise; set operators; a buffer read twice, a buffer under a join; an
operator that is refused: about 2700. Two operators between filter and table,
or one on each side of a join and a filter above, are the smallest plans on which two
handlers act on the same term; a third of the same kind adds no new pair.

| run | shows |
|---|---|
| `push_down_plans` | In every state no term is lost (`NoTermLost`), and none is applied where a variable it uses is missing (`AppliedOnlyWhereDefined`). At the end the rows are rows the given plan could produce (`ResultPreserved`). |
| `push_down_copies` (violation) | A term copied above distinct or limit goes on without the variables it uses and passes the apply that declares them. |

Aggregates without keys under a constant term are not among the plans (see the
hazard at `push_down_filters.cpp:321`), nor are limits with sort keys, where a
copied term changes what the limit keeps, which a test of the repository expects.

### 3.4 Predicates

| run | shows |
|---|---|
| `predicates`: ranges | All conditions of up to three comparisons over a column, with an exact and an approximate family of immediates, an infinite value, NULL and a host variable, and all values of them: hints are implied (`HintsImplied`, with the types in `TypeOK`), the rows the same (`SameRows`); and the merge of two bounds is as tight as a single bound can be (`MergedExactly`), which implication alone does not say. That columns do not interact is in the theorem. |
| `predicates`: constants | All conditions of up to four operands: claims are true (`ResultSound`), no row is gained or lost (`RowsKept`). |
| `predicates`: LIKE | All patterns of up to four characters (wildcards, escapes before anything, an escape that is a wildcard or has two characters, an escape at the end) against all texts of up to three: the replacement accepts the same (`SameTexts`). Three characters of text separate prefix, equality and the range's upper end. |
| `simplify_or` (violation) | The pair of results that `predicates` avoids. Four operands are the least at which it shows: the wrong claim is negated and tested above. |

### 3.5 Step plan and liveness

Sources are empty, hold equal rows, or rows with different keys, one with and
one without a partner, on each side. Each operator under each strategy, hint
and combination of features; chains with an escape, a projection, an index
join, values, a table function, a write, a buffer with two outputs, a self
join, a refused operator; and processes whose rows go several ways with
variables of their own on each; a buffer that feeds both inputs of a join, with an
aggregate on one way or not, and two buffers that feed two joins crosswise: 4221 plans,
285706 states.

| run | shows |
|---|---|
| `step_plans` | The rows at the sinks stay the same over each replacement and through the columns of the finished plan (`SameRowsThroughout`); an operator is in one process with its neighbours (`InOneProcess`); every exchange is filled and read by exactly one, and processes wait in a circle only where one passes a join by on another branch of a buffer (`RunsToTheEnd`; the plans with a shared buffer do, see 3.8); exchanges and offers carry what is used and nothing else (`CarriesWhatIsUsed`); no pass throws or meets a graph it takes for broken (`NeverBroken`). Of the blocks: what is killed before a block is used neither in it nor further down (`KilledNeverUsed`), and on each way from its definition a variable is killed once, and as early as it can be (`KilledOnEachWay`). Deadlock is checked: the builder stops only when it returns, or where its steps have no order. |

### 3.6 The compiler

Two tables with keys of one and two columns, ranges, unique and plain indexes
that can find, scan or both; joins of each kind with conditions of equalities,
ranges, NOT and sums; scans under filters; projections that repeat columns;
scalar subqueries, EXISTS and quantified comparisons in each context, negated
and not, of no row and of some, in values, in apply, in a copy of a relation
subquery around each operator: 1353 plans, each under seven typings (small
integers that unify to a larger one, decimals, approximate numbers, unknown,
intervals, character strings, a pending type and a wrong number of arguments)
and three sets of restricted features; 180074 states.

| run | shows |
|---|---|
| `optimizer` | Every state with a meaning, between the plan as given and the finished step plan, has the rows of the plan as given (`SameRowsCompiled`). One pass over unused columns leaves none (`NothingUnused`). An index is searched by its whole key where it can find, and ranged over by a beginning of it where it is sorted (`IndexesAsTheyAllow`). No subquery is left, a finished plan has an exchange or a join of a kind only if the options offer it, and semi and anti joins only if the given plan asks for them somewhere (`OnlyWhatRuns`). A plan whose types are accepted at first is accepted at the end, with the same types at its sinks, whatever exchanges and keys were made of it (`TypesKept`, but for comparisons that become search keys, see 3.8). What is left unresolved has been reported (`NeverSilent`, but for calls with a wrong number of arguments, see 3.8). Deadlock is checked. |

### 3.7 Types and statements

Folds of up to three types: a fold is wrong at the first step whose result
does not hold an operand, and order needs three types to matter. Two unique keys,
since one may be refused or fail before the other.

| run | shows |
|---|---|
| `types` | The common type holds all (`HoldsAll`), does not depend on the order (`OrderIrrelevant`), and the tables of assignments, casts and parameters agree with it and with each other (`RulesAgree`). The result of arithmetic is of a type that holds both operands, and a concatenation has room for both (`OperandsFit`). What has no type though its operands do is reported, what has none because of an operand is not reported once more, and an operator has one diagnostic, but for a match, with one for each operand, and a comparison without a common type, which has two (`ReportedOnce`, see 3.8). In a second part, a table is created with a primary key and up to two unique keys, declared for it or for another table, with columns of three types (sorted, only compared, neither) and every kind of default; an index is created; or values are written: what is compiled to define a table is all of the table that was made, and its types are those that were checked (`OneTableDefined`). |

### 3.8 Known deviations

Each of these was seen as a counterexample of TLC. The instance named shows it
again when it takes the place of the one in the run's configuration.

| where | what the code does | instance, property |
|---|---|---|
| `include/storage/basic_configurable_provider.h:416` | bless is called after the insertion: an element another provider owns stays registered in the one whose add throws | `Request <- SharedRequests`; `HeldIsOwned` without its exception |
| `include/storage/basic_configurable_provider.h:405` | the element an overwrite replaces is not unblessed and keeps an owner that does not provide it | `Request <- OverwriteRequests`: an owner has the element |
| `include/storage/basic_configurable_provider.h:203` | find_primary_index asks itself in place of its parent and does not end | `Request <- PrimaryRequests`, with the elements of `StorageContents.cfg`: the search returns |
| `include/variable/basic_configurable_provider.h:59` | a find returns a declaration of the parent that was hidden from the moment it was made | `declaration_references` with `Programs <- OvertakingPrograms`, `FindsVisible` |
| `include/variable/basic_configurable_provider.h:46` | an enumeration provides neither the declaration that is hidden between its two levels nor the one that hides it | the same run with `Programs <- HidingPrograms`, `EachProvidesAll` |
| `push_down_filters.cpp:81` | the term of a join condition of one term refers to the whole condition; terms merged into it move away with it | `Plans <- MergePlans`, `AppliedOnlyWhereDefined` |
| `conversion.cpp:490` | the common type of bit(4) and bit(8) is bit varying(4) | `Types <- Bits`, `HoldsAll` |
| `collect_exchange_steps.cpp:441` | co-groups of an anti join demand rows of the right input | `Plans <- AntiPlans`, `SameRowsThroughout` |
| `detect_join_endpoint_style.cpp:53` | a host variable as a join key is taken for a column of the left input | `Plans <- HostPlans`, `SameRowsThroughout` |
| `storage/resolve_prototype.cpp:47` (under `src/`) | a prototype that is refused without a diagnostic stays in the statement, which is compiled; of a primary key, the whole table does | `Answers <- SilentRefusals`, `OneTableDefined` |

Others were met while reading the code for the chain of section 2; the models
do what the code does, and the plans, the conditions of the properties or the
options of the runs say where they are left out.

| where (`src/analyzer/`) | what the code does |
|---|---|
| `details/stream_variable_flow_info.cpp:49` | there is no handler for apply: a condition above a join above an apply ends in an exception |
| `details/default_index_estimator.cpp:41` | a range bounded on both sides after an equality is not used |
| `details/rewrite_scan.cpp:181` | bounds are set on an index without the feature to be scanned |
| `details/rewrite_join.cpp:287` | of two indexes with equal scores the one listed first is taken, so that the plan depends on the order of the listing |
| `details/remove_unused_stream_variables.cpp:93` | the key columns of a join's endpoints are not marked as used |
| `details/remove_unused_stream_variables.cpp:168` | a mapping of a distinct union is removed with its variable, and rows become equal |
| `details/collect_local_variables.cpp` | an expression inlined for a variable used twice has its functions called twice |
| `details/remove_variable_aliases.cpp` | with external variable inlining, group keys and sources become host variables and an outer join does not extend them with NULL |
| `details/expand_subquery.cpp:1131` | the left side of a quantified comparison is not searched for subqueries |
| `details/rewrite_stream_variables.cpp:221` | in a copied subquery the variables of join keys' columns keep their names |
| `expression_analyzer.cpp:2318` | the columns of an aggregate are given up without a diagnostic, and the compiler succeeds with variables that have no type |
| `details/collect_exchange_steps.cpp:371` | a buffer that feeds both inputs of a broadcast join, or two buffers that feed two such joins crosswise, make processes that wait for themselves, and nothing refuses such a plan: push_down_selections stops above a buffer (`push_down_filters.cpp:414`). The step graph has a circle, for which `collect_exchange_columns.cpp:574` has no order to visit it in |
| `expression_analyzer.cpp:358`, `:563` | a comparison of types without a common type is reported twice: as inconsistent, and since the error that stands for the type is not comparable. The compiler refuses it either way |
| `expression_analyzer.cpp` | no resolver for relation::escape; a NULL operand is refused for temporal addition, multiplication by an interval, ordering of two NULLs and LENGTH |
| `expression_analyzer.cpp:2024` | resolving a second time with the same mapping changes types; the compiler clears the mapping between |
| `expression_analyzer.cpp:1761` | the columns of unique keys are not checked to be comparable, those of the primary key and of create_index are |
| `../storage/resolve_prototype.cpp:34` | a storage that is no index stays as it is (`FIXME: error`) |
| `../compiler.cpp` | a key of an exact type compared with an approximate value, NULL or an interval is refused after the optimizer made a search of it, though it can be evaluated |
| `variable_liveness_analyzer.cpp:400` | a variable used last just before the rows part fails an assertion; without assertions it is killed in the block that defines it, before it is used |
| `variable_liveness_analyzer.cpp:448` | asked for definitions alone, the analyzer takes uses for computed too |
| `type/conversion.cpp:106` (under `src/`) | unknown and an extension type have no common type |
| `block.cpp:261` | disconnect tests a port for having no opposite and then follows it; nothing in the repository moves the ends of a block that is connected |

## 4. Fairness and deadlock

Safety runs assume none. Where a property says "eventually":

- `StorageProvider` (`MCSpec` of `MCStorageProviderLive`): weak fairness of each
  thread's next step. The operating system runs every thread that can run.
  `std::shared_mutex` promises no order, so a thread could starve behind an
  endless series of readers; `storage_returns` bounds the calls of each thread
  (`Budget`) so that such a series ends, rather than assume a fair mutex.
- `DeclarationProvider`: weak fairness of steps and strong fairness of acquiring a
  lock, with the number of calls bounded (`MaxCalls`); with finitely many calls a lock
  is not taken away from a waiting thread for ever.

The compiler is one sequential program. Its specifications have no fairness:
every step takes work away (`todo`, `worklist`, `visited`, the phases), so that
it ends or gets stuck, and getting stuck is what the deadlock check of `step_plans` and
`optimizer` looks for. The end states stutter by an action of their own (`Returned`
and the last disjuncts of `LivenessNext` and `TypesNext`); any other state without
a step is an error.

`CHECK_DEADLOCK FALSE` stands where the system stops: a fold or a pass ends, a bounded
number of calls is used up. In `storage_contents`, where the recursion of
find_primary_index may keep the locks for ever, that no other call gets stuck is left
to `storage_returns`.

## 5. Theorems

### 5.1 StorageProviderProofs

Assumptions: `ChainAssumption` (a chain starts with its provider and has no
repetitions), `ElementAssumption` (kinds, names and the null values), `ThreadAssumption`. Any number of
threads, providers, levels, names and elements.

The inductive invariant is `IndInv`: types, `LocksHeld`, `WalkedPastNothing`,
`SeenIsCurrent` and `EntryStays`. `LocksHeld` is inductive by itself over the
types: a call that has walked to `level` holds the reader locks below, a writer
that asks parents holds its writer lock. The others need it: an entry changes
only under the writer lock of its provider, which a walking thread's reader
lock excludes. `IndInv` then gives the refinement: at the moment a lookup
answers, everything below its level is as it was when it passed, so the answer
is the one the whole hierarchy has *now*, which is the step of
`ProviderContents`. The mapping is `Contained == INSTANCE ProviderContents WITH ...`: maps, calls and
replies as they are, the locks and positions forgotten.

| theorem | establishes |
|---|---|
| `TypeCorrect` | `Spec => []TypeOK` |
| `LocksCorrect` | `Spec => []LocksHeld` |
| `OwnersCorrect` | `Spec => []HeldIsOwned`, by `OwnerInv` |
| `WalkCorrect`, `SeenCorrect`, `EntryCorrect` | the three invariants that rest on the locks |
| `Refinement` | `Spec => ImplementsContents` |

`HeldIsOwned` speaks of the moments at which nobody writes, so it says nothing of
the steps in which it is established. `OwnerInv` does: a provider holds only what
it was offered, an owner was offered what it owns, and an element that was offered
to one provider alone is owned by the provider that holds it *or* the writer of that
provider stands between its insertion and the end of bless. That no
other thread changes the entry meanwhile is `EntryStays`.

### 5.2 RangeHintsProofs

Assumptions: values are integers and NULL is none of them; approximate families
are among the families, infinite values among the values. Any columns, host
variables, families, any condition size.

`IInv` is `TypeOK /\ HintsImplied /\ DoneIsLast`. The lemmas `IntersectKeeps`
and `UnionKeeps` say that a value within one bound (both bounds) is within the
merged one, by cases on the kinds of bounds and on whether the values can be
compared; `MapsKeep` lifts them to maps of columns; `ExtractKeeps` is the
comparison handler. `TypeOK` matters for the argument: a bound that became infinite must
have dropped its value, or a later union would compare with it.

| theorem | establishes |
|---|---|
| `TypeCorrect` | `Spec => []TypeOK` |
| `HintsCorrect` | `Spec => []HintsImplied`: a row the condition accepts is within its hints |
| `FilterCorrect` | `Spec => []SameRows`: the added terms change nothing |
| `MergesCorrect` | `Spec => MergedExactly`: each merge is exactly the conjunction or the disjunction of the two bounds |

The first three would hold of a pass that dropped every hint. `MergesCorrect` is about
steps and says the converse: where two bounds can be compared, a value is within the
merged one of a conjunction only if it is within both, and within that of a disjunction
only if it is within one of the two (`BoundsExact` for bounds, `MapsExact` for maps of columns).
### 5.3 TypeConversionProofs

Assumption: `Types \subseteq SqlType`; for `FoldHolds` and `OrderCorrect` also that
no type is a bit string (3.8). A fold has any number of types. The other theorems about `Spec` include bit strings.

`AllBecome`, the invariant of `RulesCorrect`, has each type that was folded `Becomes`
the result: NULL anything, an exact number any number, an approximate one an
approximate one, a string one of another length. The relation is transitive, closed under `Unify`, and
allowed by the table of assignments, which ties the five tables together; that
parameter passing is an order within it goes by the rank of a kind (`Ranks`).

| theorem | establishes |
|---|---|
| `RulesCorrect` | `Spec => []RulesAgree` |
| `OperandsCorrect` | `Spec => []OperandsFit`, by `ArithmeticHolds`, `SignHolds`, `Concatenated` |
| `ReportsCorrect` | `Spec => []ReportedOnce`, operator by operator, counting diagnostics (`DiagnosticsWithin`) |
| `CommonTypeHolds` | `Unify` of two types holds both or is an error |
| `CommonTypeCommutes` | `Unify` does not depend on which comes first |
| `FoldHolds` | `Spec => []HoldsAll`: by the inductive invariant `Folding` and transitivity of `Holds`, a fold of any length holds all |
| `CommonTypeLeast` | `Unify` gives an error only if there is no common upper bound, and the least one otherwise |
| `OrderCorrect` | `Spec => []OrderIrrelevant` |

That a fold gives the same type in every order of its operands does *not* follow
from associativity: folds that begin with one type, with NULL, or that stop at an
error differ. The proof makes the result independent of the order by what it *is*.
`Within(t, v)` is an order on the types, bit strings excepted, and `CommonTypeLeast`
says that `Unify(t, w)` is the least type within which both are. By the invariant
`LeastSoFar` a fold that has not failed has the least type within which all types so
far are (`Least`), or, where it keeps a single type as it is, that type (`Kept`); the
least one is unique, and depends on the set of types only. The property
compares with `Reduced`, a recursive function, on each permutation; that a recursive function
has a value, and which one, is proved by its *least exception*: among the
numbers at which it would have another there is a least one (`LeastException`, from
the well-foundedness of the naturals), and it has none.

### 5.4 PredicatesProofs

Constants (`SimplifyPredicate`). Assumption: `WrongPairAvoided`, that no condition joins by OR a part that is not
sure with one that is false or unknown (the finding of `simplify_or`). Conditions of
any size, so any number of operands.

The inductive invariant is `Visiting`: every part on the stack is `Faithful`, which
is two facts that need each other. The claim of its result allows the value it has,
and the part as it was rewritten has that value still; AND and OR
throw an operand away because of the claim about it, and the claim about what
remains is only true if it kept its value. `UnaryFaithful`, `AndFaithful` and
`OrFaithful` go through the tables of the code.

LIKE (`PrefixMatch`). Assumption: `PrefixAssumption` (the wildcards are characters, codes are those of different bytes,
none is \xff). Any characters, patterns, escapes and texts, of any length.

The loops of the code are recursive functions of the position in the pattern, and so
is the LIKE of the executor, `Match`, which goes the other way. The
argument is one induction along the pattern (`PrefixMatched`): as long as no
wildcard that is not escaped has come, the pattern matches a text exactly if the text
starts with what was decoded so far and the rest of the pattern matches behind
that. It goes on by one ordinary character or by an escape and the
character behind it, which the scan for the prefix must never cut apart (`ConstantPrefix`). At the
end of the prefix, the rest of the pattern is nothing (equality), wildcards for
anything (`AnyTail`: it matches from everywhere) or unknown (the LIKE is kept).
`PrefixRange` says that the texts not before the prefix and before the prefix
with \xff are those that start with it, since \xff is above any byte of a text.

| theorem | establishes |
|---|---|
| `ClaimsCorrect` | `WrongPairAvoided` implies `Spec => []ResultSound` |
| `RowsCorrect` | `WrongPairAvoided` implies `Spec => []RowsKept` |
| `TextsCorrect` | `PrefixSpec => []SameTexts` |

### 5.5 StatementsProofs

Assumptions: `GivenAssumption` (an index that is given is of one table, and the primary
key of the table defined) and `RefusalsReported` (the deviation of 3.8). Any
tables, any number of unique keys, of keys and of values, any completion by the runtime.

The inductive invariant is `Resolving`: while nothing is reported, every index
before the current one is made for the table (`Progress`), those after it are as
given, and the definition is the copy as soon as the primary key is made. An early
return after a refused primary key passes over all unique keys, and is harmless only
because it is reported. `CopyMade` is the lemma about `create_index_copy`.

| theorem | establishes |
|---|---|
| `OneTable` | `RefusalsReported` implies `StatementSpec => []OneTableDefined` |

### 5.6 DeclarationProviderProofs

Assumptions: `ProviderAssumption`, `CallsAssumption`, `ContentsAssumption` (only
functions are overloaded, types have no parent). Any threads, names, calls and contents.
`FindsCorrect` assumes `RacesApart(Calls)`, `EachCorrect` that `EachAlone(Calls)` where
variables are among the contents (2.2). Both are conditions on the clients; the runs of
3.2 show that the classes do not provide for them.

All invariants speak of one thread at a time, and what other threads can do to it
is in the lemmas about the table: an entry is added, replaced or removed,
by a writer, at one provider and name (`Grown`, `Replaced`, `Shrunk`, `Untouched`).

- `TypeOK` has with the types where a call can be (`PlaceOK`) and that what is
  visible now is in `seen` (`SeenOK`).
- `LocksHeld` gives the locks a thread holds exactly, as a function of its place: a
  thread at `put` excludes all others, a thread that enumerates excludes writers.
- `RefInv`: a reference is 0 or in the list of the name that the call is about, in the
  provider it was called on or in its parent; `OneList`: an entry is in one list. Together,
  `ReferencesSettled`: under `RacesApart` what a find or an add follows is `Settled`.
- `FindInv`: of a find that is in the parent, whatever the child has came after the find began
  (`PastOwn`), and the parent's declaration is an answer (`Answers`): it was visible, or is younger
  than one that came to hide it.
- `EachInv`: of each name asked for, either something visible has been provided, or nothing was
  visible at some moment, or the child has none and the parent's is still to
  come (`Pending`).

| theorem | establishes |
|---|---|
| `TypeCorrect`, `LocksCorrect` | `Spec => []TypeOK`, `Spec => []LocksHeld` |
| `FindsCorrect` | `RacesApart(Calls)` implies `Spec => []FindsDeclared` |
| `EachCorrect` | the condition on variables implies `Spec => []EachProvidesAll` |

### 5.7 PushDownSelectionsProofs

Assumption: `PlansAssumption` (2.3). Any plan, of any number of operators, terms and buffers;
any order of the bottoms; any answer of the flow information, the exception included.

What could lose a term is that a reference dangles or that two references name
the same place. A reference is a position in the condition of an operator; `release` empties the
place, or the whole condition where it is named as a whole, `flush` moves the inputs
of an operator to a new filter, and meanwhile other tasks wait with masks that name the
same references. The inductive invariant `PushInv` says that some set `unseen` of
operators divides the plan (`Consistent`):

- all that the pass may come to from an unseen operator is unseen (`Ahead`);
- references name places in operators that were seen, and a condition that is named as a whole is
  named once (`References`), so to take one term out never takes another's place away;
- tasks are about different unseen operators, whose consumers have all been seen,
  and who have a consumer if their mask is not empty (`Waiting`), so the edge where a filter
  goes exists.

Visiting an operator takes it out of `unseen` (`PoppedIsVisiting`). Its handler is a
composition of scans of masks and of passes to its inputs, and each part has its
lemma: one predicate that is flushed, copied, merged or counted (`StepKeeps`) keeps the
record consistent and the inputs of the operator that are still to be passed (`Later`); so
does a scan of a mask (`ScanKeeps`, by the least exception), and a pass adds one task
(`PassKeeps`). It is essential that a filter never goes to an input that is still to be passed, or
the next task would be about the filter: a handler flushes on its output, and a buffer's filters go
on the one edge that leaves it (`OnEdge`).

| theorem | establishes |
|---|---|
| `TermsKept` | `Spec => []NoTermLost` |

### 5.8 StepPlanProofs

Assumption: `PlansAssumption` (2.5). Any number of operators in any plan that is a graph
without cycles, buffers and self joins too, in any order of the handlers; any strategies and
features.

The inductive invariant is `StepPlanInv`, two parts:

- `GraphInv`, while collect_exchange_steps replaces operators: the names made for an operator are
  new (`Named`), every operator has its inputs among the others (`Wired`), an exchange
  has an offer and exactly one reader, and nothing follows an offer (`Piped`), and
  the operators are ordered by `Edges`: along the rows *and* through the exchanges. That order is
  what no single handler shows. It is stated by sets, so that no path need be
  named: among any operators one follows none of them and one is followed by none. `OrderKept`
  replaces a node by an ordered graph; what the handlers put in place of an operator is a
  `Replacement` (one lemma each: `CogroupJoinFits`, `BroadcastJoinFits`, ...).
- `ProcessInv`, while collect_process_steps takes operators away: a process is a set
  that operators enter and leave by exchanges only. When all operators that are replaced are gone,
  an operator has at most one input; so what follows a head is reached from that head only.
  do_collect is a recursion along the graph (`DownstreamIs`: it has a
  value, the least set with the head that is closed under what follows, since operators for which it
  had none would have a last one).

`NobodyWaits` supposes a set of processes that wait for each other, none of which passes a join by
on another branch of a buffer (`OtherBranch`), and looks at the operators that read what one of
them offers, with all that follows those. The first of them in the order is a reader, since what
follows is not first. What it reads was offered by a waiting process, and that process has a
reader too: its take, which everything in the process follows, or a join, which the offer follows
since the process does not pass it by. Either way the offer is one of the operators looked at, and
comes before the first. Without the exception the claim is false, and no assumption about
plans would save it: the compiler accepts the buffers that break it (3.8), which are among the
plans of `step_plans`.

| theorem | establishes |
|---|---|
| `OneProcessEach` | `Spec => []InOneProcess` |
| `ExchangesHaveBothEnds` | the first half of `RunsToTheEnd`, of every plan |
| `RunsCorrect` | `Spec => []RunsToTheEnd`: a circle needs another branch of a buffer |

### 5.9 Only model-checked

- Liveness: `EveryCallReturns`, `CallsReturn`. The provers at hand
  have no rule for fairness.
- The properties of the compiler's chain behind its first three passes (`SameRowsThroughout`, `CarriesWhatIsUsed`, `NeverBroken`, `KilledNeverUsed`,
  `KilledOnEachWay`, `SameRowsCompiled`, `NothingUnused`, `IndexesAsTheyAllow`, `OnlyWhatRuns`,
  `TypesKept`, `NeverSilent`) and `ResultPreserved`: they compare rows or walk expressions,
  which are trees, by RECURSIVE operators of `StreamVariables`, of the modules that extend
  it, of `StepMeaning` and of `PlanMeaning`. The provers translate no module that reaches one.
  What *recursive functions* compute can be proved, by the least exception (5.3) or
  a last one in a graph without cycles (5.8).
- `AppliedOnlyWhereDefined`: it does not hold of any plan (3.8), only of
  those without merges into a join condition of one term, and no proof has been written.

## 6. Bounds and what is not modelled

| bound | value | why it is enough |
|---|---|---|
| `Budget` | 2 | a thread that was served competes once more |
| `MaxCalls`, `MaxEntries` | 2, 9 | every call against every other; five entries at the beginning and four adds |
| `MaxRangeOperands` | 3 | a union of intersections and its converse; the theorems have no bound |
| `MaxOperands` | 4 | results are a finite lattice, all of which three operands reach |
| `MaxPattern`, `MaxText` | 4, 3 | prefix, escape, escaped character, wildcard; the theorem has no bound |
| `MaxLength` (`TypeConversion`) | 3 | associativity; the theorem has no bound |
| unique keys (`Given` of `MCTypes`) | 2 | one after another that is refused or fails; the theorem has no bound |

Abstractions that matter:

- `PlanMeaning`, `StepMeaning` are not of this repository: the executor gives
  operators their meaning. They are read from the documentation of takatori's
  operators and from how the passes treat them. That a *mandatory* group must
  not be empty is read from the table of join kinds itself.
- Join keys of the sources in `StepMeaning` are never NULL. Terms in
  `PlanMeaning` are tests of the variables they use; a term without variables is false.
- Expressions of the compiler's chain are few: a sum stands for any binary
  operator, a comparison for any of its kind. The other operators have their types in `ExpressionTypes`.
- Statistics are absent:
  rewrite_join and collect_join_keys decide by strategy and estimator only.
- A write in a plan is an insert. Inspecting an expression or a statement without
  compiling it is left out; it is one call of the analyzer.
- Types and defaults of columns are in `Statements` all there is of a table's contents;
  descriptions, identifiers and criteria are copied along.
- Where processes wait in a circle the builder's model ends with the third pass: the order
  in which takatori would visit the steps is not known.
- Temporal promotions, which no code calls, and the types of tables and row
  identifiers are left out of `SqlTypes`.
- A consumer of `each` that calls back into the provider.

Not modelled, because there is nothing in them for a model checker: the
serializer (output), binding descriptors, storage elements, the schema catalog, aggregate and join information
(records with accessors), variable criteria (trees with structural equality),
the object cache (whether an object is shared no caller can tell);
decompose_projections, which no pass calls.

## 7. What is left

In the order in which it would add most:

1. push_down_selections on the plans of the chain, with `predicate_info` kept
   over operators of `StepPlan`'s form, so that `optimizer` needs no conditions in place.
2. Statistics in rewrite_join and collect_join_keys.
3. Theorems: `AppliedOnlyWhereDefined`, for the plans of which it holds; liveness sets as a fixed
   point, with the walks of expressions written as functions.

## 8. Running

In this directory, `tlc -config StorageContents.cfg MCStorageProvider.tla`
checks a run (the module of each is in `PROJECT.json`), `tlapm
StorageProviderProofs.tla` a proof. Runs take seconds to about two minutes.
