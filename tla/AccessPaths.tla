------------------------------ MODULE AccessPaths ------------------------------
(***************************************************************************)
(* The last passes of the intermediate plan optimizer.                     *)
(*                                                                         *)
(*   rewrite_join       a join with a scan becomes a search in an index    *)
(*                      for each row of the other input                    *)
(*   collect_join_keys  the terms of a join condition that compare columns *)
(*                      of one input become search keys of the join        *)
(*   rewrite_scan       the terms of the filters after a scan become       *)
(*                      search keys of one of the indexes of the table     *)
(*   remove_redundant_conditions                                           *)
(*                                                                         *)
(* The statistics of rewrite_join and collect_join_keys are always absent, *)
(* and the index estimator is the default one.  A scan has the indexes of  *)
(* its table, in the order the storage provider lists them: an index has   *)
(* its key columns, its other columns and its features.                    *)
(***************************************************************************)
EXTENDS VariablePasses

-----------------------------------------------------------------------------
\* search_key_term_builder: the terms of conditions that compare a key with something else

CONSTANT None   \* no bound, no result

Negated(cmp) ==
  CASE cmp = "=" -> "<>" [] cmp = "<>" -> "=" [] cmp = "<" -> ">=" [] cmp = ">=" -> "<" [] cmp = ">" -> "<=" [] cmp = "<=" -> ">"
Transposed(cmp) ==
  CASE cmp = "<" -> ">" [] cmp = ">" -> "<" [] cmp = "<=" -> ">=" [] cmp = ">=" -> "<=" [] OTHER -> cmp

IsKey(value, keys) == value.is = "column" /\ value.name \in keys
RefersTo(value, keys) == OperandUses(value) \cap keys # {}

FactorAsWritten(at, t, keys) ==   \* mutant: NOT is overlooked
  IF IsKey(t.left, keys) /\ ~ RefersTo(t.right, keys)
    THEN {[key |-> t.left.name, cmp |-> t.cmp, value |-> t.right, at |-> at]}
  ELSE IF IsKey(t.right, keys) /\ ~ RefersTo(t.left, keys)
    THEN {[key |-> t.right.name, cmp |-> Transposed(t.cmp), value |-> t.left, at |-> at]}
  ELSE {}

\* factor_info; at is where the term stands: its operator and the term itself
Factor(at, t, keys) ==
  LET cmp == IF t.negated THEN Negated(t.cmp) ELSE t.cmp
  IN  IF IsKey(t.left, keys) /\ ~ RefersTo(t.right, keys)
        THEN {[key |-> t.left.name, cmp |-> cmp, value |-> t.right, at |-> at]}
      ELSE IF IsKey(t.right, keys) /\ ~ RefersTo(t.left, keys)
        THEN {[key |-> t.right.name, cmp |-> Transposed(cmp), value |-> t.left, at |-> at]}
      ELSE {}

\* add_predicate, for the conditions of some operators
Factors(xs, keys) == UNION {UNION {Factor(<<x, t>>, t, keys) : t \in ops[x].cond} : x \in xs}

\* build_term: each equality is a term; the first bounds met on either side are one, in no order
\* the code decides.
Equal(f) == [equivalent |-> TRUE, value |-> f.value, uses |-> {f.at}, lower |-> None, upper |-> None]
RangesOf(lowers, uppers) ==
  {[equivalent |-> FALSE, lower |-> l, upper |-> u, uses |-> {f.at : f \in {l, u} \ {None}}] :
     l \in IF lowers = {} THEN {None} ELSE lowers, u \in IF uppers = {} THEN {None} ELSE uppers}
EqualTerms(factors, key) == {Equal(f) : f \in {f \in factors : f.key = key /\ f.cmp = "="}}
RangeTerms(factors, key) ==
  LET lowers == {f \in factors : f.key = key /\ f.cmp \in {">", ">="}}
      uppers == {f \in factors : f.key = key /\ f.cmp \in {"<", "<="}}
  IN  IF lowers \cup uppers = {} THEN {} ELSE RangesOf(lowers, uppers)
FullBounded(term) == None \notin {term.lower, term.upper}

\* find: of several terms of a key it is one, the same each time.
Finds(factors) ==
  LET keys == {f.key : f \in {f \in factors : f.cmp # "<>"}}
      of(k) == EqualTerms(factors, k) \cup RangeTerms(factors, k)
  IN  {found \in [keys -> UNION {of(k) : k \in keys}] : \A k \in keys : found[k] \in of(k)}

\* purge: what became a search key is no condition any more.
Purged(graph, uses) ==
  [x \in DOMAIN graph |->
     IF \E u \in uses : u[1] = x THEN [graph[x] EXCEPT !.cond = @ \ {u[2] : u \in {u \in uses : u[1] = x}}] ELSE graph[x]]
UsesOf(terms) == UNION {terms[i].uses : i \in DOMAIN terms}

-----------------------------------------------------------------------------
\* rewrite_criteria: search keys and endpoints out of terms, the columns they search given

SearchKeys(columns, terms) == [i \in DOMAIN terms |-> [column |-> columns[i], value |-> terms[i].value]]

\* Only the last term may be a range; a side without a bound ends with the keys before it.
EndpointAt(keys, column, bound, inclusive) ==
  IF bound # None THEN [kind |-> IF bound.cmp = inclusive THEN "inclusive" ELSE "exclusive",
                        keys |-> Append(keys, [column |-> column, value |-> bound.value])]
  ELSE [kind |-> IF keys = <<>> THEN "unbound" ELSE "inclusive", keys |-> keys]

EndpointsClosed(columns, terms) ==   \* mutant: a bound is taken as inclusive
  IF terms = <<>> THEN <<Unbound, Unbound>>
  ELSE LET n == Len(terms)
           keys == SearchKeys(columns, Front(terms))
           last == Append(keys, [column |-> columns[n], value |-> terms[n].value])
       IN  IF terms[n].equivalent
             THEN <<[kind |-> "inclusive", keys |-> last], [kind |-> "inclusive", keys |-> last]>>
             ELSE <<EndpointAt(keys, columns[n], IF terms[n].lower = None THEN None ELSE [terms[n].lower EXCEPT !.cmp = ">="], ">="),
                    EndpointAt(keys, columns[n], terms[n].upper, "<=")>>

Endpoints(columns, terms) ==   \* fill_endpoints, add_endpoint_term
  IF terms = <<>> THEN <<Unbound, Unbound>>
  ELSE LET n == Len(terms)
           keys == SearchKeys(columns, Front(terms))
           last == Append(keys, [column |-> columns[n], value |-> terms[n].value])
       IN  IF terms[n].equivalent
             THEN <<[kind |-> "inclusive", keys |-> last], [kind |-> "inclusive", keys |-> last]>>
             ELSE <<EndpointAt(keys, columns[n], terms[n].lower, ">="), EndpointAt(keys, columns[n], terms[n].upper, "<=")>>

-----------------------------------------------------------------------------
\* scan_key_collector, and the index estimator

\* The filters that follow x one after the other, and what follows them.
Chain(x) ==
  LET chain[y \in DOMAIN ops] ==
        LET next == Followers(y)
        IN  IF Cardinality(next) = 1 /\ \A z \in next : ops[z].op = "filter"
              THEN {z : z \in next} \cup chain[CHOOSE z \in next : TRUE] ELSE {}
  IN  chain[x]

Destination(scan, column) == SelectSeq(scan.columns, LAMBDA c : c[1] = column)

\* build_search_key: the terms of the leading keys of the index, up to one that is no equality.
LeadingTerms(index, scan, found) ==
  LET has(i) == \E c \in AllOf(scan.columns) : c[1] = index.keys[i] /\ c[2] \in DOMAIN found
      term(i) == found[(CHOOSE c \in AllOf(scan.columns) : c[1] = index.keys[i])[2]]
      n == Max({0} \cup {n \in DOMAIN index.keys : \A i \in 1 .. n : has(i) /\ (i < n => term(i).equivalent)})
  IN  [i \in 1 .. n |-> term(i)]

IsUnique(index) == index.features \cap {"unique", "unique_constraint"} # {}

ChecksPrefix(index, terms) ==   \* mutant: a key that starts like the index key is enough to find
  (IF "find" \in index.features /\ terms # <<>> /\ \A i \in DOMAIN terms : terms[i].equivalent
     THEN {"find"} \cup (IF IsUnique(index) THEN {"single_row"} ELSE {}) ELSE {})
  \cup (IF "scan" \in index.features /\ terms # <<>> THEN {"range_scan"} ELSE {})

\* check_keys.  An equality has no bounds, so a range with two after one is taken for more than
\* one dimension.
ChecksKeys(index, terms) ==
  IF terms = <<>> \/ (Len(terms) > 1 /\ ~ Last(terms).equivalent /\ FullBounded(Last(terms))) THEN {}
  ELSE (IF "find" \in index.features /\ Len(terms) = Len(index.keys) /\ Last(terms).equivalent
          THEN {"find"} \cup (IF IsUnique(index) THEN {"single_row"} ELSE {}) ELSE {})
       \cup (IF "scan" \in index.features THEN {"range_scan"} ELSE {})

IsIndexOnly(index, scan) == AllOf(Firsts(scan.columns)) \subseteq AllOf(index.keys) \cup index.values

\* default_index_estimator: the score is three times the real one, to be a whole number.
Estimated(index, scan, terms) ==
  LET attributes == ChecksKeys(index, terms)
      n == Len(terms)
      selected == IF n = 0 THEN 3
                  ELSE 10 ^ (n - 1) * (IF Last(terms).equivalent THEN 30 ELSE IF FullBounded(Last(terms)) THEN 10 ELSE 5)
  IN  [index |-> index, terms |-> terms,
       attributes |-> attributes \cup (IF IsIndexOnly(index, scan) THEN {"index_only"} ELSE {}),
       score |-> selected * (IF "single_row" \in attributes THEN 8 ELSE 1) * (IF IsIndexOnly(index, scan) THEN 2 ELSE 1)]

IsBetter(saved, result) ==
  \/ saved = None
  \/ "single_row" \notin saved.attributes /\ "single_row" \in result.attributes
  \/ saved.score < result.score

IndexKeys(result) == SubSeq(result.index.keys, 1, Len(result.terms))

-----------------------------------------------------------------------------
\* rewrite_join

\* find_scan: the scan at an input of a join, directly or behind filters
ScanBehind(x, k) ==
  LET behind[y \in DOMAIN ops] == IF ops[y].op = "filter" THEN behind[ops[y].in[1]] ELSE y
  IN  behind[ops[x].in[k]]
HasFreeScan(x, k, direct) ==
  LET s == ScanBehind(x, k)
  IN  /\ ops[s].op = "scan" /\ ops[s].lower = Unbound /\ ops[s].upper = Unbound
      /\ direct => ops[x].in[k] = s

RightKinds == {"inner", "semi", "anti", "left_outer", "left_outer_at_most_one"}
DirectKinds == {"anti", "left_outer", "left_outer_at_most_one"}

\* The inputs of join x an index may take the place of.
Replaceable(x) ==
  {k \in {1, 2} :
     /\ ops[x].kind \in (IF k = 1 THEN {"inner"} ELSE RightKinds)
     /\ HasFreeScan(x, k, k = 2 /\ ops[x].kind \in DirectKinds)
     /\ ops[x].cond # {}}

SearchFactors(x, k) == LET s == ScanBehind(x, k) IN Factors(Chain(s) \cup {x}, AllOf(Seconds(ops[s].columns)))

\* estimate: the saved result after some more indexes
EstimatedAll(x, k, found, before) ==
  LET scan == ops[ScanBehind(x, k)]
      accepted(r) == /\ r.terms # <<>>
                     /\ "find" \in r.attributes \/ (Enabled("index_join_scan") /\ "range_scan" \in r.attributes)
      estimate(saved, index) ==
        LET r == [input |-> k] @@ Estimated(index, scan, LeadingTerms(index, scan, found))
        IN  IF accepted(r) /\ IsBetter(saved, r) THEN r ELSE saved
  IN  FoldLeft(estimate, before, scan.indexes)

\* The join reads the index, the scan and its filters are gone; what is left of their conditions
\* is the condition of the join.
IndexJoined(x, r) ==
  LET s == ScanBehind(x, r.input)
      gone == {s} \cup Chain(s)
      rest == Purged(ops, UsesOf(r.terms))
      ends == Endpoints(IndexKeys(r), r.terms)
      join == [in |-> <<ops[x].in[3 - r.input]>>, kind |-> ops[x].kind, source |-> Index, index |-> r.index,
               columns |-> ops[s].columns, rows |-> ops[s].rows,
               cond |-> rest[x].cond \cup UNION {rest[y].cond : y \in gone \ {s}}]
      op == IF "find" \in r.attributes
              THEN [op |-> "join_find", keys |-> SearchKeys(IndexKeys(r), r.terms)] @@ join
              ELSE [op |-> "join_scan", lower |-> ends[1], upper |-> ends[2]] @@ join
  IN  [y \in DOMAIN rest \ gone |-> IF y = x THEN op ELSE rest[y]]

FreeJoins == {x \in todo : ops[x].op = "join" /\ ops[x].lower = Unbound /\ ops[x].upper = Unbound}

RewriteJoin(x) ==
  /\ Running("index joins") /\ Enabled("index_join") /\ x \in FreeJoins
  /\ LET finds(k) == IF k \in Replaceable(x) THEN Finds(SearchFactors(x, k)) ELSE {Nothing}
     IN  \E right \in finds(2), left \in finds(1) :
         \E after_right \in {IF 2 \in Replaceable(x) THEN EstimatedAll(x, 2, right, None) ELSE None} :
         \E saved \in {IF 1 \in Replaceable(x) THEN EstimatedAll(x, 1, left, after_right) ELSE after_right} :
           ops' = IF saved = None THEN ops ELSE IndexJoined(x, saved)
  /\ todo' = (todo \ {x}) \cap DOMAIN ops'
  /\ UNCHANGED <<Others, passVars, phase>>

JoinsRewritten ==
  /\ Running("index joins") /\ (FreeJoins = {} \/ ~ Enabled("index_join")) /\ Then("join keys", ops)
  /\ UNCHANGED <<Others, passVars>>

-----------------------------------------------------------------------------
\* collect_join_keys

\* stream_variable_flow_info: the variables that reach an operator, those below a group included
Declared(o) ==
  CASE o.op \in {"find", "scan", "join_find", "join_scan"} -> AllOf(Seconds(o.columns))
    [] o.op = "escape" -> AllOf(Seconds(o.mappings))
    [] o.op = "values" -> AllOf(o.columns)
    [] o.op = "project" -> {o.columns[i].variable : i \in DOMAIN o.columns}
    [] o.op = "aggregate" -> {o.columns[i].destination : i \in DOMAIN o.columns}
    [] o.op = "union" -> {o.mappings[i].destination : i \in DOMAIN o.mappings}
    [] o.op = "identify" -> {o.variable}
    [] OTHER -> {}

Reaching(x) ==
  LET reaching[y \in DOMAIN ops] ==
        Declared(ops[y])
        \cup (IF ops[y].op = "escape" THEN {} ELSE UNION {reaching[ops[y].in[k]] : k \in DOMAIN ops[y].in})
  IN  reaching[x]

\* An apply on the way is unsupported.
CrossesApply(x) ==
  LET crosses[y \in DOMAIN ops] ==
        \/ ops[y].op = "apply"
        \/ ops[y].op # "escape" /\ \E k \in DOMAIN ops[y].in : crosses[ops[y].in[k]]
  IN  \E k \in DOMAIN ops[x].in : crosses[ops[x].in[k]]

JoinFeatures(x) ==
  IF ~ Enabled("broadcast_exchange") \/ ops[x].kind = "full_outer" THEN {}
  ELSE {"broadcast_find"} \cup (IF Enabled("broadcast_join_scan") THEN {"broadcast_scan"} ELSE {})

\* build_terms: the keys with their terms.  Those equal to a column of the other input, then with
\* broadcasts the other equalities, and last one range, with two bounds if there is one.
BuiltTerms(x, build, probe) ==
  LET factors == Factors({x}, build)
      terms == {<<k, t>> : k \in build, t \in UNION {EqualTerms(factors, k) : k \in build}}
      equals == {p \in terms : p[2] \in EqualTerms(factors, p[1])}
      pairs == {p \in equals : IsKey(p[2].value, probe)}
      others == IF "broadcast_find" \in JoinFeatures(x) THEN equals \ pairs ELSE {}
  IN  {LET ranges == {<<k, found[k]>> : k \in {k \in DOMAIN found : ~ found[k].equivalent}}
           full == {p \in ranges : FullBounded(p[2])}
           best == IF "broadcast_scan" \notin JoinFeatures(x) THEN {} ELSE IF full # {} THEN full ELSE ranges
       IN  SetToSeq(pairs) \o SetToSeq(others) \o (IF best = {} THEN <<>> ELSE <<CHOOSE p \in best : TRUE>>)
       : found \in Finds(factors)}

\* evaluate
Points(terms) ==
  LET worth(t) == IF t.equivalent THEN 3 ELSE IF FullBounded(t) THEN 2 ELSE 1
  IN  FoldLeft(LAMBDA n, p : n + worth(p[2]), 0, terms)

\* organize_key, the inputs of the join swapped or not
Organized(x, terms, swapped) ==
  LET ends == Endpoints(Firsts(terms), Seconds(terms))
      rest == Purged(ops, UsesOf(Seconds(terms)))
  IN  [rest EXCEPT ![x].lower = ends[1], ![x].upper = ends[2],
                   ![x].in = IF swapped THEN <<ops[x].in[2], ops[x].in[1]>> ELSE @]

\* A join has both endpoints or neither before this pass.
JoinsWithoutKeys == {x \in todo : ops[x].op = "join" /\ Unbound \in {ops[x].lower, ops[x].upper}}

CollectJoinKeys(x) ==
  /\ Running("join keys") /\ x \in JoinsWithoutKeys
  /\ IF ops[x].cond = {} THEN Passed(x) /\ UNCHANGED <<ops, phase>>
     ELSE IF CrossesApply(x) THEN phase' = "refused" /\ UNCHANGED <<ops, todo>>
     ELSE LET left == Reaching(ops[x].in[1])
              right == Reaching(ops[x].in[2])
              broadcasts == ops[x].kind = "inner" /\ "broadcast_find" \in JoinFeatures(x)
          IN  /\ \E rs \in BuiltTerms(x, right, left),
                    ls \in IF broadcasts THEN BuiltTerms(x, left, right) ELSE {<<>>} :
                   ops' = IF Points(ls) > Points(rs) THEN Organized(x, ls, TRUE) ELSE Organized(x, rs, FALSE)
              /\ Passed(x) /\ UNCHANGED phase
  /\ UNCHANGED <<Others, passVars>>

JoinKeysCollected ==
  /\ Running("join keys") /\ JoinsWithoutKeys = {} /\ Then("scans", ops)
  /\ UNCHANGED <<Others, passVars>>

-----------------------------------------------------------------------------
\* rewrite_scan

FreeScans == {x \in todo : ops[x].op = "scan" /\ ops[x].lower = Unbound /\ ops[x].upper = Unbound}

\* estimate, until the best possible result was seen
Best(scan, found) ==
  LET estimate(saved, index) ==
        LET r == Estimated(index, scan, LeadingTerms(index, scan, found))
        IN  IF saved # None /\ {"single_row", "index_only"} \subseteq saved.attributes THEN saved
            ELSE IF IsBetter(saved, r) THEN r ELSE saved
  IN  FoldLeft(estimate, None, scan.indexes)

RewriteSource(x) ==
  /\ Running("scans") /\ x \in FreeScans
  /\ LET scan == ops[x]
         factors == Factors(Chain(x), AllOf(Seconds(scan.columns)))
     IN  \E found \in Finds(factors) : \E r \in {IF factors = {} THEN None ELSE Best(scan, found)} :
           LET ends == Endpoints(IndexKeys(r), r.terms)
               source == [index |-> r.index]
               op == IF "find" \in r.attributes
                       THEN source @@ [scan EXCEPT !.op = "find"] @@ [keys |-> SearchKeys(IndexKeys(r), r.terms)]
                       ELSE source @@ [scan EXCEPT !.lower = ends[1], !.upper = ends[2]]
           IN  ops' = IF r = None THEN ops ELSE [Purged(ops, UsesOf(r.terms)) EXCEPT ![x] = op]
  /\ Passed(x)
  /\ UNCHANGED <<Others, passVars, phase>>

ScansRewritten ==
  /\ Running("scans") /\ FreeScans = {} /\ Then("redundant", ops)
  /\ UNCHANGED <<Others, passVars>>

-----------------------------------------------------------------------------
\* remove_redundant_conditions, and the optimizer is done

RemoveRedundant ==
  /\ Running("redundant")
  /\ Then("exchanges", Without(ops, {x \in DOMAIN ops : ops[x].op = "filter" /\ ops[x].cond = {}}))
  /\ UNCHANGED <<Others, passVars>>

-----------------------------------------------------------------------------
\* intermediate_plan_optimizer

OptimizerNext ==
  \/ PassesNext
  \/ \E x \in todo : RewriteJoin(x) \/ CollectJoinKeys(x) \/ RewriteSource(x)
  \/ JoinsRewritten \/ JoinKeysCollected \/ ScansRewritten \/ RemoveRedundant

-----------------------------------------------------------------------------

Mentioned(o) ==
  IF o.op = "project" THEN CollectedUses({o.columns[i].value : i \in DOMAIN o.columns}, {})
  ELSE Trimmed(o, Declared(o)).used \ Declared(o)

\* When the unused variables are gone, some operator mentions each variable that is left: one
\* pass is enough, whatever a column that is dropped made look used.
NothingUnused ==
  phase = "locals" =>
    UNION {Declared(ops[x]) : x \in DOMAIN ops} \subseteq UNION {Mentioned(ops[x]) : x \in DOMAIN ops}

Columns(keys) == [i \in DOMAIN keys |-> keys[i].column]

\* An index is searched by its whole key where it can find entries, and a join reads a range of
\* it, by columns its key starts with, where its entries are sorted.
IndexesAsTheyAllow ==
  \A x \in {x \in DOMAIN ops : "index" \in DOMAIN ops[x]} :
    LET o == ops[x]
    IN  /\ o.op \in {"find", "join_find"} => "find" \in o.index.features /\ Columns(o.keys) = o.index.keys
        /\ o.op = "join_scan" => "scan" \in o.index.features
        /\ o.op \in {"scan", "join_scan"} =>
             \A keys \in {o.lower.keys, o.upper.keys} : IsPrefix(Columns(keys), o.index.keys)

=============================================================================
