------------------------------- MODULE StepPlan -------------------------------
(***************************************************************************)
(* The first half of the step plan builder: an intermediate plan becomes a *)
(* graph of processes, which run operators, and of exchanges between them. *)
(*                                                                         *)
(*   collect_exchange_steps   every operator that needs its whole input is *)
(*                            replaced by offers to an exchange and a take *)
(*   collect_process_steps    each take or scan and what follows it is     *)
(*                            moved into a process                         *)
(*   collect_step_relations   processes are connected to the exchanges     *)
(*                            their operators offer to and take from       *)
(*                                                                         *)
(* An operator knows the operators before it (in).  What columns go        *)
(* through the exchanges is decided later, see ExchangeColumns.            *)
(***************************************************************************)
EXTENDS StepGraph

CONSTANTS Plans,          \* records of ops, a function from identifiers to operators, and features
          RowsOf(_, _, _) \* what operators and exchanges give each sink, if columns have got their names

VARIABLES ops,         \* the operators, by identifier
          features,    \* the runtime features the options allow
          wanted,      \* what the intermediate plan computes, for each sink
          todo,        \* collect_exchange_steps: the operators the cursor has not passed
          exchanges,   \* the exchange steps
          processes,   \* the process steps: for each, named by its first operator, its operators
          links,       \* for each connected process, its upstreams and downstreams
          phase        \* the pass that runs, or how the building ended

vars == <<ops, features, wanted, todo, exchanges, processes, links, phase>>

\* Operators without input, with two, and with one, of those the passes look into.
Sourceless == {"find", "scan", "values"}
TwoInputs == {"join", "union", "intersection", "difference"}
SingleInput == {"aggregate", "distinct", "limit"}

\* takatori: the operators of a step plan no intermediate plan has
StepOperators ==
  {"offer", "take_flat", "take_group", "take_cogroup", "flatten",
   "step_aggregate", "step_join", "step_intersection", "step_difference"}

\* Among some operators there is always one that follows none of them, and one that none follows.
Acyclic(graph) ==
  \A some \in (SUBSET DOMAIN graph) \ {{}} :
    /\ \E x \in some : \A y \in some : ~ Follows(graph, x, y)
    /\ \E x \in some : \A y \in some : ~ Follows(graph, y, x)

\* takatori: a graph of operators whose ports are all connected.
IsPlan(graph) ==
  /\ Acyclic(graph)
  /\ \A x \in DOMAIN graph :
       /\ x = <<x[1], "plan">>
       /\ {"op", "in"} \subseteq DOMAIN graph[x]
       /\ graph[x].op \notin StepOperators
       /\ graph[x].in \in Seq(DOMAIN graph)
       /\ graph[x].op \in Sourceless => graph[x].in = <<>>
       /\ graph[x].op \in SingleInput => Len(graph[x].in) = 1
       /\ graph[x].op \in TwoInputs => Len(graph[x].in) = 2
       /\ graph[x].op \in {"join_find", "join_scan"} => "source" \in DOMAIN graph[x] /\ graph[x].source = Index

ASSUME PlansAssumption == \A plan \in Plans : IsPlan(plan.ops)

Nothing == [x \in {} |-> {}]   \* no steps yet

-----------------------------------------------------------------------------
\* collect_exchange_steps

\* takatori: the operators a step plan may hold, of those modelled
AvailableInStepPlan ==
  {"find", "scan", "values", "join_find", "join_scan", "apply", "project", "filter", "buffer", "identify", "emit", "write"}

\* detect_join_endpoint_style
Style(x) ==
  LET lower == ops[x].lower
      upper == ops[x].upper
  IN  IF lower.kind = "unbound" /\ upper.kind = "unbound" THEN "nothing"
      ELSE IF lower.kind # "inclusive" \/ upper.kind # "inclusive" \/ lower.keys # upper.keys THEN "range"
      ELSE IF \E i \in DOMAIN lower.keys : lower.keys[i].value.is \notin {"column", "host"} THEN "prefix"
      ELSE "key_pairs"

available_join_strategies(x) ==
  (IF ops[x].kind = "full_outer" THEN {} ELSE {"broadcast"})
  \cup (IF Style(x) \in {"prefix", "range"} THEN {} ELSE {"cogroup"})

JoinStrategy(x) ==
  CASE "broadcast_exchange" \notin features -> "cogroup"
    [] ops[x].hint # "none" -> ops[x].hint
    [] "cogroup" \in available_join_strategies(x) -> "cogroup"
    [] "broadcast" \in available_join_strategies(x) -> "broadcast"
    [] OTHER -> "cogroup"

AggregateStrategyAny(x) ==   \* mutant: nobody asks whether there may be an aggregate exchange
  IF ops[x].hint # "none" THEN ops[x].hint ELSE IF ops[x].incremental THEN "exchange" ELSE "group"

AggregateStrategy(x) ==
  CASE "aggregate_exchange" \notin features -> "group"
    [] ops[x].hint # "none" -> ops[x].hint
    [] OTHER -> IF ops[x].incremental THEN "exchange" ELSE "group"

IsLeftMandatory(kind) == kind \in {"inner", "left_outer", "left_outer_at_most_one", "semi", "anti"}
IsRightMandatory(kind) == kind \in {"inner", "semi", "anti"}

Shrunk(columns) ==   \* shrink_duplicated_variables
  FoldLeft(LAMBDA s, c : IF \E i \in DOMAIN s : s[i] = c THEN s ELSE Append(s, c), <<>>, columns)

Group(columns, group_keys, sort_keys, limit, mode) ==
  [kind |-> "group", columns |-> columns, group_keys |-> group_keys, sort_keys |-> sort_keys, limit |-> limit, mode |-> mode]
Forward(columns, limit) == [kind |-> "forward", columns |-> columns, limit |-> limit]
Aggregate(group_keys, aggregations) ==
  [kind |-> "aggregate", source_columns |-> <<>>, columns |-> <<>>, group_keys |-> group_keys, aggregations |-> aggregations]
Broadcast == [kind |-> "broadcast", columns |-> <<>>]

Offer(before, e, columns) == [op |-> "offer", in |-> <<before>>, to |-> e, columns |-> columns]
Take(kind, e) == [op |-> kind, in |-> <<>>, source |-> e, columns |-> <<>>]
Cogroup(left, right) ==
  [op |-> "take_cogroup", in |-> <<>>,
   groups |-> <<[source |-> left[1], mandatory |-> left[2], columns |-> <<>>],
                [source |-> right[1], mandatory |-> right[2], columns |-> <<>>]>>]

\* Operator x is erased; what followed it follows last, one of the operators that replace it.
\* The new ones are not visited: they join the plan when the pass is over.
Replace(x, new, last, steps) ==
  /\ ops' = LET kept == [y \in DOMAIN ops \ {x} |-> ops[y]]
                linked(o) == [o EXCEPT !.in = [k \in DOMAIN o.in |-> IF o.in[k] = x THEN last ELSE o.in[k]]]
            IN  [y \in DOMAIN kept |-> linked(kept[y])] ++ new
  /\ exchanges' = exchanges ++ steps
  /\ todo' = todo \ {x}
  /\ UNCHANGED <<features, wanted, processes, links, phase>>

Refuse == phase' = "refused" /\ UNCHANGED <<ops, features, wanted, todo, exchanges, processes, links>>

Visiting(x, kinds) == phase = "exchanges" /\ x \in todo /\ ops[x].op \in kinds

\* The new operators and exchanges of operator x are named after it.
New(x, part) == <<x[1], part>>

VisitKept(x) ==
  /\ Visiting(x, AvailableInStepPlan \cup {"escape"})
  /\ todo' = todo \ {x}
  /\ UNCHANGED <<ops, features, wanted, exchanges, processes, links, phase>>

VisitOther(x) == Visiting(x, {"extension"}) /\ Refuse

\* process_cogroup_join
VisitCogroupJoin(x) ==
  /\ Visiting(x, {"join"})
  /\ JoinStrategy(x) = "cogroup"
  /\ IF Style(x) \notin {"nothing", "key_pairs"}
       THEN Refuse
       ELSE LET keys == ops[x].lower.keys
                left == [i \in DOMAIN keys |-> keys[i].value.name]
                right == [i \in DOMAIN keys |-> keys[i].column]
                el == New(x, "left group")
                er == New(x, "right group")
                kind == ops[x].kind
            IN  Replace(x,
                  At(New(x, "left offer"), Offer(ops[x].in[1], el, <<>>))
                  ++ At(New(x, "right offer"), Offer(ops[x].in[2], er, <<>>))
                  ++ At(New(x, "take"), Cogroup(<<el, IsLeftMandatory(kind)>>, <<er, IsRightMandatory(kind)>>))
                  ++ At(New(x, "join"), [op |-> "step_join", in |-> <<New(x, "take")>>, kind |-> kind, cond |-> ops[x].cond]),
                  New(x, "join"),
                  At(el, Group(<<>>, left, <<>>, Unlimited, "equivalence"))
                  ++ At(er, Group(<<>>, right, <<>>, Unlimited, "equivalence")))

\* process_broadcast_join_find, process_broadcast_join_scan
VisitBroadcastJoin(x) ==
  /\ Visiting(x, {"join"})
  /\ JoinStrategy(x) = "broadcast"
  /\ LET e == New(x, "broadcast")
         join == [in |-> <<ops[x].in[1]>>, kind |-> ops[x].kind, source |-> e, columns |-> <<>>,
                  cond |-> ops[x].cond]
     IN  Replace(x,
           At(New(x, "offer"), Offer(ops[x].in[2], e, <<>>))
           ++ At(New(x, "join"),
                 IF Style(x) \in {"key_pairs", "prefix"}
                   THEN [op |-> "join_find", keys |-> ops[x].lower.keys] ++ join
                   ELSE [op |-> "join_scan", lower |-> ops[x].lower, upper |-> ops[x].upper] ++ join),
           New(x, "join"),
           At(e, Broadcast))

\* offer - exchange - take - then, or without then
ThroughExchange(x, e, take, then) ==
  Replace(x,
    At(New(x, "offer"), Offer(ops[x].in[1], New(x, "exchange"), <<>>))
    ++ At(New(x, "take"), Take(take, New(x, "exchange")))
    ++ then,
    New(x, IF then = Nothing THEN "take" ELSE "then"),
    At(New(x, "exchange"), e))

AfterTake(x, o) == At(New(x, "then"), [in |-> <<New(x, "take")>>] ++ o)
Flatten(x) == AfterTake(x, [op |-> "flatten"])

\* process_aggregate_exchange, process_aggregate_group
VisitAggregate(x) ==
  /\ Visiting(x, {"aggregate"})
  /\ IF AggregateStrategy(x) = "exchange"
       THEN ThroughExchange(x, Aggregate(Shrunk(ops[x].group_keys), ops[x].columns), "take_group", Flatten(x))
       ELSE ThroughExchange(x, Group(<<>>, Shrunk(ops[x].group_keys), <<>>, Unlimited, "equivalence_or_whole"),
                            "take_group", AfterTake(x, [op |-> "step_aggregate", columns |-> ops[x].columns]))

VisitDistinct(x) ==
  /\ Visiting(x, {"distinct"})
  /\ ThroughExchange(x, Group(<<>>, Shrunk(ops[x].group_keys), <<>>, 1, "equivalence"), "take_group", Flatten(x))

\* process_limit_flat, process_limit_group
VisitLimit(x) ==
  /\ Visiting(x, {"limit"})
  /\ IF ops[x].group_keys = <<>> /\ ops[x].sort_keys = <<>>
       THEN ThroughExchange(x, Forward(<<>>, ops[x].count), "take_flat", Nothing)
       ELSE ThroughExchange(x, Group(<<>>, Shrunk(ops[x].group_keys), ops[x].sort_keys, ops[x].count, "equivalence"),
                            "take_group", Flatten(x))

\* process_union_all, process_union_distinct
VisitUnion(x) ==
  /\ Visiting(x, {"union"})
  /\ LET mappings == ops[x].mappings
         distinct == ops[x].quantifier = "distinct"
         e == New(x, "exchange")
         outputs == [i \in DOMAIN mappings |-> mappings[i].destination]
     IN  IF distinct /\ \E i \in DOMAIN mappings : "none" \in {mappings[i].left, mappings[i].right}
           THEN Refuse
           ELSE Replace(x,
                  At(New(x, "left offer"), Offer(ops[x].in[1], e, Side(mappings, "left")))
                  ++ At(New(x, "right offer"), Offer(ops[x].in[2], e, Side(mappings, "right")))
                  ++ At(New(x, "take"), Take(IF distinct THEN "take_group" ELSE "take_flat", e))
                  ++ (IF distinct THEN Flatten(x) ELSE Nothing),
                  New(x, IF distinct THEN "then" ELSE "take"),
                  At(e, IF distinct THEN Group(outputs, outputs, <<>>, 1, "equivalence") ELSE Forward(outputs, Unlimited)))

\* process_binary_group_all, process_binary_group_distinct
VisitSetOperator(x) ==
  /\ Visiting(x, {"intersection", "difference"})
  /\ LET distinct == ops[x].quantifier = "distinct"
         keys(k) == [i \in DOMAIN ops[x].pairs |-> ops[x].pairs[i][k]]
         e(k) == New(x, <<"left group", "right group">>[k])
         group(k) == Group(<<>>, keys(k), <<>>, IF distinct THEN 1 ELSE Unlimited, "equivalence")
         then == IF distinct
                   THEN [op |-> "step_join", kind |-> IF ops[x].op = "intersection" THEN "semi" ELSE "anti", cond |-> {}]
                   ELSE [op |-> IF ops[x].op = "intersection" THEN "step_intersection" ELSE "step_difference"]
     IN  Replace(x,
           At(New(x, "left offer"), Offer(ops[x].in[1], e(1), <<>>))
           ++ At(New(x, "right offer"), Offer(ops[x].in[2], e(2), <<>>))
           ++ At(New(x, "take"), Cogroup(<<e(1), TRUE>>, <<e(2), FALSE>>))
           ++ AfterTake(x, then),
           New(x, "then"),
           At(e(1), group(1)) ++ At(e(2), group(2)))

ExchangesCollected ==
  /\ phase = "exchanges" /\ todo = {}
  /\ phase' = "processes"
  /\ UNCHANGED <<ops, features, wanted, todo, exchanges, processes, links>>

-----------------------------------------------------------------------------
\* collect_process_steps

Entries == {"find", "scan", "values", "take_flat", "take_group", "take_cogroup"}

Rest == DOMAIN ops \ UNION {processes[p] : p \in DOMAIN processes}

\* do_collect: an operator and what follows it, on every output
Downstream(x) ==
  LET after[y \in DOMAIN ops] ==
        {y} \cup UNION {after[z] : z \in {z \in DOMAIN ops : Follows(ops, z, y)}}
  IN  after[x]

CollectProcessAlong(x) ==   \* mutant: only the first output is followed
  /\ phase = "processes" /\ x \in Rest /\ ops[x].op \in Entries
  /\ LET next(y) == {z \in DOMAIN ops : Follows(ops, z, y)}
         along[y \in DOMAIN ops] == {y} \cup (IF next(y) = {} THEN {} ELSE along[CHOOSE z \in next(y) : TRUE])
     IN  processes' = processes ++ At(x, along[x])
  /\ UNCHANGED <<ops, features, wanted, todo, exchanges, links, phase>>

CollectProcess(x) ==
  /\ phase = "processes" /\ x \in Rest /\ ops[x].op \in Entries
  /\ IF \E y \in Downstream(x) : Len(ops[y].in) >= 2   \* "invalid input"
       THEN phase' = "broken" /\ UNCHANGED processes
       ELSE processes' = processes ++ At(x, Downstream(x)) /\ UNCHANGED phase
  /\ UNCHANGED <<ops, features, wanted, todo, exchanges, links>>

\* The source is empty, or there is a "missing head operator".
ProcessesCollected ==
  /\ phase = "processes" /\ \A x \in Rest : ops[x].op \notin Entries
  /\ phase' = IF Rest = {} THEN "relations" ELSE "broken"
  /\ UNCHANGED <<ops, features, wanted, todo, exchanges, processes, links>>

-----------------------------------------------------------------------------
\* collect_step_relations

SourcesTake(o) ==   \* mutant: the sources of joins are forgotten
  CASE o.op = "take_cogroup" -> {o.groups[k].source : k \in DOMAIN o.groups}
    [] o.op \in {"take_flat", "take_group"} -> {o.source}
    [] OTHER -> {}

Sources(o) ==
  CASE o.op = "take_cogroup" -> {o.groups[k].source : k \in DOMAIN o.groups}
    [] o.op \in {"take_flat", "take_group"} -> {o.source}
    [] o.op \in {"join_find", "join_scan"} -> {o.source} \ {Index}
    [] OTHER -> {}

DestinationsJoin(o) ==   \* mutant: a join is connected both ways
  CASE o.op = "offer" -> {o.to}
    [] o.op \in {"join_find", "join_scan"} -> {o.source}
    [] OTHER -> {}

Destinations(o) == IF o.op = "offer" THEN {o.to} ELSE {}

Connect(p) ==
  /\ phase = "relations" /\ p \in DOMAIN processes \ DOMAIN links
  /\ links' = links ++ At(p, [upstreams |-> UNION {Sources(ops[x]) : x \in processes[p]},
                               downstreams |-> UNION {Destinations(ops[x]) : x \in processes[p]}])
  /\ UNCHANGED <<ops, features, wanted, todo, exchanges, processes, phase>>

RelationsCollected ==
  /\ phase = "relations" /\ DOMAIN links = DOMAIN processes
  /\ phase' = "done"
  /\ UNCHANGED <<ops, features, wanted, todo, exchanges, processes, links>>

-----------------------------------------------------------------------------

Starts(plan, pass) ==
  /\ ops = plan.ops
  /\ features = plan.features
  /\ wanted = RowsOf(plan.ops, Nothing, FALSE)
  /\ todo = DOMAIN plan.ops
  /\ exchanges = Nothing /\ processes = Nothing /\ links = Nothing
  /\ phase = pass

Init == \E plan \in Plans : Starts(plan, "exchanges")

Visit(x) ==
  \/ VisitKept(x) \/ VisitOther(x)
  \/ VisitCogroupJoin(x) \/ VisitBroadcastJoin(x)
  \/ VisitAggregate(x) \/ VisitDistinct(x) \/ VisitLimit(x)
  \/ VisitUnion(x) \/ VisitSetOperator(x)

Next ==
  \/ \E x \in todo : Visit(x)
  \/ ExchangesCollected
  \/ \E x \in DOMAIN ops : CollectProcess(x)
  \/ ProcessesCollected
  \/ \E p \in DOMAIN processes : Connect(p)
  \/ RelationsCollected

Spec == Init /\ [][Next]_vars

-----------------------------------------------------------------------------

\* Whatever has been replaced so far, the plan computes the same rows at every sink: those of
\* the intermediate plan it was made of.  Every column goes through every exchange.
SameRows == RowsOf(ops, exchanges, FALSE) = wanted

\* Every operator runs in one process, with the operators it passes rows to and gets rows from
\* without an exchange in between.
InOneProcess ==
  /\ \A p, q \in DOMAIN processes : p # q => processes[p] \cap processes[q] = {}
  /\ \A p \in DOMAIN processes : \A x \in DOMAIN ops : \A k \in DOMAIN ops[x].in :
       x \in processes[p] <=> ops[x].in[k] \in processes[p]

\* Process p reads an exchange that some of the processes fill in a join, and fills one that some
\* of them read from another branch of a buffer, with rows that do not come out of the join.
OtherBranch(p, some) ==
  \E x, o \in processes[p] :
    /\ ops[x].op \in {"join_find", "join_scan"} /\ o \notin Downstream(x)
    /\ \E q \in some : Sources(ops[x]) \cap links[q].downstreams # {}
    /\ \E q \in some : Destinations(ops[o]) \cap links[q].upstreams # {}

\* When the plan is built each exchange is filled by some process and read by exactly one.  A
\* process has all the rows of the exchanges before it only after the processes before those have
\* ended; processes wait for each other in a circle, or one for itself, only where one of them
\* passes a join by on another branch of a buffer.  There they do wait: nothing in the code refuses
\* such a plan.
RunsToTheEnd ==
  phase = "done" =>
    /\ \A e \in DOMAIN exchanges :
         /\ \E p \in DOMAIN links : e \in links[p].downstreams
         /\ Cardinality({p \in DOMAIN links : e \in links[p].upstreams}) = 1
    /\ \A waiting \in SUBSET DOMAIN processes :
         waiting # {} =>
           \E p \in waiting :
             OtherBranch(p, waiting) \/ \A q \in waiting : links[q].downstreams \cap links[p].upstreams = {}

=============================================================================
