---------------------------- MODULE ExchangeColumns ----------------------------
(***************************************************************************)
(* collect_exchange_columns: which columns go through each exchange.       *)
(*                                                                         *)
(* The steps are visited from upstream to downstream.  A process is walked *)
(* from its head along the columns that are available after each operator; *)
(* what it offers gets a column of the exchange for each of them, and what *)
(* it takes gets back the columns the exchange was given.  An exchange     *)
(* then names its own columns and keys by those.                           *)
(*                                                                         *)
(* The column that exchange e has for variable v is <<e, v>>; key i of a   *)
(* group of a co-group gets a column of its own, <<e, v, i>>.              *)
(***************************************************************************)
EXTENDS StepPlan

VARIABLES infos,    \* exchange_column_info_map, by exchange
          visited   \* the steps the running pass is done with

columnVars == <<infos, visited>>

-----------------------------------------------------------------------------
\* exchange_column_info

NoInfo == [entries |-> <<>>, touched |-> {}, sources |-> {}, destinations |-> <<>>]

Bound(info, v) == \E i \in DOMAIN info.entries : info.entries[i][1] = v
ColumnOf(info, v) == info.entries[Min({i \in DOMAIN info.entries : info.entries[i][1] = v})][2]
Allocate(e, info, v) ==
  IF Bound(info, v) THEN info ELSE [info EXCEPT !.entries = Append(@, <<v, <<e, v>>>>)]
Rebound(info, entries) == [info EXCEPT !.entries = entries, !.touched = {}]   \* clear, bind

Firsts(pairs) == [i \in DOMAIN pairs |-> pairs[i][1]]
Seconds(pairs) == [i \in DOMAIN pairs |-> pairs[i][2]]
Swapped(pairs) == [i \in DOMAIN pairs |-> <<pairs[i][2], pairs[i][1]>>]

InfoOf(all, e) == IF e \in DOMAIN all THEN all[e] ELSE NoInfo   \* create_or_get

-----------------------------------------------------------------------------
\* The walk of a process.  A work record holds the operators, what is known of the exchanges,
\* the columns available after each operator, and whether an exception was thrown.

After(w, x, op, available) ==
  [w EXCEPT !.ops[x] = op, !.available = x :> available @@ @]

Fails(w, test) == [w EXCEPT !.failed = @ \/ test]

Renaming(info, keys) == [i \in DOMAIN keys |-> [keys[i] EXCEPT !.column = ColumnOf(info, @)]]
AllBound(info, keys) == \A i \in DOMAIN keys : Bound(info, keys[i].column)

\* fill_source_exchange_columns
Filled(info) == Swapped(info.entries)

\* analyze_join_read_like: a semi join or an anti join gives no columns of what it reads.
ReadFlows(o, columns) == IF o.kind \in {"semi", "anti"} THEN <<>> ELSE Seconds(columns)

JoinReads(w, x, in) ==
  LET o == w.ops[x]
      info == w.infos[o.source]
      keys == IF o.op = "join_find" THEN o.keys ELSE o.lower.keys \o o.upper.keys
      read == [o EXCEPT !.columns = Filled(info)]
      keyed == IF o.op = "join_find" THEN [read EXCEPT !.keys = Renaming(info, @)]
               ELSE [read EXCEPT !.lower.keys = Renaming(info, @), !.upper.keys = Renaming(info, @)]
  IN  IF o.source = Index THEN After(w, x, o, in \o ReadFlows(o, o.columns))
      ELSE IF ~ AllBound(info, keys) THEN Fails(w, TRUE)
      ELSE After(w, x, keyed, in \o ReadFlows(o, read.columns))

Takes(w, x) ==
  LET o == w.ops[x]
      columns == Filled(w.infos[o.source])
  IN  [After(w, x, [o EXCEPT !.columns = columns], Seconds(columns))
         EXCEPT !.infos[o.source].destinations = Append(@, x)]

TakesCogroup(w, x) ==
  LET o == w.ops[x]
      groups == [k \in DOMAIN o.groups |-> [o.groups[k] EXCEPT !.columns = Filled(w.infos[o.groups[k].source])]]
      taking == {o.groups[k].source : k \in DOMAIN o.groups}
  IN  [After(w, x, [o EXCEPT !.groups = groups], FlattenSeq([k \in DOMAIN groups |-> Seconds(groups[k].columns)]))
         EXCEPT !.infos = [e \in DOMAIN @ |-> IF e \in taking THEN [@[e] EXCEPT !.destinations = Append(@, x)] ELSE @[e]]]

\* Only the group keys and the results are left after an aggregation.
Aggregates(w, x) ==
  LET o == w.ops[x]
      take == w.ops[o.in[1]]
      keys == exchanges[take.source].group_keys
      taken(key) == SelectSeq(take.columns, LAMBDA c : c[1] = key)
      found == SelectSeq(keys, LAMBDA key : taken(key) # <<>>)
  IN  IF take.op # "take_group" \/ exchanges[take.source].kind # "group" THEN Fails(w, TRUE)
      ELSE After(w, x, o, [i \in DOMAIN found |-> taken(found[i])[1][2]]
                          \o [i \in DOMAIN o.columns |-> o.columns[i].destination])

\* shrink_to_first_group
Shrink(w, x, in) == SubSeq(in, 1, Len(w.ops[w.ops[x].in[1]].groups[1].columns))

\* Without columns every available one is offered; those of a union are given.
Offers(w, x, in) ==
  LET o == w.ops[x]
      given == IF o.columns = <<>> THEN [i \in DOMAIN in |-> <<in[i], in[i]>>] ELSE o.columns
      info == FoldLeft(LAMBDA known, c : Allocate(o.to, known, c[2]), InfoOf(w.infos, o.to), given)
      named == [i \in DOMAIN given |-> <<given[i][1], ColumnOf(info, given[i][2])>>]
  IN  [After(w, x, [o EXCEPT !.columns = named], <<>>)
         EXCEPT !.infos = o.to :> [info EXCEPT !.sources = @ \cup {x}] @@ @]

Visited(w, x) ==
  LET o == w.ops[x]
      in == IF o.in = <<>> THEN <<>> ELSE w.available[o.in[1]]
      adds(columns) == After(w, x, o, in \o columns)
  IN  CASE o.op \in {"find", "scan"} -> adds(Seconds(o.columns))
        [] o.op \in {"values", "apply"} -> adds(o.columns)
        [] o.op = "project" -> adds([i \in DOMAIN o.columns |-> o.columns[i].variable])
        [] o.op = "identify" -> adds(<<o.variable>>)
        [] o.op \in {"filter", "buffer", "flatten"} -> adds(<<>>)
        [] o.op \in {"emit", "write"} -> After(w, x, o, <<>>)
        [] o.op = "escape" -> After(w, x, o, Seconds(o.mappings))
        [] o.op \in {"join_find", "join_scan"} -> JoinReads(w, x, in)
        [] o.op = "step_join" -> After(w, x, o, IF o.kind \in {"semi", "anti"} THEN Shrink(w, x, in) ELSE in)
        [] o.op \in {"step_intersection", "step_difference"} -> After(w, x, o, Shrink(w, x, in))
        [] o.op = "step_aggregate" -> Aggregates(w, x)
        [] o.op \in {"take_flat", "take_group"} -> Takes(w, x)
        [] o.op = "take_cogroup" -> TakesCogroup(w, x)
        [] o.op = "offer" -> Offers(w, x, in)
        [] OTHER -> Fails(w, TRUE)

\* The operators of a process, each after the one it follows and a branch after the other.
Walk(p) ==
  LET next(x) == SetToSeq({y \in processes[p] : \E k \in DOMAIN ops[y].in : ops[y].in[k] = x})
      walk[x \in processes[p]] == <<x>> \o FlattenSeq([i \in DOMAIN next(x) |-> walk[next(x)[i]]])
  IN  walk[p]

Heads(p) == {x \in processes[p] : ops[x].in = <<>>}

ProcessReady(p) == links[p].upstreams \subseteq visited

VisitProcess(p) ==
  /\ phase = "columns" /\ p \in DOMAIN processes \ visited
  /\ ProcessReady(p)
  /\ LET w == FoldLeft(LAMBDA v, x : IF v.failed THEN v ELSE Visited(v, x),
                       [ops |-> ops, infos |-> infos, available |-> Nothing, failed |-> Heads(p) # {p}],
                       Walk(p))
     IN  IF w.failed THEN phase' = "broken" /\ UNCHANGED <<ops, infos, visited>>
         ELSE ops' = w.ops /\ infos' = w.infos /\ visited' = visited \cup {p} /\ UNCHANGED phase
  /\ UNCHANGED <<features, wanted, todo, exchanges, processes, links>>

-----------------------------------------------------------------------------
\* The exchanges

ColumnsOf(info, vs) == [i \in DOMAIN vs |-> ColumnOf(info, vs[i])]
Pairs(vs, info) == [i \in DOMAIN vs |-> <<vs[i], ColumnOf(info, vs[i])>>]
AllOf(vs) == {vs[i] : i \in DOMAIN vs}

\* What the exchange refers to: variables it must have been given.
Mentions(e) ==
  AllOf(e.columns)
  \cup (IF e.kind \in {"group", "aggregate"} THEN AllOf(e.group_keys) ELSE {})
  \cup (IF e.kind = "group" THEN AllOf(e.sort_keys) ELSE {})
  \cup (IF e.kind = "aggregate" THEN UNION {AllOf(e.aggregations[i].arguments) : i \in DOMAIN e.aggregations} ELSE {})

\* fill_exchange_columns, or rebuild_exchange_columns where the columns are given
Rebuilt(e, info) == IF e.columns = <<>> THEN info ELSE Rebound(info, Pairs(e.columns, info))
Named(e, info) == [e EXCEPT !.columns = Seconds(Rebuilt(e, info).entries)]

NameGroup(e, info) ==
  [Named(e, info) EXCEPT !.group_keys = ColumnsOf(Rebuilt(e, info), @), !.sort_keys = ColumnsOf(Rebuilt(e, info), @)]

\* Downstream the keys go on and the sources of the functions are hidden by their results.
Aggregated(id, e, info) ==
  Rebound(info, Pairs(e.group_keys, info)
                \o [i \in DOMAIN e.aggregations |-> <<e.aggregations[i].destination, <<id, e.aggregations[i].destination>>>>])

NameAggregate(id, e, info) ==
  [e EXCEPT !.source_columns = Seconds(info.entries),
            !.group_keys = ColumnsOf(info, @),
            !.aggregations = [i \in DOMAIN @ |-> [destination |-> <<id, @[i].destination>>,
                                                  arguments |-> ColumnsOf(info, @[i].arguments)]],
            !.columns = Seconds(Aggregated(id, e, info).entries)]

ExchangeReady(e) == \A p \in DOMAIN links : e \in links[p].downstreams => p \in visited

VisitExchange(e) ==
  /\ phase = "columns" /\ e \in DOMAIN exchanges \ visited
  /\ ExchangeReady(e)
  /\ LET step == exchanges[e]
         info == infos[e]
     IN  IF e \notin DOMAIN infos \/ \E v \in Mentions(step) : ~ Bound(info, v)
           THEN phase' = "broken" /\ UNCHANGED <<exchanges, infos, visited>>
           ELSE /\ visited' = visited \cup {e}
                /\ exchanges' = [exchanges EXCEPT ![e] =
                     CASE step.kind \in {"forward", "broadcast"} -> Named(step, info)
                       [] step.kind = "group" -> NameGroup(step, info)
                       [] step.kind = "aggregate" -> NameAggregate(e, step, info)]
                /\ infos' = [infos EXCEPT ![e] = IF step.kind = "aggregate" THEN Aggregated(e, step, info) ELSE Rebuilt(step, info)]
                /\ UNCHANGED phase
  /\ UNCHANGED <<ops, features, wanted, todo, processes, links>>

\* takatori is asked to sort the steps, and steps that wait in a circle have no order.  What its
\* sort_from_upstream does then is not in the repository: the model stops there.
NoOrder ==
  /\ phase = "columns" /\ visited # DOMAIN processes \cup DOMAIN exchanges
  /\ \A p \in DOMAIN processes \ visited : ~ ProcessReady(p)
  /\ \A e \in DOMAIN exchanges \ visited : ~ ExchangeReady(e)
  /\ phase' = "unordered"
  /\ UNCHANGED <<ops, features, wanted, todo, exchanges, processes, links, infos, visited>>

-----------------------------------------------------------------------------
\* post_process: a co-group may compare its keys as another type, so that each key of its groups
\* becomes a column of its own, offered beside the one it was made of.

CogroupOf(e) == Len(infos[e].destinations) = 1 /\ ops[infos[e].destinations[1]].op = "take_cogroup"

KeysShared(keys) == keys   \* mutant: the keys stay the columns they were made of
KeysApart(keys) == [i \in DOMAIN keys |-> Append(keys[i], i)]

OffersKeys(columns, keys) ==
  LET copies(c) == FlattenSeq([i \in DOMAIN keys |-> IF keys[i] = c[2] THEN <<<<c[1], KeysApart(keys)[i]>>>> ELSE <<>>])
  IN  columns \o FlattenSeq([j \in DOMAIN columns |-> copies(columns[j])])

ColumnsCollected ==
  /\ phase = "columns" /\ visited = DOMAIN processes \cup DOMAIN exchanges
  /\ LET apart == {e \in DOMAIN exchanges : exchanges[e].kind = "group" /\ CogroupOf(e)}
     IN  /\ exchanges' = [e \in DOMAIN exchanges |->
                            IF e \in apart THEN [exchanges[e] EXCEPT !.group_keys = KeysApart(@)] ELSE exchanges[e]]
         /\ ops' = [x \in DOMAIN ops |->
                      IF ops[x].op = "offer" /\ ops[x].to \in apart /\ x \in infos[ops[x].to].sources
                        THEN [ops[x] EXCEPT !.columns = OffersKeys(@, exchanges[ops[x].to].group_keys)]
                        ELSE ops[x]]
  /\ visited' = {}
  /\ phase' = "variables"
  /\ UNCHANGED <<features, wanted, todo, processes, links, infos>>

-----------------------------------------------------------------------------

ColumnsInit == Init /\ infos = Nothing /\ visited = {}

StartColumns ==
  /\ phase = "done" /\ phase' = "columns"
  /\ UNCHANGED <<ops, features, wanted, todo, exchanges, processes, links, infos, visited>>

ColumnsNext ==
  \/ StartColumns
  \/ \E p \in DOMAIN processes : VisitProcess(p)
  \/ \E e \in DOMAIN exchanges : VisitExchange(e)
  \/ NoOrder
  \/ ColumnsCollected

=============================================================================
