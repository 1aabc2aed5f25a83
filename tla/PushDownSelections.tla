------------------------- MODULE PushDownSelections -------------------------
(***************************************************************************)
(* push_down_selections: the optimizer pass that takes the terms of filter *)
(* and inner join conditions apart and carries each one upstream until an  *)
(* operator stops it, where a new filter is inserted.                      *)
(*                                                                         *)
(* A plan is a sequence of operators; an operator is identified by its     *)
(* position and names its inputs by theirs.  A condition is a sequence of  *)
(* leaves, read as their conjunction; a leaf is the set of terms that have *)
(* been moved into it, and the empty leaf is TRUE, what a released term    *)
(* leaves behind.  A term is only known by the variables it uses.          *)
(*                                                                         *)
(* The pass keeps a stack of tasks, operators to visit with the predicates *)
(* that arrive there, and one predicate_info per term: the place the term  *)
(* still occupies (an ownership reference), the variables it is thought to *)
(* use and the number of tasks that carry it.                              *)
(***************************************************************************)
EXTENDS Integers, Sequences, FiniteSets, SequencesExt

CONSTANT Plans   \* the plans the pass may be given

VARIABLES given,   \* the plan as the pass received it
          plan,    \* relation::graph_type
          tasks,   \* tasks_, the last one is next
          preds,   \* predicates_
          status   \* running, done, or failed by an exception

vars == <<given, plan, tasks, preds, status>>

-----------------------------------------------------------------------------
\* The operators of a plan.

JoinKinds == {"inner", "semi", "left_outer", "left_outer_at_most_one", "anti", "full_outer"}
Leaves == {"find", "scan", "values"}
Unary == {"filter", "project", "identify", "aggregate", "distinct", "limit", "apply", "escape",
          "buffer", "extension", "join_find", "join_scan", "emit", "write"}
Binary == JoinKinds \cup {"union", "intersection", "difference"}

\* Operators at which a walk over declared variables ends.
Originators == Leaves \cup Binary \cup {"join_find", "join_scan", "escape"}
UnknownToFlow == {"apply", "extension"}

\* from maps each variable the operator declares to the variables it is made of.
Declares(p, x) == DOMAIN p[x].from

UsesOf(leaf) == UNION {t.uses : t \in leaf}
TermsIn(cond) == UNION Range(cond)
TermsOf(p) == UNION {TermsIn(p[x].cond) : x \in DOMAIN p}

\* An edge is a consumer and the number of its input.
Edges(p) == UNION {{<<y, k>> : k \in DOMAIN p[y].ins} : y \in DOMAIN p}
Source(p, e) == p[e[1]].ins[e[2]]
OutputOf(p, x) == CHOOSE e \in Edges(p) : Source(p, e) = x
Bottoms(p) == {x \in DOMAIN p : \A e \in Edges(p) : Source(p, e) # x}

\* takatori: the ports of every operator are connected, an output to one input; only a buffer has
\* several outputs.
IsPlan(p) ==
  /\ p \in Seq(Range(p))
  /\ \A x \in DOMAIN p :
       /\ {"op", "ins", "from", "keys", "cond"} \subseteq DOMAIN p[x]
       /\ p[x].ins \in Seq(DOMAIN p) /\ p[x].cond \in Seq(Range(p[x].cond))
       /\ p[x].op \in Unary => Len(p[x].ins) = 1
       /\ p[x].op \in Binary => Len(p[x].ins) = 2
  /\ \A e, f \in Edges(p) : Source(p, e) = Source(p, f) /\ p[Source(p, e)].op # "buffer" => e = f

ASSUME PlansAssumption == \A p \in Plans : IsPlan(p)

-----------------------------------------------------------------------------
\* Which variables reach an input: the flow information.

\* The operators from x up to the next originator, walked by one entry.
Segment(p, x) ==
  LET walk[y \in DOMAIN p] ==
        IF p[y].op \in Originators \cup UnknownToFlow THEN {y} ELSE {y} \cup walk[p[y].ins[1]]
  IN  walk[x]

Lookup(p, v, x) ==
  LET find[y \in DOMAIN p] ==
        LET seg == Segment(p, y)
            end == CHOOSE z \in seg : p[z].op \in Originators \cup UnknownToFlow
            below == SelectSeq([k \in DOMAIN p[end].ins |-> find[p[end].ins[k]]],
                               LAMBDA answer : answer # "absent")
        IN  IF p[end].op \in UnknownToFlow THEN "throws"
            ELSE IF \E z \in seg : v \in Declares(p, z) THEN "found"
            ELSE IF p[end].op = "escape" \/ below = <<>> THEN "absent"
            ELSE Head(below)
  IN  find[x]

Answers(p, uses, x) == {Lookup(p, v, x) : v \in uses}

InputMask(p, ps, mask, x) == {i \in mask : Answers(p, ps[i].uses, x) \subseteq {"found"}}

\* The uses are asked in no fixed order and the first one that is not declared ends the
\* questions, so an unsupported operator may or may not be met.
MayThrow(p, ps, mask, x) == \E i \in mask : "throws" \in Answers(p, ps[i].uses, x)
MustThrow(p, ps, mask, x) ==
  \E i \in mask : "throws" \in Answers(p, ps[i].uses, x) /\ "absent" \notin Answers(p, ps[i].uses, x)

-----------------------------------------------------------------------------
\* The steps a handler is made of.  A work record holds the plan, the predicates, the edge
\* where the next filter goes and the tasks.

\* Slot 0 stands for a condition as a whole, where a condition of one term is found.
AnalyzePredicates(p, x) ==
  LET cond == p[x].cond
      Info(slot, leaf) == [home |-> x, slot |-> slot, uses |-> UsesOf(leaf), count |-> 1]
  IN  IF Len(cond) = 1
        THEN <<Info(0, cond[1])>>
        ELSE [k \in DOMAIN cond |-> Info(k, cond[k])]

\* What the ownership reference of predicate i names now.
Content(w, i) ==
  LET cond == w.plan[w.preds[i].home].cond
  IN  IF w.preds[i].slot = 0 THEN TermsIn(cond) ELSE cond[w.preds[i].slot]

\* The last reference takes the term out of its place, the others copy it.
Release(w, i) ==
  IF w.preds[i].count = 1
    THEN [w EXCEPT !.preds[i].count = 0,
                   !.plan[w.preds[i].home].cond =
                      IF w.preds[i].slot = 0 THEN <<{}>> ELSE [@ EXCEPT ![w.preds[i].slot] = {}]]
    ELSE [w EXCEPT !.preds[i].count = @ - 1, !.preds[i].uses = {}]

AddCount(w, i) == [w EXCEPT !.preds[i].count = @ + 1]
Leave(w, i) == [w EXCEPT !.preds[i].count = @ - 1]

NewFilter(x, leaf) == [op |-> "filter", ins |-> <<x>>, from |-> <<>>, keys |-> {}, cond |-> <<leaf>>]

FlushReleasedFirst(w, i) ==   \* mutant: the term is read after it has been taken out
  LET r == Release(w, i)
      f == Len(w.plan) + 1
  IN  [r EXCEPT !.plan = Append([@ EXCEPT ![w.edge[1]].ins[w.edge[2]] = f],
                                NewFilter(Source(w.plan, w.edge), Content(r, i))),
                !.edge = <<f, 1>>]

Flush(w, i) ==
  LET r == Release(w, i)
      f == Len(w.plan) + 1
  IN  [r EXCEPT !.plan = Append([@ EXCEPT ![w.edge[1]].ins[w.edge[2]] = f],
                                NewFilter(Source(w.plan, w.edge), Content(w, i))),
                !.edge = <<f, 1>>]

FlushCopy(w, i) == Flush(AddCount(w, i), i)

\* The masks are scanned from the lowest predicate to the highest.
Each(Step(_, _), w, mask) ==
  LET scan[n \in 0 .. Len(w.preds)] ==
        IF n = 0 THEN w ELSE IF n \in mask THEN Step(scan[n - 1], n) ELSE scan[n - 1]
  IN  scan[Len(w.preds)]
FlushAll(w, mask) == Each(Flush, w, mask)

MergeOne(x, w, i) == LET r == Release(w, i) IN [r EXCEPT !.plan[x].cond = Append(@, Content(w, i))]
MergePredicates(w, x, mask) == Each(LAMBDA u, i : MergeOne(x, u, i), w, mask)

\* Nothing is carried over a buffer: its predicates are put on the edge that leaves it.
Pass(w, x, k, mask) ==
  LET up == w.plan[x].ins[k]
  IN  IF w.plan[up].op = "buffer"
        THEN FlushAll([w EXCEPT !.edge = <<x, k>>], mask)
        ELSE [w EXCEPT !.tasks = Append(@, [node |-> up, mask |-> mask])]

-----------------------------------------------------------------------------
\* The handlers.  x is the operator and w the work after the task has been popped.

FlushThenPass(w, x, mask, stopped) == Pass(FlushAll(w, stopped), x, 1, mask \ stopped)

UsingOnlyDeclared(w, x, mask) ==   \* mutant: a term that uses another variable too goes on
  {i \in mask : w.preds[i].uses \subseteq Declares(w.plan, x)}

UsingDeclared(w, x, mask) == {i \in mask : w.preds[i].uses \cap Declares(w.plan, x) # {}}
UsingNonKey(w, x, mask) == {i \in mask : ~ w.preds[i].uses \subseteq w.plan[x].keys}

HandleProject(w, x, mask) == FlushThenPass(w, x, mask, UsingDeclared(w, x, mask))
HandleAggregate(w, x, mask) == FlushThenPass(w, x, mask, UsingNonKey(w, x, mask))
HandleDistinctLike(w, x, mask) == Pass(Each(FlushCopy, w, UsingNonKey(w, x, mask)), x, 1, mask)
HandleStop(w, x, mask) == FlushThenPass(w, x, mask, mask)
HandleSink(w, x, mask) == Pass(w, x, 1, mask)

HandleFilter(w, x, mask) ==
  LET new == AnalyzePredicates(w.plan, x)
  IN  Pass([w EXCEPT !.preds = @ \o new], x, 1, mask \cup (Len(w.preds) + 1 .. Len(w.preds) + Len(new)))

PassBoth(w, x, left, right) == Pass(Pass(w, x, 1, left), x, 2, right)

HandleInner(w, x, mask) ==
  LET a == [w EXCEPT !.preds = @ \o AnalyzePredicates(w.plan, x)]
      own == Len(w.preds) + 1 .. Len(a.preds)
      all == mask \cup own
      left == InputMask(w.plan, a.preds, all, w.plan[x].ins[1])
      right == InputMask(w.plan, a.preds, all, w.plan[x].ins[2])
      stay == all \ (left \cup right)
      counted == Each(Leave, Each(AddCount, a, left \cap right), stay \cap own)
  IN  PassBoth(MergePredicates(counted, x, stay \ own), x, left, right)

HandleLeftOuterMerges(w, x, mask) ==   \* mutant: terms on the right go into the join condition
  LET left == InputMask(w.plan, w.preds, mask, w.plan[x].ins[1])
  IN  PassBoth(MergePredicates(w, x, mask \ left), x, left, {})

HandleLeftOuter(w, x, mask) ==
  LET left == InputMask(w.plan, w.preds, mask, w.plan[x].ins[1])
  IN  PassBoth(FlushAll(w, mask \ left), x, left, {})

HandleStopBoth(w, x, mask) == PassBoth(FlushAll(w, mask), x, {}, {})
HandleLeftOnly(w, x, mask) == PassBoth(w, x, mask, {})

-----------------------------------------------------------------------------

Init ==
  /\ plan \in Plans
  /\ given = plan
  /\ tasks \in {[k \in DOMAIN s |-> [node |-> s[k], mask |-> {}]] : s \in SetToSeqs(Bottoms(plan))}
  /\ preds = <<>>
  /\ status = "running"

\* dispatch: the last task is popped and its operator's handler runs to its end.
Popped(x) ==
  [plan |-> plan, preds |-> preds, tasks |-> Front(tasks),
   edge |-> IF x \in Bottoms(plan) THEN <<0, 0>> ELSE OutputOf(plan, x)]

Dispatch(ops, Handler(_, _, _)) ==
  /\ status = "running" /\ tasks # <<>>
  /\ LET x == Last(tasks).node
         after == Handler(Popped(x), x, Last(tasks).mask)
     IN  /\ plan[x].op \in ops
         /\ plan' = after.plan
         /\ preds' = after.preds
         /\ tasks' = after.tasks
  /\ UNCHANGED <<given, status>>

VisitSource == Dispatch(Leaves, LAMBDA w, x, mask : FlushAll(w, mask))
VisitProject == Dispatch({"project", "apply", "identify"}, HandleProject)
VisitFilter == Dispatch({"filter"}, HandleFilter)
VisitAggregate == Dispatch({"aggregate"}, HandleAggregate)
VisitDistinctLike == Dispatch({"distinct", "limit"}, HandleDistinctLike)
VisitEscape == Dispatch({"escape", "join_find", "join_scan"}, HandleStop)
VisitSink == Dispatch({"emit", "write"}, HandleSink)
VisitUnion == Dispatch({"union", "full_outer"}, HandleStopBoth)
VisitSetOperator == Dispatch({"intersection", "difference"}, HandleLeftOnly)

\* The predicates whose variables a join looks up in input k.
Asked(x, k) ==
  CASE plan[x].op \in {"inner", "semi"} ->
         <<preds \o AnalyzePredicates(plan, x),
           Last(tasks).mask \cup (Len(preds) + 1 .. Len(preds) + Len(plan[x].cond))>>
    [] plan[x].op \in {"left_outer", "left_outer_at_most_one", "anti"} /\ k = 1 -> <<preds, Last(tasks).mask>>
    [] OTHER -> <<preds, {}>>

Supported(x) == \A k \in 1 .. 2 : ~ MustThrow(plan, Asked(x, k)[1], Asked(x, k)[2], plan[x].ins[k])

VisitInner == Dispatch({"inner", "semi"}, HandleInner) /\ Supported(Last(tasks).node)
VisitLeftOuter ==
  Dispatch({"left_outer", "left_outer_at_most_one", "anti"}, HandleLeftOuter) /\ Supported(Last(tasks).node)

\* unsupported operator, or unsupported relation expression below a join
Throw ==
  /\ status = "running" /\ tasks # <<>>
  /\ LET x == Last(tasks).node
     IN  \/ plan[x].op \in {"buffer", "extension"}
         \/ /\ plan[x].op \in JoinKinds
            /\ \E k \in 1 .. 2 : MayThrow(plan, Asked(x, k)[1], Asked(x, k)[2], plan[x].ins[k])
  /\ status' = "failed"
  /\ tasks' = <<>>
  /\ UNCHANGED <<given, plan, preds>>

Finish ==
  /\ status = "running" /\ tasks = <<>>
  /\ status' = "done"
  /\ UNCHANGED <<given, plan, tasks, preds>>

Next ==
  \/ VisitSource \/ VisitProject \/ VisitFilter \/ VisitAggregate \/ VisitDistinctLike \/ VisitEscape
  \/ VisitSink \/ VisitUnion \/ VisitSetOperator \/ VisitInner \/ VisitLeftOuter
  \/ Throw \/ Finish

Spec == Init /\ [][Next]_vars

-----------------------------------------------------------------------------
\* What the pass promises.

\* No term disappears and none appears while the terms move: release takes a term out of
\* its place only to put it elsewhere.
NoTermLost == TermsOf(plan) = TermsOf(given)

\* The variables a row has where it leaves x.
VisibleAt(p, x) ==
  LET out[y \in DOMAIN p] ==
        CASE p[y].op \in Leaves \cup {"union", "escape"} -> Declares(p, y)
          [] p[y].op = "aggregate" -> p[y].keys \cup Declares(p, y)
          [] p[y].op \in {"semi", "anti", "intersection", "difference"} -> out[p[y].ins[1]]
          [] OTHER -> Declares(p, y) \cup UNION {out[p[y].ins[k]] : k \in DOMAIN p[y].ins}
  IN  out[x]

\* apply, project, identify, aggregate and the joins stop a term where the variables it uses
\* come from ("pass predicates only using the input columns"): at no moment does a filter or
\* a join apply a term to rows that do not have the variables it uses.
AppliedOnlyWhereDefined ==
  \A x \in DOMAIN plan :
    UsesOf(TermsIn(plan[x].cond)) \subseteq UNION {VisibleAt(plan, plan[x].ins[k]) : k \in DOMAIN plan[x].ins}

=============================================================================
