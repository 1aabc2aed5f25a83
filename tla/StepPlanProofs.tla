---------------------------- MODULE StepPlanProofs ----------------------------
(***************************************************************************)
(* The processes of a step plan do not overlap, every exchange has both    *)
(* ends, and processes wait for each other only through another branch of  *)
(* a buffer, whatever the plan is.                                         *)
(***************************************************************************)
EXTENDS StepPlan, FiniteSetTheorems, TLAPS

-----------------------------------------------------------------------------
(* Orders *)

\* Among some nodes there is always one with no edge from them, and one with no edge to them.
OrderedBy(nodes, edges) ==
  \A some \in SUBSET nodes :
    some # {} =>
      /\ \E x \in some : \A y \in some : <<y, x>> \notin edges
      /\ \E x \in some : \A y \in some : <<x, y>> \notin edges

\* A node that is replaced by an ordered graph, whose edges from and to the others are among its own.
LEMMA OrderKept ==
  ASSUME NEW nodes, NEW edges, OrderedBy(nodes, edges),
         NEW x \in nodes,
         NEW new, NEW inner, OrderedBy(new, inner),
         new \cap nodes = {},
         NEW outer,
         \A u, v \in nodes \ {x} : <<u, v>> \in outer => <<u, v>> \in edges,
         \A u \in nodes \ {x} : \A v \in new : <<u, v>> \in outer => <<u, x>> \in edges,
         \A u \in new : \A v \in nodes \ {x} : <<u, v>> \in outer => <<x, v>> \in edges,
         \A u, v \in new : <<u, v>> \in outer => <<u, v>> \in inner
  PROVE  OrderedBy((nodes \ {x}) \cup new, outer)
<1> SUFFICES ASSUME NEW some \in SUBSET ((nodes \ {x}) \cup new), some # {}
             PROVE  /\ \E a \in some : \A y \in some : <<y, a>> \notin outer
                    /\ \E a \in some : \A y \in some : <<a, y>> \notin outer
  BY DEF OrderedBy
<1> DEFINE kept == some \ new
           fresh == some \cap new
           P == kept \cup (IF fresh = {} THEN {} ELSE {x})
<1>1. P \in SUBSET nodes /\ P # {} /\ kept \subseteq nodes \ {x} /\ (fresh # {} => x \in P)
  OBVIOUS
<1> HIDE DEF P
<1>2. PICK first \in P : \A y \in P : <<y, first>> \notin edges
  BY <1>1 DEF OrderedBy
<1>3. PICK final \in P : \A y \in P : <<final, y>> \notin edges
  BY <1>1 DEF OrderedBy
<1> USE DEF P
<1>4. fresh # {} => /\ \E a \in fresh : \A y \in fresh : <<y, a>> \notin inner
                    /\ \E a \in fresh : \A y \in fresh : <<a, y>> \notin inner
  BY fresh \in SUBSET new DEF OrderedBy
<1>5. \E a \in some : \A y \in some : <<y, a>> \notin outer
  <2>1. CASE first = x
    <3>1. PICK a \in fresh : \A y \in fresh : <<y, a>> \notin inner
      BY <2>1, <1>1, <1>4
    <3>2. \A y \in kept : <<y, a>> \notin outer
      BY <2>1, <1>1, <1>2
    <3> QED
      BY <3>1, <3>2
  <2>2. CASE first # x
    <3>1. first \in kept
      BY <2>2
    <3>2. \A y \in kept : <<y, first>> \notin outer
      BY <3>1, <1>1, <1>2
    <3>3. \A y \in fresh : <<y, first>> \notin outer
      BY <3>1, <1>1, <1>2
    <3> QED
      BY <3>1, <3>2, <3>3
  <2> QED
    BY <2>1, <2>2
<1>6. \E a \in some : \A y \in some : <<a, y>> \notin outer
  <2>1. CASE final = x
    <3>1. PICK a \in fresh : \A y \in fresh : <<a, y>> \notin inner
      BY <2>1, <1>1, <1>4
    <3>2. \A y \in kept : <<a, y>> \notin outer
      BY <2>1, <1>1, <1>3
    <3> QED
      BY <3>1, <3>2
  <2>2. CASE final # x
    <3>1. final \in kept
      BY <2>2
    <3>2. \A y \in kept : <<final, y>> \notin outer
      BY <3>1, <1>1, <1>3
    <3>3. \A y \in fresh : <<final, y>> \notin outer
      BY <3>1, <1>1, <1>3
    <3> QED
      BY <3>1, <3>2, <3>3
  <2> QED
    BY <2>1, <2>2
<1> QED
  BY <1>5, <1>6

-----------------------------------------------------------------------------
(* What follows an operator *)

\* A set of operators with all that follow them.
Closed(set) == \A y \in set \cap DOMAIN ops : \A z \in DOMAIN ops : Follows(ops, z, y) => z \in set

\* Among some operators there is always one that none of them follows.
Ends(graph) == \A some \in SUBSET DOMAIN graph : some # {} => \E x \in some : \A y \in some : ~ Follows(graph, y, x)

\* The recursion of do_collect has a value: the least closed set that holds the operator.
LEMMA DownstreamIs ==
  ASSUME Ends(ops), NEW x \in DOMAIN ops
  PROVE  /\ x \in Downstream(x)
         /\ Downstream(x) \subseteq DOMAIN ops
         /\ Closed(Downstream(x))
         /\ \A set : x \in set /\ Closed(set) => Downstream(x) \subseteq set
         /\ \A w \in Downstream(x) : w = x \/ \E z \in DOMAIN ops : Follows(ops, z, x) /\ w \in Downstream(z)
<1> DEFINE next(y) == {z \in DOMAIN ops : Follows(ops, z, y)}
           Step(f) == [y \in DOMAIN ops |-> {y} \cup UNION {f[z] : z \in next(y)}]
           after == CHOOSE f : f = Step(f)
           least == [y \in DOMAIN ops |-> {z \in DOMAIN ops : \A set \in SUBSET DOMAIN ops : y \in set /\ Closed(set) => z \in set}]
<1>1. least = Step(least)
  <2> SUFFICES ASSUME NEW y \in DOMAIN ops
               PROVE  least[y] = {y} \cup UNION {least[z] : z \in next(y)}
    OBVIOUS
  <2> DEFINE all == {y} \cup UNION {least[z] : z \in next(y)}
  <2>1. \A z \in next(y) : least[z] \subseteq least[y]
    BY DEF Closed
  <2>2. y \in least[y]
    OBVIOUS
  <2>3. all \subseteq least[y]
    BY <2>1, <2>2
  <2>4. all \in SUBSET DOMAIN ops
    OBVIOUS
  <2>5. Closed(all)
    <3> SUFFICES ASSUME NEW w \in all, NEW v \in DOMAIN ops, Follows(ops, v, w)
                 PROVE  v \in all
      BY DEF Closed
    <3>1. CASE w = y
      BY <3>1, v \in least[v]
    <3>2. CASE w # y
      <4>1. PICK z \in next(y) : w \in least[z]
        BY <3>2
      <4>2. v \in least[z]
        BY <4>1 DEF Closed
      <4> QED
        BY <4>1, <4>2
    <3> QED
      BY <3>1, <3>2
  <2>6. least[y] \subseteq all
    BY <2>4, <2>5
  <2> QED
    BY <2>3, <2>6
<1> HIDE DEF least
<1>2. after = Step(after)
  BY <1>1
<1>3. \A y : Downstream(y) = after[y]
  BY DEF Downstream
<1> HIDE DEF after
<1>4. \A y \in DOMAIN ops : after[y] = {y} \cup UNION {after[z] : z \in next(y)}
  BY <1>2
<1>5. \A y \in DOMAIN ops : \A set : y \in set /\ Closed(set) => after[y] \subseteq set
  <2> SUFFICES ASSUME NEW set, Closed(set)
               PROVE  \A y \in DOMAIN ops : y \in set => after[y] \subseteq set
    OBVIOUS
  <2> DEFINE B == {y \in DOMAIN ops : y \in set /\ ~ after[y] \subseteq set}
  <2>1. \A y \in B : \E z \in B : Follows(ops, z, y)
    BY <1>4 DEF Closed
  <2>2. B = {}
    BY <2>1 DEF Ends
  <2> QED
    BY <2>2
<1>6. Closed(DOMAIN ops)
  BY DEF Closed
<1>7. \A y \in DOMAIN ops : after[y] \subseteq DOMAIN ops
  BY <1>5, <1>6
<1>8. \A y \in DOMAIN ops : Closed(after[y])
  <2> DEFINE B == {y \in DOMAIN ops : ~ Closed(after[y])}
  <2>1. \A y \in B : \E z \in B : Follows(ops, z, y)
    <3> SUFFICES ASSUME NEW y \in B
                 PROVE  \E z \in B : Follows(ops, z, y)
      OBVIOUS
    <3>1. PICK w \in after[y] \cap DOMAIN ops, v \in DOMAIN ops : Follows(ops, v, w) /\ v \notin after[y]
      BY DEF Closed
    <3>2. w # y
      BY <3>1, <1>4
    <3>3. PICK z \in next(y) : w \in after[z]
      BY <3>1, <3>2, <1>4
    <3>4. v \notin after[z]
      BY <3>1, <1>4
    <3>5. z \in B
      BY <3>1, <3>3, <3>4 DEF Closed
    <3> QED
      BY <3>5
  <2>2. B = {}
    BY <2>1 DEF Ends
  <2> QED
    BY <2>2
<1> QED
  BY <1>3, <1>4, <1>5, <1>7, <1>8

-----------------------------------------------------------------------------
(* The invariant of collect_exchange_steps *)

Takes == {"take_flat", "take_group", "take_cogroup"}
ReadingJoins == {"join_find", "join_scan"}
AfterTakes == {"flatten", "step_aggregate", "step_join", "step_intersection", "step_difference"}

HasFields(o) ==
  /\ {"op", "in"} \subseteq DOMAIN o
  /\ o.op = "offer" => "to" \in DOMAIN o
  /\ o.op \in {"take_flat", "take_group"} \cup ReadingJoins => "source" \in DOMAIN o
  /\ o.op = "take_cogroup" => "groups" \in DOMAIN o

\* Rows get from one operator to another, or to an exchange the other reads.
Feeds(graph, x, y) == Follows(graph, y, x) \/ (graph[x].op = "offer" /\ graph[x].to \in Sources(graph[y]))
Edges(graph) == {e \in (DOMAIN graph) \X (DOMAIN graph) : Feeds(graph, e[1], e[2])}

\* A name is new as long as the operator it is made of is there.
Named ==
  /\ \A y \in DOMAIN ops : y = <<y[1], y[2]>> /\ (y[2] = "plan" \/ <<y[1], "plan">> \notin DOMAIN ops)
  /\ \A e \in DOMAIN exchanges : e = <<e[1], e[2]>> /\ <<e[1], "plan">> \notin DOMAIN ops
  /\ \A y \in todo : y \in DOMAIN ops /\ y = <<y[1], "plan">>

Wired ==
  \A y \in DOMAIN ops :
    /\ HasFields(ops[y])
    /\ ops[y].in \in Seq(DOMAIN ops)
    /\ ops[y].op \in Entries => ops[y].in = <<>>
    /\ ops[y].op \in SingleInput => Len(ops[y].in) = 1
    /\ ops[y].op \in TwoInputs => Len(ops[y].in) = 2

Piped ==
  /\ \A y \in DOMAIN ops :
       /\ Sources(ops[y]) \subseteq DOMAIN exchanges
       /\ ops[y].op = "offer" => ops[y].to \in DOMAIN exchanges /\ \A z \in DOMAIN ops : ~ Follows(ops, z, y)
  /\ \A e \in DOMAIN exchanges :
       /\ \E y \in DOMAIN ops : ops[y].op = "offer" /\ ops[y].to = e
       /\ \E y \in DOMAIN ops : e \in Sources(ops[y]) /\ \A z \in DOMAIN ops : e \in Sources(ops[z]) => z = y

GraphInv == Named /\ Wired /\ Piped /\ OrderedBy(DOMAIN ops, Edges(ops))

\* What takes the place of operator x: offers, what reads the exchanges they fill, and what
\* follows a take.
Input(x, o) == \E k \in DOMAIN ops[x].in : o.in = <<ops[x].in[k]>>
Fits(x, new, steps, o) ==
  \/ o.op = "offer" /\ Input(x, o) /\ o.to \in DOMAIN steps
  \/ o.op \in Takes /\ o.in = <<>> /\ Sources(o) \subseteq DOMAIN steps
  \/ o.op \in ReadingJoins /\ Input(x, o) /\ Sources(o) \subseteq DOMAIN steps
  \/ o.op \in AfterTakes /\ \E t \in DOMAIN new : new[t].op \in Takes /\ o.in = <<t>>

Replacement(x, new, last, steps) ==
  /\ \A y \in DOMAIN new : y = <<x[1], y[2]>> /\ y[2] # "plan"
  /\ \A e \in DOMAIN steps : e = <<x[1], e[2]>> /\ e[2] # "plan"
  /\ last \in DOMAIN new /\ new[last].op # "offer" /\ \A y \in DOMAIN new : ~ Follows(new, y, last)
  /\ \A y \in DOMAIN new : HasFields(new[y]) /\ Fits(x, new, steps, new[y])
  /\ \A e \in DOMAIN steps :
       /\ \E y \in DOMAIN new : new[y].op = "offer" /\ new[y].to = e
       /\ \E y \in DOMAIN new : e \in Sources(new[y]) /\ \A z \in DOMAIN new : e \in Sources(new[z]) => z = y

LEMMA NewNames ==
  ASSUME Named, NEW x \in todo, NEW new, NEW last, NEW steps, Replacement(x, new, last, steps)
  PROVE  DOMAIN new \cap DOMAIN ops = {} /\ DOMAIN steps \cap DOMAIN exchanges = {}
<1>1. x \in DOMAIN ops /\ x = <<x[1], "plan">>
  BY DEF Named
<1>2. \A y \in DOMAIN new : y \notin DOMAIN ops
  <2> SUFFICES ASSUME NEW y \in DOMAIN new, y \in DOMAIN ops PROVE FALSE
    OBVIOUS
  <2>1. y[1] = x[1] /\ y[2] # "plan"
    BY DEF Replacement
  <2> QED
    BY <1>1, <2>1 DEF Named
<1>3. \A e \in DOMAIN steps : e \notin DOMAIN exchanges
  <2> SUFFICES ASSUME NEW e \in DOMAIN steps, e \in DOMAIN exchanges PROVE FALSE
    OBVIOUS
  <2>1. e[1] = x[1]
    BY DEF Replacement
  <2> QED
    BY <1>1, <2>1 DEF Named
<1> QED
  BY <1>2, <1>3

LEMMA SourcesOf ==
  ASSUME NEW o
  PROVE  /\ o.op \notin Takes \cup ReadingJoins => Sources(o) = {}
         /\ o.op = "offer" => Sources(o) = {}
         /\ o.op \in AfterTakes => Sources(o) = {}
  BY DEF Sources, Takes, ReadingJoins, AfterTakes

LEMMA NewOrdered ==
  ASSUME GraphInv, NEW x \in todo, NEW new, NEW last, NEW steps, Replacement(x, new, last, steps)
  PROVE  OrderedBy(DOMAIN new, Edges(new))
<1>1. DOMAIN new \cap DOMAIN ops = {} /\ x \in DOMAIN ops
  BY NewNames DEF GraphInv, Named
<1>2. \A k \in DOMAIN ops[x].in : ops[x].in[k] \notin DOMAIN new
  <2>1. ops[x].in \in Seq(DOMAIN ops)
    BY <1>1 DEF GraphInv, Wired
  <2> QED
    BY <1>1, <2>1
<1> DEFINE op(y) == new[y].op
<1>3. \A y \in DOMAIN new : op(y) \in {"offer"} \cup Takes \cup ReadingJoins \cup AfterTakes
  BY DEF Replacement, Fits
<1>4. \A y, z \in DOMAIN new : Follows(new, z, y) => op(y) \in Takes /\ op(z) \in AfterTakes
  <2> SUFFICES ASSUME NEW y \in DOMAIN new, NEW z \in DOMAIN new, Follows(new, z, y)
               PROVE  op(y) \in Takes /\ op(z) \in AfterTakes
    OBVIOUS
  <2>1. PICK k \in DOMAIN new[z].in : new[z].in[k] = y
    BY DEF Follows
  <2>2. ~ Input(x, new[z])
    BY <1>2, <2>1 DEF Input
  <2>3. new[z].in # <<>>
    BY <2>1
  <2>4. op(z) \in AfterTakes /\ \E t \in DOMAIN new : new[t].op \in Takes /\ new[z].in = <<t>>
    BY <2>2, <2>3 DEF Replacement, Fits
  <2> QED
    BY <2>1, <2>4
<1>5. \A y, z \in DOMAIN new :
        <<y, z>> \in Edges(new) =>
          \/ op(y) \in Takes /\ op(z) \in AfterTakes
          \/ op(y) = "offer" /\ op(z) \in Takes \cup ReadingJoins
  BY <1>4, SourcesOf DEF Edges, Feeds
<1>6. {"offer"} \cap (Takes \cup ReadingJoins \cup AfterTakes) = {} /\ AfterTakes \cap (Takes \cup ReadingJoins) = {}
  BY DEF Takes, ReadingJoins, AfterTakes
<1> SUFFICES ASSUME NEW some \in SUBSET DOMAIN new, some # {}
             PROVE  /\ \E a \in some : \A y \in some : <<y, a>> \notin Edges(new)
                    /\ \E a \in some : \A y \in some : <<a, y>> \notin Edges(new)
  BY DEF OrderedBy
<1> DEFINE reading == Takes \cup ReadingJoins
<1>7. \E a \in some : \A y \in some : <<y, a>> \notin Edges(new)
  <2>1. CASE \E a \in some : op(a) = "offer"
    BY <2>1, <1>5, <1>6
  <2>2. CASE (\A a \in some : op(a) # "offer") /\ \E a \in some : op(a) \in reading
    BY <2>2, <1>5, <1>6
  <2>3. CASE \A a \in some : op(a) # "offer" /\ op(a) \notin reading
    BY <2>3, <1>5, <1>6
  <2> QED
    BY <2>1, <2>2, <2>3
<1>8. \E a \in some : \A y \in some : <<a, y>> \notin Edges(new)
  <2>1. CASE \E a \in some : op(a) \in AfterTakes
    BY <2>1, <1>5, <1>6
  <2>2. CASE (\A a \in some : op(a) \notin AfterTakes) /\ \E a \in some : op(a) \in reading
    BY <2>2, <1>5, <1>6
  <2>3. CASE \A a \in some : op(a) \notin AfterTakes /\ op(a) \notin reading
    BY <2>3, <1>5, <1>6
  <2> QED
    BY <2>1, <2>2, <2>3
<1> QED
  BY <1>7, <1>8

Linked(o, x, last) == [o EXCEPT !.in = [k \in DOMAIN o.in |-> IF o.in[k] = x THEN last ELSE o.in[k]]]

LEMMA LinkedIs ==
  ASSUME NEW o, HasFields(o), NEW x, NEW last, NEW p, p = Linked(o, x, last)
  PROVE  /\ p.in = [k \in DOMAIN o.in |-> IF o.in[k] = x THEN last ELSE o.in[k]]
         /\ p.op = o.op /\ HasFields(p) /\ Sources(p) = Sources(o)
         /\ o.op = "offer" => p.to = o.to
<1>1. DOMAIN p = DOMAIN o /\ p.op = o.op /\ p.in = [k \in DOMAIN o.in |-> IF o.in[k] = x THEN last ELSE o.in[k]]
  BY DEF Linked, HasFields
<1>2. "to" \in DOMAIN o => p.to = o.to
  BY DEF Linked
<1>3. "source" \in DOMAIN o => p.source = o.source
  BY DEF Linked
<1>4. "groups" \in DOMAIN o => p.groups = o.groups
  BY DEF Linked
<1>5. Sources(p) = Sources(o)
  <2>1. CASE o.op = "take_cogroup"
    BY <2>1, <1>1, <1>4 DEF Sources, HasFields
  <2>2. CASE o.op \in {"take_flat", "take_group"} \cup ReadingJoins
    BY <2>2, <1>1, <1>3 DEF Sources, HasFields, ReadingJoins
  <2>3. CASE o.op \notin {"take_flat", "take_group", "take_cogroup"} \cup ReadingJoins
    BY <2>3, <1>1 DEF Sources, ReadingJoins
  <2> QED
    BY <2>1, <2>2, <2>3
<1> QED
  BY <1>1, <1>2, <1>5 DEF HasFields

\* The operators and exchanges after a replacement.
Replaced(x, new, last, steps) ==
  /\ x \in todo /\ todo' = todo \ {x}
  /\ Replacement(x, new, last, steps)
  /\ x \in DOMAIN ops /\ DOMAIN new \cap DOMAIN ops = {} /\ DOMAIN steps \cap DOMAIN exchanges = {}
  /\ DOMAIN ops' = (DOMAIN ops \ {x}) \cup DOMAIN new
  /\ DOMAIN exchanges' = DOMAIN exchanges \cup DOMAIN steps
  /\ \A y \in DOMAIN new : ops'[y] = new[y]
  /\ \A y \in DOMAIN ops \ {x} : ops'[y] = Linked(ops[y], x, last)

LEMMA OpsAfter ==
  ASSUME GraphInv, NEW x \in todo, NEW new, NEW last, NEW steps, Replacement(x, new, last, steps), Replace(x, new, last, steps)
  PROVE  Replaced(x, new, last, steps)
<1>1. x \in DOMAIN ops /\ DOMAIN new \cap DOMAIN ops = {} /\ DOMAIN steps \cap DOMAIN exchanges = {}
  BY NewNames DEF GraphInv, Named
<1> DEFINE kept == [y \in DOMAIN ops \ {x} |-> ops[y]]
           rewired == [y \in DOMAIN kept |-> Linked(kept[y], x, last)]
<1>2. ops' = rewired ++ new /\ exchanges' = exchanges ++ steps
  BY DEF Replace, Linked
<1>3. DOMAIN rewired = DOMAIN ops \ {x} /\ \A y \in DOMAIN ops \ {x} : rewired[y] = Linked(ops[y], x, last)
  OBVIOUS
<1> HIDE DEF rewired
<1> QED
  BY <1>1, <1>2, <1>3 DEF ++, Replaced, Replace

LEMMA NamedKept ==
  ASSUME GraphInv, NEW x, NEW new, NEW last, NEW steps, Replaced(x, new, last, steps)
  PROVE  Named'
<1>1. x \in DOMAIN ops /\ x = <<x[1], "plan">> /\ Named
  BY DEF GraphInv, Named, Replaced
<1>2. DOMAIN ops' = (DOMAIN ops \ {x}) \cup DOMAIN new /\ DOMAIN exchanges' = DOMAIN exchanges \cup DOMAIN steps
  BY DEF Replaced
<1>3. x \notin DOMAIN ops'
  BY <1>1, <1>2 DEF Replaced
<1>4. \A n : <<n, "plan">> \in DOMAIN ops' => <<n, "plan">> \in DOMAIN ops
  <2> SUFFICES ASSUME NEW n, <<n, "plan">> \in DOMAIN new PROVE FALSE
    BY <1>2
  <2> QED
    BY <<n, "plan">>[2] = "plan" DEF Replaced, Replacement
<1>5. \A y \in DOMAIN ops' : y = <<y[1], y[2]>> /\ (y[2] = "plan" \/ <<y[1], "plan">> \notin DOMAIN ops')
  <2> SUFFICES ASSUME NEW y \in DOMAIN ops'
               PROVE  y = <<y[1], y[2]>> /\ (y[2] = "plan" \/ <<y[1], "plan">> \notin DOMAIN ops')
    OBVIOUS
  <2>1. CASE y \in DOMAIN new
    BY <2>1, <1>1, <1>3 DEF Replaced, Replacement
  <2>2. CASE y \notin DOMAIN new
    BY <2>2, <1>1, <1>2, <1>4 DEF Named
  <2> QED
    BY <2>1, <2>2
<1>6. \A e \in DOMAIN exchanges' : e = <<e[1], e[2]>> /\ <<e[1], "plan">> \notin DOMAIN ops'
  <2> SUFFICES ASSUME NEW e \in DOMAIN exchanges'
               PROVE  e = <<e[1], e[2]>> /\ <<e[1], "plan">> \notin DOMAIN ops'
    OBVIOUS
  <2>1. CASE e \in DOMAIN steps
    BY <2>1, <1>1, <1>3 DEF Replaced, Replacement
  <2>2. CASE e \notin DOMAIN steps
    BY <2>2, <1>1, <1>2, <1>4 DEF Named
  <2> QED
    BY <2>1, <2>2
<1>7. \A y \in todo' : y \in DOMAIN ops' /\ y = <<y[1], "plan">>
  BY <1>1, <1>2 DEF Replaced, Named
<1> QED
  BY <1>5, <1>6, <1>7 DEF Named

LEMMA WiredKept ==
  ASSUME GraphInv, NEW x, NEW new, NEW last, NEW steps, Replaced(x, new, last, steps)
  PROVE  Wired'
<1>1. x \in DOMAIN ops /\ Wired /\ last \in DOMAIN new /\ DOMAIN ops' = (DOMAIN ops \ {x}) \cup DOMAIN new
  BY DEF GraphInv, Named, Replaced, Replacement
<1> SUFFICES ASSUME NEW y \in DOMAIN ops'
             PROVE  /\ HasFields(ops'[y])
                    /\ ops'[y].in \in Seq(DOMAIN ops')
                    /\ ops'[y].op \in Entries => ops'[y].in = <<>>
                    /\ ops'[y].op \in SingleInput => Len(ops'[y].in) = 1
                    /\ ops'[y].op \in TwoInputs => Len(ops'[y].in) = 2
  BY DEF Wired
<1>2. CASE y \in DOMAIN new
  <2>1. ops'[y] = new[y] /\ HasFields(new[y]) /\ Fits(x, new, steps, new[y])
    BY <1>2 DEF Replaced, Replacement
  <2>2. CASE Input(x, new[y]) /\ new[y].op \in {"offer"} \cup ReadingJoins
    <3>1. PICK k \in DOMAIN ops[x].in : new[y].in = <<ops[x].in[k]>>
      BY <2>2 DEF Input
    <3>2. ops[x].in \in Seq(DOMAIN ops) /\ ~ Follows(ops, x, x)
      <4>1. {x} \in SUBSET DOMAIN ops /\ {x} # {}
        BY <1>1
      <4>2. <<x, x>> \notin Edges(ops)
        BY <4>1 DEF GraphInv, OrderedBy
      <4> QED
        BY <4>2, <1>1 DEF Edges, Feeds, Wired
    <3>3. ops[x].in[k] \in DOMAIN ops \ {x}
      BY <3>2, <3>1 DEF Follows
    <3>4. ops[x].in[k] \in DOMAIN ops'
      BY <3>3, <1>1
    <3>5. new[y].in \in Seq(DOMAIN ops')
      BY <3>4, <3>1
    <3> QED
      BY <2>1, <2>2, <3>5 DEF ReadingJoins, Entries, SingleInput, TwoInputs
  <2>3. CASE new[y].op \in Takes /\ new[y].in = <<>>
    <3>1. new[y].in \in Seq(DOMAIN ops')
      BY <2>3
    <3> QED
      BY <2>1, <2>3, <3>1 DEF Takes, Entries, SingleInput, TwoInputs
  <2>4. CASE new[y].op \in AfterTakes /\ \E t \in DOMAIN new : new[y].in = <<t>>
    <3>1. new[y].in \in Seq(DOMAIN ops')
      BY <2>4, <1>1
    <3> QED
      BY <2>1, <2>4, <3>1 DEF AfterTakes, Entries, SingleInput, TwoInputs
  <2> QED
    BY <2>1, <2>2, <2>3, <2>4 DEF Fits
<1>3. CASE y \notin DOMAIN new
  <2>1. y \in DOMAIN ops \ {x} /\ ops'[y] = Linked(ops[y], x, last)
    BY <1>3, <1>1 DEF Replaced
  <2>2. HasFields(ops[y]) /\ ops[y].in \in Seq(DOMAIN ops)
    BY <2>1, <1>1 DEF Wired
  <2>3. /\ ops'[y].in = [k \in DOMAIN ops[y].in |-> IF ops[y].in[k] = x THEN last ELSE ops[y].in[k]]
        /\ ops'[y].op = ops[y].op /\ HasFields(ops'[y])
    BY <2>1, <2>2, LinkedIs
  <2>4. \A k \in DOMAIN ops[y].in : ops'[y].in[k] \in DOMAIN ops'
    BY <2>2, <2>3, <1>1
  <2>5. ops'[y].in \in Seq(DOMAIN ops') /\ Len(ops'[y].in) = Len(ops[y].in)
    <3> DEFINE n == Len(ops[y].in)
               in == ops'[y].in
    <3>1. n \in Nat /\ DOMAIN ops[y].in = 1 .. n
      BY <2>2
    <3>2. in \in [1 .. n -> DOMAIN ops']
      BY <3>1, <2>3, <2>4
    <3> HIDE DEF n, in
    <3>3. in \in Seq(DOMAIN ops') /\ Len(in) = n
      BY <3>1, <3>2
    <3> QED
      BY <3>3 DEF n, in
  <2>6. ops'[y].op \in Entries => ops'[y].in = <<>>
    BY <2>1, <2>3, <2>5, <1>1 DEF Wired
  <2> QED
    BY <2>1, <2>3, <2>5, <2>6, <1>1 DEF Wired
<1> QED
  BY <1>2, <1>3

LEMMA KeptAfter ==
  ASSUME GraphInv, NEW x, NEW new, NEW last, NEW steps, Replaced(x, new, last, steps), NEW y \in DOMAIN ops \ {x}
  PROVE  /\ y \in DOMAIN ops'
         /\ ops'[y].op = ops[y].op /\ Sources(ops'[y]) = Sources(ops[y])
         /\ ops[y].op = "offer" => ops'[y].to = ops[y].to
         /\ DOMAIN ops'[y].in = DOMAIN ops[y].in
         /\ \A k \in DOMAIN ops[y].in :
              ops[y].in[k] \in DOMAIN ops /\ ops'[y].in[k] = IF ops[y].in[k] = x THEN last ELSE ops[y].in[k]
<1>1. y \in DOMAIN ops' /\ ops'[y] = Linked(ops[y], x, last)
  BY DEF Replaced
<1>2. HasFields(ops[y]) /\ ops[y].in \in Seq(DOMAIN ops)
  BY DEF GraphInv, Wired
<1>3. /\ ops'[y].in = [k \in DOMAIN ops[y].in |-> IF ops[y].in[k] = x THEN last ELSE ops[y].in[k]]
      /\ ops'[y].op = ops[y].op /\ Sources(ops'[y]) = Sources(ops[y])
      /\ ops[y].op = "offer" => ops'[y].to = ops[y].to
  BY <1>1, <1>2, LinkedIs
<1> QED
  BY <1>1, <1>2, <1>3

\* What follows what after a replacement.
LEMMA FollowsAfter ==
  ASSUME GraphInv, NEW x, NEW new, NEW last, NEW steps, Replaced(x, new, last, steps)
  PROVE  /\ \A y, z \in DOMAIN ops \ {x} : Follows(ops', z, y) => Follows(ops, z, y)
         /\ \A y \in DOMAIN ops \ {x} : \A z \in DOMAIN new : Follows(ops', z, y) => Follows(ops, x, y)
         /\ \A y \in DOMAIN new : \A z \in DOMAIN ops \ {x} : Follows(ops', z, y) => y = last /\ Follows(ops, z, x)
         /\ \A y, z \in DOMAIN new : Follows(ops', z, y) => Follows(new, z, y)
<1>1. DOMAIN new \cap DOMAIN ops = {} /\ last \in DOMAIN new /\ \A z \in DOMAIN new : ops'[z] = new[z]
  BY DEF Replaced, Replacement
<1>2. ASSUME NEW y, NEW z \in DOMAIN ops \ {x}, Follows(ops', z, y)
      PROVE  Follows(ops, z, y) \/ (y = last /\ Follows(ops, z, x))
  <2>1. PICK k \in DOMAIN ops'[z].in : ops'[z].in[k] = y
    BY <1>2 DEF Follows
  <2>2. k \in DOMAIN ops[z].in /\ ops'[z].in[k] = IF ops[z].in[k] = x THEN last ELSE ops[z].in[k]
    BY <2>1, KeptAfter
  <2>3. CASE ops[z].in[k] = x
    BY <2>1, <2>2, <2>3 DEF Follows
  <2>4. CASE ops[z].in[k] # x
    BY <2>1, <2>2, <2>4 DEF Follows
  <2> QED
    BY <2>3, <2>4
<1>3. ASSUME NEW z \in DOMAIN ops \ {x}, NEW y \in DOMAIN new
      PROVE  ~ Follows(ops, z, y)
  BY <1>1, KeptAfter DEF Follows
<1>4. ASSUME NEW y \in DOMAIN ops \ {x}, NEW z \in DOMAIN new, Follows(new, z, y)
      PROVE  Follows(ops, x, y)
  <2>1. Fits(x, new, steps, new[z])
    BY DEF Replaced, Replacement
  <2>2. PICK k \in DOMAIN new[z].in : new[z].in[k] = y
    BY <1>4 DEF Follows
  <2>3. CASE Input(x, new[z])
    BY <2>2, <2>3 DEF Input, Follows
  <2>4. CASE new[z].in = <<>>
    BY <2>2, <2>4
  <2>5. CASE \E t \in DOMAIN new : new[z].in = <<t>>
    BY <2>2, <2>5, <1>1
  <2> QED
    BY <2>1, <2>3, <2>4, <2>5 DEF Fits
<1>5. \A y : \A z \in DOMAIN new : Follows(ops', z, y) => Follows(new, z, y)
  BY <1>1 DEF Follows
<1> QED
  BY <1>1, <1>2, <1>3, <1>4, <1>5

\* Offers and takes after a replacement: an exchange has both from its beginning.
LEMMA PipedKept ==
  ASSUME GraphInv, NEW x, NEW new, NEW last, NEW steps, Replaced(x, new, last, steps),
         ops[x].op # "offer", Sources(ops[x]) = {}
  PROVE  Piped'
<1>1. /\ DOMAIN ops' = (DOMAIN ops \ {x}) \cup DOMAIN new
      /\ DOMAIN exchanges' = DOMAIN exchanges \cup DOMAIN steps
      /\ DOMAIN steps \cap DOMAIN exchanges = {}
      /\ \A y \in DOMAIN new : ops'[y] = new[y]
  BY DEF Replaced
<1>2. Replacement(x, new, last, steps) /\ Piped
  BY DEF Replaced, GraphInv
<1>3. \A y \in DOMAIN new : Sources(new[y]) \subseteq DOMAIN steps /\ (new[y].op = "offer" => new[y].to \in DOMAIN steps)
  BY <1>2, SourcesOf DEF Replacement, Fits, Takes, ReadingJoins, AfterTakes
<1>4. ASSUME NEW y \in DOMAIN ops'
      PROVE  /\ Sources(ops'[y]) \subseteq DOMAIN exchanges'
             /\ ops'[y].op = "offer" => ops'[y].to \in DOMAIN exchanges' /\ \A z \in DOMAIN ops' : ~ Follows(ops', z, y)
  <2>1. CASE y \in DOMAIN new
    <3>1. ASSUME new[y].op = "offer", NEW z \in DOMAIN new PROVE ~ Follows(new, z, y)
      <4> SUFFICES ASSUME Follows(new, z, y) PROVE FALSE
        OBVIOUS
      <4>1. PICK k \in DOMAIN new[z].in : new[z].in[k] = y
        BY DEF Follows
      <4>2. ~ Input(x, new[z])
        <5> SUFFICES ASSUME Input(x, new[z]) PROVE FALSE
          OBVIOUS
        <5>1. y \in {ops[x].in[j] : j \in DOMAIN ops[x].in}
          BY <4>1 DEF Input
        <5>2. ops[x].in \in Seq(DOMAIN ops) /\ DOMAIN new \cap DOMAIN ops = {}
          BY DEF GraphInv, Wired, Replaced
        <5> QED
          BY <5>1, <5>2, <2>1
      <4>3. new[z].in # <<>>
        BY <4>1
      <4>4. \E t \in DOMAIN new : new[t].op \in Takes /\ new[z].in = <<t>>
        BY <4>2, <4>3, <1>2 DEF Replacement, Fits
      <4> QED
        BY <4>1, <4>4, <3>1 DEF Takes
    <3>2. ASSUME new[y].op = "offer", NEW z \in DOMAIN ops \ {x} PROVE ~ Follows(ops', z, y)
      BY <2>1, <3>2, <1>2, FollowsAfter DEF Replacement
    <3>3. ASSUME new[y].op = "offer", NEW z \in DOMAIN ops' PROVE ~ Follows(ops', z, y)
      BY <2>1, <3>1, <3>2, <3>3, <1>1, FollowsAfter
    <3> QED
      BY <2>1, <1>1, <1>3, <3>3
  <2>2. CASE y \in DOMAIN ops \ {x}
    <3>1. Sources(ops'[y]) = Sources(ops[y]) /\ ops'[y].op = ops[y].op /\ (ops[y].op = "offer" => ops'[y].to = ops[y].to)
      BY <2>2, KeptAfter
    <3>2. ASSUME ops[y].op = "offer", NEW z \in DOMAIN ops' PROVE ~ Follows(ops', z, y)
      <4>1. \A u \in DOMAIN ops : ~ Follows(ops, u, y)
        BY <3>2, <2>2, <1>2 DEF Piped
      <4>2. x \in DOMAIN ops
        BY DEF Replaced
      <4> QED
        BY <4>1, <4>2, <2>2, <1>1, FollowsAfter
    <3> QED
      BY <2>2, <3>1, <3>2, <1>1, <1>2 DEF Piped
  <2> QED
    BY <2>1, <2>2, <1>1
<1>5. ASSUME NEW e \in DOMAIN steps
      PROVE  /\ \E y \in DOMAIN ops' : ops'[y].op = "offer" /\ ops'[y].to = e
             /\ \E y \in DOMAIN ops' : e \in Sources(ops'[y]) /\ \A z \in DOMAIN ops' : e \in Sources(ops'[z]) => z = y
  <2>1. \A z \in DOMAIN ops \ {x} : e \notin Sources(ops'[z])
    BY <1>1, <1>2, KeptAfter DEF Piped
  <2>2. PICK y \in DOMAIN new : e \in Sources(new[y]) /\ \A z \in DOMAIN new : e \in Sources(new[z]) => z = y
    BY <1>2 DEF Replacement
  <2>3. e \in Sources(ops'[y]) /\ \A z \in DOMAIN ops' : e \in Sources(ops'[z]) => z = y
    BY <2>1, <2>2, <1>1
  <2>4. PICK o \in DOMAIN new : new[o].op = "offer" /\ new[o].to = e
    BY <1>2 DEF Replacement
  <2> QED
    BY <2>2, <2>3, <2>4, <1>1
<1>6. ASSUME NEW e \in DOMAIN exchanges
      PROVE  /\ \E y \in DOMAIN ops' : ops'[y].op = "offer" /\ ops'[y].to = e
             /\ \E y \in DOMAIN ops' : e \in Sources(ops'[y]) /\ \A z \in DOMAIN ops' : e \in Sources(ops'[z]) => z = y
  <2>1. \A z \in DOMAIN new : e \notin Sources(ops'[z])
    BY <1>1, <1>3
  <2>2. PICK y \in DOMAIN ops : e \in Sources(ops[y]) /\ \A z \in DOMAIN ops : e \in Sources(ops[z]) => z = y
    BY <1>2 DEF Piped
  <2>3. y \in DOMAIN ops \ {x}
    BY <2>2
  <2>4. e \in Sources(ops'[y]) /\ \A z \in DOMAIN ops' : e \in Sources(ops'[z]) => z = y
    BY <2>1, <2>2, <2>3, <1>1, KeptAfter
  <2>5. PICK o \in DOMAIN ops : ops[o].op = "offer" /\ ops[o].to = e
    BY <1>2 DEF Piped
  <2>6. o \in DOMAIN ops \ {x}
    BY <2>5
  <2> QED
    BY <2>3, <2>4, <2>5, <2>6, KeptAfter, <1>1
<1> QED
  BY <1>1, <1>4, <1>5, <1>6 DEF Piped

LEMMA OrderedKept ==
  ASSUME GraphInv, NEW x, NEW new, NEW last, NEW steps, Replaced(x, new, last, steps)
  PROVE  OrderedBy(DOMAIN ops', Edges(ops'))
<1>1. /\ DOMAIN ops' = (DOMAIN ops \ {x}) \cup DOMAIN new
      /\ DOMAIN steps \cap DOMAIN exchanges = {}
      /\ \A y \in DOMAIN new : ops'[y] = new[y]
      /\ DOMAIN new \cap DOMAIN ops = {} /\ x \in DOMAIN ops
  BY DEF Replaced
<1>2. Replacement(x, new, last, steps) /\ Piped
  BY DEF Replaced, GraphInv
<1>3. \A y \in DOMAIN new : Sources(new[y]) \subseteq DOMAIN steps /\ (new[y].op = "offer" => new[y].to \in DOMAIN steps)
  BY <1>2, SourcesOf DEF Replacement, Fits, Takes, ReadingJoins, AfterTakes
<1>4. \A y \in DOMAIN ops \ {x} :
        /\ Sources(ops'[y]) = Sources(ops[y]) /\ Sources(ops'[y]) \subseteq DOMAIN exchanges
        /\ ops'[y].op = ops[y].op /\ (ops[y].op = "offer" => ops'[y].to = ops[y].to /\ ops[y].to \in DOMAIN exchanges)
  BY KeptAfter, <1>2 DEF Piped
<1>5. \A u, v \in DOMAIN ops \ {x} : <<u, v>> \in Edges(ops') => <<u, v>> \in Edges(ops)
  BY <1>4, FollowsAfter DEF Edges, Feeds
<1>6. \A u \in DOMAIN ops \ {x} : \A v \in DOMAIN new : <<u, v>> \in Edges(ops') => <<u, x>> \in Edges(ops)
  BY <1>1, <1>3, <1>4, FollowsAfter DEF Edges, Feeds
<1>7. \A u \in DOMAIN new : \A v \in DOMAIN ops \ {x} : <<u, v>> \in Edges(ops') => <<x, v>> \in Edges(ops)
  BY <1>1, <1>3, <1>4, FollowsAfter DEF Edges, Feeds
<1>8. \A u, v \in DOMAIN new : <<u, v>> \in Edges(ops') => <<u, v>> \in Edges(new)
  BY <1>1, FollowsAfter DEF Edges, Feeds
<1>9. OrderedBy(DOMAIN ops, Edges(ops)) /\ OrderedBy(DOMAIN new, Edges(new))
  BY NewOrdered DEF GraphInv, Replaced
<1> HIDE DEF Edges
<1> QED
  BY <1>1, <1>5, <1>6, <1>7, <1>8, <1>9, OrderKept

LEMMA ReplaceKeeps ==
  ASSUME GraphInv, NEW x \in todo, ops[x].op # "offer", Sources(ops[x]) = {},
         NEW new, NEW last, NEW steps, Replacement(x, new, last, steps), Replace(x, new, last, steps)
  PROVE  GraphInv'
<1>1. Replaced(x, new, last, steps)
  BY OpsAfter
<1> QED
  BY <1>1, NamedKept, WiredKept, PipedKept, OrderedKept DEF GraphInv

-----------------------------------------------------------------------------
(* What each operator is replaced by *)

LEMMA NewIs ==
  ASSUME NEW x, NEW p, NEW q
  PROVE  /\ New(x, p) = <<x[1], New(x, p)[2]>> /\ New(x, p)[2] = p
         /\ New(x, p) = New(x, q) => p = q
         /\ New(x, p) # Index
  BY DEF New, Index

\* An operator that follows a take.
IsThen(x, o) == HasFields(o) /\ o.op \in AfterTakes /\ o.in = <<New(x, "take")>>

LEMMA AfterTakeIs ==
  ASSUME NEW x, NEW o, "op" \in DOMAIN o, o.op \in AfterTakes
  PROVE  \E p : AfterTake(x, o) = At(New(x, "then"), p) /\ IsThen(x, p)
<1> DEFINE p == [in |-> <<New(x, "take")>>] ++ o
<1>1. DOMAIN p = {"in"} \cup DOMAIN o /\ p.in = <<New(x, "take")>> /\ p.op = o.op
  BY DEF ++
<1>2. HasFields(p)
  BY <1>1 DEF HasFields, AfterTakes, ReadingJoins
<1> QED
  BY <1>1, <1>2 DEF IsThen, AfterTake

LEMMA FlattenIs ==
  ASSUME NEW x
  PROVE  \E p : Flatten(x) = At(New(x, "then"), p) /\ IsThen(x, p)
  BY AfterTakeIs DEF Flatten, AfterTakes

\* A name of a new operator or exchange.
IsNew(x, n) == n = <<x[1], n[2]>> /\ n[2] # "plan"

LEMMA NewNamesAreNew ==
  ASSUME NEW x, NEW p, p # "plan"
  PROVE  IsNew(x, New(x, p))
  BY DEF New, IsNew

LEMMA InputsOf ==
  ASSUME GraphInv, NEW x \in todo
  PROVE  /\ x \in DOMAIN ops /\ ops[x].in \in Seq(DOMAIN ops)
         /\ \A n : IsNew(x, n) => \A k \in DOMAIN ops[x].in : ops[x].in[k] # n
         /\ ops[x].op \in TwoInputs => DOMAIN ops[x].in = {1, 2}
         /\ ops[x].op \in SingleInput => DOMAIN ops[x].in = {1}
<1>1. x \in DOMAIN ops /\ x = <<x[1], "plan">>
  BY DEF GraphInv, Named
<1>2. ops[x].in \in Seq(DOMAIN ops)
  BY <1>1 DEF GraphInv, Wired
<1>3. \A n : IsNew(x, n) => n \notin DOMAIN ops
  <2> SUFFICES ASSUME NEW n, IsNew(x, n), n \in DOMAIN ops PROVE FALSE
    OBVIOUS
  <2>1. n[1] = x[1] /\ n[2] # "plan"
    BY DEF IsNew
  <2> QED
    BY <1>1, <2>1 DEF GraphInv, Named
<1>4. \A k \in DOMAIN ops[x].in : ops[x].in[k] \in DOMAIN ops
  BY <1>2
<1>5. ops[x].op \in TwoInputs => DOMAIN ops[x].in = {1, 2}
  <2> SUFFICES ASSUME ops[x].op \in TwoInputs PROVE DOMAIN ops[x].in = {1, 2}
    OBVIOUS
  <2>1. Len(ops[x].in) = 2
    BY <1>1 DEF GraphInv, Wired
  <2>2. DOMAIN ops[x].in = 1 .. 2
    BY <1>2, <2>1
  <2> QED
    BY <2>2
<1>6. ops[x].op \in SingleInput => DOMAIN ops[x].in = {1}
  <2> SUFFICES ASSUME ops[x].op \in SingleInput PROVE DOMAIN ops[x].in = {1}
    OBVIOUS
  <2>1. Len(ops[x].in) = 1
    BY <1>1 DEF GraphInv, Wired
  <2>2. DOMAIN ops[x].in = 1 .. 1
    BY <1>2, <2>1
  <2> QED
    BY <2>2
<1> QED
  BY <1>1, <1>2, <1>3, <1>4, <1>5, <1>6

LEMMA OfferIs ==
  ASSUME NEW i, NEW e, NEW columns
  PROVE  LET o == Offer(i, e, columns)
         IN  o.op = "offer" /\ o.in = <<i>> /\ o.to = e /\ HasFields(o)
  BY DEF Offer, HasFields, ReadingJoins

LEMMA TakeIs ==
  ASSUME NEW e, NEW kind \in {"take_flat", "take_group"}
  PROVE  LET o == Take(kind, e)
         IN  o.op \in Takes /\ o.in = <<>> /\ HasFields(o) /\ Sources(o) = {e}
  BY DEF Take, HasFields, ReadingJoins, Sources, Takes

LEMMA CogroupIs ==
  ASSUME NEW left, NEW right
  PROVE  LET o == Cogroup(left, right)
         IN  o.op \in Takes /\ o.in = <<>> /\ HasFields(o) /\ Sources(o) = {left[1], right[1]}
<1> DEFINE o == Cogroup(left, right)
<1>1. o.op = "take_cogroup" /\ o.in = <<>> /\ DOMAIN o = {"op", "in", "groups"}
  BY DEF Cogroup
<1>2. DOMAIN o.groups = {1, 2} /\ o.groups[1].source = left[1] /\ o.groups[2].source = right[1]
  BY DEF Cogroup
<1>3. Sources(o) = {o.groups[k].source : k \in DOMAIN o.groups}
  BY <1>1 DEF Sources
<1>4. Sources(o) = {left[1], right[1]}
  BY <1>2, <1>3
<1> QED
  BY <1>1, <1>4 DEF HasFields, ReadingJoins, Takes

\* Some offers, to exchanges that t reads, and what follows t.
Shape(x, new, last, steps, offers, t) ==
  /\ DOMAIN new = offers \cup {t, last} /\ t \notin offers /\ last \notin offers
  /\ \A y \in DOMAIN new : IsNew(x, y) /\ HasFields(new[y])
  /\ \A e \in DOMAIN steps : IsNew(x, e) /\ \E y \in offers : new[y].to = e
  /\ \A y \in offers : new[y].op = "offer" /\ Input(x, new[y]) /\ new[y].to \in DOMAIN steps
  /\ Sources(new[t]) = DOMAIN steps
  /\ \/ new[t].op \in Takes /\ new[t].in = <<>>
     \/ new[t].op \in ReadingJoins /\ Input(x, new[t]) /\ last = t
  /\ last # t => new[last].op \in AfterTakes /\ new[last].in = <<t>>

LEMMA ShapeFits ==
  ASSUME GraphInv, NEW x \in todo, NEW new, NEW last, NEW steps, NEW offers, NEW t, Shape(x, new, last, steps, offers, t)
  PROVE  Replacement(x, new, last, steps)
<1>1. \A n \in DOMAIN new : \A k \in DOMAIN ops[x].in : ops[x].in[k] # n
  BY InputsOf DEF Shape
<1>2. /\ \A y \in DOMAIN new : y = <<x[1], y[2]>> /\ y[2] # "plan"
      /\ \A y \in DOMAIN steps : y = <<x[1], y[2]>> /\ y[2] # "plan"
  BY DEF IsNew, Shape
<1>3. \A y \in offers : new[y].op = "offer" /\ Sources(new[y]) = {}
  BY SourcesOf DEF Shape
<1>4. last # t => new[last].op \in AfterTakes /\ new[last].in = <<t>> /\ Sources(new[last]) = {}
  BY SourcesOf DEF Shape
<1>5. \A y \in DOMAIN new : HasFields(new[y]) /\ Fits(x, new, steps, new[y])
  <2> SUFFICES ASSUME NEW y \in DOMAIN new PROVE Fits(x, new, steps, new[y])
    BY DEF Shape
  <2>1. CASE y \in offers
    BY <2>1 DEF Fits, Shape
  <2>2. CASE y = t
    BY <2>2 DEF Fits, Shape
  <2>3. CASE y = last /\ last # t
    <3>1. new[t].op \in Takes
      BY <2>3 DEF Shape
    <3>2. t \in DOMAIN new
      BY DEF Shape
    <3> QED
      BY <2>3, <3>1, <3>2, <1>4 DEF Fits
  <2> QED
    BY <2>1, <2>2, <2>3 DEF Shape
<1>6. \A e \in DOMAIN steps :
        /\ \E y \in DOMAIN new : new[y].op = "offer" /\ new[y].to = e
        /\ \E y \in DOMAIN new : e \in Sources(new[y]) /\ \A z \in DOMAIN new : e \in Sources(new[z]) => z = y
  BY <1>3, <1>4 DEF Shape
<1>7. \A y \in DOMAIN new : \A k \in DOMAIN new[y].in :
        \/ y \in offers \cup {t} /\ Input(x, new[y]) /\ k = 1 /\ \E i \in DOMAIN ops[x].in : new[y].in[k] = ops[x].in[i]
        \/ y = last /\ last # t /\ k = 1 /\ new[y].in[k] = t
  <2> SUFFICES ASSUME NEW y \in DOMAIN new, NEW k \in DOMAIN new[y].in
               PROVE  \/ y \in offers \cup {t} /\ Input(x, new[y]) /\ k = 1 /\ \E i \in DOMAIN ops[x].in : new[y].in[k] = ops[x].in[i]
                      \/ y = last /\ last # t /\ k = 1 /\ new[y].in[k] = t
    OBVIOUS
  <2>1. CASE Input(x, new[y]) /\ y \in offers \cup {t}
    BY <2>1 DEF Input
  <2>2. CASE new[y].in = <<>>
    BY <2>2
  <2>3. CASE y = last /\ last # t
    BY <2>3, <1>4
  <2> QED
    BY <2>1, <2>2, <2>3 DEF Shape
<1>8. \A y \in DOMAIN new : ~ Follows(new, y, last)
  BY <1>1, <1>7 DEF Follows, Shape
<1>9. last \in DOMAIN new /\ new[last].op # "offer"
  BY <1>4 DEF Shape, AfterTakes, Takes, ReadingJoins
<1> QED
  BY <1>2, <1>5, <1>6, <1>8, <1>9 DEF Replacement

\* Two exchanges, read together.
LEMMA TwoGroupsFit ==
  ASSUME GraphInv, NEW x \in todo, ops[x].op \in TwoInputs,
         NEW l, NEW r, NEW part \in {"join", "then"}, NEW then, IsThen(x, then),
         NEW g, NEW h, NEW new, NEW steps,
         new = At(New(x, "left offer"), Offer(ops[x].in[1], New(x, "left group"), <<>>))
               ++ At(New(x, "right offer"), Offer(ops[x].in[2], New(x, "right group"), <<>>))
               ++ At(New(x, "take"), Cogroup(<<New(x, "left group"), l>>, <<New(x, "right group"), r>>))
               ++ At(New(x, part), then),
         steps = At(New(x, "left group"), g) ++ At(New(x, "right group"), h)
  PROVE  Replacement(x, new, New(x, part), steps)
<1> DEFINE a == New(x, "left offer")
           b == New(x, "right offer")
           t == New(x, "take")
           j == New(x, part)
           e == New(x, "left group")
           f == New(x, "right group")
           i == ops[x].in
<1>1. a # b /\ a # t /\ a # j /\ b # t /\ b # j /\ t # j /\ e # f
  BY NewIs
<1>2. IsNew(x, a) /\ IsNew(x, b) /\ IsNew(x, t) /\ IsNew(x, j) /\ IsNew(x, e) /\ IsNew(x, f)
  BY NewNamesAreNew
<1>3. DOMAIN i = {1, 2}
  BY InputsOf
<1> HIDE DEF a, b, t, j, e, f
<1>4. new = At(a, Offer(i[1], e, <<>>)) ++ At(b, Offer(i[2], f, <<>>))
            ++ At(t, Cogroup(<<e, l>>, <<f, r>>)) ++ At(j, then)
  BY DEF a, b, t, j, e, f
<1>5. DOMAIN new = {a, b, t, j}
  BY <1>4 DEF ++, At
<1>6. steps = At(e, g) ++ At(f, h)
  BY DEF e, f
<1>7. DOMAIN steps = {e, f}
  BY <1>6 DEF ++, At
<1>8. /\ new[a] = Offer(i[1], e, <<>>) /\ new[b] = Offer(i[2], f, <<>>)
      /\ new[t] = Cogroup(<<e, l>>, <<f, r>>) /\ new[j] = then
  BY <1>1, <1>4 DEF ++, At
<1>9. /\ new[a].op = "offer" /\ new[a].in = <<i[1]>> /\ new[a].to = e /\ HasFields(new[a])
      /\ new[b].op = "offer" /\ new[b].in = <<i[2]>> /\ new[b].to = f /\ HasFields(new[b])
  BY ONLY <1>8, OfferIs
<1>10. new[t].op \in Takes /\ new[t].in = <<>> /\ HasFields(new[t]) /\ Sources(new[t]) = {e, f}
  BY ONLY <1>8, CogroupIs
<1>11. new[j].op \in AfterTakes /\ new[j].in = <<t>> /\ HasFields(new[j])
  BY <1>8 DEF t, IsThen
<1>12. Input(x, new[a]) /\ Input(x, new[b]) /\ ~ Input(x, new[t])
  BY ONLY <1>3, <1>9, <1>10 DEF Input
<1>13. Shape(x, new, j, steps, {a, b}, t)
  BY ONLY <1>1, <1>2, <1>3, <1>5, <1>7, <1>9, <1>10, <1>11, <1>12 DEF Shape
<1>14. Replacement(x, new, j, steps)
  BY <1>13, ShapeFits
<1> QED
  BY <1>14 DEF j

\* One exchange, filled by one offer.
LEMMA OneExchangeFits ==
  ASSUME GraphInv, NEW x \in todo, ops[x].op \in SingleInput,
         NEW e, NEW take \in {"take_flat", "take_group"}, NEW then, then = Nothing \/ \E p : then = At(New(x, "then"), p) /\ IsThen(x, p),
         ThroughExchange(x, e, take, then)
  PROVE  \E new, last, steps : Replacement(x, new, last, steps) /\ Replace(x, new, last, steps)
<1> DEFINE a == New(x, "offer")
           t == New(x, "take")
           n == New(x, "then")
           f == New(x, "exchange")
           i == ops[x].in
           last == New(x, IF then = Nothing THEN "take" ELSE "then")
           new == At(a, Offer(i[1], f, <<>>)) ++ At(t, Take(take, f)) ++ then
           steps == At(f, e)
<1>1. Replace(x, new, last, steps)
  BY DEF ThroughExchange
<1>2. a # t /\ a # n /\ t # n
  BY NewIs
<1>3. IsNew(x, a) /\ IsNew(x, t) /\ IsNew(x, n) /\ IsNew(x, f)
  BY NewNamesAreNew
<1>4. DOMAIN i = {1}
  BY InputsOf
<1>5. /\ then = Nothing => last = t
      /\ then # Nothing => last = n
  OBVIOUS
<1>6. then # Nothing => \E p : then = At(n, p) /\ p.op \in AfterTakes /\ p.in = <<t>> /\ HasFields(p)
  BY DEF IsThen
<1> HIDE DEF a, t, n, f, last
<1>7. DOMAIN steps = {f}
  BY DEF At
<1>8. CASE then = Nothing
  <2>1. DOMAIN new = {a, t} /\ new[a] = Offer(i[1], f, <<>>) /\ new[t] = Take(take, f)
    BY <1>2, <1>8 DEF ++, At, Nothing
  <2> HIDE DEF new, steps
  <2>2. /\ new[a].op = "offer" /\ new[a].in = <<i[1]>> /\ new[a].to = f /\ HasFields(new[a])
        /\ new[t].op \in Takes /\ new[t].in = <<>> /\ HasFields(new[t]) /\ Sources(new[t]) = {f}
    BY ONLY <2>1, OfferIs, TakeIs, take \in {"take_flat", "take_group"}
  <2>3. Input(x, new[a]) /\ ~ Input(x, new[t])
    BY ONLY <1>4, <2>2 DEF Input
  <2>4. Shape(x, new, t, steps, {a}, t)
    <3>1. DOMAIN new = {a} \cup {t, t} /\ t \notin {a}
      BY ONLY <1>2, <2>1
    <3>2. \A y \in DOMAIN new : IsNew(x, y) /\ HasFields(new[y])
      BY ONLY <1>3, <2>1, <2>2
    <3>3. /\ \A y \in DOMAIN steps : IsNew(x, y) /\ \E z \in {a} : new[z].to = y
          /\ \A y \in {a} : new[y].op = "offer" /\ Input(x, new[y]) /\ new[y].to \in DOMAIN steps
          /\ Sources(new[t]) = DOMAIN steps
      BY ONLY <1>3, <1>7, <2>2, <2>3
    <3> QED
      BY ONLY <3>1, <3>2, <3>3, <2>2 DEF Shape
  <2>5. Replacement(x, new, last, steps)
    BY <2>4, <1>5, <1>8, ShapeFits
  <2> QED
    BY <1>1, <2>5
<1>9. CASE then # Nothing
  <2>1. PICK p : then = At(n, p) /\ p.op \in AfterTakes /\ p.in = <<t>> /\ HasFields(p)
    BY <1>6, <1>9
  <2>2. DOMAIN new = {a, t, n} /\ new[a] = Offer(i[1], f, <<>>) /\ new[t] = Take(take, f) /\ new[n] = p
    BY <1>2, <2>1 DEF ++, At
  <2> HIDE DEF new, steps
  <2>3. /\ new[a].op = "offer" /\ new[a].in = <<i[1]>> /\ new[a].to = f /\ HasFields(new[a])
        /\ new[t].op \in Takes /\ new[t].in = <<>> /\ HasFields(new[t]) /\ Sources(new[t]) = {f}
    BY ONLY <2>2, OfferIs, TakeIs, take \in {"take_flat", "take_group"}
  <2>4. Input(x, new[a]) /\ ~ Input(x, new[t])
    BY ONLY <1>4, <2>3 DEF Input
  <2>5. Shape(x, new, n, steps, {a}, t)
    <3>1. DOMAIN new = {a} \cup {t, n} /\ t \notin {a} /\ n \notin {a}
      BY ONLY <1>2, <2>2
    <3>2. \A y \in DOMAIN new : IsNew(x, y) /\ HasFields(new[y])
      BY ONLY <1>3, <2>1, <2>2, <2>3
    <3>3. /\ \A y \in DOMAIN steps : IsNew(x, y) /\ \E z \in {a} : new[z].to = y
          /\ \A y \in {a} : new[y].op = "offer" /\ Input(x, new[y]) /\ new[y].to \in DOMAIN steps
          /\ Sources(new[t]) = DOMAIN steps
      BY ONLY <1>3, <1>7, <2>3, <2>4
    <3>4. new[n].op \in AfterTakes /\ new[n].in = <<t>>
      BY ONLY <2>1, <2>2
    <3> QED
      BY ONLY <3>1, <3>2, <3>3, <3>4, <2>3 DEF Shape
  <2>6. Replacement(x, new, last, steps)
    BY <2>5, <1>5, <1>9, ShapeFits
  <2> QED
    BY <1>1, <2>6
<1> QED
  BY <1>8, <1>9

LEMMA CogroupJoinFits ==
  ASSUME GraphInv, NEW x \in todo, VisitCogroupJoin(x), ~ Refuse
  PROVE  ops[x].op \in TwoInputs /\ \E new, last, steps : Replacement(x, new, last, steps) /\ Replace(x, new, last, steps)
<1>1. ops[x].op \in TwoInputs
  BY DEF VisitCogroupJoin, Visiting, TwoInputs
<1> DEFINE kind == ops[x].kind
           then == [op |-> "step_join", in |-> <<New(x, "take")>>, kind |-> kind, cond |-> ops[x].cond]
           new == At(New(x, "left offer"), Offer(ops[x].in[1], New(x, "left group"), <<>>))
                  ++ At(New(x, "right offer"), Offer(ops[x].in[2], New(x, "right group"), <<>>))
                  ++ At(New(x, "take"), Cogroup(<<New(x, "left group"), IsLeftMandatory(kind)>>,
                                                <<New(x, "right group"), IsRightMandatory(kind)>>))
                  ++ At(New(x, "join"), then)
<1>2. PICK g, h : Replace(x, new, New(x, "join"), At(New(x, "left group"), g) ++ At(New(x, "right group"), h))
  BY DEF VisitCogroupJoin
<1>3. IsThen(x, then)
  BY DEF IsThen, HasFields, AfterTakes, ReadingJoins
<1> HIDE DEF then
<1>4. Replacement(x, new, New(x, "join"), At(New(x, "left group"), g) ++ At(New(x, "right group"), h))
  BY <1>1, <1>3, TwoGroupsFit
<1> QED
  BY <1>1, <1>2, <1>4

LEMMA SetOperatorFits ==
  ASSUME GraphInv, NEW x \in todo, VisitSetOperator(x)
  PROVE  ops[x].op \in TwoInputs /\ \E new, last, steps : Replacement(x, new, last, steps) /\ Replace(x, new, last, steps)
<1>1. ops[x].op \in TwoInputs
  BY DEF VisitSetOperator, Visiting, TwoInputs
<1> DEFINE el == New(x, "left group")
           er == New(x, "right group")
           new(o) == At(New(x, "left offer"), Offer(ops[x].in[1], el, <<>>))
                     ++ At(New(x, "right offer"), Offer(ops[x].in[2], er, <<>>))
                     ++ At(New(x, "take"), Cogroup(<<el, TRUE>>, <<er, FALSE>>))
                     ++ AfterTake(x, o)
<1>2. PICK o, g, h :
        /\ "op" \in DOMAIN o /\ o.op \in AfterTakes
        /\ Replace(x, new(o), New(x, "then"), At(el, g) ++ At(er, h))
  <2> DEFINE distinct == ops[x].quantifier = "distinct"
             o == IF distinct
                    THEN [op |-> "step_join", kind |-> IF ops[x].op = "intersection" THEN "semi" ELSE "anti", cond |-> {}]
                    ELSE [op |-> IF ops[x].op = "intersection" THEN "step_intersection" ELSE "step_difference"]
  <2>1. "op" \in DOMAIN o /\ o.op \in AfterTakes
    BY DEF AfterTakes
  <2>2. \E g, h : Replace(x, new(o), New(x, "then"), At(el, g) ++ At(er, h))
    BY DEF VisitSetOperator
  <2> QED
    BY <2>1, <2>2
<1>3. PICK p : AfterTake(x, o) = At(New(x, "then"), p) /\ IsThen(x, p)
  BY <1>2, AfterTakeIs
<1>4. Replacement(x, new(o), New(x, "then"), At(el, g) ++ At(er, h))
  BY <1>1, <1>3, TwoGroupsFit
<1> QED
  BY <1>1, <1>2, <1>4

LEMMA BroadcastJoinFits ==
  ASSUME GraphInv, NEW x \in todo, VisitBroadcastJoin(x)
  PROVE  ops[x].op \in TwoInputs /\ \E new, last, steps : Replacement(x, new, last, steps) /\ Replace(x, new, last, steps)
<1>1. ops[x].op \in TwoInputs
  BY DEF VisitBroadcastJoin, Visiting, TwoInputs
<1> DEFINE a == New(x, "offer")
           t == New(x, "join")
           e == New(x, "broadcast")
           i == ops[x].in
           rest == [in |-> <<i[1]>>, kind |-> ops[x].kind, source |-> e, columns |-> <<>>, cond |-> ops[x].cond]
           join == IF Style(x) \in {"key_pairs", "prefix"}
                     THEN [op |-> "join_find", keys |-> ops[x].lower.keys] ++ rest
                     ELSE [op |-> "join_scan", lower |-> ops[x].lower, upper |-> ops[x].upper] ++ rest
           new == At(a, Offer(i[2], e, <<>>)) ++ At(t, join)
           steps == At(e, Broadcast)
<1>2. Replace(x, new, t, steps)
  BY DEF VisitBroadcastJoin
<1>3. a # t /\ e # Index
  BY NewIs
<1>4. IsNew(x, a) /\ IsNew(x, t) /\ IsNew(x, e)
  BY NewNamesAreNew
<1>5. DOMAIN i = {1, 2}
  BY <1>1, InputsOf
<1> HIDE DEF a, t, e
<1>6. DOMAIN steps = {e}
  BY DEF At
<1>7. /\ {"op", "in", "source"} \subseteq DOMAIN join
      /\ join.op \in ReadingJoins /\ join.in = <<i[1]>> /\ join.source = e
  <2>1. CASE Style(x) \in {"key_pairs", "prefix"}
    BY <2>1 DEF ++, ReadingJoins
  <2>2. CASE Style(x) \notin {"key_pairs", "prefix"}
    BY <2>2 DEF ++, ReadingJoins
  <2> QED
    BY <2>1, <2>2
<1> HIDE DEF join
<1>8. DOMAIN new = {a, t} /\ new[a] = Offer(i[2], e, <<>>) /\ new[t] = join
  BY <1>3 DEF ++, At
<1> HIDE DEF new, steps
<1>9. new[a].op = "offer" /\ new[a].in = <<i[2]>> /\ new[a].to = e /\ HasFields(new[a])
  BY ONLY <1>8, OfferIs
<1>10. new[t].op \in ReadingJoins /\ new[t].in = <<i[1]>> /\ HasFields(new[t]) /\ Sources(new[t]) = {e}
  BY <1>3, <1>7, <1>8 DEF HasFields, ReadingJoins, Sources
<1>11. Input(x, new[a]) /\ Input(x, new[t])
  BY <1>5, <1>9, <1>10 DEF Input
<1>12. Shape(x, new, t, steps, {a}, t)
  BY ONLY <1>3, <1>4, <1>5, <1>6, <1>8, <1>9, <1>10, <1>11 DEF Shape
<1>13. Replacement(x, new, t, steps)
  BY <1>12, ShapeFits
<1> QED
  BY <1>1, <1>2, <1>13

LEMMA UnionFits ==
  ASSUME GraphInv, NEW x \in todo, VisitUnion(x), ~ Refuse
  PROVE  ops[x].op \in TwoInputs /\ \E new, last, steps : Replacement(x, new, last, steps) /\ Replace(x, new, last, steps)
<1>1. ops[x].op \in TwoInputs
  BY DEF VisitUnion, Visiting, TwoInputs
<1> DEFINE a == New(x, "left offer")
           b == New(x, "right offer")
           t == New(x, "take")
           n == New(x, "then")
           e == New(x, "exchange")
           i == ops[x].in
           distinct == ops[x].quantifier = "distinct"
           take == IF distinct THEN "take_group" ELSE "take_flat"
           last == New(x, IF distinct THEN "then" ELSE "take")
           new == At(a, Offer(i[1], e, Side(ops[x].mappings, "left"))) ++ At(b, Offer(i[2], e, Side(ops[x].mappings, "right")))
                  ++ At(t, Take(take, e)) ++ (IF distinct THEN Flatten(x) ELSE Nothing)
<1>2. PICK g : Replace(x, new, last, At(e, g))
  BY DEF VisitUnion
<1>3. PICK p : Flatten(x) = At(n, p) /\ IsThen(x, p)
  BY FlattenIs
<1>4. a # b /\ a # t /\ a # n /\ b # t /\ b # n /\ t # n
  BY NewIs
<1>5. IsNew(x, a) /\ IsNew(x, b) /\ IsNew(x, t) /\ IsNew(x, n) /\ IsNew(x, e)
  BY NewNamesAreNew
<1>6. DOMAIN i = {1, 2}
  BY <1>1, InputsOf
<1>7. p.op \in AfterTakes /\ p.in = <<t>> /\ HasFields(p)
  BY <1>3 DEF IsThen
<1>8. last = IF distinct THEN n ELSE t
  OBVIOUS
<1>9. take \in {"take_flat", "take_group"}
  OBVIOUS
<1> HIDE DEF a, b, t, n, e, last, take
<1> DEFINE steps == At(e, g)
<1>10. DOMAIN steps = {e}
  BY DEF At
<1>11. /\ new[a] = Offer(i[1], e, Side(ops[x].mappings, "left")) /\ new[b] = Offer(i[2], e, Side(ops[x].mappings, "right"))
       /\ new[t] = Take(take, e)
       /\ DOMAIN new = {a, b, t, last} /\ (distinct => new[n] = p)
  <2>1. CASE distinct
    BY <2>1, <1>3, <1>4, <1>8 DEF ++, At
  <2>2. CASE ~ distinct
    BY <2>2, <1>4, <1>8 DEF ++, At, Nothing
  <2> QED
    BY <2>1, <2>2
<1> HIDE DEF new, steps
<1>12. /\ new[a].op = "offer" /\ new[a].in = <<i[1]>> /\ new[a].to = e /\ HasFields(new[a])
       /\ new[b].op = "offer" /\ new[b].in = <<i[2]>> /\ new[b].to = e /\ HasFields(new[b])
       /\ new[t].op \in Takes /\ new[t].in = <<>> /\ HasFields(new[t]) /\ Sources(new[t]) = {e}
  BY ONLY <1>9, <1>11, OfferIs, TakeIs
<1>13. Input(x, new[a]) /\ Input(x, new[b]) /\ ~ Input(x, new[t])
  BY ONLY <1>6, <1>12 DEF Input
<1>14. last # t => new[last].op \in AfterTakes /\ new[last].in = <<t>> /\ HasFields(new[last]) /\ last = n
  BY <1>7, <1>8, <1>11
<1>15. Shape(x, new, last, steps, {a, b}, t)
  <2>1. last \in {t, n}
    BY <1>8
  <2> QED
    BY ONLY <2>1, <1>4, <1>5, <1>6, <1>10, <1>11, <1>12, <1>13, <1>14 DEF Shape
<1>16. Replacement(x, new, last, steps)
  BY <1>15, ShapeFits
<1> QED
  BY <1>1, <1>2, <1>16 DEF steps

LEMMA SingleInputFits ==
  ASSUME GraphInv, NEW x \in todo, VisitAggregate(x) \/ VisitDistinct(x) \/ VisitLimit(x)
  PROVE  ops[x].op \in SingleInput /\ \E new, last, steps : Replacement(x, new, last, steps) /\ Replace(x, new, last, steps)
<1>1. ops[x].op \in SingleInput
  BY DEF VisitAggregate, VisitDistinct, VisitLimit, Visiting, SingleInput
<1>2. \E e, take, then :
        /\ take \in {"take_flat", "take_group"}
        /\ then = Nothing \/ \E p : then = At(New(x, "then"), p) /\ IsThen(x, p)
        /\ ThroughExchange(x, e, take, then)
  <2>1. CASE VisitAggregate(x)
    <3> DEFINE then == AfterTake(x, [op |-> "step_aggregate", columns |-> ops[x].columns])
    <3>1. \E p : then = At(New(x, "then"), p) /\ IsThen(x, p)
      BY AfterTakeIs DEF AfterTakes
    <3>2. \E e : ThroughExchange(x, e, "take_group", then) \/ ThroughExchange(x, e, "take_group", Flatten(x))
      BY <2>1 DEF VisitAggregate
    <3> QED
      BY <3>1, <3>2, FlattenIs
  <2>2. CASE VisitDistinct(x)
    <3>1. \E e : ThroughExchange(x, e, "take_group", Flatten(x))
      BY <2>2 DEF VisitDistinct
    <3> QED
      BY <3>1, FlattenIs
  <2>3. CASE VisitLimit(x)
    <3>1. \E e : ThroughExchange(x, e, "take_flat", Nothing) \/ ThroughExchange(x, e, "take_group", Flatten(x))
      BY <2>3 DEF VisitLimit
    <3> QED
      BY <3>1, FlattenIs
  <2> QED
    BY <2>1, <2>2, <2>3
<1> QED
  BY <1>1, <1>2, OneExchangeFits

-----------------------------------------------------------------------------
(* Each pass keeps the invariant *)

LEMMA InitGraph ==
  Init => GraphInv /\ phase = "exchanges" /\ processes = Nothing /\ links = Nothing
<1> SUFFICES ASSUME NEW plan \in Plans, Starts(plan, "exchanges")
             PROVE  GraphInv /\ phase = "exchanges" /\ processes = Nothing /\ links = Nothing
  BY DEF Init
<1>1. ops = plan.ops /\ todo = DOMAIN ops /\ exchanges = Nothing /\ IsPlan(ops)
  BY PlansAssumption DEF Starts
<1>2. \A y \in DOMAIN ops :
        /\ y = <<y[1], "plan">>
        /\ {"op", "in"} \subseteq DOMAIN ops[y]
        /\ ops[y].op \notin StepOperators
        /\ ops[y].in \in Seq(DOMAIN ops)
        /\ ops[y].op \in Sourceless => ops[y].in = <<>>
        /\ ops[y].op \in SingleInput => Len(ops[y].in) = 1
        /\ ops[y].op \in TwoInputs => Len(ops[y].in) = 2
        /\ ops[y].op \in {"join_find", "join_scan"} => "source" \in DOMAIN ops[y] /\ ops[y].source = Index
  BY <1>1 DEF IsPlan
<1>3. \A y \in DOMAIN ops : ops[y].op # "offer" /\ Sources(ops[y]) = {}
  BY <1>2 DEF StepOperators, Sources
<1>4. Named
  BY <1>1, <1>2 DEF Named, Nothing
<1>5. Wired
  BY <1>2 DEF Wired, HasFields, StepOperators, Entries, Sourceless, ReadingJoins
<1>6. Piped
  BY <1>1, <1>3 DEF Piped, Nothing
<1>7. OrderedBy(DOMAIN ops, Edges(ops))
  <2>1. \A x, y \in DOMAIN ops : <<x, y>> \in Edges(ops) => Follows(ops, y, x)
    BY <1>3 DEF Edges, Feeds
  <2>2. Acyclic(ops)
    BY <1>1 DEF IsPlan
  <2> HIDE DEF Edges
  <2> QED
    BY <2>1, <2>2 DEF OrderedBy, Acyclic
<1> QED
  BY <1>4, <1>5, <1>6, <1>7 DEF GraphInv, Starts

LEMMA ReplacementKeeps ==
  ASSUME GraphInv, NEW x \in todo, ops[x].op \in SingleInput \cup TwoInputs,
         \E new, last, steps : Replacement(x, new, last, steps) /\ Replace(x, new, last, steps)
  PROVE  GraphInv'
<1>1. PICK new, last, steps : Replacement(x, new, last, steps) /\ Replace(x, new, last, steps)
  OBVIOUS
<1>2. ops[x].op # "offer" /\ Sources(ops[x]) = {}
  BY SourcesOf DEF SingleInput, TwoInputs, Takes, ReadingJoins
<1> QED
  BY <1>1, <1>2, ReplaceKeeps

LEMMA FewerToDo ==
  ASSUME GraphInv, UNCHANGED <<ops, exchanges>>, todo' \subseteq todo
  PROVE  GraphInv'
<1>1. Named'
  BY DEF GraphInv, Named
<1>2. Wired' /\ Piped' /\ OrderedBy(DOMAIN ops, Edges(ops))'
  BY DEF GraphInv, Wired, Piped
<1> QED
  BY <1>1, <1>2 DEF GraphInv

LEMMA VisitKeeps ==
  ASSUME GraphInv, NEW x \in todo, Visit(x)
  PROVE  GraphInv'
<1>1. CASE VisitKept(x)
  BY <1>1, FewerToDo DEF VisitKept
<1>2. CASE Refuse \/ VisitOther(x)
  BY <1>2, FewerToDo DEF VisitOther, Refuse
<1>3. CASE VisitCogroupJoin(x) /\ ~ Refuse
  BY <1>3, CogroupJoinFits, ReplacementKeeps
<1>4. CASE VisitBroadcastJoin(x)
  BY <1>4, BroadcastJoinFits, ReplacementKeeps
<1>5. CASE VisitAggregate(x) \/ VisitDistinct(x) \/ VisitLimit(x)
  BY <1>5, SingleInputFits, ReplacementKeeps
<1>6. CASE VisitUnion(x) /\ ~ Refuse
  BY <1>6, UnionFits, ReplacementKeeps
<1>7. CASE VisitSetOperator(x)
  BY <1>7, SetOperatorFits, ReplacementKeeps
<1> QED
  BY <1>1, <1>2, <1>3, <1>4, <1>5, <1>6, <1>7 DEF Visit

\* While exchanges are collected there are no processes; a visit keeps it so.
LEMMA VisitLeaves ==
  ASSUME NEW x, Visit(x)
  PROVE  phase = "exchanges" /\ phase' \in {"exchanges", "refused"} /\ UNCHANGED <<processes, links>>
<1>1. \A new, last, steps : Replace(x, new, last, steps) => UNCHANGED <<processes, links, phase>>
  BY DEF Replace
<1>2. Refuse => phase' = "refused" /\ UNCHANGED <<processes, links>>
  BY DEF Refuse
<1>3. phase = "exchanges"
  BY DEF Visit, VisitKept, VisitOther, VisitCogroupJoin, VisitBroadcastJoin, VisitAggregate, VisitDistinct, VisitLimit,
         VisitUnion, VisitSetOperator, Visiting
<1>4. CASE VisitKept(x)
  BY <1>3, <1>4 DEF VisitKept
<1>5. CASE VisitOther(x)
  BY <1>2, <1>3, <1>5 DEF VisitOther
<1>6. CASE VisitCogroupJoin(x)
  BY <1>1, <1>2, <1>3, <1>6 DEF VisitCogroupJoin
<1>7. CASE VisitBroadcastJoin(x)
  BY <1>1, <1>3, <1>7 DEF VisitBroadcastJoin
<1>8. CASE VisitAggregate(x) \/ VisitDistinct(x) \/ VisitLimit(x)
  BY <1>1, <1>3, <1>8 DEF VisitAggregate, VisitDistinct, VisitLimit, ThroughExchange
<1>9. CASE VisitUnion(x)
  BY <1>1, <1>2, <1>3, <1>9 DEF VisitUnion
<1>10. CASE VisitSetOperator(x)
  BY <1>1, <1>3, <1>10 DEF VisitSetOperator
<1> QED
  BY <1>4, <1>5, <1>6, <1>7, <1>8, <1>9, <1>10 DEF Visit

-----------------------------------------------------------------------------
(* Processes and their relations *)

\* A process holds its first operator, and of the others those that follow it, and no join.
IsProcess(p, set) ==
  /\ p \in DOMAIN ops /\ ops[p].op \in Entries
  /\ p \in set /\ set \subseteq DOMAIN ops /\ Closed(set)
  /\ \A other : p \in other /\ Closed(other) => set \subseteq other
  /\ \A y \in set : Len(ops[y].in) < 2

Link(p) == [upstreams |-> UNION {Sources(ops[x]) : x \in processes[p]},
            downstreams |-> UNION {Destinations(ops[x]) : x \in processes[p]}]

ProcessInv ==
  /\ phase = "exchanges" => processes = Nothing
  /\ \A p \in DOMAIN processes : IsProcess(p, processes[p])
  /\ \A p, q \in DOMAIN processes : p # q => processes[p] \cap processes[q] = {}
  /\ phase \in {"relations", "done"} => Rest = {}
  /\ phase \notin {"relations", "done"} => links = Nothing
  /\ \A p \in DOMAIN links : p \in DOMAIN processes /\ links[p] = Link(p)
  /\ phase = "done" => DOMAIN links = DOMAIN processes

StepPlanInv == GraphInv /\ ProcessInv

LEMMA GraphEnds ==
  ASSUME GraphInv
  PROVE  Ends(ops)
<1> SUFFICES ASSUME NEW some \in SUBSET DOMAIN ops, some # {}
             PROVE  \E x \in some : \A y \in some : ~ Follows(ops, y, x)
  BY DEF Ends
<1>1. PICK x \in some : \A y \in some : <<x, y>> \notin Edges(ops)
  BY DEF GraphInv, OrderedBy
<1> QED
  BY <1>1 DEF Edges, Feeds

\* The operators before one of a process are in the process.
LEMMA InputsInside ==
  ASSUME GraphInv, NEW p, NEW set, IsProcess(p, set), NEW x \in DOMAIN ops, NEW k \in DOMAIN ops[x].in
  PROVE  x \in set <=> ops[x].in[k] \in set
<1>1. ops[x].in \in Seq(DOMAIN ops) /\ ops[x].in[k] \in DOMAIN ops
  BY DEF GraphInv, Wired
<1>2. ASSUME ops[x].in[k] \in set PROVE x \in set
  BY <1>1, <1>2 DEF IsProcess, Closed, Follows
<1>3. ASSUME x \in set PROVE ops[x].in[k] \in set
  <2>1. x # p
    <3>1. ops[p].in = <<>>
      BY DEF IsProcess, GraphInv, Wired
    <3> QED
      BY <3>1
  <2>2. \E y \in set : Follows(ops, x, y)
    <3> SUFFICES ASSUME \A y \in set : ~ Follows(ops, x, y) PROVE FALSE
      OBVIOUS
    <3>1. Closed(set \ {x}) /\ p \in set \ {x}
      BY <2>1 DEF IsProcess, Closed
    <3> QED
      BY <3>1, <1>3 DEF IsProcess
  <2>3. PICK j \in DOMAIN ops[x].in : ops[x].in[j] \in set
    BY <2>2 DEF Follows
  <2>4. Len(ops[x].in) < 2
    BY <1>3 DEF IsProcess
  <2>5. j = 1 /\ k = 1
    <3> DEFINE in == ops[x].in
    <3>1. j \in 1 .. Len(in) /\ k \in 1 .. Len(in) /\ Len(in) \in Nat
      BY <1>1
    <3> QED
      BY <3>1, <2>4
  <2> QED
    BY <2>3, <2>5
<1> QED
  BY <1>2, <1>3

LEMMA CollectProcessKeeps ==
  ASSUME StepPlanInv, NEW x \in DOMAIN ops, CollectProcess(x)
  PROVE  ProcessInv'
<1>1. phase = "processes" /\ x \in Rest /\ ops[x].op \in Entries /\ UNCHANGED <<ops, exchanges, todo, links>>
  BY DEF CollectProcess
<1>2. /\ x \in Downstream(x) /\ Downstream(x) \subseteq DOMAIN ops /\ Closed(Downstream(x))
      /\ \A set : x \in set /\ Closed(set) => Downstream(x) \subseteq set
  BY GraphEnds, DownstreamIs DEF StepPlanInv
<1>3. \A p, set : IsProcess(p, set) => IsProcess(p, set)'
  BY <1>1 DEF IsProcess, Closed
<1>4. CASE UNCHANGED processes /\ phase' = "broken"
  BY <1>1, <1>3, <1>4 DEF ProcessInv, StepPlanInv, Link
<1>5. CASE /\ \A y \in Downstream(x) : ~ (Len(ops[y].in) >= 2)
           /\ processes' = processes ++ At(x, Downstream(x)) /\ UNCHANGED phase
  <2>1. x \notin DOMAIN processes
    BY <1>1 DEF StepPlanInv, ProcessInv, IsProcess, Rest
  <2>2. /\ DOMAIN processes' = DOMAIN processes \cup {x}
        /\ processes'[x] = Downstream(x)
        /\ \A p \in DOMAIN processes : processes'[p] = processes[p]
    BY <1>5, <2>1 DEF ++, At
  <2>3. IsProcess(x, Downstream(x))
    <3>1. \A y \in Downstream(x) : Len(ops[y].in) < 2
      <4> SUFFICES ASSUME NEW y \in Downstream(x) PROVE Len(ops[y].in) < 2
        OBVIOUS
      <4>1. Len(ops[y].in) \in Nat
        BY <1>2 DEF StepPlanInv, GraphInv, Wired
      <4> QED
        BY <4>1, <1>5
    <3> QED
      BY <1>1, <1>2, <3>1 DEF IsProcess
  <2>4. ASSUME NEW p \in DOMAIN processes PROVE processes[p] \cap Downstream(x) = {}
    <3>1. IsProcess(p, processes[p])
      BY DEF StepPlanInv, ProcessInv
    <3>2. Closed(Downstream(x) \ processes[p])
      <4> SUFFICES ASSUME NEW y \in Downstream(x) \ processes[p], NEW z \in DOMAIN ops, Follows(ops, z, y), z \in processes[p]
                   PROVE  FALSE
        BY <1>2 DEF Closed
      <4>1. PICK k \in DOMAIN ops[z].in : ops[z].in[k] = y
        BY DEF Follows
      <4> QED
        BY <4>1, <3>1, InputsInside DEF StepPlanInv
    <3>3. x \in Downstream(x) \ processes[p]
      BY <1>1, <1>2 DEF Rest
    <3> QED
      BY <1>2, <3>2, <3>3
  <2>5. ASSUME NEW p \in DOMAIN processes' PROVE IsProcess(p, processes[p])'
    <3>1. PICK set : set = processes'[p] /\ IsProcess(p, set)
      BY <2>2, <2>3 DEF StepPlanInv, ProcessInv
    <3> QED
      BY <1>1, <3>1 DEF IsProcess, Closed
  <2>6. \A p, q \in DOMAIN processes' : p # q => processes'[p] \cap processes'[q] = {}
    BY <2>2, <2>4 DEF StepPlanInv, ProcessInv
  <2> QED
    <3>1. links' = Nothing /\ phase' = "processes"
      BY <1>1, <1>5 DEF StepPlanInv, ProcessInv
    <3>2. \A p \in DOMAIN processes' : IsProcess(p, processes[p])'
      BY <2>5
    <3> QED
      BY <2>6, <3>1, <3>2 DEF ProcessInv, Nothing
<1> QED
  BY <1>4, <1>5 DEF CollectProcess

LEMMA StepPlanInvIsInvariant ==
  Spec => []StepPlanInv
<1>1. Init => StepPlanInv
  BY InitGraph DEF StepPlanInv, ProcessInv, Nothing
<1>2. StepPlanInv /\ [Next]_vars => StepPlanInv'
  <2> SUFFICES ASSUME StepPlanInv, [Next]_vars PROVE StepPlanInv'
    OBVIOUS
  <2>1. ASSUME NEW x \in todo, Visit(x) PROVE StepPlanInv'
    <3>1. GraphInv'
      BY <2>1, VisitKeeps DEF StepPlanInv
    <3>2. phase = "exchanges" /\ phase' \in {"exchanges", "refused"} /\ processes' = Nothing /\ links' = Nothing
      BY <2>1, VisitLeaves DEF StepPlanInv, ProcessInv
    <3> QED
      BY <3>1, <3>2 DEF StepPlanInv, ProcessInv, Nothing
  <2>2. ASSUME UNCHANGED <<ops, exchanges, todo>> PROVE GraphInv'
    BY <2>2, FewerToDo DEF StepPlanInv
  <2>3. ASSUME UNCHANGED <<ops, processes, links>>
        PROVE  /\ \A p \in DOMAIN processes' : IsProcess(p, processes[p])'
               /\ \A p \in DOMAIN links' : p \in DOMAIN processes' /\ links'[p] = Link(p)'
               /\ \A p, q \in DOMAIN processes' : p # q => processes'[p] \cap processes'[q] = {}
               /\ Rest' = Rest
    BY <2>3 DEF StepPlanInv, ProcessInv, IsProcess, Closed, Link, Rest
  <2>4. CASE ExchangesCollected
    BY <2>2, <2>3, <2>4 DEF ExchangesCollected, StepPlanInv, ProcessInv
  <2>5. ASSUME NEW x \in DOMAIN ops, CollectProcess(x) PROVE StepPlanInv'
    BY <2>2, <2>5, CollectProcessKeeps DEF CollectProcess, StepPlanInv
  <2>6. CASE ProcessesCollected
    BY <2>2, <2>3, <2>6 DEF ProcessesCollected, StepPlanInv, ProcessInv, Nothing
  <2>7. ASSUME NEW p \in DOMAIN processes, Connect(p) PROVE StepPlanInv'
    <3>1. /\ phase = "relations" /\ p \notin DOMAIN links /\ UNCHANGED <<ops, todo, exchanges, processes, phase>>
          /\ links' = links ++ At(p, Link(p))
      BY <2>7 DEF Connect, Link
    <3>2. /\ DOMAIN links' = DOMAIN links \cup {p} /\ links'[p] = Link(p)
          /\ \A q \in DOMAIN links : links'[q] = links[q]
      BY <3>1 DEF ++, At
    <3>3. \A q : Link(q)' = Link(q)
      BY <3>1 DEF Link
    <3>4. Rest' = Rest /\ \A q, set : IsProcess(q, set) => IsProcess(q, set)'
      BY <3>1 DEF Rest, IsProcess, Closed
    <3> QED
      BY <2>2, <3>1, <3>2, <3>3, <3>4 DEF StepPlanInv, ProcessInv
  <2>8. CASE RelationsCollected
    BY <2>2, <2>3, <2>8 DEF RelationsCollected, StepPlanInv, ProcessInv
  <2>9. CASE UNCHANGED vars
    BY <2>2, <2>3, <2>9 DEF vars, StepPlanInv, ProcessInv
  <2> QED
    BY <2>1, <2>4, <2>5, <2>6, <2>7, <2>8, <2>9 DEF Next
<1> QED
  BY <1>1, <1>2, PTL DEF Spec

\* Every operator runs in one process, with those it passes rows to and gets rows from: what
\* collect_process_steps moves into a process is neither in another one nor fed by one.
THEOREM OneProcessEach ==
  Spec => []InOneProcess
<1>1. StepPlanInv => InOneProcess
  <2> SUFFICES ASSUME StepPlanInv PROVE InOneProcess
    OBVIOUS
  <2>1. \A p \in DOMAIN processes : IsProcess(p, processes[p])
    BY DEF StepPlanInv, ProcessInv
  <2>2. \A p \in DOMAIN processes : \A x \in DOMAIN ops : \A k \in DOMAIN ops[x].in :
          x \in processes[p] <=> ops[x].in[k] \in processes[p]
    BY <2>1, InputsInside DEF StepPlanInv
  <2> QED
    BY <2>2 DEF InOneProcess, StepPlanInv, ProcessInv
<1> QED
  BY <1>1, StepPlanInvIsInvariant, PTL

-----------------------------------------------------------------------------
(* No process waits for itself *)

\* Each exchange is filled by a process and read by one.
FilledAndRead ==
  \A e \in DOMAIN exchanges :
    /\ \E p \in DOMAIN links : e \in links[p].downstreams
    /\ Cardinality({p \in DOMAIN links : e \in links[p].upstreams}) = 1

LEMMA LinksWhenDone ==
  ASSUME StepPlanInv, phase = "done"
  PROVE  /\ DOMAIN links = DOMAIN processes
         /\ \A p \in DOMAIN processes : \A e :
              /\ e \in links[p].upstreams <=> \E y \in processes[p] : e \in Sources(ops[y])
              /\ e \in links[p].downstreams <=> \E y \in processes[p] : ops[y].op = "offer" /\ ops[y].to = e
         /\ \A y \in DOMAIN ops : \E p \in DOMAIN processes : y \in processes[p]
         /\ \A p \in DOMAIN processes : IsProcess(p, processes[p])
         /\ \A p, q \in DOMAIN processes : p # q => processes[p] \cap processes[q] = {}
<1>1. DOMAIN links = DOMAIN processes /\ \A p \in DOMAIN links : links[p] = Link(p)
  BY DEF StepPlanInv, ProcessInv
<1>2. \A y : Destinations(ops[y]) = IF ops[y].op = "offer" THEN {ops[y].to} ELSE {}
  BY DEF Destinations
<1>3. \A p \in DOMAIN processes : \A e :
        /\ e \in links[p].upstreams <=> \E y \in processes[p] : e \in Sources(ops[y])
        /\ e \in links[p].downstreams <=> \E y \in processes[p] : ops[y].op = "offer" /\ ops[y].to = e
  <2> SUFFICES ASSUME NEW p \in DOMAIN processes
               PROVE  \A e : /\ e \in links[p].upstreams <=> \E y \in processes[p] : e \in Sources(ops[y])
                             /\ e \in links[p].downstreams <=> \E y \in processes[p] : ops[y].op = "offer" /\ ops[y].to = e
    OBVIOUS
  <2>1. /\ links[p].upstreams = UNION {Sources(ops[y]) : y \in processes[p]}
        /\ links[p].downstreams = UNION {Destinations(ops[y]) : y \in processes[p]}
    BY <1>1 DEF Link
  <2>2. \A e, y : e \in Destinations(ops[y]) <=> ops[y].op = "offer" /\ ops[y].to = e
    BY <1>2
  <2>3. \A e : e \in links[p].upstreams <=> \E y \in processes[p] : e \in Sources(ops[y])
    BY <2>1
  <2>4. \A e : e \in links[p].downstreams <=> \E y \in processes[p] : ops[y].op = "offer" /\ ops[y].to = e
    <3>1. \A e : e \in links[p].downstreams <=> \E y \in processes[p] : e \in Destinations(ops[y])
      BY <2>1
    <3> QED
      BY <2>2, <3>1
  <2> QED
    BY <2>3, <2>4
<1>4. Rest = {}
  BY DEF StepPlanInv, ProcessInv
<1>5. \A y \in DOMAIN ops : \E p \in DOMAIN processes : y \in processes[p]
  BY <1>4 DEF Rest
<1> QED
  BY <1>1, <1>3, <1>5 DEF StepPlanInv, ProcessInv

LEMMA DoneFillsAndReads ==
  ASSUME StepPlanInv, phase = "done"
  PROVE  FilledAndRead
<1> SUFFICES ASSUME NEW e \in DOMAIN exchanges
             PROVE  /\ \E p \in DOMAIN links : e \in links[p].downstreams
                    /\ Cardinality({p \in DOMAIN links : e \in links[p].upstreams}) = 1
  BY DEF FilledAndRead
<1>1. PICK o \in DOMAIN ops : ops[o].op = "offer" /\ ops[o].to = e
  BY DEF StepPlanInv, GraphInv, Piped
<1>2. \E p \in DOMAIN links : e \in links[p].downstreams
  BY <1>1, LinksWhenDone
<1>3. PICK r \in DOMAIN ops : e \in Sources(ops[r]) /\ \A z \in DOMAIN ops : e \in Sources(ops[z]) => z = r
  BY DEF StepPlanInv, GraphInv, Piped
<1>4. PICK p \in DOMAIN processes : r \in processes[p]
  BY LinksWhenDone
<1>5. \A q \in DOMAIN processes : r \in processes[q] => q = p
  BY <1>4, LinksWhenDone
<1>6. \A q \in DOMAIN processes : processes[q] \subseteq DOMAIN ops
  BY LinksWhenDone DEF IsProcess
<1>7. {q \in DOMAIN links : e \in links[q].upstreams} = {p}
  BY <1>3, <1>4, <1>5, <1>6, LinksWhenDone
<1> QED
  BY <1>2, <1>7, FS_Singleton

LEMMA NobodyWaits ==
  ASSUME StepPlanInv, phase = "done", NEW waiting \in SUBSET DOMAIN processes, waiting # {}
  PROVE  \E p \in waiting :
           OtherBranch(p, waiting) \/ \A q \in waiting : links[q].downstreams \cap links[p].upstreams = {}
<1> SUFFICES ASSUME \A p \in waiting : /\ ~ OtherBranch(p, waiting)
                                       /\ \E q \in waiting : links[q].downstreams \cap links[p].upstreams # {}
             PROVE  FALSE
  OBVIOUS
\* The operators that read what a waiting process offers, and what follows those.
<1> DEFINE Reads(p, r) ==
             /\ r \in processes[p]
             /\ \E q \in waiting : \E o \in processes[q] : ops[o].op = "offer" /\ ops[o].to \in Sources(ops[r])
           readers == {r \in DOMAIN ops : \E p \in waiting : Reads(p, r)}
           held == UNION {Downstream(r) : r \in readers}
<1>1. Ends(ops) /\ GraphInv
  BY GraphEnds DEF StepPlanInv
<1>2. \A p \in DOMAIN processes : IsProcess(p, processes[p]) /\ processes[p] \subseteq DOMAIN ops
  BY LinksWhenDone DEF IsProcess
<1>3. \A p \in waiting : \E r \in readers : Reads(p, r)
  <2> SUFFICES ASSUME NEW p \in waiting PROVE \E r \in readers : Reads(p, r)
    OBVIOUS
  <2>1. PICK q \in waiting : \E e : e \in links[q].downstreams /\ e \in links[p].upstreams
    OBVIOUS
  <2>2. PICK e : e \in links[q].downstreams /\ e \in links[p].upstreams
    BY <2>1
  <2>3. PICK o \in processes[q] : ops[o].op = "offer" /\ ops[o].to = e
    BY <2>2, LinksWhenDone
  <2>4. PICK r \in processes[p] : e \in Sources(ops[r])
    BY <2>2, LinksWhenDone
  <2>5. Reads(p, r)
    BY <2>3, <2>4
  <2> QED
    BY <1>2, <2>5
<1>4. \A r \in readers :
        /\ r \in Downstream(r) /\ Downstream(r) \subseteq DOMAIN ops /\ Closed(Downstream(r))
        /\ \A set : r \in set /\ Closed(set) => Downstream(r) \subseteq set
  BY <1>1, DownstreamIs
<1>5. held \in SUBSET DOMAIN ops /\ held # {}
  <2>1. PICK p : p \in waiting
    OBVIOUS
  <2>2. PICK r \in readers : Reads(p, r)
    BY <1>3, <2>1
  <2> QED
    BY <1>4, <2>2
<1> HIDE DEF held
<1>6. PICK w \in held : \A y \in held : <<y, w>> \notin Edges(ops)
  BY <1>1, <1>5 DEF GraphInv, OrderedBy
<1>7. PICK r \in readers : w \in Downstream(r)
  BY <1>6 DEF held
<1>8. w = r
  <2> SUFFICES ASSUME w # r PROVE FALSE
    OBVIOUS
  <2>1. PICK y \in Downstream(r) : Follows(ops, w, y)
    <3> SUFFICES ASSUME \A y \in Downstream(r) : ~ Follows(ops, w, y) PROVE FALSE
      OBVIOUS
    <3>1. Closed(Downstream(r) \ {w}) /\ r \in Downstream(r) \ {w}
      BY <1>4 DEF Closed
    <3> QED
      BY <3>1, <1>4, <1>7
  <2>2. y \in held /\ y \in DOMAIN ops /\ w \in DOMAIN ops
    BY <1>4, <1>7, <2>1 DEF held
  <2>3. <<y, w>> \in Edges(ops)
    BY <2>1, <2>2 DEF Edges, Feeds
  <2> QED
    BY <1>6, <2>2, <2>3
<1>9. PICK q \in waiting : \E o \in processes[q] : ops[o].op = "offer" /\ ops[o].to \in Sources(ops[r])
  BY <1>7
<1>10. PICK o \in processes[q] : ops[o].op = "offer" /\ ops[o].to \in Sources(ops[r])
  BY <1>9
<1>11. PICK s \in readers : Reads(q, s)
  BY <1>3
<1>12. o \in Downstream(s)
  <2>1. s \in processes[q] /\ s \in DOMAIN ops
    BY <1>11
  <2>2. CASE ops[s].op \in ReadingJoins
    <3>1. PICK u \in waiting : \E v \in processes[u] : ops[v].op = "offer" /\ ops[v].to \in Sources(ops[s])
      BY <1>11
    <3>2. Sources(ops[s]) \cap links[u].downstreams # {}
      <4>1. PICK v \in processes[u] : ops[v].op = "offer" /\ ops[v].to \in Sources(ops[s])
        BY <3>1
      <4>2. ops[v].to \in links[u].downstreams
        BY <4>1, LinksWhenDone
      <4> QED
        BY <4>1, <4>2
    <3>3. PICK p \in waiting : Reads(p, r)
      BY <1>7
    <3>4. Destinations(ops[o]) \cap links[p].upstreams # {}
      <4>1. ops[o].to \in links[p].upstreams
        BY <1>10, <3>3, LinksWhenDone
      <4>2. ops[o].to \in Destinations(ops[o])
        BY <1>10 DEF Destinations
      <4> QED
        BY <4>1, <4>2
    <3> QED
      BY <1>10, <2>1, <2>2, <3>1, <3>2, <3>3, <3>4 DEF OtherBranch, ReadingJoins
  <2>3. CASE ops[s].op \in Takes
    <3>1. IsProcess(q, processes[q])
      BY <1>2
    <3>2. ops[s].in = <<>>
      BY <1>1, <2>1, <2>3 DEF GraphInv, Wired, Entries, Takes
    <3>3. s = q
      <4> SUFFICES ASSUME s # q PROVE FALSE
        OBVIOUS
      <4>1. Closed(processes[q] \ {s})
        BY <3>1, <3>2 DEF IsProcess, Closed, Follows
      <4> QED
        BY <2>1, <3>1, <4>1 DEF IsProcess
    <3>4. processes[q] \subseteq Downstream(s)
      BY <1>4, <1>11, <3>1, <3>3 DEF IsProcess
    <3> QED
      BY <1>10, <3>4
  <2>4. ops[s].op \in Takes \cup ReadingJoins
    <3>1. Sources(ops[s]) # {}
      BY <1>11
    <3> QED
      BY <3>1, SourcesOf
  <2> QED
    BY <2>2, <2>3, <2>4
<1>13. o \in held /\ <<o, r>> \in Edges(ops)
  BY <1>2, <1>10, <1>11, <1>12 DEF held, Edges, Feeds
<1> QED
  BY <1>6, <1>8, <1>13

\* When the plan is built each exchange is filled by some process and read by exactly one: no
\* plan, shared operators or not, leaves one half of an exchange out.
THEOREM ExchangesHaveBothEnds ==
  Spec => [](phase = "done" => FilledAndRead)
<1>1. StepPlanInv => (phase = "done" => FilledAndRead)
  BY DoneFillsAndReads
<1> QED
  BY <1>1, StepPlanInvIsInvariant, PTL

\* No processes wait for each other in a circle, but where one of them passes a join by on another
\* branch of a buffer.  Among what the readers of a circle hold back there is an operator nothing
\* else feeds: it reads an exchange, and the offer that fills it is held back itself.
THEOREM RunsCorrect ==
  Spec => []RunsToTheEnd
<1>1. StepPlanInv => RunsToTheEnd
  BY DoneFillsAndReads, NobodyWaits DEF RunsToTheEnd, FilledAndRead
<1> QED
  BY <1>1, StepPlanInvIsInvariant, PTL

=============================================================================
