------------------------ MODULE PushDownSelectionsProofs ------------------------
(***************************************************************************)
(* No term of a plan is lost while push_down_selections carries it,        *)
(* whatever the plan is.                                                   *)
(***************************************************************************)
EXTENDS PushDownSelections, SequenceTheorems, WellFoundedInduction, FiniteSetTheorems, TLAPS

-----------------------------------------------------------------------------
(* Sequences and scans *)

IsSeq(s) == s \in Seq(Range(s))

LEMMA IsSeqIf ==
  ASSUME NEW s, NEW S, s \in Seq(S)
  PROVE  IsSeq(s) /\ Len(s) \in Nat /\ DOMAIN s = 1 .. Len(s)
BY SeqOfRange DEF IsSeq

LEMMA Appended ==
  ASSUME NEW s, IsSeq(s), NEW e
  PROVE  /\ IsSeq(Append(s, e))
         /\ Len(Append(s, e)) = Len(s) + 1
         /\ DOMAIN Append(s, e) = DOMAIN s \cup {Len(s) + 1}
         /\ Len(s) + 1 \notin DOMAIN s
         /\ \A i \in DOMAIN s : Append(s, e)[i] = s[i]
         /\ Append(s, e)[Len(s) + 1] = e
<1> DEFINE S == Range(s) \cup {e}
<1>1. s \in Seq(S) /\ e \in S
  <2>1. s \in Seq(Range(s)) /\ Range(s) \subseteq S
    BY DEF IsSeq
  <2> QED
    BY <2>1, SeqMonotonic
<1> HIDE DEF S
<1>2. /\ Append(s, e) \in Seq(S)
      /\ Len(Append(s, e)) = Len(s) + 1
      /\ \A i \in 1 .. Len(s) : Append(s, e)[i] = s[i]
      /\ Append(s, e)[Len(s) + 1] = e
  BY <1>1, AppendProperties
<1>3. Len(s) \in Nat /\ DOMAIN s = 1 .. Len(s) /\ DOMAIN Append(s, e) = 1 .. Len(Append(s, e))
  BY <1>1, <1>2, IsSeqIf
<1>4. IsSeq(Append(s, e))
  BY <1>2, IsSeqIf
<1> QED
  BY <1>2, <1>3, <1>4

LEMMA Joined ==
  ASSUME NEW s, IsSeq(s), NEW t, IsSeq(t)
  PROVE  /\ IsSeq(s \o t)
         /\ Len(s \o t) = Len(s) + Len(t)
         /\ DOMAIN (s \o t) = 1 .. Len(s) + Len(t)
         /\ \A i \in DOMAIN s : (s \o t)[i] = s[i]
         /\ \A i \in DOMAIN t : (s \o t)[Len(s) + i] = t[i]
<1> DEFINE S == Range(s) \cup Range(t)
<1>1. s \in Seq(S) /\ t \in Seq(S)
  <2>1. s \in Seq(Range(s)) /\ Range(s) \subseteq S /\ t \in Seq(Range(t)) /\ Range(t) \subseteq S
    BY DEF IsSeq
  <2> QED
    BY <2>1, SeqMonotonic
<1> HIDE DEF S
<1>2. Len(s) \in Nat /\ DOMAIN s = 1 .. Len(s) /\ Len(t) \in Nat /\ DOMAIN t = 1 .. Len(t)
  BY <1>1, IsSeqIf
<1>3. /\ s \o t \in Seq(S)
      /\ Len(s \o t) = Len(s) + Len(t)
      /\ \A i \in 1 .. Len(s) + Len(t) : (s \o t)[i] = IF i <= Len(s) THEN s[i] ELSE t[i - Len(s)]
  BY <1>1, ConcatProperties
<1>4. IsSeq(s \o t) /\ DOMAIN (s \o t) = 1 .. Len(s \o t)
  BY <1>3, IsSeqIf
<1>5. \A i \in DOMAIN s : (s \o t)[i] = s[i]
  BY <1>2, <1>3
<1>6. \A i \in DOMAIN t : (s \o t)[Len(s) + i] = t[i]
  BY <1>2, <1>3
<1> QED
  BY <1>3, <1>4, <1>5, <1>6

\* What is appended comes behind what was there.
JoinOf(s, t, j) ==
  /\ IsSeq(j) /\ Len(j) = Len(s) + Len(t) /\ DOMAIN j = 1 .. Len(s) + Len(t)
  /\ DOMAIN s \subseteq DOMAIN j /\ (\A i \in DOMAIN s : j[i] = s[i])
  /\ (Len(s) + 1 .. Len(s) + Len(t)) \subseteq DOMAIN j
  /\ \A i \in DOMAIN j \ DOMAIN s : \E k \in DOMAIN t : i = Len(s) + k /\ j[i] = t[k]

LEMMA JoinedAt ==
  ASSUME NEW s, IsSeq(s), NEW t, IsSeq(t), NEW j, j = s \o t
  PROVE  JoinOf(s, t, j)
<1>1. Len(s) \in Nat /\ DOMAIN s = 1 .. Len(s) /\ Len(t) \in Nat /\ DOMAIN t = 1 .. Len(t)
  BY IsSeqIf DEF IsSeq
<1>2. /\ IsSeq(j) /\ Len(j) = Len(s) + Len(t) /\ DOMAIN j = 1 .. Len(s) + Len(t)
      /\ (\A i \in DOMAIN s : j[i] = s[i]) /\ (\A i \in DOMAIN t : j[Len(s) + i] = t[i])
  BY Joined
<1>3. DOMAIN s \subseteq DOMAIN j /\ (Len(s) + 1 .. Len(s) + Len(t)) \subseteq DOMAIN j
  BY ONLY <1>1, <1>2
<1>4. ASSUME NEW i \in DOMAIN j \ DOMAIN s PROVE \E k \in DOMAIN t : i = Len(s) + k /\ j[i] = t[k]
  <2>1. i - Len(s) \in DOMAIN t /\ i = Len(s) + (i - Len(s))
    BY ONLY <1>1, <1>2, i \in DOMAIN j \ DOMAIN s
  <2>2. j[Len(s) + (i - Len(s))] = t[i - Len(s)]
    BY <1>2, <2>1
  <2> QED
    BY <2>1, <2>2
<1> QED
  BY <1>2, <1>3, <1>4 DEF JoinOf

\* A function over the positions of a sequence is a sequence.
LEMMA SameDomain ==
  ASSUME NEW s, IsSeq(s), NEW t, t = [i \in DOMAIN s |-> t[i]]
  PROVE  IsSeq(t) /\ Len(t) = Len(s)
<1>1. DOMAIN s = 1 .. Len(s) /\ Len(s) \in Nat
  BY IsSeqIf DEF IsSeq
<1>2. t \in [1 .. Len(s) -> Range(t)]
  BY <1>1 DEF Range
<1> QED
  BY <1>1, <1>2 DEF IsSeq

-----------------------------------------------------------------------------
(* The invariant *)

\* A plan whose operators have their fields and inputs.
Formed(p) ==
  /\ IsSeq(p)
  /\ \A x \in DOMAIN p :
       /\ {"op", "ins", "cond"} \subseteq DOMAIN p[x]
       /\ p[x].ins \in Seq(DOMAIN p) /\ IsSeq(p[x].cond)
       /\ p[x].op \in Unary => Len(p[x].ins) = 1
       /\ p[x].op \in Binary => Len(p[x].ins) = 2

OneConsumer(p) ==
  \A e, f \in Edges(p) : Source(p, e) = Source(p, f) /\ p[Source(p, e)].op # "buffer" => e = f

\* Operators that are not visited yet, with all that the pass may come to from them.
Ahead(p, unseen) ==
  /\ unseen \subseteq DOMAIN p
  /\ \A y \in unseen : \A k \in DOMAIN p[y].ins : p[p[y].ins[k]].op # "buffer" => p[y].ins[k] \in unseen

\* An ownership reference names a place in an operator that was visited, and a condition that is
\* named as a whole is named by one reference only.
RefersTo(p, ref) == ref.slot = 0 \/ ref.slot \in DOMAIN p[ref.home].cond
References(p, ps, unseen) ==
  /\ IsSeq(ps)
  /\ \A i \in DOMAIN ps :
       /\ {"home", "slot", "uses", "count"} \subseteq DOMAIN ps[i]
       /\ ps[i].home \in DOMAIN p \ unseen
       /\ RefersTo(p, ps[i])
  /\ \A i, j \in DOMAIN ps : ps[i].home = ps[j].home /\ ps[i].slot = 0 => i = j

\* The tasks are about different operators, and what consumes them has been visited.
Waiting(p, ps, ts, unseen) ==
  /\ IsSeq(ts)
  /\ \A j \in DOMAIN ts :
       /\ {"node", "mask"} \subseteq DOMAIN ts[j]
       /\ ts[j].node \in unseen
       /\ ts[j].mask \subseteq DOMAIN ps
       /\ \A e \in Edges(p) : Source(p, e) = ts[j].node => e[1] \notin unseen
       /\ ts[j].mask # {} => ts[j].node \notin Bottoms(p)
  /\ \A i, j \in DOMAIN ts : ts[i].node = ts[j].node => i = j

Consistent(p, ps, ts, unseen) ==
  Formed(p) /\ OneConsumer(p) /\ Ahead(p, unseen) /\ References(p, ps, unseen) /\ Waiting(p, ps, ts, unseen)

PushInv ==
  /\ status = "running" => \E unseen : Consistent(plan, preds, tasks, unseen)
  /\ NoTermLost

\* The work record of a handler.
IsWork(w) == w = [plan |-> w.plan, preds |-> w.preds, tasks |-> w.tasks, edge |-> w.edge]
Work(w, unseen) ==
  /\ IsWork(w)
  /\ Consistent(w.plan, w.preds, w.tasks, unseen)
  /\ TermsOf(w.plan) = TermsOf(given)

-----------------------------------------------------------------------------
(* What a step of a handler does *)

\* Only conditions and the counters of references are different.
SameGraph(p, q) ==
  /\ IsSeq(q) /\ DOMAIN q = DOMAIN p /\ Len(q) = Len(p)
  /\ \A y \in DOMAIN p :
       /\ {"op", "ins", "cond"} \subseteq DOMAIN q[y]
       /\ q[y].op = p[y].op /\ q[y].ins = p[y].ins
       /\ IsSeq(q[y].cond)

SameReferences(p, ps, q, qs) ==
  /\ IsSeq(qs) /\ DOMAIN qs = DOMAIN ps /\ Len(qs) = Len(ps)
  /\ \A i \in DOMAIN ps :
       /\ {"home", "slot", "uses", "count"} \subseteq DOMAIN qs[i]
       /\ qs[i].home = ps[i].home /\ qs[i].slot = ps[i].slot
       /\ RefersTo(q, qs[i])

LEMMA EdgesSame ==
  ASSUME NEW p, NEW q, DOMAIN q = DOMAIN p, \A y \in DOMAIN p : q[y].ins = p[y].ins
  PROVE  /\ Edges(q) = Edges(p) /\ (\A e \in Edges(p) : Source(q, e) = Source(p, e))
         /\ Bottoms(q) = Bottoms(p)
<1>1. Edges(q) = Edges(p)
  BY DEF Edges
<1>2. \A e \in Edges(p) : Source(q, e) = Source(p, e)
  BY DEF Edges, Source
<1>3. Bottoms(q) = Bottoms(p)
  BY <1>1, <1>2 DEF Bottoms
<1> QED
  BY <1>1, <1>2, <1>3

LEMMA ConsistentKept ==
  ASSUME NEW p, NEW ps, NEW ts, NEW q, NEW qs, NEW unseen, Consistent(p, ps, ts, unseen),
         SameGraph(p, q), SameReferences(p, ps, q, qs)
  PROVE  Consistent(q, qs, ts, unseen)
<1>1. /\ Edges(q) = Edges(p) /\ (\A e \in Edges(p) : Source(q, e) = Source(p, e))
      /\ Bottoms(q) = Bottoms(p)
  BY EdgesSame DEF SameGraph
<1>2. \A e \in Edges(p) : Source(p, e) \in DOMAIN p
  BY DEF Consistent, Formed, Edges, Source
<1>3. Formed(q)
  BY DEF Consistent, Formed, SameGraph
<1>4. OneConsumer(q)
  BY <1>1, <1>2 DEF Consistent, OneConsumer, SameGraph
<1>5. Ahead(q, unseen)
  BY DEF Consistent, Ahead, SameGraph, Formed
<1>6. References(q, qs, unseen)
  BY DEF Consistent, References, SameGraph, SameReferences
<1>7. Waiting(q, qs, ts, unseen)
  BY <1>1 DEF Consistent, Waiting, SameReferences
<1> QED
  BY <1>3, <1>4, <1>5, <1>6, <1>7 DEF Consistent

\* The terms of a plan in which one condition is another.
LEMMA TermsAfter ==
  \A p, q, h, gone :
    /\ DOMAIN q = DOMAIN p /\ h \in DOMAIN p
    /\ \A y \in DOMAIN p \ {h} : q[y].cond = p[y].cond
    /\ TermsIn(q[h].cond) \cup gone = TermsIn(p[h].cond)
    => TermsOf(q) \cup gone = TermsOf(p)
<1> SUFFICES ASSUME NEW p, NEW q, DOMAIN q = DOMAIN p, NEW h \in DOMAIN p, NEW gone,
                    \A y \in DOMAIN p \ {h} : q[y].cond = p[y].cond,
                    TermsIn(q[h].cond) \cup gone = TermsIn(p[h].cond)
             PROVE  TermsOf(q) \cup gone = TermsOf(p)
  OBVIOUS
<1>1. \A t : t \in TermsOf(p) <=> \E y \in DOMAIN p : t \in TermsIn(p[y].cond)
  BY DEF TermsOf
<1>2. \A t : t \in TermsOf(q) <=> \E y \in DOMAIN p : t \in TermsIn(q[y].cond)
  BY DEF TermsOf
<1>3. \A y \in DOMAIN p \ {h} : TermsIn(q[y].cond) = TermsIn(p[y].cond)
  OBVIOUS
<1>4. \A t : t \in TermsIn(p[h].cond) <=> t \in TermsIn(q[h].cond) \/ t \in gone
  OBVIOUS
<1> QED
  BY <1>1, <1>2, <1>3, <1>4

\* A leaf that is taken out of a condition leaves TRUE behind.
LEMMA LeafTaken ==
  ASSUME NEW cond, IsSeq(cond), NEW k \in DOMAIN cond, NEW rest, rest = [cond EXCEPT ![k] = {}]
  PROVE  IsSeq(rest) /\ DOMAIN rest = DOMAIN cond /\ TermsIn(rest) \cup cond[k] = TermsIn(cond)
<1>1. rest = [i \in DOMAIN cond |-> rest[i]] /\ rest[k] = {} /\ \A i \in DOMAIN cond \ {k} : rest[i] = cond[i]
  OBVIOUS
<1>2. IsSeq(rest)
  BY <1>1, SameDomain
<1>3. \A t : t \in TermsIn(cond) <=> \E i \in DOMAIN cond : t \in cond[i]
  BY DEF TermsIn, Range
<1>4. \A t : t \in TermsIn(rest) <=> \E i \in DOMAIN cond : t \in rest[i]
  BY <1>1 DEF TermsIn, Range
<1>5. TermsIn(rest) \cup cond[k] = TermsIn(cond)
  BY <1>1, <1>3, <1>4
<1> QED
  BY <1>1, <1>2, <1>5

LEMMA NothingLeft ==
  ASSUME NEW rest, rest = <<{}>>
  PROVE  IsSeq(rest) /\ TermsIn(rest) = {}
<1>1. rest \in Seq({{}}) /\ DOMAIN rest = {1} /\ rest[1] = {}
  OBVIOUS
<1>2. TermsIn(rest) = {}
  BY ONLY <1>1 DEF TermsIn, Range
<1> QED
  BY <1>1, <1>2, IsSeqIf

LEMMA ReleaseIs ==
  ASSUME NEW w, IsWork(w), NEW unseen, Consistent(w.plan, w.preds, w.tasks, unseen), NEW i \in DOMAIN w.preds,
         NEW r, r = Release(w, i)
  PROVE  /\ IsWork(r) /\ r.tasks = w.tasks /\ r.edge = w.edge
         /\ SameGraph(w.plan, r.plan) /\ SameReferences(w.plan, w.preds, r.plan, r.preds)
         /\ TermsOf(r.plan) \cup Content(w, i) = TermsOf(w.plan)
<1> DEFINE h == w.preds[i].home
           cond == w.plan[h].cond
           left == IF w.preds[i].slot = 0 THEN <<{}>> ELSE [cond EXCEPT ![w.preds[i].slot] = {}]
<1>1. /\ h \in DOMAIN w.plan /\ RefersTo(w.plan, w.preds[i])
      /\ {"home", "slot", "uses", "count"} \subseteq DOMAIN w.preds[i]
      /\ IsSeq(w.preds) /\ IsSeq(w.plan) /\ IsSeq(cond)
  BY DEF Consistent, References, Formed
<1>2. /\ IsSeq(left) /\ TermsIn(left) \cup Content(w, i) = TermsIn(cond)
      /\ w.preds[i].slot # 0 => DOMAIN left = DOMAIN cond
  <2>1. CASE w.preds[i].slot = 0
    BY <2>1, NothingLeft DEF Content
  <2>2. CASE w.preds[i].slot # 0
    BY <1>1, <2>2, LeafTaken DEF Content, RefersTo
  <2> QED
    BY <2>1, <2>2
<1>3. Content(w, i) \subseteq TermsOf(w.plan)
  <2>1. TermsIn(cond) \subseteq TermsOf(w.plan)
    BY <1>1 DEF TermsOf
  <2> QED
    BY <1>2, <2>1
<1>4. \A y \in DOMAIN w.plan : /\ {"op", "ins", "cond"} \subseteq DOMAIN w.plan[y] /\ IsSeq(w.plan[y].cond)
  BY DEF Consistent, Formed
<1>5. \A j \in DOMAIN w.preds : {"home", "slot", "uses", "count"} \subseteq DOMAIN w.preds[j]
  BY DEF Consistent, References
<1>6. CASE w.preds[i].count = 1
  <2> HIDE DEF left
  <2>1. /\ r.tasks = w.tasks /\ r.edge = w.edge /\ IsWork(r)
        /\ r.plan = [w.plan EXCEPT ![h].cond = left]
        /\ r.preds = [w.preds EXCEPT ![i].count = 0]
    BY <1>6 DEF Release, IsWork, left
  <2> HIDE DEF h
  <2>2. /\ r.plan = [y \in DOMAIN w.plan |-> r.plan[y]] /\ DOMAIN r.plan = DOMAIN w.plan
        /\ \A y \in DOMAIN w.plan \ {h} : r.plan[y] = w.plan[y]
        /\ r.plan[h] = [w.plan[h] EXCEPT !.cond = left]
    BY <1>1, <2>1
  <2>3. /\ DOMAIN r.plan[h] = DOMAIN w.plan[h] /\ r.plan[h].cond = left
        /\ r.plan[h].op = w.plan[h].op /\ r.plan[h].ins = w.plan[h].ins
    BY <1>1, <1>4, <2>2
  <2>4. SameGraph(w.plan, r.plan)
    BY <1>1, <1>2, <1>4, <2>2, <2>3, SameDomain DEF SameGraph
  <2>5. /\ r.preds = [j \in DOMAIN w.preds |-> r.preds[j]] /\ DOMAIN r.preds = DOMAIN w.preds
        /\ \A j \in DOMAIN w.preds : /\ DOMAIN r.preds[j] = DOMAIN w.preds[j]
                                     /\ r.preds[j].home = w.preds[j].home /\ r.preds[j].slot = w.preds[j].slot
    BY <1>1, <1>5, <2>1
  <2>6. \A j \in DOMAIN w.preds : RefersTo(r.plan, w.preds[j])
    <3> SUFFICES ASSUME NEW j \in DOMAIN w.preds, w.preds[j].slot # 0
                 PROVE  w.preds[j].slot \in DOMAIN r.plan[w.preds[j].home].cond
      BY DEF RefersTo
    <3>1. w.preds[j].slot \in DOMAIN w.plan[w.preds[j].home].cond
      BY DEF Consistent, References, RefersTo
    <3>2. w.preds[j].home = h /\ w.preds[i].slot = 0 => i = j
      BY DEF Consistent, References, h
    <3>3. w.preds[j].home \in DOMAIN w.plan
      BY DEF Consistent, References
    <3> QED
      BY <1>2, <2>2, <2>3, <3>1, <3>2, <3>3
  <2>7. SameReferences(w.plan, w.preds, r.plan, r.preds)
    BY <1>1, <1>5, <2>5, <2>6, SameDomain DEF SameReferences, RefersTo
  <2>8. TermsOf(r.plan) \cup Content(w, i) = TermsOf(w.plan)
    <3>1. \A y \in DOMAIN w.plan \ {h} : r.plan[y].cond = w.plan[y].cond
      BY <2>2
    <3>2. TermsIn(r.plan[h].cond) \cup Content(w, i) = TermsIn(w.plan[h].cond)
      BY <1>2, <2>3 DEF h
    <3>3. h \in DOMAIN w.plan
      BY <1>1
    <3>4. DOMAIN r.plan = DOMAIN w.plan
      BY <2>2
    <3> QED
      BY ONLY <3>1, <3>2, <3>3, <3>4, TermsAfter, Zenon
  <2> QED
    BY <2>1, <2>4, <2>7, <2>8
<1>7. CASE w.preds[i].count # 1
  <2>1. /\ r.tasks = w.tasks /\ r.edge = w.edge /\ IsWork(r) /\ r.plan = w.plan
        /\ r.preds = [w.preds EXCEPT ![i] = [w.preds[i] EXCEPT !.count = @ - 1, !.uses = {}]]
    BY <1>7 DEF Release, IsWork
  <2>2. /\ r.preds = [j \in DOMAIN w.preds |-> r.preds[j]] /\ DOMAIN r.preds = DOMAIN w.preds
        /\ \A j \in DOMAIN w.preds : /\ DOMAIN r.preds[j] = DOMAIN w.preds[j]
                                     /\ r.preds[j].home = w.preds[j].home /\ r.preds[j].slot = w.preds[j].slot
    <3>1. \A j \in DOMAIN w.preds \ {i} : r.preds[j] = w.preds[j]
      BY <2>1
    <3>2. r.preds[i] = [w.preds[i] EXCEPT !.count = @ - 1, !.uses = {}]
      BY <2>1
    <3>3. DOMAIN r.preds[i] = DOMAIN w.preds[i] /\ r.preds[i].home = w.preds[i].home /\ r.preds[i].slot = w.preds[i].slot
      BY ONLY <1>1, <3>2
    <3> QED
      BY <2>1, <3>1, <3>3
  <2>3. \A j \in DOMAIN w.preds : RefersTo(w.plan, w.preds[j])
    BY DEF Consistent, References
  <2>4. SameReferences(w.plan, w.preds, r.plan, r.preds)
    <3>1. IsSeq(r.preds) /\ Len(r.preds) = Len(w.preds)
      BY <1>1, <2>2, SameDomain
    <3>2. \A j \in DOMAIN w.preds : RefersTo(r.plan, r.preds[j])
      BY <2>1, <2>2, <2>3 DEF RefersTo
    <3> QED
      BY <1>5, <2>2, <3>1, <3>2 DEF SameReferences
  <2>5. SameGraph(w.plan, r.plan)
    BY <1>1, <1>4, <2>1 DEF SameGraph
  <2> QED
    BY <1>3, <2>1, <2>4, <2>5
<1> QED
  BY <1>6, <1>7

LEMMA CountIs ==
  ASSUME NEW w, IsWork(w), NEW unseen, Consistent(w.plan, w.preds, w.tasks, unseen), NEW i \in DOMAIN w.preds,
         NEW r, r = AddCount(w, i) \/ r = Leave(w, i)
  PROVE  /\ IsWork(r) /\ r.tasks = w.tasks /\ r.edge = w.edge /\ r.plan = w.plan
         /\ SameGraph(w.plan, r.plan) /\ SameReferences(w.plan, w.preds, r.plan, r.preds)
<1>1. \A j \in DOMAIN w.preds : {"home", "slot", "uses", "count"} \subseteq DOMAIN w.preds[j] /\ RefersTo(w.plan, w.preds[j])
  BY DEF Consistent, References
<1>2. IsSeq(w.preds) /\ IsSeq(w.plan)
  BY DEF Consistent, References, Formed
<1>3. \E c : r = [w EXCEPT !.preds[i].count = c]
  BY DEF AddCount, Leave
<1>4. PICK c : r = [w EXCEPT !.preds[i].count = c]
  BY <1>3
<1>5. /\ r.tasks = w.tasks /\ r.edge = w.edge /\ IsWork(r) /\ r.plan = w.plan
      /\ r.preds = [w.preds EXCEPT ![i].count = c]
  BY <1>4 DEF IsWork
<1>6. /\ r.preds = [j \in DOMAIN w.preds |-> r.preds[j]] /\ DOMAIN r.preds = DOMAIN w.preds
      /\ \A j \in DOMAIN w.preds : /\ DOMAIN r.preds[j] = DOMAIN w.preds[j]
                                   /\ r.preds[j].home = w.preds[j].home /\ r.preds[j].slot = w.preds[j].slot
  BY <1>1, <1>5
<1>7. SameReferences(w.plan, w.preds, r.plan, r.preds)
  BY <1>1, <1>2, <1>5, <1>6, SameDomain DEF SameReferences, RefersTo
<1>8. SameGraph(w.plan, r.plan)
  BY <1>2, <1>5 DEF SameGraph, Consistent, Formed
<1> QED
  BY <1>5, <1>7, <1>8

-----------------------------------------------------------------------------
(* A filter on an edge *)

\* Plan q has a new filter of leaf on edge e of plan p.
Filtered(p, q, e, leaf) ==
  LET f == Len(p) + 1
  IN  q = Append([p EXCEPT ![e[1]].ins[e[2]] = f], NewFilter(Source(p, e), leaf))

\* What that plan is, operator by operator.
WithFilter(p, q, e, leaf) ==
  LET f == Len(p) + 1
  IN  /\ IsSeq(q) /\ DOMAIN q = DOMAIN p \cup {f} /\ f \notin DOMAIN p
      /\ q[f] = NewFilter(Source(p, e), leaf)
      /\ \A y \in DOMAIN p :
           /\ {"op", "ins", "cond"} \subseteq DOMAIN q[y]
           /\ q[y].op = p[y].op /\ q[y].cond = p[y].cond
           /\ y # e[1] => q[y].ins = p[y].ins
           /\ Len(q[y].ins) = Len(p[y].ins) /\ DOMAIN q[y].ins = DOMAIN p[y].ins
           /\ q[y].ins \in Seq(DOMAIN q)
           /\ \A k \in DOMAIN p[y].ins : q[y].ins[k] = IF <<y, k>> = e THEN f ELSE p[y].ins[k]

LEMMA FilteredIs ==
  ASSUME NEW p, Formed(p), NEW e \in Edges(p), NEW leaf, NEW q, Filtered(p, q, e, leaf)
  PROVE  WithFilter(p, q, e, leaf)
<1> DEFINE f == Len(p) + 1
           c == e[1]
           changed == [p[c].ins EXCEPT ![e[2]] = f]
           m == [p EXCEPT ![c].ins[e[2]] = f]
<1>1. /\ c \in DOMAIN p /\ e[2] \in DOMAIN p[c].ins /\ e = <<c, e[2]>>
      /\ \A y \in DOMAIN p : /\ {"op", "ins", "cond"} \subseteq DOMAIN p[y]
                             /\ p[y].ins \in Seq(DOMAIN p)
  BY DEF Edges, Formed
<1>2. q = Append(m, NewFilter(Source(p, e), leaf))
  BY DEF Filtered
<1>3. m = [p EXCEPT ![c] = [p[c] EXCEPT !.ins = changed]]
  BY <1>1
<1> HIDE DEF changed, m, c, f
<1>4. /\ m = [y \in DOMAIN p |-> m[y]] /\ DOMAIN m = DOMAIN p
      /\ \A y \in DOMAIN p \ {c} : m[y] = p[y]
      /\ m[c] = [p[c] EXCEPT !.ins = changed]
  BY <1>1, <1>3
<1>5. /\ DOMAIN m[c] = DOMAIN p[c] /\ m[c].op = p[c].op /\ m[c].cond = p[c].cond /\ m[c].ins = changed
  BY <1>1, <1>4
<1>6. IsSeq(m) /\ Len(m) = Len(p)
  BY <1>4, SameDomain DEF Formed
<1>7. /\ IsSeq(q) /\ DOMAIN q = DOMAIN p \cup {f} /\ f \notin DOMAIN p
      /\ q[f] = NewFilter(Source(p, e), leaf)
      /\ \A y \in DOMAIN p : q[y] = m[y]
  BY <1>2, <1>4, <1>6, Appended DEF f
<1>8. /\ DOMAIN changed = DOMAIN p[c].ins /\ Len(changed) = Len(p[c].ins) /\ changed \in Seq(DOMAIN q)
      /\ \A k \in DOMAIN p[c].ins : changed[k] = IF k = e[2] THEN f ELSE p[c].ins[k]
  <2>1. p[c].ins \in Seq(DOMAIN q) /\ f \in DOMAIN q /\ e[2] \in DOMAIN p[c].ins
    BY <1>1, <1>7, SeqMonotonic
  <2> QED
    BY <2>1 DEF changed
<1>9. \A y \in DOMAIN p : p[y].ins \in Seq(DOMAIN q)
  BY <1>1, <1>7, SeqMonotonic
<1>10. ASSUME NEW y \in DOMAIN p
       PROVE  /\ {"op", "ins", "cond"} \subseteq DOMAIN q[y]
              /\ q[y].op = p[y].op /\ q[y].cond = p[y].cond
              /\ y # e[1] => q[y].ins = p[y].ins
              /\ Len(q[y].ins) = Len(p[y].ins) /\ DOMAIN q[y].ins = DOMAIN p[y].ins
              /\ q[y].ins \in Seq(DOMAIN q)
              /\ \A k \in DOMAIN p[y].ins : q[y].ins[k] = IF <<y, k>> = e THEN f ELSE p[y].ins[k]
  <2>1. CASE y = c
    <3>1. \A k : <<y, k>> = e <=> k = e[2]
      BY <1>1, <2>1
    <3> QED
      BY <1>1, <1>5, <1>7, <1>8, <2>1, <3>1 DEF c
  <2>2. CASE y # c
    <3>1. \A k : <<y, k>> # e
      BY <1>1, <2>2
    <3> QED
      BY <1>1, <1>4, <1>7, <1>9, <2>2, <3>1 DEF c
  <2> QED
    BY <2>1, <2>2
<1> QED
  BY <1>7, <1>10 DEF f, WithFilter

\* What its edges and terms are.
Threaded(p, q, e, leaf, f) ==
  /\ Edges(q) = Edges(p) \cup {<<f, 1>>} /\ <<f, 1>> \notin Edges(p)
  /\ Source(q, <<f, 1>>) = Source(p, e) /\ Source(q, e) = f
  /\ \A d \in Edges(p) \ {e} : Source(q, d) = Source(p, d)
  /\ \A d \in Edges(p) : Source(p, d) \in DOMAIN p
  /\ TermsOf(q) = TermsOf(p) \cup leaf

LEMMA EdgesFiltered ==
  ASSUME NEW p, Formed(p), NEW e \in Edges(p), NEW leaf, NEW q, Filtered(p, q, e, leaf)
  PROVE  Threaded(p, q, e, leaf, Len(p) + 1)
<1> DEFINE f == Len(p) + 1
<1>0. WithFilter(p, q, e, leaf)
  BY FilteredIs
<1>1. /\ DOMAIN q = DOMAIN p \cup {f} /\ f \notin DOMAIN p
      /\ q[f] = NewFilter(Source(p, e), leaf)
      /\ \A y \in DOMAIN p :
           /\ q[y].cond = p[y].cond /\ DOMAIN q[y].ins = DOMAIN p[y].ins
           /\ \A k \in DOMAIN p[y].ins : q[y].ins[k] = IF <<y, k>> = e THEN f ELSE p[y].ins[k]
  BY ONLY <1>0 DEF WithFilter
<1> HIDE DEF f
<1>2. q[f].ins = <<Source(p, e)>> /\ q[f].cond = <<leaf>>
  BY <1>1 DEF NewFilter
<1>3. DOMAIN q[f].ins = {1} /\ q[f].ins[1] = Source(p, e)
  BY ONLY <1>2
<1>4. \A y, k : <<y, k>> \in Edges(p) <=> y \in DOMAIN p /\ k \in DOMAIN p[y].ins
  BY DEF Edges
<1>5. \A y, k : <<y, k>> \in Edges(q) <=> y \in DOMAIN q /\ k \in DOMAIN q[y].ins
  BY DEF Edges
<1>6. (\A d \in Edges(p) : d = <<d[1], d[2]>>) /\ \A d \in Edges(q) : d = <<d[1], d[2]>>
  BY DEF Edges
<1>7. \A y, k : <<y, k>> \in Edges(q) <=> <<y, k>> \in Edges(p) \/ <<y, k>> = <<f, 1>>
  BY <1>1, <1>3, <1>4, <1>5
<1>8. Edges(q) = Edges(p) \cup {<<f, 1>>}
  BY <1>6, <1>7
<1>9. <<f, 1>> \notin Edges(p)
  BY <1>1, <1>4
<1>10. \A d \in Edges(p) : Source(q, d) = IF d = e THEN f ELSE Source(p, d)
  BY <1>1, <1>4, <1>6 DEF Source
<1>11. \A d \in Edges(p) : Source(p, d) \in DOMAIN p
  BY DEF Formed, Edges, Source
<1>12. Source(q, <<f, 1>>) = Source(p, e)
  BY <1>3 DEF Source
<1>13. TermsIn(q[f].cond) = leaf
  <2>1. DOMAIN q[f].cond = {1} /\ q[f].cond[1] = leaf
    BY ONLY <1>2
  <2> QED
    BY ONLY <2>1 DEF TermsIn, Range
<1>14. TermsOf(q) = TermsOf(p) \cup leaf
  <2>1. \A t : t \in TermsOf(p) <=> \E y \in DOMAIN p : t \in TermsIn(p[y].cond)
    BY DEF TermsOf
  <2>2. \A t : t \in TermsOf(q) <=> \E y \in DOMAIN q : t \in TermsIn(q[y].cond)
    BY DEF TermsOf
  <2>3. \A y \in DOMAIN p : TermsIn(q[y].cond) = TermsIn(p[y].cond)
    BY <1>1
  <2> QED
    BY <1>1, <1>13, <2>1, <2>2, <2>3
<1> QED
  BY <1>8, <1>9, <1>10, <1>11, <1>12, <1>14 DEF f, Threaded

LEMMA FilteredKeeps ==
  ASSUME NEW p, NEW ps, NEW ts, NEW unseen, Consistent(p, ps, ts, unseen),
         NEW e \in Edges(p), e[1] \notin unseen, NEW leaf, NEW q, Filtered(p, q, e, leaf)
  PROVE  Consistent(q, ps, ts, unseen)
<1> DEFINE f == Len(p) + 1
<1>1. Formed(p) /\ WithFilter(p, q, e, leaf)
  BY FilteredIs DEF Consistent
<1>2. /\ IsSeq(q) /\ DOMAIN q = DOMAIN p \cup {f} /\ f \notin DOMAIN p
      /\ q[f] = NewFilter(Source(p, e), leaf)
      /\ \A y \in DOMAIN p :
           /\ {"op", "ins", "cond"} \subseteq DOMAIN q[y]
           /\ q[y].op = p[y].op /\ q[y].cond = p[y].cond
           /\ y # e[1] => q[y].ins = p[y].ins
           /\ Len(q[y].ins) = Len(p[y].ins) /\ DOMAIN q[y].ins = DOMAIN p[y].ins
           /\ q[y].ins \in Seq(DOMAIN q)
  BY ONLY <1>1 DEF WithFilter
<1>3. /\ Edges(q) = Edges(p) \cup {<<f, 1>>} /\ <<f, 1>> \notin Edges(p)
      /\ Source(q, <<f, 1>>) = Source(p, e) /\ Source(q, e) = f
      /\ \A d \in Edges(p) \ {e} : Source(q, d) = Source(p, d)
      /\ \A d \in Edges(p) : Source(p, d) \in DOMAIN p
  BY <1>1, EdgesFiltered DEF Threaded
<1> HIDE DEF f
<1>4. Formed(q)
  <2>1. /\ {"op", "ins", "cond"} \subseteq DOMAIN q[f]
        /\ q[f].op = "filter" /\ q[f].ins = <<Source(p, e)>> /\ q[f].cond = <<leaf>>
    BY <1>2 DEF NewFilter
  <2>2. Source(p, e) \in DOMAIN q
    BY <1>2, <1>3
  <2>3. q[f].ins \in Seq(DOMAIN q) /\ Len(q[f].ins) = 1 /\ q[f].cond \in Seq({leaf})
    BY ONLY <2>1, <2>2
  <2>4. IsSeq(q[f].cond)
    BY <2>3, IsSeqIf
  <2>5. "filter" \in Unary /\ "filter" \notin Binary
    BY DEF Unary, Binary, JoinKinds
  <2>6. \A y \in DOMAIN p : /\ IsSeq(p[y].cond)
                            /\ p[y].op \in Unary => Len(p[y].ins) = 1
                            /\ p[y].op \in Binary => Len(p[y].ins) = 2
    BY <1>1 DEF Formed
  <2> QED
    BY <1>2, <2>1, <2>3, <2>4, <2>5, <2>6 DEF Formed
<1>5. OneConsumer(q)
  <2>1. \A c, d \in Edges(p) : Source(p, c) = Source(p, d) /\ p[Source(p, c)].op # "buffer" => c = d
    BY DEF Consistent, OneConsumer
  <2> SUFFICES ASSUME NEW c \in Edges(q), NEW d \in Edges(q), Source(q, c) = Source(q, d), q[Source(q, c)].op # "buffer"
               PROVE  c = d
    BY DEF OneConsumer
  <2>2. CASE c \in Edges(p) \ {e} /\ d \in Edges(p) \ {e}
    BY <1>2, <1>3, <2>1, <2>2
  <2>3. CASE c = e \/ d = e
    BY <1>2, <1>3, <2>3
  <2>4. CASE c = <<f, 1>> \/ d = <<f, 1>>
    BY <1>2, <1>3, <2>1, <2>4
  <2> QED
    BY <1>3, <2>2, <2>3, <2>4
<1>6. Ahead(q, unseen)
  <2>1. \A y \in unseen : q[y].ins = p[y].ins /\ y \in DOMAIN p
    BY <1>2 DEF Consistent, Ahead
  <2>2. \A y \in unseen : \A k \in DOMAIN p[y].ins : p[y].ins[k] \in DOMAIN p
    BY <2>1 DEF Consistent, Formed
  <2> QED
    BY <1>2, <2>1, <2>2 DEF Consistent, Ahead
<1>7. References(q, ps, unseen)
  BY <1>2 DEF Consistent, References, RefersTo
<1>8. Waiting(q, ps, ts, unseen)
  <2> SUFFICES ASSUME NEW j \in DOMAIN ts
               PROVE  /\ \A d \in Edges(q) : Source(q, d) = ts[j].node => d[1] \notin unseen
                      /\ ts[j].mask # {} => ts[j].node \notin Bottoms(q)
    BY DEF Consistent, Waiting
  <2>1. /\ ts[j].node \in unseen /\ unseen \subseteq DOMAIN p
        /\ \A d \in Edges(p) : Source(p, d) = ts[j].node => d[1] \notin unseen
        /\ ts[j].mask # {} => ts[j].node \notin Bottoms(p)
    BY DEF Consistent, Waiting, Ahead
  <2>2. f \notin unseen
    BY <1>2, <2>1
  <2>3. ASSUME NEW d \in Edges(q), Source(q, d) = ts[j].node PROVE d[1] \notin unseen
    <3>1. CASE d = <<f, 1>>
      BY <2>2, <3>1
    <3>2. CASE d = e
      BY <3>2
    <3>3. CASE d \in Edges(p) \ {e}
      BY <1>3, <2>1, <2>3, <3>3
    <3> QED
      BY <1>3, <3>1, <3>2, <3>3
  <2>4. ASSUME ts[j].mask # {} PROVE ts[j].node \notin Bottoms(q)
    <3>1. PICK d \in Edges(p) : Source(p, d) = ts[j].node
      BY <2>1, <2>4 DEF Bottoms
    <3>2. \E c \in Edges(q) : Source(q, c) = ts[j].node
      BY <1>3, <3>1
    <3> QED
      BY <3>2 DEF Bottoms
  <2> QED
    BY <2>3, <2>4
<1> QED
  BY <1>4, <1>5, <1>6, <1>7, <1>8 DEF Consistent

-----------------------------------------------------------------------------
(* Steps of a handler *)

\* Inputs K of x, which is visited, lead to a buffer or to operators no task is about.
Inputs(w, x, unseen, K) ==
  /\ x \in DOMAIN w.plan \ unseen
  /\ \A k \in K :
       /\ k \in DOMAIN w.plan[x].ins
       /\ LET y == w.plan[x].ins[k]
          IN  \/ w.plan[y].op = "buffer"
              \/ y \in unseen /\ \A j \in DOMAIN w.tasks : w.tasks[j].node # y

\* The next filter goes to an edge behind what was visited, and to none of those inputs.
OnEdge(w, x, unseen, K) ==
  w.edge \in Edges(w.plan) /\ w.edge[1] \notin unseen /\ \A k \in K : w.edge # <<x, k>>

\* Record u is what w became, and inputs K of x are as they were.
Later(w, u, x, K) ==
  /\ u.tasks = w.tasks /\ DOMAIN u.preds = DOMAIN w.preds /\ Len(u.preds) = Len(w.preds)
  /\ DOMAIN w.plan \subseteq DOMAIN u.plan /\ \A y \in DOMAIN w.plan : u.plan[y].op = w.plan[y].op
  /\ DOMAIN u.plan[x].ins = DOMAIN w.plan[x].ins /\ \A k \in K : u.plan[x].ins[k] = w.plan[x].ins[k]

StepOf(kind, x, w, i) ==
  CASE kind = "flush" -> Flush(w, i)
    [] kind = "copy" -> FlushCopy(w, i)
    [] kind = "merge" -> MergeOne(x, w, i)
    [] kind = "add" -> AddCount(w, i)
    [] OTHER -> Leave(w, i)

LEMMA SameIsLater ==
  ASSUME NEW w, NEW u, NEW x \in DOMAIN w.plan, NEW K, SameGraph(w.plan, u.plan), u.tasks = w.tasks,
         SameReferences(w.plan, w.preds, u.plan, u.preds), u.edge = w.edge, NEW unseen
  PROVE  Later(w, u, x, K) /\ (OnEdge(w, x, unseen, K) => OnEdge(u, x, unseen, K))
<1>1. Edges(u.plan) = Edges(w.plan)
  BY EdgesSame DEF SameGraph
<1> QED
  BY <1>1 DEF Later, OnEdge, SameGraph, SameReferences

LEMMA FlushKeeps ==
  ASSUME NEW w, NEW unseen, Work(w, unseen), NEW x \in DOMAIN w.plan, NEW K, K \subseteq DOMAIN w.plan[x].ins,
         NEW i \in DOMAIN w.preds, OnEdge(w, x, unseen, K), NEW u, u = Flush(w, i)
  PROVE  Work(u, unseen) /\ Later(w, u, x, K) /\ OnEdge(u, x, unseen, K)
<1> DEFINE r == Release(w, i)
           f == Len(w.plan) + 1
           e == w.edge
           leaf == Content(w, i)
<1>1. /\ IsWork(r) /\ r.tasks = w.tasks /\ r.edge = w.edge
      /\ SameGraph(w.plan, r.plan) /\ SameReferences(w.plan, w.preds, r.plan, r.preds)
      /\ TermsOf(r.plan) \cup leaf = TermsOf(w.plan)
  BY ReleaseIs DEF Work
<1>2. Consistent(r.plan, r.preds, r.tasks, unseen)
  BY <1>1, ConsistentKept DEF Work
<1>3. e \in Edges(r.plan) /\ e[1] \notin unseen /\ Source(r.plan, e) = Source(w.plan, e) /\ Len(r.plan) = Len(w.plan)
      /\ DOMAIN r.plan = DOMAIN w.plan
  BY <1>1, EdgesSame DEF SameGraph, OnEdge
<1>4. /\ u.plan = Append([r.plan EXCEPT ![e[1]].ins[e[2]] = f], NewFilter(Source(w.plan, e), leaf))
      /\ u.preds = r.preds /\ u.tasks = r.tasks /\ u.edge = <<f, 1>> /\ IsWork(u)
  BY <1>1 DEF Flush, IsWork
<1>5. Filtered(r.plan, u.plan, e, leaf)
  BY <1>3, <1>4 DEF Filtered
<1> HIDE DEF r, leaf, e
<1>6. Consistent(u.plan, u.preds, u.tasks, unseen)
  BY <1>2, <1>3, <1>4, <1>5, FilteredKeeps
<1>7. Formed(r.plan) /\ WithFilter(r.plan, u.plan, e, leaf)
  BY <1>2, <1>3, <1>5, FilteredIs DEF Consistent
<1>8. TermsOf(u.plan) = TermsOf(r.plan) \cup leaf /\ <<f, 1>> \in Edges(u.plan)
  <2>1. Threaded(r.plan, u.plan, e, leaf, Len(r.plan) + 1)
    BY <1>3, <1>5, <1>7, EdgesFiltered
  <2> QED
    BY <1>3, <2>1 DEF Threaded
<1>9. /\ DOMAIN u.plan = DOMAIN r.plan \cup {f} /\ f \notin DOMAIN r.plan
      /\ \A y \in DOMAIN r.plan :
           /\ u.plan[y].op = r.plan[y].op /\ DOMAIN u.plan[y].ins = DOMAIN r.plan[y].ins
           /\ \A k \in DOMAIN r.plan[y].ins : u.plan[y].ins[k] = IF <<y, k>> = e THEN f ELSE r.plan[y].ins[k]
  BY ONLY <1>3, <1>7 DEF WithFilter
<1>10. Work(u, unseen)
  BY <1>1, <1>4, <1>6, <1>8 DEF Work
<1>11. Later(w, u, x, K)
  <2>1. u.tasks = w.tasks /\ DOMAIN u.preds = DOMAIN w.preds /\ Len(u.preds) = Len(w.preds)
    BY <1>1, <1>4 DEF SameReferences
  <2>2. \A y \in DOMAIN w.plan : r.plan[y].op = w.plan[y].op /\ r.plan[y].ins = w.plan[y].ins
    BY <1>1 DEF SameGraph
  <2>3. \A k \in K : <<x, k>> # e
    BY DEF OnEdge, e
  <2>4. \A k \in K : u.plan[x].ins[k] = w.plan[x].ins[k]
    BY <1>3, <1>9, <2>2, <2>3
  <2> QED
    BY <1>3, <1>9, <2>1, <2>2, <2>4 DEF Later
<1>12. OnEdge(u, x, unseen, K)
  <2>1. f \notin unseen
    BY <1>3, <1>9 DEF Work, Consistent, Ahead
  <2>2. x # f
    BY <1>3, <1>9
  <2> QED
    BY <1>4, <1>8, <2>1, <2>2 DEF OnEdge
<1> QED
  BY <1>10, <1>11, <1>12

LEMMA LaterStill ==
  ASSUME NEW w, NEW u, NEW v, NEW x, NEW K, Later(w, u, x, K), Later(u, v, x, K)
  PROVE  Later(w, v, x, K)
BY DEF Later

\* A condition that takes a leaf over has the terms of it.
LEMMA LeafAdded ==
  ASSUME NEW cond, IsSeq(cond), NEW leaf, NEW more, more = Append(cond, leaf)
  PROVE  IsSeq(more) /\ DOMAIN cond \subseteq DOMAIN more /\ TermsIn(cond) \cup leaf = TermsIn(more)
<1>1. /\ IsSeq(more) /\ DOMAIN more = DOMAIN cond \cup {Len(cond) + 1} /\ Len(cond) + 1 \notin DOMAIN cond
      /\ (\A i \in DOMAIN cond : more[i] = cond[i]) /\ more[Len(cond) + 1] = leaf
  BY Appended
<1>2. \A t : t \in TermsIn(cond) <=> \E i \in DOMAIN cond : t \in cond[i]
  BY DEF TermsIn, Range
<1>3. \A t : t \in TermsIn(more) <=> \E i \in DOMAIN more : t \in more[i]
  BY DEF TermsIn, Range
<1>4. TermsIn(cond) \cup leaf = TermsIn(more)
  BY <1>1, <1>2, <1>3
<1> QED
  BY <1>1, <1>4

LEMMA MergeKeeps ==
  ASSUME NEW w, NEW unseen, Work(w, unseen), NEW x \in DOMAIN w.plan, NEW K, NEW i \in DOMAIN w.preds,
         NEW u, u = MergeOne(x, w, i)
  PROVE  Work(u, unseen) /\ Later(w, u, x, K) /\ (OnEdge(w, x, unseen, K) => OnEdge(u, x, unseen, K))
<1> DEFINE r == Release(w, i)
           leaf == Content(w, i)
           more == Append(r.plan[x].cond, leaf)
<1>1. /\ IsWork(r) /\ r.tasks = w.tasks /\ r.edge = w.edge
      /\ SameGraph(w.plan, r.plan) /\ SameReferences(w.plan, w.preds, r.plan, r.preds)
      /\ TermsOf(r.plan) \cup leaf = TermsOf(w.plan)
  BY ReleaseIs DEF Work
<1>2. Consistent(r.plan, r.preds, r.tasks, unseen)
  BY <1>1, ConsistentKept DEF Work
<1>3. x \in DOMAIN r.plan /\ IsSeq(r.plan) /\ Len(r.plan) = Len(w.plan)
      /\ \A y \in DOMAIN r.plan : {"op", "ins", "cond"} \subseteq DOMAIN r.plan[y] /\ IsSeq(r.plan[y].cond)
  BY <1>1, <1>2 DEF SameGraph, Consistent, Formed
<1>4. /\ u.plan = [r.plan EXCEPT ![x].cond = more]
      /\ u.preds = r.preds /\ u.tasks = r.tasks /\ u.edge = r.edge /\ IsWork(u)
  BY <1>1 DEF MergeOne, IsWork
<1>5. IsSeq(more) /\ DOMAIN r.plan[x].cond \subseteq DOMAIN more /\ TermsIn(r.plan[x].cond) \cup leaf = TermsIn(more)
  BY <1>3, LeafAdded
<1> HIDE DEF r, leaf, more
<1>6. /\ u.plan = [y \in DOMAIN r.plan |-> u.plan[y]] /\ DOMAIN u.plan = DOMAIN r.plan
      /\ \A y \in DOMAIN r.plan \ {x} : u.plan[y] = r.plan[y]
      /\ u.plan[x] = [r.plan[x] EXCEPT !.cond = more]
  BY <1>3, <1>4
<1>7. /\ DOMAIN u.plan[x] = DOMAIN r.plan[x] /\ u.plan[x].cond = more
      /\ u.plan[x].op = r.plan[x].op /\ u.plan[x].ins = r.plan[x].ins
  BY <1>3, <1>6
<1>8. SameGraph(r.plan, u.plan)
  BY <1>3, <1>5, <1>6, <1>7, SameDomain DEF SameGraph
<1>9. SameReferences(r.plan, r.preds, u.plan, u.preds)
  <2>1. \A j \in DOMAIN r.preds : r.preds[j].home \in DOMAIN r.plan /\ RefersTo(r.plan, r.preds[j])
    BY <1>2 DEF Consistent, References
  <2>2. \A j \in DOMAIN r.preds : RefersTo(u.plan, r.preds[j])
    BY <1>5, <1>6, <1>7, <2>1 DEF RefersTo
  <2> QED
    BY <1>2, <1>4, <2>2 DEF SameReferences, Consistent, References
<1>10. TermsOf(u.plan) = TermsOf(w.plan)
  <2>1. \A y \in DOMAIN u.plan \ {x} : r.plan[y].cond = u.plan[y].cond
    BY <1>6
  <2>2. TermsIn(r.plan[x].cond) \cup leaf = TermsIn(u.plan[x].cond)
    BY <1>5, <1>7
  <2>3. x \in DOMAIN u.plan /\ DOMAIN r.plan = DOMAIN u.plan
    BY <1>3, <1>6
  <2>4. TermsOf(r.plan) \cup leaf = TermsOf(u.plan)
    BY ONLY <2>1, <2>2, <2>3, TermsAfter, Zenon
  <2> QED
    BY <1>1, <2>4
<1>11. Work(u, unseen)
  <2>1. Consistent(u.plan, u.preds, u.tasks, unseen)
    BY <1>2, <1>4, <1>8, <1>9, ConsistentKept
  <2> QED
    BY <1>4, <1>10, <2>1 DEF Work
<1>12. Later(w, r, x, K) /\ (OnEdge(w, x, unseen, K) => OnEdge(r, x, unseen, K))
  BY <1>1, SameIsLater
<1>13. Later(r, u, x, K) /\ (OnEdge(r, x, unseen, K) => OnEdge(u, x, unseen, K))
  BY <1>3, <1>4, <1>8, <1>9, SameIsLater
<1> QED
  BY <1>11, <1>12, <1>13, LaterStill

LEMMA CountKeeps ==
  ASSUME NEW w, NEW unseen, Work(w, unseen), NEW x \in DOMAIN w.plan, NEW K, NEW i \in DOMAIN w.preds,
         NEW u, u = AddCount(w, i) \/ u = Leave(w, i)
  PROVE  Work(u, unseen) /\ Later(w, u, x, K) /\ (OnEdge(w, x, unseen, K) => OnEdge(u, x, unseen, K))
<1>1. /\ IsWork(u) /\ u.tasks = w.tasks /\ u.edge = w.edge /\ u.plan = w.plan
      /\ SameGraph(w.plan, u.plan) /\ SameReferences(w.plan, w.preds, u.plan, u.preds)
  BY CountIs DEF Work
<1>2. Work(u, unseen)
  BY <1>1, ConsistentKept DEF Work
<1> QED
  BY <1>1, <1>2, SameIsLater

Flushing == {"flush", "copy"}

LEMMA StepKeeps ==
  ASSUME NEW kind, NEW w, NEW unseen, Work(w, unseen), NEW x \in DOMAIN w.plan, NEW K,
         K \subseteq DOMAIN w.plan[x].ins, NEW i \in DOMAIN w.preds,
         kind \in Flushing => OnEdge(w, x, unseen, K), NEW u, u = StepOf(kind, x, w, i)
  PROVE  Work(u, unseen) /\ Later(w, u, x, K) /\ (OnEdge(w, x, unseen, K) => OnEdge(u, x, unseen, K))
<1>1. CASE kind = "flush"
  BY <1>1, FlushKeeps DEF StepOf, Flushing
<1>2. CASE kind = "copy"
  <2> DEFINE a == AddCount(w, i)
  <2>1. Work(a, unseen) /\ Later(w, a, x, K) /\ OnEdge(a, x, unseen, K)
    BY <1>2, CountKeeps DEF Flushing
  <2>2. x \in DOMAIN a.plan /\ K \subseteq DOMAIN a.plan[x].ins /\ i \in DOMAIN a.preds
    BY <2>1 DEF Later
  <2>3. u = Flush(a, i)
    BY <1>2 DEF StepOf, FlushCopy
  <2> HIDE DEF a
  <2>4. Work(u, unseen) /\ Later(a, u, x, K) /\ OnEdge(u, x, unseen, K)
    BY <2>1, <2>2, <2>3, FlushKeeps
  <2> QED
    BY <2>1, <2>4, LaterStill
<1>3. CASE kind = "merge"
  BY <1>3, MergeKeeps DEF StepOf
<1>4. CASE kind \notin {"flush", "copy", "merge"}
  <2>1. u = AddCount(w, i) \/ u = Leave(w, i)
    BY <1>4 DEF StepOf
  <2> QED
    BY <2>1, CountKeeps
<1> QED
  BY <1>1, <1>2, <1>3, <1>4

-----------------------------------------------------------------------------
(* A scan of a mask *)

LEMMA LeastException ==
  ASSUME NEW S \in SUBSET Nat, S # {}
  PROVE  \E i \in S : \A j \in S : i <= j
<1> DEFINE less == OpToRel(<, Nat)
<1>1. IsWellFoundedOn(less, Nat)
  BY NatLessThanWellFounded
<1>2. PICK i \in S : \A j \in S : ~ (<<j, i>> \in less)
  <2> HIDE DEF less
  <2> QED
    BY <1>1, WFMin
<1>3. \A j \in S : ~ (j < i)
  BY <1>2 DEF OpToRel
<1> QED
  BY <1>3

NextRecord(kind, x, mask, w, g, n) ==
  IF n = 0 THEN w ELSE IF n \in mask THEN StepOf(kind, x, g[n - 1], n) ELSE g[n - 1]

Scans(kind, x, mask, w, m, g) == g = [n \in 0 .. m |-> NextRecord(kind, x, mask, w, g, n)]

\* Whatever is scanned, there is a function of the records so far.
LEMMA ScanExists ==
  ASSUME NEW kind, NEW x, NEW mask, NEW w, NEW l \in Nat
  PROVE  \E g : Scans(kind, x, mask, w, l, g)
<1> DEFINE Without == {m \in Nat : ~ \E g : Scans(kind, x, mask, w, m, g)}
           Value(g, n) == NextRecord(kind, x, mask, w, g, n)
<1> SUFFICES ASSUME Without # {} PROVE FALSE
  OBVIOUS
<1>1. PICK m \in Without : \A j \in Without : m <= j
  <2> HIDE DEF Without
  <2>1. Without \in SUBSET Nat
    BY DEF Without
  <2> QED
    BY <2>1, LeastException
<1>2. CASE m = 0
  <2> DEFINE g == [n \in 0 .. 0 |-> w]
  <2>1. \A n \in 0 .. 0 : Value(g, n) = w
    BY DEF NextRecord
  <2> HIDE DEF Value
  <2>2. g = [n \in 0 .. 0 |-> Value(g, n)]
    BY <2>1
  <2> HIDE DEF g
  <2>3. Scans(kind, x, mask, w, 0, g)
    BY <2>2 DEF Scans, Value
  <2> QED
    BY <1>2, <2>3
<1>3. CASE m # 0
  <2>1. PICK g : Scans(kind, x, mask, w, m - 1, g)
    BY <1>1, <1>3
  <2> DEFINE h == [n \in 0 .. m |-> IF n = m THEN Value(g, m) ELSE g[n]]
  <2>2. m \in Nat /\ m - 1 \in Nat
    BY <1>3
  <2>3. ASSUME NEW n \in 0 .. m PROVE h[n] = Value(h, n)
    <3>1. n # 0 => h[n - 1] = g[n - 1]
      BY <2>2
    <3> HIDE DEF h
    <3>2. Value(h, n) = Value(g, n)
      BY <3>1 DEF NextRecord
    <3>3. h[n] = Value(g, n)
      <4>1. CASE n = m
        BY <4>1 DEF h
      <4>2. CASE n # m
        <5>1. n \in 0 .. m - 1
          BY <2>2, <4>2
        <5>2. g[n] = Value(g, n)
          BY <2>1, <5>1 DEF Scans
        <5> QED
          BY <4>2, <5>2 DEF h
      <4> QED
        BY <4>1, <4>2
    <3> QED
      BY <3>2, <3>3
  <2>4. h = [n \in 0 .. m |-> h[n]]
    OBVIOUS
  <2> HIDE DEF h
  <2>5. Scans(kind, x, mask, w, m, h)
    BY <2>3, <2>4 DEF Scans
  <2> QED
    BY <2>5
<1> QED
  BY <1>2, <1>3

\* What holds of the record after a scan of a mask.
Scanned(w, u, unseen, x, K) ==
  Work(u, unseen) /\ Later(w, u, x, K) /\ (OnEdge(w, x, unseen, K) => OnEdge(u, x, unseen, K))

LEMMA ScanKeeps ==
  ASSUME NEW kind, NEW w, NEW unseen, Work(w, unseen), NEW x \in DOMAIN w.plan, NEW K,
         K \subseteq DOMAIN w.plan[x].ins, NEW mask, mask \subseteq DOMAIN w.preds,
         kind \in Flushing /\ mask # {} => OnEdge(w, x, unseen, K),
         NEW g, Scans(kind, x, mask, w, Len(w.preds), g)
  PROVE  Scanned(w, g[Len(w.preds)], unseen, x, K)
<1> DEFINE l == Len(w.preds)
           Bad == {n \in 0 .. l : ~ Scanned(w, g[n], unseen, x, K)}
<1>1. l \in Nat /\ DOMAIN w.preds = 1 .. l
  BY IsSeqIf DEF Work, Consistent, References, IsSeq
<1>2. \A n \in 0 .. l : g[n] = NextRecord(kind, x, mask, w, g, n)
  BY DEF Scans
<1> HIDE DEF l
<1> SUFFICES ASSUME Bad # {} PROVE FALSE
  BY <1>1 DEF l
<1>3. PICK m \in Bad : \A j \in Bad : m <= j
  <2> HIDE DEF Bad
  <2>1. Bad \in SUBSET Nat
    BY <1>1 DEF Bad
  <2> QED
    BY <2>1, LeastException
<1>4. m \in 0 .. l /\ ~ Scanned(w, g[m], unseen, x, K)
  OBVIOUS
<1>5. m # 0 => Scanned(w, g[m - 1], unseen, x, K)
  <2> SUFFICES ASSUME m # 0, ~ Scanned(w, g[m - 1], unseen, x, K) PROVE FALSE
    OBVIOUS
  <2>1. m - 1 \in 0 .. l /\ ~ (m <= m - 1)
    BY <1>1, <1>4
  <2>2. m - 1 \in Bad
    BY <2>1
  <2> QED
    BY <1>3, <2>1, <2>2
<1> HIDE DEF Bad
<1>6. CASE m = 0
  <2>1. g[m] = w
    BY <1>2, <1>4, <1>6 DEF NextRecord
  <2>2. Later(w, w, x, K)
    BY DEF Later
  <2> QED
    BY <1>4, <2>1, <2>2 DEF Scanned
<1>7. CASE m # 0 /\ m \notin mask
  <2>1. g[m] = g[m - 1]
    BY <1>2, <1>4, <1>7 DEF NextRecord
  <2> QED
    BY <1>4, <1>5, <1>7, <2>1
<1>8. CASE m # 0 /\ m \in mask
  <2> DEFINE a == g[m - 1]
  <2>1. g[m] = StepOf(kind, x, a, m)
    BY <1>2, <1>4, <1>8 DEF NextRecord
  <2>2. Work(a, unseen) /\ Later(w, a, x, K) /\ (OnEdge(w, x, unseen, K) => OnEdge(a, x, unseen, K))
    BY <1>5, <1>8 DEF Scanned
  <2> HIDE DEF a
  <2>3. x \in DOMAIN a.plan /\ K \subseteq DOMAIN a.plan[x].ins /\ m \in DOMAIN a.preds
    BY <1>8, <2>2 DEF Later
  <2>4. kind \in Flushing => OnEdge(a, x, unseen, K)
    BY <1>8, <2>2
  <2>5. Work(g[m], unseen) /\ Later(a, g[m], x, K) /\ (OnEdge(a, x, unseen, K) => OnEdge(g[m], x, unseen, K))
    BY <2>1, <2>2, <2>3, <2>4, StepKeeps
  <2>6. Later(w, g[m], x, K)
    BY <2>2, <2>5, LaterStill
  <2> QED
    BY <1>4, <2>2, <2>5, <2>6 DEF Scanned
<1> QED
  BY <1>6, <1>7, <1>8

\* The scans of the handlers are such scans.
LEMMA FlushAllKeeps ==
  ASSUME NEW w, NEW unseen, Work(w, unseen), NEW x \in DOMAIN w.plan, NEW K,
         K \subseteq DOMAIN w.plan[x].ins, NEW mask, mask \subseteq DOMAIN w.preds,
         mask # {} => OnEdge(w, x, unseen, K)
  PROVE  Scanned(w, FlushAll(w, mask), unseen, x, K)
<1> DEFINE l == Len(w.preds)
           Records(g) == [n \in 0 .. l |-> IF n = 0 THEN w ELSE IF n \in mask THEN Flush(g[n - 1], n) ELSE g[n - 1]]
           r == CHOOSE g : g = Records(g)
<1>1. l \in Nat
  BY IsSeqIf DEF Work, Consistent, References, IsSeq
<1>2. \A g : Scans("flush", x, mask, w, l, g) <=> g = Records(g)
  BY DEF Scans, NextRecord, StepOf
<1>3. r = Records(r)
  BY <1>1, <1>2, ScanExists
<1>4. FlushAll(w, mask) = r[l]
  BY DEF FlushAll, Each
<1> HIDE DEF r, Records
<1>5. Scans("flush", x, mask, w, l, r)
  BY <1>2, <1>3
<1>6. Scanned(w, r[l], unseen, x, K)
  BY <1>5, ScanKeeps DEF Flushing
<1> QED
  BY <1>4, <1>6

LEMMA FlushCopiesKeeps ==
  ASSUME NEW w, NEW unseen, Work(w, unseen), NEW x \in DOMAIN w.plan, NEW K,
         K \subseteq DOMAIN w.plan[x].ins, NEW mask, mask \subseteq DOMAIN w.preds,
         mask # {} => OnEdge(w, x, unseen, K)
  PROVE  Scanned(w, Each(FlushCopy, w, mask), unseen, x, K)
<1> DEFINE l == Len(w.preds)
           Records(g) == [n \in 0 .. l |-> IF n = 0 THEN w ELSE IF n \in mask THEN FlushCopy(g[n - 1], n) ELSE g[n - 1]]
           r == CHOOSE g : g = Records(g)
<1>1. l \in Nat
  BY IsSeqIf DEF Work, Consistent, References, IsSeq
<1>2. \A g : Scans("copy", x, mask, w, l, g) <=> g = Records(g)
  BY DEF Scans, NextRecord, StepOf
<1>3. r = Records(r)
  BY <1>1, <1>2, ScanExists
<1>4. Each(FlushCopy, w, mask) = r[l]
  BY DEF Each
<1> HIDE DEF r, Records
<1>5. Scans("copy", x, mask, w, l, r)
  BY <1>2, <1>3
<1>6. Scanned(w, r[l], unseen, x, K)
  BY <1>5, ScanKeeps DEF Flushing
<1> QED
  BY <1>4, <1>6

LEMMA MergePredicatesKeeps ==
  ASSUME NEW w, NEW unseen, Work(w, unseen), NEW x \in DOMAIN w.plan, NEW K,
         K \subseteq DOMAIN w.plan[x].ins, NEW mask, mask \subseteq DOMAIN w.preds
  PROVE  Scanned(w, MergePredicates(w, x, mask), unseen, x, K)
<1> DEFINE l == Len(w.preds)
           Records(g) == [n \in 0 .. l |-> IF n = 0 THEN w ELSE IF n \in mask THEN MergeOne(x, g[n - 1], n) ELSE g[n - 1]]
           r == CHOOSE g : g = Records(g)
<1>1. l \in Nat
  BY IsSeqIf DEF Work, Consistent, References, IsSeq
<1>2. \A g : Scans("merge", x, mask, w, l, g) <=> g = Records(g)
  BY DEF Scans, NextRecord, StepOf
<1>3. r = Records(r)
  BY <1>1, <1>2, ScanExists
<1>4. MergePredicates(w, x, mask) = r[l]
  BY DEF MergePredicates, Each
<1> HIDE DEF r, Records
<1>5. Scans("merge", x, mask, w, l, r)
  BY <1>2, <1>3
<1>6. Scanned(w, r[l], unseen, x, K)
  BY <1>5, ScanKeeps DEF Flushing
<1> QED
  BY <1>4, <1>6

LEMMA AddCountsKeeps ==
  ASSUME NEW w, NEW unseen, Work(w, unseen), NEW x \in DOMAIN w.plan, NEW K,
         K \subseteq DOMAIN w.plan[x].ins, NEW mask, mask \subseteq DOMAIN w.preds
  PROVE  Scanned(w, Each(AddCount, w, mask), unseen, x, K)
<1> DEFINE l == Len(w.preds)
           Records(g) == [n \in 0 .. l |-> IF n = 0 THEN w ELSE IF n \in mask THEN AddCount(g[n - 1], n) ELSE g[n - 1]]
           r == CHOOSE g : g = Records(g)
<1>1. l \in Nat
  BY IsSeqIf DEF Work, Consistent, References, IsSeq
<1>2. \A g : Scans("add", x, mask, w, l, g) <=> g = Records(g)
  BY DEF Scans, NextRecord, StepOf
<1>3. r = Records(r)
  BY <1>1, <1>2, ScanExists
<1>4. Each(AddCount, w, mask) = r[l]
  BY DEF Each
<1> HIDE DEF r, Records
<1>5. Scans("add", x, mask, w, l, r)
  BY <1>2, <1>3
<1>6. Scanned(w, r[l], unseen, x, K)
  BY <1>5, ScanKeeps DEF Flushing
<1> QED
  BY <1>4, <1>6

LEMMA LeaveKeeps ==
  ASSUME NEW w, NEW unseen, Work(w, unseen), NEW x \in DOMAIN w.plan, NEW K,
         K \subseteq DOMAIN w.plan[x].ins, NEW mask, mask \subseteq DOMAIN w.preds
  PROVE  Scanned(w, Each(Leave, w, mask), unseen, x, K)
<1> DEFINE l == Len(w.preds)
           Records(g) == [n \in 0 .. l |-> IF n = 0 THEN w ELSE IF n \in mask THEN Leave(g[n - 1], n) ELSE g[n - 1]]
           r == CHOOSE g : g = Records(g)
<1>1. l \in Nat
  BY IsSeqIf DEF Work, Consistent, References, IsSeq
<1>2. \A g : Scans("leave", x, mask, w, l, g) <=> g = Records(g)
  BY DEF Scans, NextRecord, StepOf
<1>3. r = Records(r)
  BY <1>1, <1>2, ScanExists
<1>4. Each(Leave, w, mask) = r[l]
  BY DEF Each
<1> HIDE DEF r, Records
<1>5. Scans("leave", x, mask, w, l, r)
  BY <1>2, <1>3
<1>6. Scanned(w, r[l], unseen, x, K)
  BY <1>5, ScanKeeps DEF Flushing
<1> QED
  BY <1>4, <1>6

-----------------------------------------------------------------------------
(* Predicates that go on to an input *)

LEMMA InputsLater ==
  ASSUME NEW w, NEW u, NEW x, NEW unseen, NEW K, Formed(w.plan), Inputs(w, x, unseen, K), Later(w, u, x, K)
  PROVE  Inputs(u, x, unseen, K)
<1>1. \A k \in K : w.plan[x].ins[k] \in DOMAIN w.plan
  BY DEF Formed, Inputs
<1> QED
  BY <1>1 DEF Inputs, Later

\* A new task about an operator that no task is about, and whose consumers have been visited.
LEMMA TaskAdded ==
  ASSUME NEW p, NEW ps, NEW ts, NEW unseen, Consistent(p, ps, ts, unseen), NEW x \in DOMAIN p \ unseen,
         NEW k \in DOMAIN p[x].ins, NEW y, y = p[x].ins[k], p[y].op # "buffer", y \in unseen,
         \A j \in DOMAIN ts : ts[j].node # y, NEW mask, mask \subseteq DOMAIN ps
  PROVE  /\ Consistent(p, ps, Append(ts, [node |-> y, mask |-> mask]), unseen)
         /\ \A j \in DOMAIN Append(ts, [node |-> y, mask |-> mask]) :
              Append(ts, [node |-> y, mask |-> mask])[j].node = y
              \/ \E i \in DOMAIN ts : Append(ts, [node |-> y, mask |-> mask])[j].node = ts[i].node
<1> DEFINE t == [node |-> y, mask |-> mask]
           us == Append(ts, t)
           n == Len(ts) + 1
<1>1. /\ IsSeq(us) /\ DOMAIN us = DOMAIN ts \cup {n} /\ n \notin DOMAIN ts
      /\ (\A j \in DOMAIN ts : us[j] = ts[j]) /\ us[n] = t
  BY Appended DEF Consistent, Waiting
<1> HIDE DEF us, n
<1>2. <<x, k>> \in Edges(p) /\ Source(p, <<x, k>>) = y
  BY DEF Edges, Source
<1>3. \A e \in Edges(p) : Source(p, e) = y => e[1] \notin unseen
  <2> SUFFICES ASSUME NEW e \in Edges(p), Source(p, e) = y PROVE e[1] \notin unseen
    OBVIOUS
  <2>1. e = <<x, k>>
    BY <1>2 DEF Consistent, OneConsumer
  <2> QED
    BY <2>1
<1>4. y \notin Bottoms(p)
  BY <1>2 DEF Bottoms
<1>5. /\ {"node", "mask"} \subseteq DOMAIN us[n] /\ us[n].node = y /\ us[n].mask = mask
  BY <1>1
<1>6. Waiting(p, ps, us, unseen)
  <2>1. ASSUME NEW j \in DOMAIN us
        PROVE  /\ {"node", "mask"} \subseteq DOMAIN us[j]
               /\ us[j].node \in unseen
               /\ us[j].mask \subseteq DOMAIN ps
               /\ \A e \in Edges(p) : Source(p, e) = us[j].node => e[1] \notin unseen
               /\ us[j].mask # {} => us[j].node \notin Bottoms(p)
    <3>1. CASE j = n
      BY <1>3, <1>4, <1>5, <3>1
    <3>2. CASE j \in DOMAIN ts
      BY <1>1, <3>2 DEF Consistent, Waiting
    <3> QED
      BY <1>1, <3>1, <3>2
  <2>2. \A i, j \in DOMAIN us : us[i].node = us[j].node => i = j
    <3> SUFFICES ASSUME NEW i \in DOMAIN us, NEW j \in DOMAIN us, us[i].node = us[j].node PROVE i = j
      OBVIOUS
    <3>1. CASE i \in DOMAIN ts /\ j \in DOMAIN ts
      BY <1>1, <3>1 DEF Consistent, Waiting
    <3>2. CASE i = n \/ j = n
      BY <1>1, <1>5, <3>2
    <3> QED
      BY <1>1, <3>1, <3>2
  <2> QED
    BY <1>1, <2>1, <2>2 DEF Waiting
<1>7. \A j \in DOMAIN us : us[j].node = y \/ \E i \in DOMAIN ts : us[j].node = ts[i].node
  BY <1>1, <1>5
<1>8. Consistent(p, ps, us, unseen)
  BY <1>6 DEF Consistent
<1> QED
  BY <1>7, <1>8 DEF us

LEMMA PassKeeps ==
  ASSUME NEW w, NEW unseen, Work(w, unseen), NEW x, NEW k, NEW K, k \notin K,
         Inputs(w, x, unseen, K \cup {k}), NEW mask, mask \subseteq DOMAIN w.preds,
         NEW u, u = Pass(w, x, k, mask)
  PROVE  Work(u, unseen) /\ Inputs(u, x, unseen, K) /\ DOMAIN u.preds = DOMAIN w.preds
<1> DEFINE y == w.plan[x].ins[k]
<1>1. /\ x \in DOMAIN w.plan \ unseen /\ k \in DOMAIN w.plan[x].ins
      /\ w.plan[y].op = "buffer" \/ (y \in unseen /\ \A j \in DOMAIN w.tasks : w.tasks[j].node # y)
      /\ K \subseteq DOMAIN w.plan[x].ins
  BY DEF Inputs
<1>2. Formed(w.plan)
  BY DEF Work, Consistent
<1>3. CASE w.plan[y].op = "buffer"
  <2> DEFINE b == [w EXCEPT !.edge = <<x, k>>]
  <2>1. /\ b.plan = w.plan /\ b.preds = w.preds /\ b.tasks = w.tasks /\ b.edge = <<x, k>> /\ IsWork(b)
    BY DEF Work, IsWork
  <2>2. u = FlushAll(b, mask)
    BY <1>3 DEF Pass
  <2> HIDE DEF b
  <2>3. Work(b, unseen)
    BY <2>1 DEF Work
  <2>4. OnEdge(b, x, unseen, K)
    <3>1. <<x, k>> \in Edges(w.plan)
      BY <1>1 DEF Edges
    <3>2. \A i \in K : <<x, k>> # <<x, i>>
      OBVIOUS
    <3> QED
      BY <1>1, <2>1, <3>1, <3>2 DEF OnEdge
  <2>5. Scanned(b, u, unseen, x, K)
    BY <1>1, <2>1, <2>2, <2>3, <2>4, FlushAllKeeps
  <2>6. Inputs(b, x, unseen, K)
    BY <2>1 DEF Inputs
  <2>7. Work(u, unseen) /\ Later(b, u, x, K)
    BY <2>5 DEF Scanned
  <2>8. Inputs(u, x, unseen, K)
    BY <1>2, <2>1, <2>6, <2>7, InputsLater
  <2> QED
    BY <2>1, <2>7, <2>8 DEF Later
<1>4. CASE w.plan[y].op # "buffer"
  <2>1. u = [w EXCEPT !.tasks = Append(@, [node |-> y, mask |-> mask])]
    BY <1>4 DEF Pass
  <2>2. /\ u.plan = w.plan /\ u.preds = w.preds /\ u.edge = w.edge /\ IsWork(u)
        /\ u.tasks = Append(w.tasks, [node |-> y, mask |-> mask])
    BY <2>1 DEF Work, IsWork
  <2>3. y \in unseen /\ \A j \in DOMAIN w.tasks : w.tasks[j].node # y
    BY <1>1, <1>4
  <2>4. /\ Consistent(w.plan, w.preds, u.tasks, unseen)
        /\ \A j \in DOMAIN u.tasks : u.tasks[j].node = y \/ \E i \in DOMAIN w.tasks : u.tasks[j].node = w.tasks[i].node
    <3>1. Consistent(w.plan, w.preds, w.tasks, unseen)
      BY DEF Work
    <3> QED
      BY <1>1, <1>4, <2>2, <2>3, <3>1, TaskAdded
  <2>5. Work(u, unseen)
    BY <2>2, <2>4 DEF Work
  <2>6. \A i \in K : w.plan[x].ins[i] # y
    <3> SUFFICES ASSUME NEW i \in K, w.plan[x].ins[i] = y PROVE FALSE
      OBVIOUS
    <3>1. <<x, i>> \in Edges(w.plan) /\ <<x, k>> \in Edges(w.plan)
      BY <1>1 DEF Edges
    <3>2. Source(w.plan, <<x, i>>) = y /\ Source(w.plan, <<x, k>>) = y
      BY DEF Source
    <3>3. <<x, i>> = <<x, k>>
      BY <1>4, <3>1, <3>2 DEF Work, Consistent, OneConsumer
    <3> QED
      BY <3>3
  <2>7. Inputs(u, x, unseen, K)
    <3> SUFFICES ASSUME NEW i \in K
                 PROVE  \/ w.plan[w.plan[x].ins[i]].op = "buffer"
                        \/ /\ w.plan[x].ins[i] \in unseen
                           /\ \A j \in DOMAIN u.tasks : u.tasks[j].node # w.plan[x].ins[i]
      BY <1>1, <2>2 DEF Inputs
    <3>1. \/ w.plan[w.plan[x].ins[i]].op = "buffer"
          \/ /\ w.plan[x].ins[i] \in unseen
             /\ \A j \in DOMAIN w.tasks : w.tasks[j].node # w.plan[x].ins[i]
      BY DEF Inputs
    <3> QED
      BY <2>4, <2>6, <3>1
  <2> QED
    BY <2>2, <2>5, <2>7
<1> QED
  BY <1>3, <1>4

-----------------------------------------------------------------------------
(* The handlers *)

LEMMA InputsOf ==
  ASSUME NEW p, Formed(p), NEW x \in DOMAIN p
  PROVE  /\ p[x].op \in Unary => DOMAIN p[x].ins = {1}
         /\ p[x].op \in Binary => DOMAIN p[x].ins = {1, 2}
<1>1. p[x].ins \in Seq(DOMAIN p)
  BY DEF Formed
<1>2. DOMAIN p[x].ins = 1 .. Len(p[x].ins)
  BY <1>1, IsSeqIf
<1>3. ASSUME p[x].op \in Unary PROVE DOMAIN p[x].ins = {1}
  <2>1. Len(p[x].ins) = 1
    BY <1>3 DEF Formed
  <2>2. 1 .. 1 = {1}
    OBVIOUS
  <2> QED
    BY <1>2, <2>1, <2>2
<1>4. ASSUME p[x].op \in Binary PROVE DOMAIN p[x].ins = {1, 2}
  <2>1. Len(p[x].ins) = 2
    BY <1>4 DEF Formed
  <2>2. 1 .. 2 = {1, 2}
    OBVIOUS
  <2> QED
    BY <1>2, <2>1, <2>2
<1> QED
  BY <1>3, <1>4

\* A handler begins: x has been popped with its mask.
Visiting(w, x, unseen, mask) ==
  /\ Work(w, unseen) /\ x \in DOMAIN w.plan /\ Inputs(w, x, unseen, DOMAIN w.plan[x].ins)
  /\ mask \subseteq DOMAIN w.preds
  /\ mask # {} => w.edge \in Edges(w.plan) /\ w.edge[1] \notin unseen \cup {x}
  /\ \A i \in DOMAIN w.preds : w.preds[i].home # x

LEMMA BeforeInputs ==
  ASSUME NEW w, NEW x, NEW unseen, NEW mask, Visiting(w, x, unseen, mask), NEW K, NEW m, m \subseteq mask
  PROVE  m # {} => OnEdge(w, x, unseen, K)
<1>1. m # {} => w.edge \in Edges(w.plan) /\ w.edge[1] \notin unseen /\ w.edge[1] # x
  BY DEF Visiting
<1>2. w.edge[1] # x => \A k \in K : w.edge # <<x, k>>
  OBVIOUS
<1> QED
  BY <1>1, <1>2 DEF OnEdge

\* What a scan keeps, in the words the next step asks for.
LEMMA AfterScan ==
  ASSUME NEW w, NEW u, NEW unseen, NEW x, NEW K, Formed(w.plan), Inputs(w, x, unseen, K), Scanned(w, u, unseen, x, K)
  PROVE  Work(u, unseen) /\ Inputs(u, x, unseen, K) /\ DOMAIN u.preds = DOMAIN w.preds /\ x \in DOMAIN u.plan
<1>1. Work(u, unseen) /\ Later(w, u, x, K)
  BY DEF Scanned
<1>2. Inputs(u, x, unseen, K)
  BY <1>1, InputsLater
<1> QED
  BY <1>1, <1>2 DEF Later, Inputs

LEMMA FlushThenPassKeeps ==
  ASSUME NEW w, NEW x, NEW unseen, NEW mask, Visiting(w, x, unseen, mask), w.plan[x].op \in Unary,
         NEW stopped, stopped \subseteq mask
  PROVE  Work(FlushThenPass(w, x, mask, stopped), unseen)
<1> DEFINE a == FlushAll(w, stopped)
<1>1. Formed(w.plan) /\ x \in DOMAIN w.plan /\ DOMAIN w.plan[x].ins = {1}
  BY InputsOf DEF Visiting, Work, Consistent
<1>2. Scanned(w, a, unseen, x, {1})
  <2>1. stopped # {} => OnEdge(w, x, unseen, {1})
    BY BeforeInputs
  <2>2. stopped \subseteq DOMAIN w.preds
    BY DEF Visiting
  <2> HIDE DEF a
  <2> QED
    BY <1>1, <2>1, <2>2, FlushAllKeeps DEF Visiting, a
<1> HIDE DEF a
<1>3. Work(a, unseen) /\ Inputs(a, x, unseen, {1}) /\ DOMAIN a.preds = DOMAIN w.preds
  BY <1>1, <1>2, AfterScan DEF Visiting
<1>4. Inputs(a, x, unseen, {} \cup {1}) /\ mask \ stopped \subseteq DOMAIN a.preds
  BY <1>3 DEF Visiting
<1>5. Work(Pass(a, x, 1, mask \ stopped), unseen)
  BY <1>3, <1>4, PassKeeps
<1> QED
  BY <1>5 DEF FlushThenPass, a

LEMMA CopyThenPassKeeps ==
  ASSUME NEW w, NEW x, NEW unseen, NEW mask, Visiting(w, x, unseen, mask), w.plan[x].op \in Unary
  PROVE  Work(HandleDistinctLike(w, x, mask), unseen)
<1> DEFINE copied == UsingNonKey(w, x, mask)
           a == Each(FlushCopy, w, copied)
<1>1. Formed(w.plan) /\ x \in DOMAIN w.plan /\ DOMAIN w.plan[x].ins = {1}
  BY InputsOf DEF Visiting, Work, Consistent
<1>2. copied \subseteq mask
  BY DEF UsingNonKey
<1> HIDE DEF copied
<1>3. Scanned(w, a, unseen, x, {1})
  <2>1. copied # {} => OnEdge(w, x, unseen, {1})
    BY <1>2, BeforeInputs
  <2>2. copied \subseteq DOMAIN w.preds
    BY <1>2 DEF Visiting
  <2> HIDE DEF a
  <2> QED
    BY <1>1, <2>1, <2>2, FlushCopiesKeeps DEF Visiting, a
<1>4. HandleDistinctLike(w, x, mask) = Pass(a, x, 1, mask)
  BY DEF HandleDistinctLike, copied
<1> HIDE DEF a
<1>5. Work(a, unseen) /\ Inputs(a, x, unseen, {1}) /\ DOMAIN a.preds = DOMAIN w.preds
  BY <1>1, <1>3, AfterScan DEF Visiting
<1>6. Inputs(a, x, unseen, {} \cup {1}) /\ mask \subseteq DOMAIN a.preds
  BY <1>5 DEF Visiting
<1>7. Work(Pass(a, x, 1, mask), unseen)
  BY <1>5, <1>6, PassKeeps
<1> QED
  BY <1>4, <1>7

LEMMA PassBothKeeps ==
  ASSUME NEW w, NEW x, NEW unseen, Work(w, unseen), Inputs(w, x, unseen, {1, 2}),
         NEW left, left \subseteq DOMAIN w.preds, NEW right, right \subseteq DOMAIN w.preds
  PROVE  Work(PassBoth(w, x, left, right), unseen)
<1> DEFINE a == Pass(w, x, 1, left)
<1>1. Inputs(w, x, unseen, {2} \cup {1}) /\ 1 \notin {2}
  <2>1. {2} \cup {1} = {1, 2}
    OBVIOUS
  <2> QED
    BY <2>1
<1>2. Work(a, unseen) /\ Inputs(a, x, unseen, {2}) /\ DOMAIN a.preds = DOMAIN w.preds
  BY <1>1, PassKeeps
<1> HIDE DEF a
<1>3. Inputs(a, x, unseen, {} \cup {2})
  BY <1>2
<1>4. Work(Pass(a, x, 2, right), unseen)
  BY <1>2, <1>3, PassKeeps
<1> QED
  BY <1>4 DEF PassBoth, a

LEMMA FlushThenBothKeeps ==
  ASSUME NEW w, NEW x, NEW unseen, NEW mask, Visiting(w, x, unseen, mask), w.plan[x].op \in Binary,
         NEW stopped, stopped \subseteq mask, NEW left, left \subseteq mask, NEW right, right \subseteq mask
  PROVE  Work(PassBoth(FlushAll(w, stopped), x, left, right), unseen)
<1> DEFINE a == FlushAll(w, stopped)
<1>1. Formed(w.plan) /\ x \in DOMAIN w.plan /\ DOMAIN w.plan[x].ins = {1, 2}
  BY InputsOf DEF Visiting, Work, Consistent
<1>2. Scanned(w, a, unseen, x, {1, 2})
  <2>1. stopped # {} => OnEdge(w, x, unseen, {1, 2})
    BY BeforeInputs
  <2>2. stopped \subseteq DOMAIN w.preds
    BY DEF Visiting
  <2> HIDE DEF a
  <2> QED
    BY <1>1, <2>1, <2>2, FlushAllKeeps DEF Visiting, a
<1> HIDE DEF a
<1>3. Work(a, unseen) /\ Inputs(a, x, unseen, {1, 2}) /\ DOMAIN a.preds = DOMAIN w.preds
  BY <1>1, <1>2, AfterScan DEF Visiting
<1>4. left \subseteq DOMAIN a.preds /\ right \subseteq DOMAIN a.preds
  BY <1>3 DEF Visiting
<1>5. Work(PassBoth(a, x, left, right), unseen)
  BY <1>3, <1>4, PassBothKeeps
<1> QED
  BY <1>5 DEF a


LEMMA AnalyzedIs ==
  ASSUME NEW p, NEW x \in DOMAIN p, IsSeq(p[x].cond), NEW new, new = AnalyzePredicates(p, x)
  PROVE  /\ IsSeq(new) /\ Len(new) = Len(p[x].cond)
         /\ \A k \in DOMAIN new : /\ {"home", "slot", "uses", "count"} \subseteq DOMAIN new[k]
                                  /\ new[k].home = x /\ RefersTo(p, new[k])
         /\ \A k, j \in DOMAIN new : new[k].slot = 0 => k = j
<1> DEFINE cond == p[x].cond
           Info(slot, leaf) == [home |-> x, slot |-> slot, uses |-> UsesOf(leaf), count |-> 1]
<1>1. Len(cond) \in Nat /\ DOMAIN cond = 1 .. Len(cond)
  BY IsSeqIf DEF IsSeq
<1>2. CASE Len(cond) = 1
  <2>1. new = <<Info(0, cond[1])>>
    BY <1>2 DEF AnalyzePredicates
  <2>2. DOMAIN new = {1} /\ Len(new) = 1 /\ new \in Seq({new[1]}) /\ new[1] = Info(0, cond[1])
    BY <2>1
  <2>3. IsSeq(new)
    BY <2>2, IsSeqIf
  <2>4. /\ {"home", "slot", "uses", "count"} \subseteq DOMAIN new[1]
        /\ new[1].home = x /\ new[1].slot = 0
    BY <2>2
  <2> QED
    BY <1>2, <2>2, <2>3, <2>4 DEF RefersTo
<1>3. CASE Len(cond) # 1
  <2>1. new = [k \in DOMAIN cond |-> Info(k, cond[k])]
    BY <1>3 DEF AnalyzePredicates
  <2>2. DOMAIN new = DOMAIN cond /\ new = [k \in DOMAIN cond |-> new[k]] /\ \A k \in DOMAIN cond : new[k] = Info(k, cond[k])
    BY <2>1
  <2>3. IsSeq(new) /\ Len(new) = Len(cond)
    BY <2>2, SameDomain
  <2>4. \A k \in DOMAIN new : /\ {"home", "slot", "uses", "count"} \subseteq DOMAIN new[k]
                              /\ new[k].home = x /\ new[k].slot = k
    <3> SUFFICES ASSUME NEW k \in DOMAIN new
                 PROVE  /\ {"home", "slot", "uses", "count"} \subseteq DOMAIN new[k]
                        /\ new[k].home = x /\ new[k].slot = k
      OBVIOUS
    <3>1. new[k] = Info(k, cond[k])
      BY <2>2
    <3> QED
      BY ONLY <3>1
  <2>5. ASSUME NEW k \in DOMAIN new PROVE RefersTo(p, new[k]) /\ new[k].slot # 0
    <3>1. k \in DOMAIN cond /\ new[k].slot = k /\ new[k].home = x
      BY <2>2, <2>4
    <3>2. k # 0
      BY ONLY <1>1, <3>1
    <3> QED
      BY <3>1, <3>2 DEF RefersTo
  <2> QED
    BY <2>3, <2>4, <2>5
<1> QED
  BY <1>2, <1>3

\* A filter or a join that is visited gets its own predicates.
WithOwn(w, x, unseen, new, a) ==
  /\ Work(a, unseen) /\ Inputs(a, x, unseen, DOMAIN w.plan[x].ins) /\ a.plan = w.plan
  /\ DOMAIN w.preds \subseteq DOMAIN a.preds
  /\ Len(a.preds) = Len(w.preds) + Len(new) /\ DOMAIN a.preds = 1 .. Len(w.preds) + Len(new)
  /\ (Len(w.preds) + 1 .. Len(w.preds) + Len(new)) \subseteq DOMAIN a.preds

LEMMA AnalyzedKeeps ==
  ASSUME NEW w, NEW x, NEW unseen, NEW mask, Visiting(w, x, unseen, mask),
         NEW new, new = AnalyzePredicates(w.plan, x), NEW a, a = [w EXCEPT !.preds = @ \o new]
  PROVE  WithOwn(w, x, unseen, new, a)
<1>1. /\ a.plan = w.plan /\ a.tasks = w.tasks /\ a.edge = w.edge /\ a.preds = w.preds \o new /\ IsWork(a)
  BY DEF Visiting, Work, IsWork
<1>2. /\ Consistent(w.plan, w.preds, w.tasks, unseen) /\ x \in DOMAIN w.plan \ unseen /\ IsSeq(w.preds)
      /\ IsSeq(w.plan[x].cond)
  BY DEF Visiting, Inputs, Work, Consistent, References, Formed
<1>3. /\ IsSeq(new) /\ Len(new) = Len(w.plan[x].cond)
      /\ \A k \in DOMAIN new : /\ {"home", "slot", "uses", "count"} \subseteq DOMAIN new[k]
                               /\ new[k].home = x /\ RefersTo(w.plan, new[k])
      /\ \A k, j \in DOMAIN new : new[k].slot = 0 => k = j
  BY <1>2, AnalyzedIs
<1>5. /\ IsSeq(a.preds) /\ Len(a.preds) = Len(w.preds) + Len(new) /\ DOMAIN a.preds = 1 .. Len(w.preds) + Len(new)
      /\ DOMAIN w.preds \subseteq DOMAIN a.preds /\ (\A i \in DOMAIN w.preds : a.preds[i] = w.preds[i])
      /\ (Len(w.preds) + 1 .. Len(w.preds) + Len(new)) \subseteq DOMAIN a.preds
      /\ \A i \in DOMAIN a.preds \ DOMAIN w.preds : \E k \in DOMAIN new : i = Len(w.preds) + k /\ a.preds[i] = new[k]
  <2>1. JoinOf(w.preds, new, a.preds)
    BY <1>1, <1>2, <1>3, JoinedAt
  <2> QED
    BY ONLY <2>1 DEF JoinOf
<1>6. \A i \in DOMAIN a.preds \ DOMAIN w.preds : \E k \in DOMAIN new : i = Len(w.preds) + k /\ a.preds[i] = new[k]
  BY <1>5
<1>7. \A i \in DOMAIN w.preds : w.preds[i].home # x
  BY DEF Visiting
<1>8. References(a.plan, a.preds, unseen)
  <2>1. ASSUME NEW i \in DOMAIN a.preds
        PROVE  /\ {"home", "slot", "uses", "count"} \subseteq DOMAIN a.preds[i]
               /\ a.preds[i].home \in DOMAIN a.plan \ unseen
               /\ RefersTo(a.plan, a.preds[i])
    <3>1. CASE i \in DOMAIN w.preds
      BY <1>1, <1>2, <1>5, <3>1 DEF Consistent, References
    <3>2. CASE i \notin DOMAIN w.preds
      <4>1. PICK k \in DOMAIN new : a.preds[i] = new[k]
        BY <1>6, <3>2
      <4> QED
        BY <1>1, <1>2, <1>3, <4>1
    <3> QED
      BY <3>1, <3>2
  <2>2. ASSUME NEW i \in DOMAIN a.preds, NEW j \in DOMAIN a.preds,
               a.preds[i].home = a.preds[j].home, a.preds[i].slot = 0
        PROVE  i = j
    <3>1. \A k \in DOMAIN a.preds : k \notin DOMAIN w.preds => a.preds[k].home = x
      BY ONLY <1>3, <1>6
    <3>2. \A k \in DOMAIN w.preds : a.preds[k].home # x
      BY <1>5, <1>7
    <3>3. CASE i \in DOMAIN w.preds
      <4>1. j \in DOMAIN w.preds
        BY <2>2, <3>1, <3>2, <3>3
      <4> QED
        BY <1>2, <1>5, <2>2, <3>3, <4>1 DEF Consistent, References
    <3>4. CASE i \notin DOMAIN w.preds
      <4>1. j \notin DOMAIN w.preds
        BY <2>2, <3>1, <3>2, <3>4
      <4>2. PICK k \in DOMAIN new : i = Len(w.preds) + k /\ a.preds[i] = new[k]
        BY <1>6, <3>4
      <4>3. PICK m \in DOMAIN new : j = Len(w.preds) + m /\ a.preds[j] = new[m]
        BY <1>6, <4>1
      <4>4. k = m
        BY <1>3, <2>2, <4>2
      <4> QED
        BY <4>2, <4>3, <4>4
    <3> QED
      BY <3>3, <3>4
  <2> QED
    BY <1>5, <2>1, <2>2 DEF References
<1>9. DOMAIN w.preds \subseteq DOMAIN a.preds /\ (Len(w.preds) + 1 .. Len(w.preds) + Len(new)) \subseteq DOMAIN a.preds
  BY ONLY <1>5
<1>10. Waiting(a.plan, a.preds, a.tasks, unseen)
  BY <1>1, <1>2, <1>9 DEF Consistent, Waiting
<1>11. Work(a, unseen)
  <2>1. Consistent(a.plan, a.preds, a.tasks, unseen)
    BY <1>1, <1>2, <1>8, <1>10 DEF Consistent
  <2> QED
    BY <1>1, <2>1 DEF Visiting, Work
<1>12. Inputs(a, x, unseen, DOMAIN w.plan[x].ins)
  BY <1>1 DEF Visiting, Inputs
<1> QED
  BY <1>1, <1>5, <1>9, <1>11, <1>12 DEF WithOwn

LEMMA HandleFilterKeeps ==
  ASSUME NEW w, NEW x, NEW unseen, NEW mask, Visiting(w, x, unseen, mask), w.plan[x].op \in Unary
  PROVE  Work(HandleFilter(w, x, mask), unseen)
<1> DEFINE new == AnalyzePredicates(w.plan, x)
           a == [w EXCEPT !.preds = @ \o new]
           all == mask \cup (Len(w.preds) + 1 .. Len(w.preds) + Len(new))
<1>1. Formed(w.plan) /\ x \in DOMAIN w.plan /\ DOMAIN w.plan[x].ins = {1}
  BY InputsOf DEF Visiting, Work, Consistent
<1>2. HandleFilter(w, x, mask) = Pass(a, x, 1, all)
  BY DEF HandleFilter
<1> HIDE DEF new
<1>3. /\ Work(a, unseen) /\ Inputs(a, x, unseen, {1}) /\ DOMAIN w.preds \subseteq DOMAIN a.preds
      /\ (Len(w.preds) + 1 .. Len(w.preds) + Len(new)) \subseteq DOMAIN a.preds
  <2>1. WithOwn(w, x, unseen, new, a)
    BY AnalyzedKeeps, Zenon DEF new
  <2> QED
    BY ONLY <1>1, <2>1 DEF WithOwn
<1>4. Inputs(a, x, unseen, {} \cup {1}) /\ all \subseteq DOMAIN a.preds
  BY <1>3 DEF Visiting
<1> HIDE DEF a, all
<1>5. Work(Pass(a, x, 1, all), unseen)
  BY <1>3, <1>4, PassKeeps
<1> QED
  BY <1>2, <1>5

LEMMA HandleInnerKeeps ==
  ASSUME NEW w, NEW x, NEW unseen, NEW mask, Visiting(w, x, unseen, mask), w.plan[x].op \in Binary
  PROVE  Work(HandleInner(w, x, mask), unseen)
<1> DEFINE new == AnalyzePredicates(w.plan, x)
           a == [w EXCEPT !.preds = @ \o new]
           own == Len(w.preds) + 1 .. Len(a.preds)
           all == mask \cup own
           left == InputMask(w.plan, a.preds, all, w.plan[x].ins[1])
           right == InputMask(w.plan, a.preds, all, w.plan[x].ins[2])
           stay == all \ (left \cup right)
           added == Each(AddCount, a, left \cap right)
           counted == Each(Leave, added, stay \cap own)
           merged == MergePredicates(counted, x, stay \ own)
           Ready(u) == /\ Work(u, unseen) /\ Inputs(u, x, unseen, {1, 2}) /\ DOMAIN u.preds = DOMAIN a.preds
                       /\ x \in DOMAIN u.plan
<1>1. Formed(w.plan) /\ x \in DOMAIN w.plan /\ DOMAIN w.plan[x].ins = {1, 2}
  BY InputsOf DEF Visiting, Work, Consistent
<1>2. HandleInner(w, x, mask) = PassBoth(merged, x, left, right)
  BY DEF HandleInner
<1> HIDE DEF new
<1>3. /\ Work(a, unseen) /\ Inputs(a, x, unseen, {1, 2}) /\ a.plan = w.plan /\ DOMAIN w.preds \subseteq DOMAIN a.preds
      /\ own \subseteq DOMAIN a.preds
  <2>1. WithOwn(w, x, unseen, new, a)
    BY AnalyzedKeeps, Zenon DEF new
  <2> HIDE DEF a
  <2> QED
    BY <1>1, <2>1 DEF WithOwn
<1>4. Ready(a)
  BY <1>1, <1>3
<1>5. left \subseteq DOMAIN a.preds /\ right \subseteq DOMAIN a.preds /\ stay \subseteq DOMAIN a.preds
  <2>1. all \subseteq DOMAIN a.preds
    BY <1>3 DEF Visiting
  <2> HIDE DEF all, a
  <2> QED
    BY <2>1 DEF InputMask
<1> HIDE DEF a, left, right, stay, own
<1>6. ASSUME NEW u, Ready(u), NEW v, Scanned(u, v, unseen, x, {1, 2}) PROVE Ready(v)
  <2>1. Formed(u.plan)
    BY <1>6 DEF Work, Consistent
  <2> QED
    BY <1>6, <2>1, AfterScan
<1>7. \A u : Ready(u) => {1, 2} \subseteq DOMAIN u.plan[x].ins
  BY DEF Inputs
<1>8. Ready(added)
  <2>1. left \cap right \subseteq DOMAIN a.preds
    BY <1>5
  <2>2. Scanned(a, added, unseen, x, {1, 2})
    BY <1>4, <1>7, <2>1, AddCountsKeeps
  <2> HIDE DEF Ready, added
  <2> QED
    BY <1>4, <1>6, <2>2
<1>9. Ready(counted)
  <2> HIDE DEF added
  <2>1. stay \cap own \subseteq DOMAIN added.preds
    BY <1>5, <1>8
  <2>2. Scanned(added, counted, unseen, x, {1, 2})
    BY <1>7, <1>8, <2>1, LeaveKeeps
  <2> HIDE DEF Ready, counted
  <2> QED
    BY <1>6, <1>8, <2>2
<1>10. Ready(merged)
  <2> HIDE DEF counted
  <2>1. stay \ own \subseteq DOMAIN counted.preds
    BY <1>5, <1>9
  <2>2. Scanned(counted, merged, unseen, x, {1, 2})
    BY <1>7, <1>9, <2>1, MergePredicatesKeeps
  <2> HIDE DEF Ready, merged
  <2> QED
    BY <1>6, <1>9, <2>2
<1> HIDE DEF merged
<1>11. Work(PassBoth(merged, x, left, right), unseen)
  BY <1>5, <1>10, PassBothKeeps
<1> QED
  BY <1>2, <1>11

\* Every handler leaves a consistent record, and the terms of the plan it was given.
LEMMA HandleSourceKeeps ==
  ASSUME NEW w, NEW x, NEW unseen, NEW mask, Visiting(w, x, unseen, mask)
  PROVE  Work(FlushAll(w, mask), unseen)
<1> DEFINE a == FlushAll(w, mask)
<1>1. mask # {} => OnEdge(w, x, unseen, {})
  BY BeforeInputs
<1>2. Scanned(w, a, unseen, x, {})
  <2> HIDE DEF a
  <2> QED
    BY <1>1, FlushAllKeeps DEF Visiting, a
<1> QED
  BY <1>2 DEF Scanned

LEMMA HandleProjectKeeps ==
  ASSUME NEW w, NEW x, NEW unseen, NEW mask, Visiting(w, x, unseen, mask), w.plan[x].op \in Unary
  PROVE  Work(HandleProject(w, x, mask), unseen)
<1>1. UsingDeclared(w, x, mask) \subseteq mask
  BY DEF UsingDeclared
<1> QED
  BY <1>1, FlushThenPassKeeps DEF HandleProject

LEMMA HandleAggregateKeeps ==
  ASSUME NEW w, NEW x, NEW unseen, NEW mask, Visiting(w, x, unseen, mask), w.plan[x].op \in Unary
  PROVE  Work(HandleAggregate(w, x, mask), unseen)
<1>1. UsingNonKey(w, x, mask) \subseteq mask
  BY DEF UsingNonKey
<1> QED
  BY <1>1, FlushThenPassKeeps DEF HandleAggregate

LEMMA HandleStopKeeps ==
  ASSUME NEW w, NEW x, NEW unseen, NEW mask, Visiting(w, x, unseen, mask), w.plan[x].op \in Unary
  PROVE  Work(HandleStop(w, x, mask), unseen)
BY FlushThenPassKeeps DEF HandleStop

LEMMA HandleSinkKeeps ==
  ASSUME NEW w, NEW x, NEW unseen, NEW mask, Visiting(w, x, unseen, mask), w.plan[x].op \in Unary
  PROVE  Work(HandleSink(w, x, mask), unseen)
<1>1. DOMAIN w.plan[x].ins = {1}
  BY InputsOf DEF Visiting, Work, Consistent
<1>2. Inputs(w, x, unseen, {} \cup {1})
  BY <1>1 DEF Visiting
<1>3. Work(Pass(w, x, 1, mask), unseen)
  BY <1>2, PassKeeps DEF Visiting
<1> QED
  BY <1>3 DEF HandleSink

LEMMA HandleStopBothKeeps ==
  ASSUME NEW w, NEW x, NEW unseen, NEW mask, Visiting(w, x, unseen, mask), w.plan[x].op \in Binary
  PROVE  Work(HandleStopBoth(w, x, mask), unseen)
<1>1. {} \subseteq mask /\ mask \subseteq mask
  OBVIOUS
<1> QED
  BY <1>1, FlushThenBothKeeps DEF HandleStopBoth

LEMMA HandleLeftOnlyKeeps ==
  ASSUME NEW w, NEW x, NEW unseen, NEW mask, Visiting(w, x, unseen, mask), w.plan[x].op \in Binary
  PROVE  Work(HandleLeftOnly(w, x, mask), unseen)
<1>1. DOMAIN w.plan[x].ins = {1, 2}
  BY InputsOf DEF Visiting, Work, Consistent
<1>2. Inputs(w, x, unseen, {1, 2}) /\ Work(w, unseen) /\ mask \subseteq DOMAIN w.preds /\ {} \subseteq DOMAIN w.preds
  BY <1>1 DEF Visiting
<1>3. Work(PassBoth(w, x, mask, {}), unseen)
  BY <1>2, PassBothKeeps
<1> QED
  BY <1>3 DEF HandleLeftOnly

LEMMA HandleLeftOuterKeeps ==
  ASSUME NEW w, NEW x, NEW unseen, NEW mask, Visiting(w, x, unseen, mask), w.plan[x].op \in Binary
  PROVE  Work(HandleLeftOuter(w, x, mask), unseen)
<1> DEFINE left == InputMask(w.plan, w.preds, mask, w.plan[x].ins[1])
<1>1. left \subseteq mask
  BY DEF InputMask
<1>2. HandleLeftOuter(w, x, mask) = PassBoth(FlushAll(w, mask \ left), x, left, {})
  BY DEF HandleLeftOuter
<1> HIDE DEF left
<1>3. mask \ left \subseteq mask /\ {} \subseteq mask
  OBVIOUS
<1>4. Work(PassBoth(FlushAll(w, mask \ left), x, left, {}), unseen)
  BY <1>1, <1>3, FlushThenBothKeeps
<1> QED
  BY <1>2, <1>4

-----------------------------------------------------------------------------
(* The steps of the pass *)

LEMMA PopIs ==
  ASSUME NEW ts, IsSeq(ts), ts # <<>>
  PROVE  /\ Len(ts) \in DOMAIN ts /\ Last(ts) = ts[Len(ts)]
         /\ IsSeq(Front(ts)) /\ DOMAIN Front(ts) = DOMAIN ts \ {Len(ts)}
         /\ \A j \in DOMAIN Front(ts) : Front(ts)[j] = ts[j]
<1> DEFINE l == Len(ts)
<1>1. ts \in Seq(Range(ts)) /\ l \in Nat /\ DOMAIN ts = 1 .. l
  BY IsSeqIf DEF IsSeq
<1>2. l # 0
  BY <1>1, EmptySeq
<1>3. 1 \in 1 .. l + 1 /\ l - 1 \in 0 .. l
  BY ONLY <1>1, <1>2
<1>4. /\ SubSeq(ts, 1, l - 1) \in Seq(Range(ts))
      /\ Len(SubSeq(ts, 1, l - 1)) = l - 1
      /\ \A i \in 1 .. l - 1 : SubSeq(ts, 1, l - 1)[i] = ts[i]
  BY <1>1, <1>3
<1>5. DOMAIN SubSeq(ts, 1, l - 1) = 1 .. l - 1 /\ IsSeq(SubSeq(ts, 1, l - 1))
  BY <1>4, IsSeqIf
<1>6. 1 .. l - 1 = (1 .. l) \ {l} /\ l \in 1 .. l
  BY ONLY <1>1, <1>2
<1> QED
  BY <1>1, <1>4, <1>5, <1>6 DEF Front, Last

\* A task that is popped finds everything as a handler expects it.
LEMMA PoppedIsVisiting ==
  ASSUME status = "running", tasks # <<>>, NoTermLost,
         NEW seen, Consistent(plan, preds, tasks, seen), NEW x, x = Last(tasks).node, plan[x].op # "buffer"
  PROVE  Visiting(Popped(x), x, seen \ {x}, Last(tasks).mask)
<1> DEFINE w == Popped(x)
           l == Len(tasks)
           unseen == seen \ {x}
<1>1. /\ w.plan = plan /\ w.preds = preds /\ w.tasks = Front(tasks) /\ IsWork(w)
      /\ w.edge = IF x \in Bottoms(plan) THEN <<0, 0>> ELSE OutputOf(plan, x)
  BY DEF Popped, IsWork
<1>2. IsSeq(tasks)
  BY DEF Consistent, Waiting
<1>3. /\ l \in DOMAIN tasks /\ Last(tasks) = tasks[l]
      /\ IsSeq(Front(tasks)) /\ DOMAIN Front(tasks) = DOMAIN tasks \ {l}
      /\ \A j \in DOMAIN Front(tasks) : Front(tasks)[j] = tasks[j]
  BY <1>2, PopIs
<1> HIDE DEF w, l
<1>4. /\ x \in seen /\ Last(tasks).mask \subseteq DOMAIN preds
      /\ \A e \in Edges(plan) : Source(plan, e) = x => e[1] \notin seen
      /\ Last(tasks).mask # {} => x \notin Bottoms(plan)
      /\ \A j \in DOMAIN Front(tasks) : tasks[j].node # x
  BY <1>3 DEF Consistent, Waiting
<1>5. x \in DOMAIN plan /\ unseen \subseteq DOMAIN plan /\ unseen \subseteq seen
  BY <1>4 DEF Consistent, Ahead
<1>6. \A y \in seen : \A k \in DOMAIN plan[y].ins : plan[y].ins[k] # x
  <2> SUFFICES ASSUME NEW y \in seen, NEW k \in DOMAIN plan[y].ins, plan[y].ins[k] = x PROVE FALSE
    OBVIOUS
  <2>1. <<y, k>> \in Edges(plan) /\ Source(plan, <<y, k>>) = x
    BY DEF Edges, Source, Consistent, Ahead
  <2> QED
    BY <1>4, <2>1
<1>7. Ahead(plan, unseen)
  BY <1>5, <1>6 DEF Consistent, Ahead
<1>8. References(plan, preds, unseen)
  BY <1>5 DEF Consistent, References
<1>9. Waiting(plan, preds, Front(tasks), unseen)
  <2>1. \A j \in DOMAIN Front(tasks) : j \in DOMAIN tasks /\ Front(tasks)[j] = tasks[j]
    BY <1>3
  <2> QED
    BY <1>3, <1>4, <1>5, <2>1 DEF Consistent, Waiting
<1>10. Work(w, unseen)
  BY <1>1, <1>7, <1>8, <1>9 DEF Work, Consistent, NoTermLost
<1>11. Inputs(w, x, unseen, DOMAIN w.plan[x].ins)
  <2> SUFFICES ASSUME NEW k \in DOMAIN plan[x].ins, plan[plan[x].ins[k]].op # "buffer"
               PROVE  /\ plan[x].ins[k] \in unseen
                      /\ \A j \in DOMAIN Front(tasks) : Front(tasks)[j].node # plan[x].ins[k]
    BY <1>1, <1>5 DEF Inputs
  <2>1. plan[x].ins[k] \in unseen
    BY <1>4, <1>6 DEF Consistent, Ahead
  <2>2. <<x, k>> \in Edges(plan) /\ Source(plan, <<x, k>>) = plan[x].ins[k]
    BY <1>5 DEF Edges, Source
  <2>3. \A j \in DOMAIN tasks : tasks[j].node # plan[x].ins[k]
    BY <1>4, <2>2 DEF Consistent, Waiting
  <2> QED
    BY <1>3, <2>1, <2>3
<1>12. ASSUME Last(tasks).mask # {}
       PROVE  w.edge \in Edges(plan) /\ w.edge[1] \notin unseen \cup {x}
  <2>1. \E e \in Edges(plan) : Source(plan, e) = x
    BY <1>4, <1>5, <1>12 DEF Bottoms
  <2>2. OutputOf(plan, x) \in Edges(plan) /\ Source(plan, OutputOf(plan, x)) = x
    BY <2>1 DEF OutputOf
  <2>3. w.edge = OutputOf(plan, x)
    BY <1>1, <1>4, <1>12
  <2> QED
    BY <1>4, <2>2, <2>3
<1>13. \A i \in DOMAIN preds : preds[i].home # x
  BY <1>4 DEF Consistent, References
<1> QED
  BY <1>1, <1>4, <1>5, <1>10, <1>11, <1>12, <1>13 DEF Visiting, w


\* What a handler leaves is what the next task finds.
LEMMA AfterHandler ==
  ASSUME NEW after, NEW unseen, Work(after, unseen), plan' = after.plan, preds' = after.preds,
         tasks' = after.tasks, given' = given
  PROVE  PushInv'
BY DEF Work, PushInv, NoTermLost

LEMMA InitConsistent == Init => PushInv
<1> SUFFICES ASSUME Init PROVE PushInv
  OBVIOUS
<1>1. IsPlan(plan) /\ preds = <<>> /\ NoTermLost
  BY PlansAssumption DEF Init, NoTermLost
<1>2. Formed(plan) /\ OneConsumer(plan)
  BY <1>1 DEF IsPlan, Formed, OneConsumer, IsSeq
<1>3. Ahead(plan, DOMAIN plan)
  BY <1>1, <1>2 DEF Ahead, Formed
<1>4. References(plan, preds, DOMAIN plan)
  <2>1. preds \in Seq({}) /\ DOMAIN preds = {}
    BY ONLY <1>1
  <2>2. IsSeq(preds)
    BY <2>1, IsSeqIf
  <2> QED
    BY <2>1, <2>2 DEF References
<1>5. PICK s \in SetToSeqs(Bottoms(plan)) : tasks = [k \in DOMAIN s |-> [node |-> s[k], mask |-> {}]]
  BY DEF Init
<1>6. Cardinality(Bottoms(plan)) \in Nat
  <2>1. DOMAIN plan = 1 .. Len(plan) /\ Len(plan) \in Nat
    BY <1>2, IsSeqIf DEF Formed, IsSeq
  <2>2. IsFiniteSet(1 .. Len(plan))
    BY <2>1, FS_Interval
  <2>3. Bottoms(plan) \in SUBSET (1 .. Len(plan))
    BY <2>1 DEF Bottoms
  <2>4. IsFiniteSet(Bottoms(plan))
    BY <2>2, <2>3, FS_Subset
  <2> QED
    BY <2>4, FS_CardinalityType
<1>7. /\ IsSeq(s) /\ \A k \in DOMAIN s : s[k] \in Bottoms(plan)
      /\ \A i, j \in DOMAIN s : s[i] = s[j] => i = j
  <2>1. s \in [1 .. Cardinality(Bottoms(plan)) -> Bottoms(plan)]
        /\ \A i, j \in 1 .. Cardinality(Bottoms(plan)) : i # j => s[i] # s[j]
    BY DEF SetToSeqs
  <2>2. s \in Seq(Bottoms(plan))
    BY <1>6, <2>1
  <2>3. IsSeq(s)
    BY <2>2, IsSeqIf
  <2> QED
    BY <2>1, <2>3
<1>8. /\ DOMAIN tasks = DOMAIN s /\ IsSeq(tasks)
      /\ \A k \in DOMAIN s : tasks[k] = [node |-> s[k], mask |-> {}]
  <2>1. tasks = [k \in DOMAIN s |-> tasks[k]] /\ \A k \in DOMAIN s : tasks[k] = [node |-> s[k], mask |-> {}]
    BY <1>5
  <2> QED
    BY <1>7, <2>1, SameDomain
<1>9. \A k \in DOMAIN tasks : {"node", "mask"} \subseteq DOMAIN tasks[k] /\ tasks[k].node = s[k] /\ tasks[k].mask = {}
  BY <1>8
<1>10. Waiting(plan, preds, tasks, DOMAIN plan)
  <2>1. \A k \in DOMAIN tasks : tasks[k].node \in DOMAIN plan /\ \A e \in Edges(plan) : Source(plan, e) # tasks[k].node
    BY <1>7, <1>8, <1>9 DEF Bottoms
  <2>2. \A i, j \in DOMAIN tasks : tasks[i].node = tasks[j].node => i = j
    BY <1>7, <1>8, <1>9
  <2> QED
    BY <1>8, <1>9, <2>1, <2>2 DEF Waiting
<1> QED
  BY <1>1, <1>2, <1>3, <1>4, <1>10 DEF PushInv, Consistent

LEMMA NextConsistent == PushInv /\ [Next]_vars => PushInv'
<1> SUFFICES ASSUME PushInv, [Next]_vars PROVE PushInv'
  OBVIOUS
<1>0. /\ {"filter", "project", "identify", "aggregate", "distinct", "limit", "apply", "escape",
          "join_find", "join_scan", "emit", "write"} \subseteq Unary
      /\ {"inner", "semi", "left_outer", "left_outer_at_most_one", "anti", "full_outer",
          "union", "intersection", "difference"} \subseteq Binary
      /\ "buffer" \notin Leaves \cup Binary
  BY DEF Unary, Binary, JoinKinds, Leaves
<1> DEFINE x == Last(tasks).node
           w == Popped(x)
           mask == Last(tasks).mask
<1>1. ASSUME status = "running", tasks # <<>>, plan[x].op # "buffer"
      PROVE  \E unseen : Visiting(w, x, unseen, mask) /\ w.plan = plan
  <2>1. PICK seen : Consistent(plan, preds, tasks, seen)
    BY <1>1 DEF PushInv
  <2>2. NoTermLost
    BY DEF PushInv
  <2>3. Visiting(w, x, seen \ {x}, mask)
    BY <1>1, <2>1, <2>2, PoppedIsVisiting
  <2>4. w.plan = plan
    BY DEF Popped
  <2> QED
    BY <2>3, <2>4
<1>2. CASE VisitSource
  <2> DEFINE after == FlushAll(w, mask)
  <2>1. /\ status = "running" /\ tasks # <<>> /\ plan[x].op # "buffer"
        /\ plan' = after.plan /\ preds' = after.preds /\ tasks' = after.tasks /\ given' = given
    BY <1>0, <1>2 DEF VisitSource, Dispatch, Leaves
  <2> HIDE DEF x, w, mask
  <2>2. PICK unseen : Visiting(w, x, unseen, mask) /\ w.plan = plan
    BY <1>1, <2>1
  <2>3. Work(after, unseen)
    BY <2>1, <2>2, HandleSourceKeeps
  <2> HIDE DEF after
  <2> QED
    BY <2>1, <2>3, AfterHandler
<1>3. CASE VisitProject
  <2> DEFINE after == HandleProject(w, x, mask)
  <2>1. /\ status = "running" /\ tasks # <<>> /\ plan[x].op \in Unary /\ plan[x].op # "buffer"
        /\ plan' = after.plan /\ preds' = after.preds /\ tasks' = after.tasks /\ given' = given
    BY <1>0, <1>3 DEF VisitProject, Dispatch
  <2> HIDE DEF x, w, mask
  <2>2. PICK unseen : Visiting(w, x, unseen, mask) /\ w.plan = plan
    BY <1>1, <2>1
  <2>3. Work(after, unseen)
    BY <2>1, <2>2, HandleProjectKeeps
  <2> HIDE DEF after
  <2> QED
    BY <2>1, <2>3, AfterHandler
<1>4. CASE VisitFilter
  <2> DEFINE after == HandleFilter(w, x, mask)
  <2>1. /\ status = "running" /\ tasks # <<>> /\ plan[x].op \in Unary /\ plan[x].op # "buffer"
        /\ plan' = after.plan /\ preds' = after.preds /\ tasks' = after.tasks /\ given' = given
    BY <1>0, <1>4 DEF VisitFilter, Dispatch
  <2> HIDE DEF x, w, mask
  <2>2. PICK unseen : Visiting(w, x, unseen, mask) /\ w.plan = plan
    BY <1>1, <2>1
  <2>3. Work(after, unseen)
    BY <2>1, <2>2, HandleFilterKeeps
  <2> HIDE DEF after
  <2> QED
    BY <2>1, <2>3, AfterHandler
<1>5. CASE VisitAggregate
  <2> DEFINE after == HandleAggregate(w, x, mask)
  <2>1. /\ status = "running" /\ tasks # <<>> /\ plan[x].op \in Unary /\ plan[x].op # "buffer"
        /\ plan' = after.plan /\ preds' = after.preds /\ tasks' = after.tasks /\ given' = given
    BY <1>0, <1>5 DEF VisitAggregate, Dispatch
  <2> HIDE DEF x, w, mask
  <2>2. PICK unseen : Visiting(w, x, unseen, mask) /\ w.plan = plan
    BY <1>1, <2>1
  <2>3. Work(after, unseen)
    BY <2>1, <2>2, HandleAggregateKeeps
  <2> HIDE DEF after
  <2> QED
    BY <2>1, <2>3, AfterHandler
<1>6. CASE VisitDistinctLike
  <2> DEFINE after == HandleDistinctLike(w, x, mask)
  <2>1. /\ status = "running" /\ tasks # <<>> /\ plan[x].op \in Unary /\ plan[x].op # "buffer"
        /\ plan' = after.plan /\ preds' = after.preds /\ tasks' = after.tasks /\ given' = given
    BY <1>0, <1>6 DEF VisitDistinctLike, Dispatch
  <2> HIDE DEF x, w, mask
  <2>2. PICK unseen : Visiting(w, x, unseen, mask) /\ w.plan = plan
    BY <1>1, <2>1
  <2>3. Work(after, unseen)
    BY <2>1, <2>2, CopyThenPassKeeps
  <2> HIDE DEF after
  <2> QED
    BY <2>1, <2>3, AfterHandler
<1>7. CASE VisitEscape
  <2> DEFINE after == HandleStop(w, x, mask)
  <2>1. /\ status = "running" /\ tasks # <<>> /\ plan[x].op \in Unary /\ plan[x].op # "buffer"
        /\ plan' = after.plan /\ preds' = after.preds /\ tasks' = after.tasks /\ given' = given
    BY <1>0, <1>7 DEF VisitEscape, Dispatch
  <2> HIDE DEF x, w, mask
  <2>2. PICK unseen : Visiting(w, x, unseen, mask) /\ w.plan = plan
    BY <1>1, <2>1
  <2>3. Work(after, unseen)
    BY <2>1, <2>2, HandleStopKeeps
  <2> HIDE DEF after
  <2> QED
    BY <2>1, <2>3, AfterHandler
<1>8. CASE VisitSink
  <2> DEFINE after == HandleSink(w, x, mask)
  <2>1. /\ status = "running" /\ tasks # <<>> /\ plan[x].op \in Unary /\ plan[x].op # "buffer"
        /\ plan' = after.plan /\ preds' = after.preds /\ tasks' = after.tasks /\ given' = given
    BY <1>0, <1>8 DEF VisitSink, Dispatch
  <2> HIDE DEF x, w, mask
  <2>2. PICK unseen : Visiting(w, x, unseen, mask) /\ w.plan = plan
    BY <1>1, <2>1
  <2>3. Work(after, unseen)
    BY <2>1, <2>2, HandleSinkKeeps
  <2> HIDE DEF after
  <2> QED
    BY <2>1, <2>3, AfterHandler
<1>9. CASE VisitUnion
  <2> DEFINE after == HandleStopBoth(w, x, mask)
  <2>1. /\ status = "running" /\ tasks # <<>> /\ plan[x].op \in Binary /\ plan[x].op # "buffer"
        /\ plan' = after.plan /\ preds' = after.preds /\ tasks' = after.tasks /\ given' = given
    BY <1>0, <1>9 DEF VisitUnion, Dispatch
  <2> HIDE DEF x, w, mask
  <2>2. PICK unseen : Visiting(w, x, unseen, mask) /\ w.plan = plan
    BY <1>1, <2>1
  <2>3. Work(after, unseen)
    BY <2>1, <2>2, HandleStopBothKeeps
  <2> HIDE DEF after
  <2> QED
    BY <2>1, <2>3, AfterHandler
<1>10. CASE VisitSetOperator
  <2> DEFINE after == HandleLeftOnly(w, x, mask)
  <2>1. /\ status = "running" /\ tasks # <<>> /\ plan[x].op \in Binary /\ plan[x].op # "buffer"
        /\ plan' = after.plan /\ preds' = after.preds /\ tasks' = after.tasks /\ given' = given
    BY <1>0, <1>10 DEF VisitSetOperator, Dispatch
  <2> HIDE DEF x, w, mask
  <2>2. PICK unseen : Visiting(w, x, unseen, mask) /\ w.plan = plan
    BY <1>1, <2>1
  <2>3. Work(after, unseen)
    BY <2>1, <2>2, HandleLeftOnlyKeeps
  <2> HIDE DEF after
  <2> QED
    BY <2>1, <2>3, AfterHandler
<1>11. CASE VisitInner
  <2> DEFINE after == HandleInner(w, x, mask)
  <2>1. /\ status = "running" /\ tasks # <<>> /\ plan[x].op \in Binary /\ plan[x].op # "buffer"
        /\ plan' = after.plan /\ preds' = after.preds /\ tasks' = after.tasks /\ given' = given
    BY <1>0, <1>11 DEF VisitInner, Dispatch
  <2> HIDE DEF x, w, mask
  <2>2. PICK unseen : Visiting(w, x, unseen, mask) /\ w.plan = plan
    BY <1>1, <2>1
  <2>3. Work(after, unseen)
    BY <2>1, <2>2, HandleInnerKeeps
  <2> HIDE DEF after
  <2> QED
    BY <2>1, <2>3, AfterHandler
<1>12. CASE VisitLeftOuter
  <2> DEFINE after == HandleLeftOuter(w, x, mask)
  <2>1. /\ status = "running" /\ tasks # <<>> /\ plan[x].op \in Binary /\ plan[x].op # "buffer"
        /\ plan' = after.plan /\ preds' = after.preds /\ tasks' = after.tasks /\ given' = given
    BY <1>0, <1>12 DEF VisitLeftOuter, Dispatch
  <2> HIDE DEF x, w, mask
  <2>2. PICK unseen : Visiting(w, x, unseen, mask) /\ w.plan = plan
    BY <1>1, <2>1
  <2>3. Work(after, unseen)
    BY <2>1, <2>2, HandleLeftOuterKeeps
  <2> HIDE DEF after
  <2> QED
    BY <2>1, <2>3, AfterHandler
<1>13. CASE Throw \/ Finish
  BY <1>13 DEF Throw, Finish, PushInv, NoTermLost
<1>14. CASE UNCHANGED vars
  BY <1>14 DEF vars, PushInv, NoTermLost
<1> QED
  BY <1>2, <1>3, <1>4, <1>5, <1>6, <1>7, <1>8, <1>9, <1>10, <1>11, <1>12, <1>13, <1>14 DEF Next

\* No term disappears and none appears while the terms move, whatever the plan is: what a filter or
\* a join of the plan asks for is asked for somewhere after every step of the pass.
THEOREM TermsKept == Spec => []NoTermLost
<1>1. Init => PushInv
  BY InitConsistent
<1>2. PushInv /\ [Next]_vars => PushInv'
  BY NextConsistent
<1>3. PushInv => NoTermLost
  BY DEF PushInv
<1> QED
  BY <1>1, <1>2, <1>3, PTL DEF Spec


=============================================================================
