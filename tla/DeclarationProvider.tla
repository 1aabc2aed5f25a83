-------------------------- MODULE DeclarationProvider --------------------------
(***************************************************************************)
(* The providers of declarations other than storages, each a template over *)
(* its mutex (here std::shared_mutex) that several threads use:            *)
(*                                                                         *)
(*   "variables"  variable: a map by name, and a parent it hides           *)
(*   "types"      type and schema: a map by name, no parent                *)
(*   "functions"  function and aggregate: all overloads of a name, and     *)
(*                those of a parent                                        *)
(*                                                                         *)
(* A find or an enumeration gives the lock of one level back before it     *)
(* goes on; what it has found it then holds by a reference into the map,   *)
(* which it reads without a lock.                                          *)
(*                                                                         *)
(* An entry is a number: a new one for each node of a map, so that a       *)
(* reference to a node that was erased names no entry any more.            *)
(***************************************************************************)
EXTENDS Naturals, FiniteSets, Sequences, SequencesExt

CONSTANTS Thread, Nobody,
          Name,
          Calls,        \* Calls[t]: the calls t makes, records of op, on, name, overwrite and declares
          Contents,     \* what providers may be configured with before the threads begin
          MaxCalls,     \* bound: the calls of each thread
          MaxEntries    \* bound: the entries ever made

Provider == {"own", "parent"}
Declaration(id, parameters) == [id |-> id, parameters |-> parameters]
Declarations == [id : Nat, parameters : Nat]
Enumerations == {"each", "each_named"}
Ops == {"find", "add", "remove"} \cup Enumerations
Call == [op : Ops, on : Provider, name : Name, overwrite : BOOLEAN, declares : Declarations]

ASSUME ProviderAssumption ==
  Nobody \notin Thread /\ IsFiniteSet(Name) /\ MaxEntries \in Nat /\ MaxCalls \in Nat
ASSUME CallsAssumption == Calls \in [Thread -> SUBSET Call]

\* Only functions are overloaded, and types have no parent.
ASSUME ContentsAssumption ==
  \A c \in Contents :
    /\ c.kind \in {"variables", "types", "functions"}
    /\ c.table \in [Provider -> [Name -> Seq(Declarations)]]
    /\ \A p \in Provider, n \in Name :
         /\ Len(c.table[p][n]) <= MaxEntries
         /\ c.kind # "functions" => Len(c.table[p][n]) <= 1
         /\ c.kind = "types" => c.table["parent"][n] = <<>>

VARIABLES kind,      \* of which sort the provider is
          map,       \* map[p][n]: the entries of name n in provider p, in order
          declared,  \* declared[e]: the declaration entry e was made with
          writer,    \* writer[p]: who holds the mutex of p for writing
          readers,   \* readers[p]: who holds it for reading
          call,      \* call[t]: what t is doing
          calls,     \* calls[t]: how many calls t has begun
          pc,        \* pc[t]: where in it
          at,        \* at[t]: the provider t has got to
          ref,       \* ref[t]: the node t has a reference to, or 0
          rest,      \* rest[t]: what an enumeration still has to look at
          got,       \* got[t]: the entries a find or an enumeration has provided
          seen       \* seen[t]: for each name the sets of entries visible since t's call began

vars == <<kind, map, declared, writer, readers, call, calls, pc, at, ref, rest, got, seen>>
locks == <<writer, readers>>

Idle == [op |-> "none", on |-> "own", name |-> "", overwrite |-> FALSE, declares |-> Declaration(0, 0)]

\* What a client that looks from provider p sees of name n.
Visible(m, p, n) ==
  IF p = "own" /\ kind = "functions" THEN Range(m["own"][n]) \cup Range(m["parent"][n])
  ELSE Range(IF m[p][n] = <<>> THEN m["parent"][n] ELSE m[p][n])

\* A call that is going on remembers what has been visible.
Remember(m) == seen' = [t \in Thread |-> IF pc[t] = "idle" THEN seen[t]
                         ELSE [n \in Name |-> seen[t][n] \cup {Visible(m, call[t].on, n)}]]

Goto(t, label) == pc' = [pc EXCEPT ![t] = label]
Above(t) == at' = [at EXCEPT ![t] = "parent"]

-----------------------------------------------------------------------------

\* A table of declarations, its entries numbered.
Places(content) == {x \in Provider \X Name \X (1 .. MaxEntries) : x[3] \in DOMAIN content[x[1]][x[2]]}
Entries(content) ==
  LET place == SetToSeq(Places(content))
      entry(x) == CHOOSE e \in DOMAIN place : place[e] = x
  IN  [map |-> [p \in Provider |-> [n \in Name |-> [i \in DOMAIN content[p][n] |-> entry(<<p, n, i>>)]]],
       declared |-> [e \in DOMAIN place |-> content[place[e][1]][place[e][2]][place[e][3]]]]

Init ==
  /\ \E c \in Contents : \E entries \in {Entries(c.table)} :
       kind = c.kind /\ map = entries.map /\ declared = entries.declared
  /\ writer = [p \in Provider |-> Nobody]
  /\ readers = [p \in Provider |-> {}]
  /\ call = [t \in Thread |-> Idle]
  /\ calls = [t \in Thread |-> 0]
  /\ pc = [t \in Thread |-> "idle"]
  /\ at = [t \in Thread |-> "own"]
  /\ ref = [t \in Thread |-> 0]
  /\ rest = [t \in Thread |-> {}]
  /\ got = [t \in Thread |-> {}]
  /\ seen = [t \in Thread |-> [n \in Name |-> {}]]

\* The members a provider of this kind has.
Offered(c) ==
  /\ kind = "types" => c.on = "own"
  /\ c.op = "find" => kind # "functions"
  /\ c.op = "each_named" => kind = "functions"

Begin(t, c) ==
  /\ pc[t] = "idle" /\ calls[t] < MaxCalls /\ Offered(c)
  /\ call' = [call EXCEPT ![t] = c]
  /\ calls' = [calls EXCEPT ![t] = @ + 1]
  /\ at' = [at EXCEPT ![t] = c.on]
  /\ seen' = [seen EXCEPT ![t] = [n \in Name |-> {Visible(map, c.on, n)}]]
  /\ Goto(t, IF c.op \in {"find"} \cup Enumerations THEN "read" ELSE "write")
  /\ UNCHANGED <<kind, map, declared, locks, ref, rest, got>>

\* The constructor of reader_lock_type.
LockShared(t) ==
  /\ pc[t] = "read" /\ writer[at[t]] = Nobody
  /\ readers' = [readers EXCEPT ![at[t]] = @ \cup {t}]
  /\ Goto(t, IF call[t].op \in Enumerations THEN "enumerate" ELSE "look")
  /\ UNCHANGED <<kind, map, declared, writer, call, calls, at, ref, rest, got, seen>>
UnlockShared(t) == readers' = [readers EXCEPT ![at[t]] = @ \ {t}]

\* add and remove.  Before a variable is added to a child without overwriting, the parent is
\* asked for it, with the lock of the child held.
Lock(t) ==
  /\ pc[t] = "write"
  /\ LET p == call[t].on
     IN  /\ writer[p] = Nobody /\ readers[p] = {}
         /\ writer' = [writer EXCEPT ![p] = t]
         /\ IF call[t].op = "remove" THEN Goto(t, "erase") /\ UNCHANGED at
            ELSE IF call[t].overwrite \/ p = "parent" \/ kind # "variables" THEN Goto(t, "put") /\ UNCHANGED at
            ELSE Goto(t, "read") /\ Above(t)
  /\ UNCHANGED <<kind, map, declared, readers, call, calls, ref, rest, got, seen>>
Unlock(t) == writer' = [p \in Provider |-> IF writer[p] = t THEN Nobody ELSE writer[p]]

-----------------------------------------------------------------------------
\* find.  internal_find gives the lock back with the reference.

LookOwnOnly(t) ==   \* mutant: the parent is not asked
  /\ pc[t] = "look"
  /\ UnlockShared(t)
  /\ LET found == map[at[t]][call[t].name]
     IN  /\ ref' = [ref EXCEPT ![t] = IF found = <<>> THEN 0 ELSE found[1]]
         /\ Goto(t, IF found # <<>> THEN "copy" ELSE IF call[t].op = "add" THEN "put" ELSE "return")
  /\ UNCHANGED <<kind, map, declared, writer, call, calls, at, rest, got, seen>>

Look(t) ==
  /\ pc[t] = "look" /\ kind = "variables"
  /\ UnlockShared(t)
  /\ LET found == map[at[t]][call[t].name]
     IN  /\ ref' = [ref EXCEPT ![t] = IF found = <<>> THEN 0 ELSE found[1]]
         /\ IF found # <<>> THEN Goto(t, "copy") /\ UNCHANGED at
            ELSE IF at[t] = "own" THEN Goto(t, "read") /\ Above(t)
            ELSE Goto(t, IF call[t].op = "add" THEN "put" ELSE "return") /\ UNCHANGED at
  /\ UNCHANGED <<kind, map, declared, writer, call, calls, rest, got, seen>>

LookFlat(t) ==
  /\ pc[t] = "look" /\ kind = "types"
  /\ UnlockShared(t)
  /\ LET found == map["own"][call[t].name]
     IN  IF found = <<>> THEN Goto(t, "return") /\ UNCHANGED ref
         ELSE Goto(t, "copy") /\ ref' = [ref EXCEPT ![t] = found[1]]
  /\ UNCHANGED <<kind, map, declared, writer, call, calls, at, rest, got, seen>>

Listed(p) == UNION {Range(map[p][n]) : n \in Name}

\* Entry e can be read without a lock: it is in a map, and nobody is just assigning it.
Settled(e) ==
  /\ \E p \in Provider : e \in Listed(p)
  /\ ~ \E u \in Thread : pc[u] = "assign" /\ ref[u] = e

\* find returns a copy of what the reference refers to, 0 for what is no declaration: to read an
\* entry that is not settled is undefined.  An add that finds the name above throws.
Copy(t) ==
  /\ pc[t] = "copy"
  /\ \E copied \in {ref[t]} \cup (IF Settled(ref[t]) THEN {} ELSE {0}) : got' = [got EXCEPT ![t] = {copied}]
  /\ ref' = [ref EXCEPT ![t] = 0]
  /\ Goto(t, IF call[t].op = "add" THEN "throw" ELSE "return")
  /\ UNCHANGED <<kind, map, declared, locks, call, calls, at, rest, seen>>

-----------------------------------------------------------------------------
\* each.  internal_each provides all entries of a level under its lock.

LevelDone(t, entries) ==
  /\ got' = [got EXCEPT ![t] = @ \cup entries]
  /\ UnlockShared(t)
  /\ UNCHANGED <<kind, map, declared, writer, call, calls, ref, seen>>

EnumerateFlat(t) ==
  /\ pc[t] = "enumerate" /\ kind = "types"
  /\ LevelDone(t, Listed("own")) /\ Goto(t, "return")
  /\ UNCHANGED <<at, rest>>

\* "each_named": the overloads of a name with a number of parameters
Fits(t, e) == call[t].op = "each" \/ declared[e].parameters = call[t].declares.parameters
Overloads(t) ==
  {e \in IF call[t].op = "each" THEN Listed(at[t]) ELSE Range(map[at[t]][call[t].name]) : Fits(t, e)}

EnumerateOwnOverloads(t) ==   \* mutant: the parent is not enumerated
  /\ pc[t] = "enumerate" /\ kind = "functions"
  /\ LevelDone(t, Overloads(t)) /\ Goto(t, "return")
  /\ UNCHANGED <<at, rest>>

\* Nothing of the parent is hidden.
EnumerateOverloads(t) ==
  /\ pc[t] = "enumerate" /\ kind = "functions"
  /\ LevelDone(t, Overloads(t))
  /\ Goto(t, IF at[t] = "own" THEN "read" ELSE "return") /\ Above(t)
  /\ UNCHANGED rest

EnumerateOwnOnly(t) ==   \* mutant: the parent is not enumerated
  /\ pc[t] = "enumerate" /\ kind = "variables"
  /\ LevelDone(t, Listed(at[t])) /\ Goto(t, "return")
  /\ UNCHANGED <<at, rest>>

\* Each variable of the parent is looked for in the map of the child, without a lock.
Enumerate(t) ==
  /\ pc[t] = "enumerate" /\ kind = "variables"
  /\ IF at[t] = "parent" /\ call[t].on = "own"
       THEN /\ rest' = [rest EXCEPT ![t] = {n \in Name : map["parent"][n] # <<>>}]
            /\ Goto(t, "filter")
            /\ UNCHANGED <<kind, map, declared, locks, call, calls, at, ref, got, seen>>
       ELSE /\ LevelDone(t, Listed(at[t]))
            /\ Goto(t, IF at[t] = "own" THEN "read" ELSE "return") /\ Above(t)
            /\ UNCHANGED rest

Filter(t) ==
  /\ pc[t] = "filter"
  /\ \/ /\ rest[t] = {}
        /\ UnlockShared(t)
        /\ Goto(t, "return")
        /\ UNCHANGED <<rest, got>>
     \/ \E n \in rest[t] :
          /\ rest' = [rest EXCEPT ![t] = @ \ {n}]
          /\ got' = [got EXCEPT ![t] = IF map["own"][n] = <<>> THEN @ \cup Range(map["parent"][n]) ELSE @]
          /\ UNCHANGED <<pc, readers>>
  /\ UNCHANGED <<kind, map, declared, writer, call, calls, at, ref, seen>>

-----------------------------------------------------------------------------
\* add and remove, under the lock for writing

Change(t, entries) ==
  \E m \in {[map EXCEPT ![call[t].on][call[t].name] = entries]} : map' = m /\ Remember(m)

NewNode(t, others) ==
  /\ Len(declared) < MaxEntries
  /\ declared' = Append(declared, call[t].declares)
  /\ Change(t, Append(others, Len(declared) + 1))
  /\ ref' = [ref EXCEPT ![t] = Len(declared) + 1]
  /\ Unlock(t) /\ Goto(t, "added")

\* insert_or_assign keeps the node of the name, try_emplace leaves it alone.
Put(t) ==
  /\ pc[t] = "put" /\ kind # "functions"
  /\ LET old == map[call[t].on][call[t].name]
     IN  IF old = <<>> THEN NewNode(t, <<>>)
         ELSE /\ IF call[t].overwrite THEN Goto(t, "assign") /\ ref' = [ref EXCEPT ![t] = old[1]]
                 ELSE Goto(t, "throw") /\ UNCHANGED ref
              /\ UNCHANGED <<map, declared, writer, seen>>
  /\ UNCHANGED <<kind, readers, call, calls, at, rest, got>>

\* The assignment of insert_or_assign is over: it writes the shared pointer in the node.
Assign(t) ==
  /\ pc[t] = "assign"
  /\ declared' = [declared EXCEPT ![ref[t]] = call[t].declares]
  /\ Unlock(t) /\ Goto(t, "added")
  /\ UNCHANGED <<kind, map, readers, call, calls, at, ref, rest, got, seen>>

\* emplace: after the others of its name, whether there is one like it or not
PutOverload(t) ==
  /\ pc[t] = "put" /\ kind = "functions"
  /\ NewNode(t, map[call[t].on][call[t].name])
  /\ UNCHANGED <<kind, readers, call, calls, at, rest, got>>

\* The caller copies what the reference add has returned refers to.
Added(t) ==
  /\ pc[t] = "added"
  /\ ref' = [ref EXCEPT ![t] = 0]
  /\ Goto(t, "return")
  /\ UNCHANGED <<kind, map, declared, locks, call, calls, at, rest, got, seen>>

ThrowLocked(t) ==   \* mutant: the exception leaves the lock behind
  /\ pc[t] = "throw"
  /\ Goto(t, "return")
  /\ UNCHANGED <<kind, map, declared, locks, call, calls, at, ref, rest, got, seen>>

Throw(t) ==
  /\ pc[t] = "throw"
  /\ Unlock(t)
  /\ Goto(t, "return")
  /\ UNCHANGED <<kind, map, declared, readers, call, calls, at, ref, rest, got, seen>>

Erased(t, entries) ==
  /\ Change(t, entries)
  /\ Unlock(t)
  /\ Goto(t, "return")
  /\ UNCHANGED <<kind, declared, readers, call, calls, at, ref, rest, got>>

Erase(t) == pc[t] = "erase" /\ kind # "functions" /\ Erased(t, <<>>)

\* The first overload with the definition_id of the one given.
EraseOverload(t) ==
  LET others == map[call[t].on][call[t].name]
      same == {i \in DOMAIN others : declared[others[i]].id = call[t].declares.id}
  IN  /\ pc[t] = "erase" /\ kind = "functions"
      /\ Erased(t, IF same = {} THEN others ELSE RemoveAt(others, CHOOSE i \in same : \A j \in same : i <= j))

Return(t) ==
  /\ pc[t] = "return"
  /\ Goto(t, "idle")
  /\ call' = [call EXCEPT ![t] = Idle]
  /\ at' = [at EXCEPT ![t] = "own"]
  /\ got' = [got EXCEPT ![t] = {}]
  /\ seen' = [seen EXCEPT ![t] = [n \in Name |-> {}]]
  /\ UNCHANGED <<kind, map, declared, locks, calls, ref, rest>>

Step(t) ==
  \/ LockShared(t) \/ Lock(t) \/ Look(t) \/ LookFlat(t) \/ Copy(t)
  \/ Enumerate(t) \/ EnumerateFlat(t) \/ EnumerateOverloads(t) \/ Filter(t)
  \/ Put(t) \/ Assign(t) \/ PutOverload(t) \/ Added(t) \/ Throw(t) \/ Erase(t) \/ EraseOverload(t) \/ Return(t)

Next == \E t \in Thread : Step(t) \/ \E c \in Calls[t] : Begin(t, c)

\* The scheduler runs every thread, and the mutex lets in who waits for it.
Spec == Init /\ [][Next]_vars /\ \A t \in Thread : WF_vars(Step(t)) /\ SF_vars(Lock(t)) /\ SF_vars(LockShared(t))

-----------------------------------------------------------------------------

\* What a client must see to, for the classes do not: that what one thread removes or replaces
\* is not meanwhile looked for or added by another, and that no other adds to or removes from a
\* provider of variables that is enumerated, its parent aside.
Discards(c) == c.op = "remove" \/ (c.op = "add" /\ c.overwrite)
Reaches(c) == {c.on} \cup (IF c.op = "add" /\ c.overwrite THEN {} ELSE {"parent"})
RacesApart(made) ==
  \A t, u \in Thread : t # u =>
    \A c \in made[t], d \in made[u] :
      Discards(c) /\ d.op \in {"find", "add"} /\ c.name = d.name => c.on \notin Reaches(d)
EachAlone(made) ==
  \A t, u \in Thread : t # u =>
    \A c \in made[t], d \in made[u] :
      c.op = "each" /\ c.on = "own" => ~ (d.op \in {"add", "remove"} /\ d.on = "own")

\* "This class works as thread-safe": a reference that find or add has taken into the map is
\* followed only while the map has the node and nobody assigns it.
ReferenceValid == \A t \in Thread : pc[t] \in {"copy", "added"} => Settled(ref[t])

\* "returns a declaration [...] the corresponded variable declaration": what a find provides was
\* visible at some moment of it, and so was that there is none.
FindsVisible ==
  \A t \in Thread : pc[t] = "return" /\ call[t].op = "find" => got[t] \in seen[t][call[t].name]

\* What a find that looks at the two levels one after the other does guarantee: only a declaration
\* of the parent it may provide that never was visible, and only one made after another of the
\* name that came during the find.  So it misses no name that was declared from its beginning to
\* its end, and if what was visible has not changed, it finds just that.
Came(t, n) == {e \in UNION seen[t][n] : \E visible \in seen[t][n] : e \notin visible}
Answers(t, found) ==
  LET n == call[t].name
  IN  \/ found \in seen[t][n]
      \/ call[t].on = "own" /\ \E f \in found \cap Range(map["parent"][n]), e \in Came(t, n) : e < f
FindsDeclared == \A t \in Thread : pc[t] = "return" /\ call[t].op = "find" => Answers(t, got[t])

\* "provides all declarations into the consumer": a name that was declared from the beginning of
\* each to its end is provided, by a declaration that was visible; of functions, every overload
\* asked for that was there from the beginning to the end, and no other that never was.
EachProvidesAll ==
  \A t \in Thread : pc[t] = "return" /\ call[t].op \in Enumerations =>
    \A n \in IF call[t].op = "each" THEN Name ELSE {call[t].name} :
      LET shown == UNION seen[t][n]
          throughout == {e \in shown : Fits(t, e) /\ \A visible \in seen[t][n] : e \in visible}
      IN  IF kind = "functions"
            THEN throughout \subseteq got[t] /\ (call[t].op = "each_named" => got[t] \subseteq {e \in shown : Fits(t, e)})
          ELSE {} \notin seen[t][n] => got[t] \cap shown # {}

\* Every call returns: a thread that holds the child's lock and waits for the parent's is never
\* waited for in a ring.
CallsReturn == \A t \in Thread : pc[t] # "idle" ~> pc[t] = "idle"

=============================================================================
