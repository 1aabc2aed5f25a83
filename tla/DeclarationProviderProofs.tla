----------------------- MODULE DeclarationProviderProofs -----------------------
(***************************************************************************)
(* Proofs about the providers of declarations, for any threads, names,     *)
(* calls and contents.                                                     *)
(***************************************************************************)
EXTENDS DeclarationProvider, FiniteSetTheorems, FunctionTheorems, WellFoundedInduction, TLAPS

Kinds == {"variables", "types", "functions"}
Labels == {"idle", "read", "write", "look", "copy", "enumerate", "filter", "put", "assign", "added", "throw", "erase", "return"}
Entry == 1 .. Len(declared)

MapOK ==
  /\ kind \in Kinds
  /\ declared \in Seq(Declarations)
  /\ map \in [Provider -> [Name -> Seq(Entry)]]
  /\ kind # "functions" => \A p \in Provider, n \in Name : Len(map[p][n]) <= 1
  /\ kind = "types" => \A n \in Name : map["parent"][n] = <<>>

LocksOK == writer \in [Provider -> Thread \cup {Nobody}] /\ readers \in [Provider -> SUBSET Thread]

\* Where a call can have got to.
PlaceOK(t) ==
  LET c == call[t]
      searches == c.op = "find" \/ (c.op = "add" /\ ~ c.overwrite /\ kind = "variables" /\ c.on = "own" /\ at[t] = "parent")
  IN  /\ c \in Call /\ c \in Calls[t] /\ Offered(c)
      /\ at[t] \in {c.on, "parent"}
      /\ kind = "types" => at[t] = "own"
      /\ pc[t] = "read" => c.op \in Enumerations \/ searches
      /\ pc[t] \in {"look", "copy"} => searches
      /\ pc[t] = "enumerate" => c.op \in Enumerations
      /\ pc[t] = "filter" => c.op = "each" /\ kind = "variables" /\ c.on = "own" /\ at[t] = "parent"
      /\ pc[t] = "write" => c.op \in {"add", "remove"}
      /\ pc[t] \in {"put", "added", "throw"} => c.op = "add"
      /\ pc[t] = "assign" => c.op = "add" /\ c.overwrite /\ kind # "functions"
      /\ pc[t] = "erase" => c.op = "remove"
      /\ pc[t] = "write" => at[t] = c.on

CallsOK ==
  /\ call \in [Thread -> Call \cup {Idle}]
  /\ pc \in [Thread -> Labels]
  /\ at \in [Thread -> Provider]
  /\ ref \in [Thread -> Nat]
  /\ rest \in [Thread -> SUBSET Name]
  /\ got \in [Thread -> SUBSET Nat]
  /\ \A t \in Thread : pc[t] # "idle" => PlaceOK(t)
  /\ \A t \in Thread : pc[t] = "idle" => got[t] = {}

SeenOK ==
  /\ seen \in [Thread -> [Name -> SUBSET SUBSET Entry]]
  /\ \A t \in Thread : pc[t] # "idle" => \A n \in Name : Visible(map, call[t].on, n) \in seen[t][n]

TypeOK == MapOK /\ LocksOK /\ CallsOK /\ SeenOK

\* A thread holds the locks its place in a call needs and no others, and a writer excludes all others.
Reading(t) == pc[t] \in {"look", "enumerate", "filter"}
Writing(t) ==
  \/ pc[t] \in {"put", "assign", "erase", "throw"}
  \/ pc[t] \in {"read", "look", "copy"} /\ call[t].op = "add"
LocksHeld ==
  \A p \in Provider :
    /\ \A t \in Thread : t \in readers[p] <=> Reading(t) /\ at[t] = p
    /\ \A t \in Thread : writer[p] = t <=> Writing(t) /\ call[t].on = p
    /\ writer[p] # Nobody => readers[p] = {}

Below(t) == call[t].on = "own" /\ at[t] = "parent"

\* A reference is into a list of entries the call can reach, and an entry is in one list only.
Referring == {"copy", "assign", "added"}
RefersTo(t) ==
  IF ref[t] = 0 THEN pc[t] \notin Referring
  ELSE /\ pc[t] \in Referring
       /\ \E p \in Reaches(call[t]) : ref[t] \in Range(map[p][call[t].name])
OneList ==
  \A p, q \in Provider, m, n \in Name : Range(map[p][m]) \cap Range(map[q][n]) # {} => p = q /\ m = n

\* What was there when t went past the own level: nothing else has been visible all the time.
PastOwn(t, n) == \A e \in Range(map["own"][n]) : e \in got[t] \/ \E visible \in seen[t][n] : e \notin visible
Finding(t) ==
  LET n == call[t].name
  IN  call[t].op = "find" =>
        /\ pc[t] \in {"read", "look"} => got[t] = {}
        /\ pc[t] \in {"read", "look"} /\ Below(t) => PastOwn(t, n) /\ Answers(t, Range(map["parent"][n]))
        /\ pc[t] = "copy" => Answers(t, {ref[t]})
        /\ pc[t] = "return" => Answers(t, got[t])

\* What an enumeration has provided, and what it will.
Shown(t, n) == UNION seen[t][n]
Asked(t) == IF call[t].op = "each" THEN Name ELSE {call[t].name}
Candidates(t, n) == {e \in Shown(t, n) : Fits(t, e)}
Throughout(t, n) == {e \in Candidates(t, n) : \A visible \in seen[t][n] : e \in visible}
Covered(t, n) == {} \in seen[t][n] \/ got[t] \cap Shown(t, n) # {}
OnlyAskedFor(t, n) == call[t].op = "each_named" => got[t] \subseteq Candidates(t, n)
Provided(t, n) ==
  IF kind = "functions" THEN Throughout(t, n) \subseteq got[t] /\ OnlyAskedFor(t, n) ELSE Covered(t, n)
Pending(t, n) ==
  IF kind = "functions"
    THEN /\ \A e \in Range(map["own"][n]) : Fits(t, e) => e \in got[t] \/ \E visible \in seen[t][n] : e \notin visible
         /\ OnlyAskedFor(t, n)
  ELSE Covered(t, n) \/ (map["own"][n] = <<>> /\ (pc[t] = "filter" => n \in rest[t]))
Enumerating(t) ==
  call[t].op \in Enumerations =>
    /\ pc[t] \in {"read", "enumerate"} /\ ~ Below(t) => got[t] = {}
    /\ pc[t] \in {"read", "enumerate", "filter"} /\ Below(t) => \A n \in Asked(t) : Pending(t, n)
    /\ pc[t] = "return" => \A n \in Asked(t) : Provided(t, n)

RefInv == \A t \in Thread : RefersTo(t)
FindInv == \A t \in Thread : Finding(t)
EachInv == \A t \in Thread : Enumerating(t)

-----------------------------------------------------------------------------
\* What the steps do to the table.

\* The part of the state that is a thread's own.
Same(u) ==
  /\ call'[u] = call[u] /\ pc'[u] = pc[u] /\ at'[u] = at[u]
  /\ ref'[u] = ref[u] /\ rest'[u] = rest[u] /\ got'[u] = got[u]

Untouched(t) ==
  /\ map' = map /\ declared' = declared
  /\ \A u \in Thread \ {t} : seen'[u] = seen[u]
  /\ seen' \in [Thread -> [Name -> SUBSET SUBSET Entry]]
Grown(t) ==
  /\ pc[t] = "put"
  /\ kind # "functions" => map[call[t].on][call[t].name] = <<>>
  /\ declared' = Append(declared, call[t].declares)
  /\ map' = [map EXCEPT ![call[t].on][call[t].name] = Append(map[call[t].on][call[t].name], Len(declared) + 1)]
  /\ Remember(map')
Replaced(t) ==
  /\ pc[t] = "assign" /\ kind # "functions"
  /\ \E e \in Nat : declared' = [declared EXCEPT ![e] = call[t].declares]
  /\ map' = map /\ seen' = seen
Shrunk(t) ==
  /\ pc[t] = "erase"
  /\ declared' = declared
  /\ \E s \in Seq(Entry) :
       /\ Range(s) \subseteq Range(map[call[t].on][call[t].name])
       /\ Len(s) <= Len(map[call[t].on][call[t].name])
       /\ map' = [map EXCEPT ![call[t].on][call[t].name] = s]
  /\ Remember(map')

Takes(t) == Step(t) \/ \E c \in Calls[t] : Begin(t, c)

LEMMA InCall ==
  ASSUME TypeOK, NEW t \in Thread, pc[t] # "idle"
  PROVE  /\ call[t] \in Call /\ call[t] \in Calls[t]
         /\ call[t].op \in Ops /\ call[t].on \in Provider /\ call[t].name \in Name
         /\ call[t].overwrite \in BOOLEAN /\ call[t].declares \in Declarations
         /\ map[call[t].on][call[t].name] \in Seq(Entry)
  <1>1. call[t] \in Call /\ call[t] \in Calls[t]
    BY DEF TypeOK, CallsOK, PlaceOK
  <1>2. /\ call[t].op \in Ops /\ call[t].on \in Provider /\ call[t].name \in Name
        /\ call[t].overwrite \in BOOLEAN /\ call[t].declares \in Declarations
    BY <1>1 DEF Call
  <1> QED
    BY <1>1, <1>2 DEF TypeOK, MapOK

LEMMA LeastNumber ==
  ASSUME NEW S \in SUBSET Nat, S # {}
  PROVE  \E i \in S : \A j \in S : i <= j
  <1> DEFINE less == OpToRel(<, Nat)
  <1>1. PICK i \in S : \A j \in S : ~ (<<j, i>> \in less)
    <2>1. IsWellFoundedOn(less, Nat)
      BY NatLessThanWellFounded
    <2> HIDE DEF less
    <2> QED
      BY <2>1, WFMin
  <1>2. \A j \in S : ~ (j < i)
    BY <1>1 DEF OpToRel
  <1> QED
    BY <1>2

LEMMA NoChange ==
  ASSUME NEW T, NEW m \in [Provider -> [Name -> T]], NEW p \in Provider, NEW n \in Name
  PROVE  [m EXCEPT ![p][n] = m[p][n]] = m
  <1>1. [m[p] EXCEPT ![n] = m[p][n]] = m[p]
    OBVIOUS
  <1> QED
    BY <1>1

LEMMA VisibleType ==
  ASSUME NEW S, NEW m \in [Provider -> [Name -> Seq(S)]], NEW p \in Provider, NEW n \in Name
  PROVE  Visible(m, p, n) \in SUBSET S
  <1>1. "own" \in Provider /\ "parent" \in Provider
    BY DEF Provider
  <1>2. \A q \in Provider : Range(m[q][n]) \subseteq S
    BY DEF Range
  <1> QED
    BY <1>1, <1>2 DEF Visible

LEMMA RemoveAtOnly ==
  ASSUME NEW S, NEW s \in Seq(S), NEW i \in DOMAIN s
  PROVE  RemoveAt(s, i) \in Seq(S) /\ Len(RemoveAt(s, i)) <= Len(s) /\ Range(RemoveAt(s, i)) \subseteq Range(s)
  <1> DEFINE first == SubSeq(s, 1, i - 1)
             last == SubSeq(s, i + 1, Len(s))
  <1>1. first \in Seq(S) /\ Len(first) = i - 1 /\ \A j \in 1 .. Len(first) : first[j] = s[j]
    OBVIOUS
  <1>2. last \in Seq(S) /\ Len(last) = Len(s) - i /\ \A j \in 1 .. Len(last) : last[j] = s[j + i]
    OBVIOUS
  <1> HIDE DEF first, last
  <1>3. first \o last \in Seq(S) /\ Len(first \o last) = Len(s) - 1
    BY <1>1, <1>2
  <1>4. ASSUME NEW j \in 1 .. Len(first \o last)
        PROVE  (first \o last)[j] \in {s[k] : k \in DOMAIN s}
    <2>1. CASE j <= Len(first)
      BY <1>1, <1>2, <1>3, <2>1
    <2>2. CASE j > Len(first)
      <3>1. (first \o last)[j] = last[j - Len(first)] /\ j - Len(first) \in 1 .. Len(last)
        BY <1>1, <1>2, <1>3, <2>2
      <3>2. (first \o last)[j] = s[j - Len(first) + i] /\ j - Len(first) + i \in DOMAIN s
        BY <1>1, <1>2, <3>1
      <3> QED
        BY <3>2
    <2> QED
      BY <1>1, <1>3, <2>1, <2>2
  <1> QED
    <2>1. first \o last = RemoveAt(s, i)
      BY DEF RemoveAt, first, last
    <2>2. DOMAIN (first \o last) = 1 .. Len(first \o last)
      BY <1>3
    <2>3. Len(first \o last) <= Len(s)
      BY <1>3
    <2>4. Range(first \o last) \subseteq Range(s)
      BY <1>4, <2>2 DEF Range
    <2> QED
      BY <1>3, <2>1, <2>3, <2>4

\* Every step changes only what is its thread's, and the table in one of three ways.
LEMMA Moves ==
  ASSUME TypeOK, NEW t \in Thread, Takes(t)
  PROVE  /\ kind' = kind
         /\ \A u \in Thread \ {t} : Same(u)
         /\ Untouched(t) \/ Grown(t) \/ Replaced(t) \/ Shrunk(t)
  <1> USE DEF Same
  <1>a. seen \in [Thread -> [Name -> SUBSET SUBSET Entry]]
    BY DEF TypeOK, SeenOK
  <1>b. ASSUME NEW c \in Calls[t], Begin(t, c) PROVE \A u \in Thread \ {t} : Same(u)
    BY <1>b DEF TypeOK, CallsOK, Begin, Goto
  <1>c. CASE UNCHANGED <<kind, map, declared, call, seen>> /\ \A u \in Thread \ {t} : Same(u)
    BY <1>a, <1>c DEF Untouched
  <1>1. CASE LockShared(t)
    BY <1>1, <1>c DEF LockShared, Goto, TypeOK, CallsOK
  <1>2. CASE Lock(t)
    BY <1>2, <1>c DEF Lock, Goto, Above, TypeOK, CallsOK
  <1>3. CASE Look(t)
    BY <1>3, <1>c DEF Look, Goto, Above, TypeOK, CallsOK
  <1>4. CASE LookFlat(t)
    BY <1>4, <1>c DEF LookFlat, Goto, TypeOK, CallsOK
  <1>5. CASE Copy(t)
    BY <1>5, <1>c DEF Copy, Goto, TypeOK, CallsOK, locks
  <1>6. CASE Enumerate(t)
    BY <1>6, <1>c DEF Enumerate, LevelDone, Goto, Above, TypeOK, CallsOK, locks
  <1>7. CASE EnumerateFlat(t)
    BY <1>7, <1>c DEF EnumerateFlat, LevelDone, Goto, TypeOK, CallsOK
  <1>8. CASE EnumerateOverloads(t)
    BY <1>8, <1>c DEF EnumerateOverloads, LevelDone, Goto, Above, TypeOK, CallsOK
  <1>9. CASE Filter(t)
    BY <1>9, <1>c DEF Filter, Goto, TypeOK, CallsOK
  <1>10. CASE Added(t)
    BY <1>10, <1>c DEF Added, Goto, TypeOK, CallsOK, locks
  <1>11. CASE Throw(t)
    BY <1>11, <1>c DEF Throw, Goto, TypeOK, CallsOK
  <1>12. CASE Return(t)
    <2>1. /\ UNCHANGED <<kind, map, declared>>
          /\ \A u \in Thread \ {t} : Same(u)
          /\ \A u \in Thread \ {t} : seen'[u] = seen[u]
      BY <1>12 DEF Return, Goto, TypeOK, CallsOK, SeenOK, locks
    <2>2. seen' \in [Thread -> [Name -> SUBSET SUBSET Entry]]
      BY <1>12, <1>a DEF Return
    <2> QED
      BY <2>1, <2>2 DEF Untouched
  <1>13. CASE Put(t)
    <2>1. \A u \in Thread \ {t} : Same(u)
      BY <1>13 DEF Put, NewNode, Goto, TypeOK, CallsOK
    <2>2. kind' = kind
      BY <1>13 DEF Put
    <2>3. CASE map[call[t].on][call[t].name] = <<>>
      BY <1>13, <2>1, <2>2, <2>3 DEF Put, NewNode, Change, Grown
    <2>4. CASE map[call[t].on][call[t].name] # <<>>
      BY <1>13, <1>a, <2>1, <2>2, <2>4 DEF Put, Untouched
    <2> QED
      BY <2>3, <2>4
  <1>18. CASE Assign(t)
    <2>1. \A u \in Thread \ {t} : Same(u)
      BY <1>18 DEF Assign, Goto, TypeOK, CallsOK
    <2>2. ref[t] \in Nat /\ kind # "functions"
      BY <1>18 DEF Assign, TypeOK, CallsOK, PlaceOK
    <2> QED
      BY <1>18, <2>1, <2>2 DEF Assign, Replaced
  <1>14. CASE PutOverload(t)
    <2>1. \A u \in Thread \ {t} : Same(u)
      BY <1>14 DEF PutOverload, NewNode, Goto, TypeOK, CallsOK
    <2> QED
      BY <1>14, <2>1 DEF PutOverload, NewNode, Change, Grown
  <1>15. CASE Erase(t)
    <2>1. \A u \in Thread \ {t} : Same(u)
      BY <1>15 DEF Erase, Erased, Goto, TypeOK, CallsOK
    <2>2. <<>> \in Seq(Entry) /\ Range(<<>>) = {} /\ Len(<<>>) <= Len(map[call[t].on][call[t].name])
      BY <1>15, InCall DEF Erase, Range
    <2> QED
      BY <1>15, <2>1, <2>2 DEF Erase, Erased, Change, Shrunk
  <1>16. CASE EraseOverload(t)
    <2> DEFINE others == map[call[t].on][call[t].name]
               same == {i \in DOMAIN others : declared[others[i]].id = call[t].declares.id}
               first == CHOOSE i \in same : \A j \in same : i <= j
               left == IF same = {} THEN others ELSE RemoveAt(others, first)
    <2>1. \A u \in Thread \ {t} : Same(u)
      BY <1>16 DEF EraseOverload, Erased, Goto, TypeOK, CallsOK
    <2>2. Erased(t, left) /\ pc[t] = "erase"
      BY <1>16 DEF EraseOverload
    <2>3. others \in Seq(Entry)
      BY <2>2, InCall
    <2>4. same # {} => first \in DOMAIN others
      <3>1. same \subseteq Nat
        BY <2>3
      <3>2. ASSUME same # {} PROVE \E i \in same : \A j \in same : i <= j
        BY <3>1, <3>2, LeastNumber
      <3> QED
        BY <3>2
    <2>5. left \in Seq(Entry) /\ Range(left) \subseteq Range(others) /\ Len(left) <= Len(others)
      <3> HIDE DEF others, same, first
      <3>1. CASE same = {}
        BY <2>3, <3>1
      <3>2. CASE same # {}
        BY <2>3, <2>4, <3>2, RemoveAtOnly
      <3> QED
        BY <3>1, <3>2
    <2> HIDE DEF left
    <2> QED
      BY <2>1, <2>2, <2>5 DEF Erased, Change, Shrunk
  <1>17. ASSUME NEW c \in Calls[t], Begin(t, c)
         PROVE  kind' = kind /\ Untouched(t)
    <2>1. c.on \in Provider
      BY CallsAssumption DEF Call
    <2>2. \A n \in Name : Visible(map, c.on, n) \in SUBSET Entry
      BY <2>1, VisibleType DEF TypeOK, MapOK
    <2> QED
      BY <1>17, <1>a, <2>2 DEF Begin, Untouched
  <1> QED
    BY <1>b, <1>1, <1>2, <1>3, <1>4, <1>5, <1>6, <1>7, <1>8, <1>9, <1>10, <1>11, <1>12, <1>13, <1>14, <1>15,
       <1>16, <1>17, <1>18 DEF Takes, Step

\* A call begins or returns, or goes on and remembers what becomes visible.
Inside(t) == pc[t] # "idle" /\ UNCHANGED call /\ (UNCHANGED <<map, seen>> \/ Remember(map'))
Begins(t) == \E c \in Calls[t] : Begin(t, c)

LEMMA GoesOn ==
  ASSUME TypeOK, NEW t \in Thread, Takes(t)
  PROVE  Begins(t) \/ Return(t) \/ Inside(t)
  <1>1. CASE LockShared(t) \/ Lock(t) \/ Look(t) \/ LookFlat(t) \/ Copy(t)
    BY <1>1 DEF LockShared, Lock, Look, LookFlat, Copy, Inside
  <1>2. CASE Enumerate(t) \/ EnumerateFlat(t) \/ EnumerateOverloads(t) \/ Filter(t)
    BY <1>2 DEF Enumerate, EnumerateFlat, EnumerateOverloads, Filter, LevelDone, Inside
  <1>3. CASE Put(t) \/ Assign(t) \/ PutOverload(t)
    BY <1>3 DEF Put, Assign, PutOverload, NewNode, Change, Inside
  <1>4. CASE Added(t) \/ Throw(t) \/ Erase(t) \/ EraseOverload(t)
    BY <1>4 DEF Added, Throw, Erase, EraseOverload, Erased, Change, Inside
  <1> QED
    BY <1>1, <1>2, <1>3, <1>4 DEF Takes, Step, Begins

LEMMA NumberedIsSequence ==
  ASSUME NEW S, NEW n \in Nat, NEW f \in [1 .. n -> S]
  PROVE  f \in Seq(S) /\ Len(f) = n
  OBVIOUS

LEMMA TableType ==
  ASSUME TypeOK, NEW t \in Thread, Takes(t)
  PROVE  MapOK' /\ Entry \subseteq Entry'
  <1>1. kind' = kind
    BY Moves
  <1>2. CASE Untouched(t)
    BY <1>1, <1>2 DEF Untouched, TypeOK, MapOK, Entry
  <1>3. CASE Grown(t)
    <2>1. call[t].on \in Provider /\ call[t].name \in Name /\ call[t].declares \in Declarations
      BY <1>3, InCall DEF Grown
    <2>2. declared' \in Seq(Declarations) /\ Len(declared') = Len(declared) + 1
      BY <1>3, <2>1 DEF Grown, TypeOK, MapOK
    <2>3. Entry \subseteq Entry' /\ Len(declared) + 1 \in Entry'
      BY <2>2 DEF Entry, TypeOK, MapOK
    <2> DEFINE old == map[call[t].on][call[t].name]
               new == Append(old, Len(declared) + 1)
    <2>4. old \in Seq(Entry) /\ \A p \in Provider, n \in Name : map[p][n] \in Seq(Entry) /\ map[p][n] \in Seq(Entry')
      BY <2>1, <2>3 DEF TypeOK, MapOK
    <2>5. new \in Seq(Entry') /\ Len(new) = Len(old) + 1
      BY <2>3, <2>4
    <2>6. map' = [map EXCEPT ![call[t].on][call[t].name] = new]
      BY <1>3 DEF Grown
    <2>7. kind # "functions" => Len(new) = 1
      BY <1>3, <2>5 DEF Grown
    <2>8. kind = "types" => call[t].on = "own"
      BY <1>3 DEF Grown, TypeOK, CallsOK, PlaceOK, Offered
    <2> HIDE DEF old, new
    <2>9. map' \in [Provider -> [Name -> Seq(Entry')]]
      BY <2>1, <2>4, <2>5, <2>6 DEF TypeOK, MapOK
    <2>10. ASSUME kind # "functions", NEW p \in Provider, NEW n \in Name
           PROVE  Len(map'[p][n]) <= 1
      <3>1. map'[p][n] = IF p = call[t].on /\ n = call[t].name THEN new ELSE map[p][n]
        BY <2>1, <2>6 DEF TypeOK, MapOK
      <3>2. Len(map[p][n]) <= 1
        BY <2>10 DEF TypeOK, MapOK
      <3>3. CASE p = call[t].on /\ n = call[t].name
        BY <2>7, <2>10, <3>1, <3>3
      <3>4. CASE ~ (p = call[t].on /\ n = call[t].name)
        BY <3>1, <3>2, <3>4
      <3> QED
        BY <3>3, <3>4
    <2>11. kind = "types" => \A n \in Name : map'["parent"][n] = <<>>
      BY <2>1, <2>6, <2>8 DEF TypeOK, MapOK
    <2> QED
      BY <1>1, <2>2, <2>3, <2>9, <2>10, <2>11 DEF TypeOK, MapOK
  <1>4. CASE Replaced(t)
    <2>1. declared' \in Seq(Declarations) /\ Len(declared') = Len(declared)
      <3>1. call[t].declares \in Declarations /\ declared \in Seq(Declarations)
        BY <1>4, InCall DEF Replaced, TypeOK, MapOK
      <3>2. PICK e \in Nat : declared' = [declared EXCEPT ![e] = call[t].declares]
        BY <1>4 DEF Replaced
      <3>3. Len(declared) \in Nat /\ declared \in [1 .. Len(declared) -> Declarations]
        BY <3>1
      <3>4. declared' \in [1 .. Len(declared) -> Declarations]
        BY <3>1, <3>2, <3>3
      <3> QED
        BY <3>3, <3>4, NumberedIsSequence
    <2> QED
      BY <1>1, <1>4, <2>1 DEF Replaced, TypeOK, MapOK, Entry
  <1>5. CASE Shrunk(t)
    <2>1. call[t].on \in Provider /\ call[t].name \in Name
      BY <1>5, InCall DEF Shrunk
    <2>2. PICK new \in Seq(Entry) :
            /\ Len(new) <= Len(map[call[t].on][call[t].name])
            /\ map' = [map EXCEPT ![call[t].on][call[t].name] = new]
      BY <1>5 DEF Shrunk
    <2>3. Entry' = Entry /\ declared' = declared
      BY <1>5 DEF Shrunk, Entry
    <2>4. kind = "types" => call[t].on = "own"
      BY <1>5 DEF Shrunk, TypeOK, CallsOK, PlaceOK, Offered
    <2>5. map' \in [Provider -> [Name -> Seq(Entry)]]
      BY <2>1, <2>2 DEF TypeOK, MapOK
    <2>6. kind # "functions" => \A p \in Provider, n \in Name : Len(map'[p][n]) <= 1
      BY <2>1, <2>2 DEF TypeOK, MapOK
    <2>7. kind = "types" => \A n \in Name : map'["parent"][n] = <<>>
      BY <2>1, <2>2, <2>4 DEF TypeOK, MapOK
    <2> QED
      BY <1>1, <2>3, <2>5, <2>6, <2>7 DEF TypeOK, MapOK
  <1> QED
    BY <1>2, <1>3, <1>4, <1>5, Moves

\* A thread in a call keeps what it has seen and sees what is visible now.
LEMMA SeesMore ==
  ASSUME TypeOK, NEW t \in Thread, Takes(t), NEW u \in Thread, pc[u] # "idle", u # t \/ Inside(t)
  PROVE  /\ call'[u] = call[u]
         /\ \A n \in Name : /\ seen[u][n] \subseteq seen'[u][n] /\ seen'[u][n] \subseteq SUBSET Entry'
                            /\ Visible(map, call[u].on, n)' \in seen'[u][n]
                            /\ seen[u][n] # {}
  <1>1. kind' = kind /\ MapOK' /\ Entry \subseteq Entry' /\ call[u].on \in Provider
    BY Moves, TableType, InCall
  <1>2. call'[u] = call[u]
    BY Moves DEF Inside, Same
  <1>3. \A n \in Name : Visible(map, call[u].on, n) \in seen[u][n] /\ seen[u][n] \subseteq SUBSET Entry
    BY DEF TypeOK, SeenOK
  <1>4. CASE Remember(map')
    <2>1. ASSUME NEW n \in Name
          PROVE  seen'[u][n] = seen[u][n] \cup {Visible(map', call[u].on, n)}
      BY <1>4 DEF Remember
    <2>2. \A n \in Name : Visible(map', call[u].on, n) \in SUBSET Entry'
      BY <1>1, VisibleType DEF MapOK
    <2>3. \A n \in Name : Visible(map, call[u].on, n)' = Visible(map', call[u].on, n)
      BY <1>1, <1>2 DEF Visible
    <2> QED
      BY <1>1, <1>2, <1>3, <2>1, <2>2, <2>3
  <1>5. CASE map' = map /\ seen'[u] = seen[u]
    <2>1. \A n \in Name : Visible(map, call[u].on, n)' = Visible(map, call[u].on, n)
      BY <1>1, <1>2, <1>5 DEF Visible
    <2> QED
      BY <1>1, <1>2, <1>3, <1>5, <2>1
  <1>6. Remember(map') \/ (map' = map /\ seen'[u] = seen[u])
    BY Moves DEF Inside, Untouched, Grown, Replaced, Shrunk
  <1> QED
    BY <1>4, <1>5, <1>6

LEMMA SeenType ==
  ASSUME TypeOK, NEW t \in Thread, Takes(t)
  PROVE  SeenOK'
  <1>1. kind' = kind /\ MapOK' /\ Entry \subseteq Entry'
    BY Moves, TableType
  <1>2. seen' \in [Thread -> [Name -> SUBSET SUBSET Entry']]
    <2>1. CASE Untouched(t)
      BY <1>1, <2>1 DEF Untouched
    <2>2. CASE Remember(map')
      <3>1. ASSUME NEW u \in Thread, NEW n \in Name, pc[u] # "idle"
            PROVE  Visible(map', call[u].on, n) \in SUBSET Entry'
        BY <1>1, <3>1, InCall, VisibleType DEF MapOK
      <3>2. \A u \in Thread, n \in Name : seen[u][n] \subseteq SUBSET Entry'
        BY <1>1 DEF TypeOK, SeenOK
      <3>3. \A u \in Thread : seen[u] \in [Name -> SUBSET SUBSET Entry']
        BY <3>2 DEF TypeOK, SeenOK
      <3> QED
        BY <2>2, <3>1, <3>2, <3>3 DEF Remember
    <2> QED
      <3>1. CASE seen' = seen
        BY <1>1, <3>1 DEF TypeOK, SeenOK
      <3> QED
        BY <2>1, <2>2, <3>1, Moves DEF Grown, Replaced, Shrunk
  <1>3. ASSUME NEW u \in Thread, pc'[u] # "idle", NEW n \in Name
        PROVE  Visible(map, call[u].on, n)' \in seen'[u][n]
    <2>1. CASE u # t \/ Inside(t)
      <3>1. pc[u] # "idle"
        BY <1>3, <2>1, Moves DEF Same, Inside
      <3> QED
        BY <2>1, <3>1, SeesMore
    <2>2. CASE u = t /\ Begins(t)
      <3>1. PICK c \in Calls[t] : Begin(t, c)
        BY <2>2 DEF Begins
      <3>2. call'[t] = c /\ map' = map /\ seen'[t][n] = {Visible(map, c.on, n)}
        BY <3>1 DEF Begin, TypeOK, CallsOK, SeenOK
      <3>3. Visible(map, call[t].on, n)' = Visible(map, c.on, n)
        BY <1>1, <3>2 DEF Visible
      <3> QED
        BY <2>2, <3>2, <3>3
    <2>3. CASE u = t /\ Return(t)
      BY <1>3, <2>3 DEF Return, Goto, TypeOK, CallsOK
    <2> QED
      BY <2>1, <2>2, <2>3, GoesOn
  <1> QED
    BY <1>2, <1>3 DEF SeenOK

LEMMA ListsType ==
  ASSUME MapOK
  PROVE  /\ \A p \in Provider, n \in Name :
              map[p][n] \in Seq(Entry) /\ Range(map[p][n]) \subseteq Entry /\ Range(map[p][n]) \subseteq Nat
         /\ \A p \in Provider, n \in Name : map[p][n] # <<>> => map[p][n][1] \in Nat
         /\ \A p \in Provider : Listed(p) \subseteq Nat
  <1>1. \A p \in Provider, n \in Name : map[p][n] \in Seq(Entry)
    BY DEF MapOK
  <1>2. Entry \subseteq Nat
    BY DEF Entry
  <1>3. ASSUME NEW p \in Provider, NEW n \in Name
        PROVE  Range(map[p][n]) \subseteq Entry
    BY <1>1 DEF Range
  <1>4. ASSUME NEW p \in Provider, NEW n \in Name, map[p][n] # <<>>
        PROVE  map[p][n][1] \in Entry
    BY <1>1, <1>4
  <1>5. ASSUME NEW p \in Provider
        PROVE  Listed(p) \subseteq Nat
    BY <1>2, <1>3 DEF Listed
  <1> QED
    BY <1>1, <1>2, <1>3, <1>4, <1>5

LEMMA CallsType ==
  ASSUME TypeOK, NEW t \in Thread, Takes(t)
  PROVE  CallsOK' /\ LocksOK'
  <1> USE DEF Goto, UnlockShared, Unlock, Above, locks
  <1>0. kind' = kind /\ (\A u \in Thread \ {t} : Same(u))
    BY Moves
  <1>1. ASSUME NEW u \in Thread \ {t}, pc'[u] # "idle"
        PROVE  PlaceOK(u)'
    <2>1. PlaceOK(u)
      BY <1>0, <1>1 DEF TypeOK, CallsOK, Same
    <2> QED
      BY <1>0, <2>1 DEF PlaceOK, Same, Offered
  <1>a. /\ call \in [Thread -> Call \cup {Idle}]
        /\ pc \in [Thread -> Labels]
        /\ at \in [Thread -> Provider]
        /\ ref \in [Thread -> Nat]
        /\ rest \in [Thread -> SUBSET Name]
        /\ got \in [Thread -> SUBSET Nat]
        /\ writer \in [Provider -> Thread \cup {Nobody}]
        /\ readers \in [Provider -> SUBSET Thread]
        /\ pc[t] # "idle" => PlaceOK(t)
    BY DEF TypeOK, CallsOK, LocksOK
  <1> DEFINE OK == /\ call' \in [Thread -> Call \cup {Idle}]
                   /\ pc' \in [Thread -> Labels]
                   /\ at' \in [Thread -> Provider]
                   /\ ref' \in [Thread -> Nat]
                   /\ rest' \in [Thread -> SUBSET Name]
                   /\ got' \in [Thread -> SUBSET Nat]
                   /\ writer' \in [Provider -> Thread \cup {Nobody}]
                   /\ readers' \in [Provider -> SUBSET Thread]
                   /\ pc'[t] # "idle" => PlaceOK(t)'
                   /\ pc'[t] = "idle" => got'[t] = {}
  <1> SUFFICES OK
    BY <1>0, <1>1 DEF CallsOK, LocksOK, TypeOK, Same
  <1>b. "own" \in Provider /\ "parent" \in Provider
    BY DEF Provider
  <1>c. /\ \A p \in Provider, n \in Name : Range(map[p][n]) \subseteq Nat
        /\ \A p \in Provider : Listed(p) \subseteq Nat
    BY ListsType DEF TypeOK
  <1>d. \A p \in Provider, n \in Name : map[p][n] # <<>> => map[p][n][1] \in Nat
    BY ListsType DEF TypeOK
  <1>2. CASE Begins(t)
    <2>1. PICK c \in Calls[t] : Begin(t, c)
      BY <1>2 DEF Begins
    <2>2. c \in Call /\ c.on \in Provider /\ c.op \in Ops
      BY CallsAssumption DEF Call
    <2>3. call'[t] = c /\ at'[t] = c.on /\ pc'[t] = (IF c.op \in {"find"} \cup Enumerations THEN "read" ELSE "write") /\ Offered(c)
      BY <1>a, <2>1 DEF Begin
    <2>4. PlaceOK(t)'
      BY <1>0, <2>2, <2>3 DEF PlaceOK, Offered, Ops, Enumerations
    <2> QED
      BY <1>a, <2>1, <2>2, <2>4 DEF Begin, Labels
  <1>3. CASE LockShared(t)
    BY <1>a, <1>3, <1>0 DEF LockShared, Labels, PlaceOK, Offered
  <1>4. CASE Lock(t)
    <2>1. PlaceOK(t) /\ call[t].on \in Provider
      BY <1>a, <1>4, InCall DEF Lock
    <2>0. /\ call' = call /\ pc[t] = "write"
          /\ \/ call[t].op = "remove" /\ pc' = [pc EXCEPT ![t] = "erase"] /\ at' = at
             \/ call[t].op # "remove" /\ pc' = [pc EXCEPT ![t] = "put"] /\ at' = at
             \/ /\ call[t].op # "remove" /\ ~ call[t].overwrite /\ kind = "variables" /\ call[t].on # "parent"
                /\ pc' = [pc EXCEPT ![t] = "read"] /\ at' = [at EXCEPT ![t] = "parent"]
      BY <1>4 DEF Lock
    <2>2. PlaceOK(t)'
      BY <1>a, <1>0, <2>0, <2>1 DEF PlaceOK, Offered, Provider
    <2>3. writer' \in [Provider -> Thread \cup {Nobody}] /\ UNCHANGED <<readers, call, ref, rest, got>>
      BY <1>a, <1>4, <2>1 DEF Lock
    <2>4. pc' \in [Thread -> Labels] /\ at' \in [Thread -> Provider] /\ pc'[t] # "idle"
      BY <1>a, <1>b, <1>4 DEF Lock, Labels
    <2> QED
      BY <1>a, <2>2, <2>3, <2>4
  <1>5. CASE Look(t)
    <2> DEFINE found == map[at[t]][call[t].name]
    <2>1. /\ PlaceOK(t) /\ pc[t] = "look" /\ call[t].name \in Name
          /\ found # <<>> => found[1] \in Nat
      BY <1>a, <1>d, <1>5, InCall DEF Look
    <2>2. /\ call' = call /\ ref' = [ref EXCEPT ![t] = IF found = <<>> THEN 0 ELSE found[1]]
          /\ UNCHANGED <<rest, got, writer>>
          /\ readers' = [readers EXCEPT ![at[t]] = @ \ {t}]
          /\ \/ found # <<>> /\ pc' = [pc EXCEPT ![t] = "copy"] /\ at' = at
             \/ at[t] = "own" /\ pc' = [pc EXCEPT ![t] = "read"] /\ at' = [at EXCEPT ![t] = "parent"]
             \/ call[t].op = "add" /\ pc' = [pc EXCEPT ![t] = "put"] /\ at' = at
             \/ pc' = [pc EXCEPT ![t] = "return"] /\ at' = at
      BY <1>5 DEF Look
    <2> HIDE DEF found
    <2>3. PlaceOK(t)'
      BY <1>0, <1>a, <1>5, <2>1, <2>2 DEF Look, PlaceOK, Offered
    <2>4. pc' \in [Thread -> Labels] /\ pc'[t] # "idle"
      BY <1>a, <1>5, <2>2 DEF Labels
    <2>5. at' \in [Thread -> Provider] /\ ref' \in [Thread -> Nat]
      BY <1>a, <1>b, <2>1, <2>2
    <2> QED
      BY <1>a, <2>2, <2>3, <2>4, <2>5
  <1>6. CASE LookFlat(t)
    BY <1>a, <1>b, <1>c, <1>d, <1>6, <1>0, InCall DEF LookFlat, Labels, PlaceOK, Offered
  <1>7. CASE Copy(t)
    BY <1>a, <1>7, <1>0 DEF Copy, Labels, PlaceOK, Offered
  <1>8. CASE Enumerate(t)
    <2>1. CASE at[t] = "parent" /\ call[t].on = "own"
      <3>1. /\ UNCHANGED <<writer, readers, call, at, ref, got>>
            /\ rest' = [rest EXCEPT ![t] = {n \in Name : map["parent"][n] # <<>>}]
            /\ pc' = [pc EXCEPT ![t] = "filter"]
        BY <1>8, <2>1 DEF Enumerate
      <3>2. PlaceOK(t) /\ call[t].op \in Enumerations /\ kind = "variables"
        BY <1>a, <1>8 DEF Enumerate, PlaceOK
      <3>3. PlaceOK(t)'
        BY <1>a, <1>0, <2>1, <3>1, <3>2 DEF PlaceOK, Offered, Enumerations
      <3> QED
        BY <1>a, <3>1, <3>3 DEF Labels
    <2>2. CASE ~ (at[t] = "parent" /\ call[t].on = "own")
      <3>1. /\ UNCHANGED <<writer, call, ref, rest>> /\ UnlockShared(t)
            /\ got' = [got EXCEPT ![t] = @ \cup Listed(at[t])]
            /\ pc' = [pc EXCEPT ![t] = "read"] \/ pc' = [pc EXCEPT ![t] = "return"]
            /\ at' = [at EXCEPT ![t] = "parent"]
        BY <1>8, <2>2 DEF Enumerate, LevelDone
      <3>2. PlaceOK(t) /\ call[t].op \in Enumerations /\ kind = "variables"
        BY <1>a, <1>8 DEF Enumerate, PlaceOK
      <3>3. PlaceOK(t)'
        BY <1>a, <1>0, <3>1, <3>2 DEF PlaceOK, Offered
      <3>4. Listed(at[t]) \subseteq Nat
        BY <1>a, <1>c
      <3> HIDE DEF Above
      <3> QED
        BY <1>a, <1>b, <3>1, <3>3, <3>4 DEF Labels
    <2> QED
      BY <2>1, <2>2
  <1>9. CASE EnumerateFlat(t)
    <2>1. PlaceOK(t)'
      BY <1>a, <1>b, <1>9, <1>0 DEF EnumerateFlat, LevelDone, PlaceOK, Offered
    <2> QED
      BY <1>a, <1>b, <1>c, <1>9, <2>1 DEF EnumerateFlat, LevelDone, Labels
  <1>10. CASE EnumerateOverloads(t)
    <2>1. Overloads(t) \subseteq Nat
      BY <1>a, <1>c, <1>10, InCall DEF EnumerateOverloads, Overloads
    <2>2. PlaceOK(t)'
      BY <1>a, <1>b, <1>10, <1>0 DEF EnumerateOverloads, LevelDone, PlaceOK, Offered
    <2> QED
      BY <1>a, <1>b, <1>10, <2>1, <2>2 DEF EnumerateOverloads, LevelDone, Labels
  <1>11. CASE Filter(t)
    <2>1. PlaceOK(t)'
      BY <1>a, <1>11, <1>0 DEF Filter, PlaceOK, Offered
    <2>2. CASE rest[t] = {} /\ UnlockShared(t) /\ Goto(t, "return") /\ UNCHANGED <<rest, got>>
      BY <1>a, <1>11, <2>1, <2>2 DEF Filter, Labels
    <2>3. ASSUME NEW n \in rest[t], rest' = [rest EXCEPT ![t] = @ \ {n}],
                 got' = [got EXCEPT ![t] = IF map["own"][n] = <<>> THEN @ \cup Range(map["parent"][n]) ELSE @],
                 UNCHANGED <<pc, readers>>
          PROVE  OK
      <3>1. n \in Name /\ Range(map["parent"][n]) \subseteq Nat
        BY <1>a, <1>b, <1>c
      <3> QED
        BY <1>a, <1>11, <2>1, <2>3, <3>1 DEF Filter
    <2> QED
      BY <1>11, <2>2, <2>3 DEF Filter
  <1>12. CASE Put(t)
    <2> DEFINE old == map[call[t].on][call[t].name]
    <2>1. old # <<>> => old[1] \in Nat
      BY <1>d, <1>12, InCall DEF Put
    <2>2. Len(declared) \in Nat
      BY DEF TypeOK, MapOK
    <2>3. /\ UNCHANGED <<call, at, rest, got, readers>>
          /\ ref' = ref \/ ref' = [ref EXCEPT ![t] = Len(declared) + 1]
             \/ (old # <<>> /\ ref' = [ref EXCEPT ![t] = old[1]])
          /\ writer' = writer \/ writer' = [p \in Provider |-> IF writer[p] = t THEN Nobody ELSE writer[p]]
          /\ \/ pc' = [pc EXCEPT ![t] = "added"] \/ pc' = [pc EXCEPT ![t] = "throw"]
             \/ pc' = [pc EXCEPT ![t] = "assign"] /\ call[t].overwrite
      BY <1>12 DEF Put, NewNode
    <2>4. PlaceOK(t)'
      BY <1>a, <1>12, <1>0, <2>3 DEF Put, PlaceOK, Offered
    <2> HIDE DEF old
    <2>5. ref' \in [Thread -> Nat]
      BY <1>a, <2>1, <2>2, <2>3
    <2>6. writer' \in [Provider -> Thread \cup {Nobody}] /\ pc' \in [Thread -> Labels]
      BY <1>a, <2>3 DEF Labels
    <2> QED
      BY <1>a, <2>3, <2>4, <2>5, <2>6
  <1>18. CASE Assign(t)
    BY <1>a, <1>18, <1>0 DEF Assign, Labels, PlaceOK, Offered
  <1>13. CASE PutOverload(t)
    <2>1. Len(declared) \in Nat
      BY DEF TypeOK, MapOK
    <2>2. PlaceOK(t)'
      BY <1>a, <1>13, <1>0 DEF PutOverload, NewNode, PlaceOK, Offered
    <2> QED
      BY <1>a, <1>13, <2>1, <2>2 DEF PutOverload, NewNode, Labels
  <1>14. CASE Added(t)
    BY <1>a, <1>14, <1>0 DEF Added, Labels, PlaceOK, Offered
  <1>15. CASE Throw(t)
    BY <1>a, <1>15, <1>0 DEF Throw, Labels, PlaceOK, Offered
  <1>16. CASE Erase(t) \/ EraseOverload(t)
    BY <1>a, <1>16, <1>0 DEF Erase, EraseOverload, Erased, Labels, PlaceOK, Offered
  <1>17. CASE Return(t)
    BY <1>a, <1>b, <1>17, <1>0 DEF Return, Labels
  <1> QED
    BY <1>2, <1>3, <1>4, <1>5, <1>6, <1>7, <1>8, <1>9, <1>10, <1>11, <1>12, <1>13, <1>14, <1>15, <1>16, <1>17, <1>18
       DEF Takes, Step, Begins

LEMMA TypeInductive ==
  ASSUME TypeOK, [Next]_vars
  PROVE  TypeOK'
  <1>1. ASSUME NEW t \in Thread, Takes(t) PROVE TypeOK'
    BY <1>1, TableType, CallsType, SeenType DEF TypeOK
  <1>2. CASE UNCHANGED vars
    BY <1>2 DEF vars, TypeOK, MapOK, LocksOK, CallsOK, SeenOK, Entry, PlaceOK, Offered, Visible
  <1> QED
    BY <1>1, <1>2 DEF Next, Takes
-----------------------------------------------------------------------------
\* Locks.

\* What a step does to the locks follows from what it does to the place of its thread.
LocksFollow(t) ==
  \A p \in Provider :
    /\ readers'[p] = (readers[p] \ {t}) \cup (IF Reading(t)' /\ at'[t] = p THEN {t} ELSE {})
    /\ writer'[p] = IF Writing(t)' /\ call'[t].on = p THEN t ELSE IF writer[p] = t THEN Nobody ELSE writer[p]
    /\ Reading(t)' /\ at'[t] = p => (Reading(t) /\ at[t] = p) \/ writer[p] = Nobody
    /\ Writing(t)' /\ call'[t].on = p =>
         (Writing(t) /\ call[t].on = p) \/ (writer[p] = Nobody /\ readers[p] = {})

LEMMA LocksMove ==
  ASSUME TypeOK, TypeOK', LocksHeld, NEW t \in Thread, \A u \in Thread \ {t} : Same(u), LocksFollow(t)
  PROVE  LocksHeld'
  <1>1. ~ (Writing(t)' /\ Reading(t)' /\ at'[t] = call'[t].on)
    BY DEF TypeOK, CallsOK, PlaceOK, Writing, Reading, Enumerations
  <1>2. \A u \in Thread \ {t} : Reading(u)' = Reading(u) /\ Writing(u)' = Writing(u)
    BY DEF Same, Reading, Writing
  <1>3. ASSUME NEW p \in Provider
        PROVE  /\ \A u \in Thread : u \in readers'[p] <=> Reading(u)' /\ at'[u] = p
               /\ \A u \in Thread : writer'[p] = u <=> Writing(u)' /\ call'[u].on = p
               /\ writer'[p] # Nobody => readers'[p] = {}
    <2>1. ASSUME NEW u \in Thread PROVE u \in readers'[p] <=> Reading(u)' /\ at'[u] = p
      BY <1>2 DEF LocksHeld, Same, LocksFollow
    <2>2. ASSUME NEW u \in Thread PROVE writer'[p] = u <=> Writing(u)' /\ call'[u].on = p
      <3>1. CASE u = t
        BY <3>1, ProviderAssumption DEF LocksHeld, LocksFollow
      <3>2. CASE u # t /\ Writing(t)' /\ call'[t].on = p
        BY <1>2, <3>2, ProviderAssumption DEF LocksHeld, Same, LocksFollow
      <3>3. CASE u # t /\ ~ (Writing(t)' /\ call'[t].on = p)
        BY <1>2, <3>3, ProviderAssumption DEF LocksHeld, Same, LocksFollow
      <3> QED
        BY <3>1, <3>2, <3>3
    <2>3. readers[p] \subseteq Thread /\ readers'[p] \subseteq Thread /\ writer[p] \in Thread \cup {Nobody}
      BY DEF TypeOK, LocksOK
    <2>4. ASSUME writer'[p] # Nobody PROVE readers'[p] = {}
      <3>1. CASE Writing(t)' /\ call'[t].on = p
        <4>1. readers[p] = {}
          BY <3>1, ProviderAssumption DEF LocksHeld, LocksFollow
        <4> QED
          BY <1>1, <3>1, <4>1 DEF LocksFollow
      <3>2. CASE ~ (Writing(t)' /\ call'[t].on = p)
        <4>1. writer[p] # Nobody /\ readers[p] = {}
          BY <2>4, <3>2 DEF LocksHeld, LocksFollow
        <4>2. ~ (Reading(t)' /\ at'[t] = p)
          BY <4>1 DEF LocksHeld, LocksFollow
        <4> QED
          BY <4>1, <4>2 DEF LocksFollow
      <3> QED
        BY <3>1, <3>2
    <2> QED
      BY <2>1, <2>2, <2>4
  <1> QED
    BY <1>3 DEF LocksHeld

LEMMA LocksInductive ==
  ASSUME TypeOK, TypeOK', LocksHeld, [Next]_vars
  PROVE  LocksHeld'
  <1>1. ASSUME NEW t \in Thread, Takes(t) PROVE LocksHeld'
    <2> USE DEF Goto, UnlockShared, Unlock, Above, locks
    <2>0. \A u \in Thread \ {t} : Same(u)
      BY <1>1, Moves
    <2>a. /\ writer \in [Provider -> Thread \cup {Nobody}] /\ readers \in [Provider -> SUBSET Thread]
          /\ pc \in [Thread -> Labels] /\ at \in [Thread -> Provider]
          /\ call \in [Thread -> Call \cup {Idle}]
      BY DEF TypeOK, LocksOK, CallsOK
    <2>b. \A p \in Provider : /\ t \in readers[p] <=> Reading(t) /\ at[t] = p
                              /\ writer[p] = t <=> Writing(t) /\ call[t].on = p
                              /\ writer[p] # Nobody => readers[p] = {}
      BY DEF LocksHeld
    <2>p. pc[t] # "idle" => PlaceOK(t) /\ call[t].on \in Provider
      BY InCall DEF TypeOK, CallsOK
    \* The locks stay as they are, and so does what the thread needs of them.
    <2>k. CASE /\ UNCHANGED <<writer, readers>>
               /\ Reading(t)' = Reading(t) /\ (Reading(t) => at'[t] = at[t])
               /\ Writing(t)' = Writing(t) /\ (Writing(t) => call'[t].on = call[t].on)
      <3>1. LocksFollow(t)
        BY <2>a, <2>b, <2>k DEF LocksFollow
      <3> QED
        BY <2>0, <3>1, LocksMove
    \* A lock for reading is given back.
    <2>r. CASE /\ Reading(t) /\ ~ Reading(t)' /\ UnlockShared(t) /\ UNCHANGED <<writer, call>>
               /\ Writing(t)' = Writing(t)
      <3>1. LocksFollow(t)
        BY <2>a, <2>b, <2>r DEF LocksFollow
      <3> QED
        BY <2>0, <3>1, LocksMove
    \* A lock for writing is given back.
    <2>w. CASE /\ Writing(t) /\ ~ Writing(t)' /\ Unlock(t) /\ UNCHANGED readers
               /\ ~ Reading(t) /\ ~ Reading(t)'
      <3>1. LocksFollow(t)
        BY <2>a, <2>b, <2>w DEF LocksFollow
      <3> QED
        BY <2>0, <3>1, LocksMove
    <2>1. CASE Begins(t)
      <3>1. PICK c \in Calls[t] : Begin(t, c)
        BY <2>1 DEF Begins
      <3>2. UNCHANGED <<writer, readers>> /\ pc[t] = "idle" /\ call'[t] = c
            /\ pc'[t] = (IF c.op \in {"find"} \cup Enumerations THEN "read" ELSE "write")
        BY <2>a, <3>1 DEF Begin
      <3> QED
        BY <2>k, <3>2 DEF Reading, Writing, Enumerations
    <2>2. CASE LockShared(t)
      <3>1. /\ UNCHANGED <<writer, call, at>> /\ pc[t] = "read" /\ writer[at[t]] = Nobody
            /\ readers' = [readers EXCEPT ![at[t]] = @ \cup {t}]
            /\ pc'[t] \in {"look", "enumerate"}
            /\ pc'[t] = "enumerate" <=> call[t].op \in Enumerations
        BY <2>a, <2>2 DEF LockShared
      <3>2. Reading(t)' /\ ~ Reading(t) /\ Writing(t)' = Writing(t)
        BY <3>1 DEF Reading, Writing, Enumerations
      <3>3. LocksFollow(t)
        BY <2>a, <2>b, <3>1, <3>2 DEF LocksFollow
      <3> QED
        BY <2>0, <3>3, LocksMove
    <2>3. CASE Lock(t)
      <3> DEFINE p == call[t].on
      <3>1. /\ UNCHANGED <<readers, call>> /\ pc[t] = "write" /\ writer[p] = Nobody /\ readers[p] = {}
            /\ writer' = [writer EXCEPT ![p] = t]
            /\ pc'[t] \in {"erase", "put", "read"}
            /\ call[t].op = "remove" \/ call[t].op = "add"
            /\ call[t].op = "remove" <=> pc'[t] = "erase"
        BY <2>a, <2>p, <2>3 DEF Lock, PlaceOK
      <3>2. Writing(t)' /\ ~ Writing(t) /\ ~ Reading(t)' /\ ~ Reading(t)
        BY <3>1 DEF Reading, Writing
      <3>3. p \in Provider
        BY <2>p, <3>1
      <3>4. LocksFollow(t)
        BY <2>a, <2>b, <3>1, <3>2, <3>3 DEF LocksFollow
      <3> QED
        BY <2>0, <3>4, LocksMove
    <2>4. CASE Look(t) \/ LookFlat(t)
      <3>1. /\ UNCHANGED <<writer, call>> /\ UnlockShared(t) /\ pc[t] = "look" /\ PlaceOK(t)
            /\ pc'[t] \in {"copy", "read", "put", "return"}
            /\ (call[t].op = "find" /\ pc'[t] # "put") \/ (call[t].op = "add" /\ pc'[t] # "return")
        BY <2>a, <2>p, <2>4 DEF Look, LookFlat, PlaceOK
      <3> QED
        BY <2>r, <3>1 DEF Reading, Writing
    <2>5. CASE Enumerate(t) \/ EnumerateFlat(t) \/ EnumerateOverloads(t)
      <3>1. /\ UNCHANGED <<writer, call>> /\ pc[t] = "enumerate" /\ call[t].op \in Enumerations
            /\ \/ UnlockShared(t) /\ pc'[t] \in {"read", "return"}
               \/ UNCHANGED readers /\ pc'[t] = "filter" /\ at' = at
        BY <2>a, <2>p, <2>5 DEF Enumerate, EnumerateFlat, EnumerateOverloads, LevelDone, PlaceOK
      <3> QED
        BY <2>k, <2>r, <3>1 DEF Reading, Writing, Enumerations
    <2>6. CASE Filter(t)
      <3>1. /\ UNCHANGED <<writer, call>> /\ pc[t] = "filter" /\ call[t].op = "each"
            /\ \/ UnlockShared(t) /\ pc'[t] = "return"
               \/ UNCHANGED <<readers, pc, at>>
        BY <2>a, <2>p, <2>6 DEF Filter, PlaceOK
      <3> QED
        BY <2>k, <2>r, <3>1 DEF Reading, Writing
    <2>7. CASE Put(t) \/ Assign(t) \/ PutOverload(t) \/ Throw(t) \/ Erase(t) \/ EraseOverload(t)
      <3>1. /\ UNCHANGED <<readers, call, at>> /\ pc[t] \in {"put", "assign", "throw", "erase"}
            /\ \/ Unlock(t) /\ pc'[t] \in {"added", "return"}
               \/ UNCHANGED writer /\ pc'[t] \in {"throw", "assign"}
        BY <2>a, <2>7 DEF Put, Assign, PutOverload, NewNode, Throw, Erase, EraseOverload, Erased
      <3> QED
        BY <2>k, <2>w, <3>1 DEF Reading, Writing
    <2>8. CASE Copy(t) \/ Added(t) \/ Return(t)
      <3>1. /\ UNCHANGED <<readers, writer>>
            /\ \/ pc[t] = "copy" /\ UNCHANGED call /\ pc'[t] = IF call[t].op = "add" THEN "throw" ELSE "return"
               \/ pc[t] = "added" /\ pc'[t] = "return"
               \/ pc[t] = "return" /\ pc'[t] = "idle"
        BY <2>a, <2>8 DEF Copy, Added, Return
      <3> QED
        BY <2>k, <3>1 DEF Reading, Writing
    <2> QED
      BY <1>1, <2>1, <2>2, <2>3, <2>4, <2>5, <2>6, <2>7, <2>8 DEF Takes, Step, Begins
  <1>2. CASE UNCHANGED vars
    BY <1>2 DEF vars, LocksHeld, Reading, Writing
  <1> QED
    BY <1>1, <1>2 DEF Next, Takes
-----------------------------------------------------------------------------
\* What the steps do to the list of a name.

Adds(t, p, n) == pc[t] = "put" /\ call[t].on = p /\ call[t].name = n
Removes(t, p, n) == pc[t] = "erase" /\ call[t].on = p /\ call[t].name = n

LEMMA EmptyList ==
  ASSUME NEW S, NEW s \in Seq(S)
  PROVE  /\ Range(s) = {} <=> s = <<>>
         /\ s # <<>> => s[1] \in Range(s) /\ s[1] \in S
         /\ s # <<>> /\ Len(s) <= 1 => Range(s) = {s[1]}
  <1>1. CASE s = <<>>
    BY <1>1 DEF Range
  <1>2. CASE s # <<>>
    <2>1. 1 \in DOMAIN s /\ s[1] \in S
      BY <1>2
    <2>2. s[1] \in Range(s)
      BY <2>1 DEF Range
    <2>3. ASSUME Len(s) <= 1 PROVE Range(s) = {s[1]}
      <3>0. DOMAIN s = 1 .. Len(s) /\ Len(s) \in Nat
        OBVIOUS
      <3>1. Len(s) = 1
        BY <2>1, <2>3, <3>0
      <3>2. DOMAIN s = {1}
        BY <3>1
      <3> QED
        BY <3>2 DEF Range
    <2> QED
      BY <1>2, <2>1, <2>2, <2>3 DEF Range
  <1> QED
    BY <1>1, <1>2

LEMMA RangeOfAppend ==
  ASSUME NEW S, NEW s \in Seq(S), NEW e
  PROVE  Range(Append(s, e)) = Range(s) \cup {e}
  <1>1. DOMAIN Append(s, e) = DOMAIN s \cup {Len(s) + 1}
    OBVIOUS
  <1>2. \A i \in DOMAIN s : Append(s, e)[i] = s[i]
    OBVIOUS
  <1>3. Append(s, e)[Len(s) + 1] = e
    OBVIOUS
  <1> QED
    BY <1>1, <1>2, <1>3 DEF Range

LEMMA ListsMove ==
  ASSUME TypeOK, NEW t \in Thread, Takes(t), NEW p \in Provider, NEW n \in Name
  PROVE  /\ Range(map'[p][n]) \subseteq Range(map[p][n]) \cup {Len(declared) + 1}
         /\ ~ Adds(t, p, n) => Range(map'[p][n]) \subseteq Range(map[p][n])
         /\ ~ Removes(t, p, n) => Range(map[p][n]) \subseteq Range(map'[p][n])
  <1> DEFINE old == map[call[t].on][call[t].name]
  <1>1. CASE Untouched(t) \/ Replaced(t)
    BY <1>1 DEF Untouched, Replaced
  <1>2. CASE Grown(t)
    <2> DEFINE new == Append(old, Len(declared) + 1)
    <2>1. old \in Seq(Entry) /\ call[t].on \in Provider /\ call[t].name \in Name
      BY <1>2, InCall DEF Grown
    <2>2. Range(new) = Range(old) \cup {Len(declared) + 1}
      BY <2>1, RangeOfAppend
    <2>3. map' = [map EXCEPT ![call[t].on][call[t].name] = new]
      BY <1>2 DEF Grown
    <2> HIDE DEF new
    <2>4. CASE Adds(t, p, n)
      <3>1. map'[p][n] = new /\ map[p][n] = old
        BY <2>1, <2>3, <2>4 DEF Adds, TypeOK, MapOK
      <3> QED
        BY <2>2, <2>4, <3>1
    <2>5. CASE ~ Adds(t, p, n)
      <3>1. map'[p][n] = map[p][n]
        BY <1>2, <2>1, <2>3, <2>5 DEF Adds, TypeOK, MapOK, Grown
      <3> QED
        BY <3>1
    <2> QED
      BY <2>4, <2>5
  <1>3. CASE Shrunk(t)
    <2>1. call[t].on \in Provider /\ call[t].name \in Name
      BY <1>3, InCall DEF Shrunk
    <2>2. PICK new \in Seq(Entry) :
            Range(new) \subseteq Range(old) /\ map' = [map EXCEPT ![call[t].on][call[t].name] = new]
      BY <1>3 DEF Shrunk
    <2>3. CASE Removes(t, p, n)
      <3>1. map'[p][n] = new /\ map[p][n] = old
        BY <2>1, <2>2, <2>3 DEF Removes, TypeOK, MapOK
      <3> QED
        BY <2>2, <2>3, <3>1
    <2>4. CASE ~ Removes(t, p, n)
      <3>1. map'[p][n] = map[p][n]
        BY <1>3, <2>1, <2>2, <2>4 DEF Removes, TypeOK, MapOK, Shrunk
      <3> QED
        BY <3>1
    <2> QED
      BY <2>3, <2>4
  <1> QED
    BY <1>1, <1>2, <1>3, Moves

-----------------------------------------------------------------------------
\* References.

LEMMA ReferenceInductive ==
  ASSUME TypeOK, TypeOK', RefInv, RacesApart(Calls), [Next]_vars
  PROVE  RefInv'
  <1>1. ASSUME NEW t \in Thread, Takes(t) PROVE RefInv'
    <2>0. kind' = kind /\ (\A u \in Thread \ {t} : Same(u))
      BY <1>1, Moves
    <2>1. ASSUME NEW u \in Thread \ {t} PROVE RefersTo(u)'
      <3>1. RefersTo(u) /\ Same(u)
        BY <2>0 DEF RefInv
      <3>2. CASE ref[u] = 0
        BY <3>1, <3>2 DEF RefersTo, Same
      <3>3. CASE ref[u] # 0
        <4>1. PICK p \in Reaches(call[u]) : ref[u] \in Range(map[p][call[u].name])
          BY <3>1, <3>3 DEF RefersTo
        <4>2. /\ pc[u] \in Referring /\ call[u].op \in {"find", "add"}
              /\ call[u] \in Calls[u] /\ call[u].on \in Provider /\ call[u].name \in Name
          BY <3>1, <3>3, InCall DEF RefersTo, Referring, TypeOK, CallsOK, PlaceOK
        <4>3. p \in Provider
          BY <4>1, <4>2 DEF Provider, Reaches
        <4>4. ~ Removes(t, p, call[u].name)
          <5>1. SUFFICES ASSUME Removes(t, p, call[u].name) PROVE FALSE
            OBVIOUS
          <5>2. call[t] \in Calls[t] /\ call[t].op = "remove" /\ call[t].on = p /\ call[t].name = call[u].name
            BY <5>1, InCall DEF Removes, TypeOK, CallsOK, PlaceOK
          <5>3. call[t].on \notin Reaches(call[u])
            BY <4>2, <5>2 DEF RacesApart, Discards
          <5> QED
            BY <4>1, <5>2, <5>3
        <4>5. ref[u] \in Range(map'[p][call[u].name])
          BY <1>1, <4>1, <4>2, <4>3, <4>4, ListsMove
        <4> QED
          BY <3>1, <3>3, <4>1, <4>2, <4>5 DEF RefersTo, Same, Reaches
      <3> QED
        BY <3>2, <3>3
    <2>a. /\ ref \in [Thread -> Nat] /\ pc \in [Thread -> Labels] /\ RefersTo(t)
          /\ pc[t] # "idle" => PlaceOK(t) /\ call[t].on \in Provider /\ call[t].name \in Name
      BY InCall DEF TypeOK, CallsOK, RefInv
    <2>b. \A p \in Provider, n \in Name :
            map[p][n] # <<>> => map[p][n][1] \in Range(map[p][n]) /\ map[p][n][1] # 0
      <3>1. \A p \in Provider, n \in Name : map[p][n] \in Seq(Entry)
        BY DEF TypeOK, MapOK
      <3> QED
        BY <3>1, EmptyList DEF Entry
    <2>c. pc[t] \notin Referring => ref[t] = 0
      BY <2>a DEF RefersTo
    <2> SUFFICES RefersTo(t)'
      BY <2>1 DEF RefInv
    <2>k. CASE ref'[t] = 0 /\ pc'[t] \notin Referring
      BY <2>k DEF RefersTo
    \* A reference is taken, and the call stays the same.
    <2>r. CASE /\ call'[t] = call[t] /\ pc'[t] \in Referring /\ ref'[t] # 0
               /\ \E p \in Reaches(call[t]) : ref'[t] \in Range(map'[p][call[t].name])
      BY <2>r DEF RefersTo
    <2> USE DEF Referring
    <2>2. CASE Begins(t) \/ LockShared(t) \/ Lock(t) \/ Filter(t) \/ Throw(t) \/ Return(t)
      <3>1. ref' = ref /\ pc[t] \notin Referring /\ pc'[t] \notin Referring
        BY <2>a, <2>2 DEF Begins, Begin, LockShared, Lock, Filter, Throw, Return, Goto, locks
      <3> QED
        BY <2>c, <2>k, <3>1
    <2>3. CASE Enumerate(t) \/ EnumerateFlat(t) \/ EnumerateOverloads(t)
      <3>1. ref' = ref /\ pc[t] = "enumerate" /\ pc'[t] \notin Referring
        BY <2>a, <2>3 DEF Enumerate, EnumerateFlat, EnumerateOverloads, LevelDone, Goto, locks
      <3> QED
        BY <2>c, <2>k, <3>1
    <2>4. CASE Look(t)
      <3> DEFINE found == map[at[t]][call[t].name]
      <3>1. /\ call' = call /\ map' = map /\ pc[t] = "look"
            /\ ref'[t] = (IF found = <<>> THEN 0 ELSE found[1])
            /\ found # <<>> => pc'[t] = "copy"
            /\ found = <<>> => pc'[t] \notin Referring
        BY <2>a, <2>4 DEF Look, Goto
      <3>2. at[t] \in Reaches(call[t]) /\ at[t] \in Provider /\ call[t].name \in Name
        BY <2>a, <3>1 DEF PlaceOK, TypeOK, CallsOK, Reaches
      <3>3. found # <<>> => found[1] \in Range(found) /\ found[1] # 0
        BY <2>b, <3>2
      <3> HIDE DEF found
      <3>4. CASE found = <<>>
        BY <2>k, <3>1, <3>4
      <3>5. CASE found # <<>>
        <4>1. ref'[t] \in Range(map'[at[t]][call[t].name])
          BY <3>1, <3>3, <3>5 DEF found
        <4> QED
          BY <2>r, <3>1, <3>2, <3>3, <3>5, <4>1
      <3> QED
        BY <3>4, <3>5
    <2>5. CASE LookFlat(t)
      <3> DEFINE found == map["own"][call[t].name]
      <3>1. /\ call' = call /\ map' = map /\ pc[t] = "look" /\ kind = "types"
            /\ found # <<>> => pc'[t] = "copy" /\ ref'[t] = found[1]
            /\ found = <<>> => pc'[t] \notin Referring /\ ref'[t] = ref[t]
        BY <2>a, <2>5 DEF LookFlat, Goto
      <3>2. call[t].on = "own" /\ "own" \in Provider /\ call[t].name \in Name
        BY <2>a, <3>1 DEF PlaceOK, Offered, Provider
      <3>3. found # <<>> => found[1] \in Range(found) /\ found[1] # 0
        BY <2>b, <3>2
      <3> HIDE DEF found
      <3>4. CASE found = <<>>
        BY <2>c, <2>k, <3>1, <3>4
      <3>5. CASE found # <<>>
        <4>1. ref'[t] \in Range(map'["own"][call[t].name])
          BY <3>1, <3>3, <3>5 DEF found
        <4> QED
          BY <2>r, <3>1, <3>2, <3>3, <3>5, <4>1 DEF Reaches
      <3> QED
        BY <3>4, <3>5
    <2>6. CASE Copy(t) \/ Added(t)
      <3>1. ref'[t] = 0 /\ pc'[t] \notin Referring
        BY <2>a, <2>6 DEF Copy, Added, Goto
      <3> QED
        BY <2>k, <3>1
    <2>7. CASE Put(t) \/ PutOverload(t)
      <3> DEFINE old == map[call[t].on][call[t].name]
      <3>1. pc[t] = "put" /\ call' = call /\ call[t].on \in Provider /\ call[t].name \in Name
        BY <2>a, <2>7 DEF Put, PutOverload
      <3>2. CASE \E others : NewNode(t, others) /\ others \in Seq(Entry)
        <4>1. PICK others \in Seq(Entry) : NewNode(t, others)
          BY <3>2
        <4>2. /\ map' = [map EXCEPT ![call[t].on][call[t].name] = Append(others, Len(declared) + 1)]
              /\ ref'[t] = Len(declared) + 1 /\ pc'[t] = "added"
          BY <2>a, <4>1 DEF NewNode, Change, Goto
        <4>3. map'[call[t].on][call[t].name] = Append(others, Len(declared) + 1) /\ Len(declared) \in Nat
          BY <3>1, <4>2 DEF TypeOK, MapOK
        <4>4. Len(declared) + 1 \in Range(Append(others, Len(declared) + 1))
          BY RangeOfAppend
        <4> DEFINE new == Append(others, Len(declared) + 1)
        <4>5. map'[call[t].on][call[t].name] = new /\ ref'[t] \in Range(new) /\ ref'[t] # 0
          BY <4>2, <4>3, <4>4
        <4> HIDE DEF new
        <4> QED
          BY <2>r, <3>1, <4>2, <4>5 DEF Reaches
      <3>3. CASE Put(t) /\ old # <<>> /\ call[t].overwrite
        <4>1. ref'[t] = old[1] /\ pc'[t] = "assign" /\ map' = map
          BY <2>a, <3>3 DEF Put, Goto
        <4>2. old[1] \in Range(old) /\ old[1] # 0
          BY <2>b, <3>1, <3>3
        <4>3. ref'[t] \in Range(map'[call[t].on][call[t].name])
          BY <4>1, <4>2
        <4> HIDE DEF old
        <4> QED
          BY <2>r, <3>1, <4>1, <4>2, <4>3 DEF Reaches
      <3>4. CASE Put(t) /\ old # <<>> /\ ~ call[t].overwrite
        <4>1. ref' = ref /\ pc'[t] = "throw"
          BY <2>a, <3>4 DEF Put, Goto
        <4> QED
          BY <2>c, <2>k, <3>1, <4>1
      <3>5. old \in Seq(Entry) /\ <<>> \in Seq(Entry)
        BY <3>1 DEF TypeOK, MapOK
      <3> QED
        BY <2>7, <3>2, <3>3, <3>4, <3>5 DEF Put, PutOverload
    <2>8. CASE Erase(t) \/ EraseOverload(t)
      <3>1. ref' = ref /\ pc[t] = "erase" /\ pc'[t] \notin Referring
        BY <2>a, <2>8 DEF Erase, EraseOverload, Erased, Goto
      <3> QED
        BY <2>c, <2>k, <3>1
    <2>9. CASE Assign(t)
      <3>1. /\ UNCHANGED <<map, call, ref>> /\ pc[t] = "assign" /\ pc'[t] = "added"
        BY <2>a, <2>9 DEF Assign, Goto
      <3> QED
        BY <2>a, <2>r, <3>1 DEF RefersTo
    <2> QED
      BY <1>1, <2>2, <2>3, <2>4, <2>5, <2>6, <2>7, <2>8, <2>9 DEF Takes, Step, Begins
  <1>2. CASE UNCHANGED vars
    BY <1>2 DEF vars, RefInv, RefersTo
  <1> QED
    BY <1>1, <1>2 DEF Next, Takes

\* A new entry is put into one list.
LEMMA OneListInductive ==
  ASSUME TypeOK, OneList, [Next]_vars
  PROVE  OneList'
  <1>1. ASSUME NEW t \in Thread, Takes(t) PROVE OneList'
    <2> SUFFICES ASSUME NEW p \in Provider, NEW q \in Provider, NEW m \in Name, NEW n \in Name,
                        NEW e \in Range(map'[p][m]), e \in Range(map'[q][n])
                 PROVE  p = q /\ m = n
      BY DEF OneList
    <2>1. CASE e \in Entry
      <3>1. e # Len(declared) + 1
        BY <2>1 DEF Entry, TypeOK, MapOK
      <3>2. e \in Range(map[p][m]) /\ e \in Range(map[q][n])
        BY <1>1, <3>1, ListsMove
      <3> QED
        BY <3>2 DEF OneList
    <2>2. CASE e \notin Entry
      <3>1. e \notin Range(map[p][m]) /\ e \notin Range(map[q][n])
        BY <2>2, ListsType DEF TypeOK
      <3>2. Adds(t, p, m) /\ Adds(t, q, n)
        BY <1>1, <3>1, ListsMove
      <3> QED
        BY <3>2 DEF Adds
    <2> QED
      BY <2>1, <2>2
  <1>2. CASE UNCHANGED vars
    BY <1>2 DEF vars, OneList
  <1> QED
    BY <1>1, <1>2 DEF Next, Takes

\* Who assigns an entry that another thread has a reference to is a replacement of what that
\* thread looks for or adds.
LEMMA ReferencesSettled ==
  ASSUME TypeOK, RefInv, OneList, RacesApart(Calls)
  PROVE  ReferenceValid
  <1> SUFFICES ASSUME NEW t \in Thread, pc[t] \in {"copy", "added"}
               PROVE  Settled(ref[t])
    BY DEF ReferenceValid
  <1>1. ASSUME NEW u \in Thread, pc[u] \in Referring
        PROVE  /\ call[u] \in Calls[u] /\ call[u].name \in Name /\ call[u].op \in {"find", "add"}
               /\ pc[u] = "assign" => call[u].op = "add" /\ call[u].overwrite
               /\ Reaches(call[u]) \subseteq Provider
               /\ \E p \in Reaches(call[u]) : ref[u] \in Range(map[p][call[u].name])
    <2>1. pc[u] # "idle" /\ PlaceOK(u) /\ RefersTo(u)
      BY <1>1 DEF Referring, TypeOK, CallsOK, RefInv
    <2>2. call[u] \in Calls[u] /\ call[u].name \in Name /\ call[u].on \in Provider
      BY <2>1, InCall
    <2>3. Reaches(call[u]) \subseteq Provider
      BY <2>2 DEF Reaches, Provider
    <2>4. /\ call[u].op \in {"find", "add"}
          /\ pc[u] = "assign" => call[u].op = "add" /\ call[u].overwrite
      BY <1>1, <2>1 DEF PlaceOK, Referring
    <2> QED
      BY <1>1, <2>1, <2>2, <2>3, <2>4 DEF RefersTo
  <1>2. PICK p \in Reaches(call[t]) : ref[t] \in Range(map[p][call[t].name])
    BY <1>1 DEF Referring
  <1>3. p \in Provider /\ call[t].name \in Name /\ call[t] \in Calls[t] /\ call[t].op \in {"find", "add"}
    BY <1>1, <1>2 DEF Referring
  <1>4. ref[t] \in Listed(p)
    BY <1>2, <1>3 DEF Listed
  <1>5. ASSUME NEW u \in Thread, pc[u] = "assign", ref[u] = ref[t]
        PROVE  FALSE
    <2>1. PICK q \in Reaches(call[u]) : ref[t] \in Range(map[q][call[u].name])
      BY <1>1, <1>5 DEF Referring
    <2>2. /\ q \in Provider /\ call[u].name \in Name /\ call[u] \in Calls[u]
          /\ call[u].op = "add" /\ call[u].overwrite
      BY <1>1, <1>5, <2>1 DEF Referring
    <2>3. q = call[u].on
      BY <2>1, <2>2 DEF Reaches
    <2>4. q = p /\ call[u].name = call[t].name
      BY <1>2, <1>3, <2>1, <2>2 DEF OneList
    <2>5. u # t
      BY <1>5
    <2>6. call[u].on \notin Reaches(call[t])
      BY <1>3, <2>2, <2>4, <2>5 DEF RacesApart, Discards
    <2> QED
      BY <1>2, <2>3, <2>4, <2>6
  <1> QED
    BY <1>3, <1>4, <1>5 DEF Settled

-----------------------------------------------------------------------------
\* Finds.

\* What is visible, by the kind of the provider.
LEMMA VisibleIs ==
  ASSUME TypeOK, NEW n \in Name
  PROVE  /\ Visible(map, "parent", n) = Range(map["parent"][n])
         /\ kind # "functions" =>
              Visible(map, "own", n) = IF map["own"][n] = <<>> THEN Range(map["parent"][n]) ELSE Range(map["own"][n])
         /\ kind = "functions" => Visible(map, "own", n) = Range(map["own"][n]) \cup Range(map["parent"][n])
         /\ kind = "types" => Visible(map, "own", n) = Range(map["own"][n])
         /\ \A p \in Provider : /\ Range(map[p][n]) = {} <=> map[p][n] = <<>>
                                /\ kind # "functions" /\ map[p][n] # <<>> => Range(map[p][n]) = {map[p][n][1]}
  <1>1. "own" \in Provider /\ "parent" \in Provider
    BY DEF Provider
  <1>2. ASSUME NEW p \in Provider
        PROVE  /\ Range(map[p][n]) = {} <=> map[p][n] = <<>>
               /\ kind # "functions" /\ map[p][n] # <<>> => Range(map[p][n]) = {map[p][n][1]}
    <2>1. map[p][n] \in Seq(Entry) /\ (kind # "functions" => Len(map[p][n]) <= 1)
      BY DEF TypeOK, MapOK
    <2> QED
      BY <2>1, EmptyList
  <1>3. kind = "types" => map["parent"][n] = <<>>
    BY DEF TypeOK, MapOK
  <1>4. /\ Visible(map, "parent", n) = Range(map["parent"][n])
        /\ kind # "functions" =>
             Visible(map, "own", n) = IF map["own"][n] = <<>> THEN Range(map["parent"][n]) ELSE Range(map["own"][n])
        /\ kind = "functions" => Visible(map, "own", n) = Range(map["own"][n]) \cup Range(map["parent"][n])
    BY DEF Visible
  <1>5. kind = "types" => Visible(map, "own", n) = Range(map["own"][n])
    BY <1>1, <1>2, <1>3, <1>4
  <1> QED
    BY <1>2, <1>4, <1>5

LEMMA OthersFind ==
  ASSUME TypeOK, NEW t \in Thread, Takes(t), RacesApart(Calls), NEW u \in Thread \ {t}, pc[u] # "idle", Finding(u)
  PROVE  Finding(u)'
  <1> SUFFICES ASSUME call[u].op = "find" PROVE Finding(u)'
    BY Moves DEF Finding, Same
  <1>1. Same(u) /\ kind' = kind
    BY Moves
  <1> DEFINE n == call[u].name
  <1>2. /\ call[u] \in Calls[u] /\ n \in Name /\ call[u].on \in Provider /\ kind # "functions"
        /\ "own" \in Provider /\ "parent" \in Provider
    BY InCall DEF TypeOK, CallsOK, PlaceOK, Offered, Provider
  <1>3. /\ seen[u][n] \subseteq seen'[u][n] /\ seen[u][n] # {}
        /\ seen[u][n] \subseteq SUBSET Entry
        /\ Visible(map, call[u].on, n)' \in seen'[u][n]
    BY <1>2, SeesMore DEF TypeOK, SeenOK
  <1>4. Came(u, n) \subseteq {e \in UNION seen'[u][n] : \E visible \in seen'[u][n] : e \notin visible}
    BY <1>3 DEF Came
  <1>5. Range(map["parent"][n]) \subseteq Range(map'["parent"][n])
    <2>1. ~ Removes(t, "parent", n)
      <3>1. SUFFICES ASSUME Removes(t, "parent", n) PROVE FALSE
        OBVIOUS
      <3>2. call[t] \in Calls[t] /\ call[t].op = "remove" /\ call[t].on = "parent" /\ call[t].name = n
        BY <3>1, InCall DEF Removes, TypeOK, CallsOK, PlaceOK
      <3>3. "parent" \in Reaches(call[u])
        BY DEF Reaches
      <3> QED
        BY <1>2, <3>2, <3>3 DEF RacesApart, Discards
    <2> QED
      BY <1>2, <2>1, ListsMove
  \* What answers goes on to answer.
  <1>6. ASSUME NEW found, Answers(u, found)
        PROVE  \/ found \in seen'[u][n]
               \/ /\ call[u].on = "own"
                  /\ \E f \in found \cap Range(map'["parent"][n]),
                        e \in {x \in UNION seen'[u][n] : \E visible \in seen'[u][n] : x \notin visible} : e < f
    BY <1>3, <1>4, <1>5, <1>6 DEF Answers
  <1>7. ASSUME pc[u] \in {"read", "look"}, Below(u)
        PROVE  PastOwn(u, n)' /\ Answers(u, Range(map["parent"][n]))'
    <2>1. PastOwn(u, n) /\ Answers(u, Range(map["parent"][n])) /\ got[u] = {} /\ call[u].on = "own"
      BY <1>7 DEF Finding, Below
    <2>2. ASSUME NEW e \in Range(map'["own"][n])
          PROVE  e \in got'[u] \/ \E visible \in seen'[u][n] : e \notin visible
      <3>1. CASE e \in Range(map["own"][n])
        BY <1>1, <1>3, <2>1, <3>1 DEF PastOwn, Same
      <3>2. CASE e = Len(declared) + 1
        <4>1. e \notin Entry
          BY <3>2 DEF Entry, TypeOK, MapOK
        <4> QED
          BY <1>3, <4>1
      <3> QED
        BY <1>2, <3>1, <3>2, ListsMove
    <2>3. CASE Range(map'["parent"][n]) = Range(map["parent"][n])
      <3>1. Answers(u, Range(map["parent"][n]))'
        BY <1>1, <1>6, <2>1, <2>3 DEF Answers, Came, Same
      <3> QED
        BY <1>1, <2>2, <3>1 DEF PastOwn, Same
    <2>4. CASE Range(map'["parent"][n]) # Range(map["parent"][n])
      <3>1. Adds(t, "parent", n) /\ Len(declared) + 1 \in Range(map'["parent"][n])
        BY <1>2, <1>5, <2>4, ListsMove
      <3>2. map["own"][n] \in Seq(Entry) /\ map'["own"][n] \in Seq(Entry')
        BY <1>2, TableType DEF TypeOK, MapOK
      <3>3. CASE map["own"][n] = <<>>
        <4>1. ~ Adds(t, "own", n)
          BY <3>1 DEF Adds
        <4>2. Range(map'["own"][n]) \subseteq Range(map["own"][n])
          BY <1>2, <4>1, ListsMove
        <4>3. Range(map["own"][n]) = {}
          BY <3>2, <3>3, EmptyList
        <4>4. map'["own"][n] = <<>>
          BY <3>2, <4>2, <4>3, EmptyList
        <4>5. Visible(map, call[u].on, n)' = Range(map'["parent"][n])
          BY <1>1, <1>2, <2>1, <4>4 DEF Visible, Same
        <4>6. Answers(u, Range(map["parent"][n]))'
          BY <1>1, <1>3, <4>5 DEF Answers, Same
        <4> QED
          BY <1>1, <2>2, <4>6 DEF PastOwn, Same
      <3>4. CASE map["own"][n] # <<>>
        <4> DEFINE e == map["own"][n][1]
                   f == Len(declared) + 1
        <4>1. e \in Range(map["own"][n]) /\ e \in Entry
          BY <3>2, <3>4, EmptyList
        <4>2. \E visible \in seen[u][n] : e \notin visible
          BY <2>1, <4>1 DEF PastOwn
        <4>3. e \in Visible(map, "own", n) /\ Visible(map, "own", n) \in seen[u][n]
          BY <1>2, <2>1, <3>4, <4>1 DEF Visible, TypeOK, SeenOK
        <4>4. e \in Came(u, n)
          BY <4>2, <4>3 DEF Came
        <4>5. e < f
          BY <4>1 DEF Entry, TypeOK, MapOK
        <4> HIDE DEF e, f
        <4>6. f \in Range(map'["parent"][n])
          BY <3>1 DEF f
        <4>7. Answers(u, Range(map["parent"][n]))'
          BY <1>1, <1>4, <2>1, <4>4, <4>5, <4>6 DEF Answers, Came, Same
        <4> QED
          BY <1>1, <2>2, <4>7 DEF PastOwn, Same
      <3> QED
        BY <3>3, <3>4
    <2> QED
      BY <2>3, <2>4
  <1>8. pc[u] = "copy" => Answers(u, {ref[u]})'
    BY <1>1, <1>6 DEF Finding, Same, Answers, Came
  <1>9. pc[u] = "return" => Answers(u, got[u])'
    BY <1>1, <1>6 DEF Finding, Same, Answers, Came
  <1>10. pc[u] \in {"read", "look"} => got'[u] = {}
    BY <1>1 DEF Finding, Same
  <1>11. Below(u)' = Below(u)
    BY <1>1 DEF Below, Same
  <1> QED
    BY <1>1, <1>7, <1>8, <1>9, <1>10, <1>11 DEF Finding, Same

LEMMA OwnFind ==
  ASSUME TypeOK, NEW t \in Thread, Takes(t), Finding(t), ReferenceValid
  PROVE  Finding(t)'
  <1>0. /\ pc \in [Thread -> Labels] /\ at \in [Thread -> Provider] /\ call \in [Thread -> Call \cup {Idle}]
        /\ got \in [Thread -> SUBSET Nat] /\ ref \in [Thread -> Nat]
        /\ pc[t] # "idle" => PlaceOK(t) /\ call[t].name \in Name /\ call[t].on \in Provider
        /\ pc[t] = "idle" => got[t] = {}
    BY InCall DEF TypeOK, CallsOK
  <1> DEFINE n == call[t].name
             visible == seen[t][n]
             own == map["own"][n]
             parent == map["parent"][n]
  <1>1. CASE Begins(t)
    <2>1. PICK c \in Calls[t] : Begin(t, c)
      BY <1>1 DEF Begins
    <2>0. c.on \in Provider
      BY CallsAssumption DEF Call
    <2>2. call'[t] = c /\ at'[t] = c.on /\ got'[t] = {} /\ c.on \in Provider
          /\ pc'[t] = (IF c.op \in {"find"} \cup Enumerations THEN "read" ELSE "write")
      BY <1>0, <2>0, <2>1 DEF Begin, Goto
    <2> QED
      BY <2>2 DEF Finding, Below
  <1>2. CASE Return(t)
    <2>1. call'[t].op = "none"
      BY <1>0, <1>2 DEF Return, Idle
    <2> QED
      BY <2>1 DEF Finding
  <1>3. CASE call[t].op # "find" /\ call'[t] = call[t]
    BY <1>3 DEF Finding
  <1>4. CASE LockShared(t) /\ call[t].op = "find"
    <2>1. pc[t] = "read" /\ pc'[t] = "look" /\ UNCHANGED <<call, at, got, map, seen>>
      BY <1>0, <1>4 DEF LockShared, Goto, Enumerations
    <2> QED
      BY <1>4, <2>1 DEF Finding, Below, PastOwn, Answers, Came
  <1>5. CASE Look(t) /\ call[t].op = "find"
    <2>1. /\ pc[t] = "look" /\ kind = "variables" /\ UNCHANGED <<call, got, map, seen>> /\ n \in Name
          /\ at[t] \in {"own", "parent"} /\ call[t].on \in {"own", "parent"} /\ got[t] = {}
          /\ at[t] = call[t].on \/ Below(t)
      BY <1>0, <1>5 DEF Look, Finding, PlaceOK, Below, Provider
    <2>2. Visible(map, call[t].on, n) \in visible
      BY <2>1 DEF TypeOK, SeenOK
    <2>3. Below(t) => PastOwn(t, n) /\ Answers(t, Range(parent))
      BY <1>5, <2>1 DEF Finding
    <2>4. "own" \in Provider /\ "parent" \in Provider
      BY DEF Provider
    <2>5. /\ Visible(map, "parent", n) = Range(parent)
          /\ Visible(map, "own", n) = IF own = <<>> THEN Range(parent) ELSE Range(own)
          /\ Range(own) = {} <=> own = <<>>
          /\ Range(parent) = {} <=> parent = <<>>
          /\ own # <<>> => Range(own) = {own[1]}
          /\ parent # <<>> => Range(parent) = {parent[1]}
      BY <2>1, <2>4, VisibleIs
    <2> HIDE DEF n, visible, own, parent
    <2>6. CASE at[t] = "own" /\ own = <<>>
      <3>1. pc'[t] = "read" /\ at'[t] = "parent" /\ call[t].on = "own"
        BY <1>0, <1>5, <2>1, <2>6 DEF Look, Goto, Above, Below, own, n
      <3>2. Range(parent) \in visible
        BY <2>2, <2>5, <2>6, <3>1
      <3>4. Answers(t, Range(map["parent"][n]))'
        BY <2>1, <3>2 DEF Answers, visible, parent, n
      <3>3. PastOwn(t, n)'
        BY <2>1, <2>5, <2>6 DEF PastOwn, own, n
      <3> QED
        BY <2>1, <3>1, <3>3, <3>4 DEF Finding, n
    <2>7. CASE at[t] = "own" /\ own # <<>>
      <3>1. pc'[t] = "copy" /\ ref'[t] = own[1] /\ call[t].on = "own"
        BY <1>0, <1>5, <2>1, <2>7 DEF Look, Goto, Below, own, n
      <3>2. Range(own) \in visible /\ Range(own) = {own[1]}
        BY <2>2, <2>5, <2>7, <3>1
      <3>3. Answers(t, {ref[t]})'
        BY <2>1, <3>1, <3>2 DEF Answers, visible, n
      <3> QED
        BY <2>1, <3>1, <3>3 DEF Finding
    <2>8. CASE at[t] = "parent" /\ parent = <<>>
      <3>1. pc'[t] = "return" /\ got'[t] = {}
        BY <1>0, <1>5, <2>1, <2>8 DEF Look, Goto, parent, n
      <3>2. {} \in visible
        <4>1. CASE Below(t)
          BY <2>3, <2>5, <2>8, <4>1 DEF Answers, visible, n
        <4>2. CASE call[t].on = "parent"
          BY <2>2, <2>5, <2>8, <4>2
        <4> QED
          BY <2>1, <2>8, <4>1, <4>2
      <3>3. Answers(t, got[t])'
        BY <2>1, <3>1, <3>2 DEF Answers, visible, n
      <3> QED
        BY <2>1, <3>1, <3>3 DEF Finding
    <2>9. CASE at[t] = "parent" /\ parent # <<>>
      <3>1. pc'[t] = "copy" /\ ref'[t] = parent[1]
        BY <1>0, <1>5, <2>1, <2>9 DEF Look, Goto, parent, n
      <3>2. Answers(t, {parent[1]})
        <4>1. CASE Below(t)
          BY <2>3, <2>5, <2>9, <4>1
        <4>2. CASE call[t].on = "parent"
          BY <2>2, <2>5, <2>9, <4>2 DEF Answers, visible, n
        <4> QED
          BY <2>1, <2>9, <4>1, <4>2
      <3>3. Answers(t, {ref[t]})'
        BY <2>1, <3>1, <3>2 DEF Answers, Came
      <3> QED
        BY <2>1, <3>1, <3>3 DEF Finding
    <2> QED
      BY <2>1, <2>6, <2>7, <2>8, <2>9
  <1>6. CASE LookFlat(t) /\ call[t].op = "find"
    <2>1. /\ pc[t] = "look" /\ kind = "types" /\ UNCHANGED <<call, got, map, seen>> /\ n \in Name
          /\ call[t].on = "own" /\ got[t] = {}
      BY <1>0, <1>6 DEF LookFlat, Finding, PlaceOK, Offered
    <2>2. Visible(map, "own", n) \in visible
      BY <2>1 DEF TypeOK, SeenOK
    <2>3. /\ Visible(map, "own", n) = Range(own)
          /\ Range(own) = {} <=> own = <<>>
          /\ own # <<>> => Range(own) = {own[1]}
      <3>1. "own" \in Provider
        BY DEF Provider
      <3> QED
        BY <2>1, <3>1, VisibleIs
    <2> HIDE DEF n, visible, own, parent
    <2>4. CASE own = <<>>
      <3>1. pc'[t] = "return" /\ got'[t] = {}
        BY <1>0, <1>6, <2>1, <2>4 DEF LookFlat, Goto, own, n
      <3>2. Answers(t, got[t])'
        BY <2>1, <2>2, <2>3, <2>4, <3>1 DEF Answers, visible, n
      <3> QED
        BY <2>1, <3>1, <3>2 DEF Finding
    <2>5. CASE own # <<>>
      <3>1. pc'[t] = "copy" /\ ref'[t] = own[1]
        BY <1>0, <1>6, <2>1, <2>5 DEF LookFlat, Goto, own, n
      <3>2. Answers(t, {ref[t]})'
        BY <2>1, <2>2, <2>3, <2>5, <3>1 DEF Answers, visible, n
      <3> QED
        BY <2>1, <3>1, <3>2 DEF Finding
    <2> QED
      BY <2>4, <2>5
  <1>7. CASE Copy(t) /\ call[t].op = "find"
    <2>1. Settled(ref[t])
      BY <1>7 DEF Copy, ReferenceValid
    <2>2. pc[t] = "copy" /\ pc'[t] = "return" /\ UNCHANGED <<call, seen, map>> /\ got'[t] = {ref[t]}
      BY <1>0, <1>7, <2>1 DEF Copy, Goto
    <2>3. Answers(t, {ref[t]})
      BY <1>7, <2>2 DEF Finding
    <2> QED
      BY <2>2, <2>3 DEF Finding, Answers, Came
  <1>8. ASSUME ~ Begins(t), ~ Return(t) PROVE call'[t] = call[t] /\ pc[t] # "idle"
    BY <1>8, GoesOn DEF Inside
  <1>9. pc[t] # "idle" /\ call[t].op = "find" => pc[t] \in {"read", "look", "copy", "return"}
    BY <1>0 DEF PlaceOK, Labels, Enumerations
  <1>10. pc[t] \in {"read", "look", "copy", "return"} =>
           LockShared(t) \/ Look(t) \/ LookFlat(t) \/ Copy(t) \/ Return(t)
    BY DEF Takes, Step, Begin, Lock, Enumerate, EnumerateFlat, EnumerateOverloads, Filter, Put, Assign, PutOverload, Added, Throw,
           Erase, EraseOverload
  <1> QED
    BY <1>1, <1>2, <1>3, <1>4, <1>5, <1>6, <1>7, <1>8, <1>9, <1>10

LEMMA FindInductive ==
  ASSUME TypeOK, FindInv, ReferenceValid, RacesApart(Calls), [Next]_vars
  PROVE  FindInv'
  <1>1. ASSUME NEW t \in Thread, Takes(t), NEW u \in Thread PROVE Finding(u)'
    <2>1. Finding(u)
      BY DEF FindInv
    <2>2. CASE u = t
      BY <1>1, <2>1, <2>2, OwnFind
    <2>3. CASE u # t /\ pc[u] = "idle"
      <3>1. pc'[u] = "idle"
        BY <1>1, <2>3, Moves DEF Same
      <3> QED
        BY <3>1 DEF Finding
    <2>4. CASE u # t /\ pc[u] # "idle"
      BY <1>1, <2>1, <2>4, OthersFind
    <2> QED
      BY <2>2, <2>3, <2>4
  <1>2. CASE UNCHANGED vars
    BY <1>2 DEF vars, FindInv, Finding, Answers, Came, PastOwn, Below
  <1> QED
    BY <1>1, <1>2 DEF Next, Takes, FindInv
-----------------------------------------------------------------------------
\* Enumerations.

LEMMA OthersEnumerate ==
  ASSUME TypeOK, NEW t \in Thread, Takes(t), kind = "variables" => EachAlone(Calls),
         NEW u \in Thread \ {t}, pc[u] # "idle", Enumerating(u)
  PROVE  Enumerating(u)'
  <1> SUFFICES ASSUME call[u].op \in Enumerations PROVE Enumerating(u)'
    BY Moves DEF Enumerating, Same
  <1>1. Same(u) /\ kind' = kind
    BY Moves
  <1>2. call[u] \in Calls[u] /\ call[u].name \in Name /\ call[u].on \in Provider /\ Asked(u) \subseteq Name /\ Offered(call[u])
    BY InCall DEF Asked, TypeOK, CallsOK, PlaceOK
  <1>3. ASSUME NEW n \in Asked(u)
        PROVE  /\ seen[u][n] \subseteq seen'[u][n] /\ seen[u][n] # {} /\ seen[u][n] \subseteq SUBSET Entry
               /\ Shown(u, n) \subseteq Shown(u, n)' /\ Shown(u, n) \subseteq Entry
    <2>1. seen[u][n] \subseteq seen'[u][n] /\ seen[u][n] # {} /\ seen[u][n] \subseteq SUBSET Entry
      BY <1>2, SeesMore DEF TypeOK, SeenOK
    <2> QED
      BY <2>1 DEF Shown
  <1>4. ASSUME kind = "functions", NEW e \in Entry
        PROVE  Fits(u, e)' = Fits(u, e)
    <2>1. declared'[e] = declared[e]
      <3>1. CASE Grown(t)
        <4>1. declared \in Seq(Declarations) /\ e \in 1 .. Len(declared)
          BY <1>4 DEF TypeOK, MapOK, Entry
        <4>2. declared' = Append(declared, call[t].declares)
          BY <3>1 DEF Grown
        <4> QED
          BY <4>1, <4>2
      <3> QED
        BY <1>4, <3>1, Moves DEF Untouched, Replaced, Shrunk
    <2> QED
      BY <1>1, <2>1 DEF Fits, Same
  <1>5. ASSUME NEW n \in Asked(u), Covered(u, n) PROVE Covered(u, n)'
    BY <1>1, <1>3, <1>5 DEF Covered, Same
  <1>6. ASSUME kind = "functions", NEW n \in Asked(u), OnlyAskedFor(u, n) PROVE OnlyAskedFor(u, n)'
    <2>1. Candidates(u, n) \subseteq Candidates(u, n)'
      BY <1>3, <1>4, <1>6 DEF Candidates
    <2> QED
      BY <1>1, <1>6, <2>1 DEF OnlyAskedFor, Same
  <1>7. ASSUME NEW n \in Asked(u), Provided(u, n) PROVE Provided(u, n)'
    <2>1. CASE kind = "functions"
      <3>1. Throughout(u, n)' \subseteq Throughout(u, n)
        <4> SUFFICES ASSUME NEW e \in Throughout(u, n)' PROVE e \in Throughout(u, n)
          OBVIOUS
        <4>1. Fits(u, e)' /\ \A visible \in seen'[u][n] : e \in visible
          BY DEF Throughout, Candidates
        <4>2. \A visible \in seen[u][n] : e \in visible
          BY <1>3, <4>1
        <4>3. e \in Shown(u, n) /\ e \in Entry
          BY <1>3, <4>2 DEF Shown
        <4> QED
          BY <1>4, <2>1, <4>1, <4>2, <4>3 DEF Throughout, Candidates
      <3> QED
        BY <1>1, <1>6, <1>7, <2>1, <3>1 DEF Provided, Same
    <2>2. CASE kind # "functions"
      BY <1>1, <1>5, <1>7, <2>2 DEF Provided
    <2> QED
      BY <2>1, <2>2
  <1>8. ASSUME NEW n \in Asked(u), Pending(u, n), Below(u), PlaceOK(u) PROVE Pending(u, n)'
    <2>0. "own" \in Provider /\ n \in Name /\ call[u].on = "own"
      BY <1>2, <1>8 DEF Provider, Below
    <2>1. CASE kind = "functions"
      <3>1. ASSUME NEW e \in Range(map'["own"][n]), Fits(u, e)'
            PROVE  e \in got'[u] \/ \E visible \in seen'[u][n] : e \notin visible
        <4>1. CASE e \in Range(map["own"][n])
          <5>1. e \in Entry
            BY <2>0, <4>1, ListsType DEF TypeOK
          <5>2. e \in got[u] \/ \E visible \in seen[u][n] : e \notin visible
            BY <1>4, <1>8, <2>1, <3>1, <4>1, <5>1 DEF Pending
          <5> QED
            BY <1>1, <1>3, <5>2 DEF Same
        <4>2. CASE e = Len(declared) + 1
          <5>1. e \notin Entry
            BY <4>2 DEF Entry, TypeOK, MapOK
          <5> QED
            BY <1>3, <5>1
        <4> QED
          BY <2>0, <4>1, <4>2, ListsMove
      <3> QED
        BY <1>1, <1>6, <1>8, <2>1, <3>1 DEF Pending
    <2>2. CASE kind # "functions"
      <3>1. CASE Covered(u, n)
        BY <1>1, <1>5, <2>2, <3>1 DEF Pending
      <3>2. CASE map["own"][n] = <<>> /\ (pc[u] = "filter" => n \in rest[u])
        <4>1. kind = "variables" /\ call[u].op = "each"
          <5>1. kind # "types"
            BY <1>8, <2>0 DEF PlaceOK, Below
          <5> QED
            BY <1>2, <2>2, <5>1 DEF Offered, Enumerations, TypeOK, MapOK, Kinds
        <4>2. ~ Adds(t, "own", n)
          <5>1. SUFFICES ASSUME Adds(t, "own", n) PROVE FALSE
            OBVIOUS
          <5>2. call[t] \in Calls[t] /\ call[t].op = "add" /\ call[t].on = "own"
            BY <5>1, InCall DEF Adds, TypeOK, CallsOK, PlaceOK
          <5> QED
            BY <1>2, <2>0, <4>1, <5>2 DEF EachAlone
        <4>3. Range(map'["own"][n]) \subseteq Range(map["own"][n])
          BY <2>0, <4>2, ListsMove
        <4>4. map["own"][n] \in Seq(Entry) /\ map'["own"][n] \in Seq(Entry')
          BY <2>0, TableType DEF TypeOK, MapOK
        <4>5. Range(map["own"][n]) = {}
          BY <3>2, <4>4, EmptyList
        <4>6. map'["own"][n] = <<>>
          BY <4>3, <4>4, <4>5, EmptyList
        <4> QED
          BY <1>1, <2>2, <3>2, <4>6 DEF Pending, Same
      <3> QED
        BY <1>8, <2>2, <3>1, <3>2 DEF Pending
    <2> QED
      BY <2>1, <2>2
  <1>9. Below(u)' = Below(u) /\ Asked(u)' = Asked(u) /\ PlaceOK(u)
    BY <1>1 DEF Below, Same, Asked, TypeOK, CallsOK
  <1> QED
    BY <1>1, <1>7, <1>8, <1>9 DEF Enumerating, Same
\* The level t enumerates is all in got from now on, and nothing else of an enumeration changes.
Provides(t, entries) ==
  /\ UNCHANGED <<kind, map, declared, call, seen>>
  /\ got'[t] = got[t] \cup entries

LEMMA CoveredNow ==
  ASSUME TypeOK, NEW t \in Thread, NEW n \in Name, seen' = seen,
         NEW visible \in seen[t][n], visible \subseteq got'[t]
  PROVE  Covered(t, n)'
  <1>1. CASE visible = {}
    BY <1>1 DEF Covered
  <1>2. CASE visible # {}
    BY <1>2 DEF Covered, Shown
  <1> QED
    BY <1>1, <1>2

LEMMA LevelEnumerated ==
  ASSUME TypeOK, NEW t \in Thread, kind # "functions", pc[t] # "idle", call[t].on = at[t],
         call[t].op \in Enumerations, Provides(t, Listed(at[t])), NEW n \in Name
  PROVE  /\ Covered(t, n)' \/ map["own"][n] = <<>>
         /\ at[t] = "parent" \/ kind = "types" => Covered(t, n)'
  <1>1. /\ Visible(map, at[t], n) \in seen[t][n] /\ at[t] \in {"own", "parent"} /\ at[t] \in Provider
        /\ kind = "types" => at[t] = "own"
    BY DEF TypeOK, SeenOK, CallsOK, PlaceOK, Provider
  <1>2. Range(map[at[t]][n]) \subseteq got'[t]
    BY DEF Provides, Listed
  <1>3. ASSUME Visible(map, at[t], n) = Range(map[at[t]][n]) PROVE Covered(t, n)'
    BY <1>1, <1>2, <1>3, CoveredNow DEF Provides
  <1> QED
    BY <1>1, <1>3, VisibleIs

LEMMA OverloadsEnumerated ==
  ASSUME TypeOK, NEW t \in Thread, kind = "functions", pc[t] # "idle", call[t].op \in Enumerations,
         Enumerating(t), pc[t] = "enumerate", Provides(t, Overloads(t)), NEW n \in Asked(t)
  PROVE  /\ OnlyAskedFor(t, n)'
         /\ \A e \in Range(map[at[t]][n]) : Fits(t, e) => e \in got'[t]
         /\ at[t] = "parent" => Throughout(t, n)' \subseteq got'[t]
  <1>1. /\ n \in Name /\ Visible(map, call[t].on, n) \in seen[t][n] /\ at[t] \in Provider
        /\ at[t] \in {call[t].on, "parent"} /\ call[t].on \in {"own", "parent"}
        /\ call[t].op \in {"each", "each_named"}
    BY InCall DEF Asked, TypeOK, SeenOK, CallsOK, PlaceOK, Provider, Enumerations
  <1>2. /\ Visible(map, "parent", n) = Range(map["parent"][n])
        /\ Visible(map, "own", n) = Range(map["own"][n]) \cup Range(map["parent"][n])
    BY <1>1, VisibleIs
  <1>3. \A e : Fits(t, e)' = Fits(t, e)
    BY DEF Fits, Provides
  <1>4. /\ Shown(t, n)' = Shown(t, n) /\ Candidates(t, n)' = Candidates(t, n)
        /\ Throughout(t, n)' = Throughout(t, n)
    BY <1>3 DEF Shown, Candidates, Throughout, Provides
  <1>5. /\ ~ Below(t) => got[t] = {}
        /\ Below(t) => Pending(t, n)
    BY DEF Enumerating
  <1>6. \A e \in Range(map[at[t]][n]) : Fits(t, e) => e \in got'[t]
    BY <1>1 DEF Provides, Overloads, Listed, Asked, Fits
  <1>7. OnlyAskedFor(t, n)'
    <2>1. SUFFICES ASSUME call[t].op = "each_named" PROVE got'[t] \subseteq Candidates(t, n)
      BY <1>4 DEF OnlyAskedFor, Provides
    <2>2. got[t] \subseteq Candidates(t, n)
      BY <1>5, <2>1 DEF Pending, OnlyAskedFor
    <2>3. n = call[t].name
      BY <2>1 DEF Asked
    <2>4. Overloads(t) \subseteq Candidates(t, n)
      <3>1. Range(map[at[t]][n]) \subseteq Shown(t, n)
        BY <1>1, <1>2 DEF Shown
      <3> QED
        BY <2>1, <2>3, <3>1 DEF Overloads, Candidates
    <2> QED
      BY <2>2, <2>4 DEF Provides
  <1>8. ASSUME at[t] = "parent", NEW e \in Throughout(t, n) PROVE e \in got'[t]
    <2>1. Fits(t, e) /\ e \in Visible(map, call[t].on, n) /\ \A visible \in seen[t][n] : e \in visible
      BY <1>1 DEF Throughout, Candidates
    <2>2. CASE e \in Range(map["parent"][n])
      BY <1>6, <1>8, <2>1, <2>2
    <2>3. CASE e \in Range(map["own"][n]) /\ call[t].on = "own"
      <3>1. e \in got[t]
        BY <1>5, <1>8, <2>1, <2>3 DEF Below, Pending
      <3> QED
        BY <3>1 DEF Provides
    <2> QED
      BY <1>1, <1>2, <2>1, <2>2, <2>3
  <1> QED
    BY <1>4, <1>6, <1>7, <1>8

LEMMA OwnEnumerate ==
  ASSUME TypeOK, NEW t \in Thread, Takes(t), Enumerating(t)
  PROVE  Enumerating(t)'
  <1>0. /\ pc \in [Thread -> Labels] /\ at \in [Thread -> Provider] /\ call \in [Thread -> Call \cup {Idle}]
        /\ got \in [Thread -> SUBSET Nat] /\ rest \in [Thread -> SUBSET Name]
        /\ pc[t] # "idle" => PlaceOK(t) /\ call[t].name \in Name /\ call[t].on \in Provider
        /\ pc[t] = "idle" => got[t] = {}
    BY InCall DEF TypeOK, CallsOK
  <1>1. CASE Begins(t)
    <2>1. PICK c \in Calls[t] : Begin(t, c)
      BY <1>1 DEF Begins
    <2>0. c.on \in Provider
      BY CallsAssumption DEF Call
    <2>2. call'[t] = c /\ at'[t] = c.on /\ got'[t] = {} /\ c.on \in Provider
          /\ pc'[t] = (IF c.op \in {"find"} \cup Enumerations THEN "read" ELSE "write")
      BY <1>0, <2>0, <2>1 DEF Begin, Goto
    <2> QED
      BY <2>2 DEF Enumerating, Below
  <1>2. CASE Return(t)
    <2>1. call'[t].op = "none"
      BY <1>0, <1>2 DEF Return, Idle
    <2> QED
      BY <2>1 DEF Enumerating, Enumerations
  <1>3. CASE call[t].op \notin Enumerations /\ call'[t] = call[t]
    BY <1>3 DEF Enumerating
  <1>4. CASE LockShared(t) /\ call[t].op \in Enumerations
    <2>1. pc[t] = "read" /\ pc'[t] = "enumerate" /\ UNCHANGED <<kind, call, at, got, map, seen, declared>>
      BY <1>0, <1>4 DEF LockShared, Goto
    <2>2. /\ Below(t)' = Below(t) /\ Asked(t)' = Asked(t)
          /\ \A n \in Asked(t) : Pending(t, n) => Pending(t, n)'
      BY <2>1 DEF Below, Asked, Pending, Covered, OnlyAskedFor, Candidates, Shown, Fits
    <2> QED
      BY <1>4, <2>1, <2>2 DEF Enumerating
  <1>5. CASE Enumerate(t) /\ call[t].op \in Enumerations
    <2>1. /\ pc[t] = "enumerate" /\ kind = "variables" /\ UNCHANGED <<kind, map, declared, call, seen>>
          /\ call[t].on \in {"own", "parent"} /\ at[t] \in {call[t].on, "parent"} /\ call[t].op = "each"
          /\ Asked(t) = Name /\ Asked(t)' = Name
      BY <1>0, <1>5 DEF Enumerate, LevelDone, PlaceOK, Provider, Offered, Enumerations, Asked
    <2>2. CASE Below(t)
      <3>1. /\ pc'[t] = "filter" /\ at' = at /\ got' = got
            /\ rest'[t] = {n \in Name : map["parent"][n] # <<>>}
        BY <1>0, <1>5, <2>2 DEF Enumerate, Goto, Below
      <3>2. ASSUME NEW n \in Name PROVE Pending(t, n)'
        <4>0. \A m \in Asked(t) : Pending(t, m)
          BY <1>5, <2>1, <2>2 DEF Enumerating
        <4>1. Pending(t, n) /\ Visible(map, "own", n) \in seen[t][n]
          BY <2>1, <2>2, <4>0 DEF TypeOK, SeenOK, Below
        <4>2. CASE Covered(t, n)
          BY <2>1, <3>1, <4>2 DEF Pending, Covered, Shown
        <4>3. CASE map["own"][n] = <<>> /\ map["parent"][n] # <<>>
          BY <2>1, <3>1, <4>3 DEF Pending
        <4>4. CASE map["own"][n] = <<>> /\ map["parent"][n] = <<>>
          <5>1. Visible(map, "own", n) = {}
            BY <2>1, <4>4, VisibleIs DEF Provider
          <5> QED
            BY <2>1, <4>1, <5>1 DEF Pending, Covered
        <4> QED
          BY <2>1, <4>1, <4>2, <4>3, <4>4 DEF Pending
      <3> QED
        BY <2>1, <2>2, <3>1, <3>2 DEF Enumerating, Below
    <2>3. CASE ~ Below(t)
      <3>1. /\ at[t] = call[t].on /\ Provides(t, Listed(at[t]))
            /\ pc'[t] = (IF at[t] = "own" THEN "read" ELSE "return") /\ at'[t] = "parent"
        BY <1>0, <1>5, <2>1, <2>3 DEF Enumerate, LevelDone, Goto, Above, Below, Provides
      <3>2. CASE at[t] = "own"
        <4>1. ASSUME NEW n \in Name PROVE Pending(t, n)'
          <5>1. Covered(t, n)' \/ map["own"][n] = <<>>
            BY <1>5, <2>1, <3>1, LevelEnumerated
          <5>2. pc'[t] = "read"
            BY <3>1, <3>2
          <5> QED
            BY <2>1, <5>1, <5>2 DEF Pending
        <4> QED
          BY <2>1, <3>1, <3>2, <4>1 DEF Enumerating, Below
      <3>3. CASE at[t] = "parent"
        <4>1. ASSUME NEW n \in Name PROVE Provided(t, n)'
          <5>1. Covered(t, n)'
            BY <1>5, <2>1, <3>1, <3>3, LevelEnumerated
          <5> QED
            BY <2>1, <5>1 DEF Provided
        <4> QED
          BY <2>1, <3>1, <3>3, <4>1 DEF Enumerating
      <3> QED
        BY <2>1, <3>1, <3>2, <3>3
    <2> QED
      BY <2>2, <2>3
  <1>6. CASE EnumerateFlat(t) /\ call[t].op \in Enumerations
    <2>1. /\ pc[t] = "enumerate" /\ pc'[t] = "return" /\ kind = "types" /\ call[t].on = at[t] /\ at[t] = "own"
          /\ call[t].op = "each" /\ Asked(t)' = Name /\ Provides(t, Listed(at[t]))
      BY <1>0, <1>6 DEF EnumerateFlat, LevelDone, Goto, PlaceOK, Offered, Enumerations, Asked, Provides
    <2>2. ASSUME NEW n \in Name PROVE Provided(t, n)'
      <3>1. Covered(t, n)'
        BY <1>6, <2>1, LevelEnumerated
      <3> QED
        BY <2>1, <3>1 DEF Provided, Provides
    <2> QED
      BY <2>1, <2>2 DEF Enumerating
  <1>7. CASE EnumerateOverloads(t) /\ call[t].op \in Enumerations
    <2>1. /\ pc[t] = "enumerate" /\ kind = "functions" /\ Provides(t, Overloads(t)) /\ kind' = kind
          /\ pc'[t] = (IF at[t] = "own" THEN "read" ELSE "return") /\ at'[t] = "parent"
          /\ at[t] \in {"own", "parent"}
          /\ at[t] = "own" => call[t].on = "own"
          /\ Asked(t)' = Asked(t) /\ map' = map /\ call' = call
      BY <1>0, <1>7 DEF EnumerateOverloads, LevelDone, Goto, Above, PlaceOK, Provider, Asked, Provides
    <2>2. ASSUME NEW n \in Asked(t)
          PROVE  /\ OnlyAskedFor(t, n)'
                 /\ \A e \in Range(map[at[t]][n]) : Fits(t, e) => e \in got'[t]
                 /\ at[t] = "parent" => Throughout(t, n)' \subseteq got'[t]
      BY <1>7, <2>1, OverloadsEnumerated
    <2>3. CASE at[t] = "own"
      <3>1. \A e : Fits(t, e)' = Fits(t, e)
        BY <2>1 DEF Fits, Provides
      <3>2. \A n \in Asked(t) : Pending(t, n)'
        BY <2>1, <2>2, <2>3, <3>1 DEF Pending
      <3> QED
        BY <2>1, <2>3, <3>2 DEF Enumerating, Below
    <2>4. CASE at[t] = "parent"
      <3>1. \A n \in Asked(t) : Provided(t, n)'
        BY <2>1, <2>2, <2>4 DEF Provided
      <3> QED
        BY <2>1, <2>4, <3>1 DEF Enumerating
    <2> QED
      BY <2>1, <2>3, <2>4
  <1>8. CASE Filter(t) /\ call[t].op \in Enumerations
    <2>1. /\ pc[t] = "filter" /\ kind = "variables" /\ UNCHANGED <<kind, map, declared, call, at, seen>>
          /\ Below(t) /\ Below(t)' /\ Asked(t) = Name /\ Asked(t)' = Name
      BY <1>0, <1>8 DEF Filter, PlaceOK, Below, Asked
    <2>2. \A n \in Name : Pending(t, n) /\ Visible(map, "own", n) \in seen[t][n]
      BY <1>8, <2>1 DEF Enumerating, TypeOK, SeenOK, Below
    <2>3. CASE rest[t] = {} /\ pc'[t] = "return" /\ got' = got
      <3>1. ASSUME NEW n \in Name PROVE Provided(t, n)'
        BY <2>1, <2>2, <2>3 DEF Pending, Provided, Covered, Shown
      <3> QED
        BY <2>1, <2>3, <3>1 DEF Enumerating
    <2>4. ASSUME NEW m \in rest[t],
                 /\ rest' = [rest EXCEPT ![t] = @ \ {m}]
                 /\ got' = [got EXCEPT ![t] = IF map["own"][m] = <<>> THEN @ \cup Range(map["parent"][m]) ELSE @]
                 /\ UNCHANGED pc
          PROVE  Enumerating(t)'
      <3>0. m \in Name /\ got[t] \subseteq got'[t] /\ rest'[t] = rest[t] \ {m}
        BY <1>0, <2>4
      <3>1. ASSUME NEW n \in Name PROVE Pending(t, n)'
        <4>1. CASE Covered(t, n)
          BY <2>1, <3>0, <4>1 DEF Pending, Covered, Shown
        <4>2. CASE map["own"][n] = <<>> /\ n \in rest[t] /\ n # m
          BY <2>1, <3>0, <4>2 DEF Pending
        <4>3. CASE map["own"][n] = <<>> /\ n = m
          <5>1. Visible(map, "own", n) \subseteq got'[t]
            BY <1>0, <2>1, <2>4, <4>3, VisibleIs
          <5>2. Covered(t, n)'
            BY <2>1, <2>2, <5>1, CoveredNow
          <5> QED
            BY <2>1, <5>2 DEF Pending
        <4> QED
          BY <2>1, <2>2, <4>1, <4>2, <4>3 DEF Pending
      <3> QED
        BY <2>1, <2>4, <3>1 DEF Enumerating
    <2> QED
      BY <1>0, <1>8, <2>3, <2>4 DEF Filter, Goto
  <1>9. ASSUME ~ Begins(t), ~ Return(t) PROVE call'[t] = call[t] /\ pc[t] # "idle"
    BY <1>9, GoesOn DEF Inside
  <1>10. pc[t] # "idle" /\ call[t].op \in Enumerations => pc[t] \in {"read", "enumerate", "filter", "return"}
    BY <1>0 DEF PlaceOK, Labels, Enumerations
  <1>11. pc[t] \in {"read", "enumerate", "filter", "return"} =>
           LockShared(t) \/ Enumerate(t) \/ EnumerateFlat(t) \/ EnumerateOverloads(t) \/ Filter(t) \/ Return(t)
    BY DEF Takes, Step, Begin, Lock, Look, LookFlat, Copy, Put, Assign, PutOverload, Added, Throw, Erase, EraseOverload
  <1> QED
    BY <1>1, <1>2, <1>3, <1>4, <1>5, <1>6, <1>7, <1>8, <1>9, <1>10, <1>11

LEMMA EachInductive ==
  ASSUME TypeOK, EachInv, kind = "variables" => EachAlone(Calls), [Next]_vars
  PROVE  EachInv'
  <1>1. ASSUME NEW t \in Thread, Takes(t), NEW u \in Thread PROVE Enumerating(u)'
    <2>1. Enumerating(u)
      BY DEF EachInv
    <2>2. CASE u = t
      BY <1>1, <2>1, <2>2, OwnEnumerate
    <2>3. CASE u # t /\ pc[u] = "idle"
      <3>1. pc'[u] = "idle"
        BY <1>1, <2>3, Moves DEF Same
      <3> QED
        BY <3>1 DEF Enumerating
    <2>4. CASE u # t /\ pc[u] # "idle"
      BY <1>1, <2>1, <2>4, OthersEnumerate
    <2> QED
      BY <2>2, <2>3, <2>4
  <1>2. CASE UNCHANGED vars
    BY <1>2 DEF vars, EachInv, Enumerating, Pending, Provided, Throughout, Covered, OnlyAskedFor, Candidates, Shown, Asked, Fits, Below
  <1> QED
    BY <1>1, <1>2 DEF Next, Takes, EachInv
-----------------------------------------------------------------------------
\* The table a provider is configured with.

Tables == [Provider -> [Name -> Seq(Declarations)]]
Fitting(table) == \A p \in Provider, n \in Name : Len(table[p][n]) <= MaxEntries

LEMMA SequenceOf ==
  ASSUME NEW S, IsFiniteSet(S)
  PROVE  /\ SetToSeq(S) \in [1 .. Cardinality(S) -> S] /\ Cardinality(S) \in Nat
         /\ \A x \in S : \E e \in 1 .. Cardinality(S) : SetToSeq(S)[e] = x
  <1> DEFINE n == Cardinality(S)
  <1>1. n \in Nat /\ Bijection(1 .. n, S) # {}
    BY FS_CardinalityType, Fun_ExistsBij
  <1>2. \E f \in [1 .. n -> S] : IsInjective(f)
    BY <1>1 DEF Bijection, Injection
  <1>3. SetToSeq(S) \in [1 .. n -> S] /\ IsInjective(SetToSeq(S))
    BY <1>2 DEF SetToSeq
  <1>4. SetToSeq(S) \in Injection(1 .. n, S)
    BY <1>3 DEF Injection
  <1>5. Cardinality(1 .. n) = n
    BY <1>1, FS_Interval
  <1>6. SetToSeq(S) \in Surjection(1 .. n, S)
    BY <1>1, <1>4, <1>5, FS_Injection
  <1> QED
    BY <1>1, <1>3, <1>6 DEF Surjection

LEMMA PlacesFinite ==
  ASSUME NEW table
  PROVE  IsFiniteSet(Places(table))
  <1> DEFINE pairs == (Provider \X Name) \X (1 .. MaxEntries)
             triples == Provider \X Name \X (1 .. MaxEntries)
             flat == [y \in pairs |-> <<y[1][1], y[1][2], y[2]>>]
  <1>1. IsFiniteSet(Provider)
    <2>1. IsFiniteSet({"own"})
      BY FS_Singleton
    <2>2. IsFiniteSet({"own"} \cup {"parent"})
      BY <2>1, FS_AddElement
    <2>3. Provider = {"own"} \cup {"parent"}
      BY DEF Provider
    <2> QED
      BY <2>2, <2>3
  <1>2. IsFiniteSet(1 .. MaxEntries)
    BY FS_Interval, ProviderAssumption
  <1>3. IsFiniteSet(pairs)
    BY <1>1, <1>2, FS_Product, ProviderAssumption
  <1>4. flat \in Surjection(pairs, triples)
    <2>1. flat \in [pairs -> triples]
      OBVIOUS
    <2>2. ASSUME NEW x \in triples PROVE \E y \in pairs : flat[y] = x
      <3>1. PICK a \in Provider, b \in Name, i \in 1 .. MaxEntries : x = <<a, b, i>>
        OBVIOUS
      <3>2. <<<<a, b>>, i>> \in pairs /\ flat[<<<<a, b>>, i>>] = x
        BY <3>1
      <3> QED
        BY <3>2
    <2> QED
      BY <2>1, <2>2, Fun_IsSurj
  <1>5. IsFiniteSet(triples)
    BY <1>3, <1>4, FS_Surjection
  <1>6. Places(table) \subseteq triples
    BY DEF Places
  <1> QED
    BY <1>5, <1>6, FS_Subset

LEMMA EntriesType ==
  ASSUME NEW table \in Tables, Fitting(table)
  PROVE  LET entries == Entries(table)
         IN  /\ entries.declared \in Seq(Declarations)
             /\ entries.map \in [Provider -> [Name -> Seq(1 .. Len(entries.declared))]]
             /\ \A p \in Provider, n \in Name : Len(entries.map[p][n]) = Len(table[p][n])
             /\ \A p, q \in Provider, m, n \in Name :
                  Range(entries.map[p][m]) \cap Range(entries.map[q][n]) # {} => p = q /\ m = n
  <1> DEFINE place == SetToSeq(Places(table))
             most == Cardinality(Places(table))
             entry(x) == CHOOSE e \in DOMAIN place : place[e] = x
             list(p, n) == [i \in DOMAIN table[p][n] |-> entry(<<p, n, i>>)]
             lists == [p \in Provider |-> [n \in Name |-> list(p, n)]]
             made == [e \in DOMAIN place |-> table[place[e][1]][place[e][2]][place[e][3]]]
  <1>1. /\ place \in [1 .. most -> Places(table)] /\ most \in Nat
        /\ \A x \in Places(table) : \E e \in 1 .. most : place[e] = x
    BY PlacesFinite, SequenceOf
  <1>2. Entries(table).map = lists /\ Entries(table).declared = made
    BY DEF Entries
  <1>3. \A p \in Provider, n \in Name : table[p][n] \in Seq(Declarations)
    BY DEF Tables
  <1>4. made \in Seq(Declarations) /\ Len(made) = most
    <2>1. ASSUME NEW x \in Places(table)
          PROVE  table[x[1]][x[2]][x[3]] \in Declarations
      <3>1. x[1] \in Provider /\ x[2] \in Name /\ x[3] \in DOMAIN table[x[1]][x[2]]
        BY DEF Places
      <3>2. table[x[1]][x[2]] \in Seq(Declarations)
        BY <1>3, <3>1
      <3> QED
        BY <3>1, <3>2
    <2> HIDE DEF place, most
    <2>2. \A e \in 1 .. most : made[e] \in Declarations
      BY <1>1, <2>1
    <2>3. made \in [1 .. most -> Declarations]
      BY <1>1, <2>2
    <2> HIDE DEF made
    <2> QED
      BY <1>1, <2>3
  <1>5. ASSUME NEW p \in Provider, NEW n \in Name
        PROVE  /\ list(p, n) \in Seq(1 .. most) /\ Len(list(p, n)) = Len(table[p][n])
               /\ \A e \in Range(list(p, n)) : place[e][1] = p /\ place[e][2] = n
    <2>1. /\ DOMAIN table[p][n] = 1 .. Len(table[p][n]) /\ Len(table[p][n]) \in Nat
          /\ Len(table[p][n]) <= MaxEntries
      BY <1>3 DEF Fitting
    <2>2. ASSUME NEW i \in DOMAIN table[p][n] PROVE entry(<<p, n, i>>) \in 1 .. most /\ place[entry(<<p, n, i>>)] = <<p, n, i>>
      <3>1. i \in 1 .. MaxEntries
        BY <2>1, ProviderAssumption
      <3>2. <<p, n, i>> \in Places(table)
        BY <3>1 DEF Places
      <3> HIDE DEF place, most
      <3> QED
        BY <1>1, <3>2
    <2> HIDE DEF place, entry, most
    <2>4. ASSUME NEW e \in Range(list(p, n)) PROVE place[e][1] = p /\ place[e][2] = n
      <3>1. PICK i \in DOMAIN table[p][n] : e = entry(<<p, n, i>>)
        BY DEF Range
      <3>2. place[e] = <<p, n, i>>
        BY <2>2, <3>1
      <3> QED
        BY <3>2
    <2>3. list(p, n) \in [1 .. Len(table[p][n]) -> 1 .. most]
      BY <2>1, <2>2
    <2> HIDE DEF list
    <2> QED
      BY <2>1, <2>3, <2>4, NumberedIsSequence
  <1> HIDE DEF made, most, list, place
  <1>6. lists \in [Provider -> [Name -> Seq(1 .. Len(made))]]
    BY <1>4, <1>5
  <1>7. \A p \in Provider, n \in Name : Len(lists[p][n]) = Len(table[p][n])
    BY <1>5
  <1>8. ASSUME NEW p \in Provider, NEW q \in Provider, NEW m \in Name, NEW n \in Name,
               Range(lists[p][m]) \cap Range(lists[q][n]) # {}
        PROVE  p = q /\ m = n
    <2>1. PICK e \in Range(list(p, m)) : e \in Range(list(q, n))
      BY <1>8
    <2> QED
      BY <1>5, <2>1
  <1> QED
    BY <1>2, <1>4, <1>6, <1>7, <1>8

LEMMA InitType ==
  ASSUME Init
  PROVE  TypeOK /\ LocksHeld /\ RefInv /\ OneList /\ FindInv /\ EachInv
  <1>1. PICK c \in Contents : /\ kind = c.kind /\ map = Entries(c.table).map
                              /\ declared = Entries(c.table).declared
    BY DEF Init
  <1>2. /\ kind \in Kinds /\ c.table \in Tables
        /\ \A p \in Provider, n \in Name :
             /\ Len(c.table[p][n]) <= MaxEntries
             /\ kind # "functions" => Len(c.table[p][n]) <= 1
             /\ kind = "types" => c.table["parent"][n] = <<>>
    BY <1>1, ContentsAssumption DEF Kinds, Tables
  <1>3. \A p \in Provider, n \in Name : c.table[p][n] \in Seq(Declarations)
    BY <1>2 DEF Tables
  <1>4. /\ declared \in Seq(Declarations)
        /\ map \in [Provider -> [Name -> Seq(Entry)]]
        /\ \A p \in Provider, n \in Name : Len(map[p][n]) = Len(c.table[p][n])
    BY <1>1, <1>2, EntriesType DEF Fitting, Entry
  <1>5. kind # "functions" => \A p \in Provider, n \in Name : Len(map[p][n]) <= 1
    BY <1>2, <1>4
  <1>6. ASSUME kind = "types", NEW n \in Name PROVE map["parent"][n] = <<>>
    <2>1. "parent" \in Provider
      BY DEF Provider
    <2>2. Len(map["parent"][n]) = 0 /\ map["parent"][n] \in Seq(Entry)
      BY <1>2, <1>4, <1>6, <2>1
    <2> QED
      BY <2>2
  <1>7. MapOK
    BY <1>2, <1>4, <1>5, <1>6 DEF MapOK
  <1>8. LocksOK
    BY DEF Init, LocksOK
  <1>9. CallsOK
    BY DEF Init, CallsOK, Labels, Provider
  <1>10. SeenOK
    BY DEF Init, SeenOK
  <1>11. LocksHeld
    BY ProviderAssumption DEF Init, LocksHeld, Reading, Writing
  <1>12. RefInv /\ FindInv /\ EachInv
    BY DEF Init, RefInv, RefersTo, Referring, FindInv, Finding, EachInv, Enumerating, Idle, Enumerations
  <1>13. OneList
    BY <1>1, <1>2, EntriesType DEF Fitting, OneList
  <1> QED
    BY <1>7, <1>8, <1>9, <1>10, <1>11, <1>12, <1>13 DEF TypeOK
-----------------------------------------------------------------------------

\* The provider stays of its kind.
Quiet == kind = "variables" => EachAlone(Calls)

LEMMA QuietInductive ==
  ASSUME TypeOK, Quiet, [Next]_vars
  PROVE  Quiet'
  <1>1. kind' = kind
    BY Moves DEF Next, Takes, vars
  <1> QED
    BY <1>1 DEF Quiet

\* Every list names entries that were made, in the order they were declared, a call is only where
\* its operation can get to, and what is visible now is among what each call has seen.
THEOREM TypeCorrect == Spec => []TypeOK
  <1>1. Init => TypeOK
    BY InitType
  <1>2. TypeOK /\ [Next]_vars => TypeOK'
    BY TypeInductive
  <1> QED
    BY <1>1, <1>2, PTL DEF Spec

\* The shared mutex of a level does what the classes rely on: a thread holds just the locks its
\* place in a call needs, and gives them back on every way out of it, exceptions among them; who
\* writes a level has it alone.
THEOREM LocksCorrect == Spec => []LocksHeld
  <1>1. Init => LocksHeld
    BY InitType
  <1>2. TypeOK /\ TypeOK' /\ LocksHeld /\ [Next]_vars => LocksHeld'
    BY LocksInductive
  <1> QED
    BY <1>1, <1>2, TypeCorrect, PTL DEF Spec

\* A find that asks the child, gives its lock back and asks the parent answers by what was visible
\* at some moment of it, but for a declaration of the parent that is younger than one that came to
\* hide it meanwhile; and what it answers by it has read undisturbed.  The client must keep removes
\* and replacements of a name apart from its finds.
THEOREM FindsCorrect ==
  ASSUME RacesApart(Calls)
  PROVE  Spec => []FindsDeclared
  <1> DEFINE Inv == RefInv /\ OneList /\ FindInv
  <1>1. Init => Inv
    BY InitType
  <1>2. TypeOK /\ TypeOK' /\ Inv /\ [Next]_vars => Inv'
    BY ReferenceInductive, OneListInductive, ReferencesSettled, FindInductive
  <1>3. Inv => FindsDeclared
    BY DEF FindInv, Finding, FindsDeclared
  <1> QED
    BY <1>1, <1>2, <1>3, TypeCorrect, PTL DEF Spec

\* An enumeration provides what was there all the time, of types and functions whatever the others
\* do, and of variables, whose names below are looked at twice and the second time without a lock,
\* as long as nothing is added to or removed from the child meanwhile.
THEOREM EachCorrect ==
  ASSUME \A c \in Contents : c.kind = "variables" => EachAlone(Calls)
  PROVE  Spec => []EachProvidesAll
  <1>1. Init => EachInv /\ Quiet
    BY InitType DEF Init, Quiet
  <1>2. TypeOK /\ EachInv /\ Quiet /\ [Next]_vars => EachInv' /\ Quiet'
    BY EachInductive, QuietInductive DEF Quiet
  <1>3. EachInv => EachProvidesAll
    BY DEF EachInv, Enumerating, Provided, Throughout, Candidates, Shown, Covered, OnlyAskedFor, Asked, EachProvidesAll
  <1> QED
    BY <1>1, <1>2, <1>3, TypeCorrect, PTL DEF Spec
=============================================================================
