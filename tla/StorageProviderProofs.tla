----------------------- MODULE StorageProviderProofs -----------------------
(***************************************************************************)
(* Proofs about the storage provider for any number of threads, any        *)
(* hierarchy of providers and any elements.                                *)
(***************************************************************************)
EXTENDS StorageProvider, TLAPS

Tags == {"none", "found", "all", "ok", "throws"}

EntriesOK ==
    /\ entries \in Contents
    /\ \A p \in Provider, k \in Key : Has(entries, p, k) => KeyOf(entries[p][k]) = k

OwnerOK == owner \in [Element -> Provider \cup {NoProvider}]

LEMMA KeyType == ASSUME NEW e \in Element PROVE KeyOf(e) \in Key
  BY ElementAssumption DEF KeyOf, Key

(* Inside a call, the parts of the call have their types. *)
LEMMA InCall ==
  ASSUME TypeOK, NEW t \in Thread, pc[t] # "idle"
  PROVE  /\ call[t] \in Contained!Calls
         /\ call[t].op \in Contained!Ops
         /\ Base(t) \in Provider
         /\ call[t].arg \in Element
         /\ Target(t) \in Key
         /\ level[t] \in 1 .. Len(Chain[Base(t)])
         /\ At(t) \in Provider
  <1>1. call[t] \in Contained!Calls
    BY DEF TypeOK
  <1>2. /\ call[t].op \in Contained!Ops
        /\ Base(t) \in Provider
        /\ call[t].arg \in Element
    BY <1>1 DEF Contained!Calls, Base
  <1>3. Target(t) \in Key
    BY <1>2, KeyType DEF Target
  <1>4. level[t] \in 1 .. Len(Chain[Base(t)])
    BY DEF TypeOK
  <1>5. At(t) \in Provider
    <2>1. Chain[Base(t)] \in Seq(Provider)
      BY <1>2, ChainAssumption
    <2> QED
      BY <2>1, <1>4 DEF At
  <1> QED
    BY <1>1, <1>2, <1>3, <1>4, <1>5

LEMMA ReturnType ==
  ASSUME TypeOK, NEW t \in Thread, NEW tag \in Tags, NEW S \in SUBSET Element,
         Return(t, tag, S), EntriesOK', OwnerOK'
  PROVE  TypeOK'
  <1>1. "idle" \in Labels
    BY DEF Labels
  <1>2. /\ writer' \in [Provider -> Thread \cup {NoThread}]
        /\ readers' \in [Provider -> SUBSET Thread]
    BY DEF TypeOK, Return, ReleaseAll
  <1>3. reply' \in [Thread -> [tag : Tags, is : SUBSET Element]]
    BY DEF TypeOK, Return, Contained!Answer, Contained!Reply, Tags
  <1>4. /\ call' \in [Thread -> Contained!Calls \cup {NoCall}]
        /\ pc' \in [Thread -> Labels]
        /\ \A u \in Thread : (pc'[u] = "idle") <=> (call'[u] = NoCall)
    BY <1>1 DEF TypeOK, Return, Contained!Answer
  <1>5. /\ level' \in [Thread -> Nat]
        /\ seen' \in [Thread -> SUBSET Element]
        /\ \A u \in Thread : pc'[u] \in AtBase => level'[u] = 1
        /\ \A u \in Thread : pc'[u] # "each" => seen'[u] = {}
    BY DEF TypeOK, Return, Contained!Answer
  <1>6. \A u \in Thread : pc'[u] # "idle" => level'[u] \in 1 .. Len(Chain[Base(u)'])
    BY DEF TypeOK, Return, Contained!Answer, Base
  <1> QED
    BY <1>2, <1>3, <1>4, <1>5, <1>6 DEF TypeOK, EntriesOK, OwnerOK, Tags

(* What a step does that stays inside the call and keeps the call itself. *)
Inside(t, label) ==
    /\ UNCHANGED <<owner, call, reply>>
    /\ pc' = [pc EXCEPT ![t] = label]
    /\ level' = level \/ (level' = [level EXCEPT ![t] = @ + 1] /\ ~ IsTop(t))
    /\ writer' \in [Provider -> Thread \cup {NoThread}]
    /\ readers' \in [Provider -> SUBSET Thread]
    /\ \/ seen' = seen
       \/ label = "each" /\ \E S \in SUBSET Element : seen' = [seen EXCEPT ![t] = S]
    /\ (label = "each") <=> (pc[t] = "each")
    /\ label \in AtBase => pc[t] \in AtBase /\ level' = level

LEMMA InsideType ==
  ASSUME TypeOK, NEW t \in Thread, pc[t] # "idle", EntriesOK',
         NEW label \in Labels \ {"idle"}, Inside(t, label)
  PROVE  TypeOK'
  <1> USE DEF Inside
  <1>1. /\ pc' \in [Thread -> Labels]
        /\ \A u \in Thread : (pc'[u] = "idle") <=> (call'[u] = NoCall)
    BY DEF TypeOK
  <1>2. \A u \in Thread : pc'[u] # "idle" => level'[u] \in 1 .. Len(Chain[Base(u)'])
    <2> SUFFICES ASSUME NEW u \in Thread, pc'[u] # "idle"
                 PROVE  level'[u] \in 1 .. Len(Chain[Base(u)'])
      OBVIOUS
    <2>1. Base(u)' = Base(u) /\ pc[u] # "idle"
      BY DEF Base, TypeOK
    <2>2. level[u] \in 1 .. Len(Chain[Base(u)]) /\ Len(Chain[Base(u)]) \in Nat
      <3>1. Chain[Base(u)] \in Seq(Provider)
        BY <2>1, InCall, ChainAssumption
      <3> QED
        BY <2>1, <3>1, InCall
    <2>3. level'[u] = level[u] \/ (level'[u] = level[u] + 1 /\ ~ IsTop(u))
      BY DEF TypeOK
    <2> QED
      BY <2>1, <2>2, <2>3 DEF IsTop
  <1>3. level' \in [Thread -> Nat]
    BY DEF TypeOK
  <1>4. seen' \in [Thread -> SUBSET Element]
    BY DEF TypeOK
  <1>5. \A u \in Thread : pc'[u] \in AtBase => level'[u] = 1
    <2> SUFFICES ASSUME NEW u \in Thread, pc'[u] \in AtBase
                 PROVE  level'[u] = 1
      OBVIOUS
    <2>1. level'[u] = level[u] /\ pc[u] \in AtBase
      BY DEF TypeOK
    <2> QED
      BY <2>1 DEF TypeOK
  <1>6. \A u \in Thread : pc'[u] # "each" => seen'[u] = {}
    BY DEF TypeOK
  <1> QED
    BY <1>1, <1>2, <1>3, <1>4, <1>5, <1>6 DEF TypeOK, EntriesOK

(* The initial state and every step of every thread keep the types. *)
LEMMA TypeInductive ==
  ASSUME TypeOK, [Next]_vars
  PROVE  TypeOK'
  <1>u. CASE UNCHANGED vars
    BY <1>u DEF vars, TypeOK, Base, Has
  <1>n. ASSUME NEW t \in Thread, Call(t) \/ Step(t)
        PROVE  TypeOK'
    <2>c. CASE Call(t)
      <3>1. PICK c \in Request : Contained!Ask(t, c) /\ Goto(t, c.op)
        BY <2>c DEF Call
      <3>2. c \in Contained!Calls /\ c.op \in Labels /\ c.op # "idle" /\ c # NoCall
            /\ c.on \in Provider
        BY ThreadAssumption DEF Contained!Calls, Contained!Ops, Labels
      <3>3. /\ call' \in [Thread -> Contained!Calls \cup {NoCall}]
            /\ pc' \in [Thread -> Labels]
            /\ \A u \in Thread : (pc'[u] = "idle") <=> (call'[u] = NoCall)
        BY <3>1, <3>2 DEF TypeOK, Contained!Ask, Goto
      <3>4. \A u \in Thread : pc'[u] # "idle" => level'[u] \in 1 .. Len(Chain[Base(u)'])
        <4>1. level' = level /\ level[t] = 1 /\ Base(t)' = c.on
          BY <2>c, <3>1 DEF Call, Contained!Ask, TypeOK, Base, AtBase
        <4>2. Len(Chain[c.on]) \in Nat \ {0}
          BY <3>2, ChainAssumption
        <4>3. \A u \in Thread \ {t} : Base(u)' = Base(u) /\ pc'[u] = pc[u]
          BY <3>1 DEF Contained!Ask, Goto, Base, TypeOK
        <4> QED
          BY <4>1, <4>2, <4>3 DEF TypeOK
      <3>5. reply' \in [Thread -> [tag : Tags, is : SUBSET Element]]
        BY <3>1 DEF TypeOK, Contained!Ask, Contained!NoReply, Contained!Reply, Tags
      <3>6. /\ \A u \in Thread : pc'[u] \in AtBase => level'[u] = 1
            /\ \A u \in Thread : pc'[u] # "each" => seen'[u] = {}
        BY <2>c, <3>1, <3>2 DEF Call, Goto, TypeOK, AtBase
      <3>7. /\ UNCHANGED <<entries, owner, writer, readers, level, seen>>
        BY <2>c, <3>1 DEF Call, Contained!Ask, locks
      <3> QED
        BY <3>3, <3>4, <3>5, <3>6, <3>7 DEF TypeOK, Tags, Has
    <2> SUFFICES ASSUME Step(t)
                 PROVE  TypeOK'
      BY <1>n, <2>c
    <2>0. pc[t] # "idle"
      BY DEF Step, Find, Each, Primary, Add, Bless, Remove, FindHit, WalkUp,
             FindMiss, EachUp, EachDone, PrimaryHit, PrimaryAgain, PrimaryMiss,
             AddLock, ParentHit, ParentMiss, Emplace, EmplaceConflict, Put,
             BlessCheck, BlessThrows, Own, RemoveMiss, RemoveIndex, RemoveLock,
             UnblessCheck, UnblessThrows, Disown
    <2>t. /\ Base(t) \in Provider /\ call[t].arg \in Element /\ Target(t) \in Key
          /\ At(t) \in Provider
      BY <2>0, InCall
    <2>e. EntriesOK /\ OwnerOK
      BY DEF TypeOK, EntriesOK, OwnerOK
    <2>s. UNCHANGED entries => EntriesOK'
      BY <2>e DEF EntriesOK, Has
    <2>i. Insert(t) => EntriesOK' /\ OwnerOK'
      BY <2>e, <2>t, ElementAssumption
         DEF Insert, EntriesOK, OwnerOK, Contents, Has, Target
    <2>d. Erase(t) => EntriesOK'
      BY <2>e, <2>t DEF Erase, EntriesOK, Contents, Has
    <2>v. \A p \in Provider, k \in Key : Has(entries, p, k) => entries[p][k] \in Element
      BY <2>e DEF EntriesOK, Contents, Has
    <2>r. \A tag \in Tags, S \in SUBSET Element :
            Return(t, tag, S) /\ EntriesOK' /\ OwnerOK' => TypeOK'
      BY ReturnType
    <2>z. UNCHANGED <<entries, owner>> => EntriesOK' /\ OwnerOK'
      BY <2>e, <2>s DEF OwnerOK
    <2>l. {"find", "each", "primary", "parents", "emplace", "bless", "own",
           "unbless", "disown"} \subseteq Labels \ {"idle"}
      BY DEF Labels, Contained!Ops
    <2>g. {"none", "found", "all", "ok", "throws"} \subseteq Tags
      BY DEF Tags
    <2>k. \A label \in Labels \ {"idle"} :
            EntriesOK' /\ Inside(t, label) => TypeOK'
      BY <2>0, InsideType
    <2>p. pc[t] \in Labels \ {"idle"} /\ pc = [pc EXCEPT ![t] = pc[t]]
      BY <2>0 DEF TypeOK
    <2>1. CASE FindHit(t)
      BY <2>1, <2>t, <2>v, <2>r, <2>z, <2>g DEF FindHit
    <2>2. CASE WalkUp(t)
      BY <2>2, <2>k, <2>p, <2>s, <2>t DEF WalkUp, Inside, AtBase, TypeOK
    <2>3. CASE FindMiss(t)
      BY <2>3, <2>r, <2>z, <2>g DEF FindMiss
    <2>4. CASE EachUp(t)
      BY <2>4, <2>k, <2>p, <2>s, <2>t DEF EachUp, Inside, AtBase, TypeOK, Unfiltered
    <2>5. CASE PrimaryAgain(t)
      BY <2>5, <2>k, <2>p, <2>s, <2>t DEF PrimaryAgain, Inside, AtBase, TypeOK
    <2>6. CASE AddLock(t)
      BY <2>6, <2>k, <2>l, <2>s, <2>t DEF AddLock, Inside, AtBase, TypeOK, Goto
    <2>7. CASE ParentMiss(t)
      BY <2>7, <2>k, <2>l, <2>s, <2>t DEF ParentMiss, Inside, AtBase, TypeOK, Goto, ReleaseReads
    <2>8. CASE BlessCheck(t)
      BY <2>8, <2>k, <2>l, <2>s, <2>t DEF BlessCheck, Inside, AtBase, TypeOK, Goto, locks
    <2>9. CASE RemoveLock(t)
      BY <2>9, <2>k, <2>l, <2>s, <2>t DEF RemoveLock, Inside, AtBase, TypeOK, Goto
    <2>10. CASE UnblessCheck(t)
      BY <2>10, <2>k, <2>l, <2>s, <2>t DEF UnblessCheck, Inside, AtBase, TypeOK, Goto, locks
    <2>11. CASE EachDone(t)
      BY <2>11, <2>r, <2>z, <2>g, <2>t DEF EachDone, Unfiltered, TypeOK
    <2>12. CASE PrimaryHit(t)
      BY <2>12, <2>r, <2>z, <2>g, <2>t DEF PrimaryHit, PrimaryAnswers, PrimariesIn
    <2>13. CASE PrimaryMiss(t)
      BY <2>13, <2>r, <2>z, <2>g DEF PrimaryMiss
    <2>14. CASE ParentHit(t)
      BY <2>14, <2>r, <2>z, <2>g DEF ParentHit
    <2>15. CASE EmplaceConflict(t)
      BY <2>15, <2>r, <2>z, <2>g DEF EmplaceConflict
    <2>16. CASE BlessThrows(t)
      BY <2>16, <2>r, <2>z, <2>g DEF BlessThrows
    <2>17. CASE RemoveMiss(t)
      BY <2>17, <2>r, <2>z, <2>g DEF RemoveMiss
    <2>18. CASE UnblessThrows(t)
      BY <2>18, <2>r, <2>z, <2>g DEF UnblessThrows
    <2>19. CASE Emplace(t)
      <3>1. EntriesOK' /\ OwnerOK' /\ owner' = owner
        BY <2>19, <2>i DEF Emplace, Insert
      <3>2. CASE BlessTarget(call[t].arg)
        BY <2>19, <2>k, <2>l, <2>t, <3>1, <3>2 DEF Emplace, Inside, AtBase, Goto, locks, TypeOK
      <3>3. CASE ~ BlessTarget(call[t].arg)
        BY <2>19, <2>r, <2>g, <3>1, <3>3 DEF Emplace
      <3> QED
        BY <3>2, <3>3
    <2>20. CASE Put(t)
      <3>1. EntriesOK' /\ OwnerOK' /\ owner' = owner
        BY <2>20, <2>i DEF Put, Insert
      <3>2. CASE BlessTarget(call[t].arg)
        <4>1. Goto(t, "bless") /\ UNCHANGED <<owner, call, reply, level, seen, readers>>
              /\ writer' = [writer EXCEPT ![Base(t)] = t] /\ pc[t] = "put"
          BY <2>20, <3>1, <3>2 DEF Put
        <4>2. Inside(t, "bless")
          BY <4>1, <2>t DEF Inside, AtBase, Goto, TypeOK
        <4> QED
          BY <4>2, <3>1, <2>k, <2>l
      <3>3. CASE ~ BlessTarget(call[t].arg)
        BY <2>20, <2>r, <2>g, <3>1, <3>3 DEF Put
      <3> QED
        BY <3>2, <3>3
    <2>21. CASE Own(t)
      <3>1. EntriesOK' /\ OwnerOK'
        BY <2>21, <2>s, <2>t, <2>e DEF Own, OwnerOK
      <3> QED
        BY <2>21, <2>r, <2>g, <3>1 DEF Own
    <2>22. CASE RemoveIndex(t)
      <3>1. EntriesOK' /\ OwnerOK'
        BY <2>22, <2>d, <2>e DEF RemoveIndex, OwnerOK
      <3> QED
        BY <2>22, <2>r, <2>g, <3>1 DEF RemoveIndex
    <2>23. CASE Disown(t)
      <3>1. EntriesOK' /\ OwnerOK'
        BY <2>23, <2>d, <2>e, <2>t DEF Disown, OwnerOK
      <3> QED
        BY <2>23, <2>r, <2>g, <3>1 DEF Disown
    <2> QED
      BY <2>1, <2>2, <2>3, <2>4, <2>5, <2>6, <2>7, <2>8, <2>9, <2>10, <2>11, <2>12, <2>13, <2>14, <2>15, <2>16, <2>17, <2>18, <2>19, <2>20, <2>21, <2>22, <2>23
         DEF Step, Find, Each, Primary, Add, Bless, Remove
  <1> QED
    BY <1>u, <1>n DEF Next

LEMMA InitType == Init => TypeOK
  <1> SUFFICES ASSUME Init PROVE TypeOK
    OBVIOUS
  <1>1. entries \in Contents /\ \A p \in Provider, k \in Key : ~ Has(entries, p, k)
    BY DEF Init, Empty, Contents, Has
  <1>2. reply \in [Thread -> [tag : Tags, is : SUBSET Element]]
    BY DEF Init, Contained!NoReply, Contained!Reply, Tags
  <1>3. "idle" \in Labels
    BY DEF Labels
  <1> QED
    BY <1>1, <1>2, <1>3 DEF Init, TypeOK, Tags

(* Every variable keeps its type in every behaviour of the provider. *)
THEOREM TypeCorrect == Spec => []TypeOK
  BY InitType, TypeInductive, PTL DEF Spec

-----------------------------------------------------------------------------
(* The locks. *)

(* The other threads are where they were. *)
Aside(t) ==
    \A u \in Thread \ {t} : pc'[u] = pc[u] /\ call'[u] = call[u] /\ level'[u] = level[u]

LEMMA ReturnLocks ==
  ASSUME TypeOK, LocksHeld, NEW t \in Thread, NEW tag, NEW S, Return(t, tag, S)
  PROVE  LocksHeld'
  <1>1. pc'[t] = "idle" /\ Aside(t)
    BY DEF Return, Contained!Answer, TypeOK, Aside
  <1>2. \A p \in Provider : /\ t \notin readers'[p]
                             /\ readers'[p] = readers[p] \ {t}
                             /\ writer'[p] = IF writer[p] = t THEN NoThread ELSE writer[p]
    BY DEF Return, ReleaseAll, TypeOK
  <1>3. ASSUME NEW p \in Provider, writer'[p] # NoThread
        PROVE  /\ readers'[p] = {}
               /\ pc'[writer'[p]] \in WriterLabels
               /\ Base(writer[p])' = p
    <2>1. writer'[p] = writer[p] /\ writer[p] # t /\ writer[p] \in Thread
      BY <1>2, <1>3 DEF TypeOK
    <2>2. readers[p] = {} /\ pc[writer[p]] \in WriterLabels /\ Base(writer[p]) = p
      BY <2>1, ThreadAssumption DEF LocksHeld, WriterAlone, WriterHolds, ReaderInside, WalkedIsRead
    <2>3. pc'[writer[p]] = pc[writer[p]] /\ call'[writer[p]] = call[writer[p]]
      BY <1>1, <2>1 DEF Aside
    <2> QED
      BY <1>2, <2>1, <2>2, <2>3 DEF Base
  <1>4. ASSUME NEW u \in Thread, pc'[u] \in WriterLabels
        PROVE  writer'[Base(u)'] = u
    <2>1. u # t
      BY <1>1, <1>4 DEF WriterLabels
    <2>2. pc[u] = pc'[u] /\ Base(u)' = Base(u) /\ pc[u] # "idle"
      BY <1>1, <1>4, <2>1 DEF Aside, Base, WriterLabels
    <2>3. Base(u) \in Provider
      BY <2>2, InCall
    <2> QED
      BY <1>2, <1>4, <2>1, <2>2, <2>3 DEF LocksHeld, WriterAlone, WriterHolds, ReaderInside, WalkedIsRead
  <1>5. ASSUME NEW p \in Provider, NEW u \in Thread, u \in readers'[p]
        PROVE  \/ /\ pc'[u] \in {"find", "each", "parents"}
                  /\ \E i \in 1 .. (level'[u] - 1) : Chain[Base(u)'][i] = p
               \/ pc'[u] = "primary" /\ p = Base(u)'
    <2>1. u \in readers[p] /\ u # t /\ u \in Thread
      BY <1>2, <1>5 DEF TypeOK
    <2>2. pc[u] = pc'[u] /\ Base(u)' = Base(u) /\ level'[u] = level[u]
      BY <1>1, <2>1 DEF Aside, Base
    <2> QED
      BY <2>1, <2>2 DEF LocksHeld, WriterAlone, WriterHolds, ReaderInside, WalkedIsRead
  <1>6. ASSUME NEW u \in Thread, NEW i \in 1 .. (level'[u] - 1),
               pc'[u] \in {"find", "each"} \/ (pc'[u] = "parents" /\ i > 1)
        PROVE  u \in readers'[Chain[Base(u)'][i]]
    <2>1. u # t
      BY <1>1, <1>6
    <2>2. pc[u] = pc'[u] /\ Base(u)' = Base(u) /\ level'[u] = level[u] /\ pc[u] # "idle"
      BY <1>1, <1>6, <2>1 DEF Aside, Base
    <2>3. Base(u) \in Provider /\ level[u] \in 1 .. Len(Chain[Base(u)])
          /\ Chain[Base(u)] \in Seq(Provider)
      BY <2>2, InCall, ChainAssumption
    <2>4. Chain[Base(u)][i] \in Provider
      BY <2>2, <2>3
    <2>5. u \in readers[Chain[Base(u)][i]]
      BY <1>6, <2>2 DEF LocksHeld, WriterAlone, WriterHolds, ReaderInside, WalkedIsRead
    <2> QED
      BY <1>2, <2>1, <2>2, <2>4, <2>5
  <1> QED
    BY <1>3, <1>4, <1>5, <1>6 DEF LocksHeld, WriterAlone, WriterHolds, ReaderInside, WalkedIsRead, Base

(* A step between two labels of the writer, or one more reader lock. *)
LEMMA KeepLocks ==
  ASSUME TypeOK, LocksHeld, NEW t \in Thread, Aside(t), call' = call, pc[t] # "idle",
         writer' = writer, readers' = readers, level' = level,
         pc'[t] = pc[t] \/ (pc[t] \in WriterLabels /\ pc'[t] \in WriterLabels \ {"parents"}
                             /\ \A p \in Provider : t \notin readers[p])
  PROVE  LocksHeld'
  <1>1. \A u \in Thread : Base(u)' = Base(u)
    BY DEF Base
  <1>2. \A u \in Thread : pc'[u] = pc[u] \/ u = t
    BY DEF Aside
  <1>3. WriterAlone'
    <2> SUFFICES ASSUME NEW p \in Provider, writer[p] # NoThread
                 PROVE  readers[p] = {} /\ pc'[writer[p]] \in WriterLabels
                        /\ Base(writer[p])' = p
      BY DEF WriterAlone
    <2>1. readers[p] = {} /\ pc[writer[p]] \in WriterLabels /\ Base(writer[p]) = p
          /\ writer[p] \in Thread
      BY DEF LocksHeld, WriterAlone, TypeOK
    <2> QED
      BY <1>1, <1>2, <2>1
  <1>4. WriterHolds'
    BY <1>1, <1>2 DEF LocksHeld, WriterHolds
  <1>5. ReaderInside'
    <2> SUFFICES ASSUME NEW p \in Provider, NEW u \in Thread, u \in readers[p]
                 PROVE  \/ /\ pc'[u] \in {"find", "each", "parents"}
                           /\ \E i \in 1 .. (level[u] - 1) : Chain[Base(u)][i] = p
                        \/ pc'[u] = "primary" /\ p = Base(u)
      BY <1>1 DEF ReaderInside
    <2>1. pc'[u] = pc[u]
      BY <1>2 DEF TypeOK
    <2> QED
      BY <2>1 DEF LocksHeld, ReaderInside
  <1>6. WalkedIsRead'
    BY <1>1, <1>2 DEF LocksHeld, WalkedIsRead, WriterLabels
  <1> QED
    BY <1>3, <1>4, <1>5, <1>6 DEF LocksHeld

LEMMA AcquireLocks ==
  ASSUME TypeOK, LocksHeld, NEW t \in Thread, Aside(t), call' = call, pc[t] \in {"add", "put", "remove"},
         MayWrite(Base(t)), writer' = [writer EXCEPT ![Base(t)] = t], readers' = readers,
         pc'[t] \in WriterLabels, level'[t] \in {1, 2}
  PROVE  LocksHeld'
  <1>1. \A u \in Thread : Base(u)' = Base(u)
    BY DEF Base
  <1>2. \A p \in Provider : t \notin readers[p]
    BY DEF LocksHeld, ReaderInside
  <1>3. Base(t) \in Provider
    BY InCall
  <1>4. WriterAlone'
    <2> SUFFICES ASSUME NEW p \in Provider, writer'[p] # NoThread
                 PROVE  readers[p] = {} /\ pc'[writer'[p]] \in WriterLabels
                        /\ Base(writer'[p]) = p
      BY <1>1 DEF WriterAlone, TypeOK, Base
    <2>1. CASE p = Base(t)
      BY <2>1, <1>3 DEF TypeOK, MayWrite
    <2>2. CASE p # Base(t)
      <3>1. writer'[p] = writer[p] /\ writer[p] \in Thread
        BY <2>2 DEF TypeOK
      <3>2. readers[p] = {} /\ pc[writer[p]] \in WriterLabels /\ Base(writer[p]) = p
        BY <3>1 DEF LocksHeld, WriterAlone
      <3> QED
        BY <2>2, <3>1, <3>2 DEF Aside
    <2> QED
      BY <2>1, <2>2
  <1>5. WriterHolds'
    <2> SUFFICES ASSUME NEW u \in Thread, pc'[u] \in WriterLabels
                 PROVE  writer'[Base(u)] = u
      BY <1>1 DEF WriterHolds
    <2>1. CASE u = t
      BY <2>1, <1>3 DEF TypeOK
    <2>2. CASE u # t
      <3>1. pc[u] \in WriterLabels /\ writer[Base(u)] = u
        BY <2>2 DEF Aside, LocksHeld, WriterHolds
      <3>2. Base(u) # Base(t)
        BY <3>1, ThreadAssumption DEF MayWrite
      <3> QED
        BY <3>1, <3>2 DEF TypeOK
    <2> QED
      BY <2>1, <2>2
  <1>6. ReaderInside'
    <2> SUFFICES ASSUME NEW p \in Provider, NEW u \in Thread, u \in readers[p]
                 PROVE  \/ /\ pc'[u] \in {"find", "each", "parents"}
                           /\ \E i \in 1 .. (level'[u] - 1) : Chain[Base(u)][i] = p
                        \/ pc'[u] = "primary" /\ p = Base(u)
      BY <1>1 DEF ReaderInside
    <2>1. u \in Thread \ {t}
      BY <1>2 DEF TypeOK
    <2> QED
      BY <2>1 DEF LocksHeld, ReaderInside, Aside
  <1>7. WalkedIsRead'
    <2> SUFFICES ASSUME NEW u \in Thread, NEW i \in 1 .. (level'[u] - 1),
                        pc'[u] \in {"find", "each"} \/ (pc'[u] = "parents" /\ i > 1)
                 PROVE  u \in readers[Chain[Base(u)][i]]
      BY <1>1 DEF WalkedIsRead
    <2>1. u # t
      BY DEF WriterLabels
    <2> QED
      BY <2>1 DEF LocksHeld, WalkedIsRead, Aside
  <1> QED
    BY <1>4, <1>5, <1>6, <1>7 DEF LocksHeld

(* One level up, the level left behind stays read-locked. *)
LEMMA UpLocks ==
  ASSUME TypeOK, LocksHeld, NEW t \in Thread, Aside(t), call' = call,
         pc[t] \in {"find", "each", "parents"}, pc'[t] = pc[t],
         MayRead(At(t)), ~ IsTop(t), writer' = writer,
         readers' = [readers EXCEPT ![At(t)] = @ \cup {t}],
         level'[t] = level[t] + 1
  PROVE  LocksHeld'
  <1>1. \A u \in Thread : Base(u)' = Base(u) /\ pc'[u] = pc[u]
    BY DEF Base, Aside
  <1>2. Base(t) \in Provider /\ At(t) \in Provider /\ level[t] \in 1 .. Len(Chain[Base(t)])
        /\ level[t] \in Nat
    BY InCall DEF TypeOK
  <1>3. \A p \in Provider : readers'[p] = readers[p] \/ (p = At(t) /\ readers'[p] = readers[p] \cup {t})
    BY <1>2 DEF TypeOK
  <1>4. WriterAlone'
    <2> SUFFICES ASSUME NEW p \in Provider, writer[p] # NoThread
                 PROVE  readers'[p] = {} /\ pc[writer[p]] \in WriterLabels
                        /\ Base(writer[p]) = p
      BY <1>1 DEF WriterAlone, TypeOK, Base
    <2> QED
      BY <1>3 DEF LocksHeld, WriterAlone, MayRead
  <1>5. WriterHolds'
    BY <1>1 DEF LocksHeld, WriterHolds
  <1>6. ReaderInside'
    <2> SUFFICES ASSUME NEW p \in Provider, NEW u \in Thread, u \in readers'[p]
                 PROVE  \/ /\ pc[u] \in {"find", "each", "parents"}
                           /\ \E i \in 1 .. (level'[u] - 1) : Chain[Base(u)][i] = p
                        \/ pc[u] = "primary" /\ p = Base(u)
      BY <1>1 DEF ReaderInside
    <2>0. u \in Thread
      BY <1>3 DEF TypeOK
    <2>1. CASE u \in readers[p]
      <3>1. \/ /\ pc[u] \in {"find", "each", "parents"}
               /\ \E i \in 1 .. (level[u] - 1) : Chain[Base(u)][i] = p
            \/ pc[u] = "primary" /\ p = Base(u)
        BY <2>1 DEF LocksHeld, ReaderInside
      <3>2. level'[u] = level[u] \/ (u = t /\ level'[u] = level[u] + 1)
        BY <2>0 DEF Aside
      <3>3. level[u] \in Nat
        BY <2>0 DEF TypeOK
      <3> QED
        BY <3>1, <3>2, <3>3
    <2>2. CASE u \notin readers[p]
      <3>1. u = t /\ p = At(t)
        BY <2>2, <1>3
      <3> QED
        BY <3>1, <1>2 DEF At
    <2> QED
      BY <2>1, <2>2
  <1>7. WalkedIsRead'
    <2> SUFFICES ASSUME NEW u \in Thread, NEW i \in 1 .. (level'[u] - 1),
                        pc[u] \in {"find", "each"} \/ (pc[u] = "parents" /\ i > 1)
                 PROVE  u \in readers'[Chain[Base(u)][i]]
      BY <1>1 DEF WalkedIsRead
    <2>1. Base(u) \in Provider /\ Chain[Base(u)] \in Seq(Provider)
          /\ level[u] \in 1 .. Len(Chain[Base(u)])
      BY InCall, ChainAssumption
    <2>2. CASE i = level[u] /\ u = t
      BY <2>2, <1>2 DEF At, TypeOK
    <2>3. CASE i \in 1 .. (level[u] - 1)
      <3>1. u \in readers[Chain[Base(u)][i]] /\ Chain[Base(u)][i] \in Provider
        BY <2>1, <2>3 DEF LocksHeld, WalkedIsRead
      <3> QED
        BY <3>1, <1>3
    <2>4. (i = level[u] /\ u = t) \/ i \in 1 .. (level[u] - 1)
      BY <2>1, <1>2 DEF Aside
    <2> QED
      BY <2>2, <2>3, <2>4
  <1> QED
    BY <1>4, <1>5, <1>6, <1>7 DEF LocksHeld

LEMMA PrimaryAgainLocks ==
  ASSUME TypeOK, LocksHeld, NEW t \in Thread, PrimaryAgain(t)
  PROVE  LocksHeld'
  <1>1. \A u \in Thread : Base(u)' = Base(u)
    BY DEF Base, PrimaryAgain
  <1>2. Base(t) \in Provider
    BY InCall DEF PrimaryAgain
  <1>3. \A p \in Provider :
          readers'[p] = readers[p] \/ (p = Base(t) /\ readers'[p] = readers[p] \cup {t})
    BY <1>2 DEF TypeOK, PrimaryAgain
  <1>4. WriterAlone'
    <2> SUFFICES ASSUME NEW p \in Provider, writer[p] # NoThread
                 PROVE  readers'[p] = {} /\ pc[writer[p]] \in WriterLabels
                        /\ Base(writer[p]) = p
      BY <1>1 DEF WriterAlone, TypeOK, Base, PrimaryAgain
    <2> QED
      BY <1>3 DEF LocksHeld, WriterAlone, MayRead, PrimaryAgain
  <1>5. WriterHolds'
    BY <1>1 DEF LocksHeld, WriterHolds, PrimaryAgain
  <1>6. ReaderInside'
    BY <1>1, <1>3 DEF LocksHeld, ReaderInside, PrimaryAgain
  <1>7. WalkedIsRead'
    <2> SUFFICES ASSUME NEW u \in Thread, NEW i \in 1 .. (level[u] - 1),
                        pc[u] \in {"find", "each"} \/ (pc[u] = "parents" /\ i > 1)
                 PROVE  u \in readers'[Chain[Base(u)][i]]
      BY <1>1 DEF WalkedIsRead, PrimaryAgain
    <2>1. Base(u) \in Provider /\ Chain[Base(u)] \in Seq(Provider)
          /\ level[u] \in 1 .. Len(Chain[Base(u)])
      BY InCall, ChainAssumption
    <2>2. u \in readers[Chain[Base(u)][i]] /\ Chain[Base(u)][i] \in Provider
      BY <2>1 DEF LocksHeld, WalkedIsRead
    <2> QED
      BY <2>2, <1>3
  <1> QED
    BY <1>4, <1>5, <1>6, <1>7 DEF LocksHeld

LEMMA ParentMissLocks ==
  ASSUME TypeOK, LocksHeld, NEW t \in Thread, ParentMiss(t)
  PROVE  LocksHeld'
  <1>1. \A u \in Thread : Base(u)' = Base(u) /\ level'[u] = level[u]
    BY DEF Base, ParentMiss
  <1>2. pc[t] = "parents" /\ pc'[t] = "emplace" /\ Aside(t)
    BY DEF ParentMiss, Goto, Aside, TypeOK
  <1>3. \A p \in Provider : readers'[p] = readers[p] \ {t}
    BY DEF TypeOK, ParentMiss, ReleaseReads
  <1>4. WriterAlone'
    <2> SUFFICES ASSUME NEW p \in Provider, writer[p] # NoThread
                 PROVE  readers'[p] = {} /\ pc'[writer[p]] \in WriterLabels
                        /\ call'[writer[p]].on = p
      BY DEF WriterAlone, ParentMiss, ReleaseReads, Base
    <2>1. readers[p] = {} /\ pc[writer[p]] \in WriterLabels /\ Base(writer[p]) = p
          /\ writer[p] \in Thread
      BY DEF LocksHeld, WriterAlone, TypeOK
    <2> QED
      BY <1>1, <1>2, <1>3, <2>1 DEF Aside, WriterLabels, Base
  <1>5. WriterHolds'
    BY <1>1, <1>2 DEF LocksHeld, WriterHolds, ParentMiss, ReleaseReads, Aside, WriterLabels
  <1>6. ReaderInside'
    BY <1>1, <1>2, <1>3 DEF LocksHeld, ReaderInside, Aside
  <1>7. WalkedIsRead'
    <2> SUFFICES ASSUME NEW u \in Thread, NEW i \in 1 .. (level[u] - 1),
                        pc'[u] \in {"find", "each"} \/ (pc'[u] = "parents" /\ i > 1)
                 PROVE  u \in readers'[Chain[Base(u)][i]]
      BY <1>1 DEF WalkedIsRead
    <2>0. u # t /\ pc'[u] = pc[u]
      BY <1>2 DEF Aside
    <2>1. Base(u) \in Provider /\ Chain[Base(u)] \in Seq(Provider)
          /\ level[u] \in 1 .. Len(Chain[Base(u)])
      BY <2>0, InCall, ChainAssumption
    <2>2. u \in readers[Chain[Base(u)][i]] /\ Chain[Base(u)][i] \in Provider
      BY <2>0, <2>1 DEF LocksHeld, WalkedIsRead
    <2> QED
      BY <2>0, <2>2, <1>3
  <1> QED
    BY <1>4, <1>5, <1>6, <1>7 DEF LocksHeld

LEMMA CallLocks ==
  ASSUME TypeOK, LocksHeld, NEW t \in Thread, Call(t)
  PROVE  LocksHeld'
  <1>1. PICK c \in Request : Contained!Ask(t, c) /\ Goto(t, c.op)
    BY DEF Call
  <1>2. c.op \in Contained!Ops
    BY ThreadAssumption DEF Contained!Calls
  <1>3. pc[t] = "idle" /\ pc'[t] = c.op /\ Aside(t) /\ level' = level /\ level[t] = 1
        /\ writer' = writer /\ readers' = readers
    BY <1>1 DEF Call, Contained!Ask, Goto, Aside, TypeOK, AtBase, locks
  <1>4. \A u \in Thread \ {t} : Base(u)' = Base(u) /\ pc'[u] = pc[u]
    BY <1>3 DEF Aside, Base
  <1>5. WriterAlone'
    <2> SUFFICES ASSUME NEW p \in Provider, writer[p] # NoThread
                 PROVE  readers[p] = {} /\ pc'[writer[p]] \in WriterLabels
                        /\ call'[writer[p]].on = p
      BY <1>3 DEF WriterAlone, Base
    <2>1. readers[p] = {} /\ pc[writer[p]] \in WriterLabels /\ Base(writer[p]) = p
          /\ writer[p] \in Thread
      BY DEF LocksHeld, WriterAlone, TypeOK
    <2>2. writer[p] # t
      BY <1>3, <2>1 DEF WriterLabels
    <2> QED
      BY <1>4, <2>1, <2>2 DEF Base
  <1>6. WriterHolds'
    BY <1>2, <1>3, <1>4 DEF LocksHeld, WriterHolds, WriterLabels, Contained!Ops
  <1>7. ReaderInside'
    <2>1. \A p \in Provider : t \notin readers[p]
      BY <1>3 DEF LocksHeld, ReaderInside
    <2> QED
      BY <1>3, <1>4, <2>1 DEF LocksHeld, ReaderInside
  <1>8. WalkedIsRead'
    BY <1>3, <1>4 DEF LocksHeld, WalkedIsRead
  <1> QED
    BY <1>5, <1>6, <1>7, <1>8 DEF LocksHeld

LEMMA LocksInductive ==
  ASSUME TypeOK, LocksHeld, [Next]_vars
  PROVE  LocksHeld'
  <1>u. CASE UNCHANGED vars
    BY <1>u DEF vars, LocksHeld, WriterAlone, WriterHolds, ReaderInside, WalkedIsRead, Base
  <1>n. ASSUME NEW t \in Thread, Call(t) \/ Step(t)
        PROVE  LocksHeld'
    <2>c. CASE Call(t)
      BY <2>c, CallLocks
    <2>r. \A tag, S : Return(t, tag, S) => LocksHeld'
      BY ReturnLocks
    <2>w. pc[t] \in {"bless", "own", "unbless", "disown", "emplace"}
            => \A p \in Provider : t \notin readers[p]
      BY DEF LocksHeld, ReaderInside
    <2>0. CASE \/ FindHit(t) \/ FindMiss(t) \/ EachDone(t) \/ PrimaryHit(t)
               \/ PrimaryMiss(t) \/ ParentHit(t) \/ EmplaceConflict(t)
               \/ BlessThrows(t) \/ Own(t) \/ RemoveMiss(t) \/ RemoveIndex(t)
               \/ UnblessThrows(t) \/ Disown(t)
      BY <2>0, <2>r DEF FindHit, FindMiss, EachDone, PrimaryHit, PrimaryMiss,
             ParentHit, EmplaceConflict, BlessThrows, Own, RemoveMiss,
             RemoveIndex, UnblessThrows, Disown
    <2>1. CASE WalkUp(t) \/ EachUp(t)
      <3>1. /\ Aside(t) /\ call' = call /\ pc[t] \in {"find", "each", "parents"}
            /\ pc' = pc /\ writer' = writer
            /\ MayRead(At(t)) /\ ~ IsTop(t)
            /\ readers' = [readers EXCEPT ![At(t)] = @ \cup {t}]
            /\ level'[t] = level[t] + 1
        BY <2>1 DEF WalkUp, EachUp, Aside, TypeOK
      <3> QED
        BY <3>1, UpLocks
    <2>2. CASE PrimaryAgain(t)
      BY <2>2, PrimaryAgainLocks
    <2>3. CASE ParentMiss(t)
      BY <2>3, ParentMissLocks
    <2>4. CASE AddLock(t) \/ RemoveLock(t)
      <3>1. /\ Aside(t) /\ call' = call /\ pc[t] \in {"add", "put", "remove"}
            /\ MayWrite(Base(t)) /\ writer' = [writer EXCEPT ![Base(t)] = t]
            /\ readers' = readers /\ pc'[t] \in WriterLabels
            /\ level'[t] \in {1, 2}
        BY <2>4 DEF AddLock, RemoveLock, Aside, TypeOK, Goto, WriterLabels, AtBase
      <3> QED
        BY <3>1, AcquireLocks
    <2>5. CASE Put(t)
      <3>1. CASE BlessTarget(call[t].arg)
        <4>1. /\ Aside(t) /\ call' = call /\ pc[t] \in {"add", "put", "remove"}
              /\ MayWrite(Base(t)) /\ writer' = [writer EXCEPT ![Base(t)] = t]
              /\ readers' = readers /\ pc'[t] \in WriterLabels
              /\ level'[t] \in {1, 2}
          BY <2>5, <3>1 DEF Put, Aside, TypeOK, Goto, WriterLabels, AtBase
        <4> QED
          BY <4>1, AcquireLocks
      <3>2. CASE ~ BlessTarget(call[t].arg)
        BY <2>5, <3>2, <2>r DEF Put
      <3> QED
        BY <3>1, <3>2
    <2>6. CASE Emplace(t)
      <3>1. CASE BlessTarget(call[t].arg)
        <4>1. /\ Aside(t) /\ call' = call /\ pc[t] = "emplace" /\ pc'[t] = "bless"
              /\ writer' = writer /\ readers' = readers /\ level' = level
          BY <2>6, <3>1 DEF Emplace, Aside, TypeOK, Goto, locks
        <4> QED
          BY <4>1, <2>w, KeepLocks DEF WriterLabels
      <3>2. CASE ~ BlessTarget(call[t].arg)
        BY <2>6, <3>2, <2>r DEF Emplace
      <3> QED
        BY <3>1, <3>2
    <2>7. CASE BlessCheck(t) \/ UnblessCheck(t)
      <3>1. /\ Aside(t) /\ call' = call /\ pc[t] \in {"bless", "unbless"}
            /\ pc'[t] \in {"own", "disown"}
            /\ writer' = writer /\ readers' = readers /\ level' = level
        BY <2>7 DEF BlessCheck, UnblessCheck, Aside, TypeOK, Goto, locks
      <3> QED
        BY <3>1, <2>w, KeepLocks DEF WriterLabels
    <2> QED
      BY <1>n, <2>c, <2>0, <2>1, <2>2, <2>3, <2>4, <2>5, <2>6, <2>7
         DEF Step, Find, Each, Primary, Add, Bless, Remove
  <1> QED
    BY <1>u, <1>n DEF Next

-----------------------------------------------------------------------------
(* The walks. *)

(* Nobody changes a provider that some thread reads. *)
LEMMA ReadIsStable ==
  ASSUME TypeOK, LocksHeld, [Next]_vars, NEW p \in Provider, readers[p] # {}
  PROVE  entries'[p] = entries[p]
  <1>1. CASE UNCHANGED entries
    BY <1>1
  <1>2. ASSUME NEW t \in Thread,
               Emplace(t) \/ Put(t) \/ RemoveIndex(t) \/ Disown(t)
        PROVE  entries'[p] = entries[p]
    <2>1. writer[Base(t)] = t \/ MayWrite(Base(t))
      BY <1>2 DEF Emplace, Put, RemoveIndex, Disown, LocksHeld, WriterHolds, WriterLabels
    <2>2. pc[t] # "idle"
      BY <1>2 DEF Emplace, Put, RemoveIndex, Disown
    <2>3. Base(t) # p
      BY <2>1, <2>2, InCall, ThreadAssumption DEF MayWrite, LocksHeld, WriterAlone
    <2> QED
      BY <1>2, <2>3 DEF Emplace, Put, RemoveIndex, Disown, Insert, Erase, TypeOK, Contents
  <1>3. ASSUME NEW t \in Thread, Call(t) \/ Step(t)
        PROVE  \/ UNCHANGED entries
               \/ Emplace(t) \/ Put(t) \/ RemoveIndex(t) \/ Disown(t)
    BY <1>3 DEF Call, Contained!Ask, Step, Find, Each, Primary, Add, Bless, Remove,
           FindHit, WalkUp, FindMiss, EachUp, EachDone, PrimaryHit, PrimaryAgain,
           PrimaryMiss, AddLock, ParentHit, ParentMiss, EmplaceConflict, BlessCheck,
           BlessThrows, Own, RemoveMiss, RemoveLock, UnblessCheck, UnblessThrows
  <1> QED
    BY <1>1, <1>2, <1>3 DEF Next, vars

LEMMA WalkedIsStable ==
  ASSUME TypeOK, LocksHeld, [Next]_vars, NEW u \in Thread,
         NEW i \in 1 .. (level[u] - 1),
         pc[u] \in {"find", "each"} \/ (pc[u] = "parents" /\ i > 1)
  PROVE  /\ Chain[Base(u)][i] \in Provider
         /\ entries'[Chain[Base(u)][i]] = entries[Chain[Base(u)][i]]
  <1>1. Base(u) \in Provider /\ Chain[Base(u)] \in Seq(Provider)
        /\ level[u] \in 1 .. Len(Chain[Base(u)])
    BY InCall, ChainAssumption
  <1>2. Chain[Base(u)][i] \in Provider
    BY <1>1
  <1>3. u \in readers[Chain[Base(u)][i]]
    BY DEF LocksHeld, WalkedIsRead
  <1> QED
    BY <1>2, <1>3, ReadIsStable

(* A step of one thread leaves the others where they are. *)
LEMMA OthersAside ==
  ASSUME TypeOK, NEW t \in Thread, NEW u \in Thread \ {t}, Call(t) \/ Step(t)
  PROVE  /\ pc'[u] = pc[u] /\ call'[u] = call[u] /\ level'[u] = level[u]
         /\ seen'[u] = seen[u]
  <1>1. CASE Call(t)
    BY <1>1 DEF Call, Contained!Ask, Goto, TypeOK
  <1>2. ASSUME NEW tag, NEW S, Return(t, tag, S)
        PROVE  /\ pc'[u] = pc[u] /\ call'[u] = call[u] /\ level'[u] = level[u]
               /\ seen'[u] = seen[u]
    BY <1>2 DEF Return, Contained!Answer, TypeOK
  <1>3. CASE \/ FindHit(t) \/ FindMiss(t) \/ EachDone(t) \/ PrimaryHit(t)
             \/ PrimaryMiss(t) \/ ParentHit(t) \/ EmplaceConflict(t)
             \/ BlessThrows(t) \/ Own(t) \/ RemoveMiss(t) \/ RemoveIndex(t)
             \/ UnblessThrows(t) \/ Disown(t)
    BY <1>3, <1>2 DEF FindHit, FindMiss, EachDone, PrimaryHit, PrimaryMiss,
           ParentHit, EmplaceConflict, BlessThrows, Own, RemoveMiss,
           RemoveIndex, UnblessThrows, Disown
  <1>4. CASE \/ WalkUp(t) \/ EachUp(t) \/ PrimaryAgain(t) \/ AddLock(t)
             \/ ParentMiss(t) \/ BlessCheck(t) \/ RemoveLock(t) \/ UnblessCheck(t)
    BY <1>4 DEF WalkUp, EachUp, PrimaryAgain, AddLock, ParentMiss,
           BlessCheck, RemoveLock, UnblessCheck, Goto, TypeOK
  <1>5. CASE Emplace(t) \/ Put(t)
    BY <1>2, <1>5 DEF Emplace, Put, Goto, TypeOK
  <1> QED
    BY <1>1, <1>3, <1>4, <1>5 DEF Step, Find, Each, Primary, Add, Bless, Remove

(* A step that leaves u inside its walk is u's own walk or not u's at all. *)
LEMMA WalkSteps ==
  ASSUME TypeOK, [Next]_vars, NEW u \in Thread, pc'[u] \in {"find", "each", "parents"}
  PROVE  \/ /\ pc'[u] = pc[u] /\ call'[u] = call[u] /\ level'[u] = level[u]
            /\ seen'[u] = seen[u]
         \/ WalkUp(u) \/ EachUp(u)
         \/ /\ pc'[u] # "parents" /\ level'[u] = 1 /\ seen'[u] = {}
         \/ pc'[u] = "parents" /\ level'[u] = 2
  <1>u. CASE UNCHANGED vars
    BY <1>u DEF vars
  <1>1. ASSUME NEW t \in Thread, t # u, Call(t) \/ Step(t)
        PROVE  /\ pc'[u] = pc[u] /\ call'[u] = call[u] /\ level'[u] = level[u]
               /\ seen'[u] = seen[u]
    BY <1>1, OthersAside
  <1>2. ASSUME Call(u) \/ Step(u)
        PROVE  \/ WalkUp(u) \/ EachUp(u)
               \/ /\ pc'[u] # "parents" /\ level'[u] = 1 /\ seen'[u] = {}
               \/ pc'[u] = "parents" /\ level'[u] = 2
    <2>1. CASE Call(u)
      BY <2>1, ThreadAssumption DEF Call, Contained!Ask, Contained!Calls, Contained!Ops,
             Goto, TypeOK, AtBase
    <2>2. ASSUME NEW tag, NEW S, Return(u, tag, S) PROVE FALSE
      BY <2>2 DEF Return, TypeOK
    <2>3. ~ (\/ FindHit(u) \/ FindMiss(u) \/ EachDone(u) \/ PrimaryHit(u)
             \/ PrimaryMiss(u) \/ ParentHit(u) \/ EmplaceConflict(u)
             \/ BlessThrows(u) \/ Own(u) \/ RemoveMiss(u) \/ RemoveIndex(u)
             \/ UnblessThrows(u) \/ Disown(u))
      BY <2>2 DEF FindHit, FindMiss, EachDone, PrimaryHit, PrimaryMiss,
             ParentHit, EmplaceConflict, BlessThrows, Own, RemoveMiss,
             RemoveIndex, UnblessThrows, Disown
    <2>4. ~ (\/ PrimaryAgain(u) \/ ParentMiss(u) \/ BlessCheck(u) \/ RemoveLock(u)
             \/ UnblessCheck(u))
      BY DEF PrimaryAgain, ParentMiss, BlessCheck, RemoveLock, UnblessCheck, Goto, TypeOK
    <2>5. ~ (Emplace(u) \/ Put(u))
      BY <2>2 DEF Emplace, Put, Goto, TypeOK
    <2>6. AddLock(u) => pc'[u] = "parents" /\ level'[u] = 2
      BY DEF AddLock, Goto, TypeOK, AtBase
    <2> QED
      BY <1>2, <2>1, <2>3, <2>4, <2>5, <2>6 DEF Step, Find, Each, Primary, Add, Bless, Remove
  <1> QED
    BY <1>u, <1>1, <1>2 DEF Next

LEMMA WalkedInductive ==
  ASSUME TypeOK, LocksHeld, WalkedPastNothing, [Next]_vars
  PROVE  WalkedPastNothing'
  <1> DEFINE from(u) == IF pc'[u] = "find" THEN 1 ELSE 2
  <1> SUFFICES ASSUME NEW u \in Thread, pc'[u] \in {"find", "parents"},
                      NEW j \in from(u) .. (level'[u] - 1)
               PROVE  entries'[Chain[Base(u)'][j]][Target(u)'] = NoElement
    BY DEF WalkedPastNothing, Unhidden, Has
  <1>1. CASE /\ pc'[u] = pc[u] /\ call'[u] = call[u] /\ level'[u] = level[u]
    <2>1. Base(u)' = Base(u) /\ Target(u)' = Target(u)
      BY <1>1 DEF Base, Target
    <2>2. level[u] \in Nat
      BY DEF TypeOK
    <2>3. entries'[Chain[Base(u)][j]] = entries[Chain[Base(u)][j]]
      BY <1>1, <2>2, WalkedIsStable
    <2>4. entries[Chain[Base(u)][j]][Target(u)] = NoElement
      BY <1>1, <2>2 DEF WalkedPastNothing, Unhidden, Has
    <2> QED
      BY <2>1, <2>3, <2>4
  <1>2. CASE WalkUp(u)
    <2>1. /\ pc'[u] = pc[u] /\ level'[u] = level[u] + 1 /\ entries' = entries
          /\ Base(u)' = Base(u) /\ Target(u)' = Target(u) /\ level[u] \in Nat
          /\ entries[At(u)][Target(u)] = NoElement
      BY <1>2 DEF WalkUp, Base, Target, TypeOK, Has
    <2>2. CASE j = level[u]
      BY <2>1, <2>2 DEF At
    <2>3. CASE j # level[u]
      BY <2>1, <2>3 DEF WalkedPastNothing, Unhidden, Has
    <2> QED
      BY <2>2, <2>3
  <1>3. CASE EachUp(u)
    BY <1>3 DEF EachUp
  <1>4. CASE pc'[u] # "parents" /\ level'[u] = 1
    BY <1>4
  <1>5. CASE pc'[u] = "parents" /\ level'[u] = 2
    BY <1>5
  <1> QED
    BY <1>1, <1>2, <1>3, <1>4, <1>5, WalkSteps

(* What a level shows depends only on the levels up to it. *)
LEMMA VisibleStep ==
  ASSUME NEW c, NEW p, NEW kind, NEW l \in Nat \ {0}
  PROVE  VisibleBelow(c, p, kind, l + 1) =
           VisibleBelow(c, p, kind, l) \cup
             {e \in Element :
                /\ KindOf[e] = kind
                /\ c[Chain[p][l]][KeyOf(e)] = e
                /\ Unhidden(c, p, 1, l, KeyOf(e))}
  BY DEF VisibleBelow

LEMMA VisibleSame ==
  ASSUME NEW c, NEW d, NEW p, NEW kind, NEW l \in Nat,
         \A i \in 1 .. (l - 1) : d[Chain[p][i]] = c[Chain[p][i]]
  PROVE  VisibleBelow(d, p, kind, l) = VisibleBelow(c, p, kind, l)
  BY DEF VisibleBelow, Unhidden, Has

LEMMA SeenInductive ==
  ASSUME TypeOK, LocksHeld, SeenIsCurrent, [Next]_vars
  PROVE  SeenIsCurrent'
  <1> SUFFICES ASSUME NEW u \in Thread, pc'[u] = "each"
               PROVE  seen'[u] = VisibleBelow(entries', Base(u)', KindOf[call'[u].arg], level'[u])
    BY DEF SeenIsCurrent
  <1>0. level[u] \in Nat
    BY DEF TypeOK
  <1>1. CASE /\ pc'[u] = pc[u] /\ call'[u] = call[u] /\ level'[u] = level[u]
             /\ seen'[u] = seen[u]
    <2>1. \A i \in 1 .. (level[u] - 1) :
            entries'[Chain[Base(u)][i]] = entries[Chain[Base(u)][i]]
      BY <1>1, WalkedIsStable
    <2>2. VisibleBelow(entries', Base(u), KindOf[call[u].arg], level[u])
            = VisibleBelow(entries, Base(u), KindOf[call[u].arg], level[u])
      BY <1>0, <2>1, VisibleSame
    <2> QED
      BY <1>1, <2>2 DEF SeenIsCurrent, Base
  <1>2. CASE WalkUp(u)
    BY <1>2 DEF WalkUp
  <1>3. CASE EachUp(u)
    <2>1. /\ pc[u] = "each" /\ level'[u] = level[u] + 1 /\ entries' = entries
          /\ call' = call /\ seen'[u] = seen[u] \cup Unfiltered(u)
      BY <1>3 DEF EachUp, TypeOK
    <2>2. level[u] \in Nat \ {0}
      BY <2>1, <1>0, InCall
    <2>3. seen[u] = VisibleBelow(entries, Base(u), KindOf[call[u].arg], level[u])
      BY <2>1 DEF SeenIsCurrent
    <2>4. VisibleBelow(entries, Base(u), KindOf[call[u].arg], level[u] + 1)
            = seen[u] \cup Unfiltered(u)
      BY <2>2, <2>3, VisibleStep DEF Unfiltered, At
    <2> QED
      BY <2>1, <2>4 DEF Base
  <1>4. CASE level'[u] = 1 /\ seen'[u] = {}
    BY <1>4 DEF VisibleBelow
  <1> QED
    BY <1>1, <1>2, <1>3, <1>4, WalkSteps

(* The thread with the writer lock is the only one to change a provider. *)
LEMMA WriteIsExclusive ==
  ASSUME TypeOK, LocksHeld, NEW t \in Thread, Call(t) \/ Step(t),
         NEW u \in Thread \ {t}, pc[u] \in WriterLabels
  PROVE  entries'[Base(u)] = entries[Base(u)]
  <1>1. ASSUME Emplace(t) \/ Put(t) \/ RemoveIndex(t) \/ Disown(t)
        PROVE  entries'[Base(u)] = entries[Base(u)]
    <2>1. writer[Base(t)] = t \/ writer[Base(t)] = NoThread
      BY <1>1 DEF Emplace, Put, RemoveIndex, Disown, LocksHeld, WriterHolds,
             WriterLabels, MayWrite
    <2>2. Base(u) # Base(t) /\ Base(u) \in Provider
      BY <2>1, ThreadAssumption, InCall DEF LocksHeld, WriterHolds, WriterLabels
    <2> QED
      BY <1>1, <2>2 DEF Emplace, Put, RemoveIndex, Disown, Insert, Erase, TypeOK, Contents
  <1>2. \/ UNCHANGED entries
        \/ Emplace(t) \/ Put(t) \/ RemoveIndex(t) \/ Disown(t)
    BY DEF Call, Contained!Ask, Step, Find, Each, Primary, Add, Bless, Remove,
           FindHit, WalkUp, FindMiss, EachUp, EachDone, PrimaryHit, PrimaryAgain,
           PrimaryMiss, AddLock, ParentHit, ParentMiss, EmplaceConflict, BlessCheck,
           BlessThrows, Own, RemoveMiss, RemoveLock, UnblessCheck, UnblessThrows
  <1> QED
    BY <1>1, <1>2

(* The part of EntryStays about one thread. *)
StaysAt(u) ==
    pc[u] # "idle" =>
        /\ pc[u] \in OpLabels(call[u].op)
        /\ pc[u] \in {"bless", "own"} => entries[Base(u)][Target(u)] = call[u].arg
        /\ pc[u] \in {"unbless", "disown"} => Has(entries, Base(u), Target(u))

LEMMA OthersStay ==
  ASSUME TypeOK, LocksHeld, EntryStays, NEW t \in Thread, Call(t) \/ Step(t),
         NEW u \in Thread \ {t}, pc'[u] = pc[u], call'[u] = call[u]
  PROVE  StaysAt(u)'
  <1>1. Base(u)' = Base(u) /\ Target(u)' = Target(u)
    BY DEF Base, Target
  <1>2. pc[u] \in {"bless", "own", "unbless", "disown"} => entries'[Base(u)] = entries[Base(u)]
    BY WriteIsExclusive DEF WriterLabels
  <1> QED
    BY <1>1, <1>2 DEF StaysAt, EntryStays, Has

LEMMA OwnStays ==
  ASSUME TypeOK, LocksHeld, EntryStays, NEW t \in Thread, Call(t) \/ Step(t)
  PROVE  StaysAt(t)'
  <1>c. CASE Call(t)
    <2>1. PICK c \in Request : Contained!Ask(t, c) /\ Goto(t, c.op)
      BY <1>c DEF Call
    <2>2. c.op \in Contained!Ops
      BY ThreadAssumption DEF Contained!Calls
    <2>3. call'[t] = c /\ pc'[t] = c.op
      BY <2>1 DEF Contained!Ask, Goto, TypeOK
    <2> QED
      BY <2>2, <2>3 DEF StaysAt, OpLabels, Contained!Ops
  <1>r. ASSUME NEW tag, NEW S, Return(t, tag, S) PROVE StaysAt(t)'
    BY <1>r DEF Return, StaysAt, TypeOK
  <1>0. CASE \/ FindHit(t) \/ FindMiss(t) \/ EachDone(t) \/ PrimaryHit(t)
             \/ PrimaryMiss(t) \/ ParentHit(t) \/ EmplaceConflict(t)
             \/ BlessThrows(t) \/ Own(t) \/ RemoveMiss(t) \/ RemoveIndex(t)
             \/ UnblessThrows(t) \/ Disown(t)
    BY <1>0, <1>r DEF FindHit, FindMiss, EachDone, PrimaryHit, PrimaryMiss,
           ParentHit, EmplaceConflict, BlessThrows, Own, RemoveMiss,
           RemoveIndex, UnblessThrows, Disown
  <1>s. pc[t] # "idle" => StaysAt(t) /\ Base(t) \in Provider /\ Target(t) \in Key
                           /\ call[t].op \in Contained!Ops
    BY InCall DEF EntryStays, StaysAt
  <1>1. CASE WalkUp(t) \/ EachUp(t) \/ PrimaryAgain(t)
    BY <1>1, <1>s DEF WalkUp, EachUp, PrimaryAgain, StaysAt, Base, Target
  <1>2. CASE \/ AddLock(t) \/ ParentMiss(t) \/ BlessCheck(t) \/ RemoveLock(t) \/ UnblessCheck(t)
    <2>1. call' = call /\ entries' = entries /\ Base(t)' = Base(t) /\ Target(t)' = Target(t)
          /\ pc[t] # "idle"
      BY <1>2 DEF AddLock, ParentMiss, BlessCheck, RemoveLock, UnblessCheck, Base, Target
    <2>2. \/ pc[t] = "add" /\ pc'[t] \in {"parents", "emplace"}
          \/ pc[t] = "parents" /\ pc'[t] = "emplace"
          \/ pc[t] = "bless" /\ pc'[t] = "own"
          \/ pc[t] = "remove" /\ pc'[t] = "unbless" /\ Has(entries, Base(t), Target(t))
          \/ pc[t] = "unbless" /\ pc'[t] = "disown"
      BY <1>2 DEF AddLock, ParentMiss, BlessCheck, RemoveLock, UnblessCheck, Goto, TypeOK
    <2> QED
      BY <2>1, <2>2, <1>s DEF StaysAt, OpLabels, Has, Contained!Ops
  <1>3. CASE Emplace(t) \/ Put(t)
    <2>1. CASE BlessTarget(call[t].arg)
      <3>1. /\ call' = call /\ Base(t)' = Base(t) /\ Target(t)' = Target(t)
            /\ pc[t] \in {"emplace", "put"} /\ pc'[t] = "bless" /\ Insert(t)
        BY <1>3, <2>1 DEF Emplace, Put, Goto, TypeOK, Base, Target
      <3>2. entries'[Base(t)][Target(t)] = call[t].arg
        BY <3>1, <1>s DEF Insert, TypeOK, Contents
      <3> QED
        BY <3>1, <3>2, <1>s DEF StaysAt, OpLabels, Contained!Ops
    <2>2. CASE ~ BlessTarget(call[t].arg)
      BY <1>3, <2>2, <1>r DEF Emplace, Put
    <2> QED
      BY <2>1, <2>2
  <1> QED
    BY <1>c, <1>0, <1>1, <1>2, <1>3 DEF Step, Find, Each, Primary, Add, Bless, Remove

LEMMA StaysInductive ==
  ASSUME TypeOK, LocksHeld, EntryStays, [Next]_vars
  PROVE  EntryStays'
  <1>u. CASE UNCHANGED vars
    BY <1>u DEF vars, EntryStays, Base, Target, Has
  <1>n. ASSUME NEW t \in Thread, Call(t) \/ Step(t)
        PROVE  EntryStays'
    <2>1. \A u \in Thread \ {t} : StaysAt(u)'
      BY <1>n, OthersAside, OthersStay
    <2>2. StaysAt(t)'
      BY <1>n, OwnStays
    <2> QED
      BY <2>1, <2>2 DEF EntryStays, StaysAt
  <1> QED
    BY <1>u, <1>n DEF Next

(* Together the five parts are inductive. *)
IndInv == TypeOK /\ LocksHeld /\ WalkedPastNothing /\ SeenIsCurrent /\ EntryStays

LEMMA Invariance == Spec => []IndInv
  <1>1. Init => IndInv
    <2> SUFFICES ASSUME Init PROVE IndInv
      OBVIOUS
    <2>1. TypeOK
      BY InitType
    <2>2. LocksHeld
      BY DEF Init, LocksHeld, WriterAlone, WriterHolds, ReaderInside, WalkedIsRead,
             WriterLabels
    <2>3. WalkedPastNothing /\ SeenIsCurrent /\ EntryStays
      BY DEF Init, WalkedPastNothing, SeenIsCurrent, EntryStays
    <2> QED
      BY <2>1, <2>2, <2>3 DEF IndInv
  <1>2. IndInv /\ [Next]_vars => IndInv'
    BY TypeInductive, LocksInductive, WalkedInductive, SeenInductive,
       StaysInductive DEF IndInv
  <1> QED
    BY <1>1, <1>2, PTL DEF Spec

(* A writer excludes all other threads from its provider, and every thread *)
(* holds the reader locks of exactly the levels it has walked through.     *)
THEOREM LocksCorrect == Spec => []LocksHeld
  BY Invariance, PTL DEF IndInv

(* While a lookup waits for a parent no level below gets an entry for the  *)
(* name: a lookup never answers with an element that is hidden meanwhile.  *)
THEOREM WalkCorrect == Spec => []WalkedPastNothing
  BY Invariance, PTL DEF IndInv

(* While an enumeration waits for a parent, what it has passed to the      *)
(* consumer stays what the levels below show.                              *)
THEOREM SeenCorrect == Spec => []SeenIsCurrent
  BY Invariance, PTL DEF IndInv

(* Nobody else changes an entry between its insertion and its bless, nor   *)
(* between unbless and its erasure.                                        *)
THEOREM EntryCorrect == Spec => []EntryStays
  BY Invariance, PTL DEF IndInv

-----------------------------------------------------------------------------
(* Owners. *)

(* Who executes a call has been asked to. *)
CallsRequested == \A t \in Thread : pc[t] # "idle" => call[t] \in Request

(* A provider holds only what it was offered, *)
HeldWasOffered ==
    \A p \in Provider, k \in Key : Has(entries, p, k) => p \in Offered(entries[p][k])

(* and only such a provider has become an owner. *)
OwnerWasOffered == \A e \in Element : owner[e] # NoProvider => owner[e] \in Offered(e)

(* What a provider alone is offered and holds it owns, unless its writer   *)
(* is on the way from the insertion to the bless.                          *)
Blessing(t, p, e) == writer[p] = t /\ pc[t] \in {"bless", "own"} /\ call[t].arg = e

OwnedAt(p, k) ==
    Has(entries, p, k) /\ BlessTarget(entries[p][k]) /\ Offered(entries[p][k]) = {p}
    => \/ owner[entries[p][k]] = p
       \/ \E t \in Thread : Blessing(t, p, entries[p][k])

HeldOrBlessed == \A p \in Provider, k \in Key : OwnedAt(p, k)

OwnerInv == CallsRequested /\ HeldWasOffered /\ OwnerWasOffered /\ HeldOrBlessed

(* How a step changes the maps and the owners. *)
LEMMA EntryMoves ==
  ASSUME TypeOK, NEW t \in Thread, Call(t) \/ Step(t)
  PROVE  /\ \/ UNCHANGED entries
            \/ Insert(t) /\ (Emplace(t) \/ Put(t))
            \/ Erase(t) /\ (RemoveIndex(t) \/ Disown(t))
         /\ UNCHANGED owner \/ Own(t) \/ Disown(t)
         /\ Call(t) \/ UNCHANGED call \/ (pc'[t] = "idle" /\ \A u \in Thread \ {t} : call'[u] = call[u])
  <1>r. ASSUME NEW tag, NEW S, Return(t, tag, S)
        PROVE  pc'[t] = "idle" /\ \A u \in Thread \ {t} : call'[u] = call[u]
    BY <1>r DEF Return, Contained!Answer, TypeOK
  <1>1. CASE Call(t)
    BY <1>1 DEF Call, Contained!Ask
  <1>2. CASE \/ FindHit(t) \/ FindMiss(t) \/ EachDone(t) \/ PrimaryHit(t)
             \/ PrimaryMiss(t) \/ ParentHit(t) \/ EmplaceConflict(t)
             \/ BlessThrows(t) \/ RemoveMiss(t) \/ UnblessThrows(t)
    BY <1>2, <1>r DEF FindHit, FindMiss, EachDone, PrimaryHit, PrimaryMiss,
           ParentHit, EmplaceConflict, BlessThrows, RemoveMiss, UnblessThrows
  <1>3. CASE \/ WalkUp(t) \/ EachUp(t) \/ PrimaryAgain(t) \/ AddLock(t)
             \/ ParentMiss(t) \/ BlessCheck(t) \/ RemoveLock(t) \/ UnblessCheck(t)
    BY <1>3 DEF WalkUp, EachUp, PrimaryAgain, AddLock, ParentMiss,
           BlessCheck, RemoveLock, UnblessCheck
  <1>4. CASE Emplace(t) \/ Put(t)
    BY <1>4, <1>r DEF Emplace, Put, Insert
  <1>5. CASE Own(t) \/ RemoveIndex(t) \/ Disown(t)
    BY <1>5, <1>r DEF Own, RemoveIndex, Disown
  <1> QED
    BY <1>1, <1>2, <1>3, <1>4, <1>5 DEF Step, Find, Each, Primary, Add, Bless, Remove

(* A writer stays until its own return. *)
LEMMA WriterStays ==
  ASSUME TypeOK, NEW t \in Thread, Call(t) \/ Step(t), NEW u \in Thread \ {t}, NEW p \in Provider, writer[p] = u
  PROVE  writer'[p] = u
  <1>r. ASSUME NEW tag, NEW S, Return(t, tag, S) PROVE writer'[p] = u
    BY <1>r DEF Return, ReleaseAll
  <1>a. ASSUME MayWrite(Base(t)), writer' = [writer EXCEPT ![Base(t)] = t] PROVE writer'[p] = u
    BY <1>a, ThreadAssumption DEF MayWrite, TypeOK
  <1>1. CASE \/ FindHit(t) \/ FindMiss(t) \/ EachDone(t) \/ PrimaryHit(t)
             \/ PrimaryMiss(t) \/ ParentHit(t) \/ EmplaceConflict(t)
             \/ BlessThrows(t) \/ Own(t) \/ RemoveMiss(t) \/ RemoveIndex(t)
             \/ UnblessThrows(t) \/ Disown(t)
    BY <1>1, <1>r DEF FindHit, FindMiss, EachDone, PrimaryHit, PrimaryMiss,
           ParentHit, EmplaceConflict, BlessThrows, Own, RemoveMiss,
           RemoveIndex, UnblessThrows, Disown
  <1>2. CASE Call(t) \/ WalkUp(t) \/ EachUp(t) \/ PrimaryAgain(t) \/ ParentMiss(t) \/ BlessCheck(t) \/ UnblessCheck(t)
    BY <1>2 DEF Call, WalkUp, EachUp, PrimaryAgain, ParentMiss, ReleaseReads, BlessCheck, UnblessCheck, locks
  <1>3. CASE AddLock(t) \/ RemoveLock(t)
    BY <1>3, <1>a DEF AddLock, RemoveLock
  <1>4. CASE Emplace(t) \/ Put(t)
    BY <1>4, <1>a, <1>r DEF Emplace, Put, locks
  <1> QED
    BY <1>1, <1>2, <1>3, <1>4 DEF Step, Find, Each, Primary, Add, Bless, Remove

LEMMA OwnerStep ==
  ASSUME TypeOK, TypeOK', LocksHeld, EntryStays, OwnerInv, NEW t \in Thread, Call(t) \/ Step(t)
  PROVE  OwnerInv'
  <1>0. /\ entries \in [Provider -> [Key -> Element \cup {NoElement}]]
        /\ owner \in [Element -> Provider \cup {NoProvider}]
        /\ pc \in [Thread -> Labels] /\ writer \in [Provider -> Thread \cup {NoThread}]
        /\ call \in [Thread -> Contained!Calls \cup {NoCall}]
    BY DEF TypeOK, Contents
  <1>c. pc[t] # "idle" =>
          /\ call[t] \in Request /\ Base(t) = call[t].on /\ Base(t) \in Provider
          /\ call[t].arg \in Element /\ Target(t) = KeyOf(call[t].arg) /\ Target(t) \in Key
          /\ pc[t] \in OpLabels(call[t].op)
    BY InCall DEF OwnerInv, CallsRequested, EntryStays, Base, Target
  <1>o. pc[t] \in {"emplace", "put", "bless", "own"} => Base(t) \in Offered(call[t].arg)
    <2>1. ASSUME pc[t] \in {"emplace", "put", "bless", "own"} PROVE call[t].op \in {"add", "put"}
      <3>1. pc[t] \in OpLabels(call[t].op) /\ call[t].op \in Contained!Ops
        BY <1>c, <2>1, InCall
      <3> QED
        BY <2>1, <3>1 DEF OpLabels, Contained!Ops
    <2> QED
      BY <1>c, <2>1 DEF Offered
  <1>1. CallsRequested'
    <2>1. \A u \in Thread \ {t} : pc'[u] = pc[u] /\ call'[u] = call[u]
      BY OthersAside
    <2>2. pc'[t] # "idle" => call'[t] \in Request
      <3>1. CASE Call(t)
        BY <1>0, <3>1 DEF Call, Contained!Ask
      <3>2. CASE UNCHANGED call
        <4>1. pc'[t] # "idle" => call[t] # NoCall
          BY <3>2 DEF TypeOK
        <4> QED
          BY <1>c, <3>2, <4>1 DEF TypeOK
      <3> QED
        BY <3>1, <3>2, EntryMoves
    <2> QED
      BY <2>1, <2>2 DEF CallsRequested, OwnerInv
  \* An entry stays, or is filled by the call of t, or becomes empty.
  <1>2. ASSUME NEW p \in Provider, NEW k \in Key, Has(entries', p, k)
        PROVE  \/ entries'[p][k] = entries[p][k]
               \/ /\ Emplace(t) \/ Put(t)
                  /\ p = Base(t) /\ entries'[p][k] = call[t].arg
    <2>1. CASE UNCHANGED entries
      BY <2>1
    <2>2. CASE Insert(t) /\ (Emplace(t) \/ Put(t))
      <3>1. pc[t] # "idle"
        BY <2>2 DEF Emplace, Put
      <3> QED
        BY <1>0, <1>c, <2>2, <3>1 DEF Insert
    <2>3. CASE Erase(t) /\ (RemoveIndex(t) \/ Disown(t))
      <3>1. pc[t] # "idle"
        BY <2>3 DEF RemoveIndex, Disown
      <3> QED
        BY <1>0, <1>2, <1>c, <2>3, <3>1 DEF Erase, Has
    <2> QED
      BY <2>1, <2>2, <2>3, EntryMoves
  <1>3. HeldWasOffered'
    <2> SUFFICES ASSUME NEW p \in Provider, NEW k \in Key, Has(entries', p, k)
                 PROVE  p \in Offered(entries'[p][k])
      BY DEF HeldWasOffered, Offered, Has
    <2>1. CASE entries'[p][k] = entries[p][k]
      BY <2>1 DEF OwnerInv, HeldWasOffered, Has
    <2>2. CASE (Emplace(t) \/ Put(t)) /\ p = Base(t) /\ entries'[p][k] = call[t].arg
      BY <1>o, <2>2 DEF Emplace, Put
    <2> QED
      BY <1>2, <2>1, <2>2
  <1>4. OwnerWasOffered'
    <2> SUFFICES ASSUME NEW e \in Element, owner'[e] # NoProvider
                 PROVE  owner'[e] \in Offered(e)
      BY DEF OwnerWasOffered, Offered
    <2>1. CASE owner'[e] = owner[e]
      BY <2>1 DEF OwnerInv, OwnerWasOffered
    <2>2. CASE Own(t)
      BY <1>0, <1>o, <2>1, <2>2 DEF Own
    <2>3. CASE Disown(t)
      BY <1>0, <2>1, <2>3 DEF Disown
    <2> QED
      BY <2>1, <2>2, <2>3, EntryMoves
  <1>5. ASSUME NEW p \in Provider, NEW k \in Key PROVE OwnedAt(p, k)'
    <2> DEFINE e == entries'[p][k]
    <2> SUFFICES ASSUME Has(entries', p, k), BlessTarget(e), Offered(e) = {p}
                 PROVE  \/ owner'[e] = p
                        \/ \E u \in Thread : writer'[p] = u /\ pc'[u] \in {"bless", "own"} /\ call'[u].arg = e
      BY DEF OwnedAt, Has, BlessTarget, Offered, Blessing
    <2>e. e \in Element
      BY DEF TypeOK, Contents, Has
    <2>1. CASE (Emplace(t) \/ Put(t)) /\ p = Base(t) /\ e = call[t].arg
      <3>1. call' = call /\ pc'[t] = "bless"
        BY <1>0, <2>1 DEF Emplace, Put, Goto
      <3>2. writer'[p] = t
        BY <1>0, <2>1 DEF Emplace, Put, locks, LocksHeld, WriterHolds, WriterLabels
      <3> QED
        BY <2>1, <3>1, <3>2
    <2>2. CASE e = entries[p][k]
      <3>0. owner[e] = p \/ \E u \in Thread : Blessing(u, p, e)
        BY <2>2 DEF OwnerInv, HeldOrBlessed, OwnedAt, Has
      <3>1. CASE \E u \in Thread \ {t} : Blessing(u, p, e)
        <4>1. PICK u \in Thread \ {t} : Blessing(u, p, e)
          BY <3>1
        <4>2. pc'[u] = pc[u] /\ call'[u] = call[u] /\ writer'[p] = u
          BY <4>1, OthersAside, WriterStays DEF Blessing
        <4> QED
          BY <4>1, <4>2 DEF Blessing
      <3>2. CASE Blessing(t, p, e)
        <4>1. p = Base(t) /\ owner[e] \in {NoProvider, p}
          <5>1. p = Base(t)
            BY <3>2, ThreadAssumption DEF Blessing, LocksHeld, WriterAlone
          <5>2. owner[e] # NoProvider => owner[e] \in {p}
            BY <2>e DEF OwnerInv, OwnerWasOffered
          <5> QED
            BY <5>1, <5>2
        <4>2. CASE BlessCheck(t)
          <5>1. writer'[p] = t /\ pc'[t] = "own" /\ call'[t].arg = e
            BY <1>0, <3>2, <4>2 DEF BlessCheck, Blessing, Goto, locks
          <5> QED
            BY <5>1
        <4>3. CASE BlessThrows(t)
          BY <3>2, <4>1, <4>3 DEF BlessThrows, Ownable, Blessing
        <4>4. CASE Own(t)
          BY <1>0, <2>e, <3>2, <4>1, <4>4 DEF Own, Blessing
        <4>5. BlessCheck(t) \/ BlessThrows(t) \/ Own(t)
          BY <3>2 DEF Blessing, Call, Step, Find, Each, Primary, Add, Bless, Remove,
                 FindHit, WalkUp, FindMiss, EachUp, EachDone, PrimaryHit, PrimaryAgain, PrimaryMiss,
                 AddLock, ParentHit, ParentMiss, Emplace, EmplaceConflict, Put,
                 RemoveMiss, RemoveIndex, RemoveLock, UnblessCheck, UnblessThrows, Disown
        <4> QED
          BY <4>2, <4>3, <4>4, <4>5
      <3>3. CASE owner[e] = p
        <4>1. CASE owner' = owner
          BY <3>3, <4>1
        <4>2. CASE Own(t)
          <5>1. e = call[t].arg => Base(t) = p
            BY <1>o, <4>2 DEF Own
          <5> QED
            BY <1>0, <2>e, <3>3, <4>2, <5>1 DEF Own
        <4>3. CASE Disown(t)
          <5>1. pc[t] = "disown" /\ Victim(t) = entries[Base(t)][Target(t)] /\ Base(t) \in Provider /\ Target(t) \in Key
                /\ Has(entries, Base(t), Target(t))
            BY <1>c, <4>3 DEF Disown, Victim, EntryStays
          <5>2. e # Victim(t)
            <6>1. SUFFICES ASSUME e = Victim(t) PROVE FALSE
              OBVIOUS
            <6>2. Base(t) = p
              BY <5>1, <6>1 DEF OwnerInv, HeldWasOffered
            <6>3. Target(t) = k
              BY <2>2, <5>1, <6>1 DEF TypeOK, Has
            <6>4. entries'[p][k] = NoElement
              BY <1>0, <4>3, <5>1, <6>2, <6>3 DEF Disown, Erase
            <6> QED
              BY <2>e, <6>4, ElementAssumption
          <5> QED
            BY <1>0, <3>3, <4>3, <5>2 DEF Disown
        <4> QED
          BY <4>1, <4>2, <4>3, EntryMoves
      <3> QED
        BY <3>0, <3>1, <3>2, <3>3
    <2> QED
      BY <1>2, <2>1, <2>2
  <1> QED
    BY <1>1, <1>3, <1>4, <1>5 DEF OwnerInv, HeldOrBlessed

LEMMA OwnerInductive ==
  ASSUME TypeOK, TypeOK', LocksHeld, EntryStays, OwnerInv, [Next]_vars
  PROVE  OwnerInv'
  <1>u. CASE UNCHANGED vars
    BY <1>u DEF vars, OwnerInv, CallsRequested, HeldWasOffered, OwnerWasOffered, HeldOrBlessed, OwnedAt,
           Blessing, Has, Offered, BlessTarget
  <1> QED
    BY <1>u, OwnerStep DEF Next

(* Whatever else is added, overwritten and removed, a provider nobody      *)
(* writes to is the owner of each relation and sequence it holds, if no    *)
(* other was offered it: bless and unbless do not leave one half done.     *)
THEOREM OwnersCorrect == Spec => []HeldIsOwned
  <1>1. Init => OwnerInv
    BY DEF Init, Empty, OwnerInv, CallsRequested, HeldWasOffered, OwnerWasOffered, HeldOrBlessed, OwnedAt, Has
  <1>2. IndInv /\ IndInv' /\ OwnerInv /\ [Next]_vars => OwnerInv'
    BY OwnerInductive DEF IndInv
  <1>3. OwnerInv => HeldIsOwned
    BY ThreadAssumption DEF OwnerInv, HeldOrBlessed, OwnedAt, Blessing, HeldIsOwned
  <1> QED
    BY <1>1, <1>2, <1>3, Invariance, PTL DEF Spec

-----------------------------------------------------------------------------
(* The provider implements its contents. *)

(* The instance reads the contents with the same operators. *)
LEMMA SameKey == \A e : Contained!KeyOf(e) = KeyOf(e)
  BY DEF Contained!KeyOf, KeyOf

LEMMA SameUnhidden ==
  \A c, p, l, i, k : Contained!Unhidden(c, p, l, i, k) <=> Unhidden(c, p, l, i, k)
  BY DEF Contained!Unhidden, Unhidden, Contained!Has, Has

LEMMA SameView ==
  ASSUME NEW c, NEW p, NEW k
  PROVE  /\ Contained!Has(c, p, k) <=> Has(c, p, k)
         /\ Contained!Absent(c, p, k) <=> Absent(c, p, k)
         /\ \A e : Contained!Provides(c, p, k, e) <=> Provides(c, p, k, e)
         /\ \A x : Contained!PrimaryAnswers(c, p, x) = PrimaryAnswers(c, p, x)
  <1>1. Contained!Has(c, p, k) <=> Has(c, p, k)
    BY DEF Contained!Has, Has
  <1>2. Contained!Absent(c, p, k) <=> Absent(c, p, k)
    BY DEF Contained!Absent, Absent, Contained!Has, Has
  <1>3. \A e : Contained!Provides(c, p, k, e) <=> Provides(c, p, k, e)
    BY SameUnhidden DEF Contained!Provides, Provides
  <1>4. \A x : Contained!PrimariesIn(c, p, x) = PrimariesIn(c, p, x)
    BY SameKey DEF Contained!PrimariesIn, PrimariesIn
  <1>5. \A x : Contained!PrimaryAnswers(c, p, x) = PrimaryAnswers(c, p, x)
    BY <1>4 DEF Contained!PrimaryAnswers, PrimaryAnswers
  <1> QED
    BY <1>1, <1>2, <1>3, <1>5

LEMMA SameVisible ==
  ASSUME NEW c, NEW p, NEW kind
  PROVE  Contained!Visible(c, p, kind) = Visible(c, p, kind)
  BY SameKey, SameUnhidden
     DEF Contained!Visible, Visible, Contained!VisibleBelow, VisibleBelow

LEMMA Simulation ==
  ASSUME IndInv, [Next]_vars
  PROVE  [Contained!Next]_(Contained!contentsVars)
  <1> USE DEF Contained!contentsVars
  <1>u. CASE UNCHANGED vars
    BY <1>u DEF vars
  <1>n. ASSUME NEW t \in Thread, Call(t) \/ Step(t)
        PROVE  [Contained!Next]_(Contained!contentsVars)
    <2>c. CASE Call(t)
      BY <2>c, ThreadAssumption DEF Call, Contained!Next
    <2> SUFFICES ASSUME Step(t) PROVE [Contained!Next]_(Contained!contentsVars)
      BY <1>n, <2>c
    <2>0. pc[t] # "idle"
      BY DEF Step, Find, Each, Primary, Add, Bless, Remove, FindHit, WalkUp,
             FindMiss, EachUp, EachDone, PrimaryHit, PrimaryAgain, PrimaryMiss,
             AddLock, ParentHit, ParentMiss, Emplace, EmplaceConflict, Put,
             BlessCheck, BlessThrows, Own, RemoveMiss, RemoveIndex, RemoveLock,
             UnblessCheck, UnblessThrows, Disown
    <2>t. /\ call[t] # NoCall /\ call[t].op \in Contained!Ops
          /\ Base(t) \in Provider /\ Target(t) \in Key /\ call[t].arg \in Element
          /\ At(t) \in Provider /\ level[t] \in 1 .. Len(Chain[Base(t)])
      BY <2>0, InCall DEF IndInv, TypeOK
    <2>b. 1 \in 1 .. Len(Chain[Base(t)]) /\ Chain[Base(t)][1] = Base(t)
          /\ Len(Chain[Base(t)]) \in Nat
      BY <2>t, ChainAssumption
    <2>o. pc[t] \in OpLabels(call[t].op)
      BY <2>0 DEF IndInv, EntryStays
    <2>p. /\ pc[t] = "find" => call[t].op = "find"
          /\ pc[t] = "each" => call[t].op = "each"
          /\ pc[t] = "primary" => call[t].op = "primary"
          /\ pc[t] \in {"parents", "emplace"} => call[t].op = "add"
          /\ pc[t] = "put" => call[t].op = "put"
          /\ pc[t] \in {"bless", "own"} => call[t].op \in {"add", "put"}
          /\ pc[t] \in {"remove", "unbless", "disown"} => call[t].op = "remove"
      BY <2>o, <2>t DEF OpLabels, Contained!Ops
    <2>a. \A tag, S : Return(t, tag, S) => Contained!Answer(t, tag, S)
      BY DEF Return
    <2>v. \A p \in Provider, k \in Key : Has(entries, p, k) => entries[p][k] \in Element
      BY DEF IndInv, TypeOK, Contents, Has
    <2>1. CASE FindHit(t)
      <3>1. Provides(entries, Base(t), Target(t), entries[At(t)][Target(t)])
        BY <2>1, <2>t DEF FindHit, Provides, At, IndInv, WalkedPastNothing
      <3>2. Contained!Lookup(t)
        BY <2>1, <2>t, <2>p, <2>a, SameView, SameKey, <2>v, <3>1
           DEF FindHit, Contained!Lookup, Base, Target
      <3> QED
        BY <3>2, <2>t DEF Contained!Next
    <2>2. CASE FindMiss(t)
      <3>1. Absent(entries, Base(t), Target(t))
        BY <2>2, <2>t, <2>b DEF FindMiss, Absent, At, IsTop, IndInv, WalkedPastNothing, Unhidden
      <3>2. Contained!Lookup(t)
        BY <2>2, <2>t, <2>p, <2>a, SameView, SameKey, <3>1
           DEF FindMiss, Contained!Lookup, Base, Target
      <3> QED
        BY <3>2, <2>t DEF Contained!Next
    <2>3. CASE EachDone(t)
      <3>1. seen[t] \cup Unfiltered(t) = Visible(entries, Base(t), KindOf[call[t].arg])
        BY <2>3, <2>t, VisibleStep
           DEF EachDone, IsTop, At, Unfiltered, Visible, IndInv, SeenIsCurrent
      <3>2. Contained!Enumerate(t)
        BY <2>3, <2>p, <2>a, SameVisible, <2>t, <3>1
           DEF EachDone, Contained!Enumerate, Base
      <3> QED
        BY <3>2, <2>t DEF Contained!Next
    <2>4. CASE PrimaryHit(t)
      <3>1. \A x \in PrimaryAnswers(entries, Base(t), call[t].arg) : x \in Element
        BY DEF PrimaryAnswers, PrimariesIn
      <3>2. Contained!Primary(t)
        BY <2>4, <2>p, <2>a, SameView, SameKey, <2>t, <3>1
           DEF PrimaryHit, Contained!Primary, Base
      <3> QED
        BY <3>2, <2>t DEF Contained!Next
    <2>5. CASE PrimaryMiss(t)
      <3>1. Len(Chain[Base(t)]) = 1 /\ PrimaryAnswers(entries, Base(t), call[t].arg) = {}
            /\ pc[t] = "primary" /\ Contained!Answer(t, "none", {}) /\ UNCHANGED entries
        BY <2>5, <2>a DEF PrimaryMiss
      <3>2. \A i \in 1 .. Len(Chain[Base(t)]) :
              Contained!PrimaryAnswers(entries, Chain[Base(t)][i], call[t].arg) = {}
        <4>1. \A i \in 1 .. Len(Chain[Base(t)]) : Chain[Base(t)][i] = Base(t)
          BY <3>1, <2>b
        <4> QED
          BY <3>1, <4>1, SameView
      <3>3. Contained!Primary(t)
        BY <3>1, <3>2, <2>p DEF Contained!Primary, Base
      <3> QED
        BY <3>3, <2>t DEF Contained!Next
    <2>6. CASE ParentHit(t) \/ EmplaceConflict(t) \/ BlessThrows(t) \/ UnblessThrows(t)
      <3>1. Has(entries, At(t), Target(t)) \/ Has(entries, Base(t), Target(t))
        <4>1. CASE BlessThrows(t)
          BY <4>1, <2>0, <2>t, ElementAssumption
             DEF BlessThrows, IndInv, EntryStays, Has
        <4> QED
          BY <4>1, <2>6, <2>0
             DEF ParentHit, EmplaceConflict, UnblessThrows, IndInv, EntryStays
      <3>2. ~ Absent(entries, Base(t), Target(t))
        BY <3>1, <2>t, <2>b DEF Absent, At
      <3>3. \E S : S = {} /\ Return(t, "throws", S) /\ UNCHANGED entries
        BY <2>6 DEF ParentHit, EmplaceConflict, BlessThrows, UnblessThrows
      <3>4. call[t].op \in {"add", "put", "remove"}
        BY <2>6, <2>p DEF ParentHit, EmplaceConflict, BlessThrows, UnblessThrows
      <3>5. Contained!Refuse(t)
        BY <3>2, <3>3, <3>4, <2>a, SameView, SameKey DEF Contained!Refuse, Base, Target
      <3> QED
        BY <3>5, <2>t DEF Contained!Next
    <2>7. CASE Emplace(t) \/ Put(t)
      <3>1. Contained!Store(t)
        BY <2>7, <2>p, <2>a, SameView, SameKey, <2>t
           DEF Emplace, Put, Insert, Contained!Store, Base,
               Target
      <3> QED
        BY <3>1, <2>t DEF Contained!Next
    <2>8. CASE Own(t)
      <3>1. Contained!Stored(t)
        BY <2>8, <2>0, <2>p, <2>a, SameView, SameKey, <2>t
           DEF Own, Contained!Stored, Base, Target,
               IndInv, EntryStays
      <3> QED
        BY <3>1, <2>t DEF Contained!Next
    <2>9. CASE RemoveMiss(t) \/ RemoveIndex(t) \/ Disown(t)
      <3>1. Contained!Erase(t)
        BY <2>9, <2>0, <2>p, <2>a, SameView, SameKey, <2>t
           DEF RemoveMiss, RemoveIndex, Disown, Erase, Contained!Erase,
                Base, Target, IndInv, EntryStays
      <3> QED
        BY <3>1, <2>t DEF Contained!Next
    <2>10. CASE \/ WalkUp(t) \/ EachUp(t) \/ PrimaryAgain(t) \/ AddLock(t) \/ ParentMiss(t)
                \/ BlessCheck(t) \/ RemoveLock(t) \/ UnblessCheck(t)
      BY <2>10 DEF WalkUp, EachUp, PrimaryAgain, AddLock, ParentMiss, BlessCheck,
             RemoveLock, UnblessCheck
    <2> QED
      BY <2>1, <2>2, <2>3, <2>4, <2>5, <2>6, <2>7, <2>8, <2>9, <2>10
         DEF Step, Find, Each, Primary, Add, Bless, Remove
  <1> QED
    BY <1>u, <1>n DEF Next

(* Lookups and enumerations are answered from one moment's contents of the *)
(* whole hierarchy, and refusals are justified by them: every behaviour of *)
(* the provider with its locks is a behaviour of ProviderContents.         *)
THEOREM Refinement == Spec => ImplementsContents
  <1>1. Init => Contained!Init
    BY DEF Init, Contained!Init, Empty, Contained!Empty, Key, Contained!Key, Kind,
           Contained!Kind
  <1>2. IndInv /\ [Next]_vars => [Contained!Next]_(Contained!contentsVars)
    BY Simulation
  <1> QED
    BY <1>1, <1>2, Invariance, PTL DEF Spec, Contained!Spec, ImplementsContents
=============================================================================
