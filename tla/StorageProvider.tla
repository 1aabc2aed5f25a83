-------------------------- MODULE StorageProvider --------------------------
(***************************************************************************)
(* yugawara::storage::basic_configurable_provider with std::shared_mutex:  *)
(* client threads look up, enumerate, add and remove elements in a         *)
(* hierarchy of providers.  Each provider has a mutex of its own; a lookup *)
(* keeps the reader locks of all the levels it has walked through, an add  *)
(* keeps its writer lock while it asks the parents.  The owner_ field of a *)
(* relation or sequence belongs to the element and is protected by no      *)
(* mutex: two providers may read and write it at the same time.            *)
(*                                                                         *)
(* One action takes a lock, does what the code does up to the next place   *)
(* where another thread can interfere (the mutex of the parent, or owner_) *)
(* and, when the call returns, releases every lock the call holds.         *)
(***************************************************************************)
EXTENDS StorageCatalog

CONSTANTS
    Thread,     \* the client threads
    NoThread,   \* nobody holds the writer lock
    NoCall,     \* the thread is outside the provider
    Request     \* the calls clients make, a set of [op, on, arg]

VARIABLES
    entries,    \* entries[p][k]: the maps of provider p
    owner,      \* owner[e]: e.owner_
    writer,     \* writer[p]: the thread with the writer lock of p.mutex_
    readers,    \* readers[p]: the threads with a reader lock of p.mutex_
    call,       \* call[t]: the call t executes
    pc,         \* pc[t]: where t is in it
    level,      \* level[t]: the level of Chain[call[t].on] t looks at next
    seen,       \* seen[t]: the elements passed to the consumer so far
    reply       \* reply[t]: what the call of t returned

vars == <<entries, owner, writer, readers, call, pc, level, seen, reply>>
locks == <<writer, readers>>

Contained == INSTANCE ProviderContents WITH entries <- entries, call <- call, reply <- reply

ASSUME ThreadAssumption ==
    /\ NoThread \notin Thread
    /\ NoCall \notin Contained!Calls
    /\ Request \subseteq Contained!Calls

Base(t) == call[t].on
Target(t) == KeyOf(call[t].arg)
At(t) == Chain[Base(t)][level[t]]
IsTop(t) == level[t] = Len(Chain[Base(t)])

-----------------------------------------------------------------------------
(* The mutexes. *)

MayRead(p) == writer[p] = NoThread
\* A mutant: readers do not keep a writer out.
MayWriteOverReaders(p) == writer[p] = NoThread

MayWrite(p) == writer[p] = NoThread /\ readers[p] = {}

\* t gives up every lock it holds, as its lock objects go out of scope.
ReleaseAll(t) ==
    /\ writer' = [p \in Provider |-> IF writer[p] = t THEN NoThread ELSE writer[p]]
    /\ readers' = [p \in Provider |-> readers[p] \ {t}]

ReleaseReads(t) ==
    /\ readers' = [p \in Provider |-> readers[p] \ {t}]
    /\ UNCHANGED writer

Return(t, tag, s) ==
    /\ pc' = [pc EXCEPT ![t] = "idle"]
    /\ Contained!Answer(t, tag, s)
    /\ level' = [level EXCEPT ![t] = 1]
    /\ seen' = [seen EXCEPT ![t] = {}]
    /\ ReleaseAll(t)

Goto(t, label) == pc' = [pc EXCEPT ![t] = label]

-----------------------------------------------------------------------------

Init ==
    /\ entries = Empty
    /\ owner = [e \in Element |-> NoProvider]
    /\ writer = [p \in Provider |-> NoThread]
    /\ readers = [p \in Provider |-> {}]
    /\ call = [t \in Thread |-> NoCall]
    /\ pc = [t \in Thread |-> "idle"]
    /\ level = [t \in Thread |-> 1]
    /\ seen = [t \in Thread |-> {}]
    /\ reply = [t \in Thread |-> Contained!NoReply]

Call(t) ==
    /\ pc[t] = "idle"
    /\ \E c \in Request : Contained!Ask(t, c) /\ Goto(t, c.op)
    /\ UNCHANGED <<owner, locks, level, seen>>

-----------------------------------------------------------------------------
(* internal_find: the child first, then the parent under both locks.  An   *)
(* add without overwrite asks its parents the same way (label "parents").  *)

FindHit(t) ==
    /\ pc[t] = "find"
    /\ MayRead(At(t))
    /\ Has(entries, At(t), Target(t))
    /\ Return(t, "found", {entries[At(t)][Target(t)]})
    /\ UNCHANGED <<entries, owner>>

\* A mutant: the reader lock of the child is not kept for the parent's lookup.
WalkUpUnlocked(t) ==
    /\ pc[t] \in {"find", "parents"}
    /\ MayRead(At(t))
    /\ ~ Has(entries, At(t), Target(t))
    /\ ~ IsTop(t)
    /\ level' = [level EXCEPT ![t] = @ + 1]
    /\ UNCHANGED <<entries, owner, locks, call, pc, seen, reply>>

WalkUp(t) ==
    /\ pc[t] \in {"find", "parents"}
    /\ MayRead(At(t))
    /\ ~ Has(entries, At(t), Target(t))
    /\ ~ IsTop(t)
    /\ readers' = [readers EXCEPT ![At(t)] = @ \cup {t}]
    /\ level' = [level EXCEPT ![t] = @ + 1]
    /\ UNCHANGED <<entries, owner, writer, call, pc, seen, reply>>

\* A mutant: the parent is not asked.
FindMissEarly(t) ==
    /\ pc[t] = "find"
    /\ MayRead(At(t))
    /\ ~ Has(entries, At(t), Target(t))
    /\ Return(t, "none", {})
    /\ UNCHANGED <<entries, owner>>

FindMiss(t) ==
    /\ pc[t] = "find"
    /\ MayRead(At(t))
    /\ ~ Has(entries, At(t), Target(t))
    /\ IsTop(t)
    /\ Return(t, "none", {})
    /\ UNCHANGED <<entries, owner>>

-----------------------------------------------------------------------------
(* internal_each: each level passes its entries to the consumer unless a   *)
(* lower level, whose reader lock is still held, has an entry of the name. *)

Unfiltered(t) ==
    {e \in Element :
        /\ KindOf[e] = KindOf[call[t].arg]
        /\ entries[At(t)][KeyOf(e)] = e
        /\ Unhidden(entries, Base(t), 1, level[t], KeyOf(e))}

\* A mutant: the reader lock is dropped before the parent enumerates.
EachUpUnlocked(t) ==
    /\ pc[t] = "each"
    /\ MayRead(At(t))
    /\ ~ IsTop(t)
    /\ seen' = [seen EXCEPT ![t] = @ \cup Unfiltered(t)]
    /\ level' = [level EXCEPT ![t] = @ + 1]
    /\ UNCHANGED <<entries, owner, locks, call, pc, reply>>

EachUp(t) ==
    /\ pc[t] = "each"
    /\ MayRead(At(t))
    /\ ~ IsTop(t)
    /\ seen' = [seen EXCEPT ![t] = @ \cup Unfiltered(t)]
    /\ readers' = [readers EXCEPT ![At(t)] = @ \cup {t}]
    /\ level' = [level EXCEPT ![t] = @ + 1]
    /\ UNCHANGED <<entries, owner, writer, call, pc, reply>>

EachDone(t) ==
    /\ pc[t] = "each"
    /\ MayRead(At(t))
    /\ IsTop(t)
    /\ Return(t, "all", seen[t] \cup Unfiltered(t))
    /\ UNCHANGED <<entries, owner>>

-----------------------------------------------------------------------------
(* find_primary_index: only this provider's indices; when there is a       *)
(* parent the function calls itself on this same provider, under the       *)
(* reader lock it already holds.                                           *)

PrimaryHit(t) ==
    /\ pc[t] = "primary"
    /\ MayRead(Base(t))
    /\ \E x \in PrimaryAnswers(entries, Base(t), call[t].arg) :
          Return(t, "found", {x})
    /\ UNCHANGED <<entries, owner>>

PrimaryAgain(t) ==
    /\ pc[t] = "primary"
    /\ MayRead(Base(t))
    /\ PrimaryAnswers(entries, Base(t), call[t].arg) = {}
    /\ Len(Chain[Base(t)]) > 1
    /\ readers' = [readers EXCEPT ![Base(t)] = @ \cup {t}]
    /\ UNCHANGED <<entries, owner, writer, call, pc, level, seen, reply>>

PrimaryMiss(t) ==
    /\ pc[t] = "primary"
    /\ MayRead(Base(t))
    /\ PrimaryAnswers(entries, Base(t), call[t].arg) = {}
    /\ Len(Chain[Base(t)]) = 1
    /\ Return(t, "none", {})
    /\ UNCHANGED <<entries, owner>>

-----------------------------------------------------------------------------
(* internal_add: the entry is in the map before bless checks the owner.    *)

AddLock(t) ==
    /\ pc[t] = "add"
    /\ MayWrite(Base(t))
    /\ writer' = [writer EXCEPT ![Base(t)] = t]
    /\ \/ IsTop(t) /\ Goto(t, "emplace") /\ UNCHANGED level
       \/ /\ ~ IsTop(t)
          /\ Goto(t, "parents")
          /\ level' = [level EXCEPT ![t] = @ + 1]
    /\ UNCHANGED <<entries, owner, readers, call, seen, reply>>

ParentHit(t) ==
    /\ pc[t] = "parents"
    /\ MayRead(At(t))
    /\ Has(entries, At(t), Target(t))
    /\ Return(t, "throws", {})
    /\ UNCHANGED <<entries, owner>>

\* The parents' locks are released; the writer lock of the base is kept.
ParentMiss(t) ==
    /\ pc[t] = "parents"
    /\ MayRead(At(t))
    /\ ~ Has(entries, At(t), Target(t))
    /\ IsTop(t)
    /\ Goto(t, "emplace")
    /\ ReleaseReads(t)
    /\ UNCHANGED <<entries, owner, call, level, seen, reply>>

\* The element is in the map: it is blessed next unless it is an index.
Insert(t) ==
    /\ entries' = [entries EXCEPT ![Base(t)][Target(t)] = call[t].arg]
    /\ UNCHANGED owner

Emplace(t) ==
    /\ pc[t] = "emplace"
    /\ ~ Has(entries, Base(t), Target(t))
    /\ Insert(t)
    /\ \/ /\ BlessTarget(call[t].arg)
          /\ Goto(t, "bless")
          /\ UNCHANGED <<locks, call, level, seen, reply>>
       \/ ~ BlessTarget(call[t].arg) /\ Return(t, "ok", {})

EmplaceConflict(t) ==
    /\ pc[t] = "emplace"
    /\ Has(entries, Base(t), Target(t))
    /\ Return(t, "throws", {})
    /\ UNCHANGED <<entries, owner>>

\* add with overwrite: insert_or_assign; the former element keeps its owner_.
Put(t) ==
    /\ pc[t] = "put"
    /\ MayWrite(Base(t))
    /\ Insert(t)
    /\ \/ /\ BlessTarget(call[t].arg)
          /\ writer' = [writer EXCEPT ![Base(t)] = t]
          /\ Goto(t, "bless")
          /\ UNCHANGED <<readers, call, level, seen, reply>>
       \/ ~ BlessTarget(call[t].arg) /\ Return(t, "ok", {})

-----------------------------------------------------------------------------
(* bless and unbless: owner_ is read, and then written, without a lock of  *)
(* its own.                                                                *)

Ownable(e, p) == owner[e] \in {NoProvider, p}

BlessCheck(t) ==
    /\ pc[t] = "bless"
    /\ Ownable(call[t].arg, Base(t))
    /\ Goto(t, "own")
    /\ UNCHANGED <<entries, owner, locks, call, level, seen, reply>>

\* A mutant: the exception leaves the writer lock behind.
BlessThrowsLocked(t) ==
    /\ pc[t] = "bless"
    /\ ~ Ownable(call[t].arg, Base(t))
    /\ Goto(t, "idle")
    /\ Contained!Answer(t, "throws", {})
    /\ level' = [level EXCEPT ![t] = 1]
    /\ seen' = [seen EXCEPT ![t] = {}]
    /\ UNCHANGED <<entries, owner, locks>>

BlessThrows(t) ==
    /\ pc[t] = "bless"
    /\ ~ Ownable(call[t].arg, Base(t))
    /\ Return(t, "throws", {})
    /\ UNCHANGED <<entries, owner>>

\* A mutant: the owner is never recorded.
OwnNothing(t) ==
    /\ pc[t] = "own"
    /\ Return(t, "ok", {})
    /\ UNCHANGED <<entries, owner>>

Own(t) ==
    /\ pc[t] = "own"
    /\ owner' = [owner EXCEPT ![call[t].arg] = Base(t)]
    /\ Return(t, "ok", {})
    /\ UNCHANGED entries

-----------------------------------------------------------------------------
(* internal_remove: unbless before the entry is erased. *)

Victim(t) == entries[Base(t)][Target(t)]

Erase(t) == entries' = [entries EXCEPT ![Base(t)][Target(t)] = NoElement]

RemoveMiss(t) ==
    /\ pc[t] = "remove"
    /\ MayWrite(Base(t))
    /\ ~ Has(entries, Base(t), Target(t))
    /\ Return(t, "none", {})
    /\ UNCHANGED <<entries, owner>>

RemoveIndex(t) ==
    /\ pc[t] = "remove"
    /\ MayWrite(Base(t))
    /\ Has(entries, Base(t), Target(t))
    /\ ~ BlessTarget(Victim(t))
    /\ Erase(t)
    /\ Return(t, "ok", {})
    /\ UNCHANGED owner

\* A mutant: unbless runs after the writer lock was given up.
RemoveUnlocked(t) ==
    /\ pc[t] = "remove"
    /\ MayWrite(Base(t))
    /\ Has(entries, Base(t), Target(t))
    /\ BlessTarget(Victim(t))
    /\ Goto(t, "unbless")
    /\ UNCHANGED <<entries, owner, locks, call, level, seen, reply>>

RemoveLock(t) ==
    /\ pc[t] = "remove"
    /\ MayWrite(Base(t))
    /\ Has(entries, Base(t), Target(t))
    /\ BlessTarget(Victim(t))
    /\ writer' = [writer EXCEPT ![Base(t)] = t]
    /\ Goto(t, "unbless")
    /\ UNCHANGED <<entries, owner, readers, call, level, seen, reply>>

UnblessCheck(t) ==
    /\ pc[t] = "unbless"
    /\ Ownable(Victim(t), Base(t))
    /\ Goto(t, "disown")
    /\ UNCHANGED <<entries, owner, locks, call, level, seen, reply>>

UnblessThrows(t) ==
    /\ pc[t] = "unbless"
    /\ ~ Ownable(Victim(t), Base(t))
    /\ Return(t, "throws", {})
    /\ UNCHANGED <<entries, owner>>

Disown(t) ==
    /\ pc[t] = "disown"
    /\ owner' = [owner EXCEPT ![Victim(t)] = NoProvider]
    /\ Erase(t)
    /\ Return(t, "ok", {})

-----------------------------------------------------------------------------

Find(t) == FindHit(t) \/ WalkUp(t) \/ FindMiss(t)
Each(t) == EachUp(t) \/ EachDone(t)
Primary(t) == PrimaryHit(t) \/ PrimaryAgain(t) \/ PrimaryMiss(t)
Add(t) ==
    \/ AddLock(t) \/ ParentHit(t) \/ ParentMiss(t)
    \/ Emplace(t) \/ EmplaceConflict(t) \/ Put(t)
Bless(t) == BlessCheck(t) \/ BlessThrows(t) \/ Own(t)
Remove(t) ==
    \/ RemoveMiss(t) \/ RemoveIndex(t) \/ RemoveLock(t)
    \/ UnblessCheck(t) \/ UnblessThrows(t) \/ Disown(t)

Step(t) == Find(t) \/ Each(t) \/ Primary(t) \/ Add(t) \/ Bless(t) \/ Remove(t)

Next == \E t \in Thread : Call(t) \/ Step(t)

Spec == Init /\ [][Next]_vars

-----------------------------------------------------------------------------
(* Properties. *)

Labels == {"idle", "parents", "emplace", "bless", "own", "unbless", "disown"}
            \cup Contained!Ops

AtBase == {"idle", "primary", "add", "put", "remove"}

(* Every variable keeps its type, every entry is filed under the kind and  *)
(* name of its element, and every thread is at a level of the chain.       *)
TypeOK ==
    /\ entries \in Contents
    /\ \A p \in Provider, k \in Key : Has(entries, p, k) => KeyOf(entries[p][k]) = k
    /\ owner \in [Element -> Provider \cup {NoProvider}]
    /\ writer \in [Provider -> Thread \cup {NoThread}]
    /\ readers \in [Provider -> SUBSET Thread]
    /\ call \in [Thread -> Contained!Calls \cup {NoCall}]
    /\ pc \in [Thread -> Labels]
    /\ \A t \in Thread : (pc[t] = "idle") <=> (call[t] = NoCall)
    /\ level \in [Thread -> Nat]
    /\ \A t \in Thread : pc[t] \in AtBase => level[t] = 1
    /\ \A t \in Thread : pc[t] # "each" => seen[t] = {}
    /\ \A t \in Thread : pc[t] # "idle" => level[t] \in 1 .. Len(Chain[Base(t)])
    /\ seen \in [Thread -> SUBSET Element]
    /\ reply \in [Thread -> [tag : {"none", "found", "all", "ok", "throws"},
                             is : SUBSET Element]]

WriterLabels == {"parents", "emplace", "bless", "own", "unbless", "disown"}

WriterAlone ==
    \A p \in Provider : writer[p] # NoThread =>
        /\ readers[p] = {}
        /\ pc[writer[p]] \in WriterLabels
        /\ Base(writer[p]) = p

WriterHolds == \A t \in Thread : pc[t] \in WriterLabels => writer[Base(t)] = t

ReaderInside ==
    \A p \in Provider, t \in Thread : t \in readers[p] =>
        \/ /\ pc[t] \in {"find", "each", "parents"}
           /\ \E i \in 1 .. (level[t] - 1) : Chain[Base(t)][i] = p
        \/ pc[t] = "primary" /\ p = Base(t)

WalkedIsRead ==
    \A t \in Thread : \A i \in 1 .. (level[t] - 1) :
        (pc[t] \in {"find", "each"} \/ (pc[t] = "parents" /\ i > 1))
        => t \in readers[Chain[Base(t)][i]]

(* The mutexes work as readers-writer locks: a writer excludes everybody,  *)
(* it is a thread inside an add or a remove on that provider, and the      *)
(* threads with a reader lock are those inside a call that has walked      *)
(* through that provider.                                                  *)
LocksHeld == WriterAlone /\ WriterHolds /\ ReaderInside /\ WalkedIsRead

(* While a lookup waits for a parent, no level it has walked through has   *)
(* got an entry for the name: the answer from above cannot be outdated.    *)
WalkedPastNothing ==
    /\ \A t \in Thread : pc[t] = "find" =>
           Unhidden(entries, Base(t), 1, level[t], Target(t))
    /\ \A t \in Thread : pc[t] = "parents" =>
           Unhidden(entries, Base(t), 2, level[t], Target(t))

(* While an enumeration waits for a parent, what it has passed on is what  *)
(* the levels it has walked through still show.                            *)
SeenIsCurrent ==
    \A t \in Thread : pc[t] = "each" =>
        seen[t] = VisibleBelow(entries, Base(t), KindOf[call[t].arg], level[t])

OpLabels(op) ==
    CASE op = "add"    -> {"add", "parents", "emplace", "bless", "own"}
      [] op = "put"    -> {"put", "bless", "own"}
      [] op = "remove" -> {"remove", "unbless", "disown"}
      [] OTHER         -> {op}

(* Between the insertion of an element and its bless, and between unbless  *)
(* and the erasure, nobody else changes the entry.                         *)
EntryStays ==
    \A t \in Thread : pc[t] # "idle" =>
        /\ pc[t] \in OpLabels(call[t].op)
        /\ pc[t] \in {"bless", "own"} => entries[Base(t)][Target(t)] = call[t].arg
        /\ pc[t] \in {"unbless", "disown"} => Has(entries, Base(t), Target(t))

(* A provider implements what its clients are promised. *)
ImplementsContents == Contained!Spec

(* Who the clients of this instance offer element e to.                    *)
Offered(e) ==
    {p \in Provider : \E c \in Request : c.op \in {"add", "put"} /\ c.on = p /\ c.arg = e}

(* When nobody writes to a provider, it owns every relation and sequence   *)
(* it holds (provider.h: "Subclasses should call this function every       *)
(* relation was registered"), whatever else is offered to it under the     *)
(* same name.  An element that is offered to two providers is excepted:    *)
(* the one that bless refuses keeps it.                                    *)
HeldIsOwned ==
    \A p \in Provider, k \in Key :
        /\ Has(entries, p, k) /\ BlessTarget(entries[p][k])
        /\ writer[p] = NoThread
        /\ Offered(entries[p][k]) = {p}
        => owner[entries[p][k]] = p

(* An add without overwrite does not hide an element of a parent           *)
(* (basic_configurable_provider.h: it "may hide elements defined in parent *)
(* providers if overwrite=true").                                          *)
HidesOnlyByPut ==
    [][\A t \in Thread :
          (pc[t] = "emplace" /\ ~ Has(entries, Base(t), Target(t))
             /\ Has(entries', Base(t), Target(t)))
          => \A i \in 2 .. Len(Chain[Base(t)]) :
                ~ Has(entries, Chain[Base(t)][i], Target(t))]_vars

=============================================================================
