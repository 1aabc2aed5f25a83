-------------------------- MODULE ProviderContents --------------------------
(***************************************************************************)
(* What a storage provider promises its clients, without its locks: every  *)
(* lookup is answered from the contents of one single moment, for the      *)
(* provider and all its parents together, every change is one indivisible  *)
(* change of one entry, and a refusal is justified by the contents at the  *)
(* moment of the refusal.                                                  *)
(***************************************************************************)
EXTENDS StorageCatalog

CONSTANTS
    Thread,     \* the clients
    NoCall      \* what a client asks that asks nothing

VARIABLES
    entries,    \* entries[p][k]: what p itself holds
    call,       \* call[t]: the request client t waits for the answer of
    reply       \* reply[t]: the answer t got

contentsVars == <<entries, call, reply>>

Ops == {"find", "each", "primary", "add", "put", "remove"}

Calls == [op : Ops, on : Provider, arg : Element]

Reply(tag, s) == [tag |-> tag, is |-> s]
NoReply == Reply("none", {})

Init ==
    /\ entries = Empty
    /\ call = [t \in Thread |-> NoCall]
    /\ reply = [t \in Thread |-> NoReply]

Ask(t, c) ==
    /\ call[t] = NoCall
    /\ call' = [call EXCEPT ![t] = c]
    /\ reply' = [reply EXCEPT ![t] = NoReply]
    /\ UNCHANGED entries

Answer(t, tag, s) ==
    /\ call' = [call EXCEPT ![t] = NoCall]
    /\ reply' = [reply EXCEPT ![t] = Reply(tag, s)]

Lookup(t) ==
    LET p == call[t].on
        k == KeyOf(call[t].arg)
    IN  /\ call[t].op = "find"
        /\ \/ \E e \in Element :
                  Provides(entries, p, k, e) /\ Answer(t, "found", {e})
           \/ Absent(entries, p, k) /\ Answer(t, "none", {})
        /\ UNCHANGED entries

Enumerate(t) ==
    /\ call[t].op = "each"
    /\ Answer(t, "all", Visible(entries, call[t].on, KindOf[call[t].arg]))
    /\ UNCHANGED entries

Primary(t) ==
    LET p == call[t].on
    IN  /\ call[t].op = "primary"
        /\ \/ \E x \in PrimaryAnswers(entries, p, call[t].arg) :
                  Answer(t, "found", {x})
           \/ /\ \A i \in 1 .. Len(Chain[p]) :
                     PrimaryAnswers(entries, Chain[p][i], call[t].arg) = {}
              /\ Answer(t, "none", {})
        /\ UNCHANGED entries

(* An add fills an empty entry, a put (overwrite) any entry. *)
Store(t) ==
    LET p == call[t].on
        e == call[t].arg
    IN  /\ \/ call[t].op = "put"
           \/ call[t].op = "add" /\ ~ Has(entries, p, KeyOf(e))
        /\ entries' = [entries EXCEPT ![p][KeyOf(e)] = e]
        /\ \/ UNCHANGED <<call, reply>>
           \/ Answer(t, "ok", {})

Stored(t) ==
    /\ call[t].op \in {"add", "put"}
    /\ Answer(t, "ok", {})
    /\ entries[call[t].on][KeyOf(call[t].arg)] = call[t].arg
    /\ UNCHANGED entries

(* A refused request leaves an entry that the client can see under the name. *)
Refuse(t) ==
    /\ call[t].op \in {"add", "put", "remove"}
    /\ ~ Absent(entries, call[t].on, KeyOf(call[t].arg))
    /\ Answer(t, "throws", {})
    /\ UNCHANGED entries

Erase(t) ==
    LET p == call[t].on
        k == KeyOf(call[t].arg)
    IN  /\ call[t].op = "remove"
        /\ \/ /\ Has(entries, p, k)
              /\ entries' = [entries EXCEPT ![p][k] = NoElement]
              /\ Answer(t, "ok", {})
           \/ /\ ~ Has(entries, p, k)
              /\ UNCHANGED entries
              /\ Answer(t, "none", {})

Next ==
    \E t \in Thread :
        \/ \E c \in Calls : Ask(t, c)
        \/ /\ call[t] # NoCall
           /\ \/ Lookup(t)
              \/ Enumerate(t)
              \/ Primary(t)
              \/ Store(t)
              \/ Stored(t)
              \/ Refuse(t)
              \/ Erase(t)

Spec == Init /\ [][Next]_contentsVars
=============================================================================
