------------------------- MODULE MCStorageProvider -------------------------
(***************************************************************************)
(* A child provider under a parent, two tables of one name, an index and a *)
(* sequence of that name.  The request sets select what a run is about.    *)
(***************************************************************************)
EXTENDS StorageProvider, TLC

CONSTANTS
    child, parent,          \* the providers
    t1, t2, x, s,           \* two tables, an index of t1, a sequence
    a                       \* their name

\* The threads are interchangeable.
ThreadSymmetry == Permutations(Thread)

MCChain == [p \in Provider |-> IF p = child THEN <<child, parent>> ELSE <<p>>]

MCKindOf == [e \in Element |->
    CASE e = x -> "index" [] e = s -> "sequence" [] OTHER -> "relation"]

MCNameOf == [e \in Element |-> a]

MCPrimaryOf == [e \in Element |-> IF e = x THEN t1 ELSE NoElement]

Req(ops, ps, es) == [op : ops, on : ps, arg : es]

\* Everything.  A sequence is blessed as a table is: the tables stand for both.
AllRequests ==
    Req({"find", "add", "remove"}, Provider, {t1, x})
        \cup Req({"add", "put"}, Provider, {t1, t2})
        \cup Req({"each"}, {child}, {t1})
        \cup Req({"primary"}, Provider, {t1})

\* Adds without overwrite only.
AddRequests == Req({"add", "remove"}, {child}, {t1}) \cup Req({"add"}, {parent}, {t2})

\* Every kind of call that ends.  t1 is offered to both providers, so that bless may refuse
\* it; t2, of the same name, to the child only, and a sequence to the parent only.
ReturnRequests ==
    Req({"find", "each"}, {child}, {t1})
        \cup Req({"add", "put", "remove"}, Provider, {t1})
        \cup Req({"add", "put"}, {child}, {t2})
        \cup Req({"add", "remove"}, {parent}, {s})

\* What the provider does not keep in order: an element offered to two providers, one put
\* over another of its name, a primary index searched for in a child.
SharedRequests == Req({"add", "put", "remove"}, Provider, {t1})
OverwriteRequests == Req({"add", "put", "remove"}, {parent}, {t1, t2})
PrimaryRequests == Req({"primary"}, Provider, {t1}) \cup Req({"add", "remove"}, {parent}, {x})

=============================================================================
