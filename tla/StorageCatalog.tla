--------------------------- MODULE StorageCatalog ---------------------------
(***************************************************************************)
(* What yugawara::storage providers keep, and what a provider shows of it. *)
(*                                                                         *)
(* A provider owns three name-to-element maps (relations_, indices_ and    *)
(* sequences_) and may have a parent provider.  An entry of a provider     *)
(* hides the entries of the same kind and name in its parents.             *)
(***************************************************************************)
EXTENDS Naturals, Sequences

CONSTANTS
    Provider,     \* the configurable providers
    Chain,        \* Chain[p]: p, its parent, the parent of its parent, ...
    Element,      \* the tables, indices and sequences that exist
    Name,         \* the simple names they may have
    KindOf,       \* KindOf[e]: which of the three maps e belongs to
    NameOf,       \* NameOf[e]: e.simple_name()
    PrimaryOf,    \* PrimaryOf[e]: the table e is the primary index of
    NoElement,    \* the empty shared_ptr
    NoProvider    \* the null owner

Kind == {"relation", "index", "sequence"}

Key == Kind \X Name

ASSUME ChainAssumption ==
    /\ Chain \in [Provider -> Seq(Provider)]
    /\ \A p \in Provider : Len(Chain[p]) > 0 /\ Chain[p][1] = p
    /\ \A p \in Provider : \A i, j \in DOMAIN Chain[p] :
           Chain[p][i] = Chain[p][j] => i = j

ASSUME ElementAssumption ==
    /\ KindOf \in [Element -> Kind]
    /\ NameOf \in [Element -> Name]
    /\ PrimaryOf \in [Element -> Element \cup {NoElement}]
    /\ NoElement \notin Element
    /\ NoProvider \notin Provider

KeyOf(e) == <<KindOf[e], NameOf[e]>>

\* Relations and sequences record their owner; indices do not.
BlessTarget(e) == KindOf[e] \in {"relation", "sequence"}

(* The maps of every provider at once. *)
Contents == [Provider -> [Key -> Element \cup {NoElement}]]

Empty == [p \in Provider |-> [k \in Key |-> NoElement]]

Has(c, p, k) == c[p][k] # NoElement

(* Level i of the chain of p holds nothing that a lower level hides: none  *)
(* of the levels from l up to i - 1 has an entry for k.                    *)
Unhidden(c, p, l, i, k) == \A j \in l .. (i - 1) : ~ Has(c, Chain[p][j], k)

(* e is what p, or else its closest parent that has one, holds for k. *)
Provides(c, p, k, e) ==
    \E i \in 1 .. Len(Chain[p]) :
        c[Chain[p][i]][k] = e /\ Unhidden(c, p, 1, i, k)

Absent(c, p, k) == \A i \in 1 .. Len(Chain[p]) : ~ Has(c, Chain[p][i], k)

(* The elements of one kind on the levels below l that no lower level hides. *)
VisibleBelow(c, p, kind, l) ==
    {e \in Element :
        /\ KindOf[e] = kind
        /\ \E i \in 1 .. (l - 1) :
               c[Chain[p][i]][KeyOf(e)] = e /\ Unhidden(c, p, 1, i, KeyOf(e))}

Visible(c, p, kind) == VisibleBelow(c, p, kind, Len(Chain[p]) + 1)

(* The indices of one provider that are the primary index of a table. *)
PrimariesIn(c, p, tbl) ==
    {x \in Element :
        /\ KindOf[x] = "index"
        /\ PrimaryOf[x] = tbl
        /\ c[p][KeyOf(x)] = x}

(* An index named like its table is tried first, then the others. *)
PrimaryAnswers(c, p, tbl) ==
    LET all == PrimariesIn(c, p, tbl)
        namesake == {x \in all : NameOf[x] = NameOf[tbl]}
    IN  IF namesake # {} THEN namesake ELSE all
=============================================================================
