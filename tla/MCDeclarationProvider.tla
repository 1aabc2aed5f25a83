------------------------- MODULE MCDeclarationProvider -------------------------
(***************************************************************************)
(* Programs whose threads share a provider and its parent.  A program is   *)
(* the kind of the provider, the tables it may begin with, and the calls   *)
(* its threads make.                                                       *)
(***************************************************************************)
EXTENDS DeclarationProvider

CONSTANTS First, Second,   \* the threads
          Programs         \* the programs of the run

VARIABLE program   \* the calls each thread of this program makes

ACall(op, on, name) == [op |-> op, on |-> on, name |-> name, overwrite |-> FALSE, declares |-> Declaration(1, 1)]
Overwrite(on, name) == [ACall("add", on, name) EXCEPT !.overwrite = TRUE]
Overload(op, on, id, parameters) == [ACall(op, on, "a") EXCEPT !.declares = Declaration(id, parameters)]

One == Declaration(1, 1)
Table(ownA, ownB, parentA, parentB) ==
  [own |-> "a" :> ownA @@ "b" :> ownB, parent |-> "a" :> parentA @@ "b" :> parentB]
Maybe == {<<>>, <<One>>}
Both == {Table(oa, ob, pa, <<One>>) : oa \in Maybe, ob \in Maybe, pa \in Maybe}
Flat == {Table(a, b, <<>>, <<>>) : a \in Maybe, b \in Maybe}
OnlyA == {Table(own, <<>>, parent, <<>>) : own \in Maybe, parent \in Maybe}
Overloaded ==
  {Table(own, <<>>, parent, <<One>>) : own \in {<<>>, <<One, Declaration(2, 2)>>}, parent \in {<<>>, <<Declaration(2, 1), Declaration(3, 1)>>}}

Program(sort, tables, first, second) ==
  [kind |-> sort, tables |-> tables, calls |-> [t \in Thread |-> IF t = First THEN first ELSE second]]
Alike(sort, tables, made) == Program(sort, tables, made, made)

SafePrograms ==
  \* Declarations are added while others look for them; none is replaced or removed.
  {Alike("variables", OnlyA,
     {ACall("find", "own", "a"), ACall("find", "parent", "a"), ACall("add", "own", "a"), ACall("add", "parent", "a"), ACall("add", "own", "b")}),
   \* The parent gets or loses declarations while the child is enumerated.
   Alike("variables", Both, {ACall("each", "own", "a"), ACall("each", "parent", "a"), ACall("add", "parent", "a")}),
   Alike("variables", Both, {ACall("each", "own", "a"), ACall("remove", "parent", "a"), ACall("remove", "parent", "b")}),
   \* A thread replaces a declaration, and looks for it, while another looks for others or enumerates.
   Program("variables", {Table(oa, <<>>, <<One>>, pb) : oa \in Maybe, pb \in Maybe},
     {Overwrite("own", "a"), Overwrite("parent", "a"), ACall("find", "own", "a")},
     {Overwrite("own", "b"), ACall("find", "own", "b"), ACall("each", "parent", "a")}),
   \* It is found in the parent while it is replaced in the child, and removed from it.
   Program("variables", OnlyA,
     {Overwrite("own", "a"), ACall("remove", "own", "a")}, {ACall("find", "parent", "a"), Overwrite("parent", "a")}),
   Alike("types", Flat,
     {ACall("find", "own", "a"), ACall("each", "own", "a"), ACall("add", "own", "a"), ACall("add", "own", "b")}),
   Program("types", Flat,
     {Overwrite("own", "a"), ACall("find", "own", "a")}, {ACall("find", "own", "b"), ACall("each", "own", "a")}),
   Alike("types", Flat, {ACall("remove", "own", "a"), ACall("find", "own", "b"), ACall("each", "own", "a")}),
   \* Overloads are added, or removed, while those of a name are enumerated.
   Alike("functions", Overloaded,
     {ACall("each", "own", "a"), Overload("each_named", "own", 0, 1), Overload("add", "own", 4, 1), Overload("add", "parent", 1, 2)}),
   Alike("functions", Overloaded,
     {ACall("each", "parent", "a"), Overload("each_named", "own", 0, 1), Overload("remove", "own", 2, 0), Overload("remove", "parent", 2, 0)})}

ASSUME ProgramsAreDisciplined ==
  \A p \in SafePrograms : RacesApart(p.calls) /\ (p.kind = "variables" => EachAlone(p.calls))

\* What the classes do not make safe.  A reference is followed while another thread removes or
\* replaces the entry, in the provider or in its parent.
RacingPrograms ==
  {Program(sort, {Table(<<One>>, <<>>, <<>>, <<>>)}, {ACall("find", "own", "a"), Overwrite("own", "a")},
     {ACall("remove", "own", "a"), Overwrite("own", "a")}) : sort \in {"variables", "types"}}
  \cup {Program("variables", {Table(<<>>, <<>>, <<One>>, <<>>)}, {ACall("find", "own", "a"), ACall("add", "own", "a")},
           {ACall("remove", "parent", "a"), Overwrite("parent", "a")}),
        Alike("functions", {Table(<<>>, <<>>, <<>>, <<>>)}, {Overload("add", "own", 4, 1), Overload("remove", "own", 4, 1)})}

\* A name is added to the child, then to the parent, between the two looks of a find; no reference
\* is followed while it is replaced.
OvertakingPrograms ==
  {Program("variables", {Table(<<>>, <<>>, <<>>, <<>>)}, {ACall("find", "own", "a")}, {ACall("add", "own", "a"), ACall("add", "parent", "a")})}

\* A name is hidden between the two levels of an enumeration, and the parent locked once more.
HidingPrograms ==
  {Program("variables", {Table(<<>>, <<>>, <<One>>, <<>>)}, {ACall("each", "own", "a")}, {Overwrite("own", "a"), Overwrite("parent", "b")})}

ASSUME OvertakingIsDisciplined == \A p \in OvertakingPrograms : RacesApart(p.calls)
ASSUME OthersAreNot ==
  /\ \A p \in RacingPrograms : ~ RacesApart(p.calls)
  /\ \A p \in HidingPrograms : RacesApart(p.calls) /\ ~ EachAlone(p.calls)

AllCalls == [t \in Thread |-> UNION {p.calls[t] : p \in Programs}]
AllContents == UNION {{[kind |-> p.kind, table |-> t] : t \in p.tables} : p \in Programs}

MCInit ==
  \E p \in Programs : \E t \in p.tables : \E entries \in {Entries(t)} :
    /\ Init /\ kind = p.kind /\ map = entries.map /\ declared = entries.declared
    /\ program = p.calls

MCNext ==
  /\ \E t \in Thread : Step(t) \/ \E c \in program[t] : Begin(t, c)
  /\ UNCHANGED program

MCSpec ==
  /\ MCInit /\ [][MCNext]_<<vars, program>>
  /\ \A t \in Thread : WF_vars(Step(t)) /\ SF_vars(Lock(t)) /\ SF_vars(LockShared(t))

=============================================================================
