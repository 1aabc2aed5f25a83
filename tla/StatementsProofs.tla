--------------------------- MODULE StatementsProofs ---------------------------
(***************************************************************************)
(* For statements with any tables and any number of unique keys: what is   *)
(* compiled to define a table is all of one table, if the runtime reports  *)
(* whatever it refuses.                                                    *)
(***************************************************************************)
EXTENDS Statements, SequenceTheorems, TLAPS

\* A processor gives back nothing only with a diagnostic.
RefusalsReported == Answers \subseteq {"accepted", "reported"}

\* The index at i was made for a table, as it was asked for.
MadeAt(i, table) ==
  /\ indexes[i].made
  /\ OfTable(indexes[i], table, ColumnsOf(table))
  /\ AsAsked(indexes[i], statement.indexes[i])

\* While nothing is reported, all that came before is made.
Progress(table) == ~ reported => \A i \in DOMAIN indexes : i < current => MadeAt(i, table)

\* A unique key can be made for the copy only because the primary key was, and it is compiled only if all were.
Resolving ==
  /\ statement \in Given
  /\ indexes \in Seq(Index({Copy} \cup DOMAIN statement.tables, BOOLEAN)) /\ Len(indexes) = Len(statement.indexes)
  /\ current \in Nat \ {0}
  /\ \A i \in DOMAIN indexes : i >= current => indexes[i] = statement.indexes[i]
  /\ statement.kind = "create_table" => Progress(Copy) /\ (~ reported /\ current > 1 => definition = Copy)
  /\ statement.kind = "create_index" => Progress(statement.indexes[1].table)
  /\ stage \in {"resolved", "allowed", "compiled"} => ~ reported /\ current > Len(indexes)
  /\ stage = "compiled" /\ statement.kind = "create_table" => TableFits

-----------------------------------------------------------------------------

\* A list of columns, each taken from another table.
LEMMA OwnedSeq ==
  ASSUME NEW K, NEW L, NEW refs \in Seq(K), NEW table, \A k \in K : InTable(k, table) \in L
  PROVE  /\ Owned(refs, table) \in Seq(L) /\ Len(Owned(refs, table)) = Len(refs) /\ DOMAIN Owned(refs, table) = DOMAIN refs
         /\ \A i \in DOMAIN refs : Owned(refs, table)[i] = InTable(refs[i], table)
<1>1. DOMAIN refs = 1 .. Len(refs) /\ Len(refs) \in Nat /\ \A i \in 1 .. Len(refs) : refs[i] \in K
  BY ElementOfSeq, LenProperties
<1>2. Owned(refs, table) \in [1 .. Len(refs) -> L]
  BY <1>1 DEF Owned
<1>3. QED
  BY <1>1, <1>2 DEF Owned

\* A copy of an index that finds its columns in a table is of that table, and as the index was.
LEMMA CopyMade ==
  ASSUME NEW tables, NEW index \in Index(tables, BOOLEAN), NEW origin, OfTable(index, index.table, origin),
         NEW target, NEW columns, ~ MissingColumn(index, columns)
  PROVE  /\ IndexCopy(index, target).made
         /\ OfTable(IndexCopy(index, target), target, columns)
         /\ AsAsked(IndexCopy(index, target), index)
         /\ IndexCopy(index, target) \in Index(tables \cup {target}, BOOLEAN)
<1> DEFINE c == IndexCopy(index, target)
<1>1. \A refs \in {index.keys, index.values} : \A i \in DOMAIN refs : refs[i].name \in DOMAIN columns
  BY DEF MissingColumn
<1>2. /\ index.keys \in Seq(KeyOf(tables))
      /\ index.values \in Seq(ColumnOf(tables))
  BY DEF Index
<1>3. CASE index.table = target
  <2>1. /\ c.made /\ c.table = index.table /\ c.keys = index.keys /\ c.values = index.values
        /\ c.features = index.features /\ c \in Index(tables, BOOLEAN)
    BY <1>3 DEF IndexCopy, Index
  <2>2. OfTable(c, target, columns)
    BY <1>1, <1>3, <2>1 DEF OfTable
  <2>3. QED
    <3>1. c \in Index(tables \cup {target}, BOOLEAN)
      <4>1. target \in tables
        BY <1>3 DEF Index
      <4>2. tables \cup {target} = tables
        BY <4>1
      <4>3. QED
        BY <2>1, <4>2
    <3>2. AsAsked(c, index)
      BY <2>1 DEF AsAsked
    <3>3. QED
      BY <2>1, <2>2, <3>1, <3>2
<1>4. CASE index.table # target
  <2>1. /\ c.made /\ c.table = target /\ c.keys = Owned(index.keys, target) /\ c.values = Owned(index.values, target)
        /\ c.features = index.features
    BY <1>4 DEF IndexCopy, Index
  <2>2. /\ c.keys \in Seq(KeyOf(tables \cup {target})) /\ Len(c.keys) = Len(index.keys) /\ DOMAIN c.keys = DOMAIN index.keys
        /\ \A i \in DOMAIN index.keys : c.keys[i] = InTable(index.keys[i], target)
    <3> DEFINE refs == index.keys  K == KeyOf(tables)  L == KeyOf(tables \cup {target})
    <3>1. (\A k \in K : InTable(k, target) \in L) /\ refs \in Seq(K)
      BY <1>2 DEF KeyOf, InTable
    <3> HIDE DEF refs, K, L
    <3>2. /\ Owned(refs, target) \in Seq(L) /\ Len(Owned(refs, target)) = Len(refs) /\ DOMAIN Owned(refs, target) = DOMAIN refs
          /\ \A i \in DOMAIN refs : Owned(refs, target)[i] = InTable(refs[i], target)
      BY <3>1, OwnedSeq
    <3>3. QED
      BY <2>1, <3>2 DEF refs, L
  <2>3. \A i \in DOMAIN index.keys :
          c.keys[i].owner = target /\ c.keys[i].name = index.keys[i].name /\ c.keys[i].direction = index.keys[i].direction
    <3>1. \A i \in DOMAIN index.keys : index.keys[i] \in KeyOf(tables)
      BY <1>2, ElementOfSeq, LenProperties
    <3>2. QED
      BY <2>2, <3>1 DEF KeyOf, InTable
  <2>4. /\ c.values \in Seq(ColumnOf(tables \cup {target})) /\ Len(c.values) = Len(index.values) /\ DOMAIN c.values = DOMAIN index.values
        /\ \A i \in DOMAIN index.values : c.values[i] = InTable(index.values[i], target)
    <3> DEFINE refs == index.values  K == ColumnOf(tables)  L == ColumnOf(tables \cup {target})
    <3>1. (\A k \in K : InTable(k, target) \in L) /\ refs \in Seq(K)
      BY <1>2 DEF ColumnOf, InTable
    <3> HIDE DEF refs, K, L
    <3>2. /\ Owned(refs, target) \in Seq(L) /\ Len(Owned(refs, target)) = Len(refs) /\ DOMAIN Owned(refs, target) = DOMAIN refs
          /\ \A i \in DOMAIN refs : Owned(refs, target)[i] = InTable(refs[i], target)
      BY <3>1, OwnedSeq
    <3>3. QED
      BY <2>1, <3>2 DEF refs, L
  <2>5. \A i \in DOMAIN index.values : c.values[i].owner = target /\ c.values[i].name = index.values[i].name
    <3>1. \A i \in DOMAIN index.values : index.values[i] \in ColumnOf(tables)
      BY <1>2, ElementOfSeq, LenProperties
    <3>2. QED
      BY <2>4, <3>1 DEF ColumnOf, InTable
  <2>7. c \in Index(tables \cup {target}, BOOLEAN)
    BY <1>4, <2>2, <2>4 DEF IndexCopy, Index
  <2>8. OfTable(c, target, columns)
    BY <1>1, <2>1, <2>2, <2>3, <2>4, <2>5 DEF OfTable
  <2>9. AsAsked(c, index)
    BY <2>1, <2>2, <2>3, <2>4, <2>5 DEF AsAsked
  <2>10. QED
    BY <2>1, <2>7, <2>8, <2>9
<1>5. QED
  BY <1>3, <1>4

\* The indexes of a statement, and their columns.
LEMMA GivenIndexes ==
  ASSUME NEW s \in Given, NEW i \in DOMAIN s.indexes
  PROVE  /\ s.indexes[i] \in Index({Copy} \cup DOMAIN s.tables, BOOLEAN)
         /\ s.indexes[i].table \in DOMAIN s.tables /\ s.indexes[i].table # Copy
         /\ OfTable(s.indexes[i], s.indexes[i].table, s.tables[s.indexes[i].table])
         /\ ~ MissingColumn(s.indexes[i], s.tables[s.indexes[i].table])
<1>1. WellFormed(s)
  BY GivenAssumption
<1>2. s.indexes[i] \in Index(DOMAIN s.tables, {FALSE})
  BY <1>1 DEF WellFormed
<1>3. OfTable(s.indexes[i], s.indexes[i].table, s.tables[s.indexes[i].table]) /\ Copy \notin DOMAIN s.tables
  BY <1>1 DEF WellFormed
<1>4. s.indexes[i] \in Index({Copy} \cup DOMAIN s.tables, BOOLEAN)
  <2> DEFINE K == DOMAIN s.tables  L == {Copy} \cup K
  <2>1. Seq(KeyOf(K)) \subseteq Seq(KeyOf(L)) /\ Seq(ColumnOf(K)) \subseteq Seq(ColumnOf(L))
    <3>1. KeyOf(K) \subseteq KeyOf(L) /\ ColumnOf(K) \subseteq ColumnOf(L)
      BY DEF KeyOf, ColumnOf
    <3>2. QED
      BY <3>1, SeqMonotonic
  <2>2. QED
    BY <1>2, <2>1 DEF Index
<1>5. QED
  BY <1>2, <1>3, <1>4 DEF Index, OfTable, MissingColumn

\* The index that is resolved is made, and no other changes.
LEMMA MakeOne ==
  ASSUME Resolving, NEW target \in {Copy} \cup DOMAIN statement.tables, NEW columns, current \in DOMAIN indexes,
         Make(target), ~ MissingColumn(statement.indexes[current], columns), UNCHANGED statement
  PROVE  /\ indexes' \in Seq(Index({Copy} \cup DOMAIN statement.tables, BOOLEAN)) /\ Len(indexes') = Len(indexes)
         /\ DOMAIN indexes' = DOMAIN indexes /\ current' = current + 1
         /\ \A i \in DOMAIN indexes : i # current => indexes'[i] = indexes[i]
         /\ indexes'[current].made /\ OfTable(indexes'[current], target, columns)
         /\ AsAsked(indexes'[current], statement.indexes[current])
<1> DEFINE given == statement.indexes[current]  tables == {Copy} \cup DOMAIN statement.tables
<1>1. /\ current \in DOMAIN statement.indexes /\ indexes[current] = given
  <2>1. WellFormed(statement)
    BY GivenAssumption DEF Resolving
  <2>2. QED
    BY <2>1 DEF Resolving, WellFormed
<1>2. given \in Index(tables, BOOLEAN) /\ OfTable(given, given.table, statement.tables[given.table])
  BY <1>1, GivenIndexes DEF Resolving
<1>3. /\ IndexCopy(given, target).made /\ OfTable(IndexCopy(given, target), target, columns) /\ AsAsked(IndexCopy(given, target), given)
      /\ IndexCopy(given, target) \in Index(tables \cup {target}, BOOLEAN)
  <2> HIDE DEF given, tables
  <2>1. QED
    BY <1>2, CopyMade DEF given
<1>4. tables \cup {target} = tables
  OBVIOUS
<1>5. indexes' = [indexes EXCEPT ![current] = IndexCopy(given, target)]
  BY <1>1 DEF Make
<1>6. IndexCopy(given, target) \in Index(tables, BOOLEAN)
  BY <1>3, <1>4
<1>7. QED
  <2> DEFINE c == IndexCopy(given, target)  S == Index(tables, BOOLEAN)
  <2>1. indexes \in Seq(S) /\ c \in S /\ indexes' = [indexes EXCEPT ![current] = c] /\ current' = current + 1
    BY <1>5, <1>6 DEF Resolving, Make
  <2> HIDE DEF c, S
  <2>2. indexes' \in Seq(S) /\ Len(indexes') = Len(indexes) /\ DOMAIN indexes' = DOMAIN indexes /\ indexes'[current] = c
    BY <2>1
  <2>3. \A i \in DOMAIN indexes : i # current => indexes'[i] = indexes[i]
    BY <2>1
  <2>4. QED
    BY <1>3, <2>1, <2>2, <2>3 DEF c, S

-----------------------------------------------------------------------------

LEMMA InitResolving == StatementInit => Resolving
<1> SUFFICES ASSUME StatementInit PROVE Resolving
  OBVIOUS
<1>1. WellFormed(statement)
  BY GivenAssumption DEF StatementInit
<1>2. \A i \in DOMAIN statement.indexes : statement.indexes[i] \in Index({Copy} \cup DOMAIN statement.tables, BOOLEAN)
  BY GivenIndexes DEF StatementInit
<1>3. indexes = statement.indexes /\ statement.indexes \in Seq(Index({Copy} \cup DOMAIN statement.tables, BOOLEAN))
  <2> DEFINE S == Index({Copy} \cup DOMAIN statement.tables, BOOLEAN)  K == Index(DOMAIN statement.tables, {FALSE})
  <2>1. statement.indexes \in Seq(K) /\ \A i \in DOMAIN statement.indexes : statement.indexes[i] \in S
    BY <1>1, <1>2 DEF WellFormed
  <2> HIDE DEF S, K
  <2>2. statement.indexes \in Seq(S)
    BY <2>1
  <2>3. QED
    BY <2>2 DEF S, StatementInit
<1>4. QED
  BY <1>3 DEF StatementInit, Resolving, Progress

\* One case for each action; only the three that resolve an index have to find it made.
LEMMA NextResolving == RefusalsReported /\ Resolving /\ [StatementNext]_statementVars => Resolving'
<1> SUFFICES ASSUME RefusalsReported, Resolving, [StatementNext]_statementVars PROVE Resolving'
  OBVIOUS
<1>0. /\ WellFormed(statement) /\ Len(indexes) \in Nat
      /\ DOMAIN indexes = 1 .. Len(indexes) /\ DOMAIN statement.indexes = 1 .. Len(indexes)
  <2>1. WellFormed(statement)
    BY GivenAssumption DEF Resolving
  <2>2. QED
    BY <2>1 DEF Resolving, WellFormed
<1>1. CASE ResolvePrimaryKey
  <2> DEFINE table == indexes[1].table
  <2>1. /\ statement.kind = "create_table" /\ current = 1 /\ stage = "prototypes" /\ UNCHANGED <<statement, stage>>
        /\ current \in DOMAIN indexes /\ indexes[1] = statement.indexes[1]
    BY <1>0, <1>1 DEF ResolvePrimaryKey, Resolving, WellFormed
  <2>2. CASE copied' \in Completed(ColumnsOf(table)) /\ Make(Copy) /\ definition' = Copy
    <3>1. /\ table # Copy /\ ColumnsOf(table) = statement.tables[table]
          /\ ~ MissingColumn(statement.indexes[1], statement.tables[table])
      BY <1>0, <2>1, GivenIndexes DEF Resolving, ColumnsOf
    <3>2. DOMAIN copied' = DOMAIN statement.tables[table]
      BY <2>2, <3>1 DEF Completed
    <3>3. ~ MissingColumn(statement.indexes[current], copied')
      BY <2>1, <3>1, <3>2 DEF MissingColumn
    <3> DEFINE tables == {Copy} \cup DOMAIN statement.tables
    <3>4. /\ indexes' \in Seq(Index(tables, BOOLEAN)) /\ Len(indexes') = Len(indexes) /\ DOMAIN indexes' = DOMAIN indexes /\ current' = 2
          /\ \A i \in DOMAIN indexes : i # 1 => indexes'[i] = indexes[i]
          /\ indexes'[1].made /\ OfTable(indexes'[1], Copy, copied') /\ AsAsked(indexes'[1], statement.indexes[1])
      <4>1. UNCHANGED statement /\ Copy \in tables
        BY <2>1
      <4>2. /\ indexes' \in Seq(Index(tables, BOOLEAN)) /\ Len(indexes') = Len(indexes) /\ DOMAIN indexes' = DOMAIN indexes /\ current' = current + 1
            /\ \A i \in DOMAIN indexes : i # current => indexes'[i] = indexes[i]
            /\ indexes'[current].made /\ OfTable(indexes'[current], Copy, copied') /\ AsAsked(indexes'[current], statement.indexes[current])
        BY <2>1, <2>2, <3>3, <4>1, MakeOne
      <4>3. QED
        BY <2>1, <4>2
    <3>5. MadeAt(1, Copy)'
      BY <2>1, <3>4 DEF MadeAt, ColumnsOf
    <3>6. Progress(Copy)'
      BY <1>0, <3>4, <3>5 DEF Progress
    <3>7. \A i \in DOMAIN indexes' : i >= current' => indexes'[i] = statement.indexes[i]
      BY <1>0, <2>1, <3>4 DEF Resolving
    <3>8. QED
      BY <2>1, <2>2, <3>4, <3>6, <3>7 DEF Resolving
  <2>3. CASE \E answer \in Answers : answer # "accepted" /\ Refuse(answer, Len(indexes) + 1)
    <3>1. /\ reported' = TRUE /\ current' = Len(indexes) + 1 /\ UNCHANGED <<statement, definition, indexes, copied, stage>>
      BY <2>1, <2>3 DEF RefusalsReported, Refuse
    <3>2. current' \in Nat \ {0} /\ \A i \in DOMAIN indexes : i >= current' => i >= current
      BY <1>0, <2>1, <3>1 DEF Resolving
    <3>3. QED
      BY <2>1, <3>1, <3>2 DEF Resolving, Progress
  <2>4. QED
    BY <1>1, <2>2, <2>3 DEF ResolvePrimaryKey
<1>2. CASE ResolveUniqueKey
  <2>1. /\ statement.kind = "create_table" /\ stage = "prototypes" /\ UNCHANGED statement
        /\ current \in DOMAIN indexes /\ current > 1 /\ indexes[current] = statement.indexes[current]
    BY <1>0, <1>2 DEF ResolveUniqueKey, Resolving
  <2>2. CASE stage' = "thrown" /\ UNCHANGED <<definition, indexes, copied, current, reported>>
    BY <2>1, <2>2 DEF Resolving, Progress, MadeAt, ColumnsOf
  <2>3. CASE /\ ~ MissingColumn(indexes[current], copied) /\ Make(Copy) /\ UNCHANGED <<definition, copied, stage>>
    <3> DEFINE tables == {Copy} \cup DOMAIN statement.tables
    <3>1. /\ indexes' \in Seq(Index(tables, BOOLEAN)) /\ Len(indexes') = Len(indexes) /\ DOMAIN indexes' = DOMAIN indexes /\ current' = current + 1
          /\ \A i \in DOMAIN indexes : i # current => indexes'[i] = indexes[i]
          /\ indexes'[current].made /\ OfTable(indexes'[current], Copy, copied) /\ AsAsked(indexes'[current], statement.indexes[current])
      BY <2>1, <2>3, MakeOne
    <3>2. ASSUME ~ reported', NEW i \in DOMAIN indexes', i < current' PROVE MadeAt(i, Copy)'
      <4>1. CASE i = current
        BY <2>1, <2>3, <3>1, <4>1 DEF MadeAt, ColumnsOf
      <4>2. CASE i # current
        <5>1. i \in DOMAIN indexes /\ i < current /\ ~ reported /\ indexes'[i] = indexes[i]
          BY <1>0, <2>3, <3>1, <3>2, <4>2 DEF Resolving, Make
        <5>2. MadeAt(i, Copy)
          BY <2>1, <5>1 DEF Resolving, Progress
        <5>3. QED
          BY <2>1, <2>3, <5>1, <5>2 DEF MadeAt, ColumnsOf
      <4>3. QED
        BY <4>1, <4>2
    <3>3. \A i \in DOMAIN indexes' : i >= current' => indexes'[i] = statement.indexes[i]
      BY <1>0, <2>1, <3>1 DEF Resolving
    <3>4. QED
      BY <2>1, <2>3, <3>1, <3>2, <3>3 DEF Resolving, Progress, Make
  <2>4. CASE \E answer \in Answers : answer # "accepted" /\ Refuse(answer, current + 1) /\ UNCHANGED stage
    <3>1. /\ reported' = TRUE /\ current' = current + 1 /\ UNCHANGED <<statement, definition, indexes, copied, stage>>
      BY <2>1, <2>4 DEF RefusalsReported, Refuse
    <3>2. current' \in Nat \ {0} /\ \A i \in DOMAIN indexes : i >= current' => i >= current
      BY <1>0, <2>1, <3>1 DEF Resolving
    <3>3. QED
      BY <2>1, <3>1, <3>2 DEF Resolving, Progress
  <2>5. QED
    BY <1>2, <2>2, <2>3, <2>4 DEF ResolveUniqueKey
<1>3. CASE ResolveIndex
  <2> DEFINE table == indexes[1].table
  <2>1. /\ statement.kind = "create_index" /\ current = 1 /\ stage = "prototypes" /\ UNCHANGED <<statement, stage>>
        /\ current \in DOMAIN indexes /\ indexes[1] = statement.indexes[1] /\ DOMAIN indexes = {1}
    BY <1>0, <1>3 DEF ResolveIndex, Resolving, WellFormed
  <2>2. CASE Make(table) /\ UNCHANGED <<definition, copied>>
    <3>1. /\ table # Copy /\ table \in DOMAIN statement.tables /\ ~ MissingColumn(statement.indexes[1], statement.tables[table])
      BY <1>0, <2>1, GivenIndexes DEF Resolving
    <3> DEFINE tables == {Copy} \cup DOMAIN statement.tables
    <3>2. /\ indexes' \in Seq(Index(tables, BOOLEAN)) /\ Len(indexes') = Len(indexes) /\ DOMAIN indexes' = DOMAIN indexes /\ current' = 2
          /\ indexes'[1].made /\ OfTable(indexes'[1], table, statement.tables[table]) /\ AsAsked(indexes'[1], statement.indexes[1])
      <4>1. UNCHANGED statement /\ table \in tables /\ ~ MissingColumn(statement.indexes[current], statement.tables[table])
        BY <2>1, <3>1
      <4>2. /\ indexes' \in Seq(Index(tables, BOOLEAN)) /\ Len(indexes') = Len(indexes) /\ DOMAIN indexes' = DOMAIN indexes /\ current' = current + 1
            /\ \A i \in DOMAIN indexes : i # current => indexes'[i] = indexes[i]
            /\ indexes'[current].made /\ OfTable(indexes'[current], table, statement.tables[table]) /\ AsAsked(indexes'[current], statement.indexes[current])
        BY <2>1, <2>2, <4>1, MakeOne
      <4>3. QED
        BY <2>1, <4>2
    <3>3. Progress(statement.indexes[1].table)'
      BY <2>1, <3>1, <3>2 DEF Progress, MadeAt, ColumnsOf
    <3>4. QED
      BY <2>1, <2>2, <3>2, <3>3 DEF Resolving
  <2>3. CASE \E answer \in Answers : answer # "accepted" /\ Refuse(answer, 2)
    <3>1. /\ reported' = TRUE /\ current' = 2 /\ UNCHANGED <<statement, definition, indexes, copied, stage>>
      BY <2>1, <2>3 DEF RefusalsReported, Refuse
    <3>2. current' \in Nat \ {0} /\ \A i \in DOMAIN indexes : i >= current' => i >= current
      BY <1>0, <2>1, <3>1 DEF Resolving
    <3>3. QED
      BY <2>1, <3>1, <3>2 DEF Resolving, Progress
  <2>4. QED
    BY <1>3, <2>2, <2>3 DEF ResolveIndex
<1>4. CASE PrototypesResolved
  BY <1>0, <1>4 DEF PrototypesResolved, Resolving, Progress, MadeAt, ColumnsOf
<1>5. CASE CheckFeatures
  BY <1>0, <1>5 DEF CheckFeatures, Resolving, Progress, MadeAt, ColumnsOf
<1>6. CASE CheckTypes
  <2>1. statement.kind = "create_table" /\ stage' = "compiled" => TableFits
    BY <1>6 DEF CheckTypes, Checked
  <2>2. TableFits' = TableFits
    BY <1>6 DEF CheckTypes, TableFits, KeysCompare, ColumnsOf
  <2>3. QED
    BY <1>0, <1>6, <2>1, <2>2 DEF CheckTypes, Resolving, Progress, MadeAt, ColumnsOf
<1>7. CASE UNCHANGED statementVars
  <2>1. TableFits' = TableFits
    BY <1>7 DEF statementVars, TableFits, KeysCompare, ColumnsOf
  <2>2. QED
    BY <1>7, <2>1 DEF statementVars, Resolving, Progress, MadeAt, ColumnsOf
<1>8. QED
  BY <1>1, <1>2, <1>3, <1>4, <1>5, <1>6, <1>7 DEF StatementNext

LEMMA ResolvingOneTable == Resolving => OneTableDefined
<1> SUFFICES ASSUME Resolving, stage = "compiled" PROVE
      /\ statement.kind = "create_table" => definition = Copy /\ MadeFor(Copy) /\ TableFits
      /\ statement.kind = "create_index" => MadeFor(statement.indexes[1].table)
  BY DEF OneTableDefined
<1>1. ~ reported /\ \A i \in DOMAIN indexes : i < current
  BY DEF Resolving
<1>2. ASSUME statement.kind = "create_table" PROVE definition = Copy /\ MadeFor(Copy) /\ TableFits
  <2>1. Len(indexes) > 0
    BY <1>2, GivenAssumption DEF Resolving, WellFormed
  <2>2. QED
    BY <1>1, <1>2, <2>1 DEF Resolving, Progress, MadeAt, MadeFor
<1>3. ASSUME statement.kind = "create_index" PROVE MadeFor(statement.indexes[1].table)
  BY <1>1, <1>3 DEF Resolving, Progress, MadeAt, MadeFor
<1>4. QED
  BY <1>2, <1>3

\* What is compiled to define a table is of one table, made for it and checked as it was made, for any
\* number of unique keys, if a processor that gives nothing back says so.
THEOREM OneTable ==
  ASSUME RefusalsReported
  PROVE  StatementSpec => []OneTableDefined
<1>1. StatementInit => Resolving
  BY InitResolving
<1>2. Resolving /\ [StatementNext]_statementVars => Resolving'
  BY NextResolving, RefusalsReported
<1>3. Resolving => OneTableDefined
  BY ResolvingOneTable
<1>4. QED
  BY <1>1, <1>2, <1>3, PTL DEF StatementSpec

=============================================================================
