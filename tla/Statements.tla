------------------------------ MODULE Statements ------------------------------
(***************************************************************************)
(* The compiler on a statement that is not a plan: prototypes of tables    *)
(* and indices are replaced by what the runtime makes of them              *)
(* (resolve_prototype, basic_prototype_processor), what it has not got is  *)
(* refused (collect_restricted_features), and the types are checked        *)
(* (expression_analyzer).                                                  *)
(*                                                                         *)
(* A column is one of a table, and copying a table makes other columns: an *)
(* index that is to go with the copy must have each of its columns looked  *)
(* up in it by name.                                                       *)
(***************************************************************************)
EXTENDS ExpressionTypes, FiniteSets

CONSTANTS Given,        \* statements
          Copy,         \* the table that is made
          Completions,  \* the types a runtime may give a column of it
          Answers       \* what a processor may answer: "accepted", "reported" or "silent"

VARIABLES statement,   \* as it was given
          definition,  \* the table a create_table defines
          indexes,     \* its primary key and its unique keys, or the index of a create_index
          copied,      \* the columns of Copy
          current,     \* the prototype that is resolved next
          reported,    \* is there a diagnostic?
          stage

statementVars == <<statement, definition, indexes, copied, current, reported, stage>>

ColumnsOf(table) == IF table = Copy THEN copied ELSE statement.tables[table]

\* An index is of one table when it is declared for it and all its columns are columns of it.
OfTable(index, table, columns) ==
  /\ index.table = table
  /\ \A i \in DOMAIN index.keys : index.keys[i].owner = table /\ index.keys[i].name \in DOMAIN columns
  /\ \A i \in DOMAIN index.values : index.values[i].owner = table /\ index.values[i].name \in DOMAIN columns

\* index, with its keys and values; those that are given are not made yet.
KeyOf(tables) == [owner : tables, name : STRING, direction : STRING]
ColumnOf(tables) == [owner : tables, name : STRING]
Index(tables, made) ==
  [table : tables, keys : Seq(KeyOf(tables)), values : Seq(ColumnOf(tables)), features : SUBSET {"find", "scan"}, made : made]

\* A statement defines a table with its primary key and unique keys, or an index, or neither; an index is of one table.
WellFormed(s) ==
  /\ s.indexes \in Seq(Index(DOMAIN s.tables, {FALSE}))
  /\ \A i \in DOMAIN s.indexes : OfTable(s.indexes[i], s.indexes[i].table, s.tables[s.indexes[i].table])
  /\ s.kind = "create_table" => s.indexes # <<>> /\ s.definition = s.indexes[1].table
  /\ s.kind = "create_index" => Len(s.indexes) = 1
  /\ s.kind \notin {"create_table", "create_index"} => s.indexes = <<>>
  /\ Copy \notin DOMAIN s.tables

ASSUME GivenAssumption == \A s \in Given : WellFormed(s)

StatementInit ==
  /\ statement \in Given
  /\ definition = statement.definition /\ indexes = statement.indexes
  /\ copied = <<>> /\ current = 1 /\ reported = FALSE /\ stage = "prototypes"

-----------------------------------------------------------------------------
(* Prototypes *)

InTable(column, table) == [column EXCEPT !.owner = table]
Owned(refs, table) == [i \in DOMAIN refs |-> InTable(refs[i], table)]

IndexCopyKeys(index, target) ==   \* mutant: the values stay those of the prototype
  IF index.table = target THEN [index EXCEPT !.made = TRUE]
  ELSE [index EXCEPT !.made = TRUE, !.table = target, !.keys = Owned(@, target)]

\* create_index_copy
IndexCopy(index, target) ==
  IF index.table = target THEN [index EXCEPT !.made = TRUE]
  ELSE [index EXCEPT !.made = TRUE, !.table = target, !.keys = Owned(@, target), !.values = Owned(@, target)]

\* A column the index needs is not in the table: the copy fails.
MissingColumn(index, columns) ==
  \E refs \in {index.keys, index.values} : \E i \in DOMAIN refs : refs[i].name \notin DOMAIN columns

\* ensure: the table to be made may be completed.
Completed(columns) == {columns} \cup {[columns EXCEPT ![name].type = t] : name \in DOMAIN columns, t \in Completions}

Refuse(answer, then) ==
  /\ reported' = (reported \/ answer = "reported")
  /\ current' = then
  /\ UNCHANGED <<definition, indexes, copied>>

Make(target) ==
  /\ indexes' = [indexes EXCEPT ![current] = IndexCopy(@, target)]
  /\ current' = current + 1
  /\ UNCHANGED reported

\* The table and its primary key: without them no unique key is looked at.
ResolvePrimaryKey ==
  /\ stage = "prototypes" /\ statement.kind = "create_table" /\ current = 1
  /\ \E answer \in Answers :
       IF answer = "accepted"
       THEN /\ copied' \in Completed(ColumnsOf(indexes[1].table))
            /\ Make(Copy)
            /\ definition' = Copy
       ELSE Refuse(answer, Len(indexes) + 1)
  /\ UNCHANGED <<statement, stage>>

ResolveUniqueKeyAlone ==   \* mutant: a unique key stays with the table of its prototype
  /\ stage = "prototypes" /\ statement.kind = "create_table" /\ current \in 2 .. Len(indexes)
  /\ \E answer \in Answers :
       IF answer = "accepted" THEN Make(indexes[current].table) /\ UNCHANGED <<definition, copied>> ELSE Refuse(answer, current + 1)
  /\ UNCHANGED <<statement, stage>>

\* A unique key is rebound to the table that was made.
ResolveUniqueKey ==
  /\ stage = "prototypes" /\ statement.kind = "create_table" /\ current \in 2 .. Len(indexes)
  /\ IF MissingColumn(indexes[current], copied)
     THEN stage' = "thrown" /\ UNCHANGED <<definition, indexes, copied, current, reported>>
     ELSE /\ \E answer \in Answers :
               IF answer = "accepted" THEN Make(Copy) /\ UNCHANGED <<definition, copied>> ELSE Refuse(answer, current + 1)
          /\ UNCHANGED stage
  /\ UNCHANGED statement

\* An index goes with the table it is declared for.
ResolveIndex ==
  /\ stage = "prototypes" /\ statement.kind = "create_index" /\ current = 1
  /\ \E answer \in Answers :
       IF answer = "accepted" THEN Make(indexes[1].table) /\ UNCHANGED <<definition, copied>> ELSE Refuse(answer, 2)
  /\ UNCHANGED <<statement, stage>>

PrototypesResolved ==
  /\ stage = "prototypes" /\ current > Len(indexes)
  /\ stage' = IF reported THEN "refused" ELSE "resolved"
  /\ UNCHANGED <<statement, definition, indexes, copied, current, reported>>

-----------------------------------------------------------------------------
(* Restrictions *)

StatementFeatures(s) ==
  CASE s.kind = "write" -> {"write_" \o s.operation} \cap {"write_update", "write_delete"}
    [] s.kind = "truncate_table" -> {"truncate_table"} \cup {"truncate_table_" \o o : o \in s.options}
    [] OTHER -> {}

CheckFeatures ==
  /\ stage = "resolved"
  /\ \E restricted \in {{}} \cup {{f} : f \in StatementFeatures(statement)} :
       stage' = IF restricted = {} THEN "allowed" ELSE "refused"
  /\ UNCHANGED <<statement, definition, indexes, copied, current, reported>>

-----------------------------------------------------------------------------
(* Types *)

\* A key is what an index is sorted by, if it can be scanned, or found by.
KeysCompare(index) ==
  \A i \in DOMAIN index.keys :
    LET type == ColumnsOf(index.keys[i].owner)[index.keys[i].name].type
    IN  /\ "scan" \in index.features => is_order_comparable(type)
        /\ "find" \in index.features /\ "scan" \notin index.features => is_equality_comparable(type)

DefaultFits(column) ==
  LET value == column.default
  IN  CASE value.kind = "immediate" -> is_assignment_convertible(LiteralType(value.value, column.type), column.type) = "yes"
        [] value.kind = "sequence" -> column.type.kind \in {"int4", "int8"}
        [] value.kind = "function" ->
             /\ DeclaredAs(value.function, "scalar_function") /\ value.function.parameters = <<>>
             /\ is_assignment_convertible(value.function.result, column.type) = "yes"
        [] OTHER -> TRUE

\* statement::create_table: the unique keys are not looked at.
TableFits == (\A name \in DOMAIN ColumnsOf(definition) : DefaultFits(ColumnsOf(definition)[name])) /\ KeysCompare(indexes[1])

\* statement::write
AsManyValues(s) == \A tuple \in s.tuples : Len(tuple) = Len(s.columns)
ForeignColumn(s) == \E i \in DOMAIN s.columns : s.columns[i].owner # s.destination
ValuesFit(s) ==
  \A tuple \in s.tuples, i \in DOMAIN s.columns :
    Unresolved(tuple[i]) \/ is_assignment_convertible(tuple[i], s.tables[s.destination][s.columns[i].name].type) = "yes"

\* What resolve does to a statement: it throws, reports or accepts.
Checked ==
  CASE statement.kind = "create_table" -> IF TableFits THEN "compiled" ELSE "refused"
    [] statement.kind = "create_index" -> IF KeysCompare(indexes[1]) THEN "compiled" ELSE "refused"
    [] statement.kind = "write" ->
         IF ~ AsManyValues(statement) THEN "refused"
         ELSE IF ForeignColumn(statement) THEN "thrown"
         ELSE IF ValuesFit(statement) THEN "compiled" ELSE "refused"
    [] OTHER -> "compiled"

CheckTypes ==
  /\ stage = "allowed"
  /\ stage' = Checked
  /\ UNCHANGED <<statement, definition, indexes, copied, current, reported>>

StatementNext ==
  \/ ResolvePrimaryKey \/ ResolveUniqueKey \/ ResolveIndex \/ PrototypesResolved
  \/ CheckFeatures
  \/ CheckTypes

StatementSpec == StatementInit /\ [][StatementNext]_statementVars

-----------------------------------------------------------------------------
(* Properties *)

\* An index is what it was asked to be: the columns of the same names, in the same order and direction.
AsAsked(index, given) ==
  /\ Len(index.keys) = Len(given.keys) /\ Len(index.values) = Len(given.values) /\ index.features = given.features
  /\ \A i \in DOMAIN index.keys : index.keys[i].name = given.keys[i].name /\ index.keys[i].direction = given.keys[i].direction
  /\ \A i \in DOMAIN index.values : index.values[i].name = given.values[i].name

MadeFor(table) ==
  \A i \in DOMAIN indexes :
    /\ indexes[i].made
    /\ OfTable(indexes[i], table, ColumnsOf(table))
    /\ AsAsked(indexes[i], statement.indexes[i])

\* What the compiler hands over to define a table is all made, and of one table: its primary key and its
\* unique keys are indices as asked of the very table that is defined, though each was copied by a call of
\* its own and was declared for a prototype; and the types that were accepted are those the runtime gave
\* its columns.  An index goes with the table there is.
OneTableDefined ==
  stage = "compiled" =>
    /\ statement.kind = "create_table" => definition = Copy /\ MadeFor(Copy) /\ TableFits
    /\ statement.kind = "create_index" => MadeFor(statement.indexes[1].table)

=============================================================================
