-------------------------------- MODULE MCTypes --------------------------------
(***************************************************************************)
(* What the types of SQL decide: the common type of a fold, or whether a   *)
(* statement compiles.                                                     *)
(*                                                                         *)
(* Tables "t" and "u" have columns "a" and "b", and "u" has "c" besides.   *)
(* The table that is created is "t", with a primary key and up to two      *)
(* unique keys, which may be declared for "u".                             *)
(***************************************************************************)
EXTENDS MCTypeConversion, Statements

Int4 == Just("int4")
Blob == Just("blob")
Interval == Just("datetime_interval")   \* compared, but not sorted

Scalar(parameters, returned) == [features |-> {"scalar_function"}, parameters |-> parameters, result |-> returned]

Defaults ==
  {[kind |-> "none"], [kind |-> "sequence"]} \cup [kind : {"immediate"}, value : {"int4", "character"}]
    \cup [kind : {"function"}, function : {Scalar(<<>>, Int4), Scalar(<<>>, Blob), Scalar(<<Int4>>, Int4),
                                           [Scalar(<<>>, Int4) EXCEPT !.features = {"table_valued_function"}]}]

WithDefault(typing, default) == [name \in DOMAIN typing |-> [type |-> typing[name], default |-> IF name = "a" THEN default ELSE [kind |-> "none"]]]

TypesOfT == [{"a", "b"} -> {Int4, Blob, Interval}]
TypesOfU == [{"a", "b", "c"} -> {Int4}]

IndexOver(table, names, more, features) ==
  [table |-> table, features |-> features, made |-> FALSE,
   keys |-> [i \in DOMAIN names |-> [owner |-> table, name |-> names[i], direction |-> IF i = 1 THEN "descendant" ELSE "ascendant"]],
   values |-> [i \in DOMAIN more |-> [owner |-> table, name |-> more[i]]]]

Features == {{"find"}, {"find", "scan"}, {}}
PrimaryKeys == {IndexOver("t", key[1], key[2], f) : key \in {<<<<"a">>, <<"b">>>>, <<<<"a", "b">>, <<>>>>}, f \in Features}
UniqueKeys ==
  {IndexOver("t", <<"b">>, <<>>, {"find"}), IndexOver("t", <<"b">>, <<"a">>, {}), IndexOver("u", <<"b">>, <<"a">>, {"find"}), IndexOver("u", <<"c">>, <<>>, {})}
Uniques == {<<>>} \cup {<<k>> : k \in UniqueKeys} \cup (UniqueKeys \X UniqueKeys)

TablesCreated ==
  {[kind |-> "create_table", definition |-> "t", indexes |-> <<p>> \o k, tables |-> [t |-> WithDefault(t, d), u |-> WithDefault(u, [kind |-> "none"])]] :
     p \in PrimaryKeys, k \in Uniques, t \in TypesOfT, u \in TypesOfU, d \in Defaults}

IndexesCreated ==
  {[kind |-> "create_index", definition |-> "none", indexes |-> <<p>>, tables |-> [t |-> WithDefault(t, [kind |-> "none"])]] :
     p \in PrimaryKeys, t \in TypesOfT}

Values == {<<>>, <<Int4>>, <<Blob, Int4>>, <<Error, Int4>>, <<Int4, Int4, Int4>>}
Writes ==
  {[kind |-> "write", operation |-> o, definition |-> "none", indexes |-> <<>>, destination |-> "t",
    columns |-> <<[owner |-> "t", name |-> "a"], [owner |-> owner, name |-> "b"]>>, tuples |-> tuples,
    tables |-> [t |-> WithDefault(t, [kind |-> "none"]), u |-> WithDefault(t, [kind |-> "none"])]] :
     o \in {"insert", "update", "delete"}, owner \in {"t", "u"}, tuples \in SUBSET Values, t \in TypesOfT}

OtherStatements ==
  {[kind |-> "truncate_table", definition |-> "none", indexes |-> <<>>, options |-> o, tables |-> <<>>] : o \in {{}, {"restart_identity"}}}
    \cup {[kind |-> k, definition |-> "none", indexes |-> <<>>, tables |-> <<>>] :
            k \in {"drop_table", "drop_index", "grant_table", "revoke_table", "empty"}}

AllStatements == TablesCreated \cup IndexesCreated \cup Writes \cup OtherStatements

Refusals == {"accepted", "reported"}
SilentRefusals == {"accepted", "silent"}

NewTypes == {Blob}

NoFold == fold = "range" /\ types = <<Unknown>> /\ at = 1 /\ result = Unknown
NoStatement ==
  /\ statement = [kind |-> "none"] /\ definition = "none" /\ indexes = <<>> /\ copied = <<>>
  /\ current = 1 /\ reported = FALSE /\ stage = "none"

TypesSpec ==
  /\ (Init /\ NoStatement) \/ (StatementInit /\ NoFold)
  /\ [][(Next /\ UNCHANGED statementVars) \/ (StatementNext /\ UNCHANGED vars)]_<<vars, statementVars>>

=============================================================================
