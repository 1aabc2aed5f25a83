--------------------------- MODULE MCTypeConversion ---------------------------
(***************************************************************************)
(* The types that are folded: every kind, with the precisions, scales and  *)
(* lengths at which the conversions decide.                                *)
(***************************************************************************)
EXTENDS TypeConversion

Numbers ==
  {Just(k) : k \in Integral \cup Approximate \cup {"unknown"}}
    \cup {Decimal(5, 0), Decimal(15, 0), Decimal(38, 0), Decimal(15, 2), Decimal(15, Any), Decimal(38, Any),
          Decimal(Any, 2), Decimal(Any, Any)}

Others ==
  {Just(k) : k \in {"unknown", "boolean", "int4", "date", "datetime_interval", "blob", "clob", "error"}}
    \cup {Type(k, n, 0, TRUE) : k \in {"character", "octet"}, n \in {10, Any}}
    \cup {Type(k, n, 0, FALSE) : k \in {"character", "octet"}, n \in {10, 11}}
    \cup {Type(k, 0, 0, z) : k \in Clock, z \in BOOLEAN}
    \cup {Type(k, n, 0, FALSE) : k \in {"array", "declared"}, n \in {0, 1}}

AllTypes == Numbers \cup Others

Bits == {Type("bit", 8, 0, FALSE), Type("bit", 4, 0, TRUE)}

=============================================================================
