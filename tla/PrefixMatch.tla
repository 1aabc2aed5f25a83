----------------------------- MODULE PrefixMatch -----------------------------
(***************************************************************************)
(* decompose_prefix_match: "column LIKE pattern" becomes a comparison or   *)
(* a range, which a scan can use, where the pattern begins with a constant *)
(* prefix.  One LIKE of a condition is replaced; a text is a sequence of   *)
(* characters, and texts are ordered character by character.               *)
(***************************************************************************)
EXTENDS Naturals, SequencesExt, FiniteSetsExt

CONSTANTS Chars,        \* the characters of patterns and texts, "%" and "_" among them
          Code(_),      \* the code of a character
          MaxPattern,   \* bound: the length of a pattern
          MaxText,      \* bound: the length of a text that is matched
          Escapes       \* what the escape of a LIKE may be: none, a character, or more

\* Different characters have different codes, and no code is \xff.
ASSUME PrefixAssumption ==
  /\ MaxPattern \in Nat /\ MaxText \in Nat
  /\ {"%", "_"} \subseteq Chars
  /\ \A c \in Chars : Code(c) \in 0 .. 254
  /\ \A c, d \in Chars : Code(c) = Code(d) => c = d

VARIABLES input,       \* what is matched: a stream variable or another expression
          pattern,     \* the pattern, a text
          literal,     \* is the pattern a literal
          escape,      \* the escape
          condition    \* what the condition has become

prefixVars == <<input, pattern, literal, escape, condition>>

Texts(n) == SeqOf(Chars, n)

IsEscape(c) == escape = <<c>>

\* After i characters of the pattern: is the last one an escape.
saw_escape ==
  LET saw[i \in 0 .. Len(pattern)] == i > 0 /\ ~ saw[i - 1] /\ IsEscape(pattern[i]) IN saw

\* The length of the part before the first wildcard; none of a broken pattern.
fetch_constant_prefix ==
  LET wildcards == {i \in DOMAIN pattern :
                      ~ saw_escape[i - 1] /\ ~ saw_escape[i] /\ pattern[i] \in {"%", "_"}}
  IN  IF wildcards # {} THEN Min(wildcards) - 1
      ELSE IF saw_escape[Len(pattern)] THEN 0 ELSE Len(pattern)

\* The first n characters of the pattern without the escapes.
decode_pattern(n) ==
  LET decoded[i \in 0 .. Len(pattern)] ==
        IF i = 0 THEN <<>> ELSE IF saw_escape[i] THEN decoded[i - 1] ELSE Append(decoded[i - 1], pattern[i])
  IN  decoded[n]

-----------------------------------------------------------------------------

Like == [is |-> "like", prefix |-> <<>>]
Replacements == {"equal", "range", "range_and_like"}

PrefixInit ==
  /\ input \in {"stream_variable", "other"}
  /\ pattern \in Texts(MaxPattern)
  /\ literal \in BOOLEAN
  /\ escape \in Escapes
  /\ condition = Like

\* No escape, or one visible character of ASCII.
UsableEscape == Len(escape) <= 1 /\ \A i \in DOMAIN escape : Code(escape[i]) \in 32 .. 126

ReplaceAnyTail ==   \* mutant: whatever follows the first wildcard, the range is enough
  /\ condition = Like
  /\ input = "stream_variable" /\ literal /\ UsableEscape
  /\ LET n == fetch_constant_prefix
     IN  /\ n > 0
         /\ condition' = [is |-> IF n = Len(pattern) THEN "equal"
                                 ELSE IF pattern[n + 1] = "%" THEN "range" ELSE "range_and_like",
                          prefix |-> decode_pattern(n)]
  /\ UNCHANGED <<input, pattern, literal, escape>>

Replace ==
  /\ condition = Like
  /\ input = "stream_variable" /\ literal /\ UsableEscape
  /\ LET n == fetch_constant_prefix
     IN  /\ n > 0
         /\ condition' = [is |-> IF n = Len(pattern) THEN "equal"
                                 ELSE IF \A i \in n + 1 .. Len(pattern) : pattern[i] = "%" THEN "range"
                                 ELSE "range_and_like",
                          prefix |-> decode_pattern(n)]
  /\ UNCHANGED <<input, pattern, literal, escape>>

PrefixSpec == PrefixInit /\ [][Replace]_prefixVars

-----------------------------------------------------------------------------
\* What the conditions mean.

Before(a, b) ==   \* of two sequences of codes
  \E i \in 1 .. Len(b) :
    /\ \A j \in 1 .. i - 1 : j \in DOMAIN a /\ a[j] = b[j]
    /\ i > Len(a) \/ a[i] < b[i]

Codes(text) == [i \in DOMAIN text |-> Code(text[i])]

\* create_prefix_match: the text is not before the prefix, and before the prefix with \xff
CreatePrefixMatch(text, prefix) ==
  ~ Before(Codes(text), Codes(prefix)) /\ Before(Codes(text), Append(Codes(prefix), 255))

\* LIKE, as the executor evaluates it: match[i] are the positions of the text from which the
\* pattern from i on matches.  A pattern that ends with an escape matches nothing.
Matches(text) ==
  LET p == Len(pattern)
      t == Len(text)
      match[i \in 1 .. p + 1] ==
        IF i = p + 1 THEN {t + 1}
        ELSE IF IsEscape(pattern[i])
               THEN {j \in 1 .. t : i < p /\ pattern[i + 1] = text[j] /\ j + 1 \in match[i + 2]}
        ELSE IF pattern[i] = "%" THEN {j \in 1 .. t + 1 : \E k \in match[i + 1] : j <= k}
        ELSE {j \in 1 .. t : pattern[i] \in {"_", text[j]} /\ j + 1 \in match[i + 1]}
  IN  1 \in match[1]

Accepts(text) ==
  CASE condition.is = "like" -> Matches(text)
    [] condition.is = "equal" -> text = condition.prefix
    [] condition.is = "range" -> CreatePrefixMatch(text, condition.prefix)
    [] condition.is = "range_and_like" -> CreatePrefixMatch(text, condition.prefix) /\ Matches(text)

\* Every text is accepted by the replacement exactly if it was accepted by the LIKE: with any
\* escape, escaped wildcards, wildcards used as the escape, and escapes that escape nothing.
SameTexts == \A text \in Texts(MaxText) : Len(escape) <= 1 => (Accepts(text) <=> Matches(text))

=============================================================================
