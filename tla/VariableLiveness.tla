--------------------------- MODULE VariableLiveness ---------------------------
(***************************************************************************)
(* What a host makes of a finished process: blocks, and how long each      *)
(* variable lives.                                                         *)
(*                                                                         *)
(*   block_builder               a block is a straight line of operators,  *)
(*                               from one that starts it to the next that  *)
(*                               has several outputs, or none              *)
(*   variable_liveness_analyzer  the variables each block defines and      *)
(*                               uses, and those to remove before it runs  *)
(*                                                                         *)
(* A block is known by its first and its last operator.  Its neighbours    *)
(* are looked up by the operators its ends are connected to.               *)
(***************************************************************************)
EXTENDS StreamVariables

VARIABLES process,    \* the process the host looks at
          heads,      \* the first operators of blocks to build
          blocks,     \* the blocks built
          liveness,   \* variable_liveness_info, by block
          resolved    \* the kinds of liveness inspect takes for computed

livenessVars == <<process, heads, blocks, liveness, resolved>>

-----------------------------------------------------------------------------
\* block_builder

Following(x) == {y \in DOMAIN ops : \E k \in DOMAIN ops[y].in : ops[y].in[k] = x}

Sinks == {"emit", "write", "offer"}
IsFront(x) == Len(ops[x].in) # 1 \/ ops[x].op \in Entries
IsBack(x) == ops[x].op \in Sinks \cup {"buffer"}

FindBack(x) ==
  LET back[y \in DOMAIN ops] ==
        IF IsBack(y) THEN y
        ELSE LET next == CHOOSE z \in Following(y) : TRUE
             IN  IF IsFront(next) THEN y ELSE back[next]
  IN  back[x]

\* From the first operator along the outputs.
Elements(b) ==
  LET from[y \in DOMAIN ops] == {y} \cup (IF y = b.back THEN {} ELSE UNION {from[z] : z \in Following(y)})
  IN  from[b.front]

StartBlocks(p) ==
  /\ phase = "built"
  /\ process' = p /\ heads' = Heads(p) /\ blocks' = {} /\ phase' = "blocks"
  /\ UNCHANGED <<features, wanted, todo, exchanges, processes, links, ops, columnVars, liveness, resolved>>

\* "must be connected": only the sinks have no output.
BuildBlock(x) ==
  /\ phase = "blocks" /\ x \in heads
  /\ IF \E y \in processes[process] : ops[y].op \notin Sinks /\ Following(y) = {}
       THEN phase' = "broken" /\ UNCHANGED <<heads, blocks>>
       ELSE /\ LET back == FindBack(x)
                   saw == heads \cup {b.front : b \in blocks}
               IN  /\ blocks' = blocks \cup {[front |-> x, back |-> back]}
                   /\ heads' = (heads \ {x}) \cup (Following(back) \ saw)
            /\ UNCHANGED phase
  /\ UNCHANGED <<features, wanted, todo, exchanges, processes, links, ops, columnVars, process, liveness, resolved>>

NoLiveness == [define |-> {}, use |-> {}, kill |-> {}]

BlocksBuilt ==
  /\ phase = "blocks" /\ heads = {}
  /\ liveness' = [b \in blocks |-> NoLiveness] /\ resolved' = {} /\ phase' = "liveness"
  /\ UNCHANGED <<features, wanted, todo, exchanges, processes, links, ops, columnVars, process, heads, blocks>>

-----------------------------------------------------------------------------
\* block: the neighbours, by the owners of the ports opposite to those of its ends

Connected(b, c) == c.front \in Following(b.back)   \* rebuild_connections
Upstreams(b) == {c \in blocks : Connected(c, b)}
Downstreams(b) == {c \in blocks : Connected(b, c)}

-----------------------------------------------------------------------------
\* define_use_analyzer.  The columns of tables and of exchanges, and external variables are used,
\* too, but defined by no block: they are left out.

RECURSIVE References(_)
References(value) ==
  CASE value.is \in {"column", "local"} -> {value.name}
    [] value.is \in Binaries -> References(value.left) \cup References(value.right)
    [] value.is \in Unaries -> References(value.operand)
    [] value.is = "let" -> References(value.body) \cup UNION {References(v.value) : v \in Range(value.variables)}
    [] OTHER -> {}

RECURSIVE LetVariables(_)
LetVariables(value) ==
  CASE value.is \in Binaries -> LetVariables(value.left) \cup LetVariables(value.right)
    [] value.is \in Unaries -> LetVariables(value.operand)
    [] value.is = "let" -> {v.variable : v \in Range(value.variables)} \cup LetVariables(value.body)
                           \cup UNION {LetVariables(v.value) : v \in Range(value.variables)}
    [] OTHER -> {}

KeyValues(keys) == {keys[i].value : i \in DOMAIN keys}
CondValues(o) == IF "cond" \in DOMAIN o THEN {t.left : t \in o.cond} \cup {t.right : t \in o.cond} ELSE {}

\* The expressions of operator o that are walked.
Expressions(o) ==
  CASE o.op \in {"find", "join_find"} -> KeyValues(o.keys) \cup CondValues(o)
    [] o.op \in {"scan", "join_scan"} -> KeyValues(o.lower.keys \o o.upper.keys) \cup CondValues(o)
    [] o.op = "values" -> UNION {Range(row) : row \in Range(o.table)}
    [] o.op = "apply" -> Range(o.arguments)
    [] o.op = "project" -> {c.value : c \in Range(o.columns)}
    [] o.op \in {"filter", "step_join"} -> CondValues(o)
    [] OTHER -> {}

\* The destinations of emit, write and offer are not defined by them.
Destined(o) ==
  CASE o.op \in {"find", "scan", "join_find", "join_scan", "take_flat", "take_group"} -> AllOf(Seconds(o.columns))
    [] o.op = "take_cogroup" -> UNION {AllOf(Seconds(g.columns)) : g \in Range(o.groups)}
    [] o.op \in {"values", "apply"} -> AllOf(o.columns)
    [] o.op = "project" -> {c.variable : c \in Range(o.columns)}
    [] o.op = "identify" -> {o.variable}
    [] o.op = "step_aggregate" -> {c.destination : c \in Range(o.columns)}
    [] OTHER -> {}

Sourced(o) ==
  CASE o.op \in {"emit", "offer"} -> AllOf(Firsts(o.columns))
    [] o.op = "write" -> AllOf(Firsts(o.keys \o o.columns))
    [] o.op = "step_aggregate" -> UNION {AllOf(c.arguments) : c \in Range(o.columns)}
    [] OTHER -> {}

DefinedBy(o) == Destined(o) \cup UNION {LetVariables(e) : e \in Expressions(o)}
UsedBy(o) == Sourced(o) \cup UNION {References(e) : e \in Expressions(o)}

Recorded(kinds) ==
  [b \in blocks |->
     [liveness[b] EXCEPT !.define = IF "define" \in kinds THEN UNION {DefinedBy(ops[x]) : x \in Elements(b)} ELSE @,
                     !.use = IF "use" \in kinds THEN UNION {UsedBy(ops[x]) : x \in Elements(b)} ELSE @]]

-----------------------------------------------------------------------------
\* kill_analyzer.  A work record holds the variables that live, each with the blocks of its
\* definition and of its last use, the information recorded, whether an exception was thrown, and
\* whether the assertion failed that what dies where it is defined was not used.

Dies(w, vs) == [w EXCEPT !.lives = [v \in DOMAIN @ \ vs |-> @[v]]]
Kills(w, b, vs) == Dies([w EXCEPT !.info[b].kill = @ \cup vs], vs)
LastUsedIn(w, b) == {v \in DOMAIN w.lives : w.lives[v].use = {b}}

\* "multiple definition", "undefined variable"
Enters(w, b) ==
  LET here == w.info[b]
      lives == [v \in here.define |-> [define |-> b, use |-> {}]] @@ w.lives
  IN  [w EXCEPT !.lives = [v \in DOMAIN lives |-> IF v \in here.use THEN [lives[v] EXCEPT !.use = {b}] ELSE lives[v]],
                !.failed = @ \/ here.define \cap DOMAIN w.lives # {} \/ ~ here.use \subseteq DOMAIN lives]

\* What is defined here and lives on is not used.
Unused(w, b) ==
  LET own == {v \in DOMAIN w.lives : w.lives[v].define = b}
  IN  [Kills(w, b, own) EXCEPT !.asserted = @ \/ \E v \in own : w.lives[v].use # {}]

RECURSIVE Processed(_, _)

ThenHere(w, b, next) ==   \* mutant: it is removed before its last use
  LET after == Processed(w, next) IN Kills(after, b, LastUsedIn(after, b))
ThenForgets(w, b, next) ==   \* mutant: it is not removed
  LET after == Processed(w, next) IN Dies(after, LastUsedIn(after, b))

\* One block follows: what was last used here is removed before that.
Then(w, b, next) == LET after == Processed(w, next) IN Kills(after, next, LastUsedIn(after, b))

\* Several follow: what some of them use is removed before the others.
Divides(w, next) ==
  LET step(u, c) ==
        LET v == Processed([u.w EXCEPT !.lives = w.lives], c) IN [w |-> v, lives |-> c :> DOMAIN v.lives @@ u.lives]
      u == FoldSet(LAMBDA c, acc : step(acc, c), [w |-> w, lives |-> Nothing], next)
      still(v) == {c \in next : v \in u.lives[c]}
      split(c) == {v \in DOMAIN w.lives : c \in still(v) /\ still(v) # next}
      kept == {v \in DOMAIN w.lives : still(v) = next}
  IN  [FoldSet(LAMBDA c, acc : [acc EXCEPT !.info[c].kill = @ \cup split(c)], u.w, next) EXCEPT !.lives = [v \in kept |-> w.lives[v]]]

Processed(w, b) ==
  LET here == Enters(w, b)
      next == Downstreams(b)
      after == IF next = {} THEN Dies(here, LastUsedIn(here, b))
               ELSE IF Cardinality(next) = 1 THEN Then(here, b, CHOOSE c \in next : TRUE)
               ELSE Divides(here, next)
  IN  Unused(after, b)

-----------------------------------------------------------------------------
\* variable_liveness_analyzer

Kinds == {"define", "use", "kill"}

Inspect(kinds) ==
  /\ phase = "liveness"
  /\ LET required == kinds \ resolved
         recorded == Recorded(IF "kill" \in required THEN Kinds ELSE required)
         first == {b \in blocks : Upstreams(b) = {}}   \* "multiple entries"
         start == [lives |-> Nothing, info |-> recorded, failed |-> Cardinality(first) # 1, asserted |-> FALSE]
     IN  /\ resolved' = resolved \cup (IF required = {} THEN {} ELSE {"define", "use"} \cup (kinds \cap {"kill"}))
         /\ IF "kill" \notin required THEN liveness' = recorded /\ UNCHANGED phase
            ELSE \E w \in {Processed(start, CHOOSE b \in first : TRUE)} :
                   /\ liveness' = w.info
                   /\ phase' \in IF w.failed \/ w.lives # Nothing THEN {"broken"}
                                ELSE IF w.asserted THEN {"liveness", "aborted"} ELSE {"liveness"}   \* with assertions, or without
  /\ UNCHANGED <<features, wanted, todo, exchanges, processes, links, ops, columnVars, process, heads, blocks>>

LivenessInit ==
  /\ ColumnsInit
  /\ process = Nothing /\ heads = {} /\ blocks = {} /\ liveness = Nothing /\ resolved = {}

LivenessNext ==
  \/ (BuilderNext \/ Returned) /\ UNCHANGED livenessVars
  \/ \E p \in DOMAIN processes : StartBlocks(p)
  \/ \E x \in heads : BuildBlock(x)
  \/ BlocksBuilt
  \/ \E kinds \in SUBSET Kinds \ {{}} : Inspect(kinds)
  \/ phase = "aborted" /\ UNCHANGED <<builderVars, livenessVars>>

LivenessSpec == LivenessInit /\ [][LivenessNext]_<<builderVars, livenessVars>>

-----------------------------------------------------------------------------

Killed == phase = "liveness" /\ "kill" \in resolved

Below(b) ==
  LET below[c \in blocks] == {c} \cup UNION {below[d] : d \in Downstreams(c)}
  IN  below[b]

\* Variables last used where the rows go several ways: they are taken for unused by all of them.
LastUsedAtFork ==
  {v \in UNION {liveness[b].use : b \in blocks} :
     \E b \in blocks : /\ v \in liveness[b].use /\ Cardinality(Downstreams(b)) > 1
                      /\ \A c \in Below(b) \ {b} : v \notin liveness[c].use}

\* "variables which will not be refer after this block (including this block)": a host that removes
\* them before it runs the block removes nothing that an operator there, or further down, asks for.
KilledNeverUsed ==
  Killed => \A b \in blocks : \A v \in liveness[b].kill \ LastUsedAtFork :
              \A c \in Below(b) : v \notin UNION {UsedBy(ops[x]) : x \in Elements(c)}

\* On each way the rows go a variable is removed once, from its definition on, and never where the
\* last block still uses it: a host that goes by this keeps no variable longer than it has to run.
KilledOnEachWay ==
  Killed =>
    \A d \in blocks : \A v \in liveness[d].define : \A tail \in {t \in Below(d) : Downstreams(t) = {}} :
      Cardinality({b \in Below(d) : tail \in Below(b) /\ v \in liveness[b].kill})
        = IF v \in liveness[tail].use THEN 0 ELSE 1

=============================================================================
