------------------------------ MODULE NodeVars ------------------------------
(***************************************************************************)
(* ${NODE_IP} and a process's own keys in what it is started with: held    *)
(* until the node has a value, looked at again by the spawn, and filled in *)
(* by a third look.  The node's address may come and go between them.  A   *)
(* text is a sequence of pieces: "${", "}", names and other characters.    *)
(***************************************************************************)
EXTENDS Sequences, Integers

CONSTANTS
  ArgTexts, ValueTexts,   (* what an argument, and a value, may say *)
  FilePaths               (* what wait_for_files may name           *)

ASSUME NodeVarsAssumption == ArgTexts \cup ValueTexts \subseteq Seq(STRING)

VARIABLES
  config,       \* args, env, env_default, wait_for_files
  inherited,    \* stormd's own environment
  node_values,  \* nodevars::vars(): what the node has a value for
  files_there,  \* the files that exist
  held_at,      \* begun, files, vars, spawn, checked, started, refused, given up
  awaited,      \* the paths being waited for
  given,        \* what the process was started with: args, env, and the node's values
  unturned      \* history: the node is as it was when the spawn looked

nodeVars == <<config, inherited, node_values, files_there, held_at, awaited, given, unturned>>

NAMES == {"NODE_IP", "NODE_NAME"}
NoEnv == [k \in {} |-> <<>>]
Overlaid(f, g) == [k \in DOMAIN f \cup DOMAIN g |-> IF k \in DOMAIN g THEN g[k] ELSE f[k]]
Restricted(f, ks) == [k \in ks |-> f[k]]

\* The node's address, and its name: a node with no route off it has none.
NodeValues(addressed) ==
  [n \in IF addressed THEN NAMES ELSE {"NODE_NAME"} |-> IF n = "NODE_IP" THEN <<"ip">> ELSE <<"n1">>]

(* What begins a name, and ends it. *)
OPEN  == "${"
CLOSE == "}"

\* The first "}" after a "${", if there is one.
Unclosed(s, i) == \A j \in (i + 1)..Len(s) : s[j] # CLOSE
Closing(s, i) == CHOOSE j \in (i + 1)..Len(s) : s[j] = CLOSE /\ \A k \in (i + 1)..(j - 1) : s[k] # CLOSE

\* One pass: a name with a value is replaced, one without is left as it is written,
\* and so is a "${" that nothing closes.
Expand(s, vars) ==
  LET out[i \in 1..(Len(s) + 1)] ==
        IF i > Len(s) THEN <<>>
        ELSE IF s[i] # OPEN THEN <<s[i]>> \o out[i + 1]
        ELSE IF Unclosed(s, i) THEN SubSeq(s, i, Len(s))
        ELSE LET j == Closing(s, i) IN
               (IF j = i + 2 /\ s[i + 1] \in DOMAIN vars THEN vars[s[i + 1]] ELSE SubSeq(s, i, j)) \o out[j + 1]
  IN out[1]

Unexpanded(s) == {n \in NAMES : \E i \in 1..(Len(s) - 2) : SubSeq(s, i, i + 2) = <<OPEN, n, CLOSE>>}

\* env is always set, and env_default where stormd inherited nothing.
ProcessEnv(c, vars) ==
  LET set == Overlaid(Restricted(c.env_default, DOMAIN c.env_default \ DOMAIN inherited), c.env) IN
    [k \in DOMAIN set |-> Expand(set[k], vars)]

\* What stormd inherited is left out.
BugArgsVars(c, vars) == Overlaid(ProcessEnv(c, vars), vars)

\* What ${NAME} means in an argument: the node's values, and the declared keys'.
ArgsVars(c, vars) ==
  Overlaid(Overlaid(Restricted(inherited, DOMAIN c.env_default \cap DOMAIN inherited), ProcessEnv(c, vars)), vars)

\* What is still written as ${NODE_*} in an argument or a value that it would get.
NodeVarsMissing(c, vars) ==
  Unexpanded(Expand(c.args, vars)) \cup UNION {Unexpanded(ProcessEnv(c, vars)[k]) : k \in DOMAIN ProcessEnv(c, vars)}

MissingFiles(paths) == paths \ files_there

-----------------------------------------------------------------------------
(* From the start order's turn, or the end of a run, to the spawn.           *)

\* A process declares one key at most, of its own or by a name of the node's.
NodeVarsInit ==
  /\ \E k \in {"K", "NODE_IP"} :
       LET Tables == UNION {[ks -> ValueTexts] : ks \in SUBSET {k}} IN
         /\ config \in [args : ArgTexts, env : Tables, env_default : Tables, wait_for_files : SUBSET FilePaths]
         /\ inherited \in Tables
  /\ node_values \in {NodeValues(FALSE), NodeValues(TRUE)} /\ files_there = {}
  /\ held_at = "begun" /\ awaited = {} /\ unturned = TRUE
  /\ given = [args |-> <<>>, env |-> NoEnv, values |-> NoEnv]

NodeTurns ==
  /\ node_values' = NodeValues("NODE_IP" \notin DOMAIN node_values) /\ unturned' = FALSE
  /\ UNCHANGED <<config, inherited, files_there, held_at, awaited, given>>
FileAppears(f) ==
  /\ f \notin files_there /\ files_there' = files_there \cup {f}
  /\ UNCHANGED <<config, inherited, node_values, held_at, awaited, given, unturned>>

HoldGoes(from, to) ==
  /\ held_at = from /\ held_at' = to /\ UNCHANGED <<config, inherited, node_values, files_there>>

\* wait_for_files: the paths are filled in once, as the node is then.
FilesNamed ==
  /\ HoldGoes("begun", "files") /\ awaited' = {Expand(f, node_values) : f \in config.wait_for_files}
  /\ UNCHANGED <<given, unturned>>
FilesFound == HoldGoes("files", "vars") /\ MissingFiles(awaited) = {} /\ UNCHANGED <<awaited, given, unturned>>
\* wait_for_node_vars: looked at again every second.
NodeVarsFound ==
  HoldGoes("vars", "spawn") /\ NodeVarsMissing(config, node_values) = {} /\ UNCHANGED <<awaited, given, unturned>>
\* Shutdown: the spawn that follows is refused.
GivesUp(from) == from \in {"files", "vars"} /\ HoldGoes(from, "given up") /\ UNCHANGED <<awaited, given, unturned>>

\* spawn_process looks for itself, and is refused without a value: which ends the
\* start order, or leaves the process failed.  Goldens and a delay came before.
SpawnLooks ==
  /\ HoldGoes("spawn", IF NodeVarsMissing(config, node_values) = {} THEN "checked" ELSE "refused")
  /\ unturned' = TRUE /\ UNCHANGED <<awaited, given>>
\* And looks once more for what it fills in.
SpawnFills ==
  /\ HoldGoes("checked", "started")
  /\ given' = [args |-> Expand(config.args, ArgsVars(config, node_values)),
               env |-> Overlaid(inherited, ProcessEnv(config, node_values)), values |-> node_values]
  /\ UNCHANGED <<awaited, unturned>>
RunIsOver == HoldGoes("started", "vars") /\ UNCHANGED <<awaited, given, unturned>>

NodeVarsNext ==
  \/ NodeTurns \/ FilesNamed \/ FilesFound \/ NodeVarsFound \/ SpawnLooks \/ SpawnFills \/ RunIsOver
  \/ \E from \in {"files", "vars"} : GivesUp(from)
  \/ \E f \in FilePaths : FileAppears(Expand(f, NodeValues(TRUE)))

NodeVarsSpec == NodeVarsInit /\ [][NodeVarsNext]_nodeVars

-----------------------------------------------------------------------------
(* Properties.                                                               *)

\* The type invariant.
NodeVarsTypeOK ==
  /\ config.args \in ArgTexts /\ config.wait_for_files \subseteq FilePaths
  /\ node_values \in {NodeValues(FALSE), NodeValues(TRUE)}
  /\ held_at \in {"begun", "files", "vars", "spawn", "checked", "started", "refused", "given up"}
  /\ unturned \in BOOLEAN

\* README.md: "A process is never spawned with one of these two left unexpanded in an
\* argument or in an environment value it would get", as long as the node is as it was
\* when the spawn looked, no value that stormd inherited says so itself, and no value has
\* a "${" that only what it is put into would close; and ${X} in an argument is "the
\* value the process would get" for an X that it declares, the node's own names always
\* the node's.
Values == LET Of(f) == {f[k] : k \in DOMAIN f} IN Of(inherited) \cup Of(config.env) \cup Of(config.env_default)
ClosedText(s) == \A i \in 1..Len(s) : s[i] = OPEN => ~Unclosed(s, i)

FilledAlike ==
  held_at = "started" =>
    LET declared == DOMAIN config.env \cup DOMAIN config.env_default IN
      /\ given.args = Expand(config.args, Overlaid(Restricted(given.env, declared), given.values))
      /\ (/\ unturned /\ \A v \in Values : ClosedText(v)
         /\ \A k \in DOMAIN inherited : Unexpanded(inherited[k]) = {}) =>
           /\ Unexpanded(given.args) = {}
           /\ \A k \in DOMAIN given.env : Unexpanded(given.env[k]) = {}
=============================================================================
