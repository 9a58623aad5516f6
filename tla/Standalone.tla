------------------------------ MODULE Standalone ------------------------------
(***************************************************************************)
(* The choice a standalone applet makes between the file it was given and  *)
(* its stdin (shell/mod.rs, wants_stdin), beside what the applet then does *)
(* with its arguments.  Its stdin may be a pipe that never closes.         *)
(*                                                                         *)
(* An argument is a flag, a word or "-"; a word is a file, a pattern or a  *)
(* value, as the applet takes it, a value of -f names a field, and "-" is  *)
(* an operand to wants_stdin and a flag to every applet.  `call' is the    *)
(* applet's call: whether it waits for its stdin, and what it reads.       *)
(***************************************************************************)
EXTENDS Integers, Sequences, FiniteSets

CONSTANT MaxArgs   \* bound: arguments of one call
ASSUME StandaloneAssumption == MaxArgs \in Nat

VARIABLE call

Args == {"-n", "-c", "-d", "-f", "-f1", "-e", "-r", "-", "word"}
InputCommands == {"tee", "tr", "cat", "wc", "sha256sum", "sort", "uniq", "rev", "xxd", "base64", "head", "tail",
            "cut", "grep", "sed"}
WordsOf(args) == {i \in DOMAIN args : args[i] = "word"}
Dashes(args) == {i \in DOMAIN args : args[i] = "-"}

-----------------------------------------------------------------------------
(* The flags that wants_stdin takes to have a value behind them, and the    *)
(* words that are neither flags nor values.                                 *)
Valued(cmd) ==
  CASE cmd \in {"head", "tail"} -> {"-n", "-c"}
    [] cmd = "cut"              -> {"-d", "-f", "-c"}
    [] cmd \in {"grep", "sed"}  -> {"-e"}
    [] OTHER                    -> {}

Skipped(args, valued) ==
  LET skip[i \in DOMAIN args] == i > 1 /\ ~skip[i - 1] /\ args[i - 1] \in valued
  IN {i \in DOMAIN args : skip[i]}
Operands(cmd, args) == (WordsOf(args) \cup Dashes(args)) \ Skipped(args, Valued(cmd))

(* BUG: the value of head's -n counts as a file. *)
BugWantsStdin(cmd, args) ==
  CASE cmd \in {"tee", "tr"}   -> TRUE
    [] cmd \in {"grep", "sed"} -> Cardinality(Operands(cmd, args)) <= 1
    [] OTHER                   -> WordsOf(args) \cup Dashes(args) = {}

(* The first operand of grep and sed is the pattern or the expression. *)
WantsStdin(cmd, args) ==
  CASE cmd \in {"tee", "tr"}   -> TRUE
    [] cmd \in {"grep", "sed"} -> Cardinality(Operands(cmd, args)) <= 1
    [] OTHER                   -> Operands(cmd, args) = {}

-----------------------------------------------------------------------------
(* The arguments that the loop of head, tail and cut comes to: a flag with  *)
(* a value takes it along, if there is an argument behind it.               *)
Visited(args, flags) ==
  LET Takes(i) == args[i] \in flags /\ i < Len(args)
      visit[i \in DOMAIN args] ==
        \/ i = 1
        \/ i > 1 /\ visit[i - 1] /\ ~Takes(i - 1)
        \/ i > 2 /\ visit[i - 2] /\ Takes(i - 2)
  IN {i \in DOMAIN args : visit[i]}

(* head and tail: any word the loop comes to is the file. *)
HeadFile(args) == WordsOf(args) \cap Visited(args, {"-n"}) # {}

(* cut: the last -f counts, and one with nothing behind it names no field. *)
HasFields(args) ==
  LET named == {i \in Visited(args, {"-d", "-f"}) : args[i] \in {"-f", "-f1"}}
  IN \E i \in named : /\ \A j \in named : j <= i
                      /\ args[i] = "-f" => i < Len(args)

(* Where the applet then takes its input from. *)
Source(cmd, args) ==
  LET words == Cardinality(WordsOf(args))
      Either(file) == IF file THEN "file" ELSE "stdin"
  IN CASE cmd \in {"tee", "rev", "xxd", "base64"} -> "stdin"
       [] cmd = "tr" -> IF Len(args) >= 2 THEN "stdin" ELSE "none"
       [] cmd \in {"cat", "sha256sum"} ->
            IF args = <<>> THEN "stdin" ELSE IF words > 0 THEN "file" ELSE "none"
       [] cmd \in {"wc", "sort", "uniq"} -> Either(words > 0)
       [] cmd \in {"head", "tail"} -> Either(HeadFile(args))
       [] cmd = "cut"  -> IF HasFields(args) THEN Either(words > 0) ELSE "none"
       [] cmd = "grep" -> IF words = 0 THEN "none" ELSE Either(words > 1)
       [] OTHER        -> IF args = <<>> THEN "none" ELSE Either(words > 1)

Invoke ==
  /\ call.cmd = "none"
  /\ \E cmd \in InputCommands, n \in 0..MaxArgs : \E args \in [1..n -> Args] :
       call' = [cmd |-> cmd, args |-> args,
                waits |-> WantsStdin(cmd, args), reads |-> Source(cmd, args)]

StandaloneInit == call = [cmd |-> "none", args |-> <<>>, waits |-> FALSE, reads |-> "none"]
StandaloneSpec == StandaloneInit /\ [][Invoke]_call

-----------------------------------------------------------------------------
(* The spellings that the two loops read differently: a word that           *)
(* wants_stdin takes for a value and the applet for its file or its pattern,*)
(* which it does after grep's and sed's -e and after any flag of cut, and   *)
(* -c of head and tail, which they do not know.                             *)
Misread(cmd, args) ==
  \/ cmd \in {"head", "tail"} /\ \E i \in DOMAIN args : args[i] = "-c"
  \/ cmd \in {"cut", "grep", "sed"} /\ WordsOf(args) \cap Skipped(args, Valued(cmd)) # {}

(* "Read piped stdin only for an applet that would read it": one that reads *)
(* a file never waits for a stdin that may never end, and one that reads    *)
(* stdin waits for it, save rev, xxd and base64 with a word, which is no    *)
(* file to them, and any with a "-", which is one to wants_stdin alone.     *)
NoNeedlessWait ==
  ~Misread(call.cmd, call.args) =>
    /\ call.reads = "file" => ~call.waits
    /\ /\ call.reads = "stdin"
       /\ call.cmd \in {"rev", "xxd", "base64"} => WordsOf(call.args) = {}
       /\ Operands(call.cmd, call.args) \subseteq WordsOf(call.args)
       => call.waits
===============================================================================
