------------------------------ MODULE ApiHealth ------------------------------
(***************************************************************************)
(* The health of the APIs that processes serve, each timed by a task of    *)
(* its own: a probe's result is recorded, and then all of them are written *)
(* to a temporary name and renamed, while the others do the same; either   *)
(* may fail, and is not tried again before the next result.                *)
(***************************************************************************)
EXTENDS Integers, Sequences, FiniteSets

CONSTANTS
  Apis,        (* the APIs                                    *)
  Latencies,   (* how long an answer may take                 *)
  Window,      (* WINDOW: the answers that p50_ms is taken of *)
  P50, P99,    (* the budgets                                 *)
  MaxChecks,   (* bound on the checks of each                 *)
  MaxRefused   (* bound on the writes that the disk refuses   *)

ASSUME ApiHealthAssumption ==
  /\ Latencies \subseteq Nat /\ Window \in Nat \ {0} /\ P50 \in Nat /\ P99 \in Nat
  /\ MaxChecks \in Nat /\ "nobody" \notin Apis

\* Answered, refused (with a status of 400 or more), not answered, not connected.
Answers == [kind : {"answered", "refused"}, ms : Latencies]
ProbeResults == Answers \cup [kind : {"timeout", "error"}, ms : {0}]
ApiStates == {"unknown", "healthy", "slow", "stalled", "down"}

NoFile == <<>>
Unprobed == [state |-> "unknown", window |-> <<>>, checks |-> 0]

VARIABLES
  health,        \* ApiHealthStore.map
  publish_lock,  \* the task that has it
  publishing,    \* each task: probing, recorded, locked, listed, written
  body,          \* what each task has read to write
  tmp_file, state_file,    \* the temporary file and the published one
  publish_failures,
  io_failed      \* history: how often the disk refused, and the tasks whose state it kept
                 \* from the file, which has been written by none since

apiHealthVars == <<health, publish_lock, publishing, body, tmp_file, state_file, publish_failures, io_failed>>

\* set_state_file has published an empty list.
ApiHealthInit ==
  /\ health = [a \in Apis |-> Unprobed] /\ publish_lock = "nobody"
  /\ publishing = [a \in Apis |-> "probing"] /\ body = [a \in Apis |-> NoFile]
  /\ tmp_file = NoFile /\ state_file = health /\ publish_failures = 0
  /\ io_failed = [times |-> 0, unwritten |-> {}]

PublishGoes(a, from, to) == publishing[a] = from /\ publishing' = [publishing EXCEPT ![a] = to]

-----------------------------------------------------------------------------
(* A probe's result.                                                         *)

\* The value of the nearest rank.
Percentile(w, pct) ==
  LET rank == (pct * Len(w) + 99) \div 100
      UpTo(v) == Cardinality({i \in 1..Len(w) : w[i] <= v})
  IN CHOOSE v \in {w[i] : i \in 1..Len(w)} :
       UpTo(v) >= rank /\ \A i \in 1..Len(w) : UpTo(w[i]) >= rank => v <= w[i]

Classify(probe, w) ==
  CASE probe.kind = "timeout" -> "stalled"
    [] probe.kind \in {"error", "refused"} -> "down"
    [] OTHER -> IF probe.ms > P99 \/ Percentile(w, 50) > P50 THEN "slow" ELSE "healthy"

\* Whatever was answered counts, a refusal too.
NewWindow(w, probe) ==
  LET longer == IF probe \in Answers THEN Append(w, probe.ms) ELSE w
  IN IF Len(longer) > Window THEN Tail(longer) ELSE longer

Record(a) ==
  /\ PublishGoes(a, "probing", "recorded") /\ health[a].checks < MaxChecks
  /\ \E probe \in ProbeResults :
       LET w == NewWindow(health[a].window, probe)
       IN health' = [health EXCEPT ![a] = [state |-> Classify(probe, w), window |-> w,
                                           checks |-> @.checks + 1]]
  /\ UNCHANGED <<publish_lock, body, tmp_file, state_file, publish_failures, io_failed>>

-----------------------------------------------------------------------------
(* publish.                                                                  *)

\* Nobody is waited for.
BugOneWriter(a) == UNCHANGED publish_lock

OneWriter(a) == publish_lock = "nobody" /\ publish_lock' = a

PublishLocks(a) ==
  /\ PublishGoes(a, "recorded", "locked") /\ OneWriter(a)
  /\ UNCHANGED <<health, body, tmp_file, state_file, publish_failures, io_failed>>
Lists(a) ==
  /\ PublishGoes(a, "locked", "listed") /\ body' = [body EXCEPT ![a] = health]
  /\ UNCHANGED <<health, publish_lock, tmp_file, state_file, publish_failures, io_failed>>
TmpWritten(a) ==
  /\ PublishGoes(a, "listed", "written") /\ tmp_file' = body[a]
  /\ UNCHANGED <<health, publish_lock, body, state_file, publish_failures, io_failed>>
\* There is no such file when another has renamed it.
TmpRenamed(a) ==
  /\ PublishGoes(a, "written", "probing") /\ body' = [body EXCEPT ![a] = NoFile]
  /\ IF tmp_file = NoFile THEN publish_failures' = publish_failures + 1 /\ UNCHANGED <<tmp_file, state_file, io_failed>>
     ELSE /\ state_file' = tmp_file /\ tmp_file' = NoFile /\ io_failed' = [io_failed EXCEPT !.unwritten = {}]
          /\ UNCHANGED publish_failures
  /\ publish_lock' = "nobody" /\ UNCHANGED health
\* The disk refuses the write or the rename.  (What a failed write leaves of the
\* temporary file is written over before it is renamed.)
PublishFails(a) ==
  /\ io_failed.times < MaxRefused
  /\ PublishGoes(a, "listed", "probing") \/ PublishGoes(a, "written", "probing")
  /\ body' = [body EXCEPT ![a] = NoFile] /\ publish_failures' = publish_failures + 1
  /\ io_failed' = [times |-> io_failed.times + 1, unwritten |-> io_failed.unwritten \cup {a}]
  /\ publish_lock' = "nobody" /\ UNCHANGED <<health, tmp_file, state_file>>

ApiHealthNext ==
  \E a \in Apis : Record(a) \/ PublishLocks(a) \/ Lists(a) \/ TmpWritten(a) \/ TmpRenamed(a) \/ PublishFails(a)

ApiHealthSpec == ApiHealthInit /\ [][ApiHealthNext]_apiHealthVars

-----------------------------------------------------------------------------
(* Properties.                                                               *)

Healths == [state : ApiStates, window : Seq(Nat), checks : Nat]

\* The type invariant.
ApiHealthTypeOK ==
  /\ health \in [Apis -> Healths] /\ publish_lock \in Apis \cup {"nobody"}
  /\ publishing \in [Apis -> {"probing", "recorded", "locked", "listed", "written"}]
  /\ body \in [Apis -> [Apis -> Healths] \cup {NoFile}]
  /\ tmp_file \in [Apis -> Healths] \cup {NoFile} /\ state_file \in [Apis -> Healths]
  /\ publish_failures \in Nat /\ io_failed \in [times : Nat, unwritten : SUBSET Apis]

\* apihealth.rs: "One writer at a time", "so the file left last holds the newest state":
\* the file has what has been recorded but for what its task has still to publish, or
\* could not when the disk refused it and none has since; and no rename finds its file
\* gone.
FileIsNewest ==
  /\ publish_failures = io_failed.times
  /\ \A a \in Apis :
       publishing[a] = "probing" /\ a \notin io_failed.unwritten => state_file[a] = health[a]
=============================================================================
