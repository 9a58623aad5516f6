------------------------------- MODULE RunLog -------------------------------
(***************************************************************************)
(* The log directory: every process writes to its own file, which is       *)
(* rotated at a size, named after the run when the run is closed, and      *)
(* pruned to a number of runs.  A write may fail, and the file says later  *)
(* how many lines it is missing.                                           *)
(***************************************************************************)
EXTENDS Naturals, Sequences, FiniteSets, Functions

CONSTANTS
  Logged,      (* the processes                                            *)
  Dotted,      (* <<p, q>>: q's name is p's, a dot, and more               *)
  MaxSize,     (* lines in a file before it is rotated                     *)
  MaxFiles,    (* rotated files kept                                       *)
  KeepRuns,    (* closed runs kept                                         *)
  MaxRunLines,    (* bound on the lines of a process                          *)
  MaxSeconds   (* bound on the clock that names the runs                   *)

ASSUME RunLogAssumption ==
  /\ Dotted \subseteq Logged \X Logged
  /\ MaxSize \in Nat \ {0} /\ MaxFiles \in Nat \ {0} /\ KeepRuns \in Nat
  /\ MaxRunLines \in Nat /\ MaxSeconds \in Nat

Seconds == 0..MaxSeconds
\* {process}.log, {process}.{n}.log and {process}.{run id}.{outcome}.log.
Live(p) == <<p, "log">>
Rotated(p, n) == <<p, "rotated", n>>
ClosedRuns(p, id, tag) == <<p, "run", id, tag>>
LogNames(p) ==
  {Live(p)} \cup {Rotated(p, n) : n \in 1..MaxFiles}
  \cup {ClosedRuns(p, id, tag) : id \in Seconds, tag \in {"exited", "failed"}}
ClosedNames(p) == {ClosedRuns(p, id, tag) : id \in Seconds, tag \in {"exited", "failed"}}

VARIABLES
  files,      \* what each file holds: lines, and notes of lines not written
  size,       \* current_size: what each writer takes its file's length to be
  writable,   \* whether files can be written
  failing,    \* each writer: 0, or the lines lost since it began to fail
  second,     \* the clock
  run_ids,    \* each process's run id
  readers,    \* the ids of the runs whose pipes are still read
  closing,    \* what the exit handler is at with the process
  emitted,    \* history: lines written to the log of each process
  gone,       \* history: lines that were deleted with a file
  forgotten,  \* history: lines whose count went with the writer
  closed      \* history: the closed runs of each process

log_history == <<emitted, gone, forgotten, closed>>
RunLogVars == <<files, size, writable, failing, second, run_ids, readers, closing, log_history>>

Line(id) == [run |-> id, lost |-> 0]
Missing(id, n) == [run |-> id, lost |-> n]

RunLogInit ==
  /\ files = [f \in UNION {LogNames(p) : p \in Logged} |-> <<>>]
  /\ size = [p \in Logged |-> 0] /\ writable = TRUE /\ failing = [p \in Logged |-> 0]
  /\ second = 0 /\ run_ids = [p \in Logged |-> 0]
  /\ readers = [p \in Logged |-> {}] /\ closing = [p \in Logged |-> "down"]
  /\ emitted = [p \in Logged |-> 0] /\ gone = [p \in Logged |-> 0]
  /\ forgotten = [p \in Logged |-> 0] /\ closed = [p \in Logged |-> {}]

\* The lines a file stands for: those in it, and those it says are missing.
LinesIn(s) == SumFunction([i \in DOMAIN s |-> IF s[i].lost > 0 THEN s[i].lost ELSE 1])
LinesOfRun(names) == SumFunction([f \in names |-> LinesIn(files[f])])

-----------------------------------------------------------------------------
(* FileLogger::write.                                                        *)

Full(p) == size[p] >= MaxSize

\* rotate: the last goes, every other moves up one, the live file is .1.
Shifted(p) ==
  [f \in DOMAIN files |->
     IF f = Live(p) THEN <<>>
     ELSE IF f = Rotated(p, 1) THEN files[Live(p)]
     ELSE IF \E n \in 2..MaxFiles : f = Rotated(p, n) THEN files[Rotated(p, f[3] - 1)]
     ELSE files[f]]
WithRoom(p) == IF Full(p) THEN Shifted(p) ELSE files
RotatedAway(p) == IF Full(p) THEN LinesIn(files[Rotated(p, MaxFiles)]) ELSE 0

\* The note of what is missing goes before the line.
LogEntry(p, id) == (IF failing[p] > 0 THEN <<Missing(id, failing[p])>> ELSE <<>>) \o <<Line(id)>>

\* Not yet time to try again, or the try fails.  Rotation comes before the try, and
\* the size is 0 after it, whether or not the files could be renamed.
NotTried(p) == failing[p] > 0 /\ UNCHANGED <<files, size, gone>>
Tried(p) ==
  /\ ~writable
  /\ size' = [size EXCEPT ![p] = IF Full(p) THEN 0 ELSE @]
  /\ \/ files' = WithRoom(p) /\ gone' = [gone EXCEPT ![p] = @ + RotatedAway(p)]
     \/ UNCHANGED <<files, gone>>

\* A line whose retry fails is not counted.
BugLose(p) ==
  /\ NotTried(p) \/ Tried(p)
  /\ failing' = [failing EXCEPT ![p] = IF @ = 0 THEN 1 ELSE @]

Lose(p) ==
  /\ NotTried(p) \/ Tried(p)
  /\ failing' = [failing EXCEPT ![p] = @ + 1]

LogPut(p, id) ==
  /\ writable
  /\ files' = [WithRoom(p) EXCEPT ![Live(p)] = @ \o LogEntry(p, id)]
  /\ size' = [size EXCEPT ![p] = Len(LogEntry(p, id)) + IF Full(p) THEN 0 ELSE @]
  /\ failing' = [failing EXCEPT ![p] = 0]
  /\ gone' = [gone EXCEPT ![p] = @ + RotatedAway(p)]

Write(p, id) ==
  /\ emitted[p] < MaxRunLines /\ emitted' = [emitted EXCEPT ![p] = @ + 1]
  /\ LogPut(p, id) \/ Lose(p)

\* The volume fails, or is back.
VolumeTurns ==
  /\ writable' = ~writable
  /\ UNCHANGED <<files, size, failing, second, run_ids, readers, closing, log_history>>

Second ==
  /\ second < MaxSeconds /\ second' = second + 1
  /\ UNCHANGED <<files, size, writable, failing, run_ids, readers, closing, log_history>>

-----------------------------------------------------------------------------
(* A run's log: spawn_capture, its readers, archive_run.                     *)

\* A run id is a second; the first line says the process has started.
SpawnCapture(p) ==
  /\ closing[p] = "down" /\ Write(p, second)
  /\ run_ids' = [run_ids EXCEPT ![p] = second]
  /\ readers' = [readers EXCEPT ![p] = @ \cup {second}]
  /\ closing' = [closing EXCEPT ![p] = "up"]
  /\ UNCHANGED <<writable, second, forgotten, closed>>

Read(p, id) ==
  /\ id \in readers[p] /\ Write(p, id)
  /\ UNCHANGED <<writable, second, run_ids, readers, closing, forgotten, closed>>

\* The pipe closes; a grandchild may hold it open long after the child's exit.
PipeCloses(p, id) ==
  /\ id \in readers[p] /\ closing[p] # "up"
  /\ readers' = [readers EXCEPT ![p] = @ \ {id}]
  /\ UNCHANGED <<files, size, writable, failing, second, run_ids, closing, log_history>>

\* Only handle_exit closes a run: one stopped on request leaves its file.
Exits(p) ==
  /\ closing[p] = "up"
  /\ \E next \in {"draining", "down"} : closing' = [closing EXCEPT ![p] = next]
  /\ UNCHANGED <<files, size, writable, failing, second, run_ids, readers, log_history>>

\* The readers have drained, or five seconds have passed.
Drain(p) ==
  /\ closing[p] = "draining"
  /\ closing' = [closing EXCEPT ![p] = "taking"]
  /\ UNCHANGED <<files, size, writable, failing, second, run_ids, readers, log_history>>

\* take_file: the writer goes, and what it had not yet said with it.  A file that
\* cannot be renamed stays, and the next run goes on in it.
LogRenamed(p, name) ==
  /\ files' = [files EXCEPT ![name] = files[Live(p)], ![Live(p)] = <<>>]
  /\ size' = [size EXCEPT ![p] = 0]
  /\ gone' = [gone EXCEPT ![p] = @ + LinesIn(files[name])]
  /\ closed' = [closed EXCEPT ![p] = @ \cup {name}]

Left(p) ==
  /\ files[Live(p)] = <<>> \/ ~writable
  /\ size' = [size EXCEPT ![p] = Len(files[Live(p)])]
  /\ UNCHANGED <<files, gone, closed>>

TakeFile(p, tag) ==
  /\ closing[p] = "taking"
  /\ \/ files[Live(p)] # <<>> /\ LogRenamed(p, ClosedRuns(p, run_ids[p], tag))
     \/ Left(p)
  /\ failing' = [failing EXCEPT ![p] = 0]
  /\ forgotten' = [forgotten EXCEPT ![p] = @ + failing[p]]
  /\ closing' = [closing EXCEPT ![p] = "pruning"]
  /\ UNCHANGED <<writable, second, run_ids, readers, emitted>>

\* What runs(p) takes for p's: whatever has its name and a dot before, and two
\* more parts.  Another process's sort before its own, their names being letters.
Listed(p) ==
  {f \in ClosedNames(p) : files[f] # <<>>}
  \cup {f \in UNION {LogNames(q) \ {Live(q)} : q \in {q \in Logged : <<p, q>> \in Dotted}} :
          files[f] # <<>>}
Newer(p, f, g) == f[1] # p \/ (g[1] = p /\ f[3] >= g[3])

\* The oldest are kept.
BugPrune(p) ==
  /\ closing[p] = "pruning"
  /\ \E kept \in SUBSET Listed(p) :
       /\ Cardinality(kept) = KeepRuns \/ (kept = Listed(p) /\ Cardinality(kept) <= KeepRuns)
       /\ \A f \in kept, g \in Listed(p) \ kept : Newer(p, g, f)
       /\ files' = [f \in DOMAIN files |-> IF f \in Listed(p) \ kept THEN <<>> ELSE files[f]]
       /\ gone' = [q \in Logged |-> gone[q] + LinesOfRun({f \in Listed(p) \ kept : f[1] = q})]
  /\ closing' = [closing EXCEPT ![p] = "down"]
  /\ UNCHANGED <<size, writable, failing, second, run_ids, readers, emitted, forgotten, closed>>

Prune(p) ==
  /\ closing[p] = "pruning"
  /\ \E kept \in SUBSET Listed(p) :
       /\ Cardinality(kept) = KeepRuns \/ (kept = Listed(p) /\ Cardinality(kept) <= KeepRuns)
       /\ \A f \in kept, g \in Listed(p) \ kept : Newer(p, f, g)
       /\ files' = [f \in DOMAIN files |-> IF f \in Listed(p) \ kept THEN <<>> ELSE files[f]]
       /\ gone' = [q \in Logged |-> gone[q] + LinesOfRun({f \in Listed(p) \ kept : f[1] = q})]
  /\ closing' = [closing EXCEPT ![p] = "down"]
  /\ UNCHANGED <<size, writable, failing, second, run_ids, readers, emitted, forgotten, closed>>

-----------------------------------------------------------------------------
(* LogStore::query, but for what a line has to match and the tail.           *)

AllRuns == "all runs"

\* Whatever has the process's name and a dot before, rotated or closed, and the live
\* file.  A dotted name's files are among them.
FilesFor(p) == LogNames(p) \cup UNION {LogNames(q) : q \in {q \in Logged : <<p, q>> \in Dotted}}

\* The live file answers for every run, and a rotated one for none.
FilesAsked(p, want) ==
  {f \in FilesFor(p) : \/ want = AllRuns \/ f = Live(p)
                       \/ f[2] = "run" /\ f[3] = want}

-----------------------------------------------------------------------------
RunLogNext ==
  \/ VolumeTurns \/ Second
  \/ \E p \in Logged :
       \/ SpawnCapture(p) \/ Exits(p) \/ Drain(p) \/ Prune(p)
       \/ \E id \in Seconds : Read(p, id) \/ PipeCloses(p, id)
       \/ \E tag \in {"exited", "failed"} : TakeFile(p, tag)

RunLogSpec == RunLogInit /\ [][RunLogNext]_RunLogVars

-----------------------------------------------------------------------------
(* Properties.                                                               *)

\* No line vanishes unsaid: a query for the process's log finds it, or finds it counted
\* as missing, or it waits to be counted, or was deleted with its file or its writer.
LinesAccounted ==
  \A p \in Logged :
    emitted[p] = LinesOfRun(FilesAsked(p, AllRuns)) + failing[p] + gone[p] + forgotten[p]

\* store.rs: "Keep the newest `keep` archived runs of a process and delete the
\* rest": a closed run is missing only when that many newer ones of the process
\* are there.
NewestRunsKept ==
  \A p \in Logged : closing[p] = "down" =>
    \A f \in closed[p] : files[f] = <<>> =>
      Cardinality({g \in closed[p] : files[g] # <<>> /\ g[3] >= f[3]}) >= KeepRuns
=============================================================================
