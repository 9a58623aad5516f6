----------------------------- MODULE Supervisor -----------------------------
(***************************************************************************)
(* One ManagedProcess of stormd's supervisor and every task that writes    *)
(* its record: the start order, the spawn routine, the monitor task of     *)
(* each run, the exit-handler task of each exit, API callers, and main's   *)
(* shutdown.  Each task is cut where the code releases the record's lock   *)
(* or awaits, so any two of them interleave there.                         *)
(*                                                                         *)
(* A run is one spawn of the process (ManagedProcess.run); runs also name  *)
(* pids and kill handles, since each run has its own child and its own     *)
(* oneshot channel.  0 is None.                                            *)
(***************************************************************************)
EXTENDS Integers

CONSTANTS
  Callers,   (* API and shell requests, each one in-flight operation        *)
  Ops,       (* the operations a caller may ask for                         *)
  Boot,      (* the start order's task, start_all                           *)
  MaxRuns,   (* bound on the number of spawns                               *)
  Configs    (* the process configurations to consider                      *)

Runs   == 1..MaxRuns
RunId  == 0..MaxRuns
Tasks  == Callers \cup {Boot} \cup Runs    \* a run names its exit handler

\* How a child can end, as handle_exit tells exits apart: 0, a code listed in
\* no_restart_exit_codes, anything else (another code, or a signal).
Exits == {"clean", "no_restart", "failed"}

States == {"Pending", "Starting", "Running", "Stopping", "Stopped", "Failed",
           "Restarting", "CrashLoopBackOff"}

ConfigType ==
  [on_exit: {"restart", "stop"}, on_failure: {"restart", "fail", "ignore"},
   on_no_restart: {"hold", "fail"},
   policy: {"None", "Always", "OnFailure", "Never"}, max_restarts: Nat]

ASSUME SupervisorAssumption ==
  /\ MaxRuns \in Nat \ {0}
  /\ Ops \subseteq {"start", "stop", "restart"}
  /\ Configs \subseteq ConfigType
  /\ Callers \cap Runs = {}
  /\ Boot \notin Callers \cup Runs

VARIABLES
  cfg,        \* the process's configuration, fixed
  state,      \* ManagedProcess.state
  pid,        \* ManagedProcess.pid, by the run whose child it is
  run,        \* ManagedProcess.run
  kill_tx,    \* ManagedProcess.kill_tx, by the run whose monitor holds kill_rx
  in_window,  \* restarts stamped within restart_window_secs
  failed,     \* container_failed
  shutting,   \* shutting_down
  child,      \* run -> its child: not forked, up, how it ended, or dealt with
  monitor,    \* run -> its monitor task
  pc,         \* task -> where it is
  mine,       \* task -> the run it is spawning
  seen,       \* run -> restarts_in_window as its exit handler read it
  main,       \* where main's shutdown sequence is
  overlap,    \* history: a start was let in while the process had an owner
  stop_asked  \* history: a stop was accepted, and no start or restart since

vars == <<cfg, state, pid, run, kill_tx, in_window, failed, shutting, child,
          monitor, pc, mine, seen, main, overlap, stop_asked>>

record  == <<state, pid, run, kill_tx, in_window>>
history == <<overlap, stop_asked>>

SpawnStages == {"spawn", "fork", "started", "arm"}
Stages == SpawnStages \cup {"idle", "wait_stopped", "queued", "recorded", "archive",
                            "cooloff", "spawn_failed", "done"}

Live(r) == child[r] = "up"

\* Something is responsible for what the process does next: a task that is
\* spawning it, the monitor of a run, or the handler of an exit.
Busy(t)  == pc[t] \in SpawnStages \cup {"queued", "recorded", "archive", "cooloff",
                                          "spawn_failed"}
Watched(r) == monitor[r] \in {"watch", "stopping"}
Owners == {t \in Tasks : Busy(t)} \cup {r \in Runs : Watched(r)}

\* A monitor's kill_rx resolves when the handle was used and when it was
\* dropped, which storing another run's handle does.
KillRequested(r) == monitor[r] = "watch" /\ kill_tx # r
KillInFlight == \E r \in Runs : KillRequested(r) \/ monitor[r] = "stopping"

Init ==
  /\ cfg \in Configs
  /\ state = "Pending" /\ pid = 0 /\ run = 0 /\ kill_tx = 0 /\ in_window = 0
  /\ failed = FALSE /\ shutting = FALSE
  /\ child = [r \in Runs |-> "none"]
  /\ monitor = [r \in Runs |-> "none"]
  /\ pc = [t \in Tasks |-> IF t = Boot THEN "spawn" ELSE "idle"]
  /\ mine = [t \in Tasks |-> 0]
  /\ seen = [r \in Runs |-> 0]
  /\ main = "up"
  /\ overlap = FALSE /\ stop_asked = FALSE

-----------------------------------------------------------------------------
(* spawn_process, run by the start order, a caller or an exit handler.       *)

Goto(t, stage) == pc' = [pc EXCEPT ![t] = stage]

\* Mutant: a failed respawn is only reported.
BugSpawnError(t) == Goto(t, "done")

\* spawn_process returned Err: an exit handler marks the process, the others
\* only report it.
SpawnError(t) == Goto(t, IF t \in Runs THEN "spawn_failed" ELSE "done")

\* The exit of run r needs no more handling.
Settled(r) == child' = [child EXCEPT ![r] = "gone"] /\ seen' = [seen EXCEPT ![r] = 0]

SpawnCheck(t) ==
  /\ pc[t] = "spawn"
  /\ IF shutting THEN SpawnError(t) ELSE Goto(t, "fork")
  /\ UNCHANGED <<record, cfg, failed, shutting, child, monitor, mine, seen, main, history>>

\* Starting, a new run, and the fork.  A fork may fail, which leaves the record
\* Starting; past the bound on runs it always does.
SpawnFork(t) ==
  /\ pc[t] = "fork"
  /\ state' = "Starting"
  /\ \/ /\ run < MaxRuns
        /\ run' = run + 1
        /\ child' = [child EXCEPT ![run + 1] = "up"]
        /\ mine' = [mine EXCEPT ![t] = run + 1]
        /\ Goto(t, "started")
     \/ /\ run' = IF run < MaxRuns THEN run + 1 ELSE run
        /\ SpawnError(t)
        /\ UNCHANGED <<child, mine>>
  /\ UNCHANGED <<pid, kill_tx, in_window, cfg, failed, shutting, monitor, seen, main, history>>

\* After spawn_capture: Running with the new pid, whatever happened to the
\* record meanwhile.
SpawnRecord(t) ==
  /\ pc[t] = "started"
  /\ state' = "Running" /\ pid' = mine[t]
  /\ Goto(t, "arm")
  /\ UNCHANGED <<run, kill_tx, in_window, cfg, failed, shutting, child, monitor, mine, seen,
                 main, history>>

\* Mutant: the kill handle is not stored.
BugSpawnArm(t) ==
  /\ pc[t] = "arm"
  /\ monitor' = [monitor EXCEPT ![mine[t]] = "watch"]
  /\ mine' = [mine EXCEPT ![t] = 0]
  /\ Goto(t, "done")
  /\ IF t \in Runs THEN Settled(t) ELSE UNCHANGED <<child, seen>>
  /\ UNCHANGED <<kill_tx, state, pid, run, in_window, cfg, failed, shutting, main, history>>

\* The kill handle is stored after the ProcessStarted event; then the monitor
\* starts, and the spawn is over.
SpawnArm(t) ==
  /\ pc[t] = "arm"
  /\ kill_tx' = mine[t]
  /\ monitor' = [monitor EXCEPT ![mine[t]] = "watch"]
  /\ mine' = [mine EXCEPT ![t] = 0]
  /\ Goto(t, "done")
  /\ IF t \in Runs THEN Settled(t) ELSE UNCHANGED <<child, seen>>
  /\ UNCHANGED <<state, pid, run, in_window, cfg, failed, shutting, main, history>>

-----------------------------------------------------------------------------
(* The child, and its monitor task.                                          *)

ChildExits(r) ==
  /\ Live(r)
  /\ child' = [child EXCEPT ![r] = "exited"]
  /\ UNCHANGED <<record, cfg, failed, shutting, monitor, pc, mine, seen, main, history>>

\* child.wait() first: the exit event goes to run_exit_handler, which gives it
\* a task of its own.
MonitorSeesExit(r) ==
  /\ monitor[r] = "watch" /\ child[r] = "exited"
  /\ monitor' = [monitor EXCEPT ![r] = "done"]
  /\ Goto(r, "queued")
  /\ UNCHANGED <<record, cfg, failed, shutting, child, mine, seen, main, history>>

MonitorTakesKill(r) ==
  /\ KillRequested(r)
  /\ monitor' = [monitor EXCEPT ![r] = "stopping"]
  /\ UNCHANGED <<record, cfg, failed, shutting, child, pc, mine, seen, main, history>>

\* Mutant: no SIGKILL for a child that outlives SIGTERM.
BugNoSigkill(r) ==
  /\ monitor[r] = "stopping"
  /\ monitor' = [monitor EXCEPT ![r] = "done"]
  /\ state' = "Stopped" /\ pid' = 0
  /\ UNCHANGED <<run, kill_tx, in_window, cfg, failed, shutting, child, pc, mine, seen, main,
                 history>>

\* Mutant: a requested stop is sent to the exit handler too.
BugStopIsAnExit(r) ==
  /\ monitor[r] = "stopping"
  /\ child' = [child EXCEPT ![r] = "exited"]
  /\ monitor' = [monitor EXCEPT ![r] = "done"]
  /\ Goto(r, "queued")
  /\ state' = "Stopped" /\ pid' = 0
  /\ UNCHANGED <<run, kill_tx, in_window, cfg, failed, shutting, mine, seen, main, history>>

\* stop_child has returned: SIGTERM was enough, or SIGKILL followed it.
MonitorStopped(r) ==
  /\ monitor[r] = "stopping"
  /\ child' = [child EXCEPT ![r] = "gone"]
  /\ monitor' = [monitor EXCEPT ![r] = "done"]
  /\ state' = "Stopped" /\ pid' = 0
  /\ UNCHANGED <<run, kill_tx, in_window, cfg, failed, shutting, pc, mine, seen, main, history>>

-----------------------------------------------------------------------------
(* handle_exit, on a task per exit.                                          *)

ExitRecorded(r) ==
  /\ pc[r] = "queued"
  /\ pid' = 0
  /\ seen' = [seen EXCEPT ![r] = in_window]
  /\ Goto(r, "recorded")
  /\ UNCHANGED <<state, run, kill_tx, in_window, cfg, failed, shutting, child, monitor, mine,
                 main, history>>

\* The record was unlocked: an exit while stormd is stopping is the stop.
ExitChecked(r) ==
  /\ pc[r] = "recorded"
  /\ IF shutting THEN state' = "Stopped" /\ Goto(r, "done") /\ Settled(r)
                 ELSE Goto(r, "archive") /\ UNCHANGED <<state, child, seen>>
  /\ UNCHANGED <<pid, run, kill_tx, in_window, cfg, failed, shutting, monitor, mine, main,
                 history>>

\* Left down in state s; fails says whether the container fails with it.
LeaveDown(r, s, fails) ==
  /\ state' = s /\ Goto(r, "done") /\ failed' = (failed \/ fails)
  /\ Settled(r)
  /\ UNCHANGED in_window

\* A restart is stamped and its delay begins.
Schedule(r, how, s) ==
  /\ state' = s /\ Goto(r, "cooloff") /\ in_window' = in_window + 1
  /\ child' = [child EXCEPT ![r] = how]
  /\ UNCHANGED <<failed, seen>>

PolicyRestarts(how) == cfg.policy = "Always" \/ (cfg.policy = "OnFailure" /\ how # "clean")

\* Mutant: one restart too many.
BugLimitReached(r) == seen[r] > cfg.max_restarts

LimitReached(r) == seen[r] >= cfg.max_restarts

\* The table of restart_policy, on_exit, no_restart_exit_codes and on_failure.
Decision(r, how) ==
  CASE how = "no_restart" -> LeaveDown(r, "Failed", cfg.on_no_restart = "fail")
    [] how # "no_restart" /\ cfg.policy # "None" ->
         IF PolicyRestarts(how) THEN Schedule(r, how, "CrashLoopBackOff")
         ELSE LeaveDown(r, IF how = "clean" THEN "Stopped" ELSE "Failed", FALSE)
    [] how = "clean" /\ cfg.policy = "None" ->
         IF cfg.on_exit = "stop" \/ LimitReached(r) THEN LeaveDown(r, "Stopped", FALSE)
         ELSE Schedule(r, how, "Restarting")
    [] how = "failed" /\ cfg.policy = "None" ->
         CASE cfg.on_failure = "fail"   -> LeaveDown(r, "Failed", TRUE)
           [] cfg.on_failure = "ignore" -> LeaveDown(r, "Stopped", FALSE)
           [] cfg.on_failure = "restart" ->
                IF LimitReached(r) THEN LeaveDown(r, "Failed", TRUE)
                ELSE Schedule(r, how, "Restarting")

\* After archive_run: the decision, which looks at neither the state nor the
\* run the record has come to meanwhile.
ExitDecided(r) ==
  /\ pc[r] = "archive"
  /\ \E how \in Exits : Decision(r, how)
  /\ UNCHANGED <<pid, run, kill_tx, cfg, shutting, monitor, mine, main, history>>

\* Mutant: standing down does not mark the process stopped.
BugCoolOffEnds(r) ==
  /\ pc[r] = "cooloff"
  /\ IF shutting THEN Goto(r, "done") /\ Settled(r)
                 ELSE Goto(r, "spawn") /\ UNCHANGED <<child, seen>>
  /\ UNCHANGED <<record, cfg, failed, shutting, monitor, mine, main, history>>

\* The delay is over (sleep_unless_shutdown ends it early): stand_down, or
\* spawn.
CoolOffEnds(r) ==
  /\ pc[r] = "cooloff"
  /\ IF shutting THEN state' = "Stopped" /\ Goto(r, "done") /\ Settled(r)
                 ELSE Goto(r, "spawn") /\ UNCHANGED <<state, child, seen>>
  /\ UNCHANGED <<pid, run, kill_tx, in_window, cfg, failed, shutting, monitor, mine, main,
                 history>>

\* Only the on_failure path fails the container when its spawn fails.
RestartFailed(r) ==
  /\ pc[r] = "spawn_failed"
  /\ state' = "Failed" /\ Goto(r, "done")
  /\ failed' = (failed \/ (cfg.policy = "None" /\ child[r] # "clean"))
  /\ Settled(r)
  /\ UNCHANGED <<pid, run, kill_tx, in_window, cfg, shutting, monitor, mine, main, history>>

\* The oldest restarts fall out of restart_window_secs.
WindowPasses ==
  /\ \E n \in 0..(in_window - 1) : in_window' = n
  /\ UNCHANGED <<state, pid, run, kill_tx, cfg, failed, shutting, child, monitor, pc, mine,
                 seen, main, history>>

-----------------------------------------------------------------------------
(* API callers.                                                              *)

\* A caller goes on to spawn_process, whoever else owns the process.
LetIn == overlap' = (overlap \/ Owners # {}) /\ stop_asked' = FALSE

RequestStop == state' = "Stopping" /\ kill_tx' = 0

ApiStart(c) ==
  /\ pc[c] = "idle" /\ "start" \in Ops
  /\ state # "Running"
  /\ Goto(c, "spawn")
  /\ LetIn
  /\ UNCHANGED <<record, cfg, failed, shutting, child, monitor, mine, seen, main>>

ApiStop(c) ==
  /\ pc[c] = "idle" /\ "stop" \in Ops
  /\ state = "Running"
  /\ RequestStop
  /\ stop_asked' = TRUE
  /\ Goto(c, "done")
  /\ UNCHANGED <<pid, run, in_window, cfg, failed, shutting, child, monitor, mine, seen, main,
                 overlap>>

\* restart_process: stop a Running process and wait for it; spawn any other at
\* once.  (One that stops being Running between the two looks at it makes the
\* call an error, which changes nothing.)
ApiRestart(c) ==
  /\ pc[c] = "idle" /\ "restart" \in Ops
  /\ IF state = "Running"
     THEN /\ RequestStop /\ Goto(c, "wait_stopped")
          /\ UNCHANGED history
     ELSE /\ Goto(c, "spawn") /\ LetIn
          /\ UNCHANGED <<state, kill_tx>>
  /\ UNCHANGED <<pid, run, in_window, cfg, failed, shutting, child, monitor, mine, seen, main>>

\* wait_stopped returns: the stop has landed, or its time is up, which SIGKILL
\* and the two seconds of slack leave to a stop no monitor is carrying out.
RestartGoesOn(c) ==
  /\ pc[c] = "wait_stopped"
  /\ (state # "Stopping" /\ pid = 0) \/ ~KillInFlight
  /\ Goto(c, "spawn")
  /\ LetIn
  /\ UNCHANGED <<record, cfg, failed, shutting, child, monitor, mine, seen, main>>

-----------------------------------------------------------------------------
(* main's shutdown: the flag, stop_all, the end of the start order, stop_all *)
(* again, exit.                                                              *)

ShutdownBegins ==
  /\ main = "up"
  /\ shutting' = TRUE /\ main' = "stop"
  /\ UNCHANGED <<record, cfg, failed, child, monitor, pc, mine, seen, history>>

StopAll(from, to) ==
  /\ main = from
  /\ IF state = "Running" /\ kill_tx # 0 THEN RequestStop ELSE UNCHANGED <<state, kill_tx>>
  /\ main' = to
  /\ UNCHANGED <<pid, run, in_window, cfg, failed, shutting, child, monitor, pc, mine, seen,
                 history>>

\* Mutant: no deadline on a tier.
BugStopAllReturns(from, to) ==
  /\ main = from
  /\ state # "Stopping"
  /\ main' = to
  /\ UNCHANGED <<record, cfg, failed, shutting, child, monitor, pc, mine, seen, history>>

\* The tier is gone, or its deadline is past.
StopAllReturns(from, to) ==
  /\ main = from
  /\ state # "Stopping" \/ ~KillInFlight
  /\ main' = to
  /\ UNCHANGED <<record, cfg, failed, shutting, child, monitor, pc, mine, seen, history>>

\* Once the start order has ended, for a process it forked meanwhile.
StopAgain == pc[Boot] = "done" /\ StopAll("join", "wait2")

Shutdown ==
  \/ StopAll("stop", "wait") \/ StopAllReturns("wait", "join")
  \/ StopAgain \/ StopAllReturns("wait2", "exited")

-----------------------------------------------------------------------------

Spawn(t)   == SpawnCheck(t) \/ SpawnFork(t) \/ SpawnRecord(t) \/ SpawnArm(t)
Monitor(r) == MonitorSeesExit(r) \/ MonitorTakesKill(r) \/ MonitorStopped(r)
Handler(r) ==
  ExitRecorded(r) \/ ExitChecked(r) \/ ExitDecided(r) \/ CoolOffEnds(r) \/ RestartFailed(r)
Caller(c)  == ApiStart(c) \/ ApiStop(c) \/ ApiRestart(c) \/ RestartGoesOn(c)

\* Once stormd has exited, nothing of it runs.
Next ==
  /\ main # "exited"
  /\ \/ \E t \in Tasks : Spawn(t)
     \/ \E r \in Runs : ChildExits(r) \/ Monitor(r) \/ Handler(r)
     \/ \E c \in Callers : Caller(c)
     \/ WindowPasses
     \/ ShutdownBegins \/ Shutdown

Spec == Init /\ [][Next]_vars

\* The runtime goes on polling every task, timers fire, and a child that was
\* sent SIGKILL dies (a process that uses no ${NODE_*}, whose wait may last).
\* The failure poll runs every second.  Nobody has to make a request, end a
\* child or signal stormd.
Fairness ==
  /\ \A t \in Tasks : WF_vars(main # "exited" /\ Spawn(t))
  /\ \A r \in Runs : WF_vars(main # "exited" /\ Monitor(r))
  /\ \A r \in Runs : WF_vars(main # "exited" /\ Handler(r))
  /\ \A c \in Callers : WF_vars(main # "exited" /\ RestartGoesOn(c))
  /\ WF_vars(failed /\ ShutdownBegins)
  /\ WF_vars(main # "exited" /\ Shutdown)

FairSpec == Spec /\ Fairness

-----------------------------------------------------------------------------
(* Properties.                                                               *)

RecordTypes ==
  /\ cfg \in Configs
  /\ state \in States /\ pid \in RunId /\ run \in RunId /\ kill_tx \in RunId
  /\ in_window \in Nat

FlagTypes ==
  /\ failed \in BOOLEAN /\ shutting \in BOOLEAN
  /\ main \in {"up", "stop", "wait", "join", "wait2", "exited"}
  /\ overlap \in BOOLEAN /\ stop_asked \in BOOLEAN

RunTypes ==
  /\ child \in [Runs -> {"none", "up", "exited", "gone"} \cup Exits]
  /\ monitor \in [Runs -> {"none", "watch", "stopping", "done"}]
  /\ seen \in [Runs -> Nat]

TaskTypes == pc \in [Tasks -> Stages] /\ mine \in [Tasks -> RunId]

TypeOK == RecordTypes /\ FlagTypes /\ RunTypes /\ TaskTypes

(* What makes OneChild inductive.  Structure holds in every state; Ownership *)
(* adds that, until a start is let in too early, one task or one monitor at  *)
(* most is responsible for the process.                                      *)

Spawned(t) == pc[t] \in {"started", "arm"}

\* A run that a task is spawning is below the counter, has no monitor yet, and
\* is that task's alone.
SpawnersRun ==
  \A t \in Tasks : Spawned(t) => mine[t] \in Runs /\ mine[t] <= run /\ monitor[mine[t]] = "none"
SpawnersApart == \A t, u \in Tasks : Spawned(t) /\ Spawned(u) /\ mine[t] = mine[u] => t = u

\* A run has no exit handler before its monitor is done, and nothing before it
\* is forked.
HandlerAfterMonitor == \A r \in Runs : monitor[r] # "done" => pc[r] = "idle"
LaterRunsUntouched  == \A r \in Runs : r > run => child[r] = "none" /\ monitor[r] = "none"

\* A live child is watched or is being spawned.
LiveHasOwner == \A r \in Runs : Live(r) => Watched(r) \/ \E t \in Tasks : Spawned(t) /\ mine[t] = r

Structure ==
  SpawnersRun /\ SpawnersApart /\ HandlerAfterMonitor /\ LaterRunsUntouched /\ LiveHasOwner

Ownership ==
  \/ overlap
  \/ /\ \A t, u \in Tasks : Busy(t) /\ Busy(u) => t = u
     /\ \A r, s \in Runs : Watched(r) /\ Watched(s) => r = s
     /\ \A t \in Tasks, r \in Runs : ~(Busy(t) /\ Watched(r))

OwnerInv == TypeOK /\ Structure /\ Ownership

\* Automatic restarts, stops and shutdown never put two children of a process
\* side by side: only a start or a restart let in while the process had an
\* owner can (start_process refuses Running alone).
OneChild == overlap \/ \A r, s \in Runs : Live(r) /\ Live(s) => r = s

\* What the API shows and what a stop acts on are the run that is there: with
\* no task between two of its steps, the record has a pid exactly while that
\* run's monitor watches it, and Running means the stored handle reaches that
\* monitor.
StatusTruthful ==
  \/ overlap
  \/ \E t \in Tasks : Busy(t)
  \/ /\ \A r \in Runs : pid = r <=> Watched(r)
     /\ state = "Running" => pid # 0 /\ kill_tx = pid

\* A process shown waiting out a delay has an exit handler that will end it.
BackOffHasHandler ==
  \/ overlap
  \/ state \in {"Restarting", "CrashLoopBackOff"} =>
       \E r \in Runs : pc[r] \in {"cooloff", "spawn", "fork", "spawn_failed"}

\* on_exit and on_failure restart a process at most max_restarts times within
\* the window.
RestartBudget == overlap \/ cfg.policy # "None" \/ in_window <= cfg.max_restarts

\* A process that was left down starts again only because a caller asked.
DownStaysDown ==
  [][ \/ overlap
      \/ state \in {"Stopped", "Failed"} /\ state' \notin {"Stopped", "Failed"} =>
           \E c \in Callers : pc[c] = "fork" ]_vars

\* A shutdown and a container failure always end in stormd's exit.
ShutdownExits == shutting ~> main = "exited"
FailureExits  == failed ~> main = "exited"

\* A restart that was scheduled ends in a run or in a state that says why not.
RestartResolves ==
  state \in {"Restarting", "CrashLoopBackOff"} ~>
    \/ state \in {"Running", "Stopping", "Stopped", "Failed"}
    \/ main = "exited"

\* README.md:579: a restart waits for the old run to be gone before starting
\* the new one.
OldRunGoneFirst == \A r, s \in Runs : Live(r) /\ Live(s) => r = s

\* README.md:578: a requested stop is never restarted.
RequestedStopStays ==
  [][stop_asked => \A r \in Runs : pc[r] = "fork" => pc'[r] = "fork"]_vars

\* supervisor.rs:1466: stop_all waits for each tier, so the children are gone
\* before stormd is.
ChildrenGoneFirst == main = "exited" => \A r \in Runs : ~Live(r)
=============================================================================
