----------------------------- MODULE StartOrder -----------------------------
(***************************************************************************)
(* The start order (start_all and its dependency waits), the exit handlers *)
(* and readiness watches that wake it, stops by hand, and main's shutdown, *)
(* tier by tier, over several processes.                                   *)
(*                                                                         *)
(* Without API starts and restarts a process has one owner at a time (see  *)
(* Supervisor, OwnerInv), so its owner's place is kept per process.        *)
(***************************************************************************)
EXTENDS Integers, Sequences, FiniteSetsExt

CONSTANTS
  N,        (* number of processes, named in config order                    *)
  MaxRuns,  (* bound on the spawns of a process                              *)
  Layouts,  (* the configurations to consider                                *)
  Hands     (* the processes somebody may stop by hand                       *)

Procs == 1..N

\* deps: each process's depends_on; one_shot: on_exit = "stop"; probed: it has
\* a ready_probe or a startup_probe, which make a run ready once; restarted: its
\* policies may restart it.
LayoutType == [deps : [Procs -> Seq(Procs)], one_shot : SUBSET Procs,
               probed : SUBSET Procs, restarted : SUBSET Procs]

ASSUME StartOrderAssumption ==
  /\ N \in Nat \ {0} /\ MaxRuns \in Nat \ {0} /\ Layouts \subseteq LayoutType
  /\ Hands \subseteq Procs

VARIABLES
  layout,     \* the configuration, fixed
  state,      \* ManagedProcess.state
  ready,      \* ManagedProcess.ready
  code,       \* ManagedProcess.exit_code: none, zero, or another code or a signal
  handle,     \* whether ManagedProcess.kill_tx holds a handle
  runs,       \* ManagedProcess.run
  stage,      \* where the process's one owner is: a spawn, a monitor, a handler
  watch,      \* the readiness watch of its current run
  boot,       \* where start_all is
  at,         \* the process start_all has come to
  dep,        \* the dependency of it that is waited for
  woken,      \* the Notified registered by wait_for_dependencies has fired
  owed,       \* processes whose change is made and whose notify_waiters is not
  shutting,   \* shutting_down
  main,       \* where main's shutdown sequence is
  call,       \* which call of stop_all
  tier,       \* the tier it is stopping
  todo,       \* those of the tier it has not come to
  by_hand,    \* history: processes a stop was accepted for
  finished,   \* history: processes that ended by themselves with code 0
  proven,     \* history: processes a probe of which has passed
  missed      \* history: processes this stop_all passed and reached no monitor of

procVars == <<state, ready, code, handle, runs, stage, watch>>
bootVars == <<boot, at, dep, woken>>
mainVars == <<shutting, main, call, tier, todo, missed>>
history  == <<by_hand, finished, proven>>
vars == <<layout, procVars, bootVars, mainVars, owed, history>>

Deps(p)      == Range(layout.deps[p])
OneShot(p)   == p \in layout.one_shot
Probed(p)    == p \in layout.probed

-----------------------------------------------------------------------------
(* Shutdown tiers.                                                           *)

\* One more than the deepest dependency; the budget ends a cycle (of which stop_tiers,
\* which remembers the depths it has found, may make other tiers).
depth[budget \in 0..N] ==
  [p \in Procs |-> IF budget = 0 THEN 0 ELSE Max({0} \cup {1 + depth[budget - 1][d] : d \in Deps(p)})]

Depth(p) == depth[N][p]

\* Mutant: dependencies first.
BugTier(k) == {p \in Procs : Depth(p) = Max({Depth(q) : q \in Procs}) - k}

Tier(k) == {p \in Procs : Depth(p) = k}

Deepest == Max({Depth(p) : p \in Procs})

-----------------------------------------------------------------------------

Init ==
  /\ layout \in Layouts
  /\ state = [p \in Procs |-> "Pending"]
  /\ ready = [p \in Procs |-> ~Probed(p)]
  /\ code = [p \in Procs |-> "none"]
  /\ handle = [p \in Procs |-> FALSE]
  /\ runs = [p \in Procs |-> 0]
  /\ stage = [p \in Procs |-> "none"]
  /\ watch = [p \in Procs |-> "none"]
  /\ boot = "deps" /\ at = 1 /\ dep = 1 /\ woken = FALSE
  /\ owed = {}
  /\ shutting = FALSE /\ main = "up" /\ call = 1 /\ tier = 0 /\ todo = {}
  /\ by_hand = {} /\ finished = {} /\ proven = {} /\ missed = {}

\* Mutant: forked is enough, as before readiness was watched.
BugUnready(p) ==
  \/ OneShot(p) /\ state[p] = "Stopped" /\ code[p] = "zero"
  \/ (OneShot(p) => Probed(p)) /\ state[p] = "Running"

\* dependency_satisfied
Satisfied(p) ==
  \/ OneShot(p) /\ state[p] = "Stopped" /\ code[p] = "zero"
  \/ (OneShot(p) => Probed(p)) /\ state[p] = "Running" /\ ready[p]

-----------------------------------------------------------------------------
(* start_all: each process in turn waits for its dependencies, one after the *)
(* other, then for its files and node values, and is spawned.                *)

\* Mutant: a dependency wait does not give up when shutdown begins.
BugDepLoop ==
  /\ boot = "deps"
  /\ IF dep > Len(layout.deps[at])
     THEN boot' = "files" /\ UNCHANGED woken
     ELSE boot' = "listen" /\ woken' = FALSE
  /\ UNCHANGED <<layout, procVars, at, dep, mainVars, owed, history>>

\* The top of the loop: give up, or register for the next change.
DepLoop ==
  /\ boot = "deps"
  /\ IF shutting \/ dep > Len(layout.deps[at])
     THEN boot' = "files" /\ UNCHANGED woken
     ELSE boot' = "listen" /\ woken' = FALSE
  /\ UNCHANGED <<layout, procVars, at, dep, mainVars, owed, history>>

DepCheck ==
  /\ boot = "listen"
  /\ IF Satisfied(layout.deps[at][dep])
     THEN boot' = "deps" /\ dep' = dep + 1
     ELSE boot' = "held" /\ UNCHANGED dep
  /\ UNCHANGED <<layout, procVars, at, woken, mainVars, owed, history>>

\* The records are unlocked; then the wait begins.
DepWait ==
  /\ boot = "held"
  /\ boot' = "wait"
  /\ UNCHANGED <<layout, procVars, at, dep, woken, mainVars, owed, history>>

\* A change, or the one-second poll.
DepWake ==
  /\ boot = "wait"
  /\ boot' = "deps"
  /\ UNCHANGED <<layout, procVars, at, dep, woken, mainVars, owed, history>>

\* The other waits, for files, node values, goldens and startup_delay_secs, end
\* when what they wait for comes, or with shutdown.
FilesReady ==
  /\ boot = "files"
  /\ boot' = "check"
  /\ UNCHANGED <<layout, procVars, at, dep, woken, mainVars, owed, history>>

BootCheck ==
  /\ boot = "check"
  /\ IF shutting
     THEN boot' = "done" /\ UNCHANGED stage
     ELSE boot' = "spawn" /\ stage' = [stage EXCEPT ![at] = "check"]
  /\ UNCHANGED <<layout, state, ready, code, handle, runs, watch, at, dep, woken, mainVars, owed,
                 history>>

\* Mutant: registered only once it waits, after the check.
BugListening == boot = "wait"

Listening == boot \in {"listen", "held", "wait"}

\* notify_waiters, after the change it tells of.
Notify(p) ==
  /\ p \in owed
  /\ owed' = owed \ {p}
  /\ woken' = (woken \/ Listening)
  /\ UNCHANGED <<layout, procVars, boot, at, dep, mainVars, history>>

-----------------------------------------------------------------------------
(* spawn_process, by start_all or by an exit handler.                        *)

ByBoot(p) == boot = "spawn" /\ at = p
Goto(p, s) == stage' = [stage EXCEPT ![p] = s]

\* The spawn was refused or failed: start_all gives the rest up too, and the
\* record stays as it is; a handler marks the process, and notifies.
SpawnFailed(p, s) ==
  /\ Goto(p, "none")
  /\ IF ByBoot(p)
     THEN state' = [state EXCEPT ![p] = s] /\ boot' = "done" /\ UNCHANGED owed
     ELSE state' = [state EXCEPT ![p] = "Failed"] /\ owed' = owed \cup {p} /\ UNCHANGED boot

SpawnCheck(p) ==
  /\ stage[p] = "check"
  /\ IF shutting THEN SpawnFailed(p, state[p])
                 ELSE Goto(p, "fork") /\ UNCHANGED <<state, boot, owed>>
  /\ UNCHANGED <<layout, ready, code, handle, runs, watch, at, dep, woken, mainVars, history>>

SpawnFork(p) ==
  /\ stage[p] = "fork"
  /\ ready' = [ready EXCEPT ![p] = ~Probed(p)]
  /\ runs' = [runs EXCEPT ![p] = runs[p] + 1]
  /\ watch' = [watch EXCEPT ![p] = "none"]
  /\ \/ state' = [state EXCEPT ![p] = "Starting"] /\ Goto(p, "forked") /\ UNCHANGED <<boot, owed>>
     \/ SpawnFailed(p, "Starting")
  /\ UNCHANGED <<layout, code, handle, at, dep, woken, mainVars, history>>

SpawnRecord(p) ==
  /\ stage[p] = "forked"
  /\ state' = [state EXCEPT ![p] = "Running"]
  /\ code' = [code EXCEPT ![p] = "none"]
  /\ Goto(p, "recorded")
  /\ owed' = owed \cup {p}
  /\ UNCHANGED <<layout, ready, handle, runs, watch, bootVars, mainVars, history>>

\* The kill handle, the readiness watch and the monitor; then start_all goes on
\* to the next process, or handle_exit returns.
SpawnArm(p) ==
  /\ stage[p] = "recorded"
  /\ handle' = [handle EXCEPT ![p] = TRUE]
  /\ watch' = [watch EXCEPT ![p] = IF Probed(p) THEN "probing" ELSE "none"]
  /\ Goto(p, "watched")
  /\ IF ByBoot(p)
     THEN /\ IF p = N THEN boot' = "done" /\ UNCHANGED at ELSE boot' = "deps" /\ at' = p + 1
          /\ dep' = 1
          /\ UNCHANGED owed
     ELSE owed' = owed \cup {p} /\ UNCHANGED <<boot, at, dep>>
  /\ UNCHANGED <<layout, state, ready, code, runs, woken, mainVars, history>>

-----------------------------------------------------------------------------
(* The readiness watch of a run: the probe passes, then the record is        *)
(* written.  The end of the run aborts it, unless it is between the two.     *)

ReadyPasses(p) ==
  /\ watch[p] = "probing" /\ stage[p] = "watched"
  /\ watch' = [watch EXCEPT ![p] = "passed"]
  /\ proven' = proven \cup {p}
  /\ UNCHANGED <<layout, state, ready, code, handle, runs, stage, bootVars, mainVars, owed,
                 by_hand, finished>>

ReadyRecorded(p) ==
  /\ watch[p] = "passed"
  /\ watch' = [watch EXCEPT ![p] = "none"]
  /\ ready' = [ready EXCEPT ![p] = TRUE]
  /\ owed' = owed \cup {p}
  /\ UNCHANGED <<layout, state, code, handle, runs, stage, bootVars, mainVars, history>>

WatchEnds(p) == watch' = [watch EXCEPT ![p] = IF @ = "probing" THEN "none" ELSE @]

-----------------------------------------------------------------------------
(* The end of a run: its monitor, and handle_exit.                           *)

\* Of child.wait() and kill_rx, the exit came first.
ChildExits(p) ==
  /\ stage[p] = "watched"
  /\ Goto(p, "exited")
  /\ WatchEnds(p)
  /\ UNCHANGED <<layout, state, ready, code, handle, runs, bootVars, mainVars, owed, history>>

ExitRecorded(p) ==
  /\ stage[p] = "exited"
  /\ \E c \in {"zero", "other"} :
       /\ code' = [code EXCEPT ![p] = c]
       /\ finished' = IF c = "zero" THEN finished \cup {p} ELSE finished
  /\ ready' = [ready EXCEPT ![p] = FALSE]
  /\ Goto(p, "unlocked")
  /\ UNCHANGED <<layout, state, handle, runs, watch, bootVars, mainVars, owed, by_hand, proven>>

\* Left down; run_exit_handler notifies once handle_exit has returned.
LeaveDown(p, s) ==
  state' = [state EXCEPT ![p] = s] /\ Goto(p, "none") /\ owed' = owed \cup {p}

ExitChecked(p) ==
  /\ stage[p] = "unlocked"
  /\ IF shutting THEN LeaveDown(p, "Stopped") ELSE Goto(p, "archive") /\ UNCHANGED <<state, owed>>
  /\ UNCHANGED <<layout, ready, code, handle, runs, watch, bootVars, mainVars, history>>

Outcomes(p) ==
  {"Stopped"} \cup (IF code[p] = "zero" THEN {} ELSE {"Failed"})
              \cup (IF p \in layout.restarted THEN {"Restarting"} ELSE {})

\* After archive_run.  The policies are Supervisor's; here, any of their outcomes.
ExitDecided(p) ==
  /\ stage[p] = "archive"
  /\ \/ \E s \in Outcomes(p) \ {"Restarting"} : LeaveDown(p, s)
     \/ /\ "Restarting" \in Outcomes(p) /\ runs[p] < MaxRuns
        /\ state' = [state EXCEPT ![p] = "Restarting"] /\ Goto(p, "cooloff")
        /\ UNCHANGED owed
  /\ UNCHANGED <<layout, ready, code, handle, runs, watch, bootVars, mainVars, history>>

CoolOffEnds(p) ==
  /\ stage[p] = "cooloff"
  /\ IF shutting THEN LeaveDown(p, "Stopped") ELSE Goto(p, "check") /\ UNCHANGED <<state, owed>>
  /\ UNCHANGED <<layout, ready, code, handle, runs, watch, bootVars, mainVars, history>>

KillInFlight(p) == stage[p] = "watched" /\ ~handle[p]

KillTaken(p) ==
  /\ KillInFlight(p)
  /\ Goto(p, "stopping")
  /\ UNCHANGED <<layout, state, ready, code, handle, runs, watch, bootVars, mainVars, owed,
                 history>>

\* The run stopped by request has ended; nothing is notified.
MonitorStopped(p) ==
  /\ stage[p] = "stopping"
  /\ state' = [state EXCEPT ![p] = "Stopped"]
  /\ \E c \in {"zero", "other"} : code' = [code EXCEPT ![p] = c]
  /\ ready' = [ready EXCEPT ![p] = FALSE]
  /\ Goto(p, "none")
  /\ WatchEnds(p)
  /\ UNCHANGED <<layout, handle, runs, bootVars, mainVars, owed, history>>

StopByHand(p) ==
  /\ p \in Hands /\ state[p] = "Running"
  /\ state' = [state EXCEPT ![p] = "Stopping"]
  /\ handle' = [handle EXCEPT ![p] = FALSE]
  /\ by_hand' = by_hand \cup {p}
  /\ UNCHANGED <<layout, ready, code, runs, stage, watch, bootVars, mainVars, owed, finished,
                 proven>>

-----------------------------------------------------------------------------
(* main: the flag; stop_all; the end of the start order; stop_all; exit.     *)

StopAll(n) ==
  main' = "signal" /\ call' = n /\ tier' = Deepest /\ todo' = Tier(Deepest) /\ missed' = {}

ShutdownBegins ==
  /\ main = "up"
  /\ shutting' = TRUE
  /\ StopAll(1)
  /\ UNCHANGED <<layout, procVars, bootVars, owed, history>>

\* The handle reaches a monitor, or one is stopping the run already.
Reached(p) ==
  \/ stage[p] \in {"none", "stopping"}
  \/ stage[p] = "watched" /\ (state[p] = "Running" \/ ~handle[p])

StopSignal(p) ==
  /\ main = "signal" /\ p \in todo
  /\ todo' = todo \ {p}
  /\ IF state[p] = "Running" /\ handle[p]
     THEN state' = [state EXCEPT ![p] = "Stopping"] /\ handle' = [handle EXCEPT ![p] = FALSE]
     ELSE UNCHANGED <<state, handle>>
  /\ missed' = IF Reached(p) THEN missed ELSE missed \cup {p}
  /\ UNCHANGED <<layout, ready, code, runs, stage, watch, bootVars, shutting, main, call, tier,
                 owed, history>>

TierSignalled ==
  /\ main = "signal" /\ todo = {}
  /\ main' = "wait"
  /\ UNCHANGED <<layout, procVars, bootVars, shutting, call, tier, todo, missed, owed, history>>

NextTier ==
  IF tier > 0
  THEN main' = "signal" /\ tier' = tier - 1 /\ todo' = Tier(tier - 1)
  ELSE main' = (IF call = 1 THEN "join" ELSE "exited") /\ UNCHANGED <<tier, todo>>

\* Mutant: the next tier is signalled at once.
BugTierGone ==
  /\ main = "wait"
  /\ NextTier
  /\ UNCHANGED <<layout, procVars, bootVars, shutting, call, missed, owed, history>>

\* None of the tier is Stopping, or the deadline is past, which SIGKILL and the
\* two seconds of slack leave to a stop no monitor is carrying out.
TierGone ==
  /\ main = "wait"
  /\ \/ \A p \in Tier(tier) : state[p] # "Stopping"
     \/ \A p \in Tier(tier) : ~KillInFlight(p) /\ stage[p] # "stopping"
  /\ NextTier
  /\ UNCHANGED <<layout, procVars, bootVars, shutting, call, missed, owed, history>>

\* Mutant: the start order is not waited for.
BugStartOrderEnded ==
  /\ main = "join"
  /\ StopAll(2)
  /\ UNCHANGED <<layout, procVars, bootVars, shutting, owed, history>>

StartOrderEnded ==
  /\ main = "join" /\ boot = "done"
  /\ StopAll(2)
  /\ UNCHANGED <<layout, procVars, bootVars, shutting, owed, history>>

-----------------------------------------------------------------------------

Boot       == DepLoop \/ DepCheck \/ DepWait \/ BootCheck
Spawn(p)   == SpawnCheck(p) \/ SpawnFork(p) \/ SpawnRecord(p) \/ SpawnArm(p)
Ready(p)   == ReadyPasses(p) \/ ReadyRecorded(p)
Handler(p) == ExitRecorded(p) \/ ExitChecked(p) \/ ExitDecided(p) \/ CoolOffEnds(p)
Monitor(p) == KillTaken(p) \/ MonitorStopped(p)
Main       == (\E p \in Procs : StopSignal(p)) \/ TierSignalled \/ TierGone \/ StartOrderEnded

Next ==
  /\ main # "exited"
  /\ \/ Boot \/ DepWake \/ FilesReady
     \/ \E p \in Procs : \/ Spawn(p) \/ Ready(p) \/ Handler(p) \/ Monitor(p) \/ Notify(p)
                         \/ ChildExits(p) \/ StopByHand(p)
     \/ ShutdownBegins \/ Main

Spec == Init /\ [][Next]_vars

\* Tasks run on, timers fire (the one-second poll among them), a child sent
\* SIGKILL dies.  What FilesReady waits for may never come, but shutdown ends
\* that wait.
Fairness ==
  /\ WF_vars(main # "exited" /\ Boot)
  /\ WF_vars(main # "exited" /\ DepWake)
  /\ WF_vars(main # "exited" /\ shutting /\ FilesReady)
  /\ \A p \in Procs : /\ WF_vars(main # "exited" /\ Spawn(p))
                      /\ WF_vars(main # "exited" /\ Monitor(p))
  /\ WF_vars(Main)

FairSpec == Spec /\ Fairness

-----------------------------------------------------------------------------
(* Properties.                                                               *)

\* Each record and each task's place is of its type.  (tier is left out: that
\* it is a number is part of the invariant of shutdown.)
RecordTypes ==
  /\ layout \in Layouts
  /\ state \in [Procs -> {"Pending", "Starting", "Running", "Stopping", "Stopped", "Failed",
                          "Restarting"}]
  /\ ready \in [Procs -> BOOLEAN] /\ handle \in [Procs -> BOOLEAN]
  /\ code \in [Procs -> {"none", "zero", "other"}]
  /\ runs \in [Procs -> Nat]
  /\ stage \in [Procs -> {"none", "check", "fork", "forked", "recorded", "watched", "stopping",
                          "exited", "unlocked", "archive", "cooloff"}]
  /\ watch \in [Procs -> {"none", "probing", "passed"}]

TaskTypes ==
  /\ boot \in {"deps", "listen", "held", "wait", "files", "check", "spawn", "done"}
  /\ at \in Procs /\ dep \in Nat \ {0} /\ woken \in BOOLEAN
  /\ owed \subseteq Procs /\ shutting \in BOOLEAN
  /\ main \in {"up", "signal", "wait", "join", "exited"} /\ call \in 1..2
  /\ todo \subseteq Procs
  /\ by_hand \subseteq Procs /\ finished \subseteq Procs /\ proven \subseteq Procs
  /\ missed \subseteq Procs

\* The type invariant.
TypeOK == RecordTypes /\ TaskTypes

\* A satisfied dependency never leaves the start order asleep until its poll: a
\* wait that was not woken has a dependency still unsatisfied, or one whose
\* change is about to be notified.  (A stop by hand notifies nobody, nor does a
\* shutdown, which the poll sees.)
NoLostWakeup ==
  boot = "wait" /\ ~woken /\ ~shutting =>
    LET d == layout.deps[at][dep] IN Satisfied(d) => d \in owed \cup by_hand

\* What a dependency has done before a process that waited for it is forked: a
\* one-shot ended by itself with code 0, a service passed its readiness probe,
\* one without a probe was at least forked.
Met(d) ==
  IF OneShot(d) THEN d \in finished \cup by_hand \/ (Probed(d) /\ d \in proven)
                ELSE runs[d] > 0 /\ (Probed(d) => d \in proven)
AllMet(p) == \A d \in Deps(p) : Met(d)

\* No process is forked for the first time before all it depends on has been
\* met, whatever exits, restarts, stops and shutdown come between two waits.
DependenciesMet == \A p \in Procs : runs[p] > 0 => AllMet(p)

(* What makes DependenciesMet inductive.                                     *)

\* Where the start order is.  Once shutdown has begun, stop_all can have ended
\* a one-shot with code 0; the start order then ends before it spawns.
BootProgress ==
  /\ boot \in {"deps", "listen", "held", "wait"} =>
       shutting \/ \A i \in 1..Len(layout.deps[at]) : i < dep => Met(layout.deps[at][i])
  /\ boot \in {"listen", "held", "wait"} => dep <= Len(layout.deps[at])
  /\ boot \in {"files", "check"} => shutting \/ AllMet(at)
  /\ boot = "spawn" => AllMet(at)

\* What a record says was earned by a run, and only start_all spawns a process
\* that had none.
Earned(p) ==
  /\ state[p] # "Pending" => runs[p] > 0
  /\ stage[p] \in {"recorded", "watched", "exited"} => state[p] \in {"Running", "Stopping"}
  /\ stage[p] # "none" => runs[p] > 0 \/ (stage[p] \in {"check", "fork"} /\ ByBoot(p))
  /\ watch[p] = "passed" => p \in proven
  /\ Probed(p) /\ ready[p] => p \in proven
  /\ code[p] = "zero" => shutting \/ p \in finished \cup by_hand
RecordEarned == \A p \in Procs : Earned(p)

\* A kill handle is taken only by a stop by hand or by stop_all.
StopAsked ==
  /\ main # "up" => shutting
  /\ \A p \in Procs :
       stage[p] = "stopping" \/ KillInFlight(p) => shutting \/ p \in by_hand

\* NoLostWakeup, from the release of the records on.
ChangeOwed ==
  boot \in {"held", "wait"} /\ ~woken /\ ~shutting =>
    LET d == layout.deps[at][dep] IN Satisfied(d) => d \in owed \cup by_hand

\* The inductive invariant: the promise of depends_on and of notify_waiters, and
\* what they rest on.
OrderInv ==
  TypeOK /\ DependenciesMet /\ BootProgress /\ RecordEarned /\ StopAsked /\ ChangeOwed

Alive(p) == stage[p] \in {"forked", "recorded", "watched", "stopping"}

\* A process is signalled by a shutdown only when no process that depends on it
\* is alive, but for one that this stop_all did not reach: being forked, or its
\* handle not stored yet, when its own tier was signalled.
DependentsGoneFirst ==
  [][\A p, q \in Procs : StopSignal(p) /\ p \in Deps(q) /\ Alive(q) => q \in missed]_vars

\* stormd ends with no child but one that its last stop_all did not reach, and that is a
\* respawn, or one whose stop by hand was lost: whatever the start order was at when the
\* shutdown began is waited for and stopped.
NoneLeftBehind ==
  main = "exited" =>
    \A p \in Procs : Alive(p) => p \in missed /\ (runs[p] > 1 \/ p \in by_hand)

\* A shutdown ends, wherever the start order is parked.
ShutdownExits == shutting ~> main = "exited"

\* README.md:566: a one-shot that was stopped by hand never satisfies.
HandStopNeverSatisfies ==
  [][\A d \in by_hand \ finished :
       OneShot(d) => ~(boot = "listen" /\ layout.deps[at][dep] = d /\ dep' = dep + 1)]_vars
=============================================================================
