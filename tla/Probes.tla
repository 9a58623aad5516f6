------------------------------- MODULE Probes -------------------------------
(***************************************************************************)
(* The probes of one process: every run has its own tasks, aborted with    *)
(* it; they mark the process ready, and end a run that fails.  A run       *)
(* begins here once the last one is over: starts that overlap, and what    *)
(* they do to the record, are Supervisor's.                                *)
(***************************************************************************)
EXTENDS Naturals

CONSTANTS
  Configs,           (* the sets of checks a process may have              *)
  FailureThreshold,  (* failures in a row that a probe acts on             *)
  SuccessThreshold,  (* passes in a row that make a process ready          *)
  StallLimit,        (* restart_after_stalled_secs, in ticks               *)
  MaxRuns,           (* bound on the runs                                  *)
  MaxTurns           (* bound on how often the process sickens or recovers *)

Kinds == {"startup", "liveness", "readiness", "ready_probe", "api"}

ASSUME ProbesAssumption ==
  /\ Configs \subseteq SUBSET Kinds /\ Configs # {}
  /\ FailureThreshold \in Nat \ {0} /\ SuccessThreshold \in Nat \ {0}
  /\ StallLimit \in Nat \ {0} /\ MaxRuns \in Nat \ {0} /\ MaxTurns \in Nat

Runs == 1..MaxRuns
NoRun == 0

VARIABLES
  checks,   \* what the process's config has
  state, pid, run, ready,                    \* the record; a pid is named by its run
  startup_passed_run, liveness_passed_run,
  stop,     \* the runs whose kill handle has been used
  alive,    \* the runs whose child is up
  well,     \* whether it would answer a probe
  turns,
  monitor,  \* each run's monitor: none, watching, ending, over
  exit,     \* each run's exit: none, sent, seen by the exit handler
  pc,       \* each task of each run: asleep, probing, passed, failed, refused, term, grace,
            \* over, and gated until the startup probe has passed
  counter,  \* its Counter, no further than the thresholds
  api,      \* ApiHealth of the one API, for how long it has been stalled, and the run there
            \* was when it was last recorded
  good      \* history: the probes that the run's own child has passed

record  == <<state, pid, run, ready, startup_passed_run, liveness_passed_run>>
child   == <<stop, alive, well, turns>>
tasks   == <<pc, counter>>
vars == <<checks, record, child, monitor, exit, tasks, api, good>>

Has(k) == k \in checks
StartsUnready == \E k \in {"startup", "readiness", "ready_probe"} : Has(k)
Down == {"Stopped", "Failed", "Restarting"}

\* The tasks spawn_process gives a run: with a readiness_probe, ready_probe has none.
Begun == [k \in Kinds |->
            IF ~Has(k) \/ (k = "ready_probe" /\ Has("readiness")) THEN "over"
            ELSE IF k \in {"liveness", "readiness"} /\ Has("startup") THEN "gated"
            ELSE "asleep"]
NoTasks == [k \in Kinds |-> "over"]
Fresh == [k \in Kinds |-> [successes |-> 0, failures |-> 0]]

Init ==
  /\ checks \in Configs
  /\ state = "Stopped" /\ pid = NoRun /\ run = 0 /\ ready = FALSE
  /\ startup_passed_run = NoRun /\ liveness_passed_run = NoRun
  /\ stop = {} /\ alive = {} /\ well \in BOOLEAN /\ turns = 0
  /\ monitor = [r \in Runs |-> "none"] /\ exit = [r \in Runs |-> "none"]
  /\ pc = [r \in Runs |-> NoTasks] /\ counter = [r \in Runs |-> Fresh]
  /\ api = [state |-> "unknown", held |-> 0, checked |-> NoRun]
  /\ good = {}

-----------------------------------------------------------------------------
(* A run, as far as the probes tell it: spawn_process, the monitor, the exit *)
(* handler, a stop.                                                          *)

SpawnFork ==
  /\ state \in Down /\ run < MaxRuns
  /\ run' = run + 1 /\ state' = "Starting" /\ ready' = ~StartsUnready
  /\ alive' = alive \cup {run + 1} /\ good' = {}
  /\ UNCHANGED <<checks, pid, startup_passed_run, liveness_passed_run, stop, well, turns, monitor,
                 exit, tasks, api>>

SpawnRunning ==
  /\ state = "Starting"
  /\ state' = "Running" /\ pid' = run
  /\ monitor' = [monitor EXCEPT ![run] = "watching"]
  /\ pc' = [pc EXCEPT ![run] = Begun]
  /\ UNCHANGED <<checks, run, ready, startup_passed_run, liveness_passed_run, child, exit, counter,
                 api, good>>

\* The process sickens, or is well again.
Turn ==
  /\ turns < MaxTurns /\ turns' = turns + 1 /\ well' = ~well
  /\ UNCHANGED <<checks, record, stop, alive, monitor, exit, tasks, api, good>>

ChildEnds ==
  /\ \E r \in alive : alive' = alive \ {r}
  /\ UNCHANGED <<checks, record, stop, well, turns, monitor, exit, tasks, api, good>>

StopRequested ==
  /\ state = "Running"
  /\ state' = "Stopping"
  /\ stop' = IF monitor[run] = "watching" THEN stop \cup {run} ELSE stop
  /\ UNCHANGED <<checks, pid, run, ready, startup_passed_run, liveness_passed_run, alive, well, turns,
                 monitor, exit, tasks, api, good>>

\* child.wait() returns, and the exit goes to the exit handler.
MonitorReports(r) ==
  /\ monitor[r] = "watching" /\ r \notin alive
  /\ monitor' = [monitor EXCEPT ![r] = "ending"] /\ exit' = [exit EXCEPT ![r] = "sent"]
  /\ UNCHANGED <<checks, record, child, tasks, api, good>>

\* stop_child ends the child, and the monitor writes the record.
MonitorStopped(r) ==
  /\ monitor[r] = "watching" /\ r \in stop
  /\ monitor' = [monitor EXCEPT ![r] = "ending"]
  /\ alive' = alive \ {r} /\ state' = "Stopped" /\ pid' = NoRun /\ ready' = FALSE
  /\ UNCHANGED <<checks, run, startup_passed_run, liveness_passed_run, stop, well, turns, exit, tasks,
                 api, good>>

\* The monitor ends, and the run's tasks are aborted.
MonitorEnds(r) ==
  /\ monitor[r] = "ending"
  /\ monitor' = [monitor EXCEPT ![r] = "over"]
  /\ pc' = [pc EXCEPT ![r] = NoTasks] /\ counter' = [counter EXCEPT ![r] = Fresh]
  /\ UNCHANGED <<checks, record, child, exit, api, good>>

\* handle_exit clears the record, and then the policy says what becomes of the
\* process.
ExitSeen(r) ==
  /\ exit[r] = "sent" /\ exit' = [exit EXCEPT ![r] = "seen"]
  /\ pid' = NoRun /\ ready' = FALSE
  /\ UNCHANGED <<checks, state, run, startup_passed_run, liveness_passed_run, child, monitor, tasks,
                 api, good>>

ExitDecided(r) ==
  /\ exit[r] = "seen" /\ exit' = [exit EXCEPT ![r] = "none"]
  /\ state' \in Down
  /\ UNCHANGED <<checks, pid, run, ready, startup_passed_run, liveness_passed_run, child, monitor,
                 tasks, api, good>>

-----------------------------------------------------------------------------
(* The tasks of a run: sleep, look whether the run is still the one, probe,  *)
(* and record what the probe got.                                            *)

Current(r) == run = r /\ state = "Running"
Go(r, k, s) == pc' = [pc EXCEPT ![r][k] = s]

\* watch_ready goes on while its process is being stopped, and restarted.
Look(r, k) ==
  /\ pc[r][k] = "asleep"
  /\ Go(r, k, IF Current(r) \/ (k = "ready_probe" /\ run = r /\ state \notin {"Stopped", "Failed"})
              THEN "probing" ELSE "over")
  /\ UNCHANGED <<checks, record, child, monitor, exit, counter, api, good>>

\* Whoever has the port answers, or nobody.
Answer(r, k) ==
  /\ pc[r][k] = "probing"
  /\ \/ \E c \in alive :
          /\ well /\ Go(r, k, "passed")
          /\ good' = IF c = run THEN good \cup {k} ELSE good
     \/ alive # {} /\ ~well /\ Go(r, k, "failed") /\ UNCHANGED good
     \/ alive = {} /\ Go(r, k, "refused") /\ UNCHANGED good
  /\ UNCHANGED <<checks, record, child, monitor, exit, counter, api>>

Answered(r, k) == pc[r][k] \in {"passed", "failed", "refused"}
Passed(r, k) == pc[r][k] = "passed"

\* Counter::record.
Least(a, b) == IF a < b THEN a ELSE b
Recorded(r, k) ==
  IF Passed(r, k)
  THEN [successes |-> Least(counter[r][k].successes + 1, SuccessThreshold), failures |-> 0]
  ELSE [successes |-> 0, failures |-> Least(counter[r][k].failures + 1, FailureThreshold)]
Count(r, k) == counter' = [counter EXCEPT ![r][k] = Recorded(r, k)]
FailedEnough(r, k) == Recorded(r, k).failures = FailureThreshold
PassedEnough(r, k) == Recorded(r, k).successes = SuccessThreshold

\* The pass is noted, and the probes that waited for it go on waiting.
BugStartupPassed(r) ==
  /\ Passed(r, "startup")
  /\ Go(r, "startup", "over")
  /\ \/ run = r /\ startup_passed_run' = r /\ ready' = (ready \/ ~Has("readiness"))
     \/ run # r /\ UNCHANGED <<startup_passed_run, ready>>
  /\ UNCHANGED <<checks, state, pid, run, liveness_passed_run, child, monitor, exit, counter, api,
                 good>>

\* The startup probe's one pass lets the other two begin.
StartupPassed(r) ==
  /\ Passed(r, "startup")
  /\ \/ /\ run = r
        /\ startup_passed_run' = r
        /\ ready' = (ready \/ (~Has("readiness") /\ ~Has("ready_probe")))
        /\ pc' = [pc EXCEPT ![r] = [k \in Kinds |-> IF k = "startup" THEN "over"
                                                    ELSE IF @[k] = "gated" THEN "asleep" ELSE @[k]]]
     \/ /\ run # r
        /\ pc' = [pc EXCEPT ![r] = [k \in Kinds |-> IF k = "startup" \/ @[k] = "gated" THEN "over"
                                                    ELSE @[k]]]
        /\ UNCHANGED <<startup_passed_run, ready>>
  /\ UNCHANGED <<checks, state, pid, run, liveness_passed_run, child, monitor, exit, counter, api,
                 good>>

StartupFailed(r) ==
  /\ Answered(r, "startup") /\ ~Passed(r, "startup")
  /\ Count(r, "startup") /\ Go(r, "startup", IF FailedEnough(r, "startup") THEN "term" ELSE "asleep")
  /\ UNCHANGED <<checks, record, child, monitor, exit, api, good>>

\* A pass is the current run's, whichever run was probed.
BugLivenessRecorded(r) ==
  /\ Answered(r, "liveness") /\ Count(r, "liveness")
  /\ liveness_passed_run' = IF Passed(r, "liveness") THEN run ELSE liveness_passed_run
  /\ Go(r, "liveness", IF FailedEnough(r, "liveness") THEN "term" ELSE "asleep")
  /\ UNCHANGED <<checks, state, pid, run, ready, startup_passed_run, child, monitor, exit, api,
                 good>>

\* A task that finds another run in the record has outlived its own.
LivenessRecorded(r) ==
  /\ Answered(r, "liveness")
  /\ \/ run # r /\ Go(r, "liveness", "over") /\ UNCHANGED <<counter, liveness_passed_run>>
     \/ /\ run = r /\ Count(r, "liveness")
        /\ liveness_passed_run' = IF Passed(r, "liveness") THEN r ELSE liveness_passed_run
        /\ Go(r, "liveness", IF FailedEnough(r, "liveness") THEN "term" ELSE "asleep")
  /\ UNCHANGED <<checks, state, pid, run, ready, startup_passed_run, child, monitor, exit, api,
                 good>>

ReadinessRecorded(r) ==
  /\ Answered(r, "readiness")
  /\ Count(r, "readiness")
  /\ IF PassedEnough(r, "readiness") \/ FailedEnough(r, "readiness")
     THEN \/ run = r /\ ready' = Passed(r, "readiness") /\ Go(r, "readiness", "asleep")
          \/ run # r /\ Go(r, "readiness", "over") /\ UNCHANGED ready
     ELSE Go(r, "readiness", "asleep") /\ UNCHANGED ready
  /\ UNCHANGED <<checks, state, pid, run, startup_passed_run, liveness_passed_run, child, monitor,
                 exit, api, good>>

\* The record is marked whichever run it has come to.
BugReadyRecorded(r) ==
  /\ Answered(r, "ready_probe")
  /\ ready' = (ready \/ Passed(r, "ready_probe"))
  /\ Go(r, "ready_probe", IF Passed(r, "ready_probe") THEN "over" ELSE "asleep")
  /\ UNCHANGED <<checks, state, pid, run, startup_passed_run, liveness_passed_run, child, monitor,
                 exit, counter, api, good>>

ReadyRecorded(r) ==
  /\ Answered(r, "ready_probe")
  /\ ready' = (ready \/ (Passed(r, "ready_probe") /\ run = r))
  /\ Go(r, "ready_probe", IF Passed(r, "ready_probe") THEN "over" ELSE "asleep")
  /\ UNCHANGED <<checks, state, pid, run, startup_passed_run, liveness_passed_run, child, monitor,
                 exit, counter, api, good>>

\* ApiHealthStore::record, which knows of no run: the state has been held since
\* it was first seen.
ApiSeen(r) == IF Passed(r, "api") THEN "healthy"
              ELSE IF pc[r]["api"] = "failed" THEN "stalled" ELSE "down"

ApiRecorded(r) ==
  /\ Answered(r, "api")
  /\ api' = [state |-> ApiSeen(r), checked |-> run,
             held |-> IF ApiSeen(r) = api.state THEN api.held ELSE 0]
  /\ Go(r, "api", IF api'.state = "stalled" /\ api'.held >= StallLimit THEN "term" ELSE "asleep")
  /\ UNCHANGED <<checks, record, child, monitor, exit, counter, good>>

Tick ==
  /\ api.state = "stalled"
  /\ api' = [api EXCEPT !.held = Least(@ + 1, StallLimit)]
  /\ UNCHANGED <<checks, record, child, monitor, exit, tasks, good>>

\* stop_run: SIGTERM, the grace, and SIGKILL if the run is still there.
Signalled(r) == run = r /\ pid = r

Term(r, k) ==
  /\ pc[r][k] = "term"
  /\ Go(r, k, IF Signalled(r) THEN "grace" ELSE "over")
  /\ UNCHANGED <<checks, record, child, monitor, exit, counter, api, good>>

\* Nothing follows SIGTERM.
BugKill(r, k) ==
  /\ pc[r][k] = "grace" /\ Go(r, k, "over")
  /\ UNCHANGED <<checks, record, child, monitor, exit, counter, api, good>>

Kill(r, k) ==
  /\ pc[r][k] = "grace"
  /\ alive' = IF Current(r) /\ Signalled(r) THEN alive \ {r} ELSE alive
  /\ Go(r, k, "over")
  /\ UNCHANGED <<checks, record, stop, well, turns, monitor, exit, counter, api, good>>

Task(r, k) ==
  \/ Look(r, k) \/ Answer(r, k) \/ Term(r, k) \/ Kill(r, k)
  \/ k = "startup" /\ (StartupPassed(r) \/ StartupFailed(r))
  \/ k = "liveness" /\ LivenessRecorded(r)
  \/ k = "readiness" /\ ReadinessRecorded(r)
  \/ k = "ready_probe" /\ ReadyRecorded(r)
  \/ k = "api" /\ ApiRecorded(r)

Monitor(r) == MonitorReports(r) \/ MonitorStopped(r) \/ MonitorEnds(r)

Next ==
  \/ SpawnFork \/ SpawnRunning \/ Turn \/ ChildEnds \/ StopRequested \/ Tick
  \/ \E r \in Runs : Monitor(r) \/ ExitSeen(r) \/ ExitDecided(r)
  \/ \E r \in Runs, k \in Kinds : Task(r, k)

Spec == Init /\ [][Next]_vars

\* Tasks and the monitor are polled, timers fire, exits are handled.  A process
\* need not be started, stop, sicken or recover.
Fairness ==
  /\ WF_vars(SpawnRunning) /\ WF_vars(Tick)
  /\ \A r \in Runs : WF_vars(Monitor(r)) /\ WF_vars(ExitSeen(r) \/ ExitDecided(r))
  /\ \A r \in Runs, k \in Kinds : WF_vars(Task(r, k))

FairSpec == Spec /\ Fairness

-----------------------------------------------------------------------------
(* Properties.                                                               *)

\* The type invariant.
TypeOK ==
  /\ checks \in Configs
  /\ state \in Down \cup {"Starting", "Running", "Stopping"}
  /\ pid \in Runs \cup {NoRun} /\ run \in 0..MaxRuns /\ ready \in BOOLEAN
  /\ startup_passed_run \in Runs \cup {NoRun} /\ liveness_passed_run \in Runs \cup {NoRun}
  /\ stop \subseteq Runs /\ alive \subseteq Runs /\ well \in BOOLEAN /\ turns \in Nat
  /\ monitor \in [Runs -> {"none", "watching", "ending", "over"}]
  /\ exit \in [Runs -> {"none", "sent", "seen"}]
  /\ pc \in [Runs -> [Kinds -> {"asleep", "probing", "passed", "failed", "refused", "term", "grace",
                                "gated", "over"}]]
  /\ counter \in [Runs -> [Kinds -> [successes : 0..SuccessThreshold, failures : 0..FailureThreshold]]]
  /\ api \in [state : {"unknown", "healthy", "stalled", "down"}, held : 0..StallLimit,
              checked : Runs \cup {NoRun}]
  /\ good \subseteq Kinds

\* health_of.
Healthy ==
  /\ state = "Running"
  /\ (Has("ready_probe") \/ Has("readiness")) => ready
  /\ Has("startup") => startup_passed_run = run
  /\ Has("liveness") => liveness_passed_run = run
  /\ Has("api") => api.state = "healthy" /\ api.checked = run

\* A process that starts unready and is ready has passed one of the probes that
\* say so in this very run, whatever tasks of older runs are still about.
ReadyEarned ==
  (ready /\ StartsUnready) =>
    \E k \in {"startup", "readiness", "ready_probe"} : Has(k) /\ k \in good

\* What counts as healthy has passed each of its probes in this run.
HealthyTruthful ==
  Healthy => checks \ {"ready_probe", "api"} \subseteq good

\* A sick run does not stay up, if a probe is to see to that.
StuckIsEnded ==
  (Has("liveness") \/ Has("api")) => []<>~(state = "Running" /\ run \in alive /\ ~well)

\* A run that is well and stays up is found healthy in the end.
FoundHealthy == <>[]((state = "Running" /\ run \in alive /\ well) => Healthy)

=============================================================================
