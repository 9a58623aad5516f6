---------------------------- MODULE ProbesProofs ----------------------------
(***************************************************************************)
(* Theorems about Probes: what makes a process ready or healthy is of its  *)
(* current run, for any probes, thresholds and number of runs.             *)
(***************************************************************************)
EXTENDS Probes, TLAPS

Places == {"asleep", "probing", "passed", "failed", "refused", "term", "grace", "gated", "over"}

\* The part of the type invariant that the run and its tasks need.
RunTyped ==
  /\ checks \in Configs /\ run \in 0..MaxRuns /\ alive \subseteq {run} /\ good \subseteq Kinds
  /\ monitor \in [Runs -> {"none", "watching", "ending", "over"}]
  /\ exit \in [Runs -> {"none", "sent", "seen"}]
  /\ pc \in [Runs -> [Kinds -> Places]]

\* A monitor, an exit that is being handled and a child are the current run's,
\* which no other can take over before they are done.
OneRun ==
  /\ state \in Down => alive = {}
  /\ state \notin Down => run # NoRun
  /\ \A r \in Runs :
       /\ monitor[r] = "watching" => r = run /\ state \in {"Running", "Stopping"} /\ exit[r] = "none"
       /\ exit[r] # "none" => r = run /\ state \in {"Running", "Stopping"} /\ r \notin alive
       /\ r > run => \A k \in Kinds : pc[r][k] = "over"
  /\ startup_passed_run <= run /\ liveness_passed_run <= run
  /\ startup_passed_run \in Nat /\ liveness_passed_run \in Nat

\* Only what is configured is asked; a readiness_probe takes ready_probe's place.
AskedFor ==
  \A r \in Runs, k \in Kinds :
    pc[r][k] # "over" => Has(k) /\ ~(k = "ready_probe" /\ Has("readiness"))

\* A pass that a task of the current run is about to record, or that the record
\* has, is of the current run's child.
PassesEarned ==
  /\ \A r \in Runs, k \in Kinds : r = run /\ pc[r][k] = "passed" => k \in good
  /\ run # NoRun /\ startup_passed_run = run => "startup" \in good
  /\ run # NoRun /\ liveness_passed_run = run => "liveness" \in good
  /\ ready /\ Has("readiness") => "readiness" \in good

ProbesInv == RunTyped /\ OneRun /\ AskedFor /\ PassesEarned /\ ReadyEarned

-----------------------------------------------------------------------------
LEMMA RunsAreNot == (\A r \in Runs : r \in Nat /\ r # NoRun) /\ Runs \subseteq 0..MaxRuns /\ MaxRuns \in Nat
  BY ProbesAssumption DEF Runs, NoRun

LEMMA InitProbes == Init => ProbesInv
<1> SUFFICES ASSUME Init PROVE ProbesInv
  OBVIOUS
<1>1. RunTyped
  BY RunsAreNot DEF Init, RunTyped, NoTasks, Places
<1>2. OneRun
  BY RunsAreNot DEF Init, OneRun, Down, NoTasks, NoRun
<1>3. AskedFor
  BY DEF Init, AskedFor, NoTasks
<1>4. PassesEarned /\ ReadyEarned
  BY DEF Init, PassesEarned, ReadyEarned, NoTasks, NoRun
<1> QED BY <1>1, <1>2, <1>3, <1>4 DEF ProbesInv

\* While a run goes on its passes are kept, and each new one is its child's.
LEMMA PassesKept ==
  ASSUME AskedFor, PassesEarned, ReadyEarned, UNCHANGED <<checks, run>>, good \subseteq good',
         \A r \in Runs, k \in Kinds :
           /\ pc'[r][k] # "over" => Has(k) /\ ~(k = "ready_probe" /\ Has("readiness"))
           /\ r = run /\ pc'[r][k] = "passed" => pc[r][k] = "passed" \/ k \in good',
         startup_passed_run' = startup_passed_run \/ "startup" \in good',
         liveness_passed_run' = liveness_passed_run \/ "liveness" \in good',
         ready' => \/ ready
                   \/ \E k \in {"startup", "readiness", "ready_probe"} :
                        Has(k) /\ k \in good' /\ (Has("readiness") => k = "readiness")
  PROVE  AskedFor' /\ PassesEarned' /\ ReadyEarned'
<1>1. \A k : Has(k)' <=> Has(k)
  BY DEF Has
<1>2. AskedFor'
  BY <1>1 DEF AskedFor
<1>3. \A r \in Runs, k \in Kinds : r = run' /\ pc'[r][k] = "passed" => k \in good'
  BY DEF PassesEarned
<1>4. /\ run' # NoRun /\ startup_passed_run' = run' => "startup" \in good'
      /\ run' # NoRun /\ liveness_passed_run' = run' => "liveness" \in good'
  BY DEF PassesEarned
<1>5. ready' /\ Has("readiness")' => "readiness" \in good'
  BY <1>1 DEF PassesEarned
<1>6. ReadyEarned'
  <2>1. StartsUnready' <=> StartsUnready
    BY <1>1 DEF StartsUnready
  <2> QED BY <1>1, <2>1 DEF ReadyEarned
<1> QED BY <1>2, <1>3, <1>4, <1>5, <1>6 DEF PassesEarned

\* What does not change who the current run is, nor its monitor and its exit.
LEMMA RunKept ==
  ASSUME RunTyped, OneRun, UNCHANGED <<checks, state, run, monitor, exit>>,
         alive' \subseteq alive, good' \subseteq Kinds, pc' \in [Runs -> [Kinds -> Places]],
         \A r \in Runs, k \in Kinds : pc[r][k] = "over" => pc'[r][k] = "over",
         startup_passed_run' \in {startup_passed_run, run},
         liveness_passed_run' \in {liveness_passed_run, run}
  PROVE  RunTyped' /\ OneRun'
<1>1. RunTyped'
  BY DEF RunTyped
<1>2. /\ startup_passed_run' <= run' /\ startup_passed_run' \in Nat
      /\ liveness_passed_run' <= run' /\ liveness_passed_run' \in Nat
  BY RunsAreNot DEF RunTyped, OneRun
<1>3. (state' \in Down => alive' = {}) /\ (state' \notin Down => run' # NoRun)
  BY DEF OneRun, Down
<1>4. \A r \in Runs : r > run' => \A k \in Kinds : pc'[r][k] = "over"
  BY DEF OneRun
<1>5. ASSUME NEW r \in Runs
      PROVE  /\ monitor'[r] = "watching" => r = run' /\ state' \in {"Running", "Stopping"} /\ exit'[r] = "none"
             /\ exit'[r] # "none" => r = run' /\ state' \in {"Running", "Stopping"} /\ r \notin alive'
  BY DEF OneRun, Down
<1> QED BY <1>1, <1>2, <1>3, <1>4, <1>5 DEF OneRun

-----------------------------------------------------------------------------
(* The probe tasks.                                                          *)

LEMMA Moved ==
  ASSUME RunTyped, NEW r \in Runs, NEW k \in Kinds, NEW s \in Places, Go(r, k, s)
  PROVE  /\ pc' \in [Runs -> [Kinds -> Places]]
         /\ \A q \in Runs, j \in Kinds : pc'[q][j] = IF q = r /\ j = k THEN s ELSE pc[q][j]
  BY DEF RunTyped, Go

\* A task that goes to s, which is "passed" only if its run's child has passed.
LEMMA GoKeeps ==
  ASSUME ProbesInv, NEW r \in Runs, NEW k \in Kinds, NEW s \in Places, pc[r][k] # "over", Go(r, k, s),
         s = "passed" /\ r = run => k \in good',
         UNCHANGED <<checks, state, run, monitor, exit>>,
         alive' \subseteq alive, good \subseteq good', good' \subseteq Kinds,
         startup_passed_run' = startup_passed_run,
         liveness_passed_run' = liveness_passed_run \/ (liveness_passed_run' = run /\ "liveness" \in good'),
         ready' => \/ ready
                   \/ \E j \in {"startup", "readiness", "ready_probe"} :
                        Has(j) /\ j \in good' /\ (Has("readiness") => j = "readiness")
  PROVE  ProbesInv'
<1>1. /\ pc' \in [Runs -> [Kinds -> Places]]
      /\ \A q \in Runs, j \in Kinds : pc'[q][j] = IF q = r /\ j = k THEN s ELSE pc[q][j]
  BY Moved DEF ProbesInv
<1>2. RunTyped' /\ OneRun'
  BY <1>1, RunKept DEF ProbesInv
<1>3. AskedFor' /\ PassesEarned' /\ ReadyEarned'
  <2>1. \A q \in Runs, j \in Kinds :
          /\ pc'[q][j] # "over" => Has(j) /\ ~(j = "ready_probe" /\ Has("readiness"))
          /\ q = run /\ pc'[q][j] = "passed" => pc[q][j] = "passed" \/ j \in good'
    BY <1>1 DEF ProbesInv, AskedFor
  <2> QED BY <2>1, PassesKept DEF ProbesInv
<1> QED BY <1>2, <1>3 DEF ProbesInv

LEMMA TaskKeeps == ASSUME ProbesInv, NEW r \in Runs, NEW k \in Kinds, Task(r, k) PROVE ProbesInv'
<1> USE DEF Places
<1>1. good \subseteq Kinds /\ (r = run /\ pc[r][k] = "passed" => k \in good)
  BY DEF ProbesInv, RunTyped, PassesEarned
<1>2. CASE Look(r, k)
  <2>1. PICK s \in {"probing", "over"} : Go(r, k, s)
    BY <1>2 DEF Look
  <2> QED BY <1>1, <1>2, <2>1, GoKeeps DEF Look, record, child
<1>3. CASE Answer(r, k)
  <2>1. PICK s \in {"passed", "failed", "refused"} :
          Go(r, k, s) /\ (s = "passed" /\ r = run => k \in good') /\ good' \in {good, good \cup {k}}
    BY <1>3 DEF Answer, ProbesInv, RunTyped
  <2> QED BY <1>1, <1>3, <2>1, GoKeeps DEF Answer, record, child
<1>4. CASE Term(r, k) \/ Kill(r, k)
  <2>1. PICK s \in {"grace", "over"} : Go(r, k, s)
    BY <1>4 DEF Term, Kill
  <2>2. alive' \subseteq alive
    BY <1>4 DEF Term, Kill, child
  <2> QED BY <1>1, <1>4, <2>1, <2>2, GoKeeps DEF Term, Kill, record, child
<1>5. CASE k = "startup" /\ StartupFailed(r)
  <2>1. PICK s \in {"term", "asleep"} : Go(r, k, s)
    BY <1>5 DEF StartupFailed
  <2> QED BY <1>1, <1>5, <2>1, GoKeeps DEF StartupFailed, Answered, record, child
<1>6. CASE k = "liveness" /\ LivenessRecorded(r)
  <2>1. PICK s \in {"term", "asleep", "over"} : Go(r, k, s)
    BY <1>6 DEF LivenessRecorded
  <2>2. liveness_passed_run' = liveness_passed_run \/ (liveness_passed_run' = run /\ "liveness" \in good')
    BY <1>1, <1>6 DEF LivenessRecorded, Passed
  <2> QED BY <1>1, <1>6, <2>1, <2>2, GoKeeps DEF LivenessRecorded, Answered, child
<1>7. CASE k = "readiness" /\ ReadinessRecorded(r)
  <2>1. PICK s \in {"asleep", "over"} : Go(r, k, s)
    BY <1>7 DEF ReadinessRecorded
  <2>2. Has("readiness") /\ UNCHANGED good
    BY <1>7 DEF ReadinessRecorded, Answered, ProbesInv, AskedFor
  <2>3. ready' => ready \/ "readiness" \in good'
    BY <1>1, <1>7, <2>2 DEF ReadinessRecorded, Passed
  <2> QED BY <1>1, <1>7, <2>1, <2>2, <2>3, GoKeeps DEF ReadinessRecorded, Answered, child
<1>8. CASE k = "ready_probe" /\ ReadyRecorded(r)
  <2>1. PICK s \in {"asleep", "over"} : Go(r, k, s)
    BY <1>8 DEF ReadyRecorded
  <2>2. Has("ready_probe") /\ ~Has("readiness") /\ UNCHANGED good
    BY <1>8 DEF ReadyRecorded, Answered, ProbesInv, AskedFor
  <2>3. ready' => ready \/ "ready_probe" \in good'
    BY <1>1, <1>8, <2>2 DEF ReadyRecorded, Passed
  <2> QED BY <1>1, <1>8, <2>1, <2>2, <2>3, GoKeeps DEF ReadyRecorded, Answered, child
<1>9. CASE k = "api" /\ ApiRecorded(r)
  <2>1. PICK s \in {"term", "asleep"} : Go(r, k, s)
    BY <1>9 DEF ApiRecorded
  <2> QED BY <1>1, <1>9, <2>1, GoKeeps DEF ApiRecorded, Answered, record, child
<1>10. CASE k = "startup" /\ StartupPassed(r)
  <2>1. /\ UNCHANGED <<checks, state, run, liveness_passed_run, alive, monitor, exit, good>>
        /\ startup_passed_run' = startup_passed_run \/ (startup_passed_run' = run /\ r = run)
        /\ ready' => ready \/ (r = run /\ ~Has("readiness"))
        /\ pc[r]["startup"] = "passed"
    <3>1. /\ UNCHANGED <<checks, state, run, liveness_passed_run, alive, monitor, exit, good>>
          /\ pc[r]["startup"] = "passed"
      BY <1>10 DEF StartupPassed, Passed, child
    <3>2. startup_passed_run' = startup_passed_run \/ (startup_passed_run' = run /\ r = run)
      BY <1>10 DEF StartupPassed
    <3>3. ready' => ready \/ (r = run /\ ~Has("readiness"))
      BY <1>10, ZenonT(30) DEF StartupPassed
    <3> QED BY <3>1, <3>2, <3>3
  <2>2. /\ pc' \in [Runs -> [Kinds -> Places]]
        /\ \A q \in Runs, j \in Kinds :
             /\ pc[q][j] = "over" => pc'[q][j] = "over"
             /\ pc'[q][j] = "passed" => pc[q][j] = "passed"
    <3> DEFINE Open == [j \in Kinds |-> IF j = "startup" THEN "over"
                                         ELSE IF pc[r][j] = "gated" THEN "asleep" ELSE pc[r][j]]
               Shut == [j \in Kinds |-> IF j = "startup" \/ pc[r][j] = "gated" THEN "over" ELSE pc[r][j]]
    <3>1. pc \in [Runs -> [Kinds -> Places]]
      BY DEF ProbesInv, RunTyped
    <3>2. pc' = [pc EXCEPT ![r] = Open] \/ pc' = [pc EXCEPT ![r] = Shut]
      BY <1>10 DEF StartupPassed
    <3>3. /\ Open \in [Kinds -> Places] /\ Shut \in [Kinds -> Places]
          /\ \A j \in Kinds : pc[r][j] = "over" => Open[j] = "over" /\ Shut[j] = "over"
          /\ \A j \in Kinds : Open[j] = "passed" \/ Shut[j] = "passed" => pc[r][j] = "passed"
      BY <3>1
    <3> HIDE DEF Open, Shut
    <3> QED BY <3>1, <3>2, <3>3
  <2>3. RunTyped' /\ OneRun'
    BY <1>1, <2>1, <2>2, RunKept DEF ProbesInv
  <2>4. /\ startup_passed_run' = startup_passed_run \/ "startup" \in good'
        /\ Has("startup") /\ (r = run => "startup" \in good')
    BY <1>1, <1>10, <2>1 DEF ProbesInv, AskedFor
  <2>5. AskedFor' /\ PassesEarned' /\ ReadyEarned'
    BY <2>1, <2>2, <2>4, PassesKept DEF ProbesInv, AskedFor
  <2> QED BY <2>3, <2>5 DEF ProbesInv
<1> QED BY <1>2, <1>3, <1>4, <1>5, <1>6, <1>7, <1>8, <1>9, <1>10 DEF Task

-----------------------------------------------------------------------------
(* The run.                                                                  *)

\* What leaves the tasks, the passes and the current run alone, or ends tasks.
LEMMA RunStepKeeps ==
  ASSUME ProbesInv, OneRun',
         UNCHANGED <<checks, run, startup_passed_run, liveness_passed_run, good>>,
         alive' \subseteq alive,
         monitor' \in [Runs -> {"none", "watching", "ending", "over"}],
         exit' \in [Runs -> {"none", "sent", "seen"}],
         ready' => ready,
         pc' \in [Runs -> [Kinds -> Places]],
         \A r \in Runs, k \in Kinds : pc'[r][k] \in {pc[r][k], "over"}
  PROVE  ProbesInv'
<1>1. RunTyped'
  BY DEF ProbesInv, RunTyped
<1>2. AskedFor' /\ PassesEarned' /\ ReadyEarned'
  <2>1. \A r \in Runs, k \in Kinds :
          /\ pc'[r][k] # "over" => Has(k) /\ ~(k = "ready_probe" /\ Has("readiness"))
          /\ r = run /\ pc'[r][k] = "passed" => pc[r][k] = "passed" \/ k \in good'
    BY DEF ProbesInv, AskedFor
  <2> QED BY <2>1, PassesKept DEF ProbesInv
<1> QED BY <1>1, <1>2 DEF ProbesInv

LEMMA ForkKeeps == ASSUME ProbesInv, SpawnFork PROVE ProbesInv'
<1>1. /\ run \in Nat /\ run + 1 \in Runs /\ run + 1 > run /\ alive = {} /\ state \in Down
      /\ run' = run + 1 /\ run' # NoRun
  BY RunsAreNot, ProbesAssumption DEF SpawnFork, ProbesInv, RunTyped, OneRun, Runs, NoRun
<1>2. UNCHANGED <<checks, startup_passed_run, liveness_passed_run, monitor, exit, pc>>
  BY <1>1 DEF SpawnFork, tasks
<1>3. RunTyped'
  <2>1. run' \in 0..MaxRuns
    BY <1>1, RunsAreNot
  <2>2. alive' \subseteq {run'} /\ good' \subseteq Kinds
    BY <1>1 DEF SpawnFork
  <2> QED BY <1>2, <2>1, <2>2 DEF ProbesInv, RunTyped
<1>4. OneRun'
  <2>1. state' = "Starting" /\ state' \notin Down
    BY DEF SpawnFork, Down
  <2>2. \A r \in Runs : monitor[r] # "watching" /\ exit[r] = "none"
    BY <1>1 DEF ProbesInv, OneRun, Down, RunTyped
  <2>3. \A r \in Runs : r > run' => r > run
    BY <1>1, RunsAreNot
  <2>4. \A r \in Runs : r > run' => \A k \in Kinds : pc'[r][k] = "over"
    BY <1>2, <2>3 DEF ProbesInv, OneRun
  <2>5. /\ startup_passed_run' <= run' /\ liveness_passed_run' <= run'
        /\ startup_passed_run' \in Nat /\ liveness_passed_run' \in Nat
    BY <1>1, <1>2 DEF ProbesInv, OneRun
  <2> QED BY <1>1, <1>2, <2>1, <2>2, <2>4, <2>5 DEF OneRun
<1>5. AskedFor'
  BY <1>2 DEF ProbesInv, AskedFor, Has
<1>6. PassesEarned' /\ ReadyEarned'
  <2>1. \A r \in Runs, k \in Kinds : r = run' => pc'[r][k] = "over"
    BY <1>1, <1>2 DEF ProbesInv, OneRun
  <2>2. startup_passed_run' # run' /\ liveness_passed_run' # run'
    BY <1>1, <1>2 DEF ProbesInv, OneRun
  <2>3. (ready' <=> ~StartsUnready) /\ (StartsUnready' <=> StartsUnready) /\ (Has("readiness")' => StartsUnready)
    BY <1>2 DEF SpawnFork, StartsUnready, Has
  <2> QED BY <2>1, <2>2, <2>3 DEF PassesEarned, ReadyEarned
<1> QED BY <1>3, <1>4, <1>5, <1>6 DEF ProbesInv

\* The run's tasks begin, none of them at a pass.
LEMMA RunningKeeps == ASSUME ProbesInv, SpawnRunning PROVE ProbesInv'
<1>1. run \in Runs /\ state = "Starting" /\ state' = "Running"
  BY RunsAreNot DEF SpawnRunning, ProbesInv, RunTyped, OneRun, Down, Runs, NoRun
<1>2. /\ UNCHANGED <<checks, run, ready, startup_passed_run, liveness_passed_run, alive, exit, good>>
      /\ monitor' = [monitor EXCEPT ![run] = "watching"] /\ pc' = [pc EXCEPT ![run] = Begun]
  BY DEF SpawnRunning, child
<1>3. /\ Begun \in [Kinds -> Places]
      /\ \A k \in Kinds : Begun[k] # "passed"
      /\ \A k \in Kinds : Begun[k] # "over" => Has(k) /\ ~(k = "ready_probe" /\ Has("readiness"))
  BY DEF Begun, Places
<1>4. /\ pc' \in [Runs -> [Kinds -> Places]]
      /\ \A q \in Runs : pc'[q] = IF q = run THEN Begun ELSE pc[q]
  BY <1>1, <1>2, <1>3 DEF ProbesInv, RunTyped
<1>5. RunTyped'
  BY <1>1, <1>2, <1>4 DEF ProbesInv, RunTyped
<1>6. OneRun'
  <2>1. \A r \in Runs : monitor'[r] = IF r = run THEN "watching" ELSE monitor[r]
    BY <1>1, <1>2 DEF ProbesInv, RunTyped
  <2>2. \A r \in Runs : exit[r] = "none"
    BY <1>1 DEF ProbesInv, OneRun
  <2>3. \A r \in Runs : r > run' => \A k \in Kinds : pc'[r][k] = "over"
    BY <1>1, <1>2, <1>4, RunsAreNot DEF ProbesInv, OneRun
  <2>4. state' \notin Down /\ run' # NoRun
    BY <1>1, <1>2, RunsAreNot DEF Down
  <2> QED BY <1>1, <1>2, <2>1, <2>2, <2>3, <2>4 DEF ProbesInv, OneRun
<1>7. AskedFor' /\ PassesEarned' /\ ReadyEarned'
  <2>1. \A r \in Runs, k \in Kinds :
          /\ pc'[r][k] # "over" => Has(k) /\ ~(k = "ready_probe" /\ Has("readiness"))
          /\ r = run /\ pc'[r][k] = "passed" => pc[r][k] = "passed" \/ k \in good'
    BY <1>3, <1>4 DEF ProbesInv, AskedFor
  <2> QED BY <1>2, <2>1, PassesKept DEF ProbesInv
<1> QED BY <1>5, <1>6, <1>7 DEF ProbesInv

\* A stop, the monitor, the exit handler: the one current run's, or over already.
LEMMA EndingKeeps ==
  ASSUME ProbesInv, NEW r \in Runs, Monitor(r) \/ ExitSeen(r) \/ ExitDecided(r)
  PROVE  ProbesInv'
<1>1. /\ UNCHANGED <<checks, run, startup_passed_run, liveness_passed_run, good>>
      /\ alive' \subseteq alive
  BY DEF Monitor, MonitorReports, MonitorStopped, MonitorEnds, ExitSeen, ExitDecided, record, child
<1>2. /\ monitor \in [Runs -> {"none", "watching", "ending", "over"}]
      /\ exit \in [Runs -> {"none", "sent", "seen"}] /\ pc \in [Runs -> [Kinds -> Places]]
      /\ alive \subseteq {run}
  BY DEF ProbesInv, RunTyped
<1>3. ready' => ready
  BY DEF Monitor, MonitorReports, MonitorStopped, MonitorEnds, ExitSeen, ExitDecided, record
<1>4. NoTasks \in [Kinds -> Places]
  BY DEF NoTasks, Places
<1>5. /\ pc' \in [Runs -> [Kinds -> Places]]
      /\ \A q \in Runs, k \in Kinds : pc'[q][k] \in {pc[q][k], "over"}
  <2>1. UNCHANGED pc \/ pc' = [pc EXCEPT ![r] = NoTasks]
    BY DEF Monitor, MonitorReports, MonitorStopped, MonitorEnds, ExitSeen, ExitDecided, tasks
  <2>2. \A k \in Kinds : NoTasks[k] = "over"
    BY DEF NoTasks
  <2> QED BY <1>2, <1>4, <2>1, <2>2
<1>6. /\ \A q \in Runs : q > run' => \A k \in Kinds : pc'[q][k] = "over"
      /\ startup_passed_run' <= run' /\ liveness_passed_run' <= run'
      /\ startup_passed_run' \in Nat /\ liveness_passed_run' \in Nat
  <2>1. \A q \in Runs : q > run => \A k \in Kinds : pc[q][k] = "over"
    BY DEF ProbesInv, OneRun
  <2>2. \A q \in Runs : q > run => \A k \in Kinds : pc'[q][k] = "over"
    BY <1>5, <2>1
  <2> QED BY <1>1, <2>2 DEF ProbesInv, OneRun
<1>7. ASSUME NEW q \in Runs
      PROVE  /\ monitor[q] = "watching" => q = run /\ state \in {"Running", "Stopping"} /\ exit[q] = "none"
             /\ exit[q] # "none" => q = run /\ state \in {"Running", "Stopping"} /\ q \notin alive
  BY DEF ProbesInv, OneRun
<1>8. (state \in Down => alive = {}) /\ (state \notin Down => run # NoRun)
  BY DEF ProbesInv, OneRun
<1>9. ASSUME monitor' \in [Runs -> {"none", "watching", "ending", "over"}],
             exit' \in [Runs -> {"none", "sent", "seen"}],
             (state' \in Down => alive' = {}) /\ (state' \notin Down => run' # NoRun),
             \A q \in Runs :
               /\ monitor'[q] = "watching" => q = run' /\ state' \in {"Running", "Stopping"} /\ exit'[q] = "none"
               /\ exit'[q] # "none" => q = run' /\ state' \in {"Running", "Stopping"} /\ q \notin alive'
      PROVE  ProbesInv'
  <2>1. OneRun'
    BY <1>6, <1>9 DEF OneRun
  <2> QED BY <1>1, <1>3, <1>5, <1>9, <2>1, RunStepKeeps
<1>10. CASE MonitorReports(r)
  <2>1. /\ monitor[r] = "watching" /\ r \notin alive /\ UNCHANGED <<state, alive, run>>
        /\ monitor' = [monitor EXCEPT ![r] = "ending"] /\ exit' = [exit EXCEPT ![r] = "sent"]
    BY <1>10 DEF MonitorReports, record, child
  <2> QED BY <1>2, <1>7, <1>8, <1>9, <2>1
<1>11. CASE MonitorStopped(r)
  <2>1. /\ monitor[r] = "watching" /\ state' = "Stopped" /\ UNCHANGED <<exit, run>>
        /\ monitor' = [monitor EXCEPT ![r] = "ending"] /\ alive' = alive \ {r}
    BY <1>11 DEF MonitorStopped
  <2>2. r = run /\ alive' = {} /\ state' \in Down /\ \A q \in Runs : exit[q] = "none"
    BY <1>2, <1>7, <2>1 DEF Down
  <2> QED BY <1>2, <1>7, <1>9, <2>1, <2>2
<1>12. CASE MonitorEnds(r)
  <2>1. UNCHANGED <<state, alive, run, exit>> /\ monitor' = [monitor EXCEPT ![r] = "over"]
    BY <1>12 DEF MonitorEnds, record, child
  <2> QED BY <1>2, <1>7, <1>8, <1>9, <2>1
<1>13. CASE ExitSeen(r)
  <2>1. /\ UNCHANGED <<state, alive, run, monitor>> /\ exit[r] = "sent"
        /\ exit' = [exit EXCEPT ![r] = "seen"]
    BY <1>13 DEF ExitSeen, child
  <2>2. \A q \in Runs : exit'[q] \in {"sent", "seen"} <=> exit[q] \in {"sent", "seen"}
    BY <1>2, <2>1
  <2>3. \A q \in Runs : (exit'[q] # "none" <=> exit[q] # "none")
    BY <1>2, <2>1, <2>2
  <2>4. exit' \in [Runs -> {"none", "sent", "seen"}]
    BY <1>2, <2>1
  <2> QED BY <1>2, <1>7, <1>8, <1>9, <2>1, <2>3, <2>4
<1>14. CASE ExitDecided(r)
  <2>1. /\ UNCHANGED <<alive, run, monitor>> /\ exit[r] = "seen" /\ state' \in Down
        /\ exit' = [exit EXCEPT ![r] = "none"]
    BY <1>14 DEF ExitDecided, child
  <2>2. r = run /\ alive' = {}
    BY <1>2, <1>7, <2>1
  <2>3. \A q \in Runs : exit'[q] = "none" /\ monitor'[q] # "watching"
    BY <1>2, <1>7, <2>1, <2>2
  <2>4. exit' \in [Runs -> {"none", "sent", "seen"}]
    BY <1>2, <2>1
  <2> QED BY <1>2, <1>9, <2>1, <2>2, <2>3, <2>4
<1> QED BY <1>10, <1>11, <1>12, <1>13, <1>14 DEF Monitor

LEMMA StepProbes == ProbesInv /\ [Next]_vars => ProbesInv'
<1> SUFFICES ASSUME ProbesInv, [Next]_vars PROVE ProbesInv'
  OBVIOUS
<1>1. CASE StopRequested
  <2>1. UNCHANGED <<checks, run, ready, startup_passed_run, liveness_passed_run, alive, monitor, exit,
                    pc, good>> /\ state = "Running" /\ state' = "Stopping"
    BY <1>1 DEF StopRequested, tasks
  <2>2. OneRun'
    BY <2>1 DEF ProbesInv, OneRun, Down
  <2> QED BY <2>1, <2>2, RunStepKeeps DEF ProbesInv, RunTyped
<1>2. CASE Turn \/ ChildEnds \/ Tick \/ UNCHANGED vars
  <2>1. /\ UNCHANGED <<checks, state, run, ready, startup_passed_run, liveness_passed_run, monitor,
                       exit, pc, good>>
        /\ alive' \subseteq alive
    BY <1>2 DEF Turn, ChildEnds, Tick, vars, record, child, tasks
  <2>2. OneRun'
    BY <2>1 DEF ProbesInv, OneRun
  <2> QED BY <2>1, <2>2, RunStepKeeps DEF ProbesInv, RunTyped
<1> QED BY <1>1, <1>2, ForkKeeps, RunningKeeps, EndingKeeps, TaskKeeps DEF Next

\* The current run has the monitor, the exit and the child, and what has passed, of
\* whichever run's tasks are about, its own child has passed.
THEOREM ProbesInvCorrect == Spec => []ProbesInv
  BY InitProbes, StepProbes, PTL DEF Spec

\* No task of an older run makes a process ready, and no pass of an older run is
\* taken for this one's (mark_startup_passed, set_ready, watch_ready): for any
\* probes, thresholds and number of runs.
THEOREM ReadyEarnedCorrect == Spec => []ReadyEarned
<1>1. ProbesInv => ReadyEarned
  BY DEF ProbesInv
<1> QED BY <1>1, ProbesInvCorrect, PTL

\* health_of says healthy only of a run that has passed each of its probes: for
\* any probes, thresholds and number of runs.
THEOREM HealthyTruthfulCorrect == Spec => []HealthyTruthful
<1>1. ProbesInv => HealthyTruthful
  <2> SUFFICES ASSUME ProbesInv, Healthy, NEW k \in checks \ {"ready_probe", "api"} PROVE k \in good
    BY DEF HealthyTruthful
  <2>1. run # NoRun
    BY DEF Healthy, ProbesInv, OneRun, Down
  <2>2. CASE k \in {"startup", "liveness", "readiness"}
    BY <2>1, <2>2 DEF Healthy, Has, ProbesInv, PassesEarned
  <2>3. k \in Kinds
    BY ProbesAssumption DEF ProbesInv, RunTyped
  <2> QED BY <2>2, <2>3 DEF Kinds
<1> QED BY <1>1, ProbesInvCorrect, PTL
=============================================================================
