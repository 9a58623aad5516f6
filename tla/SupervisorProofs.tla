-------------------------- MODULE SupervisorProofs --------------------------
(***************************************************************************)
(* For any number of callers, any bound on runs and any configurations:    *)
(* the types, the ownership invariant and OneChild; and from these what    *)
(* the record shows, the restart budget, and that what is down stays down. *)
(***************************************************************************)
EXTENDS Supervisor, TLAPS

\* Whatever the row of the table, an exit leaves the process down or schedules
\* its restart.
LEMMA DecisionCases ==
  ASSUME NEW r \in Runs, NEW how \in Exits, cfg \in Configs, Decision(r, how)
  PROVE  \/ \E s \in {"Failed", "Stopped"}, fails \in BOOLEAN : LeaveDown(r, s, fails)
         \/ \E s \in {"Restarting", "CrashLoopBackOff"} : Schedule(r, how, s)
<1> cfg \in ConfigType
  BY SupervisorAssumption DEF SupervisorAssumption
<1>1. CASE how = "no_restart"
  BY <1>1 DEF Decision
<1>2. CASE how # "no_restart" /\ cfg.policy # "None"
  <2>1. \/ Schedule(r, how, "CrashLoopBackOff")
        \/ LeaveDown(r, "Stopped", FALSE) \/ LeaveDown(r, "Failed", FALSE)
    BY <1>2 DEF Decision
  <2> QED BY <2>1
<1>3. CASE how = "clean" /\ cfg.policy = "None"
  <2>1. Schedule(r, how, "Restarting") \/ LeaveDown(r, "Stopped", FALSE)
    BY <1>3 DEF Decision
  <2> QED BY <2>1
<1>4. CASE how = "failed" /\ cfg.policy = "None"
  <2>1. cfg.on_failure \in {"restart", "fail", "ignore"}
    BY DEF ConfigType
  <2>2. \/ Schedule(r, how, "Restarting")
        \/ LeaveDown(r, "Stopped", FALSE) \/ LeaveDown(r, "Failed", TRUE)
    BY <1>4, <2>1 DEF Decision
  <2> QED BY <2>2
<1> QED
  BY <1>1, <1>2, <1>3, <1>4 DEF Exits

\* No step leaves the types.
LEMMA TypeStep == TypeOK /\ [Next]_vars => TypeOK'
<1> SUFFICES ASSUME TypeOK, [Next]_vars PROVE TypeOK'
  OBVIOUS
<1> USE DEF TypeOK, RecordTypes, FlagTypes, RunTypes, TaskTypes
<1>1. ASSUME NEW t \in Tasks, SpawnCheck(t) PROVE TypeOK'
  <2>1. RecordTypes'
    BY <1>1, SupervisorAssumption DEF SupervisorAssumption, SpawnCheck, SpawnError, Goto, record,
       RunId, States
  <2>2. FlagTypes'
    BY <1>1 DEF SpawnCheck, SpawnError, Goto, history
  <2>3. RunTypes'
    BY <1>1 DEF SpawnCheck, SpawnError, Goto
  <2>4. TaskTypes'
    BY <1>1 DEF SpawnCheck, SpawnError, Goto, Tasks, Stages, SpawnStages
  <2> QED
    BY <2>1, <2>2, <2>3, <2>4
<1>2. ASSUME NEW t \in Tasks, SpawnFork(t) PROVE TypeOK'
  <2>1. RecordTypes'
    BY <1>2, SupervisorAssumption DEF SupervisorAssumption, SpawnFork, SpawnError, Goto, record,
       RunId, States
  <2>2. FlagTypes'
    BY <1>2 DEF SpawnFork, SpawnError, Goto, history
  <2>3. RunTypes'
    BY <1>2 DEF SpawnFork, SpawnError, Goto
  <2>4. TaskTypes'
    <3>1. (pc \in [Tasks -> Stages])'
      BY <1>2 DEF SpawnFork, SpawnError, Goto, Stages, SpawnStages
    <3>2. (mine \in [Tasks -> RunId])'
      BY <1>2, SupervisorAssumption DEF SupervisorAssumption, SpawnFork, RunId
    <3> QED
      BY <3>1, <3>2
  <2> QED
    BY <2>1, <2>2, <2>3, <2>4
<1>3. ASSUME NEW t \in Tasks, SpawnRecord(t) PROVE TypeOK'
  <2>1. RecordTypes'
    BY <1>3, SupervisorAssumption DEF SupervisorAssumption, SpawnRecord, Goto, record, RunId,
       States
  <2>2. FlagTypes'
    BY <1>3 DEF SpawnRecord, Goto, history
  <2>3. RunTypes'
    BY <1>3 DEF SpawnRecord, Goto
  <2>4. TaskTypes'
    BY <1>3 DEF SpawnRecord, Goto, Tasks, Stages, SpawnStages
  <2> QED
    BY <2>1, <2>2, <2>3, <2>4
<1>4. ASSUME NEW t \in Tasks, SpawnArm(t) PROVE TypeOK'
  <2>1. RecordTypes'
    BY <1>4, SupervisorAssumption DEF SupervisorAssumption, SpawnArm, Goto, record, RunId, States
  <2>2. FlagTypes'
    BY <1>4 DEF SpawnArm, Goto, history
  <2>3. RunTypes'
    <3>1. (monitor \in [Runs -> {"none", "watch", "stopping", "done"}])'
      BY <1>4 DEF SpawnArm
    <3>2. CASE t \in Runs
      BY <1>4, <3>1, <3>2 DEF SpawnArm, Settled
    <3>3. CASE t \notin Runs
      BY <1>4, <3>1, <3>3 DEF SpawnArm
    <3> QED
      BY <3>2, <3>3
  <2>4. TaskTypes'
    <3>1. (pc \in [Tasks -> Stages])'
      BY <1>4 DEF SpawnArm, Goto, Stages, SpawnStages
    <3>2. (mine \in [Tasks -> RunId])'
      BY <1>4, SupervisorAssumption DEF SupervisorAssumption, SpawnArm, RunId
    <3> QED
      BY <3>1, <3>2
  <2> QED
    BY <2>1, <2>2, <2>3, <2>4
<1>5. ASSUME NEW r \in Runs, ChildExits(r) PROVE TypeOK'
  <2>1. RecordTypes'
    BY <1>5, SupervisorAssumption DEF SupervisorAssumption, ChildExits, record, RunId, States
  <2>2. FlagTypes'
    BY <1>5 DEF ChildExits, history
  <2>3. RunTypes'
    BY <1>5 DEF ChildExits
  <2>4. TaskTypes'
    BY <1>5 DEF ChildExits
  <2> QED
    BY <2>1, <2>2, <2>3, <2>4
<1>6. ASSUME NEW r \in Runs, MonitorSeesExit(r) PROVE TypeOK'
  <2>1. RecordTypes'
    BY <1>6, SupervisorAssumption DEF SupervisorAssumption, MonitorSeesExit, Goto, record, RunId,
       States
  <2>2. FlagTypes'
    BY <1>6 DEF MonitorSeesExit, Goto, history
  <2>3. RunTypes'
    BY <1>6 DEF MonitorSeesExit, Goto
  <2>4. TaskTypes'
    BY <1>6 DEF MonitorSeesExit, Goto, Tasks, Stages, SpawnStages
  <2> QED
    BY <2>1, <2>2, <2>3, <2>4
<1>7. ASSUME NEW r \in Runs, MonitorTakesKill(r) PROVE TypeOK'
  <2>1. RecordTypes'
    BY <1>7, SupervisorAssumption DEF SupervisorAssumption, MonitorTakesKill, record, RunId,
       States
  <2>2. FlagTypes'
    BY <1>7 DEF MonitorTakesKill, history
  <2>3. RunTypes'
    BY <1>7 DEF MonitorTakesKill
  <2>4. TaskTypes'
    BY <1>7 DEF MonitorTakesKill
  <2> QED
    BY <2>1, <2>2, <2>3, <2>4
<1>8. ASSUME NEW r \in Runs, MonitorStopped(r) PROVE TypeOK'
  <2>1. RecordTypes'
    BY <1>8, SupervisorAssumption DEF SupervisorAssumption, MonitorStopped, record, RunId, States
  <2>2. FlagTypes'
    BY <1>8 DEF MonitorStopped, history
  <2>3. RunTypes'
    BY <1>8 DEF MonitorStopped
  <2>4. TaskTypes'
    BY <1>8 DEF MonitorStopped
  <2> QED
    BY <2>1, <2>2, <2>3, <2>4
<1>9. ASSUME NEW r \in Runs, ExitRecorded(r) PROVE TypeOK'
  <2>1. RecordTypes'
    BY <1>9, SupervisorAssumption DEF SupervisorAssumption, ExitRecorded, Goto, Settled, record,
       RunId, States
  <2>2. FlagTypes'
    BY <1>9 DEF ExitRecorded, Goto, Settled, history
  <2>3. RunTypes'
    BY <1>9 DEF ExitRecorded, Goto, Settled
  <2>4. TaskTypes'
    BY <1>9 DEF ExitRecorded, Goto, Settled, Tasks, Stages, SpawnStages
  <2> QED
    BY <2>1, <2>2, <2>3, <2>4
<1>10. ASSUME NEW r \in Runs, ExitChecked(r) PROVE TypeOK'
  <2>1. RecordTypes'
    BY <1>10, SupervisorAssumption DEF SupervisorAssumption, ExitChecked, Goto, Settled, record,
       RunId, States
  <2>2. FlagTypes'
    BY <1>10 DEF ExitChecked, Goto, Settled, history
  <2>3. RunTypes'
    BY <1>10 DEF ExitChecked, Goto, Settled
  <2>4. TaskTypes'
    BY <1>10 DEF ExitChecked, Goto, Settled, Tasks, Stages, SpawnStages
  <2> QED
    BY <2>1, <2>2, <2>3, <2>4
<1>11. ASSUME NEW r \in Runs, ExitDecided(r) PROVE TypeOK'
  <2>1. PICK how \in Exits : Decision(r, how)
    BY <1>11 DEF ExitDecided
  <2>2. ASSUME NEW s \in {"Failed", "Stopped"}, NEW fails \in BOOLEAN, LeaveDown(r, s, fails)
        PROVE TypeOK'
    <3>1. RecordTypes'
      BY <1>11, <2>2 DEF ExitDecided, LeaveDown, RunId, States
    <3>2. FlagTypes'
      BY <1>11, <2>2 DEF ExitDecided, LeaveDown, history
    <3>3. RunTypes'
      BY <1>11, <2>2 DEF ExitDecided, LeaveDown, Settled
    <3>4. TaskTypes'
      BY <1>11, <2>2 DEF ExitDecided, LeaveDown, Goto, Stages
    <3> QED
      BY <3>1, <3>2, <3>3, <3>4
  <2>3. ASSUME NEW s \in {"Restarting", "CrashLoopBackOff"}, Schedule(r, how, s) PROVE TypeOK'
    <3>1. RecordTypes'
      BY <1>11, <2>3 DEF ExitDecided, Schedule, RunId, States
    <3>2. FlagTypes'
      BY <1>11, <2>3 DEF ExitDecided, Schedule, history
    <3>3. RunTypes'
      BY <1>11, <2>3 DEF ExitDecided, Schedule
    <3>4. TaskTypes'
      BY <1>11, <2>3 DEF ExitDecided, Schedule, Goto, Stages
    <3> QED
      BY <3>1, <3>2, <3>3, <3>4
  <2> QED
    BY <2>1, <2>2, <2>3, DecisionCases
<1>12. ASSUME NEW r \in Runs, CoolOffEnds(r) PROVE TypeOK'
  <2>1. RecordTypes'
    BY <1>12, SupervisorAssumption DEF SupervisorAssumption, CoolOffEnds, Goto, Settled, record,
       RunId, States
  <2>2. FlagTypes'
    BY <1>12 DEF CoolOffEnds, Goto, Settled, history
  <2>3. RunTypes'
    BY <1>12 DEF CoolOffEnds, Goto, Settled
  <2>4. TaskTypes'
    BY <1>12 DEF CoolOffEnds, Goto, Settled, Tasks, Stages, SpawnStages
  <2> QED
    BY <2>1, <2>2, <2>3, <2>4
<1>13. ASSUME NEW r \in Runs, RestartFailed(r) PROVE TypeOK'
  <2>1. RecordTypes'
    BY <1>13, SupervisorAssumption DEF SupervisorAssumption, RestartFailed, Goto, Settled,
       record, RunId, States
  <2>2. FlagTypes'
    BY <1>13 DEF RestartFailed, Goto, Settled, history
  <2>3. RunTypes'
    BY <1>13 DEF RestartFailed, Goto, Settled
  <2>4. TaskTypes'
    BY <1>13 DEF RestartFailed, Goto, Settled, Tasks, Stages, SpawnStages
  <2> QED
    BY <2>1, <2>2, <2>3, <2>4
<1>14. ASSUME NEW c \in Callers, ApiStart(c) PROVE TypeOK'
  <2>1. RecordTypes'
    BY <1>14, SupervisorAssumption DEF SupervisorAssumption, ApiStart, Goto, LetIn, record,
       RunId, States
  <2>2. FlagTypes'
    BY <1>14 DEF ApiStart, Goto, LetIn, history
  <2>3. RunTypes'
    BY <1>14 DEF ApiStart, Goto, LetIn
  <2>4. TaskTypes'
    BY <1>14 DEF ApiStart, Goto, LetIn, Tasks, Stages, SpawnStages
  <2> QED
    BY <2>1, <2>2, <2>3, <2>4
<1>15. ASSUME NEW c \in Callers, ApiStop(c) PROVE TypeOK'
  <2>1. RecordTypes'
    BY <1>15, SupervisorAssumption DEF SupervisorAssumption, ApiStop, Goto, RequestStop, record,
       RunId, States
  <2>2. FlagTypes'
    BY <1>15 DEF ApiStop, Goto, RequestStop, history
  <2>3. RunTypes'
    BY <1>15 DEF ApiStop, Goto, RequestStop
  <2>4. TaskTypes'
    BY <1>15 DEF ApiStop, Goto, RequestStop, Tasks, Stages, SpawnStages
  <2> QED
    BY <2>1, <2>2, <2>3, <2>4
<1>16. ASSUME NEW c \in Callers, ApiRestart(c) PROVE TypeOK'
  <2>1. RecordTypes'
    BY <1>16, SupervisorAssumption DEF SupervisorAssumption, ApiRestart, Goto, LetIn,
       RequestStop, record, RunId, States
  <2>2. FlagTypes'
    BY <1>16 DEF ApiRestart, Goto, LetIn, RequestStop, history
  <2>3. RunTypes'
    BY <1>16 DEF ApiRestart, Goto, LetIn, RequestStop
  <2>4. TaskTypes'
    BY <1>16 DEF ApiRestart, Goto, LetIn, RequestStop, Tasks, Stages, SpawnStages
  <2> QED
    BY <2>1, <2>2, <2>3, <2>4
<1>17. ASSUME NEW c \in Callers, RestartGoesOn(c) PROVE TypeOK'
  <2>1. RecordTypes'
    BY <1>17, SupervisorAssumption DEF SupervisorAssumption, RestartGoesOn, Goto, LetIn, record,
       RunId, States
  <2>2. FlagTypes'
    BY <1>17 DEF RestartGoesOn, Goto, LetIn, history
  <2>3. RunTypes'
    BY <1>17 DEF RestartGoesOn, Goto, LetIn
  <2>4. TaskTypes'
    BY <1>17 DEF RestartGoesOn, Goto, LetIn, Tasks, Stages, SpawnStages
  <2> QED
    BY <2>1, <2>2, <2>3, <2>4
<1>18. ASSUME WindowPasses PROVE TypeOK'
  <2>1. RecordTypes'
    BY <1>18, SupervisorAssumption DEF SupervisorAssumption, WindowPasses, record, RunId, States
  <2>2. FlagTypes'
    BY <1>18 DEF WindowPasses, history
  <2>3. RunTypes'
    BY <1>18 DEF WindowPasses
  <2>4. TaskTypes'
    BY <1>18 DEF WindowPasses
  <2> QED
    BY <2>1, <2>2, <2>3, <2>4
<1>19. ASSUME ShutdownBegins PROVE TypeOK'
  <2>1. RecordTypes'
    BY <1>19, SupervisorAssumption DEF SupervisorAssumption, ShutdownBegins, record, RunId, States
  <2>2. FlagTypes'
    BY <1>19 DEF ShutdownBegins, history
  <2>3. RunTypes'
    BY <1>19 DEF ShutdownBegins
  <2>4. TaskTypes'
    BY <1>19 DEF ShutdownBegins
  <2> QED
    BY <2>1, <2>2, <2>3, <2>4
<1>20. ASSUME NEW from, NEW to \in {"wait", "wait2"}, StopAll(from, to) PROVE TypeOK'
  <2>1. RecordTypes'
    BY <1>20, SupervisorAssumption DEF SupervisorAssumption, StopAll, RequestStop, record, RunId,
       States
  <2>2. FlagTypes'
    BY <1>20 DEF StopAll, RequestStop, history
  <2>3. RunTypes'
    BY <1>20 DEF StopAll, RequestStop
  <2>4. TaskTypes'
    BY <1>20 DEF StopAll, RequestStop
  <2> QED
    BY <2>1, <2>2, <2>3, <2>4
<1>21. ASSUME NEW from, NEW to \in {"join", "exited"}, StopAllReturns(from, to) PROVE TypeOK'
  <2>1. RecordTypes'
    BY <1>21, SupervisorAssumption DEF SupervisorAssumption, StopAllReturns, record, RunId, States
  <2>2. FlagTypes'
    BY <1>21 DEF StopAllReturns, history
  <2>3. RunTypes'
    BY <1>21 DEF StopAllReturns
  <2>4. TaskTypes'
    BY <1>21 DEF StopAllReturns
  <2> QED
    BY <2>1, <2>2, <2>3, <2>4
<1>22. CASE UNCHANGED vars
  <2>1. RecordTypes' /\ FlagTypes'
    BY <1>22 DEF vars
  <2>2. RunTypes' /\ TaskTypes'
    BY <1>22 DEF vars
  <2> QED
    BY <2>1, <2>2
<1> QED
  BY <1>1, <1>2, <1>3, <1>4, <1>5, <1>6, <1>7, <1>8, <1>9, <1>10, <1>11, <1>12, <1>13, <1>14,
     <1>15, <1>16, <1>17, <1>18, <1>19, <1>20, <1>21, <1>22
  DEF Next, Spawn, Monitor, Handler, Caller, Shutdown, StopAgain

\* The initial states are of the right types.
LEMMA TypeInit == Init => TypeOK
<1> SUFFICES ASSUME Init PROVE TypeOK
  OBVIOUS
<1>1. RecordTypes
  BY SupervisorAssumption DEF SupervisorAssumption, Init, RecordTypes, RunId, States
<1>2. FlagTypes
  BY DEF Init, FlagTypes
<1>3. RunTypes
  BY DEF Init, RunTypes
<1>4. TaskTypes
  BY SupervisorAssumption DEF SupervisorAssumption, Init, TaskTypes, RunId, Stages, SpawnStages
<1> QED
  BY <1>1, <1>2, <1>3, <1>4 DEF TypeOK

\* Types: every state, pid, run counter and task stage stays within its set, for
\* spawn_process, the monitors, handle_exit, the callers and the shutdown.
THEOREM TypeCorrect == Spec => []TypeOK
  BY TypeInit, TypeStep, PTL DEF Spec

\* The types are known in every step below.
USE DEF TypeOK, RecordTypes, FlagTypes, RunTypes, TaskTypes

\* A task that is spawning nothing moves to a stage that spawns nothing.
LEMMA QuietStructure ==
  ASSUME TypeOK, Structure, NEW t \in Tasks, NEW stage,
         pc' = [pc EXCEPT ![t] = stage], ~Spawned(t), stage \notin {"started", "arm"},
         t \in Runs => monitor[t] = "done",
         \A q \in Runs : child'[q] = child[q] \/ (q = t /\ child'[q] # "up"),
         UNCHANGED <<run, monitor, mine>>
  PROVE  Structure'
<1> USE DEF Structure
<1>1. \A u \in Tasks : Spawned(u)' <=> Spawned(u)
  BY DEF Spawned
<1>2. SpawnersRun' /\ SpawnersApart'
  BY <1>1 DEF SpawnersRun, SpawnersApart
<1>3. HandlerAfterMonitor'
  BY DEF HandlerAfterMonitor, Tasks
<1>4. LaterRunsUntouched'
  BY DEF LaterRunsUntouched
<1>5. LiveHasOwner'
  BY <1>1 DEF LiveHasOwner, Live, Watched
<1> QED
  BY <1>2, <1>3, <1>4, <1>5

\* SpawnFork: the run forked, if any, is new, and its task's alone.
LEMMA ForkStructure == ASSUME TypeOK, Structure, NEW t \in Tasks, SpawnFork(t) PROVE Structure'
<1> USE DEF Structure
<1>1. CASE /\ run < MaxRuns /\ run' = run + 1
           /\ child' = [child EXCEPT ![run + 1] = "up"]
           /\ mine' = [mine EXCEPT ![t] = run + 1]
           /\ pc' = [pc EXCEPT ![t] = "started"]
  <2>1. run + 1 \in Runs /\ run \in Nat
    BY <1>1, SupervisorAssumption DEF SupervisorAssumption, Runs, RunId
  <2>2. pc[t] = "fork" /\ monitor' = monitor
    BY DEF SpawnFork
  <2>3. child[run + 1] = "none" /\ monitor[run + 1] = "none"
    BY <2>1 DEF LaterRunsUntouched
  <2> HIDE DEF TypeOK
  <2>4. \A u \in Tasks : Spawned(u)' => u = t \/ (Spawned(u) /\ mine'[u] = mine[u])
    BY <1>1, <2>2 DEF Spawned, TypeOK
  <2>5. mine'[t] = run + 1 /\ Spawned(t)' /\ ~Spawned(t)
    BY <1>1, <2>2 DEF Spawned, TypeOK
  <2>6. SpawnersRun'
    BY <1>1, <2>1, <2>2, <2>3, <2>4, <2>5 DEF SpawnersRun, Runs
  <2>7. SpawnersApart'
    BY <2>1, <2>4, <2>5 DEF SpawnersApart, SpawnersRun, Runs
  <2>8. HandlerAfterMonitor'
    BY <1>1, <2>2 DEF HandlerAfterMonitor, TypeOK
  <2>9. LaterRunsUntouched'
    BY <1>1, <2>1, <2>2 DEF LaterRunsUntouched, Runs, TypeOK
  <2>10. LiveHasOwner'
    <3>1. ASSUME NEW q \in Runs, Live(q)', q # run + 1 PROVE Watched(q)'
       \/ \E u \in Tasks : Spawned(u)' /\ mine'[u] = q
      <4>1. Live(q)
        BY <1>1, <3>1 DEF Live, TypeOK
      <4>2. \A u \in Tasks : Spawned(u) => Spawned(u)' /\ mine'[u] = mine[u]
        BY <1>1, <2>2, <2>5 DEF Spawned, TypeOK
      <4> QED
        BY <2>2, <4>1, <4>2 DEF LiveHasOwner, Watched
    <3> QED
      BY <2>5, <3>1 DEF LiveHasOwner
  <2> QED
    BY <2>6, <2>7, <2>8, <2>9, <2>10
<1>2. CASE /\ run' \in {run, run + 1} /\ child' = child /\ mine' = mine
           /\ (pc' = [pc EXCEPT ![t] = "spawn_failed"] \/ pc' = [pc EXCEPT ![t] = "done"])
  <2>1. pc[t] = "fork" /\ monitor' = monitor /\ run \in Nat
    BY SupervisorAssumption DEF SpawnFork, SupervisorAssumption, RunId
  <2>2. \A u \in Tasks : Spawned(u)' <=> Spawned(u)
    BY <1>2, <2>1 DEF Spawned
  <2>3. SpawnersRun' /\ SpawnersApart'
    BY <1>2, <2>1, <2>2 DEF SpawnersRun, SpawnersApart, Runs
  <2>4. HandlerAfterMonitor'
    <3>1. ASSUME NEW r \in Runs, monitor'[r] # "done" PROVE pc'[r] = "idle"
      <4>1. pc[r] = "idle"
        BY <2>1, <3>1 DEF HandlerAfterMonitor
      <4> QED
        BY <1>2, <2>1, <4>1 DEF Tasks
    <3> QED
      BY <3>1 DEF HandlerAfterMonitor
  <2>5. LaterRunsUntouched'
    BY <1>2, <2>1 DEF LaterRunsUntouched, Runs
  <2>6. LiveHasOwner'
    BY <1>2, <2>1, <2>2 DEF LiveHasOwner, Live, Watched
  <2> QED
    BY <2>3, <2>4, <2>5, <2>6
<1> QED
  BY <1>1, <1>2 DEF SpawnFork, SpawnError, Goto

\* SpawnArm: the run gets its monitor.
LEMMA ArmStructure == ASSUME TypeOK, Structure, NEW t \in Tasks, SpawnArm(t) PROVE Structure'
<1> USE DEF Structure
<1>1. PICK m \in Runs : m = mine[t] /\ m <= run /\ monitor[m] = "none" /\ Spawned(t) /\ pc[t] = "arm"
  BY DEF SpawnArm, SpawnersRun, Spawned
<1>2. monitor' = [monitor EXCEPT ![m] = "watch"] /\ run' = run
  BY <1>1 DEF SpawnArm
<1>3. \A u \in Tasks : Spawned(u)' <=> Spawned(u) /\ u # t
  BY DEF SpawnArm, Goto, Spawned
<1>4. \A u \in Tasks : u # t => mine'[u] = mine[u]
  BY DEF SpawnArm
<1>5. SpawnersRun'
  BY <1>1, <1>2, <1>3, <1>4 DEF SpawnersRun, SpawnersApart
<1>6. SpawnersApart'
  BY <1>3, <1>4 DEF SpawnersApart
<1>7. HandlerAfterMonitor'
  BY <1>1, <1>2 DEF HandlerAfterMonitor, SpawnArm, Goto
<1>8. \A q \in Runs : child'[q] = child[q] \/ (child'[q] = "gone" /\ q = t)
  BY DEF SpawnArm, Settled
<1>9. LaterRunsUntouched'
  <2>1. ASSUME NEW r \in Runs,
     r > run PROVE r # m /\ r # t /\ child[r] = "none" /\ monitor[r] = "none"
    BY <1>1, <2>1, SupervisorAssumption
    DEF SupervisorAssumption, LaterRunsUntouched, HandlerAfterMonitor, Runs, RunId
  <2> QED
    BY <1>2, <1>8, <2>1 DEF LaterRunsUntouched
<1>10. LiveHasOwner'
  <2>1. \A q \in Runs : Live(q)' => Live(q)
    BY <1>8 DEF Live
  <2>2. Watched(m)' /\ \A q \in Runs : Watched(q) => Watched(q)'
    BY <1>1, <1>2 DEF Watched
  <2> QED
    BY <1>1, <1>3, <1>4, <2>1, <2>2 DEF LiveHasOwner
<1> QED
  BY <1>5, <1>6, <1>7, <1>9, <1>10

\* One monitor's step.
LEMMA MonitorStructure == ASSUME TypeOK, Structure, NEW r \in Runs, Monitor(r) PROVE Structure'
<1> USE DEF Structure
<1>1. Watched(r) /\ pc[r] = "idle" /\ monitor' = [monitor EXCEPT ![r] = monitor'[r]]
  BY DEF Monitor, MonitorSeesExit, MonitorTakesKill, MonitorStopped, KillRequested, Watched,
         HandlerAfterMonitor
<1>2. run' = run /\ \A u \in Tasks : (Spawned(u)' <=> Spawned(u)) /\ mine'[u] = mine[u]
  BY <1>1 DEF Monitor, MonitorSeesExit, MonitorTakesKill, MonitorStopped, Spawned, Goto, record
<1>3. Watched(r)' \/ ~Live(r)'
  BY <1>1 DEF Monitor, MonitorSeesExit, MonitorTakesKill, MonitorStopped, Watched, Live
<1>4. \A q \in Runs : Live(q)' => Live(q)
  BY DEF Monitor, MonitorSeesExit, MonitorTakesKill, MonitorStopped, Live
<1>5. SpawnersRun' /\ SpawnersApart'
  BY <1>1, <1>2 DEF SpawnersRun, SpawnersApart, Watched
<1>6. HandlerAfterMonitor'
  <2>1. CASE MonitorSeesExit(r)
    BY <2>1 DEF MonitorSeesExit, HandlerAfterMonitor, Goto
  <2>2. CASE MonitorTakesKill(r) \/ MonitorStopped(r)
    BY <1>1, <2>2 DEF MonitorTakesKill, MonitorStopped, HandlerAfterMonitor
  <2> QED
    BY <2>1, <2>2 DEF Monitor
<1>7. LaterRunsUntouched'
  <2>1. ~(r > run)
    BY <1>1 DEF LaterRunsUntouched, Watched
  <2>2. \A q \in Runs : q # r => child'[q] = child[q] /\ monitor'[q] = monitor[q]
    BY <1>1 DEF Monitor, MonitorSeesExit, MonitorTakesKill, MonitorStopped
  <2> QED
    BY <1>2, <2>1, <2>2 DEF LaterRunsUntouched
<1>8. LiveHasOwner'
  BY <1>1, <1>2, <1>3, <1>4 DEF LiveHasOwner, Watched
<1> QED
  BY <1>5, <1>6, <1>7, <1>8

\* Any step.
LEMMA StructureStep == TypeOK /\ Structure /\ [Next]_vars => Structure'
<1> SUFFICES ASSUME TypeOK, Structure, [Next]_vars PROVE Structure'
  OBVIOUS
<1>a. \A r \in Runs : pc[r] # "idle" => monitor[r] = "done"
  BY DEF Structure, HandlerAfterMonitor
<1>b. \A c \in Callers : c \notin Runs
  BY SupervisorAssumption DEF SupervisorAssumption
<1>1. ASSUME NEW t \in Tasks, SpawnCheck(t) PROVE Structure'
  BY <1>1, <1>a, QuietStructure DEF SpawnCheck, SpawnError, Goto, Spawned, record
<1>2. ASSUME NEW t \in Tasks, SpawnFork(t) PROVE Structure'
  BY <1>2, ForkStructure
<1>3. ASSUME NEW t \in Tasks, SpawnRecord(t) PROVE Structure'
  <2>1. \A u \in Tasks : Spawned(u)' <=> Spawned(u)
    BY <1>3 DEF SpawnRecord, Goto, Spawned
  <2>2. HandlerAfterMonitor'
    BY <1>3, <1>a DEF SpawnRecord, Goto, Structure, HandlerAfterMonitor, Tasks
  <2> QED
    BY <1>3, <2>1, <2>2 DEF SpawnRecord, Structure, SpawnersRun, SpawnersApart,
       LaterRunsUntouched, LiveHasOwner, Live, Watched
<1>4. ASSUME NEW t \in Tasks, SpawnArm(t) PROVE Structure'
  BY <1>4, ArmStructure
<1>5. ASSUME NEW r \in Runs, ChildExits(r) PROVE Structure'
  <2>1. \A q \in Runs : Live(q)' => Live(q)
    BY <1>5 DEF ChildExits, Live
  <2>2. LaterRunsUntouched'
    BY <1>5 DEF ChildExits, Live, record, Structure, LaterRunsUntouched
  <2> QED
    BY <1>5, <2>1, <2>2 DEF ChildExits, record, Structure, SpawnersRun, SpawnersApart, Spawned,
       HandlerAfterMonitor, LiveHasOwner, Watched
<1>6. ASSUME NEW r \in Runs, Monitor(r) PROVE Structure'
  BY <1>6, MonitorStructure
<1>7. ASSUME NEW r \in Runs, ExitRecorded(r) \/ ExitChecked(r) PROVE Structure'
  <2>1. ~Spawned(r) /\ monitor[r] = "done" /\ r \in Tasks /\ UNCHANGED <<run, monitor, mine>>
    BY <1>7, <1>a DEF ExitRecorded, ExitChecked, Spawned, Tasks
  <2>2. CASE ExitRecorded(r)
    <3>1. pc' = [pc EXCEPT ![r] = "recorded"] /\ child' = child
      BY <2>2 DEF ExitRecorded, Goto
    <3>2. \A q \in Runs : child'[q] = child[q] \/ (q = r /\ child'[q] # "up")
      BY <3>1
    <3> HIDE DEF TypeOK
    <3> QED
      BY <2>1, <3>1, <3>2, QuietStructure
  <2>3. CASE ExitChecked(r)
    BY <2>1, <2>3, QuietStructure DEF ExitChecked, Settled, Goto
  <2> QED
    BY <1>7, <2>2, <2>3
<1>8. ASSUME NEW r \in Runs, ExitDecided(r) PROVE Structure'
  <2>1. PICK how \in Exits : Decision(r, how)
    BY <1>8 DEF ExitDecided
  <2>2. ASSUME NEW s, NEW fails, LeaveDown(r, s, fails) PROVE Structure'
    BY <1>8, <1>a, <2>2, QuietStructure DEF ExitDecided, LeaveDown, Settled, Goto, Spawned, Tasks
  <2>3. ASSUME NEW s, Schedule(r, how, s) PROVE Structure'
    BY <1>8, <1>a, <2>3, QuietStructure DEF ExitDecided, Exits, Schedule, Goto, Spawned, Tasks
  <2> QED
    BY <2>1, <2>2, <2>3, DecisionCases
<1>9. ASSUME NEW r \in Runs, CoolOffEnds(r) PROVE Structure'
  BY <1>9, <1>a, QuietStructure DEF CoolOffEnds, Settled, Goto, Spawned, Tasks
<1>10. ASSUME NEW r \in Runs, RestartFailed(r) PROVE Structure'
  BY <1>10, <1>a, QuietStructure DEF RestartFailed, Settled, Goto, Spawned, Tasks
<1>11. ASSUME NEW c \in Callers, Caller(c) PROVE Structure'
  BY <1>11, <1>b, QuietStructure DEF Caller, ApiStart, ApiStop, ApiRestart, RestartGoesOn,
     Goto, Spawned, Tasks, record
<1>12. CASE \/ WindowPasses \/ ShutdownBegins \/ UNCHANGED vars
            \/ \E from, to : StopAll(from, to) \/ StopAllReturns(from, to)
  <2>1. UNCHANGED <<run, child, monitor, pc, mine>>
    BY <1>12 DEF WindowPasses, ShutdownBegins, StopAll, StopAllReturns, vars, record
  <2> QED
    BY <2>1 DEF Structure, SpawnersRun, SpawnersApart, HandlerAfterMonitor, LaterRunsUntouched,
       LiveHasOwner, Live, Watched, Spawned
<1> QED
  BY <1>1, <1>2, <1>3, <1>4, <1>5, <1>6, <1>7, <1>8, <1>9, <1>10, <1>11, <1>12
  DEF Next, Spawn, Handler, Shutdown, StopAgain

\* A step after which no task or run has become responsible for the process.
LEMMA OwnersFrame ==
  ASSUME Ownership, overlap => overlap',
         \A u \in Tasks : Busy(u)' => Busy(u), \A q \in Runs : Watched(q)' => Watched(q)
  PROVE  Ownership'
  BY DEF Ownership

\* A step by which one owner hands the process to another.
LEMMA Handover ==
  ASSUME Ownership, UNCHANGED overlap, NEW t \in Tasks, NEW m \in Runs,
         \/ Busy(t) /\ ~Busy(t)' /\ (\A q \in Runs : Watched(q)' => Watched(q) \/ q = m)
              /\ (\A u \in Tasks : Busy(u)' => Busy(u))
         \/ Watched(m) /\ ~Watched(m)' /\ (\A q \in Runs : Watched(q)' => Watched(q))
              /\ (\A u \in Tasks : Busy(u)' => Busy(u) \/ u = t)
  PROVE  Ownership'
  BY DEF Ownership

\* A caller is let in: the process had no owner, or overlap says so.
LEMMA LetInOwnership ==
  ASSUME Ownership, NEW c \in Tasks, LetIn, UNCHANGED monitor,
         \A u \in Tasks : Busy(u)' => Busy(u) \/ u = c
  PROVE  Ownership'
<1>1. CASE Owners # {} \/ overlap
  BY <1>1 DEF LetIn, Ownership
<1>2. CASE Owners = {} /\ ~overlap
  <2>1. (\A u \in Tasks : ~Busy(u)) /\ \A q \in Runs : ~Watched(q)
    BY <1>2 DEF Owners
  <2>2. \A q \in Runs : ~Watched(q)'
    BY <2>1 DEF Watched
  <2> QED
    BY <2>1, <2>2 DEF Ownership
<1> QED
  BY <1>1, <1>2

\* Any step.
LEMMA OwnershipStep == TypeOK /\ Structure /\ Ownership /\ [Next]_vars => Ownership'
<1> SUFFICES ASSUME TypeOK, Structure, Ownership, [Next]_vars PROVE Ownership'
  OBVIOUS
<1> USE DEF Busy, SpawnStages
<1>1. ASSUME NEW t \in Tasks, SpawnCheck(t) PROVE Ownership'
  BY <1>1, OwnersFrame DEF SpawnCheck, SpawnError, Goto, history, Watched
<1>2. ASSUME NEW t \in Tasks, SpawnFork(t) PROVE Ownership'
  BY <1>2, OwnersFrame DEF SpawnFork, SpawnError, Goto, history, Watched
<1>3. ASSUME NEW t \in Tasks, SpawnRecord(t) PROVE Ownership'
  BY <1>3, OwnersFrame DEF SpawnRecord, Goto, history, Watched
<1>4. ASSUME NEW t \in Tasks, SpawnArm(t) PROVE Ownership'
  <2>1. PICK m \in Runs : m = mine[t]
    BY <1>4 DEF SpawnArm, Structure, SpawnersRun, Spawned
  <2>2. Busy(t) /\ ~Busy(t)' /\ \A u \in Tasks : Busy(u)' => Busy(u)
    BY <1>4 DEF SpawnArm, Goto
  <2>3. (\A q \in Runs : Watched(q)' => Watched(q) \/ q = m) /\ UNCHANGED overlap
    BY <1>4, <2>1 DEF SpawnArm, Watched, history
  <2> QED
    BY <2>2, <2>3, Handover
<1>5. ASSUME NEW r \in Runs, ChildExits(r) PROVE Ownership'
  BY <1>5, OwnersFrame DEF ChildExits, history, Watched
<1>6. ASSUME NEW r \in Runs, MonitorSeesExit(r) PROVE Ownership'
  <2>1. Watched(r) /\ ~Watched(r)' /\ \A q \in Runs : Watched(q)' => Watched(q)
    BY <1>6 DEF MonitorSeesExit, Watched
  <2>2. (\A u \in Tasks : Busy(u)' => Busy(u) \/ u = r) /\ UNCHANGED overlap /\ r \in Tasks
    BY <1>6 DEF MonitorSeesExit, Goto, history, Tasks
  <2> QED
    BY <2>1, <2>2, Handover
<1>7. ASSUME NEW r \in Runs, MonitorTakesKill(r) \/ MonitorStopped(r) PROVE Ownership'
  BY <1>7, OwnersFrame DEF MonitorTakesKill, MonitorStopped, KillRequested, history, Watched
<1>8. ASSUME NEW r \in Runs, ExitRecorded(r) \/ ExitChecked(r) PROVE Ownership'
  BY <1>8, OwnersFrame DEF ExitRecorded, ExitChecked, Goto, history, Watched
<1>9. ASSUME NEW r \in Runs, ExitDecided(r) PROVE Ownership'
  <2>1. PICK how \in Exits : Decision(r, how)
    BY <1>9 DEF ExitDecided
  <2>2. PICK stage : pc' = [pc EXCEPT ![r] = stage]
    BY <2>1, DecisionCases DEF LeaveDown, Schedule, Goto
  <2> QED
    BY <1>9, <2>2, OwnersFrame DEF ExitDecided, history, Watched
<1>10. ASSUME NEW r \in Runs, CoolOffEnds(r) \/ RestartFailed(r) PROVE Ownership'
  BY <1>10, OwnersFrame DEF CoolOffEnds, RestartFailed, Goto, history, Watched
<1>11. ASSUME NEW c \in Callers, ApiStart(c) \/ RestartGoesOn(c) PROVE Ownership'
  <2>1. LetIn /\ c \in Tasks /\ UNCHANGED monitor /\ \A u \in Tasks : Busy(u)' => Busy(u) \/ u = c
    BY <1>11 DEF ApiStart, RestartGoesOn, Goto, Tasks
  <2> QED
    BY <2>1, LetInOwnership
<1>12. ASSUME NEW c \in Callers, ApiStop(c) PROVE Ownership'
  BY <1>12, OwnersFrame DEF ApiStop, Goto, Watched
<1>13. ASSUME NEW c \in Callers, ApiRestart(c) PROVE Ownership'
  <2>1. CASE state = "Running"
    BY <1>13, <2>1, OwnersFrame DEF ApiRestart, Goto, history, Watched
  <2>2. CASE state # "Running"
    <3>1. LetIn /\ c \in Tasks /\ UNCHANGED monitor /\ \A u \in Tasks : Busy(u)' => Busy(u)
       \/ u = c
      BY <1>13, <2>2 DEF ApiRestart, Goto, Tasks
    <3> QED
      BY <3>1, LetInOwnership
  <2> QED
    BY <2>1, <2>2
<1>14. CASE \/ WindowPasses \/ ShutdownBegins \/ UNCHANGED vars
            \/ \E from, to : StopAll(from, to) \/ StopAllReturns(from, to)
  <2>1. UNCHANGED <<overlap, monitor, pc>>
    BY <1>14 DEF WindowPasses, ShutdownBegins, StopAll, StopAllReturns, vars, history
  <2> QED
    BY <2>1, OwnersFrame DEF Watched
<1> QED
  BY <1>1, <1>2, <1>3, <1>4, <1>5, <1>6, <1>7, <1>8, <1>9, <1>10, <1>11, <1>12, <1>13, <1>14
  DEF Next, Spawn, Monitor, Handler, Caller, Shutdown, StopAgain

LEMMA OwnerInit == Init => OwnerInv
<1>1. Init => Structure
  <2> SUFFICES ASSUME Init PROVE Structure
    OBVIOUS
  <2>1. \A t \in Tasks : ~Spawned(t)
    BY DEF Init, Spawned
  <2>2. \A r \in Runs : child[r] = "none" /\ monitor[r] = "none" /\ pc[r] = "idle"
    BY SupervisorAssumption DEF SupervisorAssumption, Init, Tasks
  <2> QED
    BY <2>1, <2>2 DEF Structure, SpawnersRun, SpawnersApart, HandlerAfterMonitor,
       LaterRunsUntouched, LiveHasOwner, Live
<1>2. Init => Ownership
  BY DEF Init, Ownership, Busy, SpawnStages, Watched
<1> QED
  BY <1>1, <1>2, TypeInit DEF OwnerInv

LEMMA OwnerStep == OwnerInv /\ [Next]_vars => OwnerInv'
  BY TypeStep, StructureStep, OwnershipStep DEF OwnerInv

\* One owner at a time, until a start is let in too early: the inductive
\* invariant, over spawn_process, the monitors, handle_exit, callers, shutdown.
THEOREM OwnerInvCorrect == Spec => []OwnerInv
  BY OwnerInit, OwnerStep, PTL DEF Spec

\* Two children of one process never live side by side unless a start or a
\* restart was let in while the process had an owner: a child that lives is
\* watched by its monitor or is being spawned, and either is the one owner.
THEOREM OneChildCorrect == Spec => []OneChild
<1>1. OwnerInv => OneChild
  <2> SUFFICES ASSUME OwnerInv, ~overlap, NEW r \in Runs, NEW s \in Runs, Live(r), Live(s)
               PROVE  r = s
    BY DEF OneChild
  <2>1. \A t \in Tasks : Spawned(t) => Busy(t)
    BY DEF Spawned, Busy, SpawnStages
  <2>2. /\ Watched(r) \/ \E t \in Tasks : Spawned(t) /\ mine[t] = r
        /\ Watched(s) \/ \E t \in Tasks : Spawned(t) /\ mine[t] = s
    BY DEF OwnerInv, Structure, LiveHasOwner
  <2> QED
    BY <2>1, <2>2 DEF OwnerInv, Ownership
<1> QED
  BY <1>1, OwnerInvCorrect, PTL

-----------------------------------------------------------------------------
(***************************************************************************)
(* The record: what it shows is what the process's one owner is doing.     *)
(***************************************************************************)
Alive   == {"Running", "Stopping"}
BackOff == {"Restarting", "CrashLoopBackOff"}

\* Before its spawn and after its exit is decided, a process has no pid and is
\* not shown as running; the start order finds it Pending, and the handler of
\* an exit leaves it in a delay until it forks.
NotYetUp(t) ==
  /\ pc[t] \in {"spawn", "fork", "started", "spawn_failed", "cooloff"} => pid = 0 /\ state \notin Alive
  /\ t = Boot /\ pc[t] \in {"spawn", "fork"} => state = "Pending"
  /\ t \in Runs /\ pc[t] \in {"cooloff", "spawn", "fork"} => state \in BackOff
  /\ pc[t] = "started" => state = "Starting"

\* From SpawnRecord on, through the exit and until it is decided, the record says
\* so; the restarts read by the exit handler are no fewer than there are.
ShownUp(t) ==
  /\ pc[t] = "arm" => pid = mine[t] /\ state \in Alive
  /\ pc[t] \in {"queued", "recorded", "archive"} => state \in Alive
  /\ pc[t] \in {"recorded", "archive"} => pid = 0
  /\ t \in Runs /\ pc[t] \in {"recorded", "archive"} => in_window <= seen[t]

WatchedShown(r) ==
  Watched(r) => pid = r /\ state \in Alive /\ (state = "Running" => kill_tx = r)

Unowned == (\A t \in Tasks : ~Busy(t)) /\ (\A r \in Runs : ~Watched(r))

DelayHandled ==
  state \in BackOff => \E r \in Runs : pc[r] \in {"cooloff", "spawn", "fork", "spawn_failed"}

WithinBudget == cfg.policy # "None" \/ in_window <= cfg.max_restarts

RecordShows ==
  /\ \A t \in Tasks : NotYetUp(t) /\ ShownUp(t)
  /\ \A r \in Runs : WatchedShown(r)
  /\ Unowned => pid = 0 /\ state \notin Alive
  /\ DelayHandled /\ WithinBudget

RecordInv == OwnerInv /\ (overlap \/ RecordShows)

\* With one owner, all else is idle.
LEMMA OneTask ==
  ASSUME OwnerInv, ~overlap, NEW t \in Tasks, Busy(t)
  PROVE  (\A u \in Tasks \ {t} : ~Busy(u)) /\ \A r \in Runs : ~Watched(r)
  BY DEF OwnerInv, Ownership

LEMMA OneMonitor ==
  ASSUME OwnerInv, ~overlap, NEW r \in Runs, Watched(r)
  PROVE  (\A t \in Tasks : ~Busy(t)) /\ \A q \in Runs \ {r} : ~Watched(q)
  BY DEF OwnerInv, Ownership

\* Of the tasks only the owner has to be looked at.
LEMMA OwnerShows ==
  ASSUME NEW t \in Tasks, \A u \in Tasks \ {t} : ~Busy(u)', \A r \in Runs : ~Watched(r)',
         NotYetUp(t)', ShownUp(t)', ~Busy(t)' => pid' = 0 /\ state' \notin Alive,
         DelayHandled', WithinBudget'
  PROVE  RecordShows'
<1>1. ASSUME NEW u \in Tasks PROVE NotYetUp(u)' /\ ShownUp(u)'
  <2>1. CASE u = t
    BY <2>1
  <2>2. CASE u # t
    BY <2>2 DEF NotYetUp, ShownUp, Busy, SpawnStages
  <2> QED BY <2>1, <2>2
<1>2. \A r \in Runs : WatchedShown(r)'
  BY DEF WatchedShown
<1>3. Unowned' => pid' = 0 /\ state' \notin Alive
  BY DEF Unowned
<1> QED BY <1>1, <1>2, <1>3 DEF RecordShows, Alive

\* A step that owners have no part in: a child's exit, the clock, main, a stop.
LEMMA SameOwners ==
  ASSUME TypeOK, RecordShows, UNCHANGED <<pid, cfg, mine, seen, monitor>>,
         in_window' \in Nat, in_window' <= in_window,
         \A t \in Tasks : pc'[t] = pc[t] \/ (~Busy(t) /\ ~Busy(t)'),
         UNCHANGED <<state, kill_tx>> \/ (state = "Running" /\ RequestStop)
  PROVE  RecordShows'
<1>1. \A r \in Runs : in_window <= seen[r] => in_window' <= seen'[r]
  BY DEF TypeOK, RecordTypes, RunTypes
<1>2. WithinBudget'
  <2>1. CASE cfg.policy = "None"
    <3>1. in_window <= cfg.max_restarts /\ cfg.max_restarts \in Nat
      BY <2>1, SupervisorAssumption
      DEF SupervisorAssumption, RecordShows, WithinBudget, TypeOK, RecordTypes, ConfigType
    <3> QED BY <3>1 DEF TypeOK, RecordTypes, WithinBudget
  <2> QED BY <2>1 DEF WithinBudget
<1>3. state \in Alive <=> state' \in Alive
  BY DEF RequestStop, Alive
<1>4. /\ state' = "Running" => state = "Running" /\ kill_tx' = kill_tx
      /\ state # "Running" => state' = state
      /\ state' \in BackOff => state \in BackOff
  BY DEF RequestStop, BackOff
<1>5. ASSUME NEW t \in Tasks PROVE NotYetUp(t)' /\ ShownUp(t)'
  <2>1. CASE ~Busy(t)'
    BY <2>1 DEF NotYetUp, ShownUp, Busy, SpawnStages
  <2>2. CASE pc'[t] = pc[t]
    <3>1. NotYetUp(t) /\ ShownUp(t)
      BY DEF RecordShows
    <3>2. NotYetUp(t)'
      BY <2>2, <3>1, <1>3, <1>4 DEF NotYetUp, Alive, BackOff
    <3>3. ShownUp(t)'
      BY <2>2, <3>1, <1>1, <1>3 DEF ShownUp
    <3> QED BY <3>2, <3>3
  <2> QED BY <2>1, <2>2
<1>6. \A r \in Runs : WatchedShown(r)'
  BY <1>3, <1>4 DEF RecordShows, WatchedShown, Watched
<1>7. Unowned' => pid' = 0 /\ state' \notin Alive
  <2>1. Unowned' => Unowned
    BY DEF Unowned, Busy, Watched
  <2> QED BY <2>1, <1>3 DEF RecordShows
<1>8. DelayHandled'
  BY <1>4 DEF RecordShows, DelayHandled, Busy, SpawnStages, Tasks
<1> QED BY <1>2, <1>5, <1>6, <1>7, <1>8 DEF RecordShows

\* spawn_process, whoever runs it.
LEMMA SpawnShows ==
  ASSUME OwnerInv, RecordShows, ~overlap, NEW t \in Tasks, Spawn(t) PROVE RecordShows'
<1> USE DEF Goto, SpawnError
<1>1. Busy(t)
  BY DEF Spawn, SpawnCheck, SpawnFork, SpawnRecord, SpawnArm, Busy, SpawnStages
<1>2. (\A u \in Tasks \ {t} : ~Busy(u)) /\ \A r \in Runs : ~Watched(r)
  BY <1>1, OneTask
<1>3. NotYetUp(t) /\ ShownUp(t) /\ DelayHandled /\ WithinBudget
  BY DEF RecordShows
<1>4. \A u \in Tasks \ {t} : ~Busy(u)'
  <2>1. \A u \in Tasks \ {t} : pc'[u] = pc[u]
    BY DEF Spawn, SpawnCheck, SpawnFork, SpawnRecord, SpawnArm, OwnerInv, TypeOK, TaskTypes
  <2> QED BY <2>1, <1>2 DEF Busy
<1>5. WithinBudget'
  BY <1>3 DEF Spawn, SpawnCheck, SpawnFork, SpawnRecord, SpawnArm, WithinBudget, record
<1>6. CASE SpawnCheck(t)
  <2>1. /\ UNCHANGED <<pid, state, monitor>> /\ pc[t] = "spawn"
        /\ \/ pc' = [pc EXCEPT ![t] = "fork"]
           \/ t \in Runs /\ pc' = [pc EXCEPT ![t] = "spawn_failed"]
           \/ t \notin Runs /\ pc' = [pc EXCEPT ![t] = "done"]
    BY <1>6 DEF SpawnCheck, record
  <2>2. pc \in [Tasks -> Stages]
    BY DEF OwnerInv, TypeOK, TaskTypes
  <2>3. NotYetUp(t)' /\ ShownUp(t)'
    BY <2>1, <2>2, <1>3 DEF NotYetUp, ShownUp
  <2>4. pid' = 0 /\ state' \notin Alive
    BY <2>1, <1>3 DEF NotYetUp, Alive
  <2>5. DelayHandled'
    <3> SUFFICES ASSUME state \in BackOff
                 PROVE  \E r \in Runs : pc'[r] \in {"cooloff", "spawn", "fork", "spawn_failed"}
      BY <2>1 DEF DelayHandled, BackOff
    <3>1. PICK r \in Runs : pc[r] \in {"cooloff", "spawn", "fork", "spawn_failed"}
      BY <1>3 DEF DelayHandled
    <3>2. r = t
      BY <3>1, <1>2 DEF Busy, SpawnStages, Tasks
    <3> QED BY <2>1, <2>2, <3>1, <3>2
  <2>6. \A r \in Runs : ~Watched(r)'
    BY <2>1, <1>2 DEF Watched
  <2> QED BY <1>4, <1>5, <2>3, <2>4, <2>5, <2>6, OwnerShows
<1>7. CASE SpawnFork(t)
  <2>1. /\ UNCHANGED <<pid, monitor>> /\ pc[t] = "fork" /\ state' = "Starting"
        /\ \/ pc' = [pc EXCEPT ![t] = "started"]
           \/ t \in Runs /\ pc' = [pc EXCEPT ![t] = "spawn_failed"]
           \/ t \notin Runs /\ pc' = [pc EXCEPT ![t] = "done"]
    BY <1>7 DEF SpawnFork
  <2>2. pc \in [Tasks -> Stages]
    BY DEF OwnerInv, TypeOK, TaskTypes
  <2>3. NotYetUp(t)' /\ ShownUp(t)'
    BY <2>1, <2>2, <1>3 DEF NotYetUp, ShownUp, Alive
  <2>4. pid' = 0 /\ state' \notin Alive
    BY <2>1, <1>3 DEF NotYetUp, Alive
  <2>5. DelayHandled' /\ \A r \in Runs : ~Watched(r)'
    BY <2>1, <1>2 DEF DelayHandled, BackOff, Watched
  <2> QED BY <1>4, <1>5, <2>3, <2>4, <2>5, OwnerShows
<1>8. CASE SpawnRecord(t)
  <2>1. /\ UNCHANGED <<mine, monitor>> /\ pid' = mine[t] /\ state' = "Running"
        /\ pc' = [pc EXCEPT ![t] = "arm"]
    BY <1>8 DEF SpawnRecord
  <2>2. pc \in [Tasks -> Stages]
    BY DEF OwnerInv, TypeOK, TaskTypes
  <2>3. NotYetUp(t)' /\ ShownUp(t)' /\ Busy(t)'
    BY <2>1, <2>2 DEF NotYetUp, ShownUp, Alive, Busy, SpawnStages
  <2>4. DelayHandled' /\ \A r \in Runs : ~Watched(r)'
    BY <2>1, <1>2 DEF DelayHandled, BackOff, Watched
  <2> QED BY <1>4, <1>5, <2>3, <2>4, OwnerShows
<1>9. CASE SpawnArm(t)
  <2>1. pid' = pid /\ state' = state /\ kill_tx' = mine[t] /\ pid = mine[t] /\ state \in Alive
    BY <1>9, <1>3 DEF SpawnArm, ShownUp
  <2>2. mine[t] \in Runs /\ monitor' = [monitor EXCEPT ![mine[t]] = "watch"]
    BY <1>9 DEF SpawnArm, OwnerInv, Structure, SpawnersRun, Spawned
  <2>3. ~Busy(t)'
    BY <1>9 DEF SpawnArm, Busy, SpawnStages, OwnerInv, TypeOK, TaskTypes
  <2>4. \A u \in Tasks : NotYetUp(u)' /\ ShownUp(u)'
    BY <1>4, <2>3 DEF NotYetUp, ShownUp, Busy, SpawnStages
  <2>5. \A r \in Runs : WatchedShown(r)'
    BY <2>1, <2>2, <1>2 DEF WatchedShown, Watched
  <2>6. ~Unowned'
    BY <2>2 DEF Unowned, Watched, OwnerInv, TypeOK, RunTypes
  <2>7. DelayHandled'
    BY <2>1 DEF DelayHandled, BackOff, Alive
  <2> QED BY <1>5, <2>4, <2>5, <2>6, <2>7 DEF RecordShows
<1> QED BY <1>6, <1>7, <1>8, <1>9 DEF Spawn

\* The monitor of the run that is watched.
LEMMA MonitorShows ==
  ASSUME OwnerInv, RecordShows, ~overlap, NEW r \in Runs, Monitor(r) PROVE RecordShows'
<1>1. Watched(r)
  BY DEF Monitor, MonitorSeesExit, MonitorTakesKill, MonitorStopped, KillRequested, Watched
<1>2. (\A t \in Tasks : ~Busy(t)) /\ \A q \in Runs \ {r} : ~Watched(q)
  BY <1>1, OneMonitor
<1>3. pid = r /\ state \in Alive /\ (state = "Running" => kill_tx = r) /\ WithinBudget
  BY <1>1 DEF RecordShows, WatchedShown
<1>4. r \in Tasks /\ monitor \in [Runs -> {"none", "watch", "stopping", "done"}] /\ pc \in [Tasks -> Stages]
  BY DEF Tasks, OwnerInv, TypeOK, RunTypes, TaskTypes
<1>5. WithinBudget'
  BY <1>3 DEF Monitor, MonitorSeesExit, MonitorTakesKill, MonitorStopped, WithinBudget, record
<1>6. CASE MonitorSeesExit(r)
  <2>1. /\ UNCHANGED state /\ monitor' = [monitor EXCEPT ![r] = "done"]
        /\ pc' = [pc EXCEPT ![r] = "queued"]
    BY <1>6 DEF MonitorSeesExit, record, Goto
  <2>2. (\A u \in Tasks \ {r} : ~Busy(u)') /\ \A q \in Runs : ~Watched(q)'
    BY <2>1, <1>2, <1>4 DEF Busy, Watched
  <2>3. NotYetUp(r)' /\ ShownUp(r)' /\ Busy(r)'
    BY <2>1, <1>3, <1>4 DEF NotYetUp, ShownUp, Busy, Alive
  <2>4. DelayHandled'
    BY <2>1, <1>3 DEF DelayHandled, BackOff, Alive
  <2> QED BY <1>4, <1>5, <2>2, <2>3, <2>4, OwnerShows
<1>7. CASE MonitorTakesKill(r)
  <2>1. /\ UNCHANGED <<pid, state, kill_tx, pc>> /\ monitor' = [monitor EXCEPT ![r] = "stopping"]
    BY <1>7 DEF MonitorTakesKill, record
  <2>2. \A u \in Tasks : NotYetUp(u)' /\ ShownUp(u)'
    BY <2>1, <1>2 DEF NotYetUp, ShownUp, Busy, SpawnStages
  <2>3. \A q \in Runs : WatchedShown(q)'
    BY <2>1, <1>2, <1>3, <1>4 DEF WatchedShown, Watched, Alive
  <2>4. ~Unowned'
    BY <2>1, <1>4 DEF Unowned, Watched
  <2>5. DelayHandled'
    BY <2>1, <1>3 DEF DelayHandled, BackOff, Alive
  <2> QED BY <1>5, <2>2, <2>3, <2>4, <2>5 DEF RecordShows
<1>8. CASE MonitorStopped(r)
  <2>1. /\ pid' = 0 /\ state' = "Stopped" /\ UNCHANGED pc /\ monitor' = [monitor EXCEPT ![r] = "done"]
    BY <1>8 DEF MonitorStopped
  <2>2. (\A u \in Tasks : ~Busy(u)') /\ \A q \in Runs : ~Watched(q)'
    BY <2>1, <1>2, <1>4 DEF Busy, Watched
  <2>3. NotYetUp(r)' /\ ShownUp(r)'
    BY <2>2, <1>4 DEF NotYetUp, ShownUp, Busy, SpawnStages
  <2>4. DelayHandled'
    BY <2>1 DEF DelayHandled, BackOff
  <2>5. pid' = 0 /\ state' \notin Alive
    BY <2>1 DEF Alive
  <2> QED BY <1>4, <1>5, <2>2, <2>3, <2>4, <2>5, OwnerShows
<1> QED BY <1>6, <1>7, <1>8 DEF Monitor

\* What is left down keeps its stamps; a restart by on_exit or on_failure is
\* stamped below the limit that the handler has read.
LEMMA DecidedBudget ==
  ASSUME TypeOK, NEW r \in Runs, NEW how \in Exits, Decision(r, how), UNCHANGED cfg,
         WithinBudget, in_window <= seen[r]
  PROVE  WithinBudget'
<1>1. cfg \in ConfigType /\ cfg.max_restarts \in Nat /\ in_window \in Nat /\ seen[r] \in Nat
  BY SupervisorAssumption DEF SupervisorAssumption, ConfigType, TypeOK, RecordTypes, RunTypes
<1>2. CASE cfg.policy # "None"
  BY <1>2 DEF WithinBudget
<1>3. CASE cfg.policy = "None"
  <2>1. in_window <= cfg.max_restarts
    BY <1>3 DEF WithinBudget
  <2>2. \/ in_window' = in_window
        \/ in_window' = in_window + 1 /\ ~LimitReached(r)
    <3>1. how = "no_restart" => in_window' = in_window
      BY DEF Decision, LeaveDown
    <3>2. how = "clean" => in_window' = in_window \/ (in_window' = in_window + 1 /\ ~LimitReached(r))
      BY <1>3 DEF Decision, LeaveDown, Schedule
    <3>3. how = "failed" => in_window' = in_window \/ (in_window' = in_window + 1 /\ ~LimitReached(r))
      <4>1. cfg.on_failure \in {"restart", "fail", "ignore"}
        BY <1>1 DEF ConfigType
      <4> QED BY <1>3, <4>1 DEF Decision, LeaveDown, Schedule
    <3> QED BY <3>1, <3>2, <3>3 DEF Exits
  <2>3. in_window' <= cfg.max_restarts
    BY <1>1, <2>1, <2>2 DEF LimitReached
  <2> QED BY <2>3 DEF WithinBudget
<1> QED BY <1>2, <1>3

\* handle_exit.
LEMMA HandlerShows ==
  ASSUME OwnerInv, RecordShows, ~overlap, NEW r \in Runs, Handler(r) PROVE RecordShows'
<1> USE DEF Goto
<1>1. Busy(r) /\ r \in Tasks
  BY DEF Handler, ExitRecorded, ExitChecked, ExitDecided, CoolOffEnds, RestartFailed, Busy, Tasks
<1>2. (\A u \in Tasks \ {r} : ~Busy(u)) /\ \A q \in Runs : ~Watched(q)
  BY <1>1, OneTask
<1>3. NotYetUp(r) /\ ShownUp(r) /\ DelayHandled /\ WithinBudget
  BY <1>1 DEF RecordShows
<1>4. pc \in [Tasks -> Stages] /\ seen \in [Runs -> Nat] /\ in_window \in Nat /\ r # Boot
  BY SupervisorAssumption DEF SupervisorAssumption, OwnerInv, TypeOK, RecordTypes, RunTypes, TaskTypes
<1>5. ASSUME NEW stage, pc' = [pc EXCEPT ![r] = stage], UNCHANGED monitor
      PROVE  (\A u \in Tasks \ {r} : ~Busy(u)') /\ \A q \in Runs : ~Watched(q)'
  BY <1>5, <1>2, <1>4 DEF Busy, Watched
<1>6. ASSUME NEW s \in {"Stopped", "Failed"}, state' = s, pc' = [pc EXCEPT ![r] = "done"],
             UNCHANGED <<monitor, pid>>, pid = 0, WithinBudget'
      PROVE  RecordShows'
  <2>1. NotYetUp(r)' /\ ShownUp(r)'
    BY <1>6, <1>1, <1>4 DEF NotYetUp, ShownUp
  <2>2. pid' = 0 /\ state' \notin Alive /\ DelayHandled'
    BY <1>6 DEF Alive, DelayHandled, BackOff
  <2> QED BY <1>1, <1>5, <1>6, <2>1, <2>2, OwnerShows
<1>7. CASE ExitRecorded(r)
  <2>1. /\ UNCHANGED <<state, monitor, in_window, cfg>> /\ pid' = 0 /\ state \in Alive
        /\ pc' = [pc EXCEPT ![r] = "recorded"] /\ seen' = [seen EXCEPT ![r] = in_window]
    BY <1>7, <1>3 DEF ExitRecorded, ShownUp
  <2>2. in_window' <= seen'[r]
    BY <2>1, <1>4
  <2>3. NotYetUp(r)' /\ ShownUp(r)' /\ Busy(r)'
    BY <2>1, <2>2, <1>1, <1>4 DEF NotYetUp, ShownUp, Busy, Alive
  <2>4. DelayHandled' /\ WithinBudget'
    BY <2>1, <1>3 DEF DelayHandled, BackOff, Alive, WithinBudget
  <2> QED BY <1>1, <1>5, <2>1, <2>3, <2>4, OwnerShows
<1>8. CASE ExitChecked(r)
  <2>1. UNCHANGED <<pid, in_window, cfg, monitor>> /\ pc[r] = "recorded" /\ pid = 0
    BY <1>8, <1>3 DEF ExitChecked, ShownUp
  <2>2. WithinBudget'
    BY <2>1, <1>3 DEF WithinBudget
  <2>3. CASE shutting
    <3>1. state' = "Stopped" /\ pc' = [pc EXCEPT ![r] = "done"]
      BY <1>8, <2>3 DEF ExitChecked
    <3> QED BY <2>1, <2>2, <3>1, <1>6
  <2>4. CASE ~shutting
    <3>1. UNCHANGED <<state, seen>> /\ pc' = [pc EXCEPT ![r] = "archive"]
      BY <1>8, <2>4 DEF ExitChecked
    <3>2. NotYetUp(r)' /\ Busy(r)'
      BY <3>1, <1>1, <1>4 DEF NotYetUp, Busy
    <3>3. ShownUp(r)'
      BY <2>1, <3>1, <1>1, <1>3, <1>4 DEF ShownUp, Alive
    <3>4. DelayHandled'
      BY <2>1, <3>1, <1>3 DEF DelayHandled, BackOff, ShownUp, Alive
    <3> QED BY <1>1, <1>5, <2>1, <2>2, <3>1, <3>2, <3>3, <3>4, OwnerShows
  <2> QED BY <2>3, <2>4
<1>9. CASE ExitDecided(r)
  <2>1. PICK how \in Exits : Decision(r, how)
    BY <1>9 DEF ExitDecided
  <2>2. UNCHANGED <<pid, cfg, monitor>> /\ pid = 0 /\ in_window <= seen[r]
    BY <1>9, <1>3, <1>1 DEF ExitDecided, ShownUp
  <2>3. WithinBudget'
    BY <2>1, <2>2, <1>3, DecidedBudget DEF OwnerInv
  <2>4. ASSUME NEW s \in {"Failed", "Stopped"}, NEW fails, LeaveDown(r, s, fails) PROVE RecordShows'
    BY <2>2, <2>3, <2>4, <1>6 DEF LeaveDown
  <2>5. ASSUME NEW s \in BackOff, Schedule(r, how, s) PROVE RecordShows'
    <3>1. state' = s /\ pc' = [pc EXCEPT ![r] = "cooloff"]
      BY <2>5 DEF Schedule
    <3>2. NotYetUp(r)' /\ ShownUp(r)' /\ Busy(r)'
      BY <2>2, <3>1, <1>1, <1>4 DEF NotYetUp, ShownUp, Busy, Alive, BackOff
    <3>3. DelayHandled'
      BY <3>1, <1>1, <1>4 DEF DelayHandled
    <3> QED BY <1>1, <1>5, <2>2, <2>3, <3>1, <3>2, <3>3, OwnerShows
  <2>6. cfg \in Configs
    BY DEF OwnerInv, TypeOK, RecordTypes
  <2> QED BY <2>1, <2>4, <2>5, <2>6, DecisionCases DEF BackOff
<1>10. CASE CoolOffEnds(r)
  <2>1. UNCHANGED <<pid, in_window, cfg, monitor>> /\ pc[r] = "cooloff" /\ pid = 0
    BY <1>10, <1>3 DEF CoolOffEnds, NotYetUp
  <2>2. WithinBudget'
    BY <2>1, <1>3 DEF WithinBudget
  <2>3. CASE shutting
    <3>1. state' = "Stopped" /\ pc' = [pc EXCEPT ![r] = "done"]
      BY <1>10, <2>3 DEF CoolOffEnds
    <3> QED BY <2>1, <2>2, <3>1, <1>6
  <2>4. CASE ~shutting
    <3>1. UNCHANGED state /\ pc' = [pc EXCEPT ![r] = "spawn"]
      BY <1>10, <2>4 DEF CoolOffEnds
    <3>2. NotYetUp(r)' /\ ShownUp(r)' /\ Busy(r)'
      BY <2>1, <3>1, <1>1, <1>3, <1>4 DEF NotYetUp, ShownUp, Busy, SpawnStages, Alive, BackOff
    <3>3. DelayHandled'
      BY <3>1, <1>1, <1>4 DEF DelayHandled
    <3> QED BY <1>1, <1>5, <2>1, <2>2, <3>1, <3>2, <3>3, OwnerShows
  <2> QED BY <2>3, <2>4
<1>11. CASE RestartFailed(r)
  <2>1. /\ UNCHANGED <<pid, in_window, cfg, monitor>> /\ pid = 0
        /\ state' = "Failed" /\ pc' = [pc EXCEPT ![r] = "done"]
    BY <1>11, <1>3 DEF RestartFailed, NotYetUp
  <2>2. WithinBudget'
    BY <2>1, <1>3 DEF WithinBudget
  <2> QED BY <2>1, <2>2, <1>6
<1> QED BY <1>7, <1>8, <1>9, <1>10, <1>11 DEF Handler

\* A caller that is let in while nothing owns the process.
LEMMA LetInShows ==
  ASSUME OwnerInv, RecordShows, ~overlap, NEW c \in Callers, LetIn, ~overlap', ~Busy(c),
         pc' = [pc EXCEPT ![c] = "spawn"],
         UNCHANGED <<pid, state, monitor, in_window, cfg>>
  PROVE  RecordShows'
<1>1. Unowned
  BY DEF LetIn, Owners, Unowned
<1>2. c \in Tasks /\ c \notin Runs /\ c # Boot /\ pc \in [Tasks -> Stages]
  BY SupervisorAssumption DEF SupervisorAssumption, Tasks, OwnerInv, TypeOK, TaskTypes
<1>3. pid = 0 /\ state \notin Alive
  BY <1>1 DEF RecordShows
<1>4. NotYetUp(c)' /\ ShownUp(c)' /\ Busy(c)'
  BY <1>2, <1>3 DEF NotYetUp, ShownUp, Busy, SpawnStages, Alive
<1>5. (\A u \in Tasks \ {c} : ~Busy(u)') /\ \A q \in Runs : ~Watched(q)'
  BY <1>1, <1>2 DEF Unowned, Busy, Watched
<1>6. DelayHandled'
  <2>1. state \notin BackOff
    BY <1>1 DEF RecordShows, DelayHandled, Unowned, Busy, SpawnStages, Tasks
  <2> QED BY <2>1 DEF DelayHandled, BackOff
<1>7. WithinBudget'
  BY DEF RecordShows, WithinBudget
<1> QED BY <1>2, <1>4, <1>5, <1>6, <1>7, OwnerShows

LEMMA CallerShows ==
  ASSUME OwnerInv, RecordShows, ~overlap, ~overlap', NEW c \in Callers, Caller(c)
  PROVE  RecordShows'
<1>1. TypeOK /\ pc \in [Tasks -> Stages] /\ c \in Tasks /\ in_window \in Nat
  BY DEF OwnerInv, TypeOK, TaskTypes, RecordTypes, Tasks
<1>2. ~Busy(c)
  BY DEF Caller, ApiStart, ApiStop, ApiRestart, RestartGoesOn, Busy, SpawnStages
<1>3. CASE ApiStart(c) \/ RestartGoesOn(c) \/ (ApiRestart(c) /\ state # "Running")
  BY <1>2, <1>3, LetInShows DEF ApiStart, RestartGoesOn, ApiRestart, Goto, record
<1>4. CASE ApiStop(c) \/ (ApiRestart(c) /\ state = "Running")
  <2>1. /\ state = "Running" /\ RequestStop /\ UNCHANGED <<pid, cfg, mine, seen, monitor>>
        /\ UNCHANGED in_window
        /\ pc' = [pc EXCEPT ![c] = "done"] \/ pc' = [pc EXCEPT ![c] = "wait_stopped"]
    BY <1>4 DEF ApiStop, ApiRestart, Goto
  <2>2. \A t \in Tasks : pc'[t] = pc[t] \/ (~Busy(t) /\ ~Busy(t)')
    BY <2>1, <1>1, <1>2 DEF Busy, SpawnStages
  <2>3. in_window' \in Nat /\ in_window' <= in_window
    BY <2>1, <1>1
  <2> QED BY <1>1, <2>1, <2>2, <2>3, SameOwners
<1> QED BY <1>3, <1>4 DEF Caller

LEMMA RecordStep == RecordInv /\ [Next]_vars => RecordInv'
<1> SUFFICES ASSUME RecordInv, [Next]_vars PROVE RecordInv'
  OBVIOUS
<1>1. OwnerInv'
  BY OwnerStep DEF RecordInv
<1> SUFFICES ASSUME ~overlap' PROVE RecordShows'
  BY <1>1 DEF RecordInv
<1>2. ~overlap
  <2>1. ASSUME overlap PROVE overlap'
    <3>1. \/ UNCHANGED overlap \/ LetIn
      BY DEF Next, vars, history, Spawn, SpawnCheck, SpawnFork, SpawnRecord, SpawnArm, ChildExits,
         Monitor, MonitorSeesExit, MonitorTakesKill, MonitorStopped, Handler, ExitRecorded,
         ExitChecked, ExitDecided, CoolOffEnds, RestartFailed, Caller, ApiStart, ApiStop, ApiRestart,
         RestartGoesOn, WindowPasses, ShutdownBegins, Shutdown, StopAgain, StopAll, StopAllReturns
    <3> QED BY <2>1, <3>1 DEF LetIn
  <2> QED BY <2>1
<1>3. OwnerInv /\ RecordShows /\ TypeOK /\ in_window \in Nat
  BY <1>2 DEF RecordInv, OwnerInv, TypeOK, RecordTypes
<1>4. ASSUME NEW r \in Runs, ChildExits(r) PROVE RecordShows'
  <2>1. in_window' = in_window /\ in_window' <= in_window
    BY <1>3, <1>4 DEF ChildExits, record
  <2> QED BY <1>3, <1>4, <2>1, SameOwners DEF ChildExits, record
<1>5. CASE WindowPasses
  <2>1. in_window' \in Nat /\ in_window' <= in_window
    BY <1>3, <1>5 DEF WindowPasses
  <2> QED BY <1>3, <1>5, <2>1, SameOwners DEF WindowPasses
<1>6. CASE \/ ShutdownBegins \/ UNCHANGED vars
           \/ \E from, to : StopAll(from, to) \/ StopAllReturns(from, to)
  <2>1. in_window' = in_window /\ in_window' <= in_window
    BY <1>3, <1>6 DEF ShutdownBegins, StopAll, StopAllReturns, vars, record
  <2>2. /\ UNCHANGED <<pid, cfg, mine, seen, monitor, pc>>
        /\ UNCHANGED <<state, kill_tx>> \/ (state = "Running" /\ RequestStop)
    BY <1>6 DEF ShutdownBegins, StopAll, StopAllReturns, vars, record
  <2> QED BY <1>3, <2>1, <2>2, SameOwners
<1> QED
  BY <1>2, <1>3, <1>4, <1>5, <1>6, SpawnShows, MonitorShows, HandlerShows, CallerShows
  DEF Next, Shutdown, StopAgain

\* What the record shows, for any number of callers, runs and configurations, is
\* what the process's one owner is doing, until a start is let in too early.
THEOREM RecordInvCorrect == Spec => []RecordInv
<1>1. Init => OwnerInv
  BY OwnerInit
<1>2. Init => RecordShows
  <2> SUFFICES ASSUME Init PROVE RecordShows
    OBVIOUS
  <2>1. /\ pc = [t \in Tasks |-> IF t = Boot THEN "spawn" ELSE "idle"] /\ Boot \in Tasks
        /\ Boot \notin Runs /\ pid = 0 /\ state = "Pending"
    BY SupervisorAssumption DEF SupervisorAssumption, Init, Tasks
  <2>2. \A t \in Tasks : NotYetUp(t) /\ ShownUp(t)
    BY <2>1 DEF NotYetUp, ShownUp, Alive
  <2>3. \A r \in Runs : WatchedShown(r)
    BY DEF Init, WatchedShown, Watched
  <2>4. DelayHandled /\ state \notin Alive
    BY <2>1 DEF DelayHandled, BackOff, Alive
  <2>5. WithinBudget
    <3>1. in_window = 0 /\ cfg \in ConfigType
      BY SupervisorAssumption DEF SupervisorAssumption, Init
    <3>2. cfg.max_restarts \in Nat
      BY <3>1 DEF ConfigType
    <3>3. 0 <= cfg.max_restarts
      BY <3>2
    <3> QED BY <3>1, <3>3 DEF WithinBudget
  <2> QED BY <2>1, <2>2, <2>3, <2>4, <2>5 DEF RecordShows
<1> QED
  BY <1>1, <1>2, RecordStep, PTL DEF Spec, RecordInv

\* The pid, the state and the kill handle that a stop uses are of the run whose
\* monitor watches, or there is none: for any callers, configurations and runs.
THEOREM StatusTruthfulCorrect == Spec => []StatusTruthful
<1>1. RecordInv => StatusTruthful
  <2> SUFFICES ASSUME RecordInv, ~overlap, \A t \in Tasks : ~Busy(t)
               PROVE  /\ \A r \in Runs : pid = r <=> Watched(r)
                      /\ state = "Running" => pid # 0 /\ kill_tx = pid
    BY DEF StatusTruthful
  <2>1. \A r \in Runs : r # 0
    BY SupervisorAssumption DEF SupervisorAssumption, Runs
  <2>2. CASE \A r \in Runs : ~Watched(r)
    BY <2>1, <2>2 DEF RecordInv, RecordShows, Unowned, Alive
  <2>3. ASSUME NEW q \in Runs, Watched(q)
        PROVE  /\ \A r \in Runs : pid = r <=> Watched(r)
               /\ state = "Running" => pid # 0 /\ kill_tx = pid
    BY <2>1, <2>3, OneMonitor DEF RecordInv, RecordShows, WatchedShown
  <2> QED BY <2>2, <2>3
<1> QED
  BY <1>1, RecordInvCorrect, PTL

\* A process shown in a delay has the exit handler that will end it.
THEOREM BackOffHasHandlerCorrect == Spec => []BackOffHasHandler
<1>1. RecordInv => BackOffHasHandler
  BY DEF RecordInv, RecordShows, DelayHandled, BackOff, BackOffHasHandler
<1> QED
  BY <1>1, RecordInvCorrect, PTL

\* on_exit and on_failure never restart more than max_restarts times in a window,
\* although the count is read before archive_run and the stamp comes after it.
THEOREM RestartBudgetCorrect == Spec => []RestartBudget
<1>1. RecordInv => RestartBudget
  BY DEF RecordInv, RecordShows, WithinBudget, RestartBudget
<1> QED
  BY <1>1, RecordInvCorrect, PTL

\* What was left down or stopped starts again only by a caller's start or restart,
\* never by an exit handler, a timer or the start order.
THEOREM DownStaysDownCorrect == Spec => DownStaysDown
<1> DEFINE Down == {"Stopped", "Failed"}
<1>1. ASSUME RecordInv, [Next]_vars, ~overlap, state \in Down, state' \notin Down
      PROVE  \E c \in Callers : pc[c] = "fork"
  <2>1. OwnerInv /\ RecordShows /\ TypeOK
    BY <1>1 DEF RecordInv, OwnerInv
  <2>2. ASSUME NEW t \in Tasks, Spawn(t) PROVE \E c \in Callers : pc[c] = "fork"
    <3>1. NotYetUp(t)
      BY <2>1 DEF RecordShows
    <3>2. pc[t] = "fork"
      BY <1>1, <2>2, <3>1 DEF Spawn, SpawnCheck, SpawnFork, SpawnRecord, SpawnArm, record, NotYetUp
    <3>3. t \in Callers
      BY <1>1, <3>1, <3>2 DEF NotYetUp, BackOff, Tasks
    <3> QED BY <3>2, <3>3
  <2>3. ASSUME NEW r \in Runs, Handler(r) PROVE FALSE
    <3>1. ShownUp(r)
      BY <2>1 DEF RecordShows, Tasks
    <3>2. ~ExitDecided(r)
      BY <1>1, <3>1 DEF ExitDecided, ShownUp, Alive
    <3> QED BY <1>1, <2>3, <3>2 DEF Handler, ExitRecorded, ExitChecked, CoolOffEnds, RestartFailed
  <2>4. ASSUME NEW r \in Runs, ChildExits(r) \/ Monitor(r) PROVE FALSE
    BY <1>1, <2>4
    DEF ChildExits, Monitor, MonitorSeesExit, MonitorTakesKill, MonitorStopped, record
  <2>5. ASSUME NEW c \in Callers, Caller(c) PROVE FALSE
    BY <1>1, <2>5 DEF Caller, ApiStart, ApiStop, ApiRestart, RestartGoesOn, record
  <2>6. ASSUME \/ WindowPasses \/ ShutdownBegins \/ UNCHANGED vars
               \/ \E from, to : StopAll(from, to) \/ StopAllReturns(from, to)
        PROVE  FALSE
    BY <1>1, <2>6 DEF WindowPasses, ShutdownBegins, StopAll, StopAllReturns, record, vars
  <2> QED
    BY <1>1, <2>2, <2>3, <2>4, <2>5, <2>6 DEF Next, Shutdown, StopAgain
<1>2. RecordInv /\ [Next]_vars =>
        [ \/ overlap
          \/ state \in Down /\ state' \notin Down => \E c \in Callers : pc[c] = "fork" ]_vars
  BY <1>1
<1> QED
  BY <1>2, RecordInvCorrect, PTL DEF Spec, DownStaysDown
=============================================================================
