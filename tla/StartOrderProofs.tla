-------------------------- MODULE StartOrderProofs --------------------------
(***************************************************************************)
(* The start order never forks a process before what it depends on was     *)
(* met: OrderInv is inductive, and DependenciesMet is one of its parts.    *)
(* For any number of processes, any dependencies, one-shots and probes,    *)
(* any stops by hand and a shutdown at any point.                          *)
(***************************************************************************)
EXTENDS StartOrder, WellFoundedInduction, TLAPS

\* What a configuration is made of: a process's dependencies are processes, and
\* the entries of its depends_on.
LEMMA Configured ==
  ASSUME RecordTypes
  PROVE  /\ layout \in LayoutType
         /\ layout.deps \in [Procs -> Seq(Procs)]
         /\ \A p \in Procs : Deps(p) \subseteq Procs
         /\ \A p \in Procs : \A i \in 1..Len(layout.deps[p]) : layout.deps[p][i] \in Deps(p)
         /\ \A p \in Procs : \A d \in Deps(p) :
              \E i \in 1..Len(layout.deps[p]) : d = layout.deps[p][i]
<1>1. layout \in LayoutType
  BY StartOrderAssumption DEF RecordTypes
<1>2. layout.deps \in [Procs -> Seq(Procs)]
  BY <1>1 DEF LayoutType
<1>3. QED
  BY <1>1, <1>2 DEF Deps, Range

\* The initial states are of the right types.
LEMMA TypeInit == Init => TypeOK
<1> SUFFICES ASSUME Init  PROVE TypeOK
  OBVIOUS
<1>1. at \in Procs /\ dep \in Nat \ {0}
  BY StartOrderAssumption DEF Init, Procs
<1>2. ready \in [Procs -> BOOLEAN] /\ handle \in [Procs -> BOOLEAN]
  BY DEF Init
<1>3. RecordTypes
  BY <1>2 DEF Init, RecordTypes
<1>4. /\ boot \in {"deps", "listen", "held", "wait", "files", "check", "spawn", "done"}
      /\ main \in {"up", "signal", "wait", "join", "exited"}
      /\ call \in 1..2
  BY DEF Init
<1>5. woken \in BOOLEAN /\ shutting \in BOOLEAN
  BY DEF Init
<1>6. /\ owed \subseteq Procs /\ todo \subseteq Procs /\ missed \subseteq Procs
      /\ by_hand \subseteq Procs /\ finished \subseteq Procs /\ proven \subseteq Procs
  BY DEF Init
<1>. QED
  BY <1>1, <1>3, <1>4, <1>5, <1>6 DEF TypeOK, TaskTypes

\* Every action keeps the types.
LEMMA TypeStep ==
  ASSUME TypeOK, [Next]_vars
  PROVE  TypeOK'
<1> USE DEF TypeOK, RecordTypes, TaskTypes, vars, procVars, bootVars, mainVars, history
<1>0. CASE UNCHANGED vars
  BY <1>0
<1>1. CASE DepLoop
  BY <1>1 DEF DepLoop
<1>2. CASE DepCheck
  BY <1>2 DEF DepCheck
<1>3. CASE DepWait
  BY <1>3 DEF DepWait
<1>4. CASE DepWake
  BY <1>4 DEF DepWake
<1>5. CASE FilesReady
  BY <1>5 DEF FilesReady
<1>6. CASE BootCheck
  BY <1>6 DEF BootCheck
<1>7. ASSUME NEW p \in Procs, Notify(p)
      PROVE  TypeOK'
  BY <1>7 DEF Notify
<1>8. ASSUME NEW p \in Procs, SpawnCheck(p)
      PROVE  TypeOK'
  BY <1>8 DEF SpawnCheck, SpawnFailed, Goto, ByBoot
<1>9. ASSUME NEW p \in Procs, SpawnFork(p)
      PROVE  TypeOK'
  BY <1>9 DEF SpawnFork, SpawnFailed, Goto, ByBoot
<1>10. ASSUME NEW p \in Procs, SpawnRecord(p)
      PROVE  TypeOK'
  BY <1>10 DEF SpawnRecord, Goto
<1>11. ASSUME NEW p \in Procs, SpawnArm(p)
      PROVE  TypeOK'
  <2>1. p # N => p + 1 \in Procs
    BY StartOrderAssumption DEF Procs
  <2>2. at' \in Procs /\ dep' \in Nat \ {0} /\ owed' \subseteq Procs
    BY <1>11, <2>1 DEF SpawnArm
  <2>3. /\ handle' \in [Procs -> BOOLEAN] /\ watch' \in [Procs -> {"none", "probing", "passed"}]
        /\ stage' \in [Procs -> {"none", "check", "fork", "forked", "recorded", "watched",
                                 "stopping", "exited", "unlocked", "archive", "cooloff"}]
        /\ boot' \in {"deps", "listen", "held", "wait", "files", "check", "spawn", "done"}
    BY <1>11 DEF SpawnArm, Goto
  <2>. QED
    BY <1>11, <2>2, <2>3 DEF SpawnArm, vars, mainVars, history
<1>12. ASSUME NEW p \in Procs, ReadyPasses(p)
      PROVE  TypeOK'
  BY <1>12 DEF ReadyPasses
<1>13. ASSUME NEW p \in Procs, ReadyRecorded(p)
      PROVE  TypeOK'
  BY <1>13 DEF ReadyRecorded
<1>14. ASSUME NEW p \in Procs, ChildExits(p)
      PROVE  TypeOK'
  BY <1>14 DEF ChildExits, Goto, WatchEnds
<1>15. ASSUME NEW p \in Procs, ExitRecorded(p)
      PROVE  TypeOK'
  BY <1>15 DEF ExitRecorded, Goto
<1>16. ASSUME NEW p \in Procs, ExitChecked(p)
      PROVE  TypeOK'
  BY <1>16 DEF ExitChecked, LeaveDown, Goto
<1>17. ASSUME NEW p \in Procs, ExitDecided(p)
      PROVE  TypeOK'
  BY <1>17 DEF ExitDecided, LeaveDown, Goto, Outcomes
<1>18. ASSUME NEW p \in Procs, CoolOffEnds(p)
      PROVE  TypeOK'
  BY <1>18 DEF CoolOffEnds, LeaveDown, Goto
<1>19. ASSUME NEW p \in Procs, KillTaken(p)
      PROVE  TypeOK'
  BY <1>19 DEF KillTaken, Goto, KillInFlight
<1>20. ASSUME NEW p \in Procs, MonitorStopped(p)
      PROVE  TypeOK'
  BY <1>20 DEF MonitorStopped, Goto, WatchEnds
<1>21. ASSUME NEW p \in Procs, StopByHand(p)
      PROVE  TypeOK'
  BY <1>21 DEF StopByHand
<1>22. CASE ShutdownBegins
  BY <1>22 DEF ShutdownBegins, StopAll, Tier
<1>23. ASSUME NEW p \in Procs, StopSignal(p)
      PROVE  TypeOK'
  BY <1>23 DEF StopSignal
<1>24. CASE TierSignalled
  BY <1>24 DEF TierSignalled
<1>25. CASE TierGone
  BY <1>25 DEF TierGone, NextTier, Tier
<1>26. CASE StartOrderEnded
  BY <1>26 DEF StartOrderEnded, StopAll, Tier
<1>. QED
  BY <1>0, <1>1, <1>2, <1>3, <1>4, <1>5, <1>6, <1>7, <1>8, <1>9, <1>10, <1>11, <1>12, <1>13,
    <1>14, <1>15, <1>16, <1>17, <1>18, <1>19, <1>20, <1>21, <1>22, <1>23, <1>24, <1>25, <1>26
    DEF Next, Boot, Spawn, Ready, Handler, Monitor, Main

\* The configuration stays; what processes have done is never undone.
LEMMA Grows ==
  ASSUME TypeOK, [Next]_vars
  PROVE  /\ layout' = layout
         /\ by_hand \subseteq by_hand' /\ finished \subseteq finished' /\ proven \subseteq proven'
         /\ shutting => shutting'
         /\ \A p \in Procs : runs[p] > 0 => runs'[p] > 0
<1> DEFINE Kept == UNCHANGED <<layout, by_hand, finished, proven, shutting, runs>>
<1> USE DEF vars, procVars, bootVars, mainVars, history
<1>1. CASE Boot \/ DepWake \/ FilesReady
  <2>1. Kept
    BY <1>1 DEF Boot, DepLoop, DepCheck, DepWait, BootCheck, DepWake, FilesReady
  <2>. QED
    BY <2>1
<1>2. ASSUME NEW p \in Procs, SpawnFork(p)
      PROVE  /\ UNCHANGED <<layout, by_hand, finished, proven, shutting>>
             /\ \A q \in Procs : runs[q] > 0 => runs'[q] > 0
  BY <1>2 DEF SpawnFork, SpawnFailed, Goto, TypeOK, RecordTypes
<1>3. ASSUME NEW p \in Procs,
             \/ SpawnCheck(p) \/ SpawnRecord(p) \/ SpawnArm(p) \/ ReadyRecorded(p)
             \/ ExitChecked(p) \/ ExitDecided(p) \/ CoolOffEnds(p)
             \/ Monitor(p) \/ Notify(p) \/ ChildExits(p)
      PROVE  Kept
  BY <1>3 DEF SpawnCheck, SpawnRecord, SpawnArm, ReadyRecorded, ExitChecked, ExitDecided,
              CoolOffEnds, Monitor, KillTaken, MonitorStopped, Notify, ChildExits
<1>4. ASSUME NEW p \in Procs, ReadyPasses(p) \/ ExitRecorded(p) \/ StopByHand(p)
      PROVE  /\ UNCHANGED <<layout, shutting, runs>>
             /\ by_hand \subseteq by_hand' /\ finished \subseteq finished'
             /\ proven \subseteq proven'
  BY <1>4 DEF ReadyPasses, ExitRecorded, StopByHand
<1>5. CASE ShutdownBegins
  BY <1>5 DEF ShutdownBegins
<1>6. CASE Main
  <2>1. Kept
    BY <1>6 DEF Main, StopSignal, TierSignalled, TierGone, StartOrderEnded
  <2>. QED
    BY <2>1
<1>7. CASE UNCHANGED vars
  BY <1>7
<1>. QED
  BY <1>1, <1>2, <1>3, <1>4, <1>5, <1>6, <1>7 DEF Next, Spawn, Ready, Handler

\* What has been met stays met.
LEMMA MetStays ==
  ASSUME TypeOK, [Next]_vars
  PROVE  /\ \A d \in Procs : Met(d) => Met(d)'
         /\ \A p \in Procs : Deps(p)' = Deps(p) /\ (AllMet(p) => AllMet(p)')
<1>1. \A d \in Procs : Met(d) => Met(d)'
  BY Grows DEF Met, OneShot, Probed
<1>2. \A p \in Procs : Deps(p)' = Deps(p) /\ Deps(p) \subseteq Procs
  BY Grows, Configured DEF Deps, TypeOK
<1>. QED
  BY <1>1, <1>2 DEF AllMet

\* A record says no more than its run has earned, whatever the action.
LEMMA RecordStep ==
  ASSUME TypeOK, RecordEarned, StopAsked, [Next]_vars
  PROVE  RecordEarned'
<1> USE DEF TypeOK, RecordTypes, TaskTypes, ByBoot, Probed, vars, procVars, bootVars, mainVars,
            history
<1> SUFFICES ASSUME NEW q \in Procs
             PROVE  Earned(q)'
  BY DEF RecordEarned
<1>0. CASE UNCHANGED vars
  BY <1>0 DEF RecordEarned, Earned
<1>1. CASE DepLoop
  BY <1>1 DEF DepLoop, RecordEarned, Earned
<1>2. CASE DepCheck
  BY <1>2 DEF DepCheck, RecordEarned, Earned
<1>3. CASE DepWait
  BY <1>3 DEF DepWait, RecordEarned, Earned
<1>4. CASE DepWake
  BY <1>4 DEF DepWake, RecordEarned, Earned
<1>5. CASE FilesReady
  BY <1>5 DEF FilesReady, RecordEarned, Earned
<1>6. CASE BootCheck
  BY <1>6 DEF BootCheck, RecordEarned, Earned
<1>7. ASSUME NEW p \in Procs, Notify(p)
      PROVE  Earned(q)'
  BY <1>7 DEF Notify, RecordEarned, Earned
<1>8. ASSUME NEW p \in Procs, SpawnCheck(p)
      PROVE  Earned(q)'
  BY <1>8 DEF SpawnCheck, SpawnFailed, Goto, ByBoot, RecordEarned, Earned
<1>9. ASSUME NEW p \in Procs, SpawnFork(p)
      PROVE  Earned(q)'
  BY <1>9 DEF SpawnFork, SpawnFailed, Goto, ByBoot, RecordEarned, Earned
<1>10. ASSUME NEW p \in Procs, SpawnRecord(p)
      PROVE  Earned(q)'
  BY <1>10 DEF SpawnRecord, Goto, RecordEarned, Earned
<1>11. ASSUME NEW p \in Procs, SpawnArm(p)
      PROVE  Earned(q)'
  BY <1>11 DEF SpawnArm, Goto, ByBoot, RecordEarned, Earned
<1>12. ASSUME NEW p \in Procs, ReadyPasses(p)
      PROVE  Earned(q)'
  BY <1>12 DEF ReadyPasses, RecordEarned, Earned
<1>13. ASSUME NEW p \in Procs, ReadyRecorded(p)
      PROVE  Earned(q)'
  BY <1>13 DEF ReadyRecorded, RecordEarned, Earned
<1>14. ASSUME NEW p \in Procs, ChildExits(p)
      PROVE  Earned(q)'
  BY <1>14 DEF ChildExits, Goto, WatchEnds, RecordEarned, Earned
<1>15. ASSUME NEW p \in Procs, ExitRecorded(p)
      PROVE  Earned(q)'
  BY <1>15 DEF ExitRecorded, Goto, RecordEarned, Earned
<1>16. ASSUME NEW p \in Procs, ExitChecked(p)
      PROVE  Earned(q)'
  BY <1>16 DEF ExitChecked, LeaveDown, Goto, RecordEarned, Earned
<1>17. ASSUME NEW p \in Procs, ExitDecided(p)
      PROVE  Earned(q)'
  BY <1>17 DEF ExitDecided, LeaveDown, Goto, Outcomes, RecordEarned, Earned
<1>18. ASSUME NEW p \in Procs, CoolOffEnds(p)
      PROVE  Earned(q)'
  BY <1>18 DEF CoolOffEnds, LeaveDown, Goto, RecordEarned, Earned
<1>19. ASSUME NEW p \in Procs, KillTaken(p)
      PROVE  Earned(q)'
  BY <1>19 DEF KillTaken, Goto, KillInFlight, RecordEarned, Earned
<1>20. ASSUME NEW p \in Procs, MonitorStopped(p)
      PROVE  Earned(q)'
  BY <1>20 DEF StopAsked, RecordEarned, Earned, MonitorStopped, Goto, WatchEnds
<1>21. ASSUME NEW p \in Procs, StopByHand(p)
      PROVE  Earned(q)'
  BY <1>21 DEF StopByHand, RecordEarned, Earned
<1>22. CASE ShutdownBegins
  BY <1>22 DEF ShutdownBegins, StopAll, Tier, RecordEarned, Earned
<1>23. ASSUME NEW p \in Procs, StopSignal(p)
      PROVE  Earned(q)'
  BY <1>23 DEF StopSignal, RecordEarned, Earned
<1>24. CASE TierSignalled
  BY <1>24 DEF TierSignalled, RecordEarned, Earned
<1>25. CASE TierGone
  BY <1>25 DEF TierGone, NextTier, Tier, RecordEarned, Earned
<1>26. CASE StartOrderEnded
  BY <1>26 DEF StartOrderEnded, StopAll, Tier, RecordEarned, Earned
<1>. QED
  BY <1>0, <1>1, <1>2, <1>3, <1>4, <1>5, <1>6, <1>7, <1>8, <1>9, <1>10, <1>11, <1>12, <1>13,
    <1>14, <1>15, <1>16, <1>17, <1>18, <1>19, <1>20, <1>21, <1>22, <1>23, <1>24, <1>25, <1>26
    DEF Next, Boot, Spawn, Ready, Handler, Monitor, Main

\* A stop is asked for by hand or by stop_all, whatever the action.
LEMMA StopStep ==
  ASSUME TypeOK, StopAsked, [Next]_vars
  PROVE  StopAsked'
<1> USE DEF TypeOK, RecordTypes, TaskTypes, StopAsked, KillInFlight, vars, procVars, bootVars,
            mainVars, history
<1>0. CASE UNCHANGED vars
  BY <1>0
<1>1. CASE DepLoop
  BY <1>1 DEF DepLoop
<1>2. CASE DepCheck
  BY <1>2 DEF DepCheck
<1>3. CASE DepWait
  BY <1>3 DEF DepWait
<1>4. CASE DepWake
  BY <1>4 DEF DepWake
<1>5. CASE FilesReady
  BY <1>5 DEF FilesReady
<1>6. CASE BootCheck
  BY <1>6 DEF BootCheck
<1>7. ASSUME NEW p \in Procs, Notify(p)
      PROVE  StopAsked'
  BY <1>7 DEF Notify
<1>8. ASSUME NEW p \in Procs, SpawnCheck(p)
      PROVE  StopAsked'
  BY <1>8 DEF SpawnCheck, SpawnFailed, Goto, ByBoot
<1>9. ASSUME NEW p \in Procs, SpawnFork(p)
      PROVE  StopAsked'
  BY <1>9 DEF SpawnFork, SpawnFailed, Goto, ByBoot
<1>10. ASSUME NEW p \in Procs, SpawnRecord(p)
      PROVE  StopAsked'
  BY <1>10 DEF SpawnRecord, Goto
<1>11. ASSUME NEW p \in Procs, SpawnArm(p)
      PROVE  StopAsked'
  BY <1>11 DEF SpawnArm, Goto, ByBoot
<1>12. ASSUME NEW p \in Procs, ReadyPasses(p)
      PROVE  StopAsked'
  BY <1>12 DEF ReadyPasses
<1>13. ASSUME NEW p \in Procs, ReadyRecorded(p)
      PROVE  StopAsked'
  BY <1>13 DEF ReadyRecorded
<1>14. ASSUME NEW p \in Procs, ChildExits(p)
      PROVE  StopAsked'
  BY <1>14 DEF ChildExits, Goto, WatchEnds
<1>15. ASSUME NEW p \in Procs, ExitRecorded(p)
      PROVE  StopAsked'
  BY <1>15 DEF ExitRecorded, Goto
<1>16. ASSUME NEW p \in Procs, ExitChecked(p)
      PROVE  StopAsked'
  BY <1>16 DEF ExitChecked, LeaveDown, Goto
<1>17. ASSUME NEW p \in Procs, ExitDecided(p)
      PROVE  StopAsked'
  BY <1>17 DEF ExitDecided, LeaveDown, Goto, Outcomes
<1>18. ASSUME NEW p \in Procs, CoolOffEnds(p)
      PROVE  StopAsked'
  BY <1>18 DEF CoolOffEnds, LeaveDown, Goto
<1>19. ASSUME NEW p \in Procs, KillTaken(p)
      PROVE  StopAsked'
  BY <1>19 DEF KillTaken, Goto, KillInFlight
<1>20. ASSUME NEW p \in Procs, MonitorStopped(p)
      PROVE  StopAsked'
  BY <1>20 DEF MonitorStopped, Goto, WatchEnds
<1>21. ASSUME NEW p \in Procs, StopByHand(p)
      PROVE  StopAsked'
  BY <1>21 DEF StopByHand
<1>22. CASE ShutdownBegins
  BY <1>22 DEF ShutdownBegins, StopAll, Tier
<1>23. ASSUME NEW p \in Procs, StopSignal(p)
      PROVE  StopAsked'
  BY <1>23 DEF StopSignal
<1>24. CASE TierSignalled
  BY <1>24 DEF TierSignalled
<1>25. CASE TierGone
  BY <1>25 DEF TierGone, NextTier, Tier
<1>26. CASE StartOrderEnded
  BY <1>26 DEF StartOrderEnded, StopAll, Tier
<1>. QED
  BY <1>0, <1>1, <1>2, <1>3, <1>4, <1>5, <1>6, <1>7, <1>8, <1>9, <1>10, <1>11, <1>12, <1>13,
    <1>14, <1>15, <1>16, <1>17, <1>18, <1>19, <1>20, <1>21, <1>22, <1>23, <1>24, <1>25, <1>26
    DEF Next, Boot, Spawn, Ready, Handler, Monitor, Main

\* A dependency that is satisfied has been met, until shutdown begins.
LEMMA SatisfiedIsMet ==
  ASSUME TypeOK, RecordEarned, ~shutting, NEW d \in Procs, Satisfied(d)
  PROVE  Met(d)
<1>1. CASE OneShot(d) /\ state[d] = "Stopped" /\ code[d] = "zero"
  BY <1>1 DEF RecordEarned, Earned, Met
<1>2. CASE (OneShot(d) => Probed(d)) /\ state[d] = "Running" /\ ready[d]
  BY <1>2 DEF RecordEarned, Earned, Met
<1>. QED
  BY <1>1, <1>2 DEF Satisfied

\* The start order waits for all of a process's dependencies before it spawns it.
LEMMA ProgressStep ==
  ASSUME TypeOK, BootProgress, RecordEarned, [Next]_vars
  PROVE  BootProgress'
<1> DEFINE Waited == \A i \in 1..Len(layout.deps[at]) : i < dep => Met(layout.deps[at][i])
<1>1. \A i \in 1..Len(layout.deps[at]) :
        layout.deps[at][i] \in Deps(at) /\ layout.deps[at][i] \in Procs
  BY Configured DEF TypeOK, TaskTypes
<1>2. dep \in Nat \ {0} /\ at \in Procs
  BY DEF TypeOK, TaskTypes
<1>3. ASSUME UNCHANGED <<boot, at, dep>>
      PROVE  BootProgress'
  <2>1. layout' = layout /\ (shutting => shutting')
    BY Grows
  <2>2. AllMet(at) => AllMet(at)'
    BY <1>2, <1>3, MetStays
  <2>3. Waited => Waited'
    <3>1. ASSUME NEW d \in Procs, Met(d)
          PROVE  Met(d)'
      BY <3>1, MetStays
    <3>. QED
      BY <1>1, <1>3, <2>1, <3>1 DEF Met, OneShot, Probed
  <2>. QED
    BY <1>3, <2>1, <2>2, <2>3 DEF BootProgress
<1>4. CASE DepLoop
  <2>1. ASSUME Waited, dep > Len(layout.deps[at])
        PROVE  AllMet(at)
    <3> SUFFICES ASSUME NEW d \in Deps(at)
                 PROVE  Met(d)
      BY DEF AllMet
    <3>1. PICK i \in 1..Len(layout.deps[at]) : d = layout.deps[at][i]
      BY <1>2, Configured DEF TypeOK
    <3>2. Len(layout.deps[at]) \in Nat
      <4>1. layout.deps[at] \in Seq(Procs)
        BY <1>2, Configured DEF TypeOK
      <4>. QED
        BY <4>1
    <3>3. i < dep
      BY <1>2, <2>1, <3>2
    <3>. QED
      BY <2>1, <3>1, <3>3
  <2>2. (shutting \/ Waited) /\ at' = at /\ dep' = dep /\ UNCHANGED <<layout, shutting>>
    BY <1>4 DEF DepLoop, BootProgress, bootVars, mainVars
  <2>3. Waited => Waited'
    BY <1>1, <1>2, <2>2, MetStays
  <2>4. AllMet(at) => AllMet(at)'
    BY <1>2, <2>2, MetStays
  <2>. QED
    BY <1>2, <1>4, <2>1, <2>2, <2>3, <2>4 DEF DepLoop, BootProgress
<1>5. CASE DepCheck
  BY <1>1, <1>2, <1>5, Grows, MetStays, SatisfiedIsMet DEF DepCheck, BootProgress
<1>6. CASE DepWait \/ DepWake \/ FilesReady \/ BootCheck
  BY <1>1, <1>2, <1>6, Grows, MetStays
  DEF DepWait, DepWake, FilesReady, BootCheck, BootProgress
<1>7. ASSUME NEW p \in Procs, SpawnCheck(p) \/ SpawnFork(p)
      PROVE  BootProgress'
  <2>1. UNCHANGED <<boot, at, dep>> \/ boot' = "done"
    BY <1>7 DEF SpawnCheck, SpawnFork, SpawnFailed
  <2>. QED
    BY <1>3, <2>1 DEF BootProgress
<1>8. ASSUME NEW p \in Procs, SpawnArm(p)
      PROVE  BootProgress'
  <2>1. UNCHANGED <<boot, at, dep>> \/ boot' = "done" \/ (boot' = "deps" /\ dep' = 1)
    BY <1>8 DEF SpawnArm
  <2>. QED
    BY <1>3, <2>1 DEF BootProgress
<1>9. ASSUME NEW p \in Procs,
             SpawnRecord(p) \/ Ready(p) \/ Handler(p) \/ Monitor(p) \/ Notify(p)
               \/ ChildExits(p) \/ StopByHand(p)
      PROVE  UNCHANGED <<boot, at, dep>>
  BY <1>9 DEF SpawnRecord, Ready, ReadyPasses, ReadyRecorded, Handler, ExitRecorded, ExitChecked,
    ExitDecided, CoolOffEnds, Monitor, KillTaken, MonitorStopped, Notify, ChildExits, StopByHand,
    bootVars
<1>10. CASE ShutdownBegins \/ Main
  <2>1. UNCHANGED <<boot, at, dep>>
    BY <1>10 DEF ShutdownBegins, Main, StopSignal, TierSignalled, TierGone, StartOrderEnded,
      bootVars
  <2>. QED
    BY <1>3, <2>1
<1>11. CASE UNCHANGED vars
  BY <1>3, <1>11 DEF vars, bootVars
<1>. QED
  BY <1>3, <1>4, <1>5, <1>6, <1>7, <1>8, <1>9, <1>10, <1>11 DEF Next, Boot, Spawn

\* Only start_all's fork is a process's first, and it comes after the waits.
LEMMA MetStep ==
  ASSUME TypeOK, DependenciesMet, BootProgress, RecordEarned, [Next]_vars
  PROVE  DependenciesMet'
<1>1. ASSUME UNCHANGED runs
      PROVE  DependenciesMet'
  BY <1>1, MetStays DEF DependenciesMet
<1>2. ASSUME NEW p \in Procs, SpawnFork(p)
      PROVE  DependenciesMet'
  <2>1. runs[p] > 0 \/ ByBoot(p)
    BY <1>2 DEF SpawnFork, RecordEarned, Earned
  <2>2. AllMet(p)
    BY <2>1 DEF ByBoot, BootProgress, DependenciesMet
  <2>3. \A q \in Procs \ {p} : runs'[q] = runs[q]
    BY <1>2 DEF SpawnFork, TypeOK, RecordTypes
  <2>. QED
    BY <2>2, <2>3, MetStays DEF DependenciesMet
<1>3. CASE Boot \/ DepWake \/ FilesReady
  BY <1>1, <1>3 DEF Boot, DepLoop, DepCheck, DepWait, BootCheck, DepWake, FilesReady, procVars
<1>4. ASSUME NEW p \in Procs,
             \/ SpawnCheck(p) \/ SpawnRecord(p) \/ SpawnArm(p) \/ Ready(p) \/ Handler(p)
             \/ Monitor(p) \/ Notify(p) \/ ChildExits(p) \/ StopByHand(p)
      PROVE  UNCHANGED runs
  BY <1>4 DEF SpawnCheck, SpawnRecord, SpawnArm, Ready, ReadyPasses, ReadyRecorded, Handler,
    ExitRecorded, ExitChecked, ExitDecided, CoolOffEnds, Monitor, KillTaken, MonitorStopped,
    Notify, ChildExits, StopByHand, procVars
<1>5. CASE ShutdownBegins \/ Main
  BY <1>1, <1>5 DEF ShutdownBegins, Main, StopSignal, TierSignalled, TierGone, StartOrderEnded,
    procVars
<1>6. CASE UNCHANGED vars
  BY <1>1, <1>6 DEF vars, procVars
<1>. QED
  BY <1>1, <1>2, <1>3, <1>4, <1>5, <1>6 DEF Next, Spawn

\* A dependency becomes satisfied only by a step that owes its notification, or
\* by the end of a stop.
LEMMA SatisfiedIsOwed ==
  ASSUME TypeOK, RecordEarned, StopAsked, [Next]_vars, ~shutting', NEW d \in Procs,
         ~Satisfied(d) \/ d \in owed \cup by_hand, Satisfied(d)', ~(Notify(d))
  PROVE  d \in owed' \cup by_hand'
<1> USE DEF TypeOK, RecordTypes, TaskTypes, Satisfied, OneShot, Probed, vars, procVars, bootVars,
            mainVars, history
<1>0. CASE UNCHANGED vars
  BY <1>0
<1>1. CASE DepLoop
  BY <1>1 DEF DepLoop
<1>2. CASE DepCheck
  BY <1>2 DEF DepCheck
<1>3. CASE DepWait
  BY <1>3 DEF DepWait
<1>4. CASE DepWake
  BY <1>4 DEF DepWake
<1>5. CASE FilesReady
  BY <1>5 DEF FilesReady
<1>6. CASE BootCheck
  BY <1>6 DEF BootCheck
<1>7. ASSUME NEW p \in Procs, Notify(p)
      PROVE  d \in owed' \cup by_hand'
  BY <1>7 DEF Notify
<1>8. ASSUME NEW p \in Procs, SpawnCheck(p)
      PROVE  d \in owed' \cup by_hand'
  BY <1>8 DEF SpawnCheck, SpawnFailed, Goto, ByBoot
<1>9. ASSUME NEW p \in Procs, SpawnFork(p)
      PROVE  d \in owed' \cup by_hand'
  BY <1>9 DEF SpawnFork, SpawnFailed, Goto, ByBoot
<1>10. ASSUME NEW p \in Procs, SpawnRecord(p)
      PROVE  d \in owed' \cup by_hand'
  BY <1>10 DEF SpawnRecord, Goto
<1>11. ASSUME NEW p \in Procs, SpawnArm(p)
      PROVE  d \in owed' \cup by_hand'
  BY <1>11 DEF SpawnArm, Goto, ByBoot
<1>12. ASSUME NEW p \in Procs, ReadyPasses(p)
      PROVE  d \in owed' \cup by_hand'
  BY <1>12 DEF ReadyPasses
<1>13. ASSUME NEW p \in Procs, ReadyRecorded(p)
      PROVE  d \in owed' \cup by_hand'
  BY <1>13 DEF ReadyRecorded
<1>14. ASSUME NEW p \in Procs, ChildExits(p)
      PROVE  d \in owed' \cup by_hand'
  BY <1>14 DEF ChildExits, Goto, WatchEnds
<1>15. ASSUME NEW p \in Procs, ExitRecorded(p)
      PROVE  d \in owed' \cup by_hand'
  BY <1>15 DEF RecordEarned, Earned, ExitRecorded, Goto
<1>16. ASSUME NEW p \in Procs, ExitChecked(p)
      PROVE  d \in owed' \cup by_hand'
  BY <1>16 DEF ExitChecked, LeaveDown, Goto
<1>17. ASSUME NEW p \in Procs, ExitDecided(p)
      PROVE  d \in owed' \cup by_hand'
  BY <1>17 DEF ExitDecided, LeaveDown, Goto, Outcomes
<1>18. ASSUME NEW p \in Procs, CoolOffEnds(p)
      PROVE  d \in owed' \cup by_hand'
  BY <1>18 DEF CoolOffEnds, LeaveDown, Goto
<1>19. ASSUME NEW p \in Procs, KillTaken(p)
      PROVE  d \in owed' \cup by_hand'
  BY <1>19 DEF KillTaken, Goto, KillInFlight
<1>20. ASSUME NEW p \in Procs, MonitorStopped(p)
      PROVE  d \in owed' \cup by_hand'
  BY <1>20 DEF StopAsked, MonitorStopped, Goto, WatchEnds
<1>21. ASSUME NEW p \in Procs, StopByHand(p)
      PROVE  d \in owed' \cup by_hand'
  BY <1>21 DEF StopByHand
<1>22. CASE ShutdownBegins
  BY <1>22 DEF ShutdownBegins, StopAll, Tier
<1>23. ASSUME NEW p \in Procs, StopSignal(p)
      PROVE  d \in owed' \cup by_hand'
  BY <1>23 DEF StopSignal
<1>24. CASE TierSignalled
  BY <1>24 DEF TierSignalled
<1>25. CASE TierGone
  BY <1>25 DEF TierGone, NextTier, Tier
<1>26. CASE StartOrderEnded
  BY <1>26 DEF StartOrderEnded, StopAll, Tier
<1>. QED
  BY <1>0, <1>1, <1>2, <1>3, <1>4, <1>5, <1>6, <1>7, <1>8, <1>9, <1>10, <1>11, <1>12, <1>13,
    <1>14, <1>15, <1>16, <1>17, <1>18, <1>19, <1>20, <1>21, <1>22, <1>23, <1>24, <1>25, <1>26
    DEF Next, Boot, Spawn, Ready, Handler, Monitor, Main
\* The wait that is registered is told of every change that matters to it.
LEMMA WakeStep ==
  ASSUME TypeOK, BootProgress, RecordEarned, StopAsked, ChangeOwed, [Next]_vars
  PROVE  ChangeOwed'
<1> SUFFICES ASSUME boot' \in {"held", "wait"}, ~woken', ~shutting'
             PROVE  ChangeOwed'
  BY DEF ChangeOwed
<1> USE DEF vars, procVars, bootVars, mainVars, history
<1>1. CASE DepCheck
  BY <1>1, Grows DEF DepCheck, Satisfied, OneShot, Probed, ChangeOwed
<1>2. ASSUME boot \in {"held", "wait"}, UNCHANGED <<at, dep>>, ~woken,
             \A p \in Procs : ~Notify(p)
      PROVE  ChangeOwed'
  <2>1. PICK d \in Procs : d = layout.deps[at][dep]
    BY <1>2, Configured DEF BootProgress, TypeOK, TaskTypes
  <2>2. d = layout'.deps[at'][dep'] /\ ~shutting
    BY <1>2, <2>1, Grows
  <2>3. ~Satisfied(d) \/ d \in owed \cup by_hand
    BY <1>2, <2>1, <2>2 DEF ChangeOwed
  <2>4. Satisfied(d)' => d \in owed' \cup by_hand'
    BY <1>2, <2>2, <2>3, SatisfiedIsOwed
  <2>. QED
    BY <2>2, <2>4 DEF ChangeOwed, Satisfied, OneShot, Probed
<1>3. ASSUME UNCHANGED bootVars, \A p \in Procs : ~Notify(p)
      PROVE  ChangeOwed'
  BY <1>2, <1>3
<1>4. CASE DepLoop \/ BootCheck \/ DepWake \/ FilesReady
  BY <1>4 DEF DepLoop, BootCheck, DepWake, FilesReady
<1>5. CASE DepWait
  BY <1>2, <1>5 DEF DepWait, Notify
<1>6. ASSUME NEW p \in Procs, Notify(p)
      PROVE  FALSE
  BY <1>6 DEF Notify, Listening
<1>7. ASSUME NEW p \in Procs, Spawn(p)
      PROVE  ChangeOwed'
  <2>1. boot' = boot /\ at' = at /\ dep' = dep /\ woken' = woken
    BY <1>7 DEF Spawn, SpawnCheck, SpawnFork, SpawnRecord, SpawnArm, SpawnFailed, ByBoot
  <2>. QED
    BY <1>3, <1>6, <2>1
<1>8. ASSUME NEW p \in Procs,
             Ready(p) \/ Handler(p) \/ Monitor(p) \/ ChildExits(p) \/ StopByHand(p)
      PROVE  UNCHANGED bootVars
  BY <1>8 DEF Ready, ReadyPasses, ReadyRecorded, Handler, ExitRecorded, ExitChecked,
    ExitDecided, CoolOffEnds, Monitor, KillTaken, MonitorStopped, ChildExits, StopByHand
<1>9. CASE ShutdownBegins \/ Main \/ UNCHANGED vars
  <2>1. UNCHANGED bootVars
    BY <1>9 DEF ShutdownBegins, Main, StopSignal, TierSignalled, TierGone, StartOrderEnded
  <2>. QED
    BY <1>3, <1>6, <2>1
<1>. QED
  BY <1>1, <1>3, <1>4, <1>5, <1>6, <1>7, <1>8, <1>9 DEF Next, Boot

\* The initial states satisfy the invariant.
LEMMA OrderInit == Init => OrderInv
<1> SUFFICES ASSUME Init  PROVE OrderInv
  OBVIOUS
<1>1. TypeOK
  BY TypeInit
<1>2. DependenciesMet
  BY DEF Init, DependenciesMet
<1>3. BootProgress
  BY DEF Init, BootProgress
<1>4. RecordEarned
  BY DEF Init, RecordEarned, Earned
<1>5. StopAsked
  BY DEF Init, StopAsked, KillInFlight
<1>6. ChangeOwed
  BY DEF Init, ChangeOwed
<1>. QED
  BY <1>1, <1>2, <1>3, <1>4, <1>5, <1>6 DEF OrderInv

\* In every reachable state of the start order and the shutdown: the records
\* are of their types; no process was forked before what it depends on was met;
\* start_all is where its waits allow; and no record says more than its process
\* has earned.
THEOREM OrderInvCorrect == Spec => []OrderInv
<1>1. ASSUME OrderInv, [Next]_vars
      PROVE  OrderInv'
  <2>1. TypeOK'
    BY <1>1, TypeStep DEF OrderInv
  <2>2. DependenciesMet'
    BY <1>1, MetStep DEF OrderInv
  <2>3. BootProgress'
    BY <1>1, ProgressStep DEF OrderInv
  <2>4. RecordEarned'
    BY <1>1, RecordStep DEF OrderInv
  <2>5. StopAsked'
    BY <1>1, StopStep DEF OrderInv
  <2>6. ChangeOwed'
    BY <1>1, WakeStep DEF OrderInv
  <2>. QED
    BY <2>1, <2>2, <2>3, <2>4, <2>5, <2>6 DEF OrderInv
<1>. QED
  BY OrderInit, <1>1, PTL DEF Spec

\* No process of any configuration is forked for the first time before each of
\* its dependencies has been met: the promise of depends_on, which start_all
\* keeps by wait_for_dependencies.
THEOREM DependenciesMetCorrect == Spec => []DependenciesMet
<1>1. OrderInv => DependenciesMet
  BY DEF OrderInv
<1>. QED
  BY OrderInvCorrect, <1>1, PTL

\* A satisfied dependency never leaves start_all asleep until its poll: for every
\* interleaving of its registration, its check and the notifications, its wait has
\* been woken, or the notification is still to come (or the dependency was stopped
\* by hand, which notifies nobody).
THEOREM NoLostWakeupCorrect == Spec => []NoLostWakeup
<1>1. OrderInv => NoLostWakeup
  BY DEF OrderInv, ChangeOwed, NoLostWakeup
<1>. QED
  BY OrderInvCorrect, <1>1, PTL

-----------------------------------------------------------------------------
(* Shutdown: the tiers, and what each stop_all reaches.  How deep the          *)
(* dependencies of a process go is a recursive function of a budget: that it  *)
(* exists is shown by the least budget for which it would not.                *)

Below == {ss \in Nat \X Nat : ss[1] < ss[2]}

\* A set of numbers that is not empty has a least one.
LEMMA Least ==
  ASSUME NEW T, T \subseteq Nat, T # {}
  PROVE  \E n \in T : \A m \in T : n <= m
<1>1. IsWellFoundedOn(Below, Nat)
  BY NatLessThanWellFounded DEF OpToRel, Below
<1>2. PICK n \in T : \A m \in T : <<m, n>> \notin Below
  BY <1>1, WFMin
<1>3. ASSUME NEW m \in T
      PROVE  n <= m
  <2>1. m \in Nat /\ n \in Nat
    OBVIOUS
  <2>2. ~(m < n)
    BY <1>2, <2>1 DEF Below
  <2>. QED
    BY <2>1, <2>2
<1>. QED
  BY <1>3

\* One that is bounded too has a greatest one, which Max returns.
LEMMA MaxIs ==
  ASSUME NEW b \in Nat, NEW S, S \subseteq 0..b, S # {}
  PROVE  Max(S) \in S /\ \A y \in S : Max(S) >= y
<1> DEFINE Bounds == {n \in Nat : \A y \in S : y <= n}
<1>1. b \in Bounds /\ Bounds \subseteq Nat
  OBVIOUS
<1>2. PICK n \in Bounds : \A m \in Bounds : n <= m
  BY <1>1, Least
<1>3. n \in S
  <2> SUFFICES ASSUME n \notin S
               PROVE  FALSE
    OBVIOUS
  <2>1. PICK y \in S : TRUE
    OBVIOUS
  <2>2. n \in Nat /\ \A z \in S : z \in Nat /\ z <= n /\ z # n
    OBVIOUS
  <2>3. n - 1 \in Nat /\ \A z \in S : z <= n - 1
    BY <2>1, <2>2
  <2>. QED
    BY <1>2, <2>2, <2>3
<1>4. \A y \in S : n >= y
  OBVIOUS
<1>. QED
  BY <1>3, <1>4 DEF Max

-----------------------------------------------------------------------------
Shallow == [p \in Procs |-> 0]
Deeper(g) == [p \in Procs |-> Max({0} \cup {1 + g[d] : d \in Deps(p)})]
DepthFrom(g, k) == IF k = 0 THEN Shallow ELSE Deeper(g[k - 1])

\* The recursion of depth has a solution, however many processes there are.
LEMMA DepthExists ==
  ASSUME NEW top \in Nat
  PROVE  \E g : g = [k \in 0..top |-> DepthFrom(g, k)]
<1> DEFINE Fits(t) == \E g : g = [k \in 0..t |-> DepthFrom(g, k)]
           T == {t \in Nat : ~Fits(t)}
<1> SUFFICES ASSUME T # {}
             PROVE  FALSE
  OBVIOUS
<1>1. PICK t \in T : \A m \in T : t <= m
  BY Least
<1>2. t # 0
  <2>1. DepthFrom([k \in 0..0 |-> Shallow], 0) = Shallow
    BY DEF DepthFrom
  <2>2. [k \in 0..0 |-> Shallow] = [k \in 0..0 |-> DepthFrom([k2 \in 0..0 |-> Shallow], k)]
    BY <2>1
  <2>. QED
    BY <1>1, <2>2
<1>3. t \in Nat /\ t - 1 \in Nat /\ Fits(t - 1)
  BY <1>1, <1>2
<1>4. PICK g : g = [k \in 0..(t - 1) |-> DepthFrom(g, k)]
  BY <1>3
<1> DEFINE h == [k \in 0..t |-> IF k = t THEN Deeper(g[t - 1]) ELSE g[k]]
<1>5. ASSUME NEW k \in 0..t
      PROVE  h[k] = DepthFrom(h, k)
  <2>1. CASE k = t
    BY <1>2, <1>3, <2>1 DEF DepthFrom
  <2>2. CASE k # t
    <3>1. k \in 0..(t - 1) /\ h[k] = g[k] /\ (k # 0 => h[k - 1] = g[k - 1])
      BY <1>3, <2>2
    <3>. QED
      BY <1>4, <3>1 DEF DepthFrom
  <2>. QED
    BY <2>1, <2>2
<1>6. h = [k \in 0..t |-> h[k]]
  OBVIOUS
<1> HIDE DEF h
<1>7. h = [k \in 0..t |-> DepthFrom(h, k)]
  BY <1>5, <1>6
<1>. QED
  BY <1>1, <1>7

\* So depth is what its definition says.
LEMMA DepthIs ==
  /\ depth = [k \in 0..N |-> DepthFrom(depth, k)]
  /\ \A p \in Procs : depth[0][p] = 0
  /\ \A k \in 1..N : \A p \in Procs : depth[k][p] = Max({0} \cup {1 + depth[k - 1][d] : d \in Deps(p)})
<1>1. N \in Nat
  BY StartOrderAssumption
<1>2. depth = CHOOSE g : g = [k \in 0..N |-> DepthFrom(g, k)]
  BY DEF depth, DepthFrom, Shallow, Deeper
<1>3. depth = [k \in 0..N |-> DepthFrom(depth, k)]
  BY <1>1, <1>2, DepthExists
<1>4. ASSUME NEW k \in 0..N
      PROVE  depth[k] = DepthFrom(depth, k)
  BY <1>3
<1>5. \A p \in Procs : depth[0][p] = 0
  BY <1>1, <1>4 DEF DepthFrom, Shallow
<1>6. ASSUME NEW k \in 1..N, NEW p \in Procs
      PROVE  depth[k][p] = Max({0} \cup {1 + depth[k - 1][d] : d \in Deps(p)})
  <2>1. k \in 0..N /\ k # 0
    BY <1>1
  <2>2. depth[k] = Deeper(depth[k - 1])
    BY <1>4, <2>1 DEF DepthFrom
  <2>. QED
    BY <2>2 DEF Deeper
<1>. QED
  BY <1>3, <1>5, <1>6

\* A process is no deeper than the budget it is looked at with.
LEMMA DepthType ==
  ASSUME RecordTypes
  PROVE  \A k \in 0..N : \A p \in Procs : depth[k][p] \in 0..k
<1> DEFINE T == {k \in 0..N : \E p \in Procs : depth[k][p] \notin 0..k}
<1> SUFFICES ASSUME T # {}
             PROVE  FALSE
  OBVIOUS
<1>0. N \in Nat /\ T \subseteq Nat
  BY StartOrderAssumption
<1>1. PICK k \in T : \A m \in T : k <= m
  BY <1>0, Least
<1>2. PICK p \in Procs : depth[k][p] \notin 0..k
  OBVIOUS
<1>3. k \in 1..N /\ k - 1 \in 0..N /\ k - 1 \notin T
  <2>1. k # 0
    BY <1>2, DepthIs
  <2>. QED
    BY <1>0, <1>1, <2>1
<1>4. \A d \in Deps(p) : depth[k - 1][d] \in 0..(k - 1)
  BY <1>3, Configured
<1> DEFINE S == {0} \cup {1 + depth[k - 1][d] : d \in Deps(p)}
<1>5. S \subseteq 0..k /\ S # {}
  BY <1>3, <1>4
<1>6. k \in Nat
  BY <1>3
<1>7. Max(S) \in S
  BY <1>5, <1>6, MaxIs
<1>8. depth[k][p] = Max(S)
  BY <1>3, DepthIs
<1>. QED
  BY <1>2, <1>5, <1>7, <1>8

\* Every process is in a tier, and none is in one above the deepest.
LEMMA Tiered ==
  ASSUME RecordTypes
  PROVE  /\ Deepest \in Nat
         /\ \A p \in Procs : Depth(p) \in Nat /\ Depth(p) <= Deepest
<1>1. N \in Nat /\ N \in 0..N /\ 1 \in Procs
  BY StartOrderAssumption DEF Procs
<1> DEFINE S == {Depth(p) : p \in Procs}
<1>2. \A p \in Procs : Depth(p) \in 0..N
  BY <1>1, DepthType DEF Depth
<1>3. S \subseteq 0..N /\ S # {}
  BY <1>1, <1>2
<1>4. Max(S) \in S /\ \A y \in S : Max(S) >= y
  BY <1>1, <1>3, MaxIs
<1>5. Deepest = Max(S)
  BY DEF Deepest
<1>6. Deepest \in Nat
  BY <1>3, <1>4, <1>5
<1>7. ASSUME NEW p \in Procs
      PROVE  Depth(p) \in Nat /\ Depth(p) <= Deepest
  <2>1. Depth(p) \in S /\ Depth(p) \in Nat
    BY <1>2
  <2>. QED
    BY <1>4, <1>5, <1>6, <2>1
<1>. QED
  BY <1>6, <1>7

\* An order in which every process comes after those it depends on.
Ranked(l) == \E rank \in [Procs -> 0..(N - 1)] : \A q \in Procs : \A d \in Range(l.deps[q]) : rank[d] < rank[q]

\* Where there is one, the budget is never spent, and a process is deeper than
\* those it depends on.
LEMMA DependentsDeeper ==
  ASSUME RecordTypes, Ranked(layout), NEW q \in Procs, NEW p \in Deps(q)
  PROVE  Depth(p) < Depth(q)
<1>0. N \in Nat /\ N >= 1
  BY StartOrderAssumption
<1>1. PICK rank \in [Procs -> 0..(N - 1)] : \A r \in Procs : \A d \in Deps(r) : rank[d] < rank[r]
  BY DEF Ranked, Deps
<1> DEFINE T == {n \in 0..(N - 1) : \E r \in Procs : rank[r] = n /\ \E k \in n + 1..N : depth[k][r] # depth[N][r]}
<1>2. T = {}
  <2> SUFFICES ASSUME T # {}
               PROVE  FALSE
    OBVIOUS
  <2>1. PICK n \in T : \A m \in T : n <= m
    <3>1. T \subseteq Nat
      BY <1>0
    <3>. QED
      BY <3>1, Least
  <2>2. PICK r \in Procs, k \in n + 1..N : rank[r] = n /\ depth[k][r] # depth[N][r]
    OBVIOUS
  <2>3. k \in 1..N /\ N \in 1..N /\ k - 1 \in 0..N /\ n \in Nat
    BY <1>0
  <2>4. ASSUME NEW d \in Deps(r)
        PROVE  depth[k - 1][d] = depth[N - 1][d]
    <3>1. d \in Procs /\ rank[d] \in 0..(N - 1) /\ rank[d] < n
      BY <1>1, <2>2, Configured
    <3>2. rank[d] \notin T
      BY <2>1, <2>3, <3>1
    <3>3. \A j \in rank[d] + 1..N : depth[j][d] = depth[N][d]
      BY <3>1, <3>2
    <3>4. k - 1 \in rank[d] + 1..N /\ N - 1 \in rank[d] + 1..N
      BY <1>0, <2>3, <3>1
    <3>. QED
      BY <3>3, <3>4
  <2>5. {1 + depth[k - 1][d] : d \in Deps(r)} = {1 + depth[N - 1][d] : d \in Deps(r)}
    BY <2>4
  <2>6. depth[k][r] = depth[N][r]
    <3>1. depth[k][r] = Max({0} \cup {1 + depth[k - 1][d] : d \in Deps(r)})
      BY <2>3, DepthIs
    <3>2. depth[N][r] = Max({0} \cup {1 + depth[N - 1][d] : d \in Deps(r)})
      BY <2>3, DepthIs
    <3>. QED
      BY ONLY <2>5, <3>1, <3>2
  <2>. QED
    BY <2>2, <2>6
<1>3. p \in Procs /\ rank[p] \in 0..(N - 1) /\ rank[q] \in 0..(N - 1) /\ rank[p] < rank[q]
  BY <1>1, Configured
<1>4. depth[N - 1][p] = depth[N][p]
  <2>1. rank[p] \notin T
    BY <1>2
  <2>2. \A j \in rank[p] + 1..N : depth[j][p] = depth[N][p]
    BY <1>3, <2>1
  <2>3. N - 1 \in rank[p] + 1..N
    BY <1>0, <1>3
  <2>. QED
    BY <2>2, <2>3
<1> DEFINE S == {0} \cup {1 + depth[N - 1][d] : d \in Deps(q)}
<1>5. 1 + depth[N - 1][p] \in S /\ S # {} /\ N - 1 \in 0..N /\ N \in 1..N
  BY <1>0
<1>6. S \subseteq 0..N
  <2>1. \A d \in Deps(q) : depth[N - 1][d] \in 0..(N - 1)
    BY <1>5, DepthType, Configured
  <2>. QED
    BY <1>0, <2>1
<1>7. Max(S) >= 1 + depth[N - 1][p] /\ Max(S) \in S
  BY <1>0, <1>5, <1>6, MaxIs
<1>8. depth[N][q] = Max(S)
  BY <1>5, DepthIs
<1>9. depth[N - 1][p] \in Nat
  BY <1>3, <1>5, DepthType
<1>10. Max(S) \in Nat
  BY <1>6, <1>7
<1>. QED
  BY <1>4, <1>7, <1>8, <1>9, <1>10 DEF Depth

-----------------------------------------------------------------------------
(* What a shutdown has done of a call of stop_all, tier by tier.             *)

\* No child, and none can come: the handler under way finds the flag.
Gone(p) == stage[p] \in {"none", "exited", "unlocked"}
\* No child, or a monitor that has been told to stop it.
Halted(p) == Gone(p) \/ stage[p] = "stopping" \/ KillInFlight(p)

\* A stop under way is in the record, where TierGone looks for it.
StopMarked ==
  \A p \in Procs : stage[p] = "stopping" \/ KillInFlight(p) => state[p] = "Stopping"

\* What is deeper than the tier is gone, what of the tier was signalled is halted,
\* but for those this stop_all missed.
TiersDone ==
  /\ tier \in Nat
  /\ main = "signal" => todo \subseteq Tier(tier)
  /\ main = "wait" => todo = {}
  /\ \A p \in Procs \ missed :
       /\ main \in {"signal", "wait"} /\ Depth(p) > tier => Gone(p)
       /\ main \in {"signal", "wait"} /\ Depth(p) = tier /\ p \notin todo => Halted(p)
       /\ main = "exited" => Gone(p)

\* The second stop_all finds the start order over, so that a process's first run, which
\* start_all forks and hands its handle, is within its reach; only a stop by hand can
\* come before the handle.
FirstRun(p) ==
  /\ runs[p] = 0 => ~handle[p]
  /\ stage[p] \in {"forked", "recorded"} => ByBoot(p) /\ ~handle[p]
  /\ stage[p] = "recorded" => state[p] = "Running"
  /\ stage[p] = "watched" /\ handle[p] => state[p] = "Running"
  /\ call = 2 /\ p \in missed => ~Alive(p)
FirstRunsReached ==
  /\ call = 2 => boot = "done"
  /\ main = "exited" => call = 2
  /\ \A p \in Procs : runs[p] > 1 \/ p \in by_hand \/ FirstRun(p)

ShutdownInv == StopMarked /\ TiersDone /\ FirstRunsReached

\* The record keeps what is asked of its monitor, whatever the action.
LEMMA MarkedStep ==
  ASSUME TypeOK, StopMarked, [Next]_vars
  PROVE  StopMarked'
<1> USE DEF TypeOK, RecordTypes, TaskTypes, StopMarked, KillInFlight, vars, procVars, bootVars,
            mainVars, history
<1>0. CASE UNCHANGED vars
  BY <1>0
<1>1. CASE DepLoop
  BY <1>1 DEF DepLoop
<1>2. CASE DepCheck
  BY <1>2 DEF DepCheck
<1>3. CASE DepWait
  BY <1>3 DEF DepWait
<1>4. CASE DepWake
  BY <1>4 DEF DepWake
<1>5. CASE FilesReady
  BY <1>5 DEF FilesReady
<1>6. CASE BootCheck
  BY <1>6 DEF BootCheck, Goto
<1>7. ASSUME NEW p \in Procs, Notify(p)
      PROVE  StopMarked'
  BY <1>7 DEF Notify
<1>8. ASSUME NEW p \in Procs, SpawnCheck(p)
      PROVE  StopMarked'
  BY <1>8 DEF SpawnCheck, SpawnFailed, Goto, ByBoot
<1>9. ASSUME NEW p \in Procs, SpawnFork(p)
      PROVE  StopMarked'
  BY <1>9 DEF SpawnFork, SpawnFailed, Goto, ByBoot
<1>10. ASSUME NEW p \in Procs, SpawnRecord(p)
      PROVE  StopMarked'
  BY <1>10 DEF SpawnRecord, Goto
<1>11. ASSUME NEW p \in Procs, SpawnArm(p)
      PROVE  StopMarked'
  BY <1>11 DEF SpawnArm, Goto, ByBoot
<1>12. ASSUME NEW p \in Procs, ReadyPasses(p)
      PROVE  StopMarked'
  BY <1>12 DEF ReadyPasses
<1>13. ASSUME NEW p \in Procs, ReadyRecorded(p)
      PROVE  StopMarked'
  BY <1>13 DEF ReadyRecorded
<1>14. ASSUME NEW p \in Procs, ChildExits(p)
      PROVE  StopMarked'
  BY <1>14 DEF ChildExits, Goto, WatchEnds
<1>15. ASSUME NEW p \in Procs, ExitRecorded(p)
      PROVE  StopMarked'
  BY <1>15 DEF ExitRecorded, Goto
<1>16. ASSUME NEW p \in Procs, ExitChecked(p)
      PROVE  StopMarked'
  BY <1>16 DEF ExitChecked, LeaveDown, Goto
<1>17. ASSUME NEW p \in Procs, ExitDecided(p)
      PROVE  StopMarked'
  BY <1>17 DEF ExitDecided, LeaveDown, Goto, Outcomes
<1>18. ASSUME NEW p \in Procs, CoolOffEnds(p)
      PROVE  StopMarked'
  BY <1>18 DEF CoolOffEnds, LeaveDown, Goto
<1>19. ASSUME NEW p \in Procs, KillTaken(p)
      PROVE  StopMarked'
  BY <1>19 DEF KillTaken, Goto
<1>20. ASSUME NEW p \in Procs, MonitorStopped(p)
      PROVE  StopMarked'
  BY <1>20 DEF MonitorStopped, Goto, WatchEnds
<1>21. ASSUME NEW p \in Procs, StopByHand(p)
      PROVE  StopMarked'
  BY <1>21 DEF StopByHand
<1>22. CASE ShutdownBegins
  BY <1>22 DEF ShutdownBegins
<1>23. ASSUME NEW p \in Procs, StopSignal(p)
      PROVE  StopMarked'
  BY <1>23 DEF StopSignal
<1>24. CASE TierSignalled
  BY <1>24 DEF TierSignalled
<1>25. CASE TierGone
  BY <1>25 DEF TierGone
<1>26. CASE StartOrderEnded
  BY <1>26 DEF StartOrderEnded
<1>. QED
  BY <1>0, <1>1, <1>2, <1>3, <1>4, <1>5, <1>6, <1>7, <1>8, <1>9, <1>10, <1>11, <1>12, <1>13,
    <1>14, <1>15, <1>16, <1>17, <1>18, <1>19, <1>20, <1>21, <1>22, <1>23, <1>24, <1>25, <1>26
    DEF Next, Boot, Spawn, Ready, Handler, Monitor, Main

\* During a shutdown what has no child gets none, and what was told to stop stops.
LEMMA HaltStep ==
  ASSUME TypeOK, shutting, [Next]_vars, NEW q \in Procs
  PROVE  (Gone(q) => Gone(q)') /\ (Halted(q) => Halted(q)')
<1> USE DEF TypeOK, RecordTypes, TaskTypes, Gone, Halted, KillInFlight, vars, procVars, bootVars,
            mainVars, history
<1>0. CASE UNCHANGED vars
  BY <1>0
<1>1. CASE DepLoop
  BY <1>1 DEF DepLoop
<1>2. CASE DepCheck
  BY <1>2 DEF DepCheck
<1>3. CASE DepWait
  BY <1>3 DEF DepWait
<1>4. CASE DepWake
  BY <1>4 DEF DepWake
<1>5. CASE FilesReady
  BY <1>5 DEF FilesReady
<1>6. CASE BootCheck
  BY <1>6 DEF BootCheck, Goto
<1>7. ASSUME NEW p \in Procs, Notify(p)
      PROVE  (Gone(q) => Gone(q)') /\ (Halted(q) => Halted(q)')
  BY <1>7 DEF Notify
<1>8. ASSUME NEW p \in Procs, SpawnCheck(p)
      PROVE  (Gone(q) => Gone(q)') /\ (Halted(q) => Halted(q)')
  BY <1>8 DEF SpawnCheck, SpawnFailed, Goto, ByBoot
<1>9. ASSUME NEW p \in Procs, SpawnFork(p)
      PROVE  (Gone(q) => Gone(q)') /\ (Halted(q) => Halted(q)')
  BY <1>9 DEF SpawnFork, SpawnFailed, Goto, ByBoot
<1>10. ASSUME NEW p \in Procs, SpawnRecord(p)
      PROVE  (Gone(q) => Gone(q)') /\ (Halted(q) => Halted(q)')
  BY <1>10 DEF SpawnRecord, Goto
<1>11. ASSUME NEW p \in Procs, SpawnArm(p)
      PROVE  (Gone(q) => Gone(q)') /\ (Halted(q) => Halted(q)')
  BY <1>11 DEF SpawnArm, Goto, ByBoot
<1>12. ASSUME NEW p \in Procs, ReadyPasses(p)
      PROVE  (Gone(q) => Gone(q)') /\ (Halted(q) => Halted(q)')
  BY <1>12 DEF ReadyPasses
<1>13. ASSUME NEW p \in Procs, ReadyRecorded(p)
      PROVE  (Gone(q) => Gone(q)') /\ (Halted(q) => Halted(q)')
  BY <1>13 DEF ReadyRecorded
<1>14. ASSUME NEW p \in Procs, ChildExits(p)
      PROVE  (Gone(q) => Gone(q)') /\ (Halted(q) => Halted(q)')
  BY <1>14 DEF ChildExits, Goto, WatchEnds
<1>15. ASSUME NEW p \in Procs, ExitRecorded(p)
      PROVE  (Gone(q) => Gone(q)') /\ (Halted(q) => Halted(q)')
  BY <1>15 DEF ExitRecorded, Goto
<1>16. ASSUME NEW p \in Procs, ExitChecked(p)
      PROVE  (Gone(q) => Gone(q)') /\ (Halted(q) => Halted(q)')
  BY <1>16 DEF ExitChecked, LeaveDown, Goto
<1>17. ASSUME NEW p \in Procs, ExitDecided(p)
      PROVE  (Gone(q) => Gone(q)') /\ (Halted(q) => Halted(q)')
  BY <1>17 DEF ExitDecided, LeaveDown, Goto, Outcomes
<1>18. ASSUME NEW p \in Procs, CoolOffEnds(p)
      PROVE  (Gone(q) => Gone(q)') /\ (Halted(q) => Halted(q)')
  BY <1>18 DEF CoolOffEnds, LeaveDown, Goto
<1>19. ASSUME NEW p \in Procs, KillTaken(p)
      PROVE  (Gone(q) => Gone(q)') /\ (Halted(q) => Halted(q)')
  BY <1>19 DEF KillTaken, Goto
<1>20. ASSUME NEW p \in Procs, MonitorStopped(p)
      PROVE  (Gone(q) => Gone(q)') /\ (Halted(q) => Halted(q)')
  BY <1>20 DEF MonitorStopped, Goto, WatchEnds
<1>21. ASSUME NEW p \in Procs, StopByHand(p)
      PROVE  (Gone(q) => Gone(q)') /\ (Halted(q) => Halted(q)')
  BY <1>21 DEF StopByHand
<1>22. CASE ShutdownBegins
  BY <1>22 DEF ShutdownBegins
<1>23. ASSUME NEW p \in Procs, StopSignal(p)
      PROVE  (Gone(q) => Gone(q)') /\ (Halted(q) => Halted(q)')
  BY <1>23 DEF StopSignal
<1>24. CASE TierSignalled
  BY <1>24 DEF TierSignalled
<1>25. CASE TierGone
  BY <1>25 DEF TierGone
<1>26. CASE StartOrderEnded
  BY <1>26 DEF StartOrderEnded
<1>. QED
  BY <1>0, <1>1, <1>2, <1>3, <1>4, <1>5, <1>6, <1>7, <1>8, <1>9, <1>10, <1>11, <1>12, <1>13,
    <1>14, <1>15, <1>16, <1>17, <1>18, <1>19, <1>20, <1>21, <1>22, <1>23, <1>24, <1>25, <1>26
    DEF Next, Boot, Spawn, Ready, Handler, Monitor, Main


\* The tiers are those of the configuration.
LEMMA TiersStay ==
  ASSUME layout' = layout
  PROVE  Deepest' = Deepest /\ \A p \in Procs : Depth(p)' = Depth(p)
<1>1. depth' = depth
  BY DEF depth, Deps
<1>. QED
  BY <1>1 DEF Depth, Deepest

\* A stop_all takes the tiers one after the other, whatever the action.
LEMMA TiersStep ==
  ASSUME OrderInv, ShutdownInv, [Next]_vars
  PROVE  TiersDone'
<1>0. /\ TypeOK /\ RecordTypes /\ tier \in Nat /\ (main # "up" => shutting) /\ missed \subseteq Procs
      /\ main \in {"up", "signal", "wait", "join", "exited"} /\ call \in 1..2 /\ todo \subseteq Procs
  BY DEF OrderInv, ShutdownInv, TiersDone, TypeOK, TaskTypes, StopAsked
<1>1. Deepest' = Deepest /\ (\A p \in Procs : Depth(p)' = Depth(p)) /\ \A k \in Nat : Tier(k)' = Tier(k)
  <2>1. layout' = layout
    BY <1>0, Grows
  <2>. QED
    BY <2>1, TiersStay DEF Tier
<1>2. \A p \in Procs : Depth(p) \in Nat /\ Depth(p) <= Deepest /\ Deepest \in Nat
  BY <1>0, Tiered
<1>3. main # "up" => \A p \in Procs : (Gone(p) => Gone(p)') /\ (Halted(p) => Halted(p)')
  BY <1>0, HaltStep
<1>4. ASSUME UNCHANGED <<main, tier, todo, missed>>
      PROVE  TiersDone'
  <2>1. main = "signal" => todo' \subseteq Tier(tier)'
    BY <1>0, <1>1, <1>4 DEF ShutdownInv, TiersDone
  <2>. QED
    BY <1>0, <1>1, <1>3, <1>4, <2>1 DEF ShutdownInv, TiersDone
<1>5. CASE ShutdownBegins \/ StartOrderEnded
  <2>1. main' = "signal" /\ tier' = Deepest /\ todo' = Tier(Deepest) /\ missed' = {}
    BY <1>5 DEF ShutdownBegins, StartOrderEnded, StopAll
  <2>2. Tier(tier)' = Tier(Deepest)
    BY <1>1, <2>1 DEF Tier
  <2>3. \A p \in Procs : ~(Depth(p)' > tier') /\ (Depth(p)' = tier' => p \in todo')
    BY <1>1, <1>2, <2>1 DEF Tier
  <2>4. tier' \in Nat /\ (main = "signal" => todo \subseteq Tier(tier))'
    <3>1. 1 \in Procs
      BY StartOrderAssumption DEF Procs
    <3>. QED
      BY <1>2, <2>1, <2>2, <3>1
  <2>. QED
    BY <2>1, <2>3, <2>4 DEF TiersDone
<1>6. ASSUME NEW p \in Procs, StopSignal(p)
      PROVE  TiersDone'
  <2>1. /\ main = "signal" /\ todo' = todo \ {p} /\ UNCHANGED <<main, tier, stage>>
        /\ missed' = IF Reached(p) THEN missed ELSE missed \cup {p}
    BY <1>6 DEF StopSignal
  <2>2. Reached(p) => Halted(p)'
    BY <1>0, <1>6 DEF StopSignal, Reached, Halted, Gone, KillInFlight, RecordTypes
  <2>3. todo' \subseteq Tier(tier)'
    <3>1. Tier(tier)' = Tier(tier)
      BY <1>1, <2>1 DEF Tier
    <3>. QED
      BY <2>1, <3>1 DEF ShutdownInv, TiersDone
  <2>4. ASSUME NEW q \in Procs \ missed', Depth(q)' = tier', q \notin todo'
        PROVE  Halted(q)'
    <3>1. CASE q = p
      BY <2>1, <2>2, <2>4, <3>1
    <3>2. CASE q # p
      <4>1. q \in Procs \ missed /\ q \notin todo /\ Depth(q) = tier
        BY <1>1, <2>1, <2>4, <3>2
      <4>. QED
        BY <1>3, <2>1, <4>1 DEF ShutdownInv, TiersDone
    <3>. QED
      BY <3>1, <3>2
  <2>5. ASSUME NEW q \in Procs \ missed', Depth(q)' > tier'
        PROVE  Gone(q)'
    <3>1. q \in Procs \ missed /\ Depth(q) > tier
      BY <1>1, <2>1, <2>5
    <3>. QED
      BY <1>3, <2>1, <3>1 DEF ShutdownInv, TiersDone
  <2>. QED
    BY <1>0, <2>1, <2>3, <2>4, <2>5 DEF TiersDone
<1>7. CASE TierSignalled
  <2>1. main = "signal" /\ todo = {} /\ main' = "wait" /\ UNCHANGED <<tier, todo, missed>>
    BY <1>7 DEF TierSignalled
  <2>. QED
    BY <1>0, <1>1, <1>3, <2>1 DEF ShutdownInv, TiersDone
<1>8. CASE TierGone
  <2>1. main = "wait" /\ todo = {} /\ NextTier /\ UNCHANGED <<stage, state, handle, missed>>
    BY <1>8 DEF TierGone, procVars, ShutdownInv, TiersDone
  <2>2. ASSUME NEW q \in Procs \ missed, Depth(q) >= tier
        PROVE  Gone(q)
    <3>1. CASE Depth(q) > tier
      BY <2>1, <3>1 DEF ShutdownInv, TiersDone
    <3>2. CASE Depth(q) = tier
      <4>1. Halted(q) /\ q \in Tier(tier)
        BY <2>1, <3>2 DEF ShutdownInv, TiersDone, Tier
      <4>2. stage[q] = "stopping" \/ KillInFlight(q) => state[q] = "Stopping"
        BY DEF ShutdownInv, StopMarked
      <4>. QED
        BY <1>8, <4>1, <4>2 DEF TierGone, Halted
    <3>. QED
      BY <1>0, <1>2, <2>2, <3>1, <3>2
  <2>3. \A q \in Procs \ missed : Depth(q) >= tier => Gone(q)'
    BY <2>1, <2>2 DEF Gone
  <2>4. CASE tier > 0
    <3>1. main' = "signal" /\ tier' = tier - 1 /\ todo' = Tier(tier - 1)
      BY <2>1, <2>4 DEF NextTier
    <3>2. tier' \in Nat /\ Tier(tier)' = todo'
      BY <1>0, <1>1, <2>4, <3>1 DEF Tier
    <3>3. \A q \in Procs : (Depth(q)' > tier' => Depth(q) >= tier) /\ (Depth(q)' = tier' => q \in todo')
      BY <1>0, <1>1, <1>2, <2>4, <3>1 DEF Tier
    <3>. QED
      BY <2>1, <2>3, <3>1, <3>2, <3>3 DEF TiersDone
  <2>5. CASE ~(tier > 0)
    <3>1. main' \in {"join", "exited"} /\ UNCHANGED <<tier, todo>> /\ tier = 0
      BY <1>0, <2>1, <2>5 DEF NextTier
    <3>2. \A q \in Procs \ missed : Gone(q)'
      BY <1>2, <2>3, <3>1
    <3>. QED
      BY <1>0, <2>1, <3>1, <3>2 DEF TiersDone
  <2>. QED
    BY <2>4, <2>5
<1>9. CASE Boot \/ DepWake \/ FilesReady
  BY <1>4, <1>9 DEF Boot, DepLoop, DepCheck, DepWait, BootCheck, DepWake, FilesReady, mainVars
<1>10. ASSUME NEW p \in Procs,
              \/ Spawn(p) \/ Ready(p) \/ Handler(p) \/ Monitor(p) \/ Notify(p) \/ ChildExits(p) \/ StopByHand(p)
       PROVE  UNCHANGED <<main, tier, todo, missed>>
  BY <1>10 DEF Spawn, SpawnCheck, SpawnFork, SpawnRecord, SpawnArm, Ready, ReadyPasses, ReadyRecorded, Handler,
    ExitRecorded, ExitChecked, ExitDecided, CoolOffEnds, Monitor, KillTaken, MonitorStopped,
    Notify, ChildExits, StopByHand, mainVars
<1>11. CASE UNCHANGED vars
  BY <1>4, <1>11 DEF vars, mainVars
<1>. QED
  BY <1>4, <1>5, <1>6, <1>7, <1>8, <1>9, <1>10, <1>11 DEF Next, Main

\* A first run stays within reach, whatever the action.
LEMMA FirstRunStep ==
  ASSUME OrderInv, ShutdownInv, [Next]_vars, NEW q \in Procs
  PROVE  (runs[q] > 1 \/ q \in by_hand \/ FirstRun(q))'
<1> USE DEF TypeOK, RecordTypes, TaskTypes, FirstRun, Alive, ByBoot, KillInFlight, vars, procVars,
            bootVars, mainVars, history
<1>a. /\ TypeOK /\ Earned(q) /\ (call = 2 => boot = "done")
      /\ runs[q] > 1 \/ q \in by_hand \/ FirstRun(q)
  BY DEF OrderInv, RecordEarned, ShutdownInv, FirstRunsReached
<1> USE <1>a DEF Earned
<1>0. CASE UNCHANGED vars
  BY <1>0
<1>1. CASE DepLoop
  BY <1>1 DEF DepLoop
<1>2. CASE DepCheck
  BY <1>2 DEF DepCheck
<1>3. CASE DepWait
  BY <1>3 DEF DepWait
<1>4. CASE DepWake
  BY <1>4 DEF DepWake
<1>5. CASE FilesReady
  BY <1>5 DEF FilesReady
<1>6. CASE BootCheck
  BY <1>6 DEF BootCheck
<1>7. ASSUME NEW p \in Procs, Notify(p)
      PROVE  (runs[q] > 1 \/ q \in by_hand \/ FirstRun(q))'
  BY <1>7 DEF Notify
<1>8. ASSUME NEW p \in Procs, SpawnCheck(p)
      PROVE  (runs[q] > 1 \/ q \in by_hand \/ FirstRun(q))'
  BY <1>8 DEF SpawnCheck, SpawnFailed, Goto
<1>9. ASSUME NEW p \in Procs, SpawnFork(p)
      PROVE  (runs[q] > 1 \/ q \in by_hand \/ FirstRun(q))'
  BY <1>9 DEF SpawnFork, SpawnFailed, Goto
<1>10. ASSUME NEW p \in Procs, SpawnRecord(p)
      PROVE  (runs[q] > 1 \/ q \in by_hand \/ FirstRun(q))'
  BY <1>10 DEF SpawnRecord, Goto
<1>11. ASSUME NEW p \in Procs, SpawnArm(p)
      PROVE  (runs[q] > 1 \/ q \in by_hand \/ FirstRun(q))'
  BY <1>11 DEF SpawnArm, Goto
<1>12. ASSUME NEW p \in Procs, ReadyPasses(p)
      PROVE  (runs[q] > 1 \/ q \in by_hand \/ FirstRun(q))'
  BY <1>12 DEF ReadyPasses
<1>13. ASSUME NEW p \in Procs, ReadyRecorded(p)
      PROVE  (runs[q] > 1 \/ q \in by_hand \/ FirstRun(q))'
  BY <1>13 DEF ReadyRecorded
<1>14. ASSUME NEW p \in Procs, ChildExits(p)
      PROVE  (runs[q] > 1 \/ q \in by_hand \/ FirstRun(q))'
  BY <1>14 DEF ChildExits, Goto, WatchEnds
<1>15. ASSUME NEW p \in Procs, ExitRecorded(p)
      PROVE  (runs[q] > 1 \/ q \in by_hand \/ FirstRun(q))'
  BY <1>15 DEF ExitRecorded, Goto
<1>16. ASSUME NEW p \in Procs, ExitChecked(p)
      PROVE  (runs[q] > 1 \/ q \in by_hand \/ FirstRun(q))'
  BY <1>16 DEF ExitChecked, LeaveDown, Goto
<1>17. ASSUME NEW p \in Procs, ExitDecided(p)
      PROVE  (runs[q] > 1 \/ q \in by_hand \/ FirstRun(q))'
  BY <1>17 DEF ExitDecided, LeaveDown, Goto, Outcomes
<1>18. ASSUME NEW p \in Procs, CoolOffEnds(p)
      PROVE  (runs[q] > 1 \/ q \in by_hand \/ FirstRun(q))'
  BY <1>18 DEF CoolOffEnds, LeaveDown, Goto
<1>19. ASSUME NEW p \in Procs, KillTaken(p)
      PROVE  (runs[q] > 1 \/ q \in by_hand \/ FirstRun(q))'
  BY <1>19 DEF KillTaken, Goto
<1>20. ASSUME NEW p \in Procs, MonitorStopped(p)
      PROVE  (runs[q] > 1 \/ q \in by_hand \/ FirstRun(q))'
  BY <1>20 DEF MonitorStopped, Goto, WatchEnds
<1>21. ASSUME NEW p \in Procs, StopByHand(p)
      PROVE  (runs[q] > 1 \/ q \in by_hand \/ FirstRun(q))'
  BY <1>21 DEF StopByHand
<1>22. CASE ShutdownBegins
  BY <1>22 DEF ShutdownBegins, StopAll
<1>23. ASSUME NEW p \in Procs, StopSignal(p)
      PROVE  (runs[q] > 1 \/ q \in by_hand \/ FirstRun(q))'
  BY <1>23 DEF StopSignal, Reached
<1>24. CASE TierSignalled
  BY <1>24 DEF TierSignalled
<1>25. CASE TierGone
  BY <1>25 DEF TierGone, NextTier
<1>26. CASE StartOrderEnded
  BY <1>26 DEF StartOrderEnded, StopAll
<1>. QED
  BY <1>0, <1>1, <1>2, <1>3, <1>4, <1>5, <1>6, <1>7, <1>8, <1>9, <1>10, <1>11, <1>12, <1>13,
    <1>14, <1>15, <1>16, <1>17, <1>18, <1>19, <1>20, <1>21, <1>22, <1>23, <1>24, <1>25, <1>26
    DEF Next, Boot, Spawn, Ready, Handler, Monitor, Main

LEMMA FirstRunsStep ==
  ASSUME OrderInv, ShutdownInv, [Next]_vars
  PROVE  FirstRunsReached'
<1>1. /\ call = 2 => boot = "done"
      /\ main = "exited" => call = 2
      /\ call \in 1..2
  BY DEF ShutdownInv, FirstRunsReached, OrderInv, TypeOK, TaskTypes
<1>2. (call = 2 => boot = "done")' /\ (main = "exited" => call = 2)'
  <2> USE DEF vars, procVars, bootVars, mainVars, history
  <2>1. CASE Boot \/ DepWake \/ FilesReady
    BY <1>1, <2>1 DEF Boot, DepLoop, DepCheck, DepWait, BootCheck, DepWake, FilesReady
  <2>2. ASSUME NEW p \in Procs,
               \/ Spawn(p) \/ Ready(p) \/ Handler(p) \/ Monitor(p) \/ Notify(p)
               \/ ChildExits(p) \/ StopByHand(p)
        PROVE  UNCHANGED <<main, call>> /\ (boot = "done" => boot' = "done")
    BY <2>2 DEF Spawn, SpawnCheck, SpawnFork, SpawnRecord, SpawnArm, SpawnFailed, ByBoot, Ready, ReadyPasses,
      ReadyRecorded, Handler, ExitRecorded, ExitChecked, ExitDecided, CoolOffEnds, Monitor,
      KillTaken, MonitorStopped, Notify, ChildExits, StopByHand
  <2>3. CASE ShutdownBegins
    BY <2>3 DEF ShutdownBegins, StopAll
  <2>4. CASE Main
    BY <1>1, <2>4 DEF Main, StopSignal, TierSignalled, TierGone, NextTier, StartOrderEnded, StopAll
  <2>5. CASE UNCHANGED vars
    BY <1>1, <2>5
  <2>. QED
    BY <1>1, <2>1, <2>2, <2>3, <2>4, <2>5 DEF Next
<1>. QED
  BY <1>2, FirstRunStep DEF FirstRunsReached

\* In every reachable state a stop_all has left nothing of the tiers it is done
\* with: TierGone waits for the monitors of what StopSignal reached, the exit handlers
\* give up at the flag, and the second one finds no first run half done.
THEOREM ShutdownInvCorrect == Spec => []ShutdownInv
<1>1. Init => ShutdownInv
  BY DEF Init, ShutdownInv, StopMarked, TiersDone, KillInFlight, FirstRunsReached, FirstRun
<1>2. ASSUME OrderInv, ShutdownInv, [Next]_vars
      PROVE  ShutdownInv'
  BY <1>2, MarkedStep, TiersStep, FirstRunsStep DEF OrderInv, ShutdownInv
<1>. QED
  BY <1>1, <1>2, OrderInvCorrect, PTL DEF Spec

\* stormd exits with no child of its own running, for any dependencies (a cycle
\* among them too) and any interleaving of the shutdown with the start order, the
\* exit handlers and stops by hand: but for a respawn that its last stop_all found half
\* done, and a child whose stop by hand was lost.  What start_all was forking is waited
\* for and stopped.
THEOREM NoneLeftBehindCorrect == Spec => []NoneLeftBehind
<1>1. ShutdownInv => NoneLeftBehind
  <2> SUFFICES ASSUME ShutdownInv, main = "exited", NEW p \in Procs, Alive(p)
               PROVE  p \in missed /\ (runs[p] > 1 \/ p \in by_hand)
    BY DEF NoneLeftBehind
  <2>1. p \in missed
    BY DEF ShutdownInv, TiersDone, Alive, Gone
  <2>. QED
    BY <2>1 DEF ShutdownInv, FirstRunsReached, FirstRun
<1>. QED
  BY <1>1, ShutdownInvCorrect, PTL

\* A stop_all signals a process only when all that depend on it are gone, but for
\* one whose spawn it found half done, where the dependencies have an order.
THEOREM DependentsGoneFirstCorrect ==
  (\A l \in Layouts : Ranked(l)) => (Spec => DependentsGoneFirst)
<1> SUFFICES ASSUME \A l \in Layouts : Ranked(l)
             PROVE  Spec => DependentsGoneFirst
  OBVIOUS
<1> DEFINE Follows == \A p, q \in Procs : StopSignal(p) /\ p \in Deps(q) /\ Alive(q) => q \in missed
<1>1. OrderInv /\ ShutdownInv => Follows
  <2> SUFFICES ASSUME OrderInv, ShutdownInv, NEW p \in Procs, NEW q \in Procs,
                      StopSignal(p), p \in Deps(q), Alive(q), q \notin missed
               PROVE  FALSE
    OBVIOUS
  <2>1. RecordTypes /\ Ranked(layout)
    BY DEF OrderInv, TypeOK, RecordTypes
  <2>2. main = "signal" /\ Depth(p) = tier
    BY DEF StopSignal, ShutdownInv, TiersDone, Tier
  <2>3. Depth(q) > tier
    BY <2>1, <2>2, DependentsDeeper, Tiered
  <2>. QED
    BY <2>2, <2>3 DEF ShutdownInv, TiersDone, Alive, Gone
<1>2. OrderInv /\ ShutdownInv => [Follows]_vars
  BY <1>1
<1>. QED
  BY <1>2, OrderInvCorrect, ShutdownInvCorrect, PTL DEF DependentsGoneFirst
=============================================================================
