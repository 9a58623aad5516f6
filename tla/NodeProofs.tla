------------------------------ MODULE NodeProofs ------------------------------
(***************************************************************************)
(* Theorems about what stormd does for its node beside running processes:  *)
(* the reaper leaves to an owner what the owner reaps in time, the cron    *)
(* scheduler runs no job beside itself and loses no fire time, whoever asks *)
(* for the TLS pair or the cloud's SSH keys is given what holds then, and  *)
(* the node's variables are filled in alike wherever a process finds them. *)
(***************************************************************************)
EXTENDS Reaper, Cron, Reload, Keys, NodeVars, TLAPS, NaturalsInduction, WellFoundedInduction,
        FiniteSetTheorems, SequenceTheorems

-----------------------------------------------------------------------------
(* Reaper: an owner in time has its child's exit status.                   *)

\* An owner reaps its zombie before the reaper's grace is over.
OwnersInTime == \A p \in Pids : children[p] = "owned zombie" => age[p] <= Waiter

\* The clock of a pid the Tracker remembers is no older than the zombie it was
\* started for; a pid is not given again while it is remembered.
Remembered(p) ==
  first_seen[p] # Never /\ (reaper = "tracking" => p \in found) =>
    \/ children[p] = "freed"
    \/ IsZombie(p) /\ first_seen[p] <= age[p]

\* What is reaped by its pid is nobody's, or has been reaped already.
DueIsOrphan(p) == p \in due => children[p] \in {"orphan zombie", "freed"}

FoundStays(p) == reaper = "tracking" /\ p \in found => children[p] \in Zombies \cup {"freed"}

Tracked == \A p \in Pids : Remembered(p) /\ DueIsOrphan(p) /\ FoundStays(p)

ReaperInv ==
  /\ ReaperTypeOK /\ OwnersInTime
  /\ reaper # "reaping" => due = {}
  /\ proc_read => ~stolen /\ reaper # "fallback" /\ Tracked

-----------------------------------------------------------------------------
LEMMA Times == /\ Grace \in Nat /\ Waiter \in Nat /\ Never \in Nat
               /\ Waiter < Grace /\ Grace + 2 < Never /\ 0 < Grace
  BY ReaperAssumption DEF Never

LEMMA NoDelay == 0 <= Waiter /\ 0 \in 0..Never
  BY Times

\* What the type invariant says of one pid.
LEMMA Clocks ==
  ASSUME ReaperTypeOK, NEW p \in Pids
  PROVE  /\ age[p] \in Nat /\ age[p] <= Never
         /\ first_seen[p] \in Nat /\ (first_seen[p] <= Grace \/ first_seen[p] = Never)
         /\ children[p] \in {"free", "freed", "owned alive", "orphan alive"} \cup Zombies
  <1>1. age[p] \in Nat /\ age[p] <= Never
    <2>1. age[p] \in 0..Never BY DEF ReaperTypeOK
    <2> QED BY <2>1, Times
  <1>2. first_seen[p] \in 0..Grace \cup {Never} BY DEF ReaperTypeOK
  <1>3. first_seen[p] \in Nat /\ (first_seen[p] <= Grace \/ first_seen[p] = Never) BY <1>2, Times
  <1> QED BY <1>1, <1>3 DEF ReaperTypeOK

LEMMA InitReaper == ReaperInit => ReaperInv
  <1> SUFFICES ASSUME ReaperInit PROVE ReaperInv OBVIOUS
  <1>1. children \in [Pids -> {"free", "freed", "owned alive", "orphan alive"} \cup Zombies]
    BY DEF ReaperInit
  <1>2. age \in [Pids -> 0..Never] BY Times DEF ReaperInit
  <1>3. first_seen \in [Pids -> 0..Grace \cup {Never}] BY DEF ReaperInit
  <1>4. ReaperTypeOK BY <1>1, <1>2, <1>3 DEF ReaperInit, ReaperTypeOK
  <1>5. OwnersInTime BY DEF ReaperInit, OwnersInTime
  <1>6. Tracked BY DEF ReaperInit, Tracked, Remembered, DueIsOrphan, FoundStays
  <1> QED BY <1>4, <1>5, <1>6 DEF ReaperInit, ReaperInv

\* A pid changes hands between scans.
LEMMA ChildChanges ==
  ASSUME ReaperInv, NEW p \in Pids,
         Forked(p) \/ ChildExits(p) \/ OwnerWaits(p) \/ HandleDropped(p)
  PROVE  ReaperInv'
  <1>1. UNCHANGED <<first_seen, found, due, reaper, proc_read, stolen>>
    BY DEF Forked, ChildExits, OwnerWaits, HandleDropped
  <1>2. PICK c \in {"freed", "owned alive", "orphan alive"} \cup Zombies, a \in {0, age[p]} :
          /\ children' = [children EXCEPT ![p] = c] /\ age' = [age EXCEPT ![p] = a]
          /\ c = "owned zombie" => a = 0
          /\ \/ children[p] = "free"
             \/ children[p] \in {"owned alive", "orphan alive"}
             \/ children[p] = "owned zombie" /\ c = "freed"
             \/ children[p] = "owned zombie" /\ c = "orphan zombie" /\ a = age[p]
    <2>1. CASE Forked(p) BY <2>1 DEF Forked, Becomes
    <2>2. CASE ChildExits(p) BY <2>2 DEF ChildExits, Becomes, Zombies
    <2>3. CASE OwnerWaits(p) BY <2>3 DEF OwnerWaits, Becomes
    <2>4. CASE HandleDropped(p)
      <3>1. age' = [age EXCEPT ![p] = age[p]] BY <2>4 DEF HandleDropped, ReaperInv, ReaperTypeOK
      <3>2. CASE children[p] = "owned alive" BY <2>4, <3>1, <3>2 DEF HandleDropped
      <3>3. CASE children[p] = "owned zombie" BY <2>4, <3>1, <3>3 DEF HandleDropped, Zombies
      <3> QED BY <2>4, <3>2, <3>3 DEF HandleDropped
    <2> QED BY <2>1, <2>2, <2>3, <2>4
  <1>3. /\ children'[p] = c /\ age'[p] = a
        /\ \A q \in Pids \ {p} : children'[q] = children[q] /\ age'[q] = age[q]
    BY <1>2 DEF ReaperInv, ReaperTypeOK
  <1>4. ReaperTypeOK'
    <2>1. 0 \in 0..Never BY NoDelay
    <2>2. age[p] \in 0..Never BY DEF ReaperInv, ReaperTypeOK
    <2>3. age' \in [Pids -> 0..Never] BY <1>2, <2>1, <2>2 DEF ReaperInv, ReaperTypeOK
    <2>4. c \in {"free", "freed", "owned alive", "orphan alive"} \cup Zombies OBVIOUS
    <2>5. children' \in [Pids -> {"free", "freed", "owned alive", "orphan alive"} \cup Zombies]
      BY <1>2, <2>4 DEF ReaperInv, ReaperTypeOK
    <2> QED BY <1>1, <2>3, <2>5 DEF ReaperInv, ReaperTypeOK
  <1>5. OwnersInTime'
    <2>1. ASSUME NEW q \in Pids \ {p}, children'[q] = "owned zombie" PROVE age'[q] <= Waiter
      BY <1>3, <2>1 DEF ReaperInv, OwnersInTime
    <2>2. children'[p] = "owned zombie" => age'[p] = 0 BY <1>2, <1>3
    <2>3. 0 <= Waiter BY NoDelay
    <2> QED BY <2>1, <2>2, <2>3 DEF OwnersInTime
  <1>6. ASSUME proc_read PROVE Tracked'
    <2>1. ASSUME NEW q \in Pids, q # p PROVE (Remembered(q) /\ DueIsOrphan(q) /\ FoundStays(q))'
      BY <1>1, <1>3, <1>6, <2>1
      DEF ReaperInv, Tracked, Remembered, DueIsOrphan, FoundStays, IsZombie
    <2>2. Remembered(p)'
      BY <1>1, <1>2, <1>3, <1>6 DEF ReaperInv, Tracked, Remembered, IsZombie, Zombies
    <2>3. DueIsOrphan(p)' BY <1>1, <1>2, <1>3, <1>6 DEF ReaperInv, Tracked, DueIsOrphan
    <2>4. FoundStays(p)' BY <1>1, <1>2, <1>3, <1>6 DEF ReaperInv, Tracked, FoundStays, Zombies
    <2> QED BY <2>1, <2>2, <2>3, <2>4 DEF Tracked
  <1> QED BY <1>1, <1>4, <1>5, <1>6 DEF ReaperInv

\* The scan: every clock, and every zombie, is a second older.
LEMMA ScanKeeps == ASSUME ReaperInv, SecondPasses PROVE ReaperInv'
  <1>1. /\ reaper = "asleep" /\ due = {} /\ UNCHANGED <<due, stolen>>
        /\ children' = Missed
        /\ \/ reaper' = "tracking" /\ found' = {p \in Pids : IsZombie(p)} /\ proc_read' = proc_read
           \/ reaper' = "fallback" /\ proc_read' = FALSE /\ found' = found
    BY DEF SecondPasses, ReaperInv
  <1>2. ASSUME NEW p \in Pids
        PROVE  /\ children'[p] = IF children[p] = "freed" THEN "free" ELSE children[p]
               /\ age'[p] = IF IsZombie(p) /\ age[p] < Never THEN age[p] + 1 ELSE age[p]
               /\ first_seen'[p] = IF first_seen[p] < Grace THEN first_seen[p] + 1 ELSE first_seen[p]
               /\ children[p] = "owned zombie" => age[p] < Waiter
    BY DEF SecondPasses, Missed
  <1>3. ReaperTypeOK'
    <2>1. children' \in [Pids -> {"free", "freed", "owned alive", "orphan alive"} \cup Zombies]
      BY <1>1 DEF Missed, ReaperInv, ReaperTypeOK
    <2>2. age' \in [Pids -> 0..Never]
      <3>1. ASSUME NEW p \in Pids PROVE age'[p] \in 0..Never
        <4>1. age[p] \in Nat /\ age[p] <= Never BY Clocks DEF ReaperInv
        <4>2. age'[p] = age[p] \/ (age[p] < Never /\ age'[p] = age[p] + 1) BY <1>2
        <4> QED BY <4>1, <4>2, Times
      <3> QED BY <3>1 DEF SecondPasses
    <2>3. first_seen' \in [Pids -> 0..Grace \cup {Never}]
      <3>1. ASSUME NEW p \in Pids PROVE first_seen'[p] \in 0..Grace \cup {Never}
        <4>1. first_seen[p] \in Nat /\ (first_seen[p] <= Grace \/ first_seen[p] = Never)
          BY Clocks DEF ReaperInv
        <4>2. CASE first_seen[p] < Grace
          <5>1. first_seen'[p] = first_seen[p] + 1 BY <1>2, <4>2
          <5>2. first_seen'[p] \in 0..Grace BY <4>1, <4>2, <5>1, Times
          <5> QED BY <5>2
        <4>3. CASE ~(first_seen[p] < Grace)
          <5>1. first_seen'[p] = first_seen[p] BY <1>2, <4>3
          <5> QED BY <5>1 DEF ReaperInv, ReaperTypeOK
        <4> QED BY <4>2, <4>3
      <3> QED BY <3>1 DEF SecondPasses
    <2>4. found' \subseteq Pids BY <1>1 DEF ReaperInv, ReaperTypeOK
    <2> QED BY <1>1, <2>1, <2>2, <2>3, <2>4 DEF ReaperInv, ReaperTypeOK
  <1>4. OwnersInTime'
    <2>1. ASSUME NEW p \in Pids, children'[p] = "owned zombie" PROVE age'[p] <= Waiter
      <3>1. children[p] = "owned zombie" /\ age[p] < Waiter BY <1>2, <2>1
      <3>2. age[p] \in Nat BY Clocks DEF ReaperInv
      <3>3. age'[p] = age[p] \/ age'[p] = age[p] + 1 BY <1>2
      <3>4. age[p] < Waiter BY <3>1
      <3> QED BY <3>2, <3>3, <3>4, Times
    <2> QED BY <2>1 DEF OwnersInTime
  <1>5. ASSUME proc_read', NEW p \in Pids PROVE (Remembered(p) /\ DueIsOrphan(p) /\ FoundStays(p))'
    <2>1. proc_read /\ reaper' = "tracking" /\ found' = {q \in Pids : IsZombie(q)} BY <1>1, <1>5
    <2>2. Remembered(p) BY <2>1 DEF ReaperInv, Tracked
    <2>3. p \in found' => IsZombie(p) /\ children'[p] = children[p]
      BY <1>2, <2>1 DEF IsZombie, Zombies
    <2>4. Remembered(p)'
      <3> SUFFICES ASSUME first_seen'[p] # Never, p \in found'
                   PROVE  IsZombie(p)' /\ first_seen'[p] <= age'[p]
        BY <2>1 DEF Remembered, Never
      <3>1. IsZombie(p) /\ IsZombie(p)' /\ children[p] # "freed" BY <2>3 DEF IsZombie, Zombies
      <3>2. /\ age[p] \in Nat /\ age[p] <= Never /\ first_seen[p] \in Nat
            /\ first_seen[p] <= Grace \/ first_seen[p] = Never
        BY Clocks DEF ReaperInv
      <3>3. ~(Never < Grace) BY Times
      <3>4. first_seen[p] # Never BY <1>2, <3>3
      <3>5. first_seen[p] <= age[p] BY <1>1, <2>2, <3>1, <3>4 DEF Remembered
      <3>6. age'[p] = IF age[p] < Never THEN age[p] + 1 ELSE age[p] BY <1>2, <3>1
      <3>7. first_seen'[p] = IF first_seen[p] < Grace THEN first_seen[p] + 1 ELSE first_seen[p] BY <1>2
      <3>8. first_seen'[p] <= age'[p] BY <3>2, <3>4, <3>5, <3>6, <3>7, Times
      <3> QED BY <3>1, <3>8
    <2>5. DueIsOrphan(p)' BY <1>1 DEF DueIsOrphan
    <2>6. FoundStays(p)' BY <2>3 DEF FoundStays, IsZombie
    <2> QED BY <2>4, <2>5, <2>6
  <1> QED BY <1>1, <1>3, <1>4, <1>5 DEF ReaperInv, Tracked

\* What is due has been a zombie for the whole grace, longer than any owner takes.
LEMMA TrackerKeeps == ASSUME ReaperInv, TrackerDue PROVE ReaperInv'
  <1> DEFINE seen == [p \in Pids |-> IF p \notin found THEN Never
                                     ELSE IF first_seen[p] = Never THEN 0 ELSE first_seen[p]]
  <1>1. /\ reaper = "tracking" /\ reaper' = "reaping" /\ found' = {}
        /\ due' = {p \in found : seen[p] >= Grace}
        /\ first_seen' = [p \in Pids |-> IF p \in due' THEN Never ELSE seen[p]]
        /\ UNCHANGED <<children, age, proc_read, stolen>>
    BY DEF TrackerDue
  <1>2. found \subseteq Pids BY DEF ReaperInv, ReaperTypeOK
  <1>3. ASSUME NEW p \in Pids
        PROVE  seen[p] = IF p \notin found THEN Never
                         ELSE IF first_seen[p] = Never THEN 0 ELSE first_seen[p]
    OBVIOUS
  <1> HIDE DEF seen
  <1>4. ReaperTypeOK'
    <2>1. ASSUME NEW p \in Pids PROVE seen[p] \in 0..Grace \cup {Never}
      <3>1. 0 \in 0..Grace BY Times
      <3>2. first_seen[p] \in 0..Grace \cup {Never} BY DEF ReaperInv, ReaperTypeOK
      <3> QED BY <1>3, <3>1, <3>2
    <2>2. first_seen' \in [Pids -> 0..Grace \cup {Never}] BY <1>1, <2>1
    <2>3. due' \subseteq Pids BY <1>1, <1>2
    <2> QED BY <1>1, <2>2, <2>3 DEF ReaperInv, ReaperTypeOK
  <1>5. ASSUME proc_read, NEW p \in Pids PROVE (Remembered(p) /\ DueIsOrphan(p) /\ FoundStays(p))'
    <2>1. Remembered(p) /\ FoundStays(p) BY <1>5 DEF ReaperInv, Tracked
    <2>2. age[p] \in Nat /\ first_seen[p] \in Nat BY Clocks DEF ReaperInv
    <2>3. ASSUME p \in found PROVE children[p] = "freed" \/ (IsZombie(p) /\ seen[p] <= age[p])
      <3>1. children[p] = "freed" \/ IsZombie(p) BY <1>1, <2>1, <2>3 DEF FoundStays, IsZombie
      <3>2. CASE first_seen[p] = Never
        <4>1. seen[p] = 0 BY <1>3, <2>3, <3>2
        <4>2. seen[p] <= age[p] BY <2>2, <4>1
        <4> QED BY <3>1, <4>2
      <3>3. CASE first_seen[p] # Never
        <4>1. seen[p] = first_seen[p] BY <1>3, <2>3, <3>3
        <4> QED BY <2>1, <2>3, <3>3, <4>1 DEF Remembered
      <3> QED BY <3>2, <3>3
    <2>4. Remembered(p)'
      <3>1. first_seen'[p] = IF p \in due' THEN Never ELSE seen[p] BY <1>1
      <3>2. first_seen'[p] # Never => p \in found /\ first_seen'[p] = seen[p] BY <1>3, <3>1
      <3> QED BY <1>1, <2>3, <3>2 DEF Remembered, IsZombie, Never
    <2>5. DueIsOrphan(p)'
      <3> SUFFICES ASSUME p \in due' PROVE children'[p] \in {"orphan zombie", "freed"}
        BY DEF DueIsOrphan
      <3>1. p \in found /\ seen[p] >= Grace BY <1>1
      <3>2. CASE children[p] = "freed" BY <1>1, <3>2
      <3>3. CASE IsZombie(p) /\ seen[p] <= age[p]
        <4>1. seen[p] \in Nat BY <1>3, <2>2, <3>1
        <4>2. seen[p] >= Grace /\ seen[p] <= age[p] BY <3>1, <3>3
        <4>3. ~(age[p] <= Waiter) BY <2>2, <4>1, <4>2, Times
        <4>4. children[p] # "owned zombie" BY <4>3 DEF ReaperInv, OwnersInTime
        <4> QED BY <1>1, <3>3, <4>4 DEF IsZombie, Zombies
      <3> QED BY <2>3, <3>1, <3>2, <3>3
    <2>6. FoundStays(p)' BY <1>1 DEF FoundStays
    <2> QED BY <2>4, <2>5, <2>6
  <1>6. OwnersInTime' BY <1>1 DEF ReaperInv, OwnersInTime
  <1> QED BY <1>1, <1>4, <1>5, <1>6 DEF ReaperInv, Tracked

LEMMA ReapsKeep == ASSUME ReaperInv, Reap \/ ReapAny PROVE ReaperInv'
  <1>1. CASE UNCHANGED <<children, age, stolen>>
    <2>1. /\ UNCHANGED <<children, age, first_seen, found, proc_read, stolen>>
          /\ due' \subseteq due
          /\ \/ reaper' = reaper
             \/ reaper # "tracking" /\ reaper' = "asleep" /\ due' = {}
      BY <1>1 DEF Reap, ReapAny, ReaperInv
    <2>2. ReaperTypeOK' BY <2>1 DEF ReaperInv, ReaperTypeOK
    <2>3. OwnersInTime' BY <2>1 DEF ReaperInv, OwnersInTime
    <2>4. ASSUME proc_read, NEW p \in Pids PROVE (Remembered(p) /\ DueIsOrphan(p) /\ FoundStays(p))'
      BY <2>1, <2>4 DEF ReaperInv, Tracked, Remembered, DueIsOrphan, FoundStays, IsZombie
    <2> QED BY <2>1, <2>2, <2>3, <2>4 DEF ReaperInv, Tracked
  <1>2. ASSUME NEW p \in Pids, Taken(p), IsZombie(p),
               UNCHANGED <<first_seen, found, reaper, proc_read>>,
               \/ reaper = "reaping" /\ p \in due /\ due' = due \ {p}
               \/ reaper = "fallback" /\ UNCHANGED due
        PROVE  ReaperInv'
    <2>1. /\ children'[p] = "freed" /\ age'[p] = 0
          /\ \A q \in Pids \ {p} : children'[q] = children[q] /\ age'[q] = age[q]
      BY <1>2 DEF Taken, Becomes, ReaperInv, ReaperTypeOK
    <2>2. stolen' = (stolen \/ children[p] = "owned zombie") BY <1>2 DEF Taken
    <2>3. ReaperTypeOK'
      <3>1. 0 \in 0..Never BY NoDelay
      <3>2. stolen' \in BOOLEAN BY <2>2
      <3>3. /\ children' \in [Pids -> {"free", "freed", "owned alive", "orphan alive"} \cup Zombies]
            /\ age' \in [Pids -> 0..Never]
        BY <1>2, <3>1 DEF Taken, Becomes, ReaperInv, ReaperTypeOK
      <3> QED BY <1>2, <3>2, <3>3 DEF ReaperInv, ReaperTypeOK
    <2>4. OwnersInTime' BY <2>1 DEF ReaperInv, OwnersInTime
    <2>5. ASSUME proc_read PROVE ~stolen' /\ Tracked'
      <3>1. reaper = "reaping" /\ p \in due /\ Tracked /\ ~stolen BY <1>2, <2>5 DEF ReaperInv
      <3>2. children[p] # "owned zombie" BY <3>1, <1>2 DEF Tracked, DueIsOrphan
      <3>3. ASSUME NEW q \in Pids PROVE (Remembered(q) /\ DueIsOrphan(q) /\ FoundStays(q))'
        BY <1>2, <2>1, <3>1 DEF Tracked, Remembered, DueIsOrphan, FoundStays, IsZombie
      <3> QED BY <2>2, <3>1, <3>2, <3>3 DEF Tracked
    <2> QED BY <1>2, <2>3, <2>4, <2>5 DEF ReaperInv
  <1>3. due \subseteq Pids BY DEF ReaperInv, ReaperTypeOK
  <1> QED BY <1>1, <1>2, <1>3 DEF Reap, ReapAny

LEMMA StepReaper == ReaperInv /\ [ReaperNext]_ReaperVars => ReaperInv'
  <1> SUFFICES ASSUME ReaperInv, [ReaperNext]_ReaperVars PROVE ReaperInv' OBVIOUS
  <1>1. CASE UNCHANGED ReaperVars
    BY <1>1
    DEF ReaperVars, ReaperInv, ReaperTypeOK, OwnersInTime, Tracked, Remembered, DueIsOrphan, FoundStays,
        IsZombie, Zombies
  <1> QED BY <1>1, ChildChanges, ScanKeeps, TrackerKeeps, ReapsKeep DEF ReaperNext

\* Owners are in time, and the Tracker's clocks are of zombies at least as old.
THEOREM ReaperInvCorrect == ReaperSpec => []ReaperInv
  BY InitReaper, StepReaper, PTL DEF ReaperSpec

\* While /proc can be read, the reaper of PID 1 never takes the exit status of a child
\* whose owner reaps it within less than the grace, however pids are used again.
THEOREM StatusKeptCorrect == ReaperSpec => []StatusKept
  <1>1. ReaperInv => StatusKept BY DEF ReaperInv, StatusKept
  <1> QED BY <1>1, ReaperInvCorrect, PTL

-----------------------------------------------------------------------------
(* Cron: no overlap, and every fire time counted.                          *)

\* The part of the type invariant that the counting needs.
CountsTyped ==
  /\ running \in [Jobs -> BOOLEAN] /\ jobs_to_run \subseteq Jobs
  /\ run_count \in [Jobs -> Nat] /\ fail_count \in [Jobs -> Nat]
  /\ starting \in [Jobs -> Nat] /\ job_children \in [Jobs -> Nat]
  /\ ending \in [good : [Jobs -> Nat], bad : [Jobs -> Nat]]
  /\ fires \in [Jobs -> Nat] /\ skips \in [Jobs -> Nat]

\* The loop looks for what is due only when it has started all that was.
ClaimedFirst == scheduler # "claiming" => jobs_to_run = {}

CronInv == CountsTyped /\ ClaimedFirst /\ OneRunPerJob

\* What OneRunPerJob says of one job.
JobCounted(j) ==
  /\ Going(j) = IF running[j] THEN 1 ELSE 0
  /\ fires[j] = run_count[j] + Going(j) + skips[j] + IF j \in jobs_to_run THEN 1 ELSE 0
  /\ fail_count[j] <= run_count[j]

-----------------------------------------------------------------------------
LEMMA EachCounted == OneRunPerJob <=> \A j \in Jobs : JobCounted(j)
  BY DEF OneRunPerJob, JobCounted

\* The results of one kind change, and those of the other stay.
LEMMA EndingParts ==
  ASSUME CountsTyped, NEW f
  PROVE  /\ [ending EXCEPT !.good = f] = [good |-> f, bad |-> ending.bad]
         /\ [ending EXCEPT !.bad = f] = [good |-> ending.good, bad |-> f]
         /\ ending.good \in [Jobs -> Nat] /\ ending.bad \in [Jobs -> Nat]
  BY DEF CountsTyped

LEMMA InitCron == CronInit => CronInv
  BY CronAssumption DEF CronInit, None, CronInv, CountsTyped, ClaimedFirst, OneRunPerJob, Going

LEMMA LooksCron == CronInv /\ CronLooks => CronInv'
  <1> SUFFICES ASSUME CronInv, CronLooks PROVE CronInv' OBVIOUS
  <1> DEFINE due_now == {j \in Jobs : next_run[j] <= now}
  <1>1. /\ jobs_to_run = {} /\ jobs_to_run' = due_now /\ scheduler' = "claiming"
        /\ fires' = [j \in Jobs |-> IF j \in due_now THEN fires[j] + 1 ELSE fires[j]]
        /\ UNCHANGED <<running, run_count, fail_count, starting, job_children, ending, skips>>
    BY DEF CronLooks, CronInv, ClaimedFirst, job_tasks
  <1> HIDE DEF due_now
  <1>2. due_now \subseteq Jobs BY DEF due_now
  <1>3. CountsTyped' BY <1>1, <1>2 DEF CronInv, CountsTyped
  <1>4. ASSUME NEW j \in Jobs PROVE JobCounted(j)'
    <2>1. JobCounted(j) BY EachCounted DEF CronInv
    <2>2. fires'[j] = IF j \in due_now THEN fires[j] + 1 ELSE fires[j] BY <1>1
    <2> QED BY <1>1, <2>1, <2>2 DEF JobCounted, Going, CronInv, CountsTyped
  <1> QED BY <1>1, <1>3, <1>4, EachCounted DEF CronInv, ClaimedFirst, JobCounted, OneRunPerJob

LEMMA StepCron == CronInv /\ [CronNext]_CronVars => CronInv'
  <1> SUFFICES ASSUME CronInv, [CronNext]_CronVars PROVE CronInv' OBVIOUS
  <1> USE DEF CronInv
  <1>0. CountsTyped /\ ClaimedFirst /\ \A j \in Jobs : JobCounted(j) BY EachCounted
  <1>1. ASSUME UNCHANGED <<running, run_count, fail_count, jobs_to_run, job_tasks, fires, skips>>,
               ClaimedFirst'
        PROVE  CronInv'
    BY <1>0, <1>1 DEF CountsTyped, OneRunPerJob, Going, job_tasks
  <1>2. CASE ClockTicks \/ CronShutdown BY <1>1, <1>2 DEF ClockTicks, CronShutdown, ClaimedFirst, job_state, loop_state
  <1>3. CASE CronSleeps BY <1>1, <1>3 DEF CronSleeps, ClaimedFirst, job_state
  <1>4. CASE CronWakes BY <1>1, <1>4 DEF CronWakes, ClaimedFirst, job_state
  <1>5. CASE CronLooks BY <1>5, LooksCron
  <1>6. ASSUME NEW j \in Jobs, CronClaims(j) PROVE CronInv'
    <2>0. ending.good \in [Jobs -> Nat] /\ ending.bad \in [Jobs -> Nat] BY <1>0, EndingParts
    <2>1. /\ scheduler = "claiming" /\ scheduler' = scheduler
          /\ j \in jobs_to_run /\ jobs_to_run' = jobs_to_run \ {j}
          /\ UNCHANGED <<run_count, fail_count, job_children, ending, fires>>
          /\ \/ running[j] /\ skips' = More(skips, j) /\ UNCHANGED <<running, starting>>
             \/ /\ ~running[j] /\ running' = [running EXCEPT ![j] = TRUE]
                /\ starting' = More(starting, j) /\ UNCHANGED skips
      BY <1>6 DEF CronClaims
    <2>2. CountsTyped'
      <3>1. running' \in [Jobs -> BOOLEAN] BY <1>0, <2>1 DEF CountsTyped
      <3>2. starting' \in [Jobs -> Nat] /\ skips' \in [Jobs -> Nat] BY <1>0, <2>1 DEF CountsTyped, More
      <3> QED BY <1>0, <2>1, <3>1, <3>2 DEF CountsTyped
    <2>3. JobCounted(j)'
      <3>1. JobCounted(j) BY <1>0
      <3>2. CASE running[j]
        <4>1. starting' = starting /\ running' = running /\ skips'[j] = skips[j] + 1
          BY <1>0, <2>1, <3>2 DEF CountsTyped, More
        <4> QED BY <1>0, <2>0, <2>1, <3>1, <4>1 DEF JobCounted, Going, CountsTyped
      <3>3. CASE ~running[j]
        <4>1. running'[j] BY <1>0, <2>1, <3>3 DEF CountsTyped
        <4>2. starting'[j] = starting[j] + 1 /\ skips' = skips BY <1>0, <2>1, <3>3 DEF CountsTyped, More
        <4> QED BY <1>0, <2>0, <2>1, <3>1, <3>3, <4>1, <4>2 DEF JobCounted, Going, CountsTyped
      <3> QED BY <3>2, <3>3
    <2>4. ASSUME NEW k \in Jobs, k # j PROVE JobCounted(k)'
      <3>1. JobCounted(k) BY <1>0
      <3> QED BY <1>0, <2>0, <2>1, <2>4, <3>1 DEF More, Fewer, JobCounted, Going, CountsTyped
    <2>5. OneRunPerJob' BY <2>3, <2>4 DEF OneRunPerJob, JobCounted
    <2> QED BY <1>0, <2>1, <2>2, <2>5 DEF ClaimedFirst
  <1>7. ASSUME NEW j \in Jobs, JobSpawns(j) PROVE CronInv'
    <2>0. ending.good \in [Jobs -> Nat] /\ ending.bad \in [Jobs -> Nat] BY <1>0, EndingParts
    <2>1. /\ starting[j] > 0 /\ starting' = Fewer(starting, j)
          /\ \/ job_children' = More(job_children, j) /\ UNCHANGED ending
             \/ ending' = [good |-> ending.good, bad |-> More(ending.bad, j)] /\ UNCHANGED job_children
          /\ UNCHANGED <<running, run_count, fail_count, scheduler, jobs_to_run, fires, skips>>
      BY <1>0, <1>7, EndingParts DEF JobSpawns, job_state, loop_state
    <2>2. CountsTyped' BY <1>0, <2>0, <2>1 DEF More, Fewer, CountsTyped
    <2>3. JobCounted(j)' BY <1>0, <2>0, <2>1 DEF More, Fewer, JobCounted, Going, CountsTyped
    <2>4. ASSUME NEW k \in Jobs, k # j PROVE JobCounted(k)'
      <3>1. JobCounted(k) BY <1>0
      <3> QED BY <1>0, <2>0, <2>1, <2>4, <3>1 DEF More, Fewer, JobCounted, Going, CountsTyped
    <2>5. OneRunPerJob' BY <2>3, <2>4 DEF OneRunPerJob, JobCounted
    <2> QED BY <1>0, <2>1, <2>2, <2>5 DEF ClaimedFirst
  <1>8. ASSUME NEW j \in Jobs, JobEnds(j) \/ JobTimesOut(j) PROVE CronInv'
    <2>0. ending.good \in [Jobs -> Nat] /\ ending.bad \in [Jobs -> Nat] BY <1>0, EndingParts
    <2>1. /\ job_children[j] > 0 /\ job_children' = Fewer(job_children, j)
          /\ \/ ending' = [good |-> More(ending.good, j), bad |-> ending.bad]
             \/ ending' = [good |-> ending.good, bad |-> More(ending.bad, j)]
          /\ UNCHANGED <<running, run_count, fail_count, scheduler, jobs_to_run, starting, fires, skips>>
      BY <1>0, <1>8, EndingParts DEF JobEnds, JobTimesOut, job_state, loop_state
    <2>2. CountsTyped' BY <1>0, <2>0, <2>1 DEF More, Fewer, CountsTyped
    <2>3. JobCounted(j)' BY <1>0, <2>0, <2>1 DEF More, Fewer, JobCounted, Going, CountsTyped
    <2>4. ASSUME NEW k \in Jobs, k # j PROVE JobCounted(k)'
      <3>1. JobCounted(k) BY <1>0
      <3> QED BY <1>0, <2>0, <2>1, <2>4, <3>1 DEF More, Fewer, JobCounted, Going, CountsTyped
    <2>5. OneRunPerJob' BY <2>3, <2>4 DEF OneRunPerJob, JobCounted
    <2> QED BY <1>0, <2>1, <2>2, <2>5 DEF ClaimedFirst
  <1>9. ASSUME NEW j \in Jobs, JobRecorded(j) PROVE CronInv'
    <2>0. ending.good \in [Jobs -> Nat] /\ ending.bad \in [Jobs -> Nat] BY <1>0, EndingParts
    <2>1. /\ \/ /\ ending.good[j] > 0 /\ UNCHANGED fail_count
                /\ ending' = [good |-> Fewer(ending.good, j), bad |-> ending.bad]
             \/ /\ ending.bad[j] > 0 /\ fail_count' = More(fail_count, j)
                /\ ending' = [good |-> ending.good, bad |-> Fewer(ending.bad, j)]
          /\ run_count' = More(run_count, j) /\ running' = [running EXCEPT ![j] = FALSE]
          /\ UNCHANGED <<scheduler, jobs_to_run, starting, job_children, fires, skips>>
      BY <1>0, <1>9, EndingParts DEF JobRecorded, loop_state
    <2>2. CountsTyped' BY <1>0, <2>0, <2>1 DEF More, Fewer, CountsTyped
    <2>3. JobCounted(j)' BY <1>0, <2>0, <2>1 DEF More, Fewer, JobCounted, Going, CountsTyped
    <2>4. ASSUME NEW k \in Jobs, k # j PROVE JobCounted(k)'
      <3>1. JobCounted(k) BY <1>0
      <3> QED BY <1>0, <2>0, <2>1, <2>4, <3>1 DEF More, Fewer, JobCounted, Going, CountsTyped
    <2>5. OneRunPerJob' BY <2>3, <2>4 DEF OneRunPerJob, JobCounted
    <2> QED BY <1>0, <2>1, <2>2, <2>5 DEF ClaimedFirst
  <1>10. CASE UNCHANGED CronVars
    BY <1>1, <1>0, <1>10 DEF CronVars, job_state, job_tasks, loop_state, ClaimedFirst
  <1> QED BY <1>2, <1>3, <1>4, <1>5, <1>6, <1>7, <1>8, <1>9, <1>10 DEF CronNext

\* The counts, and that the loop claims all it has found before it looks again.
THEOREM CronInvCorrect == CronSpec => []CronInv
  BY InitCron, StepCron, PTL DEF CronSpec

\* cron.rs: a job never runs beside itself, `running' tells the truth of it, and every
\* fire time that has come is a run, recorded or going on, or one that was skipped: for
\* any number of jobs, at any paces, however their runs end.
THEOREM OneRunPerJobCorrect == CronSpec => []OneRunPerJob
  BY CronInvCorrect, PTL DEF CronInv

-----------------------------------------------------------------------------
(* Reload: the files' newest pair.                                         *)

\* The lock is held by the one asker that reads.
OneReads == \A a \in Askers : ask[a] \in {"cert", "key"} <=> holder = a

\* Stamps only grow: one taken is none of a later file.
Older(s) == \A f \in PairParts : s[f] <= Stamps[f]
NoneNewer == Older(stamps) /\ \A a \in Askers : Older(saw[a])

\* Nothing has changed for who began after the last change, or has read it all.
Unchanged(a) ==
  fresh[a] => /\ ask[a] # "idle" => saw[a] = Stamps
              /\ ask[a] = "key" => got[a]["cert"] = Contents("cert")

\* Stamps that are still the files' are of what has been read, if it was.
ReadWhole(a) ==
  ask[a] = "key" /\ saw[a] = Stamps /\ ~missed => got[a]["cert"] = Stamps["cert"]

\* What is served is what its stamps say, while nobody is replacing it.
ServedIsStamped ==
  holder = "nobody" /\ stamps = Stamps /\ ~missed /\ Loads(Stamps) => current = Stamps

GivenNewest(a) ==
  ask[a] = "done" /\ fresh[a] /\ Loads(Stamps) /\ (\A f \in PairParts : readable[f]) =>
    got[a] = Stamps

ReloadInv ==
  /\ ReloadTypeOK /\ OneReads /\ NoneNewer /\ ServedIsStamped
  /\ \A a \in Askers : Unchanged(a) /\ ReadWhole(a) /\ GivenNewest(a)

-----------------------------------------------------------------------------
LEMMA StampsTyped == ReloadTypeOK => Stamps \in [PairParts -> 0..MaxVersion]
  <1> SUFFICES ASSUME ReloadTypeOK PROVE Stamps \in [PairParts -> 0..MaxVersion] OBVIOUS
  <1>1. 0 \in 0..MaxVersion BY ReloadAssumption
  <1> QED BY <1>1 DEF Stamps, ReloadTypeOK

\* A file that can be read gives what it is stamped with.
LEMMA ReadIsStamp ==
  ASSUME NEW f \in PairParts, ~Unopened(f), ReloadTypeOK PROVE Contents(f) = Stamps[f]
  BY DEF Unopened, Contents, Stamps, ReloadTypeOK

LEMMA StampsKept == ASSUME UNCHANGED <<kind, version>> PROVE Stamps' = Stamps
  BY DEF Stamps, Used

LEMMA ContentsKept == ASSUME UNCHANGED <<kind, version, readable>>, NEW f PROVE Contents(f)' = Contents(f)
  BY DEF Contents, Used

LEMMA LoadsKept == ASSUME UNCHANGED <<kind, version>> PROVE Loads(Stamps)' = Loads(Stamps)
  BY StampsKept DEF Loads

LEMMA InitReload == ReloadInit => ReloadInv
  <1> SUFFICES ASSUME ReloadInit PROVE ReloadInv OBVIOUS
  <1>1. version \in [PairParts -> {0, 1}] /\ version["cert"] = 1 BY DEF ReloadInit, PairParts
  <1>2. 0 \in 0..MaxVersion /\ 1 \in 0..MaxVersion BY ReloadAssumption
  <1>3. version \in [PairParts -> 0..MaxVersion] /\ NoValue \in [PairParts -> 0..MaxVersion]
    BY <1>1, <1>2 DEF NoValue
  <1>4. ReloadTypeOK BY <1>3 DEF ReloadInit, ReloadTypeOK
  <1>5. OneReads BY ReloadAssumption DEF ReloadInit, OneReads
  <1>6. ASSUME NEW s \in {NoValue, Stamps} PROVE Older(s)
    <2>1. ASSUME NEW f \in PairParts PROVE Stamps[f] \in {0, 1} BY <1>1 DEF Stamps
    <2> QED BY <2>1 DEF Older, NoValue
  <1>7. kind # "token" => Stamps = version BY <1>1 DEF Stamps, Used
  <1>8. NoneNewer BY <1>6, <1>7 DEF NoneNewer, ReloadInit
  <1>9. "cert" \in PairParts /\ Stamps["cert"] = 1 /\ NoValue["cert"] = 0
    BY <1>1 DEF Stamps, Used, PairParts, NoValue
  <1>10. ServedIsStamped BY <1>7, <1>9 DEF ReloadInit, ServedIsStamped
  <1> QED BY <1>4, <1>5, <1>8, <1>10 DEF ReloadInit, ReloadInv, Unchanged, ReadWhole, GivenNewest

\* After a write, no stamp there is is of the file: nothing is promised of any.
LEMMA WriteKeeps == ASSUME ReloadInv, NEW f \in Used, FileWritten(f) PROVE ReloadInv'
  <1>0. f \in PairParts BY DEF Used, PairParts
  <1>1. /\ version[f] < MaxVersion /\ version' = [version EXCEPT ![f] = @ + 1]
        /\ fresh' = [a \in Askers |-> FALSE]
        /\ UNCHANGED <<kind, readable, stamps, current, holder, ask, saw, got, missed>>
    BY DEF FileWritten, Stale, reload_cache
  <1>2. version \in [PairParts -> 0..MaxVersion] BY DEF ReloadInv, ReloadTypeOK
  <1>3. version' \in [PairParts -> 0..MaxVersion]
    <2>1. version[f] \in 0..MaxVersion /\ version[f] + 1 \in 0..MaxVersion
      BY <1>0, <1>1, <1>2, ReloadAssumption
    <2> QED BY <1>1, <1>2, <2>1
  <1>4. ReloadTypeOK' BY <1>1, <1>3 DEF ReloadInv, ReloadTypeOK
  <1>5. \A g \in PairParts : Stamps[g] \in Nat /\ Stamps'[g] \in Nat
    <2>1. Stamps \in [PairParts -> 0..MaxVersion] BY StampsTyped DEF ReloadInv
    <2>2. Stamps' \in [PairParts -> 0..MaxVersion]
      <3>1. 0 \in 0..MaxVersion BY ReloadAssumption
      <3> QED BY <1>3, <3>1 DEF Stamps
    <2> QED BY <2>1, <2>2
  <1>6. Stamps'[f] = Stamps[f] + 1 /\ \A g \in PairParts \ {f} : Stamps'[g] = Stamps[g]
    <2>1. Used' = Used BY <1>1 DEF Used
    <2>2. version'[f] = version[f] + 1 /\ \A g \in PairParts \ {f} : version'[g] = version[g]
      BY <1>0, <1>1, <1>2
    <2> QED BY <1>0, <2>1, <2>2 DEF Stamps
  <1>7. ASSUME NEW s \in [PairParts -> 0..MaxVersion], Older(s)
        PROVE  s # Stamps' /\ \A g \in PairParts : s[g] <= Stamps'[g]
    <2>1. \A g \in PairParts : s[g] \in Nat /\ s[g] <= Stamps[g] BY <1>7 DEF Older
    <2>2. s[f] < Stamps'[f] BY <1>0, <1>5, <1>6, <2>1
    <2>3. \A g \in PairParts : s[g] <= Stamps'[g] BY <1>5, <1>6, <2>1
    <2>4. s[f] # Stamps'[f] BY <1>0, <1>5, <2>1, <2>2
    <2> QED BY <2>3, <2>4
  <1>8. stamps \in [PairParts -> 0..MaxVersion] /\ \A a \in Askers : saw[a] \in [PairParts -> 0..MaxVersion]
    BY DEF ReloadInv, ReloadTypeOK
  <1>9. stamps' # Stamps' /\ \A a \in Askers : saw'[a] # Stamps'
    BY <1>1, <1>7, <1>8 DEF ReloadInv, NoneNewer
  <1>10. NoneNewer' BY <1>1, <1>7, <1>8 DEF ReloadInv, NoneNewer, Older
  <1>11. OneReads' BY <1>1 DEF ReloadInv, OneReads
  <1> QED BY <1>1, <1>4, <1>9, <1>10, <1>11
          DEF ReloadInv, ServedIsStamped, Unchanged, ReadWhole, GivenNewest

LEMMA TurnKeeps == ASSUME ReloadInv, NEW f \in PairParts, FileTurns(f) PROVE ReloadInv'
  <1>1. /\ readable' = [readable EXCEPT ![f] = ~readable[f]] /\ fresh' = [a \in Askers |-> FALSE]
        /\ UNCHANGED <<kind, version, stamps, current, holder, ask, saw, got, missed>>
    BY DEF FileTurns, Stale, reload_cache
  <1>2. Stamps' = Stamps /\ Loads(Stamps)' = Loads(Stamps) BY <1>1, StampsKept, LoadsKept
  <1>3. ReloadTypeOK' BY <1>1 DEF ReloadInv, ReloadTypeOK
  <1>4. NoneNewer' BY <1>1, <1>2 DEF ReloadInv, NoneNewer, Older
  <1>5. ServedIsStamped' BY <1>1, <1>2 DEF ReloadInv, ServedIsStamped
  <1> QED BY <1>1, <1>2, <1>3, <1>4, <1>5
          DEF ReloadInv, OneReads, Unchanged, ReadWhole, GivenNewest

LEMMA AskerKeeps ==
  ASSUME ReloadInv, NEW a \in Askers,
         TakesStamps(a) \/ Locks(a) \/ ReadsFirst(a) \/ Stores(a) \/ AsksAgain(a)
  PROVE  ReloadInv'
  <1>1. UNCHANGED <<kind, version, readable>>
    BY DEF TakesStamps, Locks, ReadsFirst, Stores, ReadsAndStores, AsksAgain, reload_files
  <1>2. Stamps' = Stamps /\ Loads(Stamps)' = Loads(Stamps) /\ \A f : Contents(f)' = Contents(f)
    BY <1>1, StampsKept, LoadsKept, ContentsKept
  <1>3. Stamps \in [PairParts -> 0..MaxVersion] BY StampsTyped DEF ReloadInv
  <1>4. /\ NoValue \in [PairParts -> 0..MaxVersion]
        /\ \A f \in PairParts : Contents(f) \in 0..MaxVersion
    <2>1. 0 \in 0..MaxVersion BY ReloadAssumption
    <2> QED BY <2>1 DEF NoValue, Contents, ReloadInv, ReloadTypeOK
  <1>5. Older(NoValue) /\ Older(Stamps)
    <2>1. ASSUME NEW f \in PairParts PROVE Stamps[f] \in Nat BY <1>3
    <2>2. ASSUME NEW f \in PairParts PROVE NoValue[f] = 0 BY DEF NoValue
    <2> QED BY <2>1, <2>2 DEF Older
  <1>6. "cert" \in PairParts /\ "key" \in PairParts BY DEF PairParts
  \* What the others see, if a takes or lets go of nothing of theirs.
  <1>7. ASSUME NEW b \in Askers, b # a,
               ask'[b] = ask[b], saw'[b] = saw[b], got'[b] = got[b], fresh'[b] = fresh[b],
               missed' = missed \/ ask[b] # "key"
        PROVE  (Unchanged(b) /\ ReadWhole(b) /\ GivenNewest(b))'
    BY <1>1, <1>2, <1>7 DEF ReloadInv, Unchanged, ReadWhole, GivenNewest
  <1>8. CASE TakesStamps(a)
    <2>1. /\ ask[a] = "idle" /\ ask' = [ask EXCEPT ![a] = "stamped"]
          /\ saw' = [saw EXCEPT ![a] = Stamps] /\ fresh' = [fresh EXCEPT ![a] = TRUE]
          /\ UNCHANGED <<stamps, current, holder, got, missed>>
      BY <1>8 DEF TakesStamps, AskGo, reload_cache
    <2>2. ReloadTypeOK' BY <1>1, <1>3, <2>1 DEF ReloadInv, ReloadTypeOK
    <2>3. ask'[a] = "stamped" /\ saw'[a] = Stamps BY <2>1 DEF ReloadInv, ReloadTypeOK
    <2>4. ASSUME NEW b \in Askers, b # a
          PROVE  ask'[b] = ask[b] /\ saw'[b] = saw[b] /\ got'[b] = got[b] /\ fresh'[b] = fresh[b]
      BY <2>1, <2>4 DEF ReloadInv, ReloadTypeOK
    <2>5. OneReads' BY <2>1, <2>3, <2>4 DEF ReloadInv, OneReads
    <2>6. NoneNewer' BY <1>2, <1>5, <2>1, <2>3, <2>4 DEF ReloadInv, NoneNewer, Older
    <2>7. ServedIsStamped' BY <1>2, <2>1 DEF ReloadInv, ServedIsStamped
    <2>8. (Unchanged(a) /\ ReadWhole(a) /\ GivenNewest(a))'
      BY <1>2, <2>3 DEF Unchanged, ReadWhole, GivenNewest
    <2> QED BY <1>7, <2>1, <2>2, <2>4, <2>5, <2>6, <2>7, <2>8 DEF ReloadInv
  <1>9. CASE Locks(a) /\ (Changed(a) \/ Retried(a))
    <2>1. /\ ask[a] = "stamped" /\ holder = "nobody" /\ holder' = a
          /\ ask' = [ask EXCEPT ![a] = "cert"] /\ got' = [got EXCEPT ![a] = NoValue]
          /\ UNCHANGED <<stamps, current, saw, fresh, missed>>
      BY <1>9 DEF Locks, AskGo
    <2>2. ReloadTypeOK' BY <1>1, <1>4, <2>1 DEF ReloadInv, ReloadTypeOK
    <2>3. ask'[a] = "cert" BY <2>1 DEF ReloadInv, ReloadTypeOK
    <2>4. ASSUME NEW b \in Askers, b # a PROVE ask'[b] = ask[b] /\ got'[b] = got[b]
      BY <2>1, <2>4 DEF ReloadInv, ReloadTypeOK
    <2>5. OneReads' BY <2>1, <2>3, <2>4, ReloadAssumption DEF ReloadInv, OneReads
    <2>6. NoneNewer' BY <1>2, <2>1 DEF ReloadInv, NoneNewer, Older
    <2>7. ServedIsStamped' BY <2>1, ReloadAssumption DEF ServedIsStamped
    <2>8. (Unchanged(a) /\ ReadWhole(a) /\ GivenNewest(a))'
      BY <1>2, <2>1, <2>3 DEF ReloadInv, Unchanged, ReadWhole, GivenNewest
    <2> QED BY <1>7, <2>1, <2>2, <2>4, <2>5, <2>6, <2>7, <2>8 DEF ReloadInv
  <1>10. CASE Locks(a) /\ ~(Changed(a) \/ Retried(a))
    <2>1. /\ ask[a] = "stamped" /\ holder = "nobody" /\ saw[a] = stamps
          /\ ask' = [ask EXCEPT ![a] = "done"] /\ got' = [got EXCEPT ![a] = current]
          /\ fresh' = [fresh EXCEPT ![a] = fresh[a] /\ ~missed]
          /\ UNCHANGED <<stamps, current, holder, saw, missed>>
      BY <1>10 DEF Locks, AskGo, Changed
    <2>2. ReloadTypeOK' BY <1>1, <2>1 DEF ReloadInv, ReloadTypeOK
    <2>3. ask'[a] = "done" /\ got'[a] = current /\ (fresh'[a] => fresh[a] /\ ~missed)
      BY <2>1 DEF ReloadInv, ReloadTypeOK
    <2>4. ASSUME NEW b \in Askers, b # a
          PROVE  ask'[b] = ask[b] /\ got'[b] = got[b] /\ fresh'[b] = fresh[b]
      BY <2>1, <2>4 DEF ReloadInv, ReloadTypeOK
    <2>5. OneReads' BY <2>1, <2>3, <2>4, ReloadAssumption DEF ReloadInv, OneReads
    <2>6. NoneNewer' BY <1>2, <2>1 DEF ReloadInv, NoneNewer, Older
    <2>7. ServedIsStamped' BY <1>2, <2>1 DEF ReloadInv, ServedIsStamped
    <2>8. fresh'[a] => saw[a] = Stamps BY <2>1, <2>3 DEF ReloadInv, Unchanged
    <2>9. fresh'[a] /\ Loads(Stamps) => current = Stamps
      BY <2>1, <2>3, <2>8 DEF ReloadInv, ServedIsStamped
    <2>10. (Unchanged(a) /\ ReadWhole(a) /\ GivenNewest(a))'
      BY <1>2, <2>1, <2>3, <2>8, <2>9 DEF Unchanged, ReadWhole, GivenNewest
    <2> QED BY <1>7, <2>1, <2>2, <2>4, <2>5, <2>6, <2>7, <2>10 DEF ReloadInv
  <1>11. CASE ReadsFirst(a)
    <2>1. /\ ask[a] = "cert" /\ ask' = [ask EXCEPT ![a] = "key"]
          /\ got' = [got EXCEPT ![a] = [got[a] EXCEPT !["cert"] = Contents("cert")]]
          /\ missed' = Unopened("cert")
          /\ UNCHANGED <<stamps, current, holder, saw, fresh>>
      BY <1>11 DEF ReadsFirst, AskGo, reload_cache
    <2>2. ReloadTypeOK'
      <3>1. got' \in [Askers -> [PairParts -> 0..MaxVersion]]
        BY <1>4, <1>6, <2>1 DEF ReloadInv, ReloadTypeOK
      <3>2. missed' \in BOOLEAN BY <2>1 DEF Unopened
      <3> QED BY <1>1, <2>1, <3>1, <3>2 DEF ReloadInv, ReloadTypeOK
    <2>3. ask'[a] = "key" /\ got'[a]["cert"] = Contents("cert")
      BY <1>6, <2>1 DEF ReloadInv, ReloadTypeOK
    <2>4. ASSUME NEW b \in Askers, b # a PROVE ask'[b] = ask[b] /\ got'[b] = got[b] /\ ask[b] # "key"
      BY <2>1, <2>4 DEF ReloadInv, ReloadTypeOK, OneReads
    <2>5. OneReads' BY <2>1, <2>3, <2>4 DEF ReloadInv, OneReads
    <2>6. NoneNewer' BY <1>2, <2>1 DEF ReloadInv, NoneNewer, Older
    <2>7. ServedIsStamped' BY <2>1, ReloadAssumption DEF ReloadInv, OneReads, ServedIsStamped
    <2>8. ~missed' => Contents("cert") = Stamps["cert"] BY <1>6, <2>1, ReadIsStamp DEF ReloadInv
    <2>9. (Unchanged(a) /\ ReadWhole(a) /\ GivenNewest(a))'
      BY <1>2, <2>1, <2>3, <2>8 DEF ReloadInv, Unchanged, ReadWhole, GivenNewest
    <2> QED BY <1>7, <2>1, <2>2, <2>4, <2>5, <2>6, <2>7, <2>9 DEF ReloadInv
  <1>12. CASE Stores(a)
    <2> DEFINE read == [got[a] EXCEPT !["key"] = Contents("key")]
    <2>1. /\ ask[a] = "key" /\ holder' = "nobody" /\ ask' = [ask EXCEPT ![a] = "done"]
          /\ stamps' = saw[a] /\ current' = IF Loads(read) THEN read ELSE current
          /\ got' = [got EXCEPT ![a] = current'] /\ missed' = (missed \/ Unopened("key"))
          /\ UNCHANGED <<saw, fresh>>
      BY <1>12 DEF Stores, ReadsAndStores, AskGo
    <2>2. /\ read \in [PairParts -> 0..MaxVersion]
          /\ read["cert"] = got[a]["cert"] /\ read["key"] = Contents("key")
      BY <1>4, <1>6 DEF ReloadInv, ReloadTypeOK, PairParts
    <2> HIDE DEF read
    <2>3. ReloadTypeOK'
      <3>1. current' \in [PairParts -> 0..MaxVersion] BY <2>1, <2>2 DEF ReloadInv, ReloadTypeOK
      <3>2. missed' \in BOOLEAN BY <2>1 DEF Unopened
      <3> QED BY <1>1, <2>1, <3>1, <3>2 DEF ReloadInv, ReloadTypeOK
    <2>4. ask'[a] = "done" /\ got'[a] = current' BY <2>1 DEF ReloadInv, ReloadTypeOK
    <2>5. ASSUME NEW b \in Askers, b # a PROVE ask'[b] = ask[b] /\ got'[b] = got[b] /\ ask[b] # "key"
      BY <2>1, <2>5 DEF ReloadInv, ReloadTypeOK, OneReads
    <2>6. OneReads'
      <3>1. holder = a BY <2>1 DEF ReloadInv, OneReads
      <3> QED BY <2>1, <2>4, <2>5, <3>1, ReloadAssumption DEF ReloadInv, OneReads
    <2>7. NoneNewer' BY <1>2, <2>1 DEF ReloadInv, NoneNewer, Older
    <2>8. ASSUME got[a]["cert"] = Stamps["cert"], Contents("key") = Stamps["key"] PROVE read = Stamps
      BY <1>3, <2>2, <2>8 DEF PairParts
    <2>9. ServedIsStamped'
      <3> SUFFICES ASSUME saw[a] = Stamps, ~missed', Loads(Stamps) PROVE current' = Stamps
        BY <1>2, <2>1 DEF ServedIsStamped
      <3>1. ~missed /\ ~Unopened("key") BY <2>1
      <3>2. got[a]["cert"] = Stamps["cert"] BY <2>1, <3>1 DEF ReloadInv, ReadWhole
      <3>3. Contents("key") = Stamps["key"] BY <1>6, <3>1, ReadIsStamp DEF ReloadInv
      <3> QED BY <2>1, <2>8, <3>2, <3>3
    <2>10. (Unchanged(a) /\ ReadWhole(a))' BY <1>2, <2>1, <2>4 DEF ReloadInv, Unchanged, ReadWhole
    <2>11. GivenNewest(a)'
      <3> SUFFICES ASSUME fresh[a], Loads(Stamps), \A f \in PairParts : readable[f]
                   PROVE  current' = Stamps
        BY <1>1, <1>2, <2>1, <2>4 DEF GivenNewest
      <3>1. ~Unopened("cert") /\ ~Unopened("key") BY <1>6 DEF Unopened
      <3>2. Contents("cert") = Stamps["cert"] /\ Contents("key") = Stamps["key"]
        BY <1>6, <3>1, ReadIsStamp DEF ReloadInv
      <3>3. got[a]["cert"] = Contents("cert") BY <2>1 DEF ReloadInv, Unchanged
      <3> QED BY <2>1, <2>8, <3>2, <3>3
    <2> QED BY <1>7, <2>1, <2>3, <2>5, <2>6, <2>7, <2>9, <2>10, <2>11 DEF ReloadInv
  <1>13. CASE AsksAgain(a)
    <2>1. /\ ask[a] = "done" /\ ask' = [ask EXCEPT ![a] = "idle"]
          /\ saw' = [saw EXCEPT ![a] = NoValue] /\ got' = [got EXCEPT ![a] = NoValue]
          /\ fresh' = [fresh EXCEPT ![a] = FALSE]
          /\ UNCHANGED <<stamps, current, holder, missed>>
      BY <1>13 DEF AsksAgain, AskGo, reload_cache
    <2>2. ReloadTypeOK' BY <1>1, <1>4, <2>1 DEF ReloadInv, ReloadTypeOK
    <2>3. ask'[a] = "idle" /\ saw'[a] = NoValue BY <2>1 DEF ReloadInv, ReloadTypeOK
    <2>4. ASSUME NEW b \in Askers, b # a
          PROVE  ask'[b] = ask[b] /\ saw'[b] = saw[b] /\ got'[b] = got[b] /\ fresh'[b] = fresh[b]
      BY <2>1, <2>4 DEF ReloadInv, ReloadTypeOK
    <2>5. OneReads' BY <2>1, <2>3, <2>4 DEF ReloadInv, OneReads
    <2>6. NoneNewer' BY <1>2, <1>5, <2>1, <2>3, <2>4 DEF ReloadInv, NoneNewer, Older
    <2>7. ServedIsStamped' BY <1>2, <2>1 DEF ReloadInv, ServedIsStamped
    <2>8. (Unchanged(a) /\ ReadWhole(a) /\ GivenNewest(a))'
      BY <2>3 DEF Unchanged, ReadWhole, GivenNewest
    <2> QED BY <1>7, <2>1, <2>2, <2>4, <2>5, <2>6, <2>7, <2>8 DEF ReloadInv
  <1> QED BY <1>8, <1>9, <1>10, <1>11, <1>12, <1>13

LEMMA StepReload == ReloadInv /\ [ReloadNext]_ReloadVars => ReloadInv'
  <1> SUFFICES ASSUME ReloadInv, [ReloadNext]_ReloadVars PROVE ReloadInv' OBVIOUS
  <1>1. ASSUME NEW f \in Used, FileWritten(f) PROVE ReloadInv' BY <1>1, WriteKeeps
  <1>2. ASSUME NEW f \in Used \cap Fickle, FileTurns(f) PROVE ReloadInv'
    BY <1>2, ReloadAssumption, TurnKeeps
  <1>3. CASE UNCHANGED ReloadVars
    <2>1. UNCHANGED <<kind, version, readable, stamps, current, holder, ask, saw, got, fresh, missed>>
      BY <1>3 DEF ReloadVars, reload_files, reload_cache
    <2>2. Stamps' = Stamps /\ Loads(Stamps)' = Loads(Stamps) /\ \A f : Contents(f)' = Contents(f)
      BY <2>1, StampsKept, LoadsKept, ContentsKept
    <2> QED BY <2>1, <2>2
            DEF ReloadInv, ReloadTypeOK, OneReads, NoneNewer, Older, ServedIsStamped, Unchanged, ReadWhole,
                GivenNewest
  <1> QED BY <1>1, <1>2, <1>3, AskerKeeps DEF ReloadNext

\* One asker reads at a time, and what is stored under stamps that are still the
\* files' is what the files hold, or a file is missing from it.
THEOREM ReloadInvCorrect == ReloadSpec => []ReloadInv
  BY InitReload, StepReload, PTL DEF ReloadSpec

\* A rotated pair, CA file or token is what the next handshake or request is given,
\* whatever askers that began before the rotation store meanwhile (ReloadingCert::get,
\* ReloadingClientVerifier, TokenFile::current).
THEOREM ServesNewestCorrect == ReloadSpec => []ServesNewest
  <1>1. ReloadInv => ServesNewest BY DEF ReloadInv, GivenNewest, ServesNewest
  <1> QED BY <1>1, ReloadInvCorrect, PTL

-----------------------------------------------------------------------------
(* Keys: the keys of the last good fetch, and no others.                   *)

KeyPairs == (PubKeys \ Unparsable) \X Indices

\* The part of the type invariant that the proof needs, and the history's types.
KeysTyped ==
  /\ imds \in [up : BOOLEAN, tokens : BOOLEAN, epoch : Nat \ {0}, served : [Indices -> Served]]
  /\ token \in Nat
  /\ fetch \in [at : {"idle", "token", "get"}, for : Indices \cup {"index"}, using : Nat,
                attempt : {0, 1}, left : SUBSET Indices, got : SUBSET KeyPairs]
  /\ during \in [since : SUBSET KeyPairs, through : SUBSET KeyPairs, disturbed : BOOLEAN,
                 refused : SUBSET Indices]
  /\ told \in [since : SUBSET KeyPairs, through : SUBSET KeyPairs]

\* The store has what the last good fetch promised, and nothing the service did not have.
StoreTold == told.through \subseteq key_store /\ key_store \subseteq told.since

\* What is served now has been since the fetch began, and what was served throughout is.
ServedDuring ==
  fetch.at # "idle" =>
    during.through \subseteq Pairs(imds.served) /\ Pairs(imds.served) \subseteq during.since

\* A key that was there all the while has been got, or its entry is still to be asked
\* for, or was refused by a service that was disturbed.
GotOrLeft ==
  fetch.at # "idle" =>
    /\ fetch.got \subseteq during.since
    /\ fetch.for # "index" =>
         \A p \in during.through :
           \/ p \in fetch.got \/ p[2] \in fetch.left \cup {fetch.for}
           \/ during.disturbed /\ p[2] \in during.refused

\* In a fetch that nothing disturbs a refused token is an old one, and is refused once.
RefusedOnce ==
  fetch.at # "idle" /\ ~during.disturbed =>
    /\ imds.up
    /\ fetch.at = "token" /\ fetch.attempt = 1 => token = 0
    /\ fetch.at = "get" /\ imds.tokens =>
         /\ fetch.using # 0
         /\ fetch.attempt = 1 => fetch.using = imds.epoch

KeysInv == KeysTyped /\ StoreTold /\ ServedDuring /\ GotOrLeft /\ RefusedOnce

\* What is served makes pairs of a key and an index.
LEMMA PairsTyped == ASSUME NEW served PROVE Pairs(served) \in SUBSET KeyPairs
  BY DEF Pairs, KeyPairs

LEMMA InitKeys == KeysInit => KeysInv
<1> SUFFICES ASSUME KeysInit PROVE KeysInv
  OBVIOUS
<1>1. KeysTyped
  <2>1. fetch \in [at : {"idle", "token", "get"}, for : Indices \cup {"index"}, using : Nat,
                   attempt : {0, 1}, left : SUBSET Indices, got : SUBSET KeyPairs]
    BY DEF KeysInit, NoFetch
  <2>2. imds \in [up : BOOLEAN, tokens : BOOLEAN, epoch : Nat \ {0}, served : [Indices -> Served]]
    <3>1. PICK u \in {TRUE}, t \in BOOLEAN, e \in {1}, s \in [Indices -> Served] :
            imds = [up |-> u, tokens |-> t, epoch |-> e, served |-> s]
      BY DEF KeysInit
    <3>2. u \in BOOLEAN /\ e \in Nat \ {0}
      OBVIOUS
    <3> QED BY <3>1, <3>2
  <2>3. /\ during \in [since : SUBSET KeyPairs, through : SUBSET KeyPairs, disturbed : BOOLEAN,
                       refused : SUBSET Indices]
        /\ told \in [since : SUBSET KeyPairs, through : SUBSET KeyPairs]
    BY DEF KeysInit
  <2> QED BY <2>1, <2>2, <2>3 DEF KeysInit, KeysTyped
<1> QED BY <1>1 DEF KeysInit, KeysInv, StoreTold, ServedDuring, GotOrLeft, RefusedOnce, NoFetch

\* The service and the file between two steps of a fetch.
LEMMA ServiceKeys ==
  ASSUME KeysInv,
         \/ ImdsTurns \/ ImdsRestarts \/ (\E i \in Indices, keys \in Served : ImdsServes(i, keys))
         \/ (\E keys \in Served : FileListed(keys)) \/ UNCHANGED keysVars
  PROVE  KeysInv'
<1>1. CASE ImdsTurns \/ ImdsRestarts
  <2>1. /\ during' = [during EXCEPT !.disturbed = TRUE] \/ UNCHANGED during
        /\ UNCHANGED <<token, fetch, key_store, told>>
        /\ imds' = [imds EXCEPT !.up = ~@] \/ imds' = [imds EXCEPT !.epoch = @ + 1]
    BY <1>1 DEF ImdsTurns, ImdsRestarts, Disturbs
  <2>2. KeysTyped'
    <3>1. imds' \in [up : BOOLEAN, tokens : BOOLEAN, epoch : Nat \ {0}, served : [Indices -> Served]]
      <4>1. CASE imds' = [imds EXCEPT !.up = ~@]
        BY <4>1 DEF KeysInv, KeysTyped
      <4>2. CASE imds' = [imds EXCEPT !.epoch = @ + 1]
        BY <4>2 DEF KeysInv, KeysTyped
      <4> QED BY <2>1, <4>1, <4>2
    <3> QED BY <2>1, <3>1 DEF KeysInv, KeysTyped
  <2>3. /\ during'.since = during.since /\ during'.through = during.through
        /\ during'.refused = during.refused /\ (during.disturbed => during'.disturbed)
        /\ imds'.served = imds.served
    BY <2>1 DEF KeysInv, KeysTyped
  <2>4. RefusedOnce'
    <3>1. CASE during'.disturbed
      BY <3>1 DEF RefusedOnce
    <3>2. CASE ~during'.disturbed
      <4>1. during' # [during EXCEPT !.disturbed = TRUE]
        BY <3>2 DEF KeysInv, KeysTyped
      <4>2. /\ imds' = [imds EXCEPT !.epoch = @ + 1] /\ ~(fetch.at = "get" /\ fetch.attempt = 1)
            /\ UNCHANGED during
        BY <1>1, <2>1, <4>1 DEF ImdsTurns, ImdsRestarts, Disturbs
      <4>3. imds'.up = imds.up /\ imds'.tokens = imds.tokens
        BY <4>2 DEF KeysInv, KeysTyped
      <4> QED BY <2>1, <4>2, <4>3 DEF KeysInv, RefusedOnce
    <3> QED BY <3>1, <3>2
  <2> QED BY <2>1, <2>2, <2>3, <2>4 DEF KeysInv, StoreTold, ServedDuring, GotOrLeft
<1>2. ASSUME NEW i \in Indices, NEW keys \in Served, ImdsServes(i, keys)
      PROVE  KeysInv'
  <2>1. /\ imds' = [imds EXCEPT !.served[i] = keys]
        /\ during' = [during EXCEPT !.since = @ \cup Pairs(imds'.served), !.through = @ \cap Pairs(imds'.served)]
        /\ UNCHANGED <<token, fetch, key_store, told>>
    BY <1>2 DEF ImdsServes
  <2>2. /\ during'.disturbed = during.disturbed /\ during'.since = during.since \cup Pairs(imds'.served)
        /\ during'.refused = during.refused
        /\ during'.through = during.through \cap Pairs(imds'.served)
        /\ imds'.up = imds.up /\ imds'.epoch = imds.epoch /\ imds'.tokens = imds.tokens
    BY <2>1 DEF KeysInv, KeysTyped
  <2>3. KeysTyped'
    BY <2>1, PairsTyped DEF KeysInv, KeysTyped
  <2> QED BY <2>1, <2>2, <2>3 DEF KeysInv, StoreTold, ServedDuring, GotOrLeft, RefusedOnce
<1>3. CASE (\E keys \in Served : FileListed(keys)) \/ UNCHANGED keysVars
  BY <1>3 DEF FileListed, keysVars, KeysInv, KeysTyped, StoreTold, ServedDuring, GotOrLeft, RefusedOnce
<1> QED BY <1>1, <1>2, <1>3

LEMMA TokenKeys ==
  ASSUME KeysInv, FetchBegins \/ TokenLapses \/ Token
  PROVE  KeysInv'
<1>1. CASE FetchBegins
  <2>1. /\ fetch' = [NoFetch EXCEPT !.at = "token"]
        /\ during' = [since |-> Pairs(imds.served), through |-> Pairs(imds.served), disturbed |-> ~imds.up,
                      refused |-> {}]
        /\ UNCHANGED <<imds, token, key_store, told>>
    BY <1>1 DEF FetchBegins
  <2>2. /\ fetch'.at = "token" /\ fetch'.for = "index" /\ fetch'.got = {} /\ fetch'.attempt = 0
        /\ fetch'.using = 0 /\ fetch'.left = {}
    BY <2>1 DEF NoFetch
  <2>3. KeysTyped'
    BY <2>1, PairsTyped DEF KeysInv, KeysTyped, NoFetch
  <2>4. StoreTold' /\ ServedDuring'
    BY <2>1 DEF KeysInv, StoreTold, ServedDuring
  <2>5. GotOrLeft'
    BY <2>2 DEF GotOrLeft
  <2>6. RefusedOnce'
    <3>1. ~during'.disturbed => imds'.up
      BY <2>1
    <3> QED BY <3>1, <2>2 DEF RefusedOnce
  <2> QED BY <2>3, <2>4, <2>5, <2>6 DEF KeysInv
<1>2. CASE TokenLapses
  BY <1>2 DEF TokenLapses, KeysInv, KeysTyped, StoreTold, ServedDuring, GotOrLeft, RefusedOnce
<1>3. CASE Token
  <2>1. /\ fetch.at = "token" /\ token' = IF token # 0 THEN token ELSE IF imds.up /\ imds.tokens THEN imds.epoch ELSE 0
        /\ fetch' = [fetch EXCEPT !.at = "get", !.using = token']
        /\ UNCHANGED <<imds, key_store, during, told>>
    BY <1>3 DEF Token
  <2>2. token' \in Nat
    BY <2>1 DEF KeysInv, KeysTyped
  <2>3. KeysTyped'
    BY <2>1, <2>2 DEF KeysInv, KeysTyped
  <2>4. /\ fetch'.at = "get" /\ fetch'.using = token' /\ fetch'.for = fetch.for
        /\ fetch'.left = fetch.left /\ fetch'.got = fetch.got /\ fetch'.attempt = fetch.attempt
    BY <2>1 DEF KeysInv, KeysTyped
  <2>5. RefusedOnce'
    BY <2>1, <2>4 DEF KeysInv, KeysTyped, RefusedOnce
  <2> QED BY <2>1, <2>3, <2>4, <2>5 DEF KeysInv, StoreTold, ServedDuring, GotOrLeft
<1> QED BY <1>1, <1>2, <1>3

\* The next entry is asked for, or the fetch is over.
LEMMA ContinuesKeys ==
  ASSUME KeysInv, fetch.at = "get", NEW left \in SUBSET Indices, NEW taken \in SUBSET KeyPairs,
         NEW refused \in SUBSET Indices,
         Continues(left, taken, refused), UNCHANGED <<imds, listed, token>>,
         taken \subseteq during.since,
         \A p \in during.through :
           p \in taken \/ p[2] \in left \/ (during.disturbed /\ p[2] \in refused)
  PROVE  KeysInv'
<1>0. /\ during' \in [since : SUBSET KeyPairs, through : SUBSET KeyPairs, disturbed : BOOLEAN,
                     refused : SUBSET Indices]
      /\ during'.since = during.since /\ during'.through = during.through
      /\ during'.disturbed = during.disturbed /\ during'.refused = refused
  BY DEF Continues, KeysInv, KeysTyped
<1>1. ASSUME NEW i \in left,
             fetch' = [NoFetch EXCEPT !.at = "token", !.for = i, !.left = left \ {i}, !.got = taken],
             UNCHANGED <<key_store, told>>
      PROVE  KeysInv'
  <2>1. /\ fetch'.at = "token" /\ fetch'.for = i /\ fetch'.left = left \ {i} /\ fetch'.got = taken
        /\ fetch'.attempt = 0 /\ fetch'.using = 0
    BY <1>1 DEF NoFetch
  <2>2. KeysTyped'
    BY <1>0, <1>1 DEF KeysInv, KeysTyped, NoFetch
  <2>3. GotOrLeft'
    BY <1>0, <2>1 DEF GotOrLeft
  <2> QED BY <1>0, <1>1, <2>1, <2>2, <2>3 DEF KeysInv, StoreTold, ServedDuring, RefusedOnce
<1>2. CASE /\ left = {} /\ fetch' = NoFetch /\ key_store' = taken
           /\ told' = [since |-> during.since, through |-> Owed(refused)]
  <2>1. Owed(refused) \subseteq taken /\ Owed(refused) \in SUBSET KeyPairs
    BY <1>2 DEF Owed, KeysInv, KeysTyped
  <2>2. KeysTyped'
    BY <1>0, <1>2, <2>1 DEF KeysInv, KeysTyped, NoFetch
  <2>3. StoreTold'
    BY <1>2, <2>1 DEF StoreTold
  <2> QED BY <1>2, <2>2, <2>3 DEF KeysInv, ServedDuring, GotOrLeft, RefusedOnce, NoFetch
<1> QED BY <1>1, <1>2 DEF Continues

\* What a fetch that nothing disturbed is told, once a stale token has been renewed.
LEMMA AnsweredWell ==
  ASSUME KeysInv, fetch.at = "get", ~TokenStale, ~during.disturbed
  PROVE  Status = "ok"
<1>1. imds.up /\ (imds.tokens => fetch.using # 0 /\ (fetch.attempt = 1 => fetch.using = imds.epoch))
  BY DEF KeysInv, RefusedOnce
<1>2. fetch.attempt \in {0, 1}
  BY DEF KeysInv, KeysTyped
<1> QED BY <1>1, <1>2 DEF Status, TokenStale

LEMMA GetKeys == ASSUME KeysInv, Get PROVE KeysInv'
<1>1. fetch.at = "get"
  BY DEF Get
<1>2. CASE Renewed
  <2>1. token' = 0 /\ fetch' = [fetch EXCEPT !.at = "token", !.attempt = 1] /\ UNCHANGED <<imds, key_store, during, told>>
    BY <1>2 DEF Renewed
  <2>2. KeysTyped'
    BY <2>1 DEF KeysInv, KeysTyped
  <2>3. /\ fetch'.at = "token" /\ fetch'.for = fetch.for
        /\ fetch'.left = fetch.left /\ fetch'.got = fetch.got /\ fetch'.attempt = 1
    BY <2>1 DEF KeysInv, KeysTyped
  <2> QED BY <1>1, <2>1, <2>2, <2>3 DEF KeysInv, StoreTold, ServedDuring, GotOrLeft, RefusedOnce
<1>3. CASE IndexAnswered
  <2>1. CASE Status = "ok"
    <3> DEFINE there == {i \in Indices : imds.served[i] # {}}
    <3>1. Continues(there, {}, {}) /\ UNCHANGED <<imds, listed, token>>
      BY <1>3, <2>1 DEF IndexAnswered
    <3>2. \A p \in during.through : p[2] \in there
      BY <1>1 DEF KeysInv, KeysTyped, KeyPairs, ServedDuring, Pairs
    <3> HIDE DEF there
    <3>3. there \in SUBSET Indices
      BY DEF there
    <3> QED BY <1>1, <3>1, <3>2, <3>3, ContinuesKeys
  <2>2. CASE Status # "ok"
    <3>1. IndexRefused /\ UNCHANGED <<imds, listed, token, key_store>> /\ ~TokenStale
      BY <1>3, <2>2 DEF IndexAnswered
    <3>2. during.disturbed
      BY <1>1, <2>2, <3>1, AnsweredWell
    <3>3. fetch' = NoFetch /\ UNCHANGED <<imds, listed, token, key_store, during, told>>
      BY <3>1, <3>2 DEF IndexRefused
    <3>4. KeysTyped'
      BY <3>3 DEF KeysInv, KeysTyped, NoFetch
    <3> QED BY <3>3, <3>4 DEF KeysInv, StoreTold, ServedDuring, GotOrLeft, RefusedOnce, NoFetch
  <2> QED BY <2>1, <2>2
<1>4. CASE EntryAnswered
  <2> DEFINE keys == IF Status = "ok" THEN imds.served[fetch.for] \ Unparsable ELSE {}
             more == {<<k, fetch.for>> : k \in keys}
             refused == during.refused \cup (IF Status = "ok" THEN {} ELSE {fetch.for})
  <2>1. /\ Continues(fetch.left, fetch.got \cup more, refused)
        /\ UNCHANGED <<imds, listed, token>> /\ ~TokenStale /\ fetch.for # "index"
    BY <1>4 DEF EntryAnswered
  <2>2. fetch.for \in Indices /\ fetch.left \in SUBSET Indices /\ fetch.got \in SUBSET KeyPairs
    BY <2>1 DEF KeysInv, KeysTyped
  <2>3. imds.served[fetch.for] \subseteq PubKeys
    BY <2>2, KeysAssumption DEF KeysInv, KeysTyped
  <2>4. more \subseteq Pairs(imds.served) /\ more \in SUBSET KeyPairs
    BY <2>2, <2>3 DEF Pairs, KeyPairs
  <2>5. ASSUME NEW p \in during.through, p[2] = fetch.for
        PROVE  p \in more \/ (during.disturbed /\ p[2] \in refused)
    <3>1. CASE Status = "ok"
      <4>1. p \in KeyPairs /\ p[1] \in imds.served[p[2]]
        BY <1>1 DEF KeysInv, ServedDuring, Pairs, KeysTyped
      <4>2. p = <<p[1], p[2]>> /\ p[1] \notin Unparsable
        BY <4>1 DEF KeyPairs
      <4> QED BY <2>5, <3>1, <4>1, <4>2
    <3>2. CASE Status # "ok"
      BY <1>1, <2>1, <2>5, <3>2, AnsweredWell
    <3> QED BY <3>1, <3>2
  <2>6. \A p \in during.through :
          p \in fetch.got \cup more \/ p[2] \in fetch.left \/ (during.disturbed /\ p[2] \in refused)
    BY <1>1, <2>1, <2>5 DEF KeysInv, GotOrLeft
  <2>7. fetch.got \cup more \subseteq during.since
    BY <1>1, <2>4 DEF KeysInv, GotOrLeft, ServedDuring
  <2>8. refused \in SUBSET Indices
    BY <2>2 DEF KeysInv, KeysTyped
  <2> HIDE DEF more, refused
  <2> QED BY <1>1, <2>1, <2>2, <2>4, <2>6, <2>7, <2>8, ContinuesKeys
<1> QED BY <1>2, <1>3, <1>4 DEF Get

\* The keys that fetch_keys has got, those it has still to get, the token it uses
\* and what the service served meanwhile agree at every step of a fetch and of
\* the service: the inductive invariant.
THEOREM KeysInvCorrect == KeysSpec => []KeysInv
<1>1. KeysInv /\ [KeysNext]_keysVars => KeysInv'
  BY ServiceKeys, TokenKeys, GetKeys DEF KeysNext
<1> QED BY <1>1, InitKeys, PTL DEF KeysSpec

\* cloudid.rs: after each fetch that ends, who has had a key in the metadata service all
\* the while gets in, however often the token went stale; if the service failed or
\* restarted twice under one request, so does everybody but for the entries it refused,
\* and a fetch whose index it refused keeps who got in before.  Nobody gets in by a key
\* that was in no answer of the last good fetch.
THEOREM KeysCurrentCorrect == KeysSpec => []KeysCurrent
<1>1. KeysInv => KeysCurrent
  <2> SUFFICES ASSUME KeysInv, NEW k \in PubKeys
               PROVE  /\ (\E i \in Indices : <<k, i>> \in told.through) => AuthPublickey(k)
                      /\ AuthPublickey(k) => k \in listed \/ \E i \in Indices : <<k, i>> \in told.since
    BY DEF KeysCurrent
  <2> QED BY DEF KeysInv, StoreTold, AuthPublickey, InAuthorizedKeys, Lookup
<1> QED BY <1>1, KeysInvCorrect, PTL

-----------------------------------------------------------------------------
(* NodeVars: one text, filled in wherever it stands.                       *)

Pieces == STRING \cup {"ip", "n1"}
Texts == Seq(Pieces)

\* No name of the node is left in it.
Clean(s) == \A i \in 1..(Len(s) - 2) : ~(s[i] = OPEN /\ s[i + 1] \in NAMES /\ s[i + 2] = CLOSE)

NumbersBelow == {ss \in Nat \X Nat : ss[1] < ss[2]}

LEMMA LeastNumber ==
  ASSUME NEW T, T \subseteq Nat, T # {}
  PROVE  \E n \in T : \A m \in T : n <= m
<1>1. IsWellFoundedOn(NumbersBelow, Nat)
  BY NatLessThanWellFounded DEF OpToRel, NumbersBelow
<1>2. PICK n \in T : \A m \in T : <<m, n>> \notin NumbersBelow
  BY <1>1, WFMin
<1>3. ASSUME NEW m \in T
      PROVE  n <= m
  <2>1. m \in Nat /\ n \in Nat
    OBVIOUS
  <2>2. ~(m < n)
    BY <1>2, <2>1 DEF NumbersBelow
  <2>. QED
    BY <2>1, <2>2
<1>. QED
  BY <1>3

\* The last place of a text at which something is wrong.
LEMMA LastPlace ==
  ASSUME NEW N \in Nat, NEW T, T \subseteq 1..N, T # {}
  PROVE  \E i \in T : \A j \in T : j <= i
<1> DEFINE U == {N - i : i \in T}
<1>1. U \subseteq Nat /\ U # {}
  OBVIOUS
<1>2. PICK n \in U : \A m \in U : n <= m
  BY <1>1, LeastNumber
<1>3. PICK i \in T : n = N - i
  BY <1>2
<1>4. ASSUME NEW j \in T
      PROVE  j <= i
  <2>1. n <= N - j
    BY <1>2
  <2>. QED
    BY <1>3, <2>1
<1>. QED
  BY <1>4

LEMMA ClosingIs ==
  ASSUME NEW s \in Texts, NEW i \in 1..Len(s), ~Unclosed(s, i)
  PROVE  /\ Closing(s, i) \in (i + 1)..Len(s) /\ s[Closing(s, i)] = CLOSE
         /\ \A k \in (i + 1)..(Closing(s, i) - 1) : s[k] # CLOSE
<1> DEFINE T == {j \in (i + 1)..Len(s) : s[j] = CLOSE}
<1>0. Len(s) \in Nat /\ i \in Nat
  BY DEF Texts
<1>1. PICK q \in (i + 1)..Len(s) : s[q] = CLOSE
  BY DEF Unclosed
<1>2. T \subseteq Nat /\ q \in T
  BY <1>0, <1>1
<1>3. PICK j \in T : \A k \in T : j <= k
  BY <1>2, LeastNumber
<1>4. ASSUME NEW k \in (i + 1)..(j - 1)
      PROVE  s[k] # CLOSE
  <2>1. j \in Nat /\ j <= Len(s) /\ k \in Nat
    BY <1>0, <1>3
  <2>2. k \in (i + 1)..Len(s) /\ ~(j <= k)
    BY <1>0, <2>1
  <2>. QED
    BY <1>3, <2>2
<1>5. j \in (i + 1)..Len(s) /\ s[j] = CLOSE
  OBVIOUS
<1>. QED
  BY <1>4, <1>5 DEF Closing

-----------------------------------------------------------------------------
Named(s, vars, i) == Closing(s, i) = i + 2 /\ s[i + 1] \in DOMAIN vars
Piece(s, vars, i) == IF Named(s, vars, i) THEN vars[s[i + 1]] ELSE SubSeq(s, i, Closing(s, i))
ExpandAt(s, vars, g, i) ==
  IF i > Len(s) THEN <<>>
  ELSE IF s[i] # OPEN THEN <<s[i]>> \o g[i + 1]
  ELSE IF Unclosed(s, i) THEN SubSeq(s, i, Len(s))
  ELSE Piece(s, vars, i) \o g[Closing(s, i) + 1]
Expansion(s, vars) == CHOOSE g : g = [i \in 1..(Len(s) + 1) |-> ExpandAt(s, vars, g, i)]

LEMMA ExpansionExists ==
  ASSUME NEW s \in Texts, NEW vars
  PROVE  \E g : g = [i \in 1..(Len(s) + 1) |-> ExpandAt(s, vars, g, i)]
<1> DEFINE N == Len(s) + 1
           Solves(g, n) == g = [i \in n..N |-> ExpandAt(s, vars, g, i)]
           bad == {n \in 1..N : ~\E g : Solves(g, n)}
<1>0. Len(s) \in Nat /\ N \in Nat
  BY DEF Texts
<1>1. bad = {}
  <2> SUFFICES ASSUME bad # {}
               PROVE  FALSE
    OBVIOUS
  <2>1. PICK n \in bad : \A m \in bad : m <= n
    BY <1>0, LastPlace
  <2>2. n # N
    <3> DEFINE last == [i \in N..N |-> <<>>]
    <3>1. \A i \in N..N : ExpandAt(s, vars, last, i) = <<>>
      <4>1. \A i \in N..N : i > Len(s)
        BY <1>0
      <4>. QED
        BY <4>1 DEF ExpandAt
    <3>2. Solves(last, N)
      BY <3>1
    <3>. QED
      BY <2>1, <3>2
  <2>3. n \in 1..N /\ n + 1 \in 1..N /\ n + 1 \notin bad
    <3>1. n \in 1..N /\ n + 1 \in 1..N
      BY <1>0, <2>2
    <3> HIDE DEF bad
    <3>2. n + 1 \in bad => n + 1 <= n
      BY <2>1
    <3>. QED
      BY <1>0, <3>1, <3>2
  <2>4. PICK g : Solves(g, n + 1)
    BY <2>3
  <2> DEFINE h == [i \in n..N |-> IF i = n THEN ExpandAt(s, vars, g, n) ELSE g[i]]
  <2>5. ASSUME NEW i \in n..N
        PROVE  h[i] = ExpandAt(s, vars, h, i)
    <3>1. h[i] = ExpandAt(s, vars, g, i)
      <4>1. CASE i = n
        BY <4>1
      <4>2. CASE i # n
        <5>1. i \in (n + 1)..N
          BY <1>0, <2>3, <4>2
        <5>. QED
          BY <2>4, <4>2, <5>1
      <4>. QED
        BY <4>1, <4>2
    <3>2. \A j \in (n + 1)..N : h[j] = g[j]
      BY <1>0, <2>3
    <3>3. CASE i > Len(s)
      BY <3>1, <3>3 DEF ExpandAt
    <3>4. CASE ~(i > Len(s))
      <4>1. i \in 1..Len(s) /\ i + 1 \in (n + 1)..N
        BY <1>0, <2>3, <3>4
      <4>2. h[i + 1] = g[i + 1]
        BY <3>2, <4>1
      <4>3. CASE s[i] # OPEN \/ Unclosed(s, i)
        BY <3>1, <3>4, <4>2, <4>3 DEF ExpandAt
      <4>4. CASE s[i] = OPEN /\ ~Unclosed(s, i)
        <5>1. Closing(s, i) \in (i + 1)..Len(s)
          BY <4>1, <4>4, ClosingIs
        <5>2. Closing(s, i) + 1 \in (n + 1)..N
          BY <1>0, <2>3, <4>1, <5>1
        <5>3. h[Closing(s, i) + 1] = g[Closing(s, i) + 1]
          BY <3>2, <5>2
        <5>. QED
          BY <3>1, <3>4, <4>4, <5>3 DEF ExpandAt
      <4>. QED
        BY <4>3, <4>4
    <3>. QED
      BY <3>3, <3>4
  <2>6. h = [i \in n..N |-> h[i]]
    OBVIOUS
  <2> HIDE DEF h
  <2>7. Solves(h, n)
    BY <2>5, <2>6
  <2>. QED
    BY <2>1, <2>7
<1>2. 1 \in 1..N
  BY <1>0
<1>3. PICK g : Solves(g, 1)
  BY <1>1, <1>2
<1>. QED
  BY <1>3

LEMMA ExpandIs ==
  ASSUME NEW s \in Texts, NEW vars
  PROVE  /\ Expand(s, vars) = Expansion(s, vars)[1]
         /\ \A i \in 1..(Len(s) + 1) : Expansion(s, vars)[i] = ExpandAt(s, vars, Expansion(s, vars), i)
<1>1. Expand(s, vars) = Expansion(s, vars)[1]
  BY DEF Expand, Expansion, ExpandAt, Piece, Named
<1>2. Expansion(s, vars) = [i \in 1..(Len(s) + 1) |-> ExpandAt(s, vars, Expansion(s, vars), i)]
  BY ExpansionExists DEF Expansion
<1>. QED
  BY <1>1, <1>2

-----------------------------------------------------------------------------
LEMMA Marks == OPEN # CLOSE /\ OPEN \notin NAMES /\ CLOSE \notin NAMES
  BY Zenon DEF OPEN, CLOSE, NAMES

LEMMA CleanIs ==
  ASSUME NEW s \in Texts
  PROVE  Unexpanded(s) = {} <=> Clean(s)
<1>0. Len(s) \in Nat
  BY DEF Texts
<1>1. ASSUME NEW i \in 1..(Len(s) - 2), NEW n
      PROVE  SubSeq(s, i, i + 2) = <<OPEN, n, CLOSE>> <=> s[i] = OPEN /\ s[i + 1] = n /\ s[i + 2] = CLOSE
  <2> DEFINE t == SubSeq(s, i, i + 2)
  <2>1. /\ t \in Texts /\ Len(t) = 3
        /\ t[1] = s[i] /\ t[2] = s[i + 1] /\ t[3] = s[i + 2]
    BY <1>0 DEF Texts
  <2>2. t = <<t[1], t[2], t[3]>>
    <3> HIDE DEF t
    <3>. QED
      BY <2>1 DEF Texts
  <2> HIDE DEF t
  <2>3. t = <<OPEN, n, CLOSE>> <=> t[1] = OPEN /\ t[2] = n /\ t[3] = CLOSE
    BY <2>2
  <2>. QED
    BY <2>1, <2>3 DEF t
<1>2. \A n : n \in Unexpanded(s) <=> n \in NAMES /\ \E i \in 1..(Len(s) - 2) : SubSeq(s, i, i + 2) = <<OPEN, n, CLOSE>>
  BY DEF Unexpanded
<1>3. \A n : n \in Unexpanded(s) <=>
              n \in NAMES /\ \E i \in 1..(Len(s) - 2) : s[i] = OPEN /\ s[i + 1] = n /\ s[i + 2] = CLOSE
  <2> SUFFICES ASSUME NEW n
               PROVE  n \in Unexpanded(s) <=>
                        n \in NAMES /\ \E i \in 1..(Len(s) - 2) : s[i] = OPEN /\ s[i + 1] = n /\ s[i + 2] = CLOSE
    OBVIOUS
  <2>1. \A i \in 1..(Len(s) - 2) :
          SubSeq(s, i, i + 2) = <<OPEN, n, CLOSE>> <=> s[i] = OPEN /\ s[i + 1] = n /\ s[i + 2] = CLOSE
    BY <1>1
  <2>. QED
    BY <1>2, <2>1, Zenon
<1>4. Unexpanded(s) = {} <=> \A n : n \notin Unexpanded(s)
  OBVIOUS
<1>5. Unexpanded(s) = {} <=>
        \A n \in NAMES : \A i \in 1..(Len(s) - 2) : ~(s[i] = OPEN /\ s[i + 1] = n /\ s[i + 2] = CLOSE)
  <2>1. (\A n : n \notin Unexpanded(s)) <=>
        \A n \in NAMES : \A i \in 1..(Len(s) - 2) : ~(s[i] = OPEN /\ s[i + 1] = n /\ s[i + 2] = CLOSE)
    BY ONLY <1>3, Zenon
  <2>. QED
    BY ONLY <1>4, <2>1
<1>. QED
  BY <1>5 DEF Clean

LEMMA Joined ==
  ASSUME NEW a \in Texts, NEW b \in Texts
  PROVE  /\ a \o b \in Texts /\ Len(a \o b) = Len(a) + Len(b) /\ Len(a) \in Nat /\ Len(b) \in Nat
         /\ \A i \in 1..Len(a) : (a \o b)[i] = a[i]
         /\ \A i \in 1..Len(b) : (a \o b)[Len(a) + i] = b[i]
  BY DEF Texts

LEMMA CleanJoin ==
  ASSUME NEW a \in Texts, NEW b \in Texts, Clean(a), Clean(b), ClosedText(a)
  PROVE  Clean(a \o b)
<1> DEFINE c == a \o b
<1>0. /\ c \in Texts /\ Len(c) = Len(a) + Len(b) /\ Len(a) \in Nat /\ Len(b) \in Nat
      /\ \A i \in 1..Len(a) : c[i] = a[i]
      /\ \A i \in 1..Len(b) : c[Len(a) + i] = b[i]
  BY Joined
<1> HIDE DEF c
<1> SUFFICES ASSUME NEW i \in 1..(Len(c) - 2), c[i] = OPEN, c[i + 1] \in NAMES, c[i + 2] = CLOSE
             PROVE  FALSE
  BY DEF Clean, c
<1>1. CASE i + 2 <= Len(a)
  <2>1. i \in 1..(Len(a) - 2) /\ i \in 1..Len(a) /\ i + 1 \in 1..Len(a) /\ i + 2 \in 1..Len(a)
    BY <1>0, <1>1
  <2>2. a[i] = OPEN /\ a[i + 1] \in NAMES /\ a[i + 2] = CLOSE
    BY <1>0, <2>1
  <2>. QED
    BY <2>1, <2>2 DEF Clean
<1>2. CASE i > Len(a)
  <2> DEFINE k == i - Len(a)
  <2>1. k \in 1..(Len(b) - 2) /\ k \in 1..Len(b) /\ k + 1 \in 1..Len(b) /\ k + 2 \in 1..Len(b)
        /\ i = Len(a) + k /\ i + 1 = Len(a) + (k + 1) /\ i + 2 = Len(a) + (k + 2)
    BY <1>0, <1>2
  <2> HIDE DEF k
  <2>2. b[k] = OPEN /\ b[k + 1] \in NAMES /\ b[k + 2] = CLOSE
    BY <1>0, <2>1
  <2>. QED
    BY <2>1, <2>2 DEF Clean
<1>3. CASE i <= Len(a) /\ Len(a) < i + 2
  <2>1. i \in 1..Len(a) /\ a[i] = OPEN
    BY <1>0, <1>3
  <2>2. PICK j \in (i + 1)..Len(a) : a[j] = CLOSE
    BY <2>1 DEF ClosedText, Unclosed
  <2>3. j = i + 1 /\ j \in 1..Len(a)
    BY <1>0, <1>3, <2>1
  <2>4. c[i + 1] = CLOSE
    BY <1>0, <2>2, <2>3
  <2>. QED
    BY <2>4, Marks
<1>. QED
  BY <1>0, <1>1, <1>2, <1>3

LEMMA CleanParts ==
  ASSUME NEW a \in Texts, NEW b \in Texts, Clean(a \o b)
  PROVE  Clean(a) /\ Clean(b)
<1> DEFINE c == a \o b
<1>0. /\ c \in Texts /\ Len(c) = Len(a) + Len(b) /\ Len(a) \in Nat /\ Len(b) \in Nat
      /\ \A i \in 1..Len(a) : c[i] = a[i]
      /\ \A i \in 1..Len(b) : c[Len(a) + i] = b[i]
  BY Joined
<1>1. \A i \in 1..(Len(c) - 2) : ~(c[i] = OPEN /\ c[i + 1] \in NAMES /\ c[i + 2] = CLOSE)
  BY DEF Clean
<1> HIDE DEF c
<1>2. ASSUME NEW i \in 1..(Len(a) - 2)
      PROVE  ~(a[i] = OPEN /\ a[i + 1] \in NAMES /\ a[i + 2] = CLOSE)
  <2>1. i \in 1..(Len(c) - 2) /\ i \in 1..Len(a) /\ i + 1 \in 1..Len(a) /\ i + 2 \in 1..Len(a)
    BY <1>0
  <2>. QED
    BY <1>0, <1>1, <2>1
<1>3. ASSUME NEW i \in 1..(Len(b) - 2)
      PROVE  ~(b[i] = OPEN /\ b[i + 1] \in NAMES /\ b[i + 2] = CLOSE)
  <2> DEFINE k == Len(a) + i
  <2>1. k \in 1..(Len(c) - 2) /\ i \in 1..Len(b) /\ i + 1 \in 1..Len(b) /\ i + 2 \in 1..Len(b)
        /\ k + 1 = Len(a) + (i + 1) /\ k + 2 = Len(a) + (i + 2)
    BY <1>0
  <2>2. c[k] = b[i] /\ c[k + 1] = b[i + 1] /\ c[k + 2] = b[i + 2]
    BY <1>0, <2>1
  <2> HIDE DEF k
  <2>. QED
    BY <1>1, <2>1, <2>2
<1>. QED
  BY <1>2, <1>3 DEF Clean

LEMMA ClosedJoin ==
  ASSUME NEW a \in Texts, NEW b \in Texts, ClosedText(a), ClosedText(b)
  PROVE  ClosedText(a \o b)
<1> DEFINE c == a \o b
<1>0. /\ c \in Texts /\ Len(c) = Len(a) + Len(b) /\ Len(a) \in Nat /\ Len(b) \in Nat
      /\ \A i \in 1..Len(a) : c[i] = a[i]
      /\ \A i \in 1..Len(b) : c[Len(a) + i] = b[i]
  BY Joined
<1> HIDE DEF c
<1> SUFFICES ASSUME NEW i \in 1..Len(c), c[i] = OPEN
             PROVE  \E j \in (i + 1)..Len(c) : c[j] = CLOSE
  BY DEF ClosedText, Unclosed, c
<1>1. CASE i <= Len(a)
  <2>1. i \in 1..Len(a) /\ a[i] = OPEN
    BY <1>0, <1>1
  <2>2. PICK j \in (i + 1)..Len(a) : a[j] = CLOSE
    BY <2>1 DEF ClosedText, Unclosed
  <2>3. j \in 1..Len(a) /\ j \in (i + 1)..Len(c)
    BY <1>0, <2>1
  <2>. QED
    BY <1>0, <2>2, <2>3
<1>2. CASE i > Len(a)
  <2> DEFINE k == i - Len(a)
  <2>1. k \in 1..Len(b) /\ i = Len(a) + k
    BY <1>0, <1>2
  <2> HIDE DEF k
  <2>2. b[k] = OPEN
    BY <1>0, <2>1
  <2>3. PICK j \in (k + 1)..Len(b) : b[j] = CLOSE
    BY <2>1, <2>2 DEF ClosedText, Unclosed
  <2>4. j \in 1..Len(b) /\ Len(a) + j \in (i + 1)..Len(c)
    BY <1>0, <2>1
  <2>. QED
    BY <1>0, <2>3, <2>4
<1>. QED
  BY <1>0, <1>1, <1>2

\* What the expansion is put together from.
LEMMA Single ==
  ASSUME NEW s \in Texts, NEW i \in 1..Len(s), s[i] # OPEN
  PROVE  <<s[i]>> \in Texts /\ ClosedText(<<s[i]>>) /\ Clean(<<s[i]>>)
<1> DEFINE t == <<s[i]>>
<1>1. t \in Texts /\ Len(t) = 1 /\ t[1] # OPEN
  BY DEF Texts
<1> HIDE DEF t
<1>2. ClosedText(t) /\ Clean(t)
  BY <1>1 DEF ClosedText, Clean
<1>. QED
  BY <1>1, <1>2 DEF t

LEMMA Segment ==
  ASSUME NEW s \in Texts, NEW i \in 1..Len(s), s[i] = OPEN, ~Unclosed(s, i)
  PROVE  /\ SubSeq(s, i, Closing(s, i)) \in Texts /\ ClosedText(SubSeq(s, i, Closing(s, i)))
         /\ Closing(s, i) + 1 \in (i + 1)..(Len(s) + 1)
<1> DEFINE c == Closing(s, i)
           t == SubSeq(s, i, c)
<1>0. Len(s) \in Nat /\ i \in Nat
  BY DEF Texts
<1>1. c \in (i + 1)..Len(s) /\ s[c] = CLOSE
  BY ClosingIs
<1> HIDE DEF c
<1>2. t \in Texts /\ Len(t) = c - i + 1 /\ \A k \in 1..(c - i + 1) : t[k] = s[i + k - 1]
  BY <1>0, <1>1 DEF Texts
<1> HIDE DEF t
<1>3. ClosedText(t)
  <2> SUFFICES ASSUME NEW k \in 1..Len(t), t[k] = OPEN
               PROVE  \E j \in (k + 1)..Len(t) : t[j] = CLOSE
    BY DEF ClosedText, Unclosed
  <2>1. t[Len(t)] = CLOSE
    BY <1>0, <1>1, <1>2
  <2>2. k # Len(t)
    BY <2>1, Marks
  <2>3. Len(t) \in (k + 1)..Len(t)
    BY <1>0, <1>1, <1>2, <2>2
  <2>. QED
    BY <2>1, <2>3
<1>. QED
  BY <1>0, <1>1, <1>2, <1>3 DEF c, t

\* What is open to the end is the end.
LEMMA Rest ==
  ASSUME NEW s \in Texts, NEW i \in 1..Len(s)
  PROVE  SubSeq(s, i, Len(s)) \in Texts
  BY DEF Texts

Good(w) == \A k \in DOMAIN w : w[k] \in Texts

\* A place that is wrong although none after it is, of those at which an expansion goes on.
LEMMA OnePiece ==
  ASSUME NEW s \in Texts, NEW w, Good(w), NEW i \in 1..(Len(s) + 1)
  PROVE  \/ i = Len(s) + 1 /\ Expansion(s, w)[i] = <<>>
         \/ /\ i \in 1..Len(s) /\ i + 1 \in (i + 1)..(Len(s) + 1) /\ s[i] # OPEN
            /\ Expansion(s, w)[i] = <<s[i]>> \o Expansion(s, w)[i + 1]
         \/ i \in 1..Len(s) /\ s[i] = OPEN /\ Unclosed(s, i) /\ Expansion(s, w)[i] = SubSeq(s, i, Len(s))
         \/ /\ i \in 1..Len(s) /\ s[i] = OPEN /\ ~Unclosed(s, i)
            /\ Closing(s, i) + 1 \in (i + 1)..(Len(s) + 1)
            /\ Piece(s, w, i) \in Texts
            /\ Expansion(s, w)[i] = Piece(s, w, i) \o Expansion(s, w)[Closing(s, i) + 1]
<1> DEFINE e == Expansion(s, w)
<1>0. Len(s) \in Nat
  BY DEF Texts
<1>1. e[i] = ExpandAt(s, w, e, i)
  BY ExpandIs
<1> HIDE DEF e
<1>2. CASE i > Len(s)
  BY <1>0, <1>1, <1>2 DEF ExpandAt, e
<1>3. CASE i <= Len(s)
  <2>1. i \in 1..Len(s) /\ i + 1 \in (i + 1)..(Len(s) + 1) /\ ~(i > Len(s))
    BY <1>0, <1>3
  <2>2. CASE s[i] # OPEN \/ Unclosed(s, i)
    BY <1>1, <2>1, <2>2 DEF ExpandAt, e
  <2>3. CASE s[i] = OPEN /\ ~Unclosed(s, i)
    <3>1. SubSeq(s, i, Closing(s, i)) \in Texts /\ Closing(s, i) + 1 \in (i + 1)..(Len(s) + 1)
      BY <2>1, <2>3, Segment
    <3>2. Piece(s, w, i) \in Texts
      BY <3>1 DEF Piece, Named, Good
    <3>. QED
      BY <1>1, <2>1, <2>3, <3>1, <3>2 DEF ExpandAt, e
  <2>. QED
    BY <2>2, <2>3
<1>. QED
  BY <1>0, <1>2, <1>3

LEMMA ExpandText ==
  ASSUME NEW s \in Texts, NEW w, Good(w)
  PROVE  \A i \in 1..(Len(s) + 1) : Expansion(s, w)[i] \in Texts
<1> DEFINE N == Len(s) + 1
           e == Expansion(s, w)
           bad == {i \in 1..N : e[i] \notin Texts}
<1> SUFFICES ASSUME bad # {}
             PROVE  FALSE
  OBVIOUS
<1>0. N \in Nat /\ N = Len(s) + 1 /\ Len(s) \in Nat
  BY DEF Texts
<1>1. PICK i \in bad : \A j \in bad : j <= i
  BY <1>0, LastPlace
<1>2. i \in 1..N
  OBVIOUS
<1>3. \A j \in (i + 1)..N : e[j] \in Texts
  BY <1>0, <1>1, <1>2
<1>4. \A a, b \in Texts : a \o b \in Texts
  BY Joined
<1>5. <<>> \in Texts
  BY DEF Texts
<1> HIDE DEF N
<1>6. CASE i = N
  <2>1. i \notin 1..Len(s)
    BY <1>0, <1>6
  <2>2. e[i] = <<>>
    BY <1>0, <1>2, <2>1, OnePiece
  <2>. QED
    BY <1>2, <1>5, <2>2
<1>7. CASE i # N
  <2>1. i \in 1..Len(s)
    BY <1>0, <1>2, <1>7
  <2>2. CASE s[i] # OPEN
    <3>1. i + 1 \in (i + 1)..N /\ e[i] = <<s[i]>> \o e[i + 1]
      BY <1>0, <1>2, <1>7, <2>2, OnePiece
    <3>. QED
      BY <1>2, <1>3, <1>4, <2>1, <2>2, <3>1, Single
  <2>3. CASE s[i] = OPEN /\ Unclosed(s, i)
    <3>1. e[i] = SubSeq(s, i, Len(s))
      BY <1>0, <1>2, <1>7, <2>3, OnePiece
    <3>. QED
      BY <1>2, <2>1, <3>1, Rest
  <2>4. CASE s[i] = OPEN /\ ~Unclosed(s, i)
    <3>1. /\ Closing(s, i) + 1 \in (i + 1)..N
          /\ Piece(s, w, i) \in Texts /\ e[i] = Piece(s, w, i) \o e[Closing(s, i) + 1]
      BY <1>0, <1>2, <1>7, <2>4, OnePiece
    <3>. QED
      BY <1>2, <1>3, <1>4, <3>1
  <2>. QED
    BY <2>2, <2>3, <2>4
<1>. QED
  BY <1>6, <1>7

LEMMA ExpandCloses ==
  ASSUME NEW s \in Texts, NEW w, Good(w), ClosedText(s), \A k \in DOMAIN w : ClosedText(w[k])
  PROVE  \A i \in 1..(Len(s) + 1) : ClosedText(Expansion(s, w)[i])
<1> DEFINE N == Len(s) + 1
           e == Expansion(s, w)
           bad == {i \in 1..N : ~ClosedText(e[i])}
<1> SUFFICES ASSUME bad # {}
             PROVE  FALSE
  OBVIOUS
<1>0. N \in Nat /\ N = Len(s) + 1 /\ Len(s) \in Nat
  BY DEF Texts
<1>1. PICK i \in bad : \A j \in bad : j <= i
  BY <1>0, LastPlace
<1>2. i \in 1..N
  OBVIOUS
<1>3. \A j \in (i + 1)..N : ClosedText(e[j]) /\ e[j] \in Texts
  BY <1>0, <1>1, <1>2, ExpandText
<1>4. ClosedText(<<>>)
  BY DEF ClosedText
<1> HIDE DEF N
<1>5. \A j \in 1..Len(s) : s[j] = OPEN => ~Unclosed(s, j)
  BY DEF ClosedText
<1>6. CASE i = N
  <2>1. i \notin 1..Len(s)
    BY <1>0, <1>6
  <2>2. e[i] = <<>>
    BY <1>0, <1>2, <2>1, OnePiece
  <2>. QED
    BY <1>2, <1>4, <2>2
<1>7. CASE i # N /\ s[i] # OPEN
  <2>1. i \in 1..Len(s) /\ i + 1 \in (i + 1)..N /\ e[i] = <<s[i]>> \o e[i + 1]
    BY <1>0, <1>2, <1>7, OnePiece
  <2>. QED
    BY <1>3, <1>7, <2>1, Single, ClosedJoin
<1>8. CASE i # N /\ s[i] = OPEN
  <2>1. /\ i \in 1..Len(s) /\ ~Unclosed(s, i) /\ Closing(s, i) + 1 \in (i + 1)..N
        /\ Piece(s, w, i) \in Texts /\ e[i] = Piece(s, w, i) \o e[Closing(s, i) + 1]
    BY <1>0, <1>2, <1>5, <1>8, OnePiece
  <2>2. ClosedText(Piece(s, w, i))
    BY <1>8, <2>1, Segment DEF Piece, Named
  <2>. QED
    BY <1>3, <2>1, <2>2, ClosedJoin
<1>. QED
  BY <1>6, <1>7, <1>8

\* More names with values leave no more of the node's in a text, if each value is clean.
LEMMA MoreNames ==
  ASSUME NEW s \in Texts, NEW v, NEW w, Good(v), Good(w), DOMAIN v \subseteq DOMAIN w,
         \A k \in DOMAIN w : ClosedText(w[k]) /\ Clean(w[k])
  PROVE  \A i \in 1..(Len(s) + 1) : Clean(Expansion(s, v)[i]) => Clean(Expansion(s, w)[i])
<1> DEFINE N == Len(s) + 1
           d == Expansion(s, v)
           e == Expansion(s, w)
           bad == {i \in 1..N : Clean(d[i]) /\ ~Clean(e[i])}
<1> SUFFICES ASSUME bad # {}
             PROVE  FALSE
  OBVIOUS
<1>0. N \in Nat /\ N = Len(s) + 1 /\ Len(s) \in Nat
  BY DEF Texts
<1>1. PICK i \in bad : \A j \in bad : j <= i
  BY <1>0, LastPlace
<1>2. i \in 1..N /\ Clean(d[i]) /\ ~Clean(e[i])
  OBVIOUS
<1>3. \A j \in (i + 1)..N : (Clean(d[j]) => Clean(e[j])) /\ d[j] \in Texts /\ e[j] \in Texts
  BY <1>0, <1>1, <1>2, ExpandText
<1>4. Clean(<<>>)
  BY DEF Clean
<1> HIDE DEF N
<1>6. CASE i = N
  <2>1. i \notin 1..Len(s)
    BY <1>0, <1>6
  <2>2. e[i] = <<>>
    BY <1>0, <1>2, <2>1, OnePiece
  <2>. QED
    BY <1>2, <1>4, <2>2
<1>7. CASE i # N /\ s[i] # OPEN
  <2>1. /\ i \in 1..Len(s) /\ i + 1 \in (i + 1)..N
        /\ e[i] = <<s[i]>> \o e[i + 1] /\ d[i] = <<s[i]>> \o d[i + 1]
    BY <1>0, <1>2, <1>7, OnePiece
  <2>2. Clean(e[i + 1])
    BY <1>2, <1>3, <1>7, <2>1, Single, CleanParts
  <2>. QED
    BY <1>2, <1>3, <1>7, <2>1, <2>2, Single, CleanJoin
<1>8. CASE i # N /\ s[i] = OPEN /\ Unclosed(s, i)
  <2>1. e[i] = SubSeq(s, i, Len(s)) /\ d[i] = SubSeq(s, i, Len(s))
    BY <1>0, <1>2, <1>8, OnePiece
  <2>. QED
    BY <1>2, <2>1
<1>9. CASE i # N /\ s[i] = OPEN /\ ~Unclosed(s, i)
  <2> DEFINE c == Closing(s, i) + 1
  <2>1. /\ i \in 1..Len(s) /\ c \in (i + 1)..N
        /\ Piece(s, w, i) \in Texts /\ e[i] = Piece(s, w, i) \o e[c]
        /\ Piece(s, v, i) \in Texts /\ d[i] = Piece(s, v, i) \o d[c]
    BY <1>0, <1>2, <1>9, OnePiece
  <2> HIDE DEF c
  <2>2. Clean(d[c]) /\ Clean(Piece(s, v, i))
    BY <1>2, <1>3, <2>1, CleanParts
  <2>3. Clean(e[c])
    BY <1>3, <2>1, <2>2
  <2>4. ClosedText(Piece(s, w, i))
    BY <1>9, <2>1, Segment DEF Piece, Named
  <2>5. Clean(Piece(s, w, i))
    <3>1. CASE Named(s, w, i)
      BY <3>1 DEF Piece, Named
    <3>2. CASE ~Named(s, w, i)
      BY <2>2, <3>2 DEF Piece, Named
    <3>. QED
      BY <3>1, <3>2
  <2>. QED
    BY <1>2, <1>3, <2>1, <2>3, <2>4, <2>5, CleanJoin
<1>. QED
  BY <1>6, <1>7, <1>8, <1>9

-----------------------------------------------------------------------------
(* What the process has been started with.                                 *)

GivenBy(v) ==
  [args |-> Expand(config.args, ArgsVars(config, v)),
   env |-> Overlaid(inherited, ProcessEnv(config, v)), values |-> v]

NodeHas == {NodeValues(FALSE), NodeValues(TRUE)}

\* What the spawn has looked at is whole, as long as the node has not turned; what it
\* filled in is what the node had then.
NodeVarsInv ==
  /\ config.args \in Texts
  /\ Good(config.env) /\ Good(config.env_default) /\ Good(inherited)
  /\ node_values \in NodeHas
  /\ held_at = "checked" /\ unturned => NodeVarsMissing(config, node_values) = {}
  /\ held_at = "started" =>
       \E v \in NodeHas : given = GivenBy(v) /\ (unturned => NodeVarsMissing(config, v) = {})

LEMMA NodeTexts ==
  ASSUME NEW v \in NodeHas
  PROVE  /\ Good(v) /\ \A k \in DOMAIN v : ClosedText(v[k]) /\ Clean(v[k])
         /\ DOMAIN v \subseteq NAMES
<1>1. v = NodeValues(FALSE) \/ v = NodeValues(TRUE)
  BY DEF NodeHas
<1>2. \A k \in DOMAIN v : v[k] = <<"ip">> \/ v[k] = <<"n1">>
  BY <1>1 DEF NodeValues
<1>3. <<"ip">> \in Texts /\ <<"n1">> \in Texts
  <2>1. "ip" \in Pieces /\ "n1" \in Pieces
    BY DEF Pieces
  <2>2. \A x \in Pieces : <<x>> \in Texts
    BY DEF Texts
  <2>. QED
    BY <2>1, <2>2
<1>4. "ip" # OPEN /\ "n1" # OPEN
  BY Zenon DEF OPEN
<1>5. ClosedText(<<"ip">>) /\ ClosedText(<<"n1">>)
  BY <1>4 DEF ClosedText
<1>6. Clean(<<"ip">>) /\ Clean(<<"n1">>)
  BY DEF Clean
<1>7. DOMAIN v \subseteq NAMES
  BY <1>1 DEF NodeValues, NAMES
<1>. QED
  BY <1>2, <1>3, <1>5, <1>6, <1>7 DEF Good

LEMMA EnvIs ==
  ASSUME NodeVarsInv, NEW v \in NodeHas
  PROVE  /\ DOMAIN ProcessEnv(config, v) =
              (DOMAIN config.env_default \ DOMAIN inherited) \cup DOMAIN config.env
         /\ \A k \in DOMAIN ProcessEnv(config, v) : \E s \in Values \cap Texts : ProcessEnv(config, v)[k] = Expand(s, v)
<1> DEFINE defaults == Restricted(config.env_default, DOMAIN config.env_default \ DOMAIN inherited)
           set == Overlaid(defaults, config.env)
<1>1. DOMAIN defaults = DOMAIN config.env_default \ DOMAIN inherited
      /\ \A k \in DOMAIN defaults : defaults[k] = config.env_default[k]
  BY DEF Restricted
<1>2. DOMAIN set = DOMAIN defaults \cup DOMAIN config.env
      /\ \A k \in DOMAIN set : set[k] = IF k \in DOMAIN config.env THEN config.env[k] ELSE defaults[k]
  BY DEF Overlaid
<1>3. ProcessEnv(config, v) = [k \in DOMAIN set |-> Expand(set[k], v)]
  BY DEF ProcessEnv
<1>4. Good(config.env) /\ Good(config.env_default)
  BY DEF NodeVarsInv
<1>5. /\ \A k \in DOMAIN config.env : config.env[k] \in Values
      /\ \A k \in DOMAIN config.env_default : config.env_default[k] \in Values
  BY DEF Values
<1> HIDE DEF defaults, set
<1>6. \A k \in DOMAIN set : set[k] \in Values \cap Texts
  BY <1>1, <1>2, <1>4, <1>5 DEF Good
<1>. QED
  BY <1>1, <1>2, <1>3, <1>6

LEMMA InheritedIs ==
  ASSUME NodeVarsInv
  PROVE  \A k \in DOMAIN inherited : inherited[k] \in Values \cap Texts
  BY DEF NodeVarsInv, Values, Good

\* ${X} in an argument is what the process has for X.
LEMMA ArgsAsGiven ==
  ASSUME NodeVarsInv, NEW v \in NodeHas
  PROVE  ArgsVars(config, v) =
           Overlaid(Restricted(Overlaid(inherited, ProcessEnv(config, v)),
                               DOMAIN config.env \cup DOMAIN config.env_default), v)
<1> DEFINE e == ProcessEnv(config, v)
           own == Restricted(inherited, DOMAIN config.env_default \cap DOMAIN inherited)
           declared == DOMAIN config.env \cup DOMAIN config.env_default
           a == Overlaid(own, e)
           b == Restricted(Overlaid(inherited, e), declared)
<1>1. DOMAIN e = (DOMAIN config.env_default \ DOMAIN inherited) \cup DOMAIN config.env
  BY EnvIs
<1> HIDE DEF e
<1>2. DOMAIN a = declared
  BY <1>1 DEF Overlaid, Restricted
<1>3. \A k \in declared : a[k] = b[k]
  BY <1>1 DEF Overlaid, Restricted
<1>4. a = [k \in declared |-> a[k]] /\ b = [k \in declared |-> b[k]]
  BY <1>2 DEF Overlaid, Restricted
<1> HIDE DEF a, b
<1>5. a = b
  BY <1>3, <1>4
<1>. QED
  BY <1>5 DEF ArgsVars, a, b, e

LEMMA GivenIsAlike ==
  ASSUME NodeVarsInv
  PROVE  FilledAlike
<1> SUFFICES ASSUME held_at = "started"
             PROVE  FilledAlike
  BY DEF FilledAlike
<1>1. PICK v \in NodeHas : given = GivenBy(v) /\ (unturned => NodeVarsMissing(config, v) = {})
  BY DEF NodeVarsInv
<1> DEFINE e == ProcessEnv(config, v)
           w == ArgsVars(config, v)
           declared == DOMAIN config.env \cup DOMAIN config.env_default
<1>2. given.args = Expand(config.args, w) /\ given.env = Overlaid(inherited, e) /\ given.values = v
  BY <1>1 DEF GivenBy
<1>3. w = Overlaid(Restricted(given.env, declared), given.values)
  BY <1>2, ArgsAsGiven
<1>4. ASSUME unturned, \A x \in Values : ClosedText(x),
             \A k \in DOMAIN inherited : Unexpanded(inherited[k]) = {}
      PROVE  /\ Unexpanded(given.args) = {}
             /\ \A k \in DOMAIN given.env : Unexpanded(given.env[k]) = {}
  <2>0. Good(v) /\ \A k \in DOMAIN v : ClosedText(v[k]) /\ Clean(v[k])
    BY NodeTexts
  <2>1. /\ Unexpanded(Expand(config.args, v)) = {}
        /\ \A k \in DOMAIN e : Unexpanded(e[k]) = {}
    BY <1>1, <1>4 DEF NodeVarsMissing
  <2>2. \A s \in Values \cap Texts : Expand(s, v) \in Texts /\ ClosedText(Expand(s, v))
    <3> SUFFICES ASSUME NEW s \in Values \cap Texts
                 PROVE  Expand(s, v) \in Texts /\ ClosedText(Expand(s, v))
      OBVIOUS
    <3>1. 1 \in 1..(Len(s) + 1)
      BY DEF Texts
    <3>. QED
      BY <1>4, <2>0, <3>1, ExpandIs, ExpandText, ExpandCloses
  <2>3. \A k \in DOMAIN e : e[k] \in Texts /\ ClosedText(e[k]) /\ Clean(e[k])
    BY <2>1, <2>2, EnvIs, CleanIs
  <2>4. \A k \in DOMAIN inherited :
           inherited[k] \in Texts /\ ClosedText(inherited[k]) /\ Clean(inherited[k])
    BY <1>4, InheritedIs, CleanIs
  <2> HIDE DEF e
  <2>5. DOMAIN v \subseteq DOMAIN w
        /\ \A k \in DOMAIN w : w[k] \in Texts /\ ClosedText(w[k]) /\ Clean(w[k])
    BY <2>0, <2>3, <2>4 DEF ArgsVars, Overlaid, Restricted, Good, e
  <2>6. config.args \in Texts /\ 1 \in 1..(Len(config.args) + 1)
    BY DEF NodeVarsInv, Texts
  <2> HIDE DEF w
  <2>7. Good(w)
    BY <2>5 DEF Good
  <2>8. Expand(config.args, v) \in Texts /\ Expand(config.args, w) \in Texts
    BY <2>0, <2>6, <2>7, ExpandIs, ExpandText
  <2>9. Clean(Expand(config.args, v))
    BY <2>1, <2>8, CleanIs
  <2>10. Clean(Expand(config.args, w))
    BY <2>0, <2>5, <2>6, <2>7, <2>9, ExpandIs, MoreNames
  <2>11. Unexpanded(given.args) = {}
    BY <1>2, <2>8, <2>10, CleanIs DEF w
  <2>12. ASSUME NEW k \in DOMAIN given.env
         PROVE  Unexpanded(given.env[k]) = {}
    BY <1>2, <1>4, <2>1, <2>12 DEF Overlaid
  <2>. QED
    BY <2>11, <2>12
<1>. QED
  BY <1>2, <1>3, <1>4 DEF FilledAlike

\* What the spawn found whole stays whole while the node does not turn, and what a process
\* was started with is what its config says, filled in from one look at the node: the
\* inductive invariant, for any texts.
THEOREM NodeVarsInvCorrect == NodeVarsSpec => []NodeVarsInv
<1>1. NodeVarsInit => NodeVarsInv
  <2> SUFFICES ASSUME NodeVarsInit
               PROVE  NodeVarsInv
    OBVIOUS
  <2>1. ArgTexts \subseteq Texts /\ ValueTexts \subseteq Texts
    <3>1. Seq(STRING) \subseteq Seq(Pieces)
      BY DEF Pieces
    <3>. QED
      BY <3>1, NodeVarsAssumption DEF Texts
  <2> DEFINE Of(k) == UNION {[ks -> ValueTexts] : ks \in SUBSET {k}}
  <2>2. PICK k \in {"K", "NODE_IP"} :
          config \in [args : ArgTexts, env : Of(k), env_default : Of(k), wait_for_files : SUBSET FilePaths]
          /\ inherited \in Of(k)
    BY DEF NodeVarsInit
  <2>3. config.args \in ArgTexts /\ config.env \in Of(k) /\ config.env_default \in Of(k) /\ inherited \in Of(k)
    BY <2>2
  <2>4. \A f \in Of(k) : Good(f)
    BY <2>1 DEF Good
  <2> HIDE DEF Of
  <2>5. Good(config.env) /\ Good(config.env_default) /\ Good(inherited)
    BY <2>3, <2>4
  <2>. QED
    BY <2>1, <2>3, <2>5 DEF NodeVarsInit, NodeVarsInv, NodeHas
<1>2. NodeVarsInv /\ [NodeVarsNext]_nodeVars => NodeVarsInv'
  <2> SUFFICES ASSUME NodeVarsInv, [NodeVarsNext]_nodeVars
               PROVE  NodeVarsInv'
    OBVIOUS
  <2>0. config' = config /\ inherited' = inherited
    BY DEF NodeVarsNext, NodeTurns, FilesNamed, FilesFound, NodeVarsFound, SpawnLooks, SpawnFills,
           RunIsOver, GivesUp, FileAppears, HoldGoes, nodeVars
  <2>1. \A v : GivenBy(v)' = GivenBy(v) /\ NodeVarsMissing(config, v)' = NodeVarsMissing(config, v)
    BY <2>0 DEF GivenBy, ArgsVars, ProcessEnv, NodeVarsMissing
  <2>2. node_values' \in NodeHas
    BY DEF NodeVarsInv, NodeHas, NodeVarsNext, NodeTurns, FilesNamed, FilesFound, NodeVarsFound, SpawnLooks,
           SpawnFills, RunIsOver, GivesUp, FileAppears, HoldGoes, nodeVars
  <2>3. ASSUME held_at' = "checked", unturned'
        PROVE  NodeVarsMissing(config, node_values)' = {}
    <3>1. node_values' = node_values /\ NodeVarsMissing(config, node_values)' = NodeVarsMissing(config, node_values)
      <4>1. node_values' = node_values
        BY <2>3 DEF NodeVarsNext, NodeTurns, FilesNamed, FilesFound, NodeVarsFound, SpawnLooks,
           SpawnFills, RunIsOver, GivesUp, FileAppears, HoldGoes, nodeVars
      <4>. QED
        BY <2>0, <4>1 DEF ProcessEnv, NodeVarsMissing
    <3>2. NodeVarsMissing(config, node_values) = {}
      BY <2>3 DEF NodeVarsInv, NodeVarsNext, NodeTurns, FilesNamed, FilesFound, NodeVarsFound, SpawnLooks,
           SpawnFills, RunIsOver, GivesUp, FileAppears, HoldGoes, nodeVars
    <3>. QED
      BY <3>1, <3>2
  <2>4. ASSUME held_at' = "started"
        PROVE  \E v \in NodeHas : given' = GivenBy(v)' /\ (unturned' => NodeVarsMissing(config, v)' = {})
    <3>1. CASE SpawnFills
      <4>1. given' = GivenBy(node_values)
        BY <3>1 DEF SpawnFills, GivenBy
      <4>2. unturned' => NodeVarsMissing(config, node_values) = {}
        BY <3>1 DEF NodeVarsInv, SpawnFills, HoldGoes
      <4>3. node_values \in NodeHas
        BY DEF NodeVarsInv
      <4>. QED
        BY <2>1, <4>1, <4>2, <4>3
    <3>2. CASE ~SpawnFills
      <4>1. held_at = "started" /\ given' = given /\ (unturned' => unturned)
        <5>1. CASE NodeTurns \/ (\E f : FileAppears(f)) \/ UNCHANGED nodeVars
          BY <2>4, <5>1 DEF NodeTurns, FileAppears, nodeVars
        <5>2. \A a, b : HoldGoes(a, b) => b = "started"
          BY <2>4 DEF HoldGoes
        <5>3. ~(FilesNamed \/ FilesFound \/ NodeVarsFound \/ RunIsOver \/ \E from : GivesUp(from))
          BY <5>2 DEF FilesNamed, FilesFound, NodeVarsFound, RunIsOver, GivesUp
        <5>4. ~SpawnLooks
          BY <5>2 DEF SpawnLooks
        <5>. QED
          BY <3>2, <5>1, <5>3, <5>4 DEF NodeVarsNext
      <4>. QED
        BY <2>1, <4>1 DEF NodeVarsInv
    <3>. QED
      BY <3>1, <3>2
  <2>. QED
    BY <2>0, <2>2, <2>3, <2>4 DEF NodeVarsInv
<1>. QED
  BY <1>1, <1>2, PTL DEF NodeVarsSpec

\* README.md:657-660: ${X} in an argument is the value that the process gets for X, for
\* any arguments, values and inherited environment; and nothing is started with a
\* ${NODE_*} left in an argument or a value, as long as the node is as it was when the
\* spawn looked for what is missing, no value has a "${" that is not closed (one that an
\* argument's own text would close) and no inherited value names the node (such a value is
\* taken as it is).
THEOREM FilledAlikeCorrect == NodeVarsSpec => []FilledAlike
  BY NodeVarsInvCorrect, GivenIsAlike, PTL
===============================================================================
