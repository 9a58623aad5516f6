------------------------------- MODULE Reaper -------------------------------
(***************************************************************************)
(* The zombie reaper of PID 1, beside the tasks that wait for children of  *)
(* their own.  A child's exit status is there once: whoever reaps it first *)
(* has it.  Time goes in ticks of the reaper's interval.                   *)
(***************************************************************************)
EXTENDS Naturals

CONSTANTS
  Pids,    (* process ids                                               *)
  Grace,   (* GRACE: how long the reaper leaves a zombie alone          *)
  Waiter   (* how long a task takes at most to reap a child of its own  *)

ASSUME ReaperAssumption == Grace \in Nat \ {0} /\ Waiter \in Nat /\ Waiter < Grace

Never == Grace + 3

VARIABLES
  children,    \* each pid: free, or freed since the last scan, or a child: owned or
               \* orphan, alive or zombie
  age,         \* for how long each zombie has been one
  first_seen,  \* Tracker: for how long each pid has been seen, or Never
  found,       \* what the last scan found, while the reaper is at it
  due,         \* the pids it still has to reap
  reaper,      \* asleep, tracking, reaping, or fallback: /proc is not readable
  proc_read,   \* whether /proc has been readable in every scan
  stolen       \* history: the reaper has taken the status of an owned child

ReaperVars == <<children, age, first_seen, found, due, reaper, proc_read, stolen>>

Zombies == {"owned zombie", "orphan zombie"}
IsZombie(p) == children[p] \in Zombies

ReaperInit ==
  /\ children = [p \in Pids |-> "free"] /\ age = [p \in Pids |-> 0]
  /\ first_seen = [p \in Pids |-> Never] /\ found = {} /\ due = {}
  /\ reaper = "asleep" /\ proc_read = TRUE /\ stolen = FALSE

Becomes(p, c) == children' = [children EXCEPT ![p] = c] /\ age' = [age EXCEPT ![p] = 0]

-----------------------------------------------------------------------------
(* Children: a pid is given again only after the next scan.                  *)

Forked(p) ==
  /\ children[p] = "free"
  /\ Becomes(p, "owned alive") \/ Becomes(p, "orphan alive")
  /\ UNCHANGED <<first_seen, found, due, reaper, proc_read, stolen>>

ChildExits(p) ==
  /\ \/ children[p] = "owned alive" /\ Becomes(p, "owned zombie")
     \/ children[p] = "orphan alive" /\ Becomes(p, "orphan zombie")
  /\ UNCHANGED <<first_seen, found, due, reaper, proc_read, stolen>>

OwnerWaits(p) ==
  /\ children[p] = "owned zombie" /\ Becomes(p, "freed")
  /\ UNCHANGED <<first_seen, found, due, reaper, proc_read, stolen>>

\* A handle dropped unwaited, as a timeout does: nobody waits for the child any more.
HandleDropped(p) ==
  /\ children[p] \in {"owned alive", "owned zombie"}
  /\ children' = [children EXCEPT ![p] = IF @ = "owned alive" THEN "orphan alive" ELSE "orphan zombie"]
  /\ UNCHANGED <<age, first_seen, found, due, reaper, proc_read, stolen>>

-----------------------------------------------------------------------------
(* The loop: sleep, scan, track, reap.                                       *)

Missed == [p \in Pids |-> IF children[p] = "freed" THEN "free" ELSE children[p]]

\* A second goes by, unless the waiters or the loop are behind.
SecondPasses ==
  /\ reaper = "asleep"
  /\ \A p \in Pids : children[p] = "owned zombie" => age[p] < Waiter
  /\ age' = [p \in Pids |-> IF IsZombie(p) /\ age[p] < Never THEN age[p] + 1 ELSE age[p]]
  /\ first_seen' = [p \in Pids |-> IF first_seen[p] < Grace THEN first_seen[p] + 1 ELSE first_seen[p]]
  /\ \/ /\ reaper' = "tracking" /\ found' = {p \in Pids : IsZombie(p)}
        /\ UNCHANGED proc_read
     \/ reaper' = "fallback" /\ proc_read' = FALSE /\ UNCHANGED found
  /\ children' = Missed /\ UNCHANGED <<due, stolen>>

\* Pids that are no longer found are remembered.
BugTrackerDue ==
  /\ reaper = "tracking"
  /\ LET seen == [p \in Pids |-> IF p \in found /\ first_seen[p] = Never THEN 0 ELSE first_seen[p]] IN
       /\ due' = {p \in found : seen[p] >= Grace}
       /\ first_seen' = [p \in Pids |-> IF p \in due' THEN Never ELSE seen[p]]
  /\ found' = {} /\ reaper' = "reaping"
  /\ UNCHANGED <<children, age, proc_read, stolen>>

\* due: a pid not found is forgotten, a new one starts its clock.
TrackerDue ==
  /\ reaper = "tracking"
  /\ LET seen == [p \in Pids |-> IF p \notin found THEN Never
                                 ELSE IF first_seen[p] = Never THEN 0 ELSE first_seen[p]] IN
       /\ due' = {p \in found : seen[p] >= Grace}
       /\ first_seen' = [p \in Pids |-> IF p \in due' THEN Never ELSE seen[p]]
  /\ found' = {} /\ reaper' = "reaping"
  /\ UNCHANGED <<children, age, proc_read, stolen>>

\* waitpid of one pid, or of any zombie.
Taken(p) == Becomes(p, "freed") /\ stolen' = (stolen \/ children[p] = "owned zombie")

Reap ==
  \/ /\ reaper = "reaping"
     /\ \E p \in due :
          /\ due' = due \ {p}
          /\ IF IsZombie(p) THEN Taken(p) ELSE UNCHANGED <<children, age, stolen>>
     /\ UNCHANGED <<first_seen, found, reaper, proc_read>>
  \/ /\ reaper = "reaping" /\ due = {} /\ reaper' = "asleep"
     /\ UNCHANGED <<children, age, first_seen, found, due, proc_read, stolen>>

ReapAny ==
  /\ reaper = "fallback"
  /\ \/ \E p \in Pids : IsZombie(p) /\ Taken(p) /\ UNCHANGED reaper
     \/ (\A p \in Pids : ~IsZombie(p)) /\ reaper' = "asleep" /\ UNCHANGED <<children, age, stolen>>
  /\ UNCHANGED <<first_seen, found, due, proc_read>>

ReaperNext ==
  \/ SecondPasses \/ TrackerDue \/ Reap \/ ReapAny
  \/ \E p \in Pids : Forked(p) \/ ChildExits(p) \/ OwnerWaits(p) \/ HandleDropped(p)

ReaperSpec == ReaperInit /\ [][ReaperNext]_ReaperVars

-----------------------------------------------------------------------------
(* Properties.                                                               *)

\* The type invariant.
ReaperTypeOK ==
  /\ children \in [Pids -> {"free", "freed", "owned alive", "orphan alive"} \cup Zombies]
  /\ age \in [Pids -> 0..Never] /\ first_seen \in [Pids -> 0..Grace \cup {Never}]
  /\ found \subseteq Pids /\ due \subseteq Pids
  /\ reaper \in {"asleep", "tracking", "reaping", "fallback"}
  /\ proc_read \in BOOLEAN /\ stolen \in BOOLEAN

\* reaper.rs: the reaper reaps only zombies nobody else has.  A child that its owner
\* reaps in time keeps its exit status for it, through pids that are used again;
\* without /proc the reaper takes what it finds.
StatusKept == stolen => ~proc_read
=============================================================================
