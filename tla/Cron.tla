-------------------------------- MODULE Cron --------------------------------
(***************************************************************************)
(* The cron scheduler: one loop that keeps every job's next fire time, and *)
(* one task for each run of a job.  A job still running skips a fire time. *)
(***************************************************************************)
EXTENDS Naturals, FiniteSets

CONSTANTS
  Jobs,      (* the registered jobs                                *)
  Every,     (* each job fires at the multiples of this            *)
  Timeout,   (* timeout_secs of a job                              *)
  MaxTime    (* bound on the clock                                 *)

ASSUME CronAssumption ==
  /\ Every \in [Jobs -> Nat \ {0}] /\ Timeout \in Nat \ {0} /\ MaxTime \in Nat

VARIABLES
  now,
  next_run, running,        \* CronJobState: the fire time kept, and a run in progress
  run_count, fail_count,
  scheduler,                \* looking, claiming, asleep, over
  jobs_to_run,              \* what the loop found due and has not yet started
  wake,                     \* when the loop looks again
  over,                     \* shutdown has been sent
  starting, job_children,   \* the tasks of each job that have no child yet; its children
  since,                    \* when its last child was started
  ending,                   \* its tasks that have a result to record: good ones, bad ones
  fires, skips              \* history: fire times come, and skipped

job_state == <<next_run, running, run_count, fail_count>>
loop_state == <<scheduler, jobs_to_run, wake>>
job_tasks == <<starting, job_children, since, ending>>
CronVars == <<now, job_state, loop_state, over, job_tasks, fires, skips>>

After(j, t) == ((t \div Every[j]) + 1) * Every[j]
None == [j \in Jobs |-> 0]
More(f, j) == [f EXCEPT ![j] = @ + 1]
Fewer(f, j) == [f EXCEPT ![j] = @ - 1]

\* register_jobs, and the loop begins.
CronInit ==
  /\ now = 0 /\ next_run = [j \in Jobs |-> After(j, 0)] /\ running = [j \in Jobs |-> FALSE]
  /\ run_count = None /\ fail_count = None
  /\ scheduler = "looking" /\ jobs_to_run = {} /\ wake = 0 /\ over = FALSE
  /\ starting = None /\ job_children = None /\ since = None
  /\ ending = [good |-> None, bad |-> None] /\ fires = None /\ skips = None

ClockTicks ==
  /\ now < MaxTime /\ now' = now + 1
  /\ UNCHANGED <<job_state, loop_state, over, job_tasks, fires, skips>>

\* What is due is noted, and its fire time kept for the next round.
CronLooks ==
  /\ scheduler = "looking"
  /\ LET found == {j \in Jobs : next_run[j] <= now} IN
       /\ jobs_to_run' = found
       /\ next_run' = [j \in Jobs |-> IF j \in found THEN After(j, now) ELSE next_run[j]]
       /\ fires' = [j \in Jobs |-> IF j \in found THEN fires[j] + 1 ELSE fires[j]]
  /\ wake' = IF Jobs = {} THEN now + 1
             ELSE CHOOSE t \in {next_run'[j] : j \in Jobs} : \A j \in Jobs : t <= next_run'[j]
  /\ scheduler' = "claiming"
  /\ UNCHANGED <<now, running, run_count, fail_count, over, job_tasks, skips>>

\* A job is marked when its child starts.
BugCronClaims(j) ==
  /\ scheduler = "claiming" /\ j \in jobs_to_run /\ jobs_to_run' = jobs_to_run \ {j}
  /\ IF running[j] /\ job_children[j] > 0
     THEN skips' = More(skips, j) /\ UNCHANGED <<running, starting>>
     ELSE running' = [running EXCEPT ![j] = TRUE] /\ starting' = More(starting, j) /\ UNCHANGED skips
  /\ UNCHANGED <<now, next_run, run_count, fail_count, scheduler, wake, over, job_children, since, ending, fires>>

CronClaims(j) ==
  /\ scheduler = "claiming" /\ j \in jobs_to_run /\ jobs_to_run' = jobs_to_run \ {j}
  /\ IF running[j]
     THEN skips' = More(skips, j) /\ UNCHANGED <<running, starting>>
     ELSE running' = [running EXCEPT ![j] = TRUE] /\ starting' = More(starting, j) /\ UNCHANGED skips
  /\ UNCHANGED <<now, next_run, run_count, fail_count, scheduler, wake, over, job_children, since, ending, fires>>

CronSleeps ==
  /\ scheduler = "claiming" /\ jobs_to_run = {} /\ scheduler' = "asleep"
  /\ UNCHANGED <<now, job_state, jobs_to_run, wake, over, job_tasks, fires, skips>>

CronWakes ==
  /\ scheduler = "asleep"
  /\ \/ wake <= now /\ scheduler' = "looking"
     \/ over /\ scheduler' = "over"
  /\ UNCHANGED <<now, job_state, jobs_to_run, wake, over, job_tasks, fires, skips>>

CronShutdown ==
  /\ ~over /\ over' = TRUE
  /\ UNCHANGED <<now, job_state, loop_state, job_tasks, fires, skips>>

-----------------------------------------------------------------------------
(* execute_job: spawn, wait or time out, record.  Shutdown stops none.       *)

JobSpawns(j) ==
  /\ starting[j] > 0 /\ starting' = Fewer(starting, j)
  /\ \/ /\ job_children' = More(job_children, j) /\ since' = [since EXCEPT ![j] = now]
        /\ UNCHANGED ending
     \/ ending' = [ending EXCEPT !.bad = More(@, j)] /\ UNCHANGED <<job_children, since>>
  /\ UNCHANGED <<now, job_state, loop_state, over, fires, skips>>

JobEnds(j) ==
  /\ job_children[j] > 0 /\ job_children' = Fewer(job_children, j)
  /\ \/ ending' = [ending EXCEPT !.good = More(@, j)] \/ ending' = [ending EXCEPT !.bad = More(@, j)]
  /\ UNCHANGED <<now, job_state, loop_state, over, starting, since, fires, skips>>

JobTimesOut(j) ==
  /\ job_children[j] > 0 /\ now >= since[j] + Timeout
  /\ job_children' = Fewer(job_children, j) /\ ending' = [ending EXCEPT !.bad = More(@, j)]
  /\ UNCHANGED <<now, job_state, loop_state, over, starting, since, fires, skips>>

JobRecorded(j) ==
  /\ \/ ending.good[j] > 0 /\ ending' = [ending EXCEPT !.good = Fewer(@, j)] /\ UNCHANGED fail_count
     \/ /\ ending.bad[j] > 0 /\ ending' = [ending EXCEPT !.bad = Fewer(@, j)]
        /\ fail_count' = More(fail_count, j)
  /\ run_count' = More(run_count, j) /\ running' = [running EXCEPT ![j] = FALSE]
  /\ UNCHANGED <<now, next_run, loop_state, over, starting, job_children, since, fires, skips>>

CronNext ==
  \/ ClockTicks \/ CronLooks \/ CronSleeps \/ CronWakes \/ CronShutdown
  \/ \E j \in Jobs : CronClaims(j) \/ JobSpawns(j) \/ JobEnds(j) \/ JobTimesOut(j) \/ JobRecorded(j)

CronSpec == CronInit /\ [][CronNext]_CronVars

-----------------------------------------------------------------------------
(* Properties.                                                               *)

Going(j) == starting[j] + job_children[j] + ending.good[j] + ending.bad[j]

\* The type invariant.
CronTypeOK ==
  /\ now \in Nat /\ wake \in Nat /\ over \in BOOLEAN
  /\ next_run \in [Jobs -> Nat] /\ running \in [Jobs -> BOOLEAN]
  /\ run_count \in [Jobs -> Nat] /\ fail_count \in [Jobs -> Nat]
  /\ scheduler \in {"looking", "claiming", "asleep", "over"} /\ jobs_to_run \subseteq Jobs
  /\ starting \in [Jobs -> Nat] /\ job_children \in [Jobs -> Nat] /\ since \in [Jobs -> Nat]
  /\ ending \in [good : [Jobs -> Nat], bad : [Jobs -> Nat]]
  /\ fires \in [Jobs -> Nat] /\ skips \in [Jobs -> Nat]

\* A job has one run at a time, marked as long as it goes on, so that no fire time
\* waits for ever; and every fire time is a run, recorded or going on, or one skipped.
OneRunPerJob ==
  \A j \in Jobs :
    /\ Going(j) = IF running[j] THEN 1 ELSE 0
    /\ fires[j] = run_count[j] + Going(j) + skips[j] + IF j \in jobs_to_run THEN 1 ELSE 0
    /\ fail_count[j] <= run_count[j]
=============================================================================
