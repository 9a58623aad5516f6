-------------------------------- MODULE Locks --------------------------------
(***************************************************************************)
(* The supervisor's two levels of locks (supervisor.rs): the table of      *)
(* processes, a read-write lock whose waiting writer holds back later      *)
(* readers, and each process's own lock; the calls that hold the one while *)
(* they wait for the other; what send_stdin waits for while it holds both, *)
(* room in the channel to a child's stdin; and what stop_process waits for *)
(* while it holds a process's, the answer of the webhook's server.         *)
(***************************************************************************)
EXTENDS Integers, FiniteSets

CONSTANTS
  Callers,   \* tasks that call the supervisor
  Procs,     \* the processes
  Queue,     \* lines stdin's channel holds (64)
  Room       \* lines the pipe holds

ASSUME LocksAssumption == Queue \in Nat \ {0} /\ Room \in Nat \ {0} /\ "none" \notin Callers

VARIABLES
  caller,    \* per task: its call, the process it is at, and how far it is
  table_readers,   \* tasks holding the table for reading
  lock_holder,    \* per process: the task holding its lock, or "none"
  stdin      \* per process: whether its child is up and reads, its lines

locksVars == <<caller, table_readers, lock_holder, stdin>>

LockCalls == {"send_stdin", "stop_process", "get_all_statuses", "stop_all", "register_process"}
Free == [call |-> "none", at |-> CHOOSE p \in Procs : TRUE, left |-> {}, pc |-> "free"]

Goes(t, pc) == caller' = [caller EXCEPT ![t].pc = pc]

-----------------------------------------------------------------------------
(* The calls that go through every process keep the table throughout       *)
(* (get_all_statuses, stop_tiers) or for as long as a tier lasts           *)
(* (stop_all, and its looks at who is Stopping still).                     *)
Begin(t) ==
  /\ caller[t].pc = "free"
  /\ \E call \in LockCalls, p \in Procs :
       caller' = [caller EXCEPT ![t] =
                    [call |-> call, at |-> p, pc |-> "table",
                     left |-> IF call \in {"get_all_statuses", "stop_all"}
                              THEN Procs \ {p} ELSE {}]]
  /\ UNCHANGED <<table_readers, lock_holder, stdin>>

WriterWaits == \E t \in Callers : caller[t].pc = "write"

(* stop_process clones the process and lets the table go at once. *)
TakeTable(t) ==
  /\ caller[t].pc = "table" /\ caller[t].call # "register_process"
  /\ ~WriterWaits
  /\ table_readers' = IF caller[t].call = "stop_process" THEN table_readers ELSE table_readers \cup {t}
  /\ Goes(t, "lock")
  /\ UNCHANGED <<lock_holder, stdin>>

AskToWrite(t) ==
  /\ caller[t].pc = "table" /\ caller[t].call = "register_process"
  /\ ~WriterWaits
  /\ Goes(t, "write")
  /\ UNCHANGED <<table_readers, lock_holder, stdin>>

Register(t) ==
  /\ caller[t].pc = "write" /\ table_readers = {}
  /\ caller' = [caller EXCEPT ![t] = Free]
  /\ UNCHANGED <<table_readers, lock_holder, stdin>>

Lock(t) ==
  /\ caller[t].pc = "lock" /\ lock_holder[caller[t].at] = "none"
  /\ lock_holder' = [lock_holder EXCEPT ![caller[t].at] = t]
  /\ Goes(t, "held")
  /\ UNCHANGED <<table_readers, stdin>>

(* As Released, but get_all_statuses asks for the table again, still       *)
(* holding it, for every process it comes to.                              *)
BugReleased(t) ==
  /\ lock_holder' = [lock_holder EXCEPT ![caller[t].at] = "none"]
  /\ IF caller[t].left = {}
     THEN caller' = [caller EXCEPT ![t] = Free] /\ table_readers' = table_readers \ {t}
     ELSE \E p \in caller[t].left :
            /\ caller' = [caller EXCEPT ![t].at = p, ![t].left = @ \ {p}, ![t].pc = "table"]
            /\ table_readers' = IF caller[t].call = "stop_all" THEN table_readers \ {t} ELSE table_readers

(* Its lock let go, and the next process, of the same tier or, with the    *)
(* table let go as well, of the next one, or the end of the call.          *)
Released(t) ==
  /\ lock_holder' = [lock_holder EXCEPT ![caller[t].at] = "none"]
  /\ IF caller[t].left = {}
     THEN caller' = [caller EXCEPT ![t] = Free] /\ table_readers' = table_readers \ {t}
     ELSE \E p \in caller[t].left,
             pc \in IF caller[t].call = "stop_all" THEN {"lock", "table"} ELSE {"lock"} :
            /\ caller' = [caller EXCEPT ![t].at = p, ![t].left = @ \ {p}, ![t].pc = pc]
            /\ table_readers' = IF pc = "table" THEN table_readers \ {t} ELSE table_readers

(* A line goes into the channel when there is room for it; when the child  *)
(* is gone nobody receives and the send fails.                             *)
Send(t) ==
  /\ caller[t].pc = "held" /\ caller[t].call = "send_stdin"
  /\ LET p == caller[t].at
     IN /\ ~stdin[p].up \/ stdin[p].queued < Queue
        /\ stdin' = IF stdin[p].up THEN [stdin EXCEPT ![p].queued = @ + 1] ELSE stdin
  /\ Released(t)

(* A process that is not Running is left alone.  stop_process says what it *)
(* did before it lets the lock go.                                         *)
StopSent(t) ==
  /\ caller[t].pc = "held" /\ caller[t].call \in {"stop_process", "stop_all"}
  /\ LET p == caller[t].at
         running == stdin[p].up /\ ~stdin[p].killed
     IN /\ stdin' = IF running THEN [stdin EXCEPT ![p].killed = TRUE] ELSE stdin
        /\ IF running /\ caller[t].call = "stop_process"
           THEN Goes(t, "post") /\ UNCHANGED <<table_readers, lock_holder>>
           ELSE Released(t)

(* The server's answer to the event, which has no deadline.                *)
Answered(t) ==
  /\ caller[t].pc = "post"
  /\ Released(t)
  /\ UNCHANGED stdin

StatusRead(t) ==
  /\ caller[t].pc = "held" /\ caller[t].call = "get_all_statuses"
  /\ Released(t)
  /\ UNCHANGED stdin

-----------------------------------------------------------------------------
(* The task that writes the channel's lines to the pipe, and the child. *)
WriteLine(p) ==
  /\ stdin[p].up /\ stdin[p].queued > 0 /\ stdin[p].piped < Room
  /\ stdin' = [stdin EXCEPT ![p].queued = @ - 1, ![p].piped = @ + 1]
  /\ UNCHANGED <<caller, table_readers, lock_holder>>

ReadLine(p) ==
  /\ stdin[p].up /\ stdin[p].reads /\ stdin[p].piped > 0
  /\ stdin' = [stdin EXCEPT ![p].piped = @ - 1]
  /\ UNCHANGED <<caller, table_readers, lock_holder>>

(* The monitor's SIGTERM and SIGKILL need no lock; the pipe closes. *)
Killed(p) ==
  /\ stdin[p].up /\ stdin[p].killed
  /\ stdin' = [stdin EXCEPT ![p] = [@ EXCEPT !.up = FALSE, !.killed = FALSE,
                                             !.queued = 0, !.piped = 0]]
  /\ UNCHANGED <<caller, table_readers, lock_holder>>

LocksInit ==
  /\ caller = [t \in Callers |-> Free]
  /\ table_readers = {}
  /\ lock_holder = [p \in Procs |-> "none"]
  /\ stdin \in [Procs -> [up : {TRUE}, reads : BOOLEAN, killed : {FALSE},
                          queued : {0}, piped : {0}]]

CallStep(t) ==
  \/ Begin(t) \/ TakeTable(t) \/ AskToWrite(t) \/ Register(t) \/ Lock(t)
  \/ Send(t) \/ StopSent(t) \/ Answered(t) \/ StatusRead(t)
ChildStep(p) == WriteLine(p) \/ ReadLine(p) \/ Killed(p)

LocksNext ==
  \/ \E t \in Callers : CallStep(t)
  \/ \E p \in Procs : ChildStep(p)

LocksSpec == LocksInit /\ [][LocksNext]_locksVars

(* The runtime runs every task that can go on, a lock is handed over in    *)
(* the order it was asked for, a child that reads goes on reading, and the *)
(* server answers.                                                         *)
LocksFairSpec ==
  /\ LocksSpec
  /\ \A t \in Callers : /\ WF_locksVars(CallStep(t) /\ caller[t].pc # "free")
                        /\ SF_locksVars(TakeTable(t)) /\ SF_locksVars(Lock(t))
                        /\ SF_locksVars(Send(t))
  /\ \A p \in Procs : WF_locksVars(ChildStep(p))

-----------------------------------------------------------------------------
LocksTypeOK ==
  /\ table_readers \subseteq Callers
  /\ lock_holder \in [Procs -> Callers \cup {"none"}]
  /\ \A p \in Procs : stdin[p].queued \in 0..Queue /\ stdin[p].piped \in 0..Room

(* What a call waits for, as long as it cannot go on. *)
WaitsFor(t) ==
  CASE caller[t].pc = "table" -> {u \in Callers : caller[u].pc = "write"}
    [] caller[t].pc = "write" -> table_readers
    [] caller[t].pc = "lock"  -> {lock_holder[caller[t].at]} \ {"none"}
    [] OTHER -> {}

Distance == [table |-> 4, write |-> 3, lock |-> 2, held |-> 1, post |-> 1, free |-> 0]
Nearer(u, t) == caller[u].pc # "free" /\ Distance[caller[u].pc] < Distance[caller[t].pc]

ChildCanGoOn(p) ==
  /\ stdin[p].up
  /\ \/ stdin[p].killed
     \/ stdin[p].queued > 0 /\ stdin[p].piped < Room
     \/ stdin[p].reads /\ stdin[p].piped > 0

DeafChild(p) ==
  /\ stdin[p].up /\ ~stdin[p].reads
  /\ stdin[p].queued = Queue /\ stdin[p].piped = Room

CanSend(p) == ~stdin[p].up \/ stdin[p].queued < Queue

(* The locks never wait on one another: a call that waits for a lock waits *)
(* for calls that have one and are nearer their end than it is, in every   *)
(* order the calls may come; so at the end of every chain of waits is a    *)
(* call that waits for no lock.  That is one that can go on, or one that   *)
(* waits for somebody outside: stop_process, for the webhook's answer, or  *)
(* a send, for a child that is still to read, or is up, does not read, and *)
(* has filled its pipe and its channel.  No call takes the table while it  *)
(* holds it, or a process's lock, which a waiting writer would turn into a *)
(* deadlock.                                                               *)
OnlyOutsidersBlock ==
  \A t \in Callers :
    /\ \A u \in WaitsFor(t) : Nearer(u, t)
    /\ caller[t].pc = "held" /\ caller[t].call = "send_stdin" =>
         CanSend(caller[t].at) \/ ChildCanGoOn(caller[t].at) \/ DeafChild(caller[t].at)

(* A stop that was asked for reaches the child. *)
StopLands ==
  \A t \in Callers, p \in Procs :
    (caller[t].call = "stop_process" /\ caller[t].at = p /\ caller[t].pc = "table")
      ~> ~stdin[p].up
=============================================================================
