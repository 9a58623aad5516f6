------------------------------ MODULE Goldens ------------------------------
(***************************************************************************)
(* One golden of one process: a volume of the storage engine, attached,    *)
(* presented at a path and noted in a map.  It is presented before the     *)
(* process first starts, swapped on request, and released at shutdown.     *)
(* The engine may refuse a call, or carry it out and have its answer lost. *)
(***************************************************************************)
EXTENDS Naturals, Sequences

CONSTANTS Volumes, Swappers

ASSUME GoldensAssumption == "boot" \notin Swappers /\ "exit" \notin Swappers

NoVolume == "none"
ASSUME NoVolumeAssumption == NoVolume \notin Volumes

GoldenTasks == {"boot", "exit"} \cup Swappers

VARIABLES
  content,     \* "filesystem", mounted at the path, or "image", a node at the path
  wanted,      \* the volume the config names
  attached,    \* the volumes the engine has attached for us
  path,        \* what is at the path, the last on top
  presented,   \* the map's entry
  g_running,   \* the process runs
  g_stopping,  \* stormd is shutting down
  g_pc,        \* what each task is at
  held,        \* the volume each task has taken from the map or is presenting
  swap,        \* each task's old and new volume, was_running, and whether the old one goes back
  trouble      \* history: what has gone wrong that nothing undoes

golden_world == <<attached, path>>
golden_task  == <<g_pc, held, swap>>
GoldensVars  == <<content, wanted, golden_world, presented, g_running, g_stopping, golden_task, trouble>>

NoSwap == [old |-> NoVolume, new |-> NoVolume, ran |-> FALSE, back |-> FALSE]

GoldensInit ==
  /\ content \in {"filesystem", "image"} /\ wanted \in Volumes
  /\ attached = {} /\ path = <<>> /\ presented = NoVolume
  /\ g_running = FALSE /\ g_stopping = FALSE
  /\ g_pc = [t \in GoldenTasks |-> "idle"] /\ held = [t \in GoldenTasks |-> NoVolume]
  /\ swap = [t \in GoldenTasks |-> NoSwap]
  /\ trouble = {}

GoldenAt(t, s) == g_pc[t] = s /\ g_pc["exit"] # "done"
GoldenGo(t, s) == g_pc' = [g_pc EXCEPT ![t] = s]
InFlight(t) == g_pc[t] \notin {"idle", "done"}
\* A task that begins beside another one.
Beside(t) == IF \E u \in GoldenTasks \ {t} : InFlight(u) THEN {"overlap"} ELSE {}

-----------------------------------------------------------------------------
(* present: attach, place, note.                                             *)

\* The answer may be an error although the engine has attached the volume.
Attach(t) ==
  /\ GoldenAt(t, "attach")
  /\ \/ attached' = attached \cup {held[t]} /\ GoldenGo(t, "place") /\ UNCHANGED trouble
     \/ UNCHANGED attached /\ GoldenGo(t, "refused") /\ UNCHANGED trouble
     \/ /\ attached' = attached \cup {held[t]} /\ GoldenGo(t, "refused")
        /\ trouble' = trouble \cup {"engine"}
  /\ UNCHANGED <<content, wanted, path, presented, g_running, g_stopping, held, swap>>

\* A mount goes on top of what is there; a node replaces it.
Place(t) ==
  /\ GoldenAt(t, "place")
  /\ \/ /\ path' = IF content = "image" THEN <<held[t]>> ELSE Append(path, held[t])
        /\ GoldenGo(t, "note")
     \/ UNCHANGED path /\ GoldenGo(t, "unattach")
  /\ UNCHANGED <<content, wanted, attached, presented, g_running, g_stopping, held, swap, trouble>>

Mounted(v) == content = "filesystem" /\ \E i \in 1..Len(path) : path[i] = v

\* detach: a volume still mounted is refused, one not attached is no error.
\* The pc the task goes on to when the engine says yes, and when it does not.
Detach(t, yes, no) ==
  \/ ~Mounted(held[t]) /\ attached' = attached \ {held[t]} /\ GoldenGo(t, yes) /\ UNCHANGED trouble
  \/ UNCHANGED attached /\ GoldenGo(t, no) /\ trouble' = trouble \cup {"engine"}

Unattach(t) ==
  /\ GoldenAt(t, "unattach") /\ Detach(t, "refused", "refused")
  /\ UNCHANGED <<content, wanted, path, presented, g_running, g_stopping, held, swap>>

Note(t) ==
  /\ GoldenAt(t, "note") /\ presented' = held[t] /\ GoldenGo(t, "presented")
  /\ UNCHANGED <<content, wanted, golden_world, g_running, g_stopping, held, swap, trouble>>

-----------------------------------------------------------------------------
(* release: take the entry, undo the mount or the node, detach.              *)

\* The entry is read and left where it is.
BugTake(t) ==
  /\ GoldenAt(t, "release")
  /\ held' = [held EXCEPT ![t] = presented]
  /\ GoldenGo(t, IF presented = NoVolume THEN "released" ELSE "undo")
  /\ UNCHANGED <<content, wanted, golden_world, presented, g_running, g_stopping, swap, trouble>>

Take(t) ==
  /\ GoldenAt(t, "release")
  /\ held' = [held EXCEPT ![t] = presented] /\ presented' = NoVolume
  /\ GoldenGo(t, IF presented = NoVolume THEN "released" ELSE "undo")
  /\ UNCHANGED <<content, wanted, golden_world, g_running, g_stopping, swap, trouble>>

\* A mount that is busy stays, and nothing says so.
BugUndo(t) ==
  /\ GoldenAt(t, "undo")
  /\ \/ /\ path' = IF content = "image" \/ path = <<>> THEN <<>> ELSE SubSeq(path, 1, Len(path) - 1)
        /\ GoldenGo(t, "detach")
     \/ UNCHANGED path /\ GoldenGo(t, "unreleased")
  /\ UNCHANGED <<content, wanted, attached, presented, g_running, g_stopping, held, swap, trouble>>

\* One that cannot be undone is put back in the map.
Undo(t) ==
  /\ GoldenAt(t, "undo")
  /\ \/ /\ content = "image" \/ path # <<>>
        /\ path' = IF content = "image" THEN <<>> ELSE SubSeq(path, 1, Len(path) - 1)
        /\ GoldenGo(t, "detach") /\ UNCHANGED <<presented, trouble>>
     \/ /\ UNCHANGED path /\ presented' = held[t] /\ GoldenGo(t, "unreleased")
        /\ trouble' = IF t = "exit" THEN trouble \cup {"busy"} ELSE trouble
  /\ UNCHANGED <<content, wanted, attached, g_running, g_stopping, held, swap>>

Unmounted(t) ==
  /\ GoldenAt(t, "detach") /\ Detach(t, "released", "unreleased")
  /\ UNCHANGED <<content, wanted, path, presented, g_running, g_stopping, held, swap>>

-----------------------------------------------------------------------------
(* present_all before the first start: until it works, or shutdown.          *)

Boot ==
  /\ GoldenAt("boot", "idle")
  /\ \/ presented # NoVolume /\ GoldenGo("boot", "spawn") /\ UNCHANGED <<held, trouble>>
     \/ presented = NoVolume /\ g_stopping /\ GoldenGo("boot", "done") /\ UNCHANGED <<held, trouble>>
     \/ /\ presented = NoVolume /\ ~g_stopping /\ GoldenGo("boot", "attach")
        /\ held' = [held EXCEPT !["boot"] = wanted] /\ trouble' = trouble \cup Beside("boot")
  /\ UNCHANGED <<content, wanted, golden_world, presented, g_running, g_stopping, swap>>

BootAgain ==
  /\ GoldenAt("boot", "refused") /\ GoldenGo("boot", "idle")
  /\ UNCHANGED <<content, wanted, golden_world, presented, g_running, g_stopping, held, swap, trouble>>

BootSpawns ==
  /\ g_pc["boot"] \in {"presented", "spawn"} /\ g_pc["exit"] # "done"
  /\ g_running' = ~g_stopping /\ GoldenGo("boot", "done")
  /\ UNCHANGED <<content, wanted, golden_world, presented, g_stopping, held, swap, trouble>>

-----------------------------------------------------------------------------
(* swap_golden.                                                              *)

SwapBegins(t, v) ==
  /\ GoldenAt(t, "idle")
  /\ swap' = [swap EXCEPT ![t] = [old |-> wanted, new |-> v, ran |-> g_running, back |-> FALSE]]
  /\ GoldenGo(t, IF g_running THEN "stop" ELSE "release")
  /\ trouble' = trouble \cup Beside(t)
  /\ UNCHANGED <<content, wanted, golden_world, presented, g_running, g_stopping, held>>

\* The process stops, or the wait for it runs out.
SwapStops(t) ==
  /\ GoldenAt(t, "stop") /\ GoldenGo(t, "release")
  /\ g_running' \in {FALSE, g_running}
  /\ UNCHANGED <<content, wanted, golden_world, presented, g_stopping, held, swap, trouble>>

SwapReleased(t) ==
  /\ GoldenAt(t, "released") /\ GoldenGo(t, "attach")
  /\ held' = [held EXCEPT ![t] = swap[t].new]
  /\ UNCHANGED <<content, wanted, golden_world, presented, g_running, g_stopping, swap, trouble>>

\* The config names the new one although the old one has been put back.
BugSwapPresented(t) ==
  /\ GoldenAt(t, "presented") /\ GoldenGo(t, "spawn")
  /\ wanted' = swap[t].new
  /\ UNCHANGED <<content, golden_world, presented, g_running, g_stopping, held, swap, trouble>>

\* The config follows the golden, unless it is the old one that was put back.
SwapPresented(t) ==
  /\ GoldenAt(t, "presented") /\ GoldenGo(t, "spawn")
  /\ wanted' = IF swap[t].back THEN wanted ELSE swap[t].new
  /\ UNCHANGED <<content, golden_world, presented, g_running, g_stopping, held, swap, trouble>>

\* The new one was not presented: the old one, and then neither.
SwapRefused(t) ==
  /\ GoldenAt(t, "refused")
  /\ \/ /\ ~swap[t].back /\ GoldenGo(t, "attach")
        /\ held' = [held EXCEPT ![t] = swap[t].old]
        /\ swap' = [swap EXCEPT ![t].back = TRUE] /\ UNCHANGED trouble
     \/ /\ swap[t].back /\ GoldenGo(t, "spawn")
        /\ trouble' = trouble \cup {"unpresented"} /\ UNCHANGED <<held, swap>>
  /\ UNCHANGED <<content, wanted, golden_world, presented, g_running, g_stopping>>

SwapSpawns(t) ==
  /\ g_pc[t] \in {"spawn", "unreleased"} /\ g_pc["exit"] # "done"
  /\ g_running' = IF swap[t].ran /\ ~g_stopping THEN TRUE ELSE g_running
  /\ trouble' = IF g_pc[t] = "unreleased" /\ presented = NoVolume
                THEN trouble \cup {"unpresented"} ELSE trouble
  /\ GoldenGo(t, "idle")
  /\ held' = [held EXCEPT ![t] = NoVolume] /\ swap' = [swap EXCEPT ![t] = NoSwap]
  /\ UNCHANGED <<content, wanted, golden_world, presented, g_stopping>>

-----------------------------------------------------------------------------
(* Shutdown: the processes stop, the start order ends, release_all.          *)

GoldensShutdown ==
  /\ ~g_stopping /\ g_stopping' = TRUE
  /\ UNCHANGED <<content, wanted, golden_world, presented, g_running, golden_task, trouble>>

ReleaseAll ==
  /\ GoldenAt("exit", "idle") /\ g_stopping /\ g_pc["boot"] = "done"
  /\ g_running' = FALSE
  /\ GoldenGo("exit", IF presented = NoVolume THEN "done" ELSE "release")
  /\ trouble' = trouble \cup Beside("exit")
  /\ UNCHANGED <<content, wanted, golden_world, presented, g_stopping, held, swap>>

ReleaseEnds ==
  /\ g_pc["exit"] \in {"released", "unreleased"} /\ GoldenGo("exit", "done")
  /\ UNCHANGED <<content, wanted, golden_world, presented, g_running, g_stopping, held, swap, trouble>>

Presenting(t) == Attach(t) \/ Place(t) \/ Unattach(t) \/ Note(t)
Releasing(t) == Take(t) \/ Undo(t) \/ Unmounted(t)

GoldensNext ==
  \/ Boot \/ BootAgain \/ BootSpawns \/ Presenting("boot")
  \/ GoldensShutdown \/ ReleaseAll \/ Releasing("exit") \/ ReleaseEnds
  \/ \E t \in Swappers :
       \/ \E v \in Volumes : SwapBegins(t, v)
       \/ SwapStops(t) \/ Releasing(t) \/ SwapReleased(t) \/ Presenting(t)
       \/ SwapPresented(t) \/ SwapRefused(t) \/ SwapSpawns(t)

GoldensSpec == GoldensInit /\ [][GoldensNext]_GoldensVars

-----------------------------------------------------------------------------
(* Properties.                                                               *)

\* What the map says is presented is attached, and is all there is at the path:
\* as long as no two tasks have been at it at once.
GoldenServed ==
  (presented # NoVolume /\ "overlap" \notin trouble) =>
    presented \in attached /\ path = <<presented>>

\* The process runs with the golden its config names, through swaps that work and
\* swaps that do not.
RunsWithGolden ==
  (g_running /\ trouble \cap {"overlap", "unpresented"} = {}
     /\ \A t \in GoldenTasks : ~InFlight(t)) => presented = wanted

\* When stormd exits, nothing is left mounted or attached.
NothingLeft ==
  (g_pc["exit"] = "done" /\ trouble \cap {"overlap", "engine", "busy"} = {}) =>
    attached = {} /\ path = <<>>
=============================================================================
