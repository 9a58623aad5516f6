------------------------------ MODULE Updater ------------------------------
(***************************************************************************)
(* The image updater for one process: poll_loop and the API's              *)
(* trigger_update, each a pull, a pivot of the rootfs directories and a    *)
(* record beside them, with I/O that fails, a registry whose tag moves,    *)
(* and stormd ending at any point and starting again from its disk.        *)
(***************************************************************************)
EXTENDS Integers

CONSTANTS
  Versions,     (* the images the tag may point to                        *)
  NLayers,      (* how many layers an image has                           *)
  Poll,         (* the poll loop                                          *)
  Hands,        (* requests to POST .../trigger                           *)
  MaxPushes,    (* bound on the tag's moves                               *)
  MaxFaults,    (* bound on failing registry requests, file operations and spawns *)
  MaxRestarts,  (* bound on stormd's restarts                             *)
  MaxExits      (* bound on the child's own exits                         *)

ASSUME UpdaterAssumption ==
  /\ Versions \subseteq Nat \ {0} /\ Versions # {}
  /\ NLayers \in Nat \ {0}
  /\ Poll \notin Hands
  /\ MaxPushes \in Nat /\ MaxFaults \in Nat /\ MaxRestarts \in Nat /\ MaxExits \in Nat

Tasks == {Poll} \cup Hands

\* A directory is what has been unpacked into it: layers of images.
Layers == 1..NLayers
Image(v) == {v} \X Layers
Missing == {<<0, 0>>}
Contents == {Missing} \cup SUBSET (Versions \X Layers)
Whole(dir) == \E v \in Versions : dir = Image(v)

VARIABLES
  latest,    \* the image the tag points to
  current,   \* <rootfs_dir>/<name>
  new,       \* <name>.new
  old,       \* <name>.old
  record,    \* <name>.image.json: the image its command is of, and its digest
  digest,    \* ImageState.current_digest; 0 when there is none
  command,   \* the image the supervisor's config is of; 0 is the config file's
  proc,      \* the supervisor's record: down, up or stopping
  child,     \* what the process's child, if it has one, was started from
  respawn,   \* an exit handler is going to restart it
  pc,        \* where each task is
  mine,      \* its locals: the image it pulled, the layers of it that are unpacked,
             \* and the digest it last read from the registry; 0 when it could not
  cleaning,  \* a background removal of .old is under way
  pushes, faults, restarts, exits,
  shared,    \* history: two tasks, or a task and an exit handler or a child that
             \* has outlived its stop, at once
  cut,       \* history: a rootfs was put in place and not recorded
  late       \* history: the cleanup after an update ran on into another's pivot

disk    == <<current, new, old, record>>
process == <<command, proc, child, respawn>>
task    == <<pc, mine>>
bounds  == <<pushes, restarts, exits>>
history == <<shared, cut, late>>
vars == <<latest, disk, digest, process, task, cleaning, faults, bounds, history>>

Nothing == [cmd |-> 0, digest |-> 0]
NoChild == [cmd |-> 0, rootfs |-> Missing]
Locals  == [got |-> 0, layers |-> 0, seen |-> 0]
Pivoting == {"stop", "wait", "sweep", "retire", "place", "config", "start"}
Unrecorded == {"config", "start", "digest", "record"}
Updating == Pivoting \cup {"pull", "clear", "unpack", "digest", "record", "done"}
Starting == {"boot", "resume", "restart"}
Stages == Updating \cup Starting \cup {"idle", "check", "compare", "unasked", "answered"}

Init ==
  /\ latest \in Versions
  /\ current = Missing /\ new = Missing /\ old = Missing /\ record = Nothing
  /\ digest = 0 /\ command = 0 /\ proc = "down" /\ child = NoChild
  /\ respawn = FALSE
  /\ pc = [t \in Tasks |-> IF t = Poll THEN "boot" ELSE "unasked"]
  /\ mine = [t \in Tasks |-> Locals]
  /\ cleaning = FALSE
  /\ pushes = 0 /\ faults = 0 /\ restarts = 0 /\ exits = 0
  /\ shared = FALSE /\ cut = FALSE /\ late = FALSE

Fault == faults < MaxFaults /\ faults' = faults + 1

\* Something that works, or fails for no reason of its own.
MayFail(works) == IF works THEN Fault ELSE UNCHANGED faults

Goto(t, s) == pc' = [pc EXCEPT ![t] = s]
GoOn(t, s) == Goto(t, s) /\ UNCHANGED <<mine, faults, cut>>

\* do_update begins.
Update(t) ==
  /\ Goto(t, "pull")
  /\ shared' = (shared \/ \E u \in Tasks \ {t} : pc[u] \in Updating \cup Starting)

\* The end of an update, good or bad; the retry is the next poll, or restart.
Rest(t) == Goto(t, IF t = Poll THEN "idle" ELSE "answered") /\ mine' = [mine EXCEPT ![t] = Locals]
GiveUp(t) == Rest(t) /\ cut' = (cut \/ pc[t] \in Unrecorded)

\* spawn_process with the config there is.  Nothing runs from a directory that
\* is missing or empty; what is in a mixed or partial one may or may not run.
Spawn ==
  /\ current \notin {Missing, {}}
  /\ proc' = "up"
  /\ child' = [cmd |-> command, rootfs |-> current]

SpawnFails == proc' = "down" /\ child' = NoChild /\ MayFail(Whole(current))

\* start_process refuses a process that is Running.
StartFails == IF proc = "up" THEN UNCHANGED <<proc, child, faults>> ELSE SpawnFails

\* check_digest: a HEAD of the manifest.
ReadDigest(t) ==
  \/ mine' = [mine EXCEPT ![t].seen = latest] /\ UNCHANGED faults
  \/ mine' = [mine EXCEPT ![t].seen = 0] /\ Fault

-----------------------------------------------------------------------------
(* poll_loop: the start of the process when stormd starts, and the polls.    *)

Boot ==
  /\ pc[Poll] = "boot"
  /\ IF current # Missing /\ record # Nothing
     THEN Goto(Poll, "resume") /\ UNCHANGED shared
     ELSE Update(Poll)
  /\ UNCHANGED <<latest, disk, digest, process, mine, cleaning, faults, bounds, cut, late>>

\* start_recorded: the recorded command, in the rootfs that is there.
Resume ==
  /\ pc[Poll] = "resume"
  /\ command' = record.cmd
  /\ Goto(Poll, "restart")
  /\ UNCHANGED <<latest, disk, digest, proc, child, respawn, mine, cleaning, faults, bounds,
                 history>>

Restart ==
  /\ pc[Poll] = "restart"
  /\ \/ /\ proc # "up" /\ Spawn
        /\ digest' = record.digest /\ Goto(Poll, "idle") /\ UNCHANGED <<faults, shared>>
     \/ StartFails /\ Update(Poll) /\ UNCHANGED digest
  /\ UNCHANGED <<latest, disk, command, respawn, mine, cleaning, bounds, cut, late>>

PollWakes ==
  /\ pc[Poll] = "idle"
  /\ Goto(Poll, "check")
  /\ UNCHANGED <<latest, disk, digest, process, mine, cleaning, faults, bounds, history>>

PollCheck ==
  /\ pc[Poll] = "check"
  /\ ReadDigest(Poll) /\ Goto(Poll, "compare")
  /\ UNCHANGED <<latest, disk, digest, process, cleaning, bounds, history>>

\* Mutant: the new digest is kept before the update that brings it has succeeded.
BugPollCompare ==
  /\ pc[Poll] = "compare"
  /\ IF mine[Poll].seen \in {0, digest} THEN Rest(Poll) /\ UNCHANGED <<digest, shared>>
     ELSE Update(Poll) /\ mine' = [mine EXCEPT ![Poll] = Locals] /\ digest' = mine[Poll].seen
  /\ UNCHANGED <<latest, disk, process, cleaning, faults, bounds, cut, late>>

PollCompare ==
  /\ pc[Poll] = "compare"
  /\ IF mine[Poll].seen \in {0, digest} THEN Rest(Poll) /\ UNCHANGED shared
     ELSE Update(Poll) /\ mine' = [mine EXCEPT ![Poll] = Locals]
  /\ UNCHANGED <<latest, disk, digest, process, cleaning, faults, bounds, cut, late>>

\* trigger_update.
Trigger(t) ==
  /\ pc[t] = "unasked"
  /\ Update(t)
  /\ UNCHANGED <<latest, disk, digest, process, mine, cleaning, faults, bounds, cut, late>>

-----------------------------------------------------------------------------
(* pull_and_assemble.                                                        *)

\* The tag is resolved, and its blobs fetched and verified.
Pull(t) ==
  /\ pc[t] = "pull"
  /\ \/ mine' = [mine EXCEPT ![t].got = latest] /\ Goto(t, "clear") /\ UNCHANGED <<faults, cut>>
     \/ Fault /\ GiveUp(t)
  /\ UNCHANGED <<latest, disk, digest, process, cleaning, bounds, shared, late>>

\* remove_dir_all, one entry after the other.
Less(dir) == IF dir = {} THEN {Missing} ELSE {dir \ {entry} : entry \in dir}

\* Mutant: what is left in .new is unpacked over.
BugClear(t) ==
  /\ pc[t] = "clear"
  /\ \/ new' = (IF new = Missing THEN {} ELSE new) /\ GoOn(t, "unpack")
     \/ Fault /\ GiveUp(t) /\ UNCHANGED new
  /\ UNCHANGED <<latest, current, old, record, digest, process, cleaning, bounds, shared, late>>

Clear(t) ==
  /\ pc[t] = "clear"
  /\ \/ new # Missing /\ new' \in Less(new) /\ GoOn(t, "clear")
     \/ new = Missing /\ new' = {} /\ GoOn(t, "unpack")
     \/ Fault /\ GiveUp(t) /\ UNCHANGED new
  /\ UNCHANGED <<latest, current, old, record, digest, process, cleaning, bounds, shared, late>>

Unpack(t) ==
  /\ pc[t] = "unpack"
  /\ LET n == mine[t].layers + 1 IN
     \/ /\ n <= NLayers /\ new # Missing
        /\ new' = new \cup {<<mine[t].got, n>>}
        /\ mine' = [mine EXCEPT ![t].layers = n] /\ UNCHANGED <<pc, faults, cut>>
     \/ n > NLayers /\ GoOn(t, "stop") /\ UNCHANGED new
     \/ n <= NLayers /\ MayFail(new # Missing) /\ GiveUp(t) /\ UNCHANGED new
  /\ UNCHANGED <<latest, current, old, record, digest, process, cleaning, bounds, shared, late>>

-----------------------------------------------------------------------------
(* pivot.                                                                    *)

\* stop_process refuses a process that is not Running; then nothing is waited for.
Stop(t) ==
  /\ pc[t] = "stop"
  /\ IF proc = "up" THEN proc' = "stopping" /\ GoOn(t, "wait")
     ELSE GoOn(t, "sweep") /\ UNCHANGED proc
  /\ UNCHANGED <<latest, disk, digest, command, child, respawn, cleaning, bounds, shared, late>>

\* Mutant: the stop is not waited for.
BugWait(t) ==
  /\ pc[t] = "wait"
  /\ GoOn(t, "sweep")
  /\ UNCHANGED <<latest, disk, digest, process, cleaning, bounds, shared, late>>

\* wait_stopped; its deadline ends a wait for a process that is up again, and for
\* a child that outlives its stop: the pivot then goes on around it.
Wait(t) ==
  /\ pc[t] = "wait"
  /\ \/ proc # "stopping" /\ GoOn(t, "sweep") /\ UNCHANGED shared
     \/ proc = "stopping" /\ Fault /\ Goto(t, "sweep") /\ shared' = TRUE /\ UNCHANGED <<mine, cut>>
  /\ UNCHANGED <<latest, disk, digest, process, cleaning, bounds, late>>

Sweep(t) ==
  /\ pc[t] = "sweep"
  /\ \/ old # Missing /\ old' \in Less(old) /\ GoOn(t, "sweep")
     \/ old = Missing /\ GoOn(t, "retire") /\ UNCHANGED old
     \/ Fault /\ GiveUp(t) /\ UNCHANGED old
  /\ UNCHANGED <<latest, current, new, record, digest, process, cleaning, bounds, shared, late>>

\* rename replaces an empty directory only.
Free(dir) == dir \in {Missing, {}}

\* Mutant: the rootfs is deleted, not moved to .old.
BugRetire(t) ==
  /\ pc[t] = "retire"
  /\ \/ current' = Missing /\ GoOn(t, "place")
     \/ Fault /\ GiveUp(t) /\ UNCHANGED current
  /\ UNCHANGED <<latest, new, old, record, digest, process, cleaning, bounds, shared, late>>

Retire(t) ==
  /\ pc[t] = "retire"
  /\ \/ current = Missing /\ GoOn(t, "place") /\ UNCHANGED <<current, old>>
     \/ current # Missing /\ Free(old) /\ old' = current /\ current' = Missing /\ GoOn(t, "place")
     \/ current # Missing /\ MayFail(Free(old)) /\ GiveUp(t) /\ UNCHANGED <<current, old>>
  /\ UNCHANGED <<latest, new, record, digest, process, cleaning, bounds, shared, late>>

Place(t) ==
  /\ pc[t] = "place"
  /\ \/ new # Missing /\ Free(current) /\ current' = new /\ new' = Missing /\ GoOn(t, "config")
     \/ MayFail(new # Missing /\ Free(current)) /\ GiveUp(t) /\ UNCHANGED <<current, new>>
  /\ UNCHANGED <<latest, old, record, digest, process, cleaning, bounds, shared, late>>

\* update_process_config.
Config(t) ==
  /\ pc[t] = "config"
  /\ command' = mine[t].got
  /\ GoOn(t, "start")
  /\ UNCHANGED <<latest, disk, digest, proc, child, respawn, cleaning, bounds, shared, late>>

\* start_process, and the cleanup of .old in the background.
Start(t) ==
  /\ pc[t] = "start"
  /\ \/ proc # "up" /\ Spawn /\ GoOn(t, "digest") /\ cleaning' = (cleaning \/ old # Missing)
     \/ StartFails /\ GiveUp(t) /\ UNCHANGED cleaning
  /\ UNCHANGED <<latest, disk, digest, command, respawn, bounds, shared, late>>

-----------------------------------------------------------------------------
(* The end of do_update: the registry's digest, the record, the state.       *)

Digest(t) ==
  /\ pc[t] = "digest"
  /\ ReadDigest(t) /\ Goto(t, "record")
  /\ UNCHANGED <<latest, disk, digest, process, cleaning, bounds, history>>

\* Mutant: the command is read back from the registry.
BugRecord(t) ==
  /\ pc[t] = "record"
  /\ Goto(t, "done")
  /\ record' = [cmd |-> latest, digest |-> mine[t].seen] /\ cut' = FALSE
  /\ UNCHANGED <<latest, current, new, old, digest, process, mine, cleaning, faults, bounds, shared,
                 late>>

\* Written beside and renamed, so whole or not at all; a failure is logged.
Record(t) ==
  /\ pc[t] = "record"
  /\ Goto(t, "done")
  /\ \/ /\ record' = [cmd |-> mine[t].got, digest |-> mine[t].seen]
        /\ cut' = FALSE /\ UNCHANGED faults
     \/ Fault /\ cut' = TRUE /\ UNCHANGED record
  /\ UNCHANGED <<latest, current, new, old, digest, process, mine, cleaning, bounds, shared, late>>

Done(t) ==
  /\ pc[t] = "done"
  /\ digest' = mine[t].seen
  /\ Rest(t)
  /\ UNCHANGED <<latest, disk, process, cleaning, faults, bounds, history>>

-----------------------------------------------------------------------------
(* Around the updater.                                                       *)

\* The background cleanup of .old, whenever it gets to it.
Clean ==
  /\ cleaning
  /\ \/ old # Missing /\ old' \in Less(old) /\ UNCHANGED <<cleaning, faults>>
     \/ old = Missing /\ cleaning' = FALSE /\ UNCHANGED <<old, faults>>
     \/ Fault /\ cleaning' = FALSE /\ UNCHANGED old
  /\ late' = (late \/ current = Missing)
  /\ UNCHANGED <<latest, current, new, record, digest, process, task, bounds, shared, cut>>

Push ==
  /\ pushes < MaxPushes /\ pushes' = pushes + 1
  /\ latest' \in Versions \ {latest}
  /\ UNCHANGED <<disk, digest, process, task, cleaning, faults, restarts, exits, history>>

ChildStopped ==
  /\ proc = "stopping"
  /\ proc' = "down" /\ child' = NoChild
  /\ UNCHANGED <<latest, disk, digest, command, respawn, task, cleaning, faults, bounds, history>>

\* The child's own end; its exit handler restarts it or leaves it down.
ChildExits ==
  /\ proc = "up" /\ exits < MaxExits /\ exits' = exits + 1
  /\ proc' = "down" /\ child' = NoChild /\ respawn' \in BOOLEAN
  /\ UNCHANGED <<latest, disk, digest, command, task, cleaning, faults, pushes, restarts, history>>

\* The exit handler spawns, whatever has happened since the exit.
Respawn ==
  /\ respawn /\ respawn' = FALSE
  /\ (Spawn /\ UNCHANGED faults) \/ SpawnFails
  /\ shared' = (shared \/ proc # "down" \/ \E t \in Tasks : pc[t] \in Pivoting)
  /\ UNCHANGED <<latest, disk, digest, command, task, cleaning, bounds, cut, late>>

\* stormd ends, in a crash or a shutdown, its children with it, and is started
\* again.
StormdRestarts ==
  /\ restarts < MaxRestarts /\ restarts' = restarts + 1
  /\ digest' = 0 /\ command' = 0 /\ proc' = "down" /\ child' = NoChild
  /\ respawn' = FALSE /\ cleaning' = FALSE
  /\ pc' = [t \in Tasks |-> IF t = Poll THEN "boot"
                            ELSE IF pc[t] = "unasked" THEN "unasked" ELSE "answered"]
  /\ mine' = [t \in Tasks |-> Locals]
  /\ cut' = (cut \/ \E t \in Tasks : pc[t] \in Unrecorded)
  /\ UNCHANGED <<latest, disk, pushes, faults, exits, shared, late>>

DoUpdate(t) ==
  \/ Pull(t) \/ Clear(t) \/ Unpack(t)
  \/ Stop(t) \/ Wait(t) \/ Sweep(t) \/ Retire(t) \/ Place(t) \/ Config(t) \/ Start(t)
  \/ Digest(t) \/ Record(t) \/ Done(t)
PollLoop == Boot \/ Resume \/ Restart \/ PollWakes \/ PollCheck \/ PollCompare

Next ==
  \/ PollLoop \/ Clean \/ Push \/ ChildStopped \/ ChildExits \/ Respawn \/ StormdRestarts
  \/ \E t \in Tasks : DoUpdate(t)
  \/ \E t \in Hands : Trigger(t)

Spec == Init /\ [][Next]_vars

\* Tasks run on, the poll's interval passes, and a child that is being stopped
\* ends.  Faults are bounded, so no request or operation fails for ever.
Fairness ==
  /\ WF_vars(PollLoop) /\ WF_vars(ChildStopped)
  /\ \A t \in Tasks : WF_vars(DoUpdate(t))

FairSpec == Spec /\ Fairness

-----------------------------------------------------------------------------
(* Properties.                                                               *)

\* The type invariant.
TypeOK ==
  /\ latest \in Versions
  /\ current \in Contents /\ new \in Contents /\ old \in Contents
  /\ record \in [cmd : Versions \cup {0}, digest : Versions \cup {0}]
  /\ digest \in Versions \cup {0} /\ command \in Versions \cup {0}
  /\ proc \in {"down", "up", "stopping"} /\ respawn \in BOOLEAN
  /\ child \in [cmd : Versions \cup {0}, rootfs : Contents]
  /\ pc \in [Tasks -> Stages]
  /\ mine \in [Tasks -> [got : Versions \cup {0}, layers : 0..NLayers, seen : Versions \cup {0}]]
  /\ cleaning \in BOOLEAN /\ shared \in BOOLEAN /\ cut \in BOOLEAN /\ late \in BOOLEAN
  /\ pushes \in Nat /\ faults \in Nat /\ restarts \in Nat /\ exits \in Nat

Recorded == ~cut /\ \A t \in Tasks : pc[t] \notin Unrecorded

\* What runs is one whole image, whatever was left half done before; and unless
\* a pivot was cut off from its record, with that image's own command.
ChildFits ==
  ~shared /\ proc # "down" =>
    /\ Whole(child.rootfs)
    /\ Recorded => child.rootfs = Image(child.cmd)

\* While stormd runs on, the command that is recorded is of the rootfs in place
\* whenever no pivot is under way: what a stop of stormd then leaves is what
\* start_recorded may use.  Of a pivot that was cut off from its record, by the end
\* of stormd or a record that could not be written, it says nothing (cut): the next
\* stormd runs the old command in the new rootfs, until its first poll, of which
\* Settles speaks.
RecordFits ==
  ~shared /\ Recorded /\ record # Nothing /\ current # Missing => current = Image(record.cmd)

\* Once an image has been recorded, no single failure, and no single end of
\* stormd, wherever it comes, leaves the disk without one (but for the cleanup
\* after an update that takes away what the next update has retired).
KeepsImage ==
  ~shared /\ ~late /\ record # Nothing /\ faults + restarts <= 1 =>
    \E dir \in {current, new, old} : Whole(dir)

(* What makes ChildFits and RecordFits inductive: the first two hold always, the  *)
(* others while nothing is shared.                                               *)

\* A task has the image it unpacks, and counts its layers from none.
Pulled ==
  \A t \in Tasks :
    /\ pc[t] \in Pivoting \cup Unrecorded \cup {"clear", "unpack"} => mine[t].got \in Versions
    /\ pc[t] \notin Pivoting \cup Unrecorded \cup {"unpack", "done"} => mine[t].layers = 0

RecordsImage == record # Nothing => record.cmd \in Versions

OneUpdate ==
  \A t, u \in Tasks : pc[t] \in Updating \cup Starting /\ pc[u] \in Updating \cup Starting => t = u

\* The image in .new is the one that was pulled, as far as it has been unpacked;
\* the one in place is whole, and moved away before the new one comes.
Directories ==
  /\ current = Missing \/ Whole(current)
  /\ \A t \in Tasks :
       /\ pc[t] = "unpack" => new = {mine[t].got} \X (1..mine[t].layers)
       /\ pc[t] \in Pivoting \ Unrecorded => new = Image(mine[t].got)
       /\ pc[t] = "place" => current = Missing
       /\ pc[t] \in Unrecorded => current = Image(mine[t].got)

\* The process is down from its stop to its start.
DownInPivot ==
  /\ proc = "stopping" => \E t \in Tasks : pc[t] = "wait"
  /\ \A t \in Tasks : /\ pc[t] = "wait" => proc # "up"
                      /\ pc[t] \in Pivoting \ {"stop", "wait"} => proc = "down"

\* The supervisor has the command of the rootfs in place.
CommandFits ==
  /\ Recorded /\ command # 0 /\ current # Missing => current = Image(command)
  /\ proc # "down" \/ respawn => command # 0
  /\ \A t \in Tasks :
       /\ pc[t] \in Unrecorded \ {"config"} => command = mine[t].got
       /\ pc[t] \in {"resume", "restart"} => record # Nothing
       /\ pc[t] = "restart" => command = record.cmd
       /\ proc # "down" /\ pc[t] \in {"digest", "record"} => child.rootfs = Image(child.cmd)

UpdaterInv ==
  /\ TypeOK /\ Pulled /\ RecordsImage
  /\ ~shared => OneUpdate /\ Directories /\ DownInPivot /\ CommandFits
  /\ ChildFits /\ RecordFits

\* The tag moved once at most, and nobody but the poll loop and the updates it
\* makes had to do with the process.
Steady == pushes <= 1 /\ exits = 0 /\ \A t \in Hands : pc[t] = "unasked"

\* Once the tag rests, the digest the updater counts as running becomes the
\* registry's: an update that failed or was cut off is made again.  If Steady, it
\* is so with the process up, and with the command of the rootfs it runs in: the
\* old command in a new rootfs, which a pivot cut off from its record leaves, does
\* not last.  (A failed update of the image that counts as running already, asked
\* for by hand or after the tag went back, is not made again.)
Settles ==
  <>[](digest = latest /\ (Steady => proc = "up" /\ child.rootfs = Image(child.cmd)))

\* What updater.rs:620-621 says of the first poll, and README.md:1035-1036 of an
\* image published while stormd was down: if the registry has a newer one than the
\* rootfs, it is pulled.
NewerIsPulled == []<>(current = Image(latest))

\* Where the properties say something.
NotShared == ~shared

Rootfs ==
  IF current = Missing THEN 0
  ELSE IF Whole(current) THEN CHOOSE v \in Versions : current = Image(v) ELSE -1

Store == INSTANCE ImageStore WITH
           Images <- Versions, rootfs <- Rootfs, up <- proc # "down"

\* The updater keeps ImageStore's promise: until updates overlap, every step of its
\* is a step of ImageStore or leaves the rootfs and the process as they are.
KeepsPromise == Store!Spec
=============================================================================
