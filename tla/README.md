# stormd in TLA+

Models, model-checking runs and proofs of stormd, the container supervisor of
this repository. Source positions below are in `src/`; `supervisor.rs` is
`crates/stormd/src/supervisor.rs`.

## The system

stormd is one process, PID 1 of a container. It starts the processes of its
configuration in order, watches, probes and restarts them, captures their
output, updates image processes from a registry, presents read-only volumes
(goldens), runs cron jobs, serves an API, a web UI and SSH, and stops everything
on a signal or when the container has failed. It is tokio tasks over shared
records: every process has one `ManagedProcess` behind a mutex. **A process's own
tasks (spawn, monitor, exit handler) never hold it across an await**, so what is
hard is what happens between two critical sections. Two calls do hold it across
one: `send_stdin`, for room in a channel, and `stop_process`, for the answer to its
event (`Locks`).

| Component | State | Operations | Shared with | What makes it correct |
|---|---|---|---|---|
| process: spawn, monitor, exit handler (`supervisor.rs` 798-1330, 1557-1663) | `state`, `pid`, `run`, `kill_tx`, restart stamps, `container_failed` | `spawn_process`, the monitor task, `handle_exit`, `restart_with_backoff`, start / stop / restart | start order, API, probes, updater, goldens, shutdown | one child at a time; the record tells the truth; a restart budget; what was left down or stopped stays down; every restart resolves |
| start order (574-796, 1973-1987) | place in the list, `ready`, `state_changed` | `start_all`, `wait_for_dependencies`, `wait_for_files`, `wait_for_node_vars`, `watch_ready` | exit handlers, readiness watches, shutdown | nothing starts before what it needs; no lost wake-up; it ends with shutdown |
| shutdown (`main.rs` 441-575, `stop_all`) | `shutting_down`, tiers | flag, stop, join the start order, stop again, release goldens, flush, exit | all | ends; dependents go first; no child is left |
| probes (`probes.rs`, 228-430, 1004-1019) | counters, `ready`, `liveness_failures`, passed runs | startup, liveness, readiness; SIGTERM, grace, SIGKILL | monitor, exit handler, start order | a signal reaches only the run that failed; readiness is this run's |
| `restart_and_wait`, `health_of` (1354-1428) | run number | wait for a run to be healthy | API health, probes | says "healthy" of the run it started |
| API health (`apihealth.rs`) | windows, states, state file | `record`, `classify`, `publish` | probes | the file left last is the newest |
| updater (`updater.rs`) | rootfs directories, record file, digests | `poll_loop`, `trigger_update`, `pivot` | supervisor, disk | a crash at any point leaves a startable rootfs; the record matches it |
| goldens (`goldens.rs`, `swap_golden`) | attaches, mounts | present, release, swap, release all | supervisor, storage engine | no attach leaks; what is presented is what is mounted |
| log files (`crates/stormlog`: `file.rs`, `store.rs`, `lib.rs`) | writers, failing state, run ids, reader tasks | `write`, rotate, `take_file`, `archive_run`, `prune` | exit handlers, readers | every line is in its run's file or counted as lost |
| multicast gate, streams, terminal | token buckets, channels, screens | send, publish, feed | writers, consoles | bounded rate, no blocking |
| reaper (`reaper.rs`) | first-seen times | scan, reap | the runtime's own wait | orphans go, supervised statuses stay |
| cron (`cron.rs`) | fire times, `running` | fire, execute, shut down | log, events | a job never overlaps itself and never stops firing |
| TLS, token (`tls.rs`, `auth.rs`) | stamps, cached pairs and tokens | reload when asked | files, handshakes, requests | what is served is what is on disk, in the end |
| cloud identity (`cloudid.rs`, logins) | token, keys | fetch every 30 s, compare | metadata service, logins | a key served all the while logs in; a withdrawn one does not |
| node variables (`nodevars.rs`) | none; three looks at the node | wait, expand | start order, spawn | nothing is started with a name left in it |
| Kubernetes-shaped events (`k8sevents.rs`) | bounded list, sequence | add, since | supervisor, publisher | a change is visible after its `seq`; each is counted once |
| locks and stdin (`supervisor.rs` 1276-1347, 1560-1600) | the table's lock, each process's, a channel of 64 lines | every call | all callers, child | no call waits for another that waits for it |
| SSH shell (`ssh.rs`, `shell/`) | line, screen; files | keys, Tab, applets, pipes | SFTP | what is shown is what runs; a status of 0 means done |
| SFTP (`sftp.rs`) | handles | file requests | the shell's commands | an open file is still the one opened |
| WebSocket (`ws.rs`, `stream.rs`, `terminal.rs`) | broadcast channels, screens | subscribe, send, lag | readers of a run | each line is seen or its loss told |
| event bus, config, API, stats, components, backup, web UI, stormsh | | parsing, views and requests | | |

`PROJECT.json` lists every component with its status and every hazard with the
line where it bites and the properties that watch it.

## Modules

| Module | What it is |
|---|---|
| `Supervisor` | one process's record and every task that writes it |
| `MCSupervisor` | its instances for TLC |
| `SupervisorProofs` | theorems about it |
| `StartOrder` | several processes: start order, wake-ups, tiers, shutdown |
| `MCStartOrder` | its instances for TLC |
| `StartOrderProofs` | theorems about it |
| `ImageStore` | what the updater promises of an image process's rootfs |
| `Updater` | the image updater for one process, on a disk that outlives stormd; implements `ImageStore` |
| `MCUpdater` | its instances for TLC |
| `UpdaterProofs` | theorems about `Updater`, with the refinement of `ImageStore` |
| `Probes` | the probe tasks of every run of one process |
| `MCProbes` | its instance for TLC |
| `ProbesProofs` | theorems about `Probes` |
| `Goldens` | one golden: present, swap, release, an engine that fails |
| `RunLog` | the log files of a process: rotation, runs, pruning, failing writes |
| `Reaper` | zombies, their owners and the reaper |
| `Cron` | the scheduler and the runs of its jobs |
| `Reload` | a certificate, CAs or a token, reloaded while they are rewritten |
| `Keys` | SSH keys from a file and from a metadata service |
| `NodeVars` | `${NODE_IP}` and its kind in what a process is started with |
| `K8sEvents` | the bounded, counted list of events |
| `ApiHealth` | the API health of several processes and its one state file |
| `Files` | the shell's file commands and an SFTP session on one tree |
| `Applets` | the shell's text commands and pipes |
| `Standalone` | the choice of an applet called by its own name between a file and stdin |
| `Follow` | a run's readers, its terminal and the WebSocket followers |
| `Locks` | the supervisor's two levels of locks, and `send_stdin` |
| `LineEditor` | the line of an SSH session, as typed, shown and completed |
| `MCServices` | one instance for TLC of the fifteen models above it, from `Goldens` on |
| `NodeProofs` | theorems about `Reaper`, `Cron`, `Reload`, `Keys` and `NodeVars` |
| `StorageProofs` | theorems about `Goldens`, `RunLog` and `Files`, and lemmas about sums |
| `ShellProofs` | theorems about `Standalone` and `LineEditor` |
| `EventsProofs` | theorems about `ApiHealth`, `K8sEvents`, `Follow` and `Locks` |
| `MCLocks` | an instance of `Locks` with one process |

`StartOrder` relies on what `Supervisor` shows: with no API start or restart a
process has one owner at a time (`OwnerInv`), so it keeps one place per process
where `Supervisor` keeps one per task.

### Supervisor

A *run* is one spawn. Runs are numbered by `ManagedProcess.run`, and the model
names children, pids and kill handles by their run, since each run has one of
each. `child`, `monitor` and `pc` are the processes and tasks; `state`, `pid`,
`run`, `kill_tx`, `in_window` are the record. Every action is what a task does
between two places where it unlocks the record or awaits:

| Actions | Code |
|---|---|
| `SpawnCheck`, `SpawnFork`, `SpawnRecord`, `SpawnArm` | `spawn_process`: the shutdown check; Starting, the run and the fork, which may fail; Running with the pid; the kill handle and the monitor |
| `ChildExits`, `MonitorSeesExit`, `MonitorTakesKill`, `MonitorStopped` | the child; the monitor's select; `stop_child` and the record it writes |
| `ExitRecorded`, `ExitChecked`, `ExitDecided` | `handle_exit`: the record, the shutdown check, `archive_run` and the table |
| `CoolOffEnds`, `RestartFailed` | the delay and `stand_down`; a respawn that failed |
| `WindowPasses` | restarts falling out of `restart_window_secs` |
| `ApiStart`, `ApiStop`, `ApiRestart`, `RestartGoesOn` | `start_process`, `stop_process`, `restart_process`, `wait_stopped` |
| `ShutdownBegins`, `StopAll`, `StopAllReturns`, `StopAgain` | main's shutdown for a container of this process |

`Decision` is the table of README.md:584-592 as `handle_exit` has it. A
dropped kill handle resolves the monitor's `kill_rx` like a used one
(`KillRequested`): storing a second run's handle therefore stops the first run.
Exit codes are three classes (`Exits`). Times are gone: a deadline may pass
whenever nothing is being stopped (`~KillInFlight`), since SIGKILL lands well
within `STOP_SLACK_SECS`.

`overlap` is a history variable: a start or restart was let in while the process
had an owner. `start_process` refuses only Running, and `restart_process` waits
only from Running, so a caller can do that; most invariants say what holds until
somebody does, and `restart_overlap` shows that it happens. `Owners` is who is
responsible for the process's next move.

### StartOrder

`boot`, `at` and `dep` are where `start_all` is. `DepLoop` registers for the
next change (`Listening`), `DepCheck` looks at the dependency, `DepWait` begins
the wait, `DepWake` ends it by a wake-up or the one-second poll. `owed` are the
processes whose record has changed and whose `notify_waiters` is still to come:
the change and the notification are two steps everywhere. A stop by request
(`MonitorStopped`) and the end of `start_all`'s own failure notify nobody.
`stage` is the place of a process's one owner, `watch` its readiness watch.
`Outcomes` leaves the restart table open: any outcome the policies could give.
`Depth`, `Tier` and `Deepest` are `stop_tiers`, with the budget that ends a
cycle; of a cycle `stop_tiers`, which remembers the depths it has found, may make
other tiers. A configuration is a `layout`: dependencies (any, as `config.rs` accepts
them, later processes and cycles included), one-shots, probed and restarted
processes, a one-shot that is restarted after its exit 0 among them. A
`readiness_probe` that fails again later is left to the probe
model; node values, files and goldens are `FilesReady`.

`by_hand`, `finished`, `proven` and `missed` are history variables. `missed` is of one
`stop_all`: the processes it has passed whose monitor it could not reach, being
forked at the time or not having stored their kill handle yet.

### Updater

The disk is four variables: the directories `current`, `new` and `old`, each the
set of image layers that have been unpacked into it (or `Missing`), and the
`record` beside them, with the image its command came from and its digest. An
image, its command and its digest are one number, and `latest` is the one the tag
points to. `digest` is `ImageState.current_digest`; `pc` and `mine` are where each
task is in `do_update` and what it holds. Of the supervisor there is the process
as its callers see it (`proc`: down, up, stopping), what its child was started
from, and the exit handler that will spawn it again (`Respawn`).

| Actions | Code (`updater.rs`) |
|---|---|
| `Boot`, `Resume`, `Restart` | the start of the process by `poll_loop`: `start_recorded`, or a pull |
| `PollWakes`, `PollCheck`, `PollCompare`, `Trigger` | a poll, `check_digest`; `trigger_update` |
| `Pull`, `Clear`, `Unpack` | `pull_and_assemble`, file by file, so that it can end half done |
| `Stop`, `Wait`, `Sweep`, `Retire`, `Place`, `Config`, `Start` | `pivot` |
| `Digest`, `Record`, `Done` | the rest of `do_update` |
| `Clean` | the background removal of `.old` |
| `StormdRestarts`, `Push`, `Fault` | the end and the next start of stormd; the tag moves; one request, file operation or spawn fails |

Two updates of one process can overlap, and an exit handler can spawn during a
pivot; nothing in the code keeps them apart, and nothing is promised of the
result. `shared` is set when that happens, and the run stops there (`NotShared`):
its properties are of the updater while one task at a time updates the process.
It is set too when `wait_stopped` comes to its deadline with the process still
Stopping, as the pivot then goes on beside the old run. A client that goes away in the middle of its trigger, which drops the update at
any await, is not in the model.

`ImageStore` is the promise: the rootfs is a whole image or nothing, is taken
away and put in place only while the process is down, and only a rootfs that is
there is run. The refinement mapping reads `rootfs` off the `current` directory
(-1, which `ImageStore` never has, for half an image) and `up` off `proc`.

### Probes

`checks` is what the process's config has (`Kinds`), `pc` and `counter` each probe
task of each run, `state`, `pid`, `run`, `ready` and the two `passed_run` fields the
record. A run begins when the last one is over; starts that overlap are
`Supervisor`'s. A task sleeps, looks whether the run is still its own (`Look`), is
answered by whoever has the port (`Answer`, which may be a child of another run),
and then writes the record under its lock: `StartupPassed`, `StartupFailed`,
`LivenessRecorded`, `ReadinessRecorded`, `ReadyRecorded`, `ApiRecorded`. `Term` and
`Kill` are `stop_run`'s two signals; between them the run may end and another
begin. `api` is the health of the one API the process serves, which is kept across
runs. The history variable `good` is what this run's own child has passed.

Because `api` survives a restart, a new run that does not answer at first may be
ended for the time its predecessor spent stalled (config.rs:67-68 and
README.md:1098 speak of the API, not of the run). It is in `ApiRecorded`, and no
property rules it out.

### Goldens

`path` is what is at the presented path, the last mount on top; `attached` what the
engine has attached for us; `presented` the map's entry. The start order, each
swap and the exit are tasks (`g_pc`), with a step per call: `Attach`, `Place`,
`Note` are `present`; `Take`, `Undo`, `Unmounted` are `release`. The engine refuses,
or does as asked and its answer is lost; a mount may be busy. `trouble` says which
of these has happened, or that two tasks were at it at once (`overlap`), which
nothing in the code keeps apart; each property is about the histories without the
trouble that breaks it.

### RunLog

A file is a sequence of lines and of notes of missing lines. `FileLogger::write`
rotates, appends, or fails and counts (`failing`); `archive_run` closes the run's
file under the run's name once the readers are done or five seconds are over
(`readers` may then still hold the last run's id); `prune_runs` keeps the newest
`KeepRuns`. The run id is the clock, which may not have moved since the last run, so
that a closed run can replace another (`gone`). `FilesAsked` is the choice
`LogStore::query` makes. A process whose name is another's, a dot and more
(`Dotted`) would have its files pruned with the other's; config.rs:670-680 does not
refuse such names, and the instance has none.

### Reaper, Cron, Reload, Keys, NodeVars, K8sEvents, ApiHealth

- `Reaper`: a child is owned or an orphan, alive or a zombie; an owner reaps within
  `Waiter`, the reaper after `Grace` of having seen the zombie in every scan. Pids
  are used again. Where /proc cannot be read the reaper waits for any child.
- `Cron`: the loop looks, claims one job after the other, sleeps until the next
  fire time; each run of a job is a task that spawns, waits or times out, and
  records. `fires` and `skips` count what has come of every fire time.
- `Reload`: an asker takes the stamps of the files, then the lock, and reads both
  files one after the other, while they are rewritten or cannot be opened. One
  module for the three caches, which differ in what they try again (`Retried`).
- `Keys`: a fetch gets the index, then an entry at a time, with a token that may
  have lapsed before any of its requests (`TokenLapses`, `TokenStale`), from a service
  that restarts, fails and changes. A refused entry is passed over, a refused index
  leaves the store as it is (`IndexRefused`). `during` is the history of the fetch that
  goes on, `told` of what the store owes to those that are over.
- `NodeVars`: the wait for files, the wait for the node's values, the spawn's check
  and its filling in are four looks, between which the address comes and goes. A
  text is a sequence of pieces; `Expand` and `ArgsVars` are the expansion.
- `K8sEvents`: events are said, counted and dropped, and a publisher asks for what
  has changed. A restart of stormd, which begins `seq` at 0 again while a publisher
  that goes on has its old one, is not in the model.
- `ApiHealth`: `Record` is `ApiHealthStore::record` with its window and `Classify`;
  then the task publishes: lock, list, write the temporary name, rename, of which the
  disk may refuse the last two (`PublishFails`; `io_failed` is its history).

### Files, Applets, Standalone, LineEditor

- `Files`: an inode table and directories two levels deep. The shell's commands
  look and act in two steps (`CmdRmLooks`, `CmdRmActs`), and SFTP requests come
  between. A command's promise is kept in `answer` until the next step, and checked
  there. What only lists (`ls`, `find`, `du`, `test`) are operators on the tree; names
  may begin with a dot (`Hidden`), and a directory has a length (`DirLength`), as
  `test -s` asks for that of anything.
- `Applets`: text as lines of bytes. `Pipe` runs one command on what the last left,
  as `execute_command` does; every option that changes what is computed is in
  `Commands`. `AppletsRight` compares with definitions that are not the code's: a
  sort is an ordered permutation, `uniq` keeps the firsts, and so on.
- `Standalone`: `Invoke` is one call of an applet by its own name: `wants_stdin`
  decides from the arguments whether to wait for stdin (`WantsStdin`), and the applet's
  own loop over them what it reads (`Source`). Arguments are flags, words and "-".
- `LineEditor`: one step per key or chunk of bytes; `Completions` is the search, of
  commands, systemctl's subcommands, processes and paths, `shown` what stands after the
  prompt on the user's screen. A character outside ASCII (`Wide`) shows as itself, and
  each of its bytes becomes a character of the line (`LatinOf`).

### Follow and Locks

`Follow` has the two readers of a run, the screen, the broadcast channel with its
capacity, and followers that subscribe, take the screen and then the lines; a slow
one is told how many it has missed (`Lagged`). `Locks` has the calls of the
supervisor as the locks they take: the table's, whose waiting writer holds back new
readers, and a process's. `send_stdin` keeps both while it waits for room;
`stop_process` keeps the process's while it waits for the webhook's answer
(`StopSent`, `Answered`); `stop_all` keeps the table for the processes of one tier
and takes it again for the next (`Released`).

### MCServices

The fifteen modules share no variable, so one run checks them all: `part` chooses
one, and the others stay in a fixed initial state (`OthersRest`). A state of the
sum is a state of one part beside constants, and every behaviour of the part under
its own specification is one of the sum: an invariant of the sum is an invariant of
each part. It is one question per part, and none about how they interact, which
they do not.

## Runs

| Run | Instance | Shows |
|---|---|---|
| `supervisor_safety` | 2 callers, 3 runs, 4 configurations | `OneChild`, `StatusTruthful`, `BackOffHasHandler`, `RestartBudget`, `DownStaysDown` |
| `supervisor_liveness` | 1 caller, 3 runs | `ShutdownExits`, `FailureExits`, `RestartResolves` |
| `restart_overlap` | restarts only | `OldRunGoneFirst` **fails** |
| `requested_stop` | stops only | `RequestedStopStays` **fails** |
| `orphan` | no caller's operation | `ChildrenGoneFirst` **fails** |
| `start_order` | 3 processes, 2 runs each, 2 layouts, a one-shot that is restarted in one of them, the third may be stopped by hand | `DependenciesMet`, `NoLostWakeup`, `NoneLeftBehind`, `DependentsGoneFirst`, `ShutdownExits` |
| `hand_stop` | the same, the first may be stopped by hand | `HandStopNeverSatisfies` **fails** |
| `updater` | 2 images of 2 layers, the poll loop and one trigger, 2 pushes, 1 fault, 1 restart of stormd, 1 exit of the child | `ChildFits`, `RecordFits`, `KeepsImage`, `KeepsPromise`, `Settles` |
| `updater_digest` | the poll loop alone, 1 push, no failure | `NewerIsPulled` **fails** |
| `probes` | 2 runs, 4 sets of probes, thresholds of 2, one turn of the process's health | `ReadyEarned`, `HealthyTruthful`, `StuckIsEnded`, `FoundHealthy` |
| `services` | the fifteen parts, each with small constants of its own | `StatusKept` (`Reaper`), `OneRunPerJob` (`Cron`), `ServesNewest` (`Reload`), `GoldenServed`, `RunsWithGolden`, `NothingLeft` (`Goldens`), `LinesAccounted`, `NewestRunsKept` (`RunLog`), `DoneAsSaid` (`Files`), `AppletsRight` (`Applets`), `NoNeedlessWait` (`Standalone`), `SeenOrTold` (`Follow`), `OnlyOutsidersBlock` (`Locks`), `KeysCurrent` (`Keys`), `FilledAlike` (`NodeVars`), `CountedAndTold` (`K8sEvents`), `FileIsNewest` (`ApiHealth`), `LineIsSeen` (`LineEditor`) |
| `stdin_wedge` | 2 callers, 1 process whose child may be deaf | `StopLands` **fails** |

**Bounds.** Three runs are a first one, its restart, and one more that a second
restart or an early start puts beside it; two callers can both be let in. Past
`MaxRuns` a fork fails, as forks may. The four configurations
reach every row of the table, with `max_restarts` 1 so that the limit is hit.
The two callers are symmetric in the safety run; the liveness run uses none of
that symmetry. Three processes in `StartOrder` are the least that give a process
two dependencies and shutdown three tiers; two runs are a first run and a
restart. `Chain` is a one-shot, a probed service that needs it and a service
that needs both; `Forward` has a dependency on a later process, which the start
order can never satisfy, and a probed one-shot that is restarted. `Hands` are the processes that may be stopped by hand: in
`start_order` the one nothing depends on, since a stop of a dependency is
`hand_stop`. The runs switch off TLC's deadlock check, because
stormd exits.

In `updater`, two layers are the least that let an unpacking end half done; two
images the least that can be mixed up; two pushes bring a tag back to where it
was; one fault and one restart of stormd, in either order, are two accidents in
one history. `KeepsImage` is of one accident: a second one between the two
renames, or while what an aborted pivot left behind is swept away, can take the
last image (the next poll pulls it again, if the registry is there). It also
excludes a cleanup of `.old` that is still running when the next update moves the
rootfs there (`late`).

In `probes`, two runs are the least in which a task of one can write of the other;
thresholds of two tell a count from a single answer; the process sickens or
recovers once, so that it rests. `StallLimit` is one tick.

In `services`: two pids that are used again, a grace of two scans; two jobs, one that
fires twice as often as the other, and a timeout longer than the gap; two askers and
two writes of each file; two volumes and one swap beside the start and the exit;
files of two lines, one rotated file, one run kept, two seconds for up to four
lines; three inodes, two names, one of them hidden, files and directories of one byte; texts of up to three lines of
seven kinds and pipes of two commands; calls of up to three arguments (a flag with its
value, a word, and "-"); one follower, a channel of two and three
entries, so that it lags; two callers of two processes, with a pipe and a channel of
one line; two keys, of which one does not parse, and one restart of the metadata
service beside any number of its failures and of lapses of the token; three things to
say, two kept; two APIs with two checks each and one write that the disk refuses; lines
of up to four characters typed, four of ASCII and one that is two characters to the
line, and what Tab adds to them. Each is the least in which the hazard in `PROJECT.json` can happen, as the
change of the model that breaks each property shows. `MaxRunLines`, `MaxSeconds`,
`MaxTime`, `MaxVersion`, `MaxEntries`, `MaxSeq`, `MaxChecks`, `MaxRefused`, `MaxTyped`, `MaxEpoch`,
`MaxHandles` and `MaxLength` bound what otherwise only grows; `MaxLines`, `MaxPipes` and
`MaxArgs` bound what is given in one call.

**Fairness.** Tasks are polled (`WF` of the spawn, monitor, handler and start
order steps), timers fire (the delay, the failure poll, the one-second poll of a
dependency wait, the deadlines), and a child that was sent SIGKILL dies. A child
need not end by itself, nobody need make a request, a signal need not come, a
dependency need not be met, files need not appear: `FilesReady` is fair only
once shutdown has begun, as `wait_for_files` and the others then return.
`Supervisor`'s process uses no `${NODE_*}`, whose wait may last as long as it
likes before shutdown. Main's watchdog thread, which would end stormd even if
the runtime were stuck, is not used.

In `Updater` the poll loop and every update that has begun go on, and a child
that is being stopped ends. The tag rests after its last push and faults are
finitely many; nobody need ask for an update by hand. `Settles` says that the
counted digest then becomes the registry's. That the process is up as well, with the
command of the rootfs it runs in, is said of a history without a trigger, an exit of the child or a second push
(`Steady`): an update that fails after the stop is made again by the next poll
only if the registry's digest is not the one that counts as current already, so
a failed update of that very image leaves the process down. Of a pivot that was
cut off from its record it is `Settles` alone that speaks: `ChildFits` and `RecordFits`
except it (`cut`), since the next stormd does run the old command in the new rootfs,
and `Settles` says that it does not last.

In `Probes` the probe tasks, monitors and exit handlers are polled and a stalled
API's time goes on; nothing makes a child end, a stop come, a process start, sicken
or recover. `StuckIsEnded` therefore is stormd's doing alone. In `Locks` a call that
can go on does, and a lock or a place in the channel that is free again and again
is had in the end (`SF`: tokio's locks are handed over in the order they were asked
for); a child that reads goes on reading, and the webhook's server answers.

### What the failing runs show

- **`restart_overlap`**: README.md:579-580, "A restart and the updater wait for
  the old run to be gone before starting the new one". `restart_process` waits
  only if the process is Running. During a restart delay it spawns at once, and
  the exit handler spawns again when the delay ends: two children, the first
  with a monitor whose handle the second spawn drops.
- **`requested_stop`**: README.md:578-579, "A requested stop is never
  restarted". Between a child's own exit and the decision of its handler
  (`archive_run` can take seconds) the record still says Running. A stop is
  accepted, and the process restarted.
- **`orphan`**: supervisor.rs:1466-1468, "so the children are gone before stormd
  is". The shutdown flag is read before the fork and not after it, and main
  waits for the start order alone, not for exit handlers.
- **`hand_stop`**: README.md:566-568, a one-shot "stopped by hand never
  satisfies". With SIGTERM first it may exit 0, and is then taken for finished.

- **`updater_digest`**: README.md:1034-1036, "The record's digest counts as the
  current one, so if the registry has something newer the first poll pulls it".
  `do_update` does not record the digest of the manifest it pulled but asks the
  registry for the tag's digest after the pivot. An image pushed in between is
  recorded as the one in place, no poll sees a difference, and it is not pulled
  until the tag moves again.
- **`stdin_wedge`**: supervisor.rs:1767, a stop is "SIGTERM, up to `timeout` for it
  to exit, then SIGKILL". `send_stdin` holds the table and the process's lock while
  it waits for room in the channel to a child's stdin (supervisor.rs:1332-1347). If
  the child does not read, the stop that would end it waits for that lock, and so
  does shutdown. With a pipe and a channel of one line each it is the third line that
  waits. `OnlyOutsidersBlock` shows that the locks themselves never wait in a circle:
  at the end of every chain of waits is a call that can go on, a send to such a child,
  or a stop that waits for the webhook's answer.

### Other differences met

Written into the models as the code has them, and in no run of their own:

- `LogStore::query` with a run id answers with the live file's lines too, and never
  with a rotated file's (store.rs:225-232; types.rs:118, "Filter to a specific run").
- Tab after a path directly under "/" adds a slash too many, since "/" is a
  directory's name that ends in one already (shell/mod.rs:711); a Tab after a blank
  goes on with the word before it; a name with two slashes in a row can be cut at the
  wrong place; "d/a/" is completed with the names beside d, and a name with a blank in it
  becomes two words. `PlainWord` in `LineEditor` leaves these out of the promise. What follows
  Enter or Ctrl-C in one chunk of pasted bytes is dropped (ssh.rs:352, 366).
- `grep -e x`, `cut -d : -f 1`, `head -c 5` take an option's value for a file or a
  count of lines, so that `head -c 5` waits for stdin and then reads a file "5"
  (`Misread` in `Standalone`); a last `-f` of cut with nothing behind it names no field;
  `sort -rn` after `uniq -c` compares every line as 0, as the count and the text are one
  word to it; `cut -f2-` is field 2 alone.
- An attach whose answer is lost, or a swap that is asked for while another goes on,
  leaves a volume attached that nobody releases (`trouble` in `Goldens`).
- wait_for_files fills its paths in before the wait for the node's values
  (supervisor.rs:726): with no address yet it waits for a name with `${NODE_IP}` in
  it (`FilesNamed`).
- A stormd that ends between a pivot and its record, or cannot write it
  (updater.rs:376-394, 523), starts the old record's command in the new rootfs
  (607-611), until the first poll has pulled the image again (`cut` in `Updater`).
- `stop_process` awaits the webhook, which has no deadline, under the process's lock
  (supervisor.rs:1284-1296, events.rs:149): a server that does not answer keeps every
  other call from the process (`Answered` in `Locks`).
- A character outside ASCII typed at the SSH shell is pushed into the line as one
  Latin-1 character for each of its bytes (ssh.rs:403, `byte as char`) and echoed as it
  is: what runs is not what is shown, and a backspace takes one of them from the line
  and a whole one from the screen (`WideTyped` in `LineEditor`).
- "-" is an operand to `wants_stdin` (shell/mod.rs:561) and a flag or nothing to the
  applets, so that `sort -` is not given the stdin that it would read, and fails (`Dashes` in
  `Standalone`).
- README.md:657-659, a process "is never spawned with one of these two left unexpanded".
  A spawn looks at the node once to see that nothing is missing (supervisor.rs:816) and
  again, after it has waited for the record, for what it fills in (841): an address that
  goes in between leaves `${NODE_IP}` in the argument (`unturned` in `NodeVars`). And with
  K="${" in its environment and the argument `${K}NODE_IP}` a process is started with
  `${NODE_IP}`: what has been filled in is not looked at again with what it then stands
  beside (`ClosedText`).

## Proofs

All by TLAPS, for every value of the constants that meets the modules'
assumptions.

`SupervisorProofs` proves `TypeCorrect`, `OwnerInvCorrect`, `OneChildCorrect`,
`StatusTruthfulCorrect`, `BackOffHasHandlerCorrect`, `RestartBudgetCorrect` and
`DownStaysDownCorrect`. `OneChild` alone is not inductive: that two children are not
up together follows from who may fork. `OwnerInv` is `TypeOK`, `Structure` and
`Ownership`. `Structure` holds in every state: a run being spawned is below the
counter, unmonitored and its spawner's alone; an exit handler exists only after
its run's monitor is done; later runs are untouched; a live child is monitored or
being spawned. `Ownership` says that until `overlap` there is at most one owner.
Each group of actions (quiet ones, the fork, the arming, the monitor) has its
lemma for `Structure`; ownership either stays with the same owners
(`OwnersFrame`), goes from one owner to the next (`Handover`: monitor to exit
handler, spawner to monitor), or is broken by a caller, who sets `overlap`
(`LetInOwnership`). The other four follow from `RecordInv`, which adds to `OwnerInv`
what the record shows while there is one owner: where that owner stands fixes the
pid, the state and the kill handle (`RecordShows`), a delay has its handler
(`DelayHandled`), and the restarts in the window are no more than the handler that
is past its check has counted (`WithinBudget`), since only it stamps another.

`StartOrderProofs` proves `OrderInvCorrect`, `DependenciesMetCorrect` and
`NoLostWakeupCorrect`, for any number of processes, any dependencies (cycles
included), one-shots and probes. `DependenciesMet` is not inductive: it holds
because start_all is where its waits allow (`BootProgress`), because what a
record shows of a dependency was earned by one of its runs (`RecordEarned`), and
because an exit code 0 that was not earned needs a stop, which somebody asked for
(`StopAsked`). What is met stays met (`MetStays`), as the history only grows
(`Grows`). `NoLostWakeup` needs the moment before the wait as well, between the
check and the release of the records (`ChangeOwed`): a dependency becomes
satisfied only by a step that owes a notification, or by the end of a stop
(`SatisfiedIsOwed`).

For shutdown it proves `ShutdownInvCorrect`, `NoneLeftBehindCorrect` and
`DependentsGoneFirstCorrect`. `ShutdownInv` follows a `stop_all` through its tiers:
what is deeper than the tier it is at is gone, what has been signalled in this one is
gone or has a monitor that was told (`TiersDone`), and who is being stopped is marked
so, which is what `TierGone` waits for (`StopMarked`). Both have the exception of
`missed`. The last `stop_all` comes after the end of the start order, so no process is
then in a first run whose kill handle is not stored (`FirstRunsReached`), and what
`NoneLeftBehind` excepts is a respawn, or a process whose stop by hand was lost. A process that is gone cannot come back while shutdown goes on, or it is
`missed` (`HaltStep`). `DependentsGoneFirst` also needs that a process is deeper than
what it depends on (`DependentsDeeper`). With a cycle that is false, and the budget of
`depth` ends the count, as in `stop_tiers`; the theorem therefore assumes of each
layout that the processes can be put in an order in which each comes after its
dependencies (`Ranked`). config.rs does not refuse a cycle, and for one the property
could not hold whatever the code did. The other two theorems need no such order.

`UpdaterProofs` proves `UpdaterInvCorrect`, `ChildFitsCorrect`,
`RecordFitsCorrect` and `KeepsPromiseCorrect`, for any images and layers, any
number of requests by hand and any bounds on pushes, failures, exits and restarts
of stormd. `ChildFits` and `RecordFits` are not inductive: that a pivot's image is
whole when it is placed, and the process down when it is, follows from what the
updating task holds. `UpdaterInv` says it of all tasks; the proof works with
`ViewInv`, the same facts as the one task sees that may be busy (`Alone(t)`,
`At(t)`), so that each step of an update has one lemma (`ClearKeeps` to
`DoneKeeps`) and the start of one is where another task's view becomes its own
(`AtShifts`, `UpdateBegins`). All of it ends at `shared`, as the properties do.
`KeepsPromise` is the refinement: every step of the updater changes the
directory and the process in one of the ways listed in `StoreSteps`, and each of
these is a step of `ImageStore` or none (`StoreStep`). `KeepsImageCorrect` takes
`ImageLeft` beside `UpdaterInv`: while there is no rootfs in place, the old one is in
`.old`; after one accident it still is, until the next update sweeps it with `.new`
already whole. Accidents only add up (`Onward`), so that each one allowed is the last.

`ProbesProofs` proves `ReadyEarnedCorrect` and `HealthyTruthfulCorrect`. Probe tasks
of older runs are still about and share the record with the current run's. `OneRun`
says that the monitor, the exit and the child are the current run's all the same, and
`PassesEarned` that a pass about to be recorded for the current run, or recorded for
it, is its own child's.

`NodeProofs` proves `StatusKept` of `Reaper`. The Tracker knows a pid only by its
number: `Remembered` says that the clock kept for a pid is never older than the zombie
it was started for, although pids are used again, and `OwnersInTime` that an owned
zombie is no older than its owner needs. With `Waiter < Grace` what is due is then
nobody's (`DueIsOrphan`). Of `Cron` it proves `OneRunPerJob`: with the types of the
counters and `ClaimedFirst` (the loop looks again only when all it found is started) it
is inductive, job by job (`JobCounted`).

Of `Reload` it proves `ServesNewest`. Two askers may have stamps of
different times and store one after the other; that this is harmless needs `NoneNewer`
(stamps only grow), `OneReads` (the lock covers both files), `ReadWhole` and
`ServedIsStamped` (what is stored under stamps that are still the files' is what
they hold). A write makes all of it vacuous for stamps taken before
(`WriteKeeps`). It assumes that a file's stamp changes with its contents. Of `Keys` it
proves `KeysCurrent`: a key that was served since the fetch began has been got, or its
entry is still on the list (`GotOrLeft`); that the list is not given up on a stale
token is `RefusedOnce`, since the one renewal gives the service's own token. When the
service failed under the fetch, or restarted twice under one request, the keys of the
entries it refused are excepted (`Owed`); when it refused the index, the store still
has what the last good fetch promised (`StoreTold`).

Of `NodeVars` it proves `FilledAlike`, for any arguments and values: `NodeVarsInv` says that
what the spawn looked at is whole while the node has not turned, and that what a process
was started with comes from one look (`GivenBy`). The rest is about `Expand`, by induction
on the positions of a text: what is put together of texts without a `${NODE_*}` has none
(`CleanJoin`), if the first has no "${" left open (`ExpandCloses`); and whoever knows more
names leaves no more unexpanded (`MoreNames`).

`StorageProofs` proves the three properties of `Goldens`. Until two tasks overlap one of
them works at a time (`OneAtATime`), and each place of its program says what is at the
path, attached and in the map (`AtStep`), whichever steps failed on the way; while a swap
put back what it took, also which golden that is (`ByName`). `ExitLeaves` is what is
left when stormd exits. Of `RunLog` it proves `NewestRunsKept`, from what ties a closed
run's file to its process and its id (`RunsTyped`), and `LinesAccounted`, from
`Balanced`: in every state and for every process the lines written are the lines in its
files and those in the three counts. How many lines some files stand for is a sum over
a set, which the community modules define by recursion; `SumIs` shows that the function
exists and takes the sum apart, and from there `Rotation` (file n is file n - 1 of
before, down to the live one), `FilesGo` (pruning) and `TakeFileLines` count. `Balanced`
holds for all processes. The two properties have the hypothesis `Dotted = {}`: where a
process's name is another's, a dot and more, pruning takes the other's runs for its own
and a query finds the other's lines, so they are false. It is what the instance has too.

Of `Files` it proves `DoneAsSaid`, for any names and inodes, however many links and
directories. `AnswerInv` has the types of the disk (`DiskTyped`: each link leads to a name,
the root is a directory) and the answer itself. A path is resolved by following links, as
often as there are inodes; `Led` is that walk (`LedWalk`), and a step that changes one entry
leaves every walk as it was which does not come by there (`SameWalk`, `Unmoved`). From there
each call has what is true of the disk it leaves: `RemovedTrue`, `WriteTrue`, `MkdirTrue`,
`RenamedTrue`. That du and find agree (`SizesAgree`) is `LevelsAgree`: level by level of the
tree, what is found adds up to what is added, since names of different entries are different
(`SumParts`, `SumImage`). It does not matter that the files are the same ones: both count a
file once for each name. find goes twenty directories down and gives ten thousand entries
(file.rs:579, 614); the property speaks of trees within that.

`ShellProofs` proves `NoNeedlessWait` of `Standalone` for calls of any length: where the two
loops skip the same flags' values they come to the same words (`LoopsAgree`), and each applet
then has its case (`CallIsServed`). Of `LineEditor` it proves `LineIsSeen` for any commands,
names and directories: `TerminalInv` says that a terminal holds a line of characters and shows
it, unless one outside ASCII was typed, and that a completed word is the name it stood for; it is carried by every key (`KeySeen`).
That a completion is what goes after the part typed (`GoesOn`), and that the last word of the
new line is then that name (`LineEndsInName`), is about the last blank and the last slash in a
sequence (`LastWord`, `PathIsPrefix`).

`EventsProofs` proves `FileIsNewest` of `ApiHealth`: publishing has one owner
(`LockHeld`), and what that task has listed is still right of every API whose own task
has nothing left to publish (`ListedRight`); an API whose write the disk refused is
excepted until the next that it takes. Of `K8sEvents` it proves `CountedAndTold`:
there is one event of each thing said (`OneEach`), so that what is dropped and what is
kept add up (`K8sCounted`), and what the publisher has not had is newer than its last
answer (`K8sTold`). Of `Follow`, `SeenOrTold`: a line is fed to the screen before it is
published (`FedFirst`), a viewer's place is between its subscription and the end
(`InPlace`), and the entries it was moved past are no more than it was told
(`MissedCounted`). Of `Locks`, `OnlyOutsidersBlock`: a lock's holder is a call at the
place where it holds it (`LocksHeld`), so whoever a call waits for is nearer its end than
the call is (`Distance`), and no chain of waits comes back to where it began. What a
send waits for is said with the guards themselves (`CanSend`, `ChildCanGoOn`).

**Induction.** The installed provers cannot use the library's induction rules, whose
parameter is an operator. Where a proof needs an induction it takes the least
counterexample instead: that `<` is well founded on Nat, and that a set that is not empty
has a minimal element, are theorems of the library about sets (`Least`, `LeastOf`,
`SmallestSet`). A recursive function is shown to exist by the least argument at
which it would not (`DepthExists`, `SumsExist`, `SkipExists`, `Iterates`).

**Assumptions.** Each is an `ASSUME` of the module that declares the constants. `Files`: the
names and inodes are finite in number, as those of a disk are, and a file may be a byte long.
`NodeVars` and `LineEditor`: texts and names are sequences of strings, the ones typed include
the blank and the slash, and the commands that take something are commands. `Standalone`: the
bound on arguments is a number.

Only model-checked: `AppletsRight`. It is about what recursive folds compute over lines,
and it is a statement of the instance, whose counts have one digit. All liveness properties
(`ShutdownExits`, `FailureExits`, `RestartResolves`, `Settles`, `StuckIsEnded`, `FoundHealthy`)
need fairness and ENABLED, and stay with TLC too.

## Not modelled

Real time and its budgets (`cooloff`, `backoff`, `shutdown_budget`, the watchdog);
the contents of events and the webhook they are posted to (events.rs:140, a request
without a timeout that each emit waits for); sessions and passwords; the exchange of
SSH and HTTP; file modes and owners; schedules of cron as text; the VT100 terminal;
the applets of `shell/net.rs`, `shell/proc.rs` and `shell/sys.rs`, which show what
others keep; multicast; configuration text. Of the components: parsing, views,
clients and vendored code, as `PROJECT.json` says of each.

## Plan

In the order of what it would add:

1. what each text applet does, as theorems, sorting first;
2. overlapping starts in `Probes`, which takes a run at a time as over;
3. a webhook that does not answer, in `Supervisor`: it holds up whoever emits an event.
