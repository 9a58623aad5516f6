--------------------------- MODULE UpdaterProofs ---------------------------
(***************************************************************************)
(* Theorems about Updater: whatever is left half done by failures and by   *)
(* stormd's end, what runs is one whole image with its own command, and    *)
(* the record is of the rootfs in place; for any images, layers, requests  *)
(* and bounds.                                                             *)
(***************************************************************************)
EXTENDS Updater, TLAPS

Busy(t) == pc[t] \in Updating \cup Starting

\* No task but t is at an update or at stormd's start.
Alone(t) == \A u \in Tasks \ {t} : ~Busy(u)

\* What Directories, DownInPivot, CommandFits, ChildFits and RecordFits say when
\* only t may be busy.
DirsAt(t) ==
  /\ current = Missing \/ Whole(current)
  /\ pc[t] = "unpack" => new = {mine[t].got} \X (1..mine[t].layers)
  /\ pc[t] \in Pivoting \ Unrecorded => new = Image(mine[t].got)
  /\ pc[t] = "place" => current = Missing
  /\ pc[t] \in Unrecorded => current = Image(mine[t].got)

DownAt(t) ==
  /\ proc = "stopping" => pc[t] = "wait"
  /\ pc[t] = "wait" => proc # "up"
  /\ pc[t] \in Pivoting \ {"stop", "wait"} => proc = "down"

RecordedAt(t) == ~cut /\ pc[t] \notin Unrecorded

FitsAt(t) ==
  /\ RecordedAt(t) /\ command # 0 /\ current # Missing => current = Image(command)
  /\ proc # "down" \/ respawn => command # 0
  /\ pc[t] \in Unrecorded \ {"config"} => command = mine[t].got
  /\ pc[t] \in {"resume", "restart"} => record # Nothing
  /\ pc[t] = "restart" => command = record.cmd
  /\ proc # "down" /\ pc[t] \in {"digest", "record"} => child.rootfs = Image(child.cmd)
  /\ proc # "down" => Whole(child.rootfs)
  /\ proc # "down" /\ RecordedAt(t) => child.rootfs = Image(child.cmd)
  /\ RecordedAt(t) /\ record # Nothing /\ current # Missing => current = Image(record.cmd)

At(t) == DirsAt(t) /\ DownAt(t) /\ FitsAt(t)

\* UpdaterInv, seen from the one task that may be busy.
Always == TypeOK /\ Pulled /\ RecordsImage
ViewInv == Always /\ (~shared => \E t \in Tasks : Alone(t) /\ At(t))

-----------------------------------------------------------------------------
(* The two forms of the invariant.                                           *)

LEMMA Stages0 == /\ Pivoting \subseteq Updating /\ Unrecorded \subseteq Updating
                 /\ Updating \cap {"idle", "check", "compare", "unasked", "answered"} = {}
                 /\ Starting \cap {"idle", "check", "compare", "unasked", "answered"} = {}
  BY DEF Pivoting, Unrecorded, Updating, Starting

\* Two tasks that are both alone see the same.
LEMMA ViewImplies == ViewInv => UpdaterInv
  <1> SUFFICES ASSUME ViewInv PROVE UpdaterInv OBVIOUS
  <1>1. CASE shared BY <1>1 DEF ViewInv, Always, UpdaterInv, ChildFits, RecordFits
  <1>2. CASE ~shared
    <2>1. PICK t \in Tasks : Alone(t) /\ At(t) BY <1>2 DEF ViewInv
    <2>2. \A u \in Tasks : u # t => pc[u] \notin Updating \cup Starting BY <2>1 DEF Alone, Busy
    <2>3. OneUpdate BY <2>2 DEF OneUpdate
    <2>4. \A u \in Tasks : u # t => /\ pc[u] \notin Pivoting \cup Unrecorded
                                    /\ pc[u] \notin {"unpack", "place", "wait", "resume", "restart"}
      BY <2>2 DEF Pivoting, Unrecorded, Updating, Starting
    <2>5. Recorded <=> RecordedAt(t) BY <2>4 DEF Recorded, RecordedAt
    <2>6. Directories
      <3>1. DirsAt(t) BY <2>1 DEF At
      <3>2. current = Missing \/ Whole(current) BY <3>1 DEF DirsAt
      <3>3. ASSUME NEW u \in Tasks
            PROVE  /\ pc[u] = "unpack" => new = {mine[u].got} \X (1..mine[u].layers)
                   /\ pc[u] \in Pivoting \ Unrecorded => new = Image(mine[u].got)
                   /\ pc[u] = "place" => current = Missing
                   /\ pc[u] \in Unrecorded => current = Image(mine[u].got)
        BY <2>4, <3>1 DEF DirsAt
      <3> QED BY <3>2, <3>3 DEF Directories
    <2>7. DownInPivot BY <2>1, <2>4 DEF At, DownAt, DownInPivot
    <2>8. FitsAt(t) BY <2>1 DEF At
    <2>9. CommandFits
      <3>1. ASSUME NEW u \in Tasks
            PROVE  /\ pc[u] \in Unrecorded \ {"config"} => command = mine[u].got
                   /\ pc[u] \in {"resume", "restart"} => record # Nothing
                   /\ pc[u] = "restart" => command = record.cmd
                   /\ proc # "down" /\ pc[u] \in {"digest", "record"} => child.rootfs = Image(child.cmd)
        BY <2>4, <2>8 DEF FitsAt, Unrecorded
      <3> QED BY <2>5, <2>8, <3>1 DEF FitsAt, CommandFits
    <2>10. ChildFits /\ RecordFits BY <2>5, <2>8 DEF FitsAt, ChildFits, RecordFits
    <2> QED BY <1>2, <2>3, <2>6, <2>7, <2>9, <2>10 DEF ViewInv, Always, UpdaterInv
  <1> QED BY <1>1, <1>2

LEMMA InitView == Init => ViewInv
  <1> SUFFICES ASSUME Init PROVE ViewInv OBVIOUS
  <1>1. Poll \in Tasks BY DEF Tasks
  <1>2. pc[Poll] = "boot" BY <1>1 DEF Init
  <1>3. TypeOK
    <2>1. Missing \in Contents BY DEF Contents
    <2>2. mine \in [Tasks -> [got : Versions \cup {0}, layers : 0..NLayers, seen : Versions \cup {0}]]
      BY UpdaterAssumption DEF Init, Locals
    <2>3. pc \in [Tasks -> Stages] BY DEF Init, Stages, Starting
    <2> QED BY <2>1, <2>2, <2>3 DEF Init, TypeOK, Nothing, NoChild
  <1>4. Pulled /\ RecordsImage
    BY DEF Init, Pulled, RecordsImage, Pivoting, Unrecorded, Locals
  <1>5. Alone(Poll) BY DEF Init, Alone, Busy, Updating, Pivoting, Starting
  <1>6. At(Poll)
    BY <1>2 DEF Init, At, DirsAt, DownAt, FitsAt, RecordedAt, Pivoting, Unrecorded, Nothing
  <1> QED BY <1>1, <1>3, <1>4, <1>5, <1>6 DEF ViewInv, Always

-----------------------------------------------------------------------------
(* What holds whatever is shared: TypeOK, Pulled and RecordsImage.           *)

TaskType == [got : Versions \cup {0}, layers : 0..NLayers, seen : Versions \cup {0}]

LEMMA LocalsTyped == Locals \in TaskType
  BY UpdaterAssumption DEF Locals, TaskType

\* What is left of a directory, and what a spawn starts from it.
LEMMA LessTyped == ASSUME NEW dir \in Contents, NEW rest \in Less(dir) PROVE rest \in Contents
  BY DEF Contents, Less, Missing

LEMMA EmptyTyped == Missing \in Contents /\ {} \in Contents
  BY DEF Contents

LEMMA FaultTyped == ASSUME faults \in Nat, Fault \/ UNCHANGED faults PROVE faults' \in Nat
  BY DEF Fault

LEMMA SpawnTyped ==
  ASSUME TypeOK, Spawn \/ SpawnFails \/ StartFails \/ UNCHANGED <<proc, child>>
  PROVE  /\ proc' \in {"down", "up", "stopping"}
         /\ child' \in [cmd : Versions \cup {0}, rootfs : Contents]
  BY EmptyTyped DEF TypeOK, Spawn, SpawnFails, StartFails, NoChild

\* A step of t changes t's place and t's locals, to ones of the right kind.
LEMMA TaskMoves ==
  ASSUME TypeOK, Pulled, NEW t \in Tasks, NEW s \in Stages, NEW m \in TaskType,
         Goto(t, s), mine' = [mine EXCEPT ![t] = m],
         s \in Pivoting \cup Unrecorded \cup {"clear", "unpack"} => m.got \in Versions,
         s \notin Pivoting \cup Unrecorded \cup {"unpack", "done"} => m.layers = 0
  PROVE  /\ pc' \in [Tasks -> Stages] /\ mine' \in [Tasks -> TaskType] /\ Pulled'
         /\ pc'[t] = s /\ mine'[t] = m
         /\ \A u \in Tasks \ {t} : pc'[u] = pc[u] /\ mine'[u] = mine[u]
  <1>1. pc \in [Tasks -> Stages] /\ mine \in [Tasks -> TaskType] BY DEF TypeOK, TaskType
  <1>2. pc' = [pc EXCEPT ![t] = s] BY DEF Goto
  <1>3. pc'[t] = s /\ mine'[t] = m BY <1>1, <1>2
  <1>4. \A u \in Tasks \ {t} : pc'[u] = pc[u] /\ mine'[u] = mine[u] BY <1>1, <1>2
  <1>5. pc' \in [Tasks -> Stages] /\ mine' \in [Tasks -> TaskType] BY <1>1, <1>2
  <1>6. ASSUME NEW u \in Tasks
        PROVE  /\ pc'[u] \in Pivoting \cup Unrecorded \cup {"clear", "unpack"} => mine'[u].got \in Versions
               /\ pc'[u] \notin Pivoting \cup Unrecorded \cup {"unpack", "done"} => mine'[u].layers = 0
    BY <1>3, <1>4 DEF Pulled
  <1> QED BY <1>3, <1>4, <1>5, <1>6 DEF Pulled

\* The four ways a step moves a task.
LEMMA GoOnMoves ==
  ASSUME TypeOK, Pulled, NEW t \in Tasks, NEW s \in Stages, Goto(t, s), UNCHANGED mine,
         s \in Pivoting \cup Unrecorded \cup {"clear", "unpack"} => mine[t].got \in Versions,
         s \notin Pivoting \cup Unrecorded \cup {"unpack", "done"} => mine[t].layers = 0
  PROVE  /\ pc' \in [Tasks -> Stages] /\ mine' \in [Tasks -> TaskType] /\ Pulled'
         /\ pc'[t] = s
         /\ \A u \in Tasks \ {t} : pc'[u] = pc[u]
  <1>1. mine \in [Tasks -> TaskType] BY DEF TypeOK, TaskType
  <1>2. mine[t] \in TaskType /\ mine' = [mine EXCEPT ![t] = mine[t]] BY <1>1
  <1> QED BY <1>2, TaskMoves

LEMMA RestMoves ==
  ASSUME TypeOK, Pulled, NEW t \in Tasks, Rest(t)
  PROVE  /\ pc' \in [Tasks -> Stages] /\ mine' \in [Tasks -> TaskType] /\ Pulled'
         /\ pc'[t] \in {"idle", "answered"}
         /\ \A u \in Tasks \ {t} : pc'[u] = pc[u]
  <1> DEFINE s == IF t = Poll THEN "idle" ELSE "answered"
  <1>1. s \in Stages /\ s \in {"idle", "answered"} BY DEF Stages
  <1>2. s \notin Pivoting \cup Unrecorded \cup {"clear", "unpack"} BY DEF Pivoting, Unrecorded
  <1>3. Goto(t, s) /\ mine' = [mine EXCEPT ![t] = Locals] /\ Locals.layers = 0
    BY DEF Rest, Locals
  <1> HIDE DEF s
  <1> QED BY <1>1, <1>2, <1>3, LocalsTyped, TaskMoves

LEMMA UpdateMoves ==
  ASSUME TypeOK, Pulled, NEW t \in Tasks, Update(t),
         \/ UNCHANGED mine /\ mine[t].layers = 0
         \/ mine' = [mine EXCEPT ![t] = Locals]
  PROVE  /\ pc' \in [Tasks -> Stages] /\ mine' \in [Tasks -> TaskType] /\ Pulled'
         /\ pc'[t] = "pull"
         /\ \A u \in Tasks \ {t} : pc'[u] = pc[u]
  <1>1. Goto(t, "pull") /\ "pull" \in Stages BY DEF Update, Stages, Updating
  <1>2. "pull" \notin Pivoting \cup Unrecorded \cup {"clear", "unpack"} BY DEF Pivoting, Unrecorded
  <1>3. CASE UNCHANGED mine /\ mine[t].layers = 0 BY <1>1, <1>2, <1>3, GoOnMoves
  <1>4. CASE mine' = [mine EXCEPT ![t] = Locals]
    <2>1. Locals.layers = 0 BY DEF Locals
    <2> QED BY <1>1, <1>2, <1>4, <2>1, LocalsTyped, TaskMoves
  <1> QED BY <1>3, <1>4

LEMMA ReadMoves ==
  ASSUME TypeOK, Pulled, NEW t \in Tasks, NEW s \in Stages, Goto(t, s), ReadDigest(t),
         s \in Pivoting \cup Unrecorded \cup {"clear", "unpack"} => mine[t].got \in Versions,
         s \notin Pivoting \cup Unrecorded \cup {"unpack", "done"} => mine[t].layers = 0
  PROVE  /\ pc' \in [Tasks -> Stages] /\ mine' \in [Tasks -> TaskType] /\ Pulled'
         /\ pc'[t] = s /\ mine'[t].got = mine[t].got
         /\ \A u \in Tasks \ {t} : pc'[u] = pc[u]
  <1>1. mine[t] \in TaskType /\ latest \in Versions \cup {0} BY DEF TypeOK, TaskType
  <1>2. PICK d \in Versions \cup {0} : mine' = [mine EXCEPT ![t].seen = d]
    BY <1>1 DEF ReadDigest
  <1> DEFINE m == [mine[t] EXCEPT !.seen = d]
  <1>3. m \in TaskType /\ m.got = mine[t].got /\ m.layers = mine[t].layers BY <1>1 DEF TaskType
  <1>4. mine' = [mine EXCEPT ![t] = m] BY <1>2
  <1> HIDE DEF m
  <1> QED BY <1>3, <1>4, TaskMoves

-----------------------------------------------------------------------------
(* The steps of an update, of its task t.                                    *)

LEMMA AloneStays ==
  ASSUME NEW t \in Tasks, Alone(t), \A u \in Tasks \ {t} : pc'[u] = pc[u]
  PROVE  Alone(t)'
  BY DEF Alone, Busy

\* What t does keeps what always holds and, if no other task is busy and it leaves
\* no child behind, what t sees.
Keeps(t) == Always' /\ (~shared' /\ Alone(t) /\ At(t) => Alone(t)' /\ At(t)')

\* An update that ends early leaves the rootfs that was there, or one not recorded.
LEMMA GiveUpKeeps ==
  ASSUME TypeOK, Pulled, NEW t \in Tasks, GiveUp(t), pc[t] # "wait",
         UNCHANGED <<current, record, command, respawn>>,
         UNCHANGED <<proc, child>> \/ proc' = "down"
  PROVE  /\ pc' \in [Tasks -> Stages] /\ mine' \in [Tasks -> TaskType] /\ Pulled'
         /\ cut' \in BOOLEAN
         /\ Alone(t) /\ At(t) => Alone(t)' /\ At(t)'
  <1>1. /\ pc' \in [Tasks -> Stages] /\ mine' \in [Tasks -> TaskType] /\ Pulled'
        /\ pc'[t] \in {"idle", "answered"}
        /\ \A u \in Tasks \ {t} : pc'[u] = pc[u]
    BY RestMoves DEF GiveUp
  <1>2. cut' = (cut \/ pc[t] \in Unrecorded) /\ cut' \in BOOLEAN BY DEF GiveUp
  <1>3. Alone(t) => Alone(t)' BY <1>1, AloneStays
  <1>4. pc'[t] \notin Pivoting \cup Unrecorded \cup {"unpack", "resume", "restart"}
    BY <1>1 DEF Pivoting, Unrecorded
  <1>5. RecordedAt(t)' => RecordedAt(t) BY <1>2, <1>4 DEF RecordedAt
  <1>6. DirsAt(t) => DirsAt(t)' BY <1>4 DEF DirsAt, Whole, Image, Layers, Missing, Pivoting
  <1>7. DownAt(t) => DownAt(t)' BY <1>4 DEF DownAt, Pivoting
  <1>8. FitsAt(t) => FitsAt(t)'
    <2> SUFFICES ASSUME FitsAt(t) PROVE FitsAt(t)' OBVIOUS
    <2>1. RecordedAt(t)' /\ command' # 0 /\ current' # Missing => current' = Image(command')
      BY <1>5 DEF FitsAt
    <2>2. proc' # "down" \/ respawn' => command' # 0 BY DEF FitsAt
    <2>3. proc' # "down" => Whole(child'.rootfs) /\ (RecordedAt(t)' => child'.rootfs = Image(child'.cmd))
      BY <1>5 DEF FitsAt
    <2>4. RecordedAt(t)' /\ record' # Nothing /\ current' # Missing => current' = Image(record'.cmd)
      BY <1>5 DEF FitsAt
    <2> QED BY <1>4, <2>1, <2>2, <2>3, <2>4 DEF FitsAt, Unrecorded, Whole, Image, Missing, Nothing
  <1> QED BY <1>1, <1>2, <1>3, <1>6, <1>7, <1>8 DEF At

LEMMA PullKeeps == ASSUME Always, NEW t \in Tasks, Pull(t) PROVE Keeps(t)
  <1>1. /\ pc[t] = "pull"
        /\ UNCHANGED <<latest, current, new, old, record, digest, command, proc, child, respawn,
                       cleaning, pushes, restarts, exits, shared, late>>
        /\ \/ mine' = [mine EXCEPT ![t].got = latest] /\ Goto(t, "clear") /\ UNCHANGED <<faults, cut>>
           \/ Fault /\ GiveUp(t)
    BY DEF Pull, disk, process, bounds
  <1>2. CASE Fault /\ GiveUp(t)
    <2>1. faults' \in Nat BY <1>2, FaultTyped DEF Always, TypeOK
    <2> QED BY <1>1, <1>2, <2>1, GiveUpKeeps DEF Keeps, Always, TypeOK, TaskType, RecordsImage, Nothing
  <1>3. CASE /\ mine' = [mine EXCEPT ![t].got = latest] /\ Goto(t, "clear") /\ UNCHANGED <<faults, cut>>
    <2>1. mine[t] \in TaskType /\ latest \in Versions BY DEF Always, TypeOK, TaskType
    <2> DEFINE m == [mine[t] EXCEPT !.got = latest]
    <2>2. m \in TaskType /\ m.got = latest /\ m.layers = mine[t].layers BY <2>1 DEF TaskType
    <2>3. mine' = [mine EXCEPT ![t] = m] BY <1>3
    <2> HIDE DEF m
    <2>4. mine[t].layers = 0 BY <1>1 DEF Always, Pulled, Pivoting, Unrecorded
    <2>5. "clear" \in Stages BY DEF Stages, Updating
    <2>6. /\ pc' \in [Tasks -> Stages] /\ mine' \in [Tasks -> TaskType] /\ Pulled'
          /\ pc'[t] = "clear" /\ \A u \in Tasks \ {t} : pc'[u] = pc[u]
      BY <1>3, <2>1, <2>2, <2>3, <2>4, <2>5, TaskMoves DEF Always
    <2>7. Alone(t) => Alone(t)' BY <2>6, AloneStays
    <2>8. At(t) => At(t)'
      BY <1>1, <1>3, <2>6
      DEF At, DirsAt, DownAt, FitsAt, RecordedAt, Pivoting, Unrecorded, Whole, Image, Missing, Nothing
    <2> QED BY <1>1, <1>3, <2>6, <2>7, <2>8 DEF Keeps, Always, TypeOK, TaskType, RecordsImage, Nothing
  <1> QED BY <1>1, <1>2, <1>3

LEMMA ClearKeeps == ASSUME Always, NEW t \in Tasks, Clear(t) PROVE Keeps(t)
  <1>1. /\ pc[t] = "clear"
        /\ UNCHANGED <<latest, current, old, record, digest, command, proc, child, respawn,
                       cleaning, pushes, restarts, exits, shared, late>>
        /\ \/ new' \in Less(new) /\ GoOn(t, "clear")
           \/ new' = {} /\ GoOn(t, "unpack")
           \/ Fault /\ GiveUp(t) /\ UNCHANGED new
    BY DEF Clear, process, bounds
  <1>2. mine[t].got \in Versions /\ mine[t].layers = 0 BY <1>1 DEF Always, Pulled, Pivoting, Unrecorded
  <1>3. CASE Fault /\ GiveUp(t) /\ UNCHANGED new
    <2>1. faults' \in Nat BY <1>3, FaultTyped DEF Always, TypeOK
    <2> QED BY <1>1, <1>3, <2>1, GiveUpKeeps DEF Keeps, Always, TypeOK, TaskType, RecordsImage, Nothing
  <1>4. ASSUME NEW s \in {"clear", "unpack"}, GoOn(t, s), new' \in Contents, s = "unpack" => new' = {}
        PROVE  Keeps(t)
    <2>1. s \in Stages BY <1>4 DEF Stages, Updating
    <2>2. /\ pc' \in [Tasks -> Stages] /\ mine' \in [Tasks -> TaskType] /\ Pulled'
          /\ pc'[t] = s /\ \A u \in Tasks \ {t} : pc'[u] = pc[u]
      BY <1>2, <1>4, <2>1, GoOnMoves DEF Always, GoOn
    <2>3. Alone(t) => Alone(t)' BY <2>2, AloneStays
    <2>4. {} = {mine[t].got} \X (1..0) OBVIOUS
    <2>5. DirsAt(t) => DirsAt(t)'
      BY <1>1, <1>2, <1>4, <2>2, <2>4 DEF DirsAt, GoOn, Pivoting, Unrecorded, Whole, Image, Layers, Missing
    <2>6. DownAt(t) /\ FitsAt(t) => DownAt(t)' /\ FitsAt(t)'
      BY <1>1, <1>4, <2>2
      DEF DownAt, FitsAt, RecordedAt, GoOn, Pivoting, Unrecorded, Whole, Image, Missing, Nothing
    <2> QED BY <1>1, <1>4, <2>2, <2>3, <2>5, <2>6
            DEF GoOn, Keeps, At, Always, TypeOK, TaskType, RecordsImage, Nothing
  <1>5. new' \in Less(new) \cup {{}} => new' \in Contents
    BY LessTyped, EmptyTyped DEF Always, TypeOK
  <1> QED BY <1>1, <1>3, <1>4, <1>5

LEMMA UnpackKeeps == ASSUME Always, NEW t \in Tasks, Unpack(t) PROVE Keeps(t)
  <1> DEFINE n == mine[t].layers + 1
  <1>1. /\ pc[t] = "unpack"
        /\ UNCHANGED <<latest, current, old, record, digest, command, proc, child, respawn,
                       cleaning, pushes, restarts, exits, shared, late>>
        /\ \/ /\ n <= NLayers /\ new # Missing
              /\ new' = new \cup {<<mine[t].got, n>>}
              /\ mine' = [mine EXCEPT ![t].layers = n] /\ UNCHANGED <<pc, faults, cut>>
           \/ n > NLayers /\ GoOn(t, "stop") /\ UNCHANGED new
           \/ MayFail(new # Missing) /\ GiveUp(t) /\ UNCHANGED new
    BY DEF Unpack, process, bounds
  <1>2. mine[t] \in TaskType /\ mine[t].got \in Versions /\ mine[t].layers \in 0..NLayers
    BY <1>1 DEF Always, TypeOK, TaskType, Pulled
  <1>3. CASE MayFail(new # Missing) /\ GiveUp(t) /\ UNCHANGED new
    <2>1. faults' \in Nat BY <1>3, FaultTyped DEF Always, TypeOK, MayFail
    <2> QED BY <1>1, <1>3, <2>1, GiveUpKeeps DEF Keeps, Always, TypeOK, TaskType, RecordsImage, Nothing
  <1>4. CASE n > NLayers /\ GoOn(t, "stop") /\ UNCHANGED new
    <2>1. "stop" \in Stages /\ "stop" \in Pivoting BY DEF Stages, Updating, Pivoting
    <2>2. /\ pc' \in [Tasks -> Stages] /\ mine' \in [Tasks -> TaskType] /\ Pulled'
          /\ pc'[t] = "stop" /\ \A u \in Tasks \ {t} : pc'[u] = pc[u]
      BY <1>2, <1>4, <2>1, GoOnMoves DEF Always, GoOn
    <2>3. Alone(t) => Alone(t)' BY <2>2, AloneStays
    <2>4. mine[t].layers = NLayers BY <1>2, <1>4, UpdaterAssumption
    <2>5. DirsAt(t) => DirsAt(t)'
      <3> SUFFICES ASSUME DirsAt(t) PROVE DirsAt(t)' OBVIOUS
      <3>1. new = Image(mine[t].got) BY <1>1, <2>4 DEF DirsAt, Image, Layers
      <3>2. new' = Image(mine'[t].got) /\ UNCHANGED current BY <1>1, <1>4, <3>1 DEF GoOn, Image, Layers
      <3> QED BY <2>2, <3>2 DEF DirsAt, Unrecorded, Whole, Image, Layers, Missing
    <2>6. DownAt(t) /\ FitsAt(t) => DownAt(t)' /\ FitsAt(t)'
      BY <1>1, <1>4, <2>2
      DEF DownAt, FitsAt, RecordedAt, GoOn, Pivoting, Unrecorded, Whole, Image, Missing, Nothing
    <2> QED BY <1>1, <1>4, <2>2, <2>3, <2>5, <2>6
            DEF GoOn, Keeps, At, Always, TypeOK, TaskType, RecordsImage, Nothing
  <1>5. CASE /\ n <= NLayers /\ new' = new \cup {<<mine[t].got, n>>}
             /\ mine' = [mine EXCEPT ![t].layers = n] /\ UNCHANGED <<pc, faults, cut>> /\ new # Missing
    <2> DEFINE m == [mine[t] EXCEPT !.layers = n]
    <2>1. n \in 0..NLayers /\ n \in Layers BY <1>2, <1>5, UpdaterAssumption DEF Layers
    <2>2. m \in TaskType /\ m.got = mine[t].got /\ m.layers = n BY <1>2, <2>1 DEF TaskType
    <2>3. mine' = [mine EXCEPT ![t] = m] BY <1>5
    <2> HIDE DEF m
    <2>4. pc \in [Tasks -> Stages] /\ Goto(t, "unpack") /\ "unpack" \in Stages
      BY <1>1, <1>5 DEF Always, TypeOK, Goto, Stages, Updating
    <2>5. /\ mine' \in [Tasks -> TaskType] /\ Pulled' /\ mine'[t] = m
      BY <1>2, <2>2, <2>3, <2>4, TaskMoves DEF Always
    <2>6. new' \in Contents
      <3>1. new \in SUBSET (Versions \X Layers) BY <1>5 DEF Always, TypeOK, Contents
      <3>2. <<mine[t].got, n>> \in Versions \X Layers BY <1>2, <2>1
      <3> QED BY <1>5, <3>1, <3>2 DEF Contents
    <2>7. DirsAt(t) => DirsAt(t)'
      <3> SUFFICES ASSUME DirsAt(t) PROVE DirsAt(t)' OBVIOUS
      <3>1. new = {mine[t].got} \X (1..mine[t].layers) BY <1>1 DEF DirsAt
      <3>2. 1..n = (1..mine[t].layers) \cup {n} BY <1>2, <2>1, UpdaterAssumption
      <3>3. new' = {mine[t].got} \X (1..n) BY <1>5, <3>1, <3>2
      <3>4. new' = {mine'[t].got} \X (1..mine'[t].layers) BY <2>2, <2>5, <3>3
      <3> QED BY <1>1, <1>5, <3>4 DEF DirsAt, Pivoting, Unrecorded, Whole, Image, Layers, Missing
    <2>8. DownAt(t) /\ FitsAt(t) => DownAt(t)' /\ FitsAt(t)'
      BY <1>1, <1>5, <2>2, <2>5
      DEF DownAt, FitsAt, RecordedAt, Pivoting, Unrecorded, Whole, Image, Missing, Nothing
    <2>9. Alone(t) => Alone(t)' BY <1>5, AloneStays
    <2> QED BY <1>1, <1>5, <2>4, <2>5, <2>6, <2>7, <2>8, <2>9
            DEF Keeps, At, Always, TypeOK, TaskType, RecordsImage, Nothing
  <1> QED BY <1>1, <1>3, <1>4, <1>5

\* A task in a pivot goes on to the next stage of it, or from its record to the end.
LEMMA PivotMoves ==
  ASSUME TypeOK, Pulled, NEW t \in Tasks, NEW s \in Pivoting \cup {"digest", "record", "done"}, GoOn(t, s),
         pc[t] \in Pivoting \cup Unrecorded
  PROVE  /\ pc' \in [Tasks -> Stages] /\ mine' \in [Tasks -> TaskType] /\ Pulled'
         /\ pc'[t] = s /\ UNCHANGED <<mine, faults, cut>>
         /\ \A u \in Tasks \ {t} : pc'[u] = pc[u]
         /\ mine[t].got \in Versions
  <1>1. s \in Stages BY DEF Stages, Updating
  <1>2. mine[t].got \in Versions BY DEF Pulled
  <1>3. s \in Pivoting \cup Unrecorded \cup {"unpack", "done"} BY DEF Unrecorded
  <1>4. Goto(t, s) /\ UNCHANGED <<mine, faults, cut>> BY DEF GoOn
  <1> QED BY <1>1, <1>2, <1>3, <1>4, GoOnMoves

LEMMA StopKeeps == ASSUME Always, NEW t \in Tasks, Stop(t) PROVE Keeps(t)
  <1>1. /\ pc[t] = "stop"
        /\ UNCHANGED <<latest, current, new, old, record, digest, command, child, respawn,
                       cleaning, pushes, restarts, exits, shared, late>>
        /\ \/ proc = "up" /\ proc' = "stopping" /\ GoOn(t, "wait")
           \/ proc # "up" /\ proc' = proc /\ GoOn(t, "sweep")
    BY DEF Stop, disk, bounds
  <1>2. PICK s \in {"wait", "sweep"} :
          /\ GoOn(t, s)
          /\ s = "wait" => proc = "up" /\ proc' = "stopping"
          /\ s = "sweep" => proc # "up" /\ proc' = proc
    BY <1>1
  <1>3. pc[t] \in Pivoting \ Unrecorded /\ s \in Pivoting \ Unrecorded
    BY <1>1, <1>2 DEF Pivoting, Unrecorded
  <1>4. /\ pc' \in [Tasks -> Stages] /\ mine' \in [Tasks -> TaskType] /\ Pulled'
        /\ pc'[t] = s /\ UNCHANGED <<mine, faults, cut>>
        /\ \A u \in Tasks \ {t} : pc'[u] = pc[u]
    BY <1>2, <1>3, PivotMoves DEF Always
  <1>5. Alone(t) => Alone(t)' BY <1>4, AloneStays
  <1>6. DirsAt(t) => DirsAt(t)'
    BY <1>1, <1>3, <1>4 DEF DirsAt, Whole, Image, Layers, Missing
  <1>7. DownAt(t) => DownAt(t)' BY <1>1, <1>2, <1>4 DEF DownAt, Always, TypeOK
  <1>8. FitsAt(t) => FitsAt(t)'
    BY <1>1, <1>2, <1>3, <1>4 DEF FitsAt, RecordedAt, Unrecorded, Whole, Image, Missing, Nothing
  <1> QED BY <1>1, <1>2, <1>4, <1>5, <1>6, <1>7, <1>8
          DEF Keeps, At, Always, TypeOK, TaskType, RecordsImage, Nothing

\* The wait whose child outlives it.
LEMMA GivesUpWaiting ==
  ASSUME Always, NEW t \in Tasks, Wait(t), proc = "stopping"
  PROVE  Keeps(t) /\ shared'
  <1>1. /\ pc[t] = "wait" /\ Fault /\ Goto(t, "sweep") /\ shared' = TRUE
        /\ UNCHANGED <<mine, cut, latest, current, new, old, record, digest, command, proc, child,
                       respawn, cleaning, pushes, restarts, exits, late>>
    BY DEF Wait, disk, process, bounds
  <1>2. /\ "sweep" \in Stages /\ "sweep" \in Pivoting \cup Unrecorded \cup {"unpack", "done"}
        /\ mine[t].got \in Versions
    BY <1>1 DEF Stages, Updating, Pivoting, Always, Pulled
  <1>3. pc' \in [Tasks -> Stages] /\ mine' \in [Tasks -> TaskType] /\ Pulled'
    BY <1>1, <1>2, GoOnMoves DEF Always
  <1>4. faults' \in Nat BY <1>1, FaultTyped DEF Always, TypeOK
  <1> QED BY <1>1, <1>3, <1>4 DEF Keeps, Always, TypeOK, TaskType, RecordsImage, Nothing

LEMMA WaitKeeps ==
  ASSUME Always, NEW t \in Tasks, Wait(t)
  PROVE  Keeps(t) /\ (shared' \/ UNCHANGED shared)
  <1>1. CASE proc = "stopping" BY <1>1, GivesUpWaiting
  <1>2. CASE proc # "stopping"
    <2>1. /\ pc[t] = "wait" /\ proc # "stopping" /\ GoOn(t, "sweep")
          /\ UNCHANGED <<latest, current, new, old, record, digest, command, proc, child, respawn,
                         cleaning, pushes, restarts, exits, shared, late>>
      BY <1>2 DEF Wait, disk, process, bounds
    <2>2. pc[t] \in Pivoting \ Unrecorded /\ "sweep" \in Pivoting \ Unrecorded
      BY <2>1 DEF Pivoting, Unrecorded
    <2>3. /\ pc' \in [Tasks -> Stages] /\ mine' \in [Tasks -> TaskType] /\ Pulled'
          /\ pc'[t] = "sweep" /\ UNCHANGED <<mine, faults, cut>>
          /\ \A u \in Tasks \ {t} : pc'[u] = pc[u]
      BY <2>1, <2>2, PivotMoves DEF Always
    <2>4. Alone(t) => Alone(t)' BY <2>3, AloneStays
    <2>5. DirsAt(t) => DirsAt(t)'
      BY <2>1, <2>2, <2>3 DEF DirsAt, Whole, Image, Layers, Missing
    <2>6. DownAt(t) => DownAt(t)' BY <2>1, <2>3 DEF DownAt, Always, TypeOK
    <2>7. FitsAt(t) => FitsAt(t)'
      BY <2>1, <2>2, <2>3 DEF FitsAt, RecordedAt, Unrecorded, Whole, Image, Missing, Nothing
    <2> QED BY <2>1, <2>3, <2>4, <2>5, <2>6, <2>7
            DEF Keeps, At, Always, TypeOK, TaskType, RecordsImage, Nothing
  <1> QED BY <1>1, <1>2

LEMMA SweepKeeps == ASSUME Always, NEW t \in Tasks, Sweep(t) PROVE Keeps(t)
  <1>1. /\ pc[t] = "sweep"
        /\ UNCHANGED <<latest, current, new, record, digest, command, proc, child, respawn,
                       cleaning, pushes, restarts, exits, shared, late>>
        /\ \/ old' \in Less(old) /\ GoOn(t, "sweep")
           \/ old' = old /\ GoOn(t, "retire")
           \/ Fault /\ GiveUp(t) /\ UNCHANGED old
    BY DEF Sweep, process, bounds
  <1>2. CASE Fault /\ GiveUp(t) /\ UNCHANGED old
    <2>1. faults' \in Nat BY <1>2, FaultTyped DEF Always, TypeOK
    <2> QED BY <1>1, <1>2, <2>1, GiveUpKeeps DEF Keeps, Always, TypeOK, TaskType, RecordsImage, Nothing
  <1>3. ASSUME NEW s \in {"sweep", "retire"}, GoOn(t, s), old' \in Contents PROVE Keeps(t)
    <2>1. pc[t] \in Pivoting \ Unrecorded /\ s \in Pivoting \ Unrecorded
      BY <1>1 DEF Pivoting, Unrecorded
    <2>2. /\ pc' \in [Tasks -> Stages] /\ mine' \in [Tasks -> TaskType] /\ Pulled'
          /\ pc'[t] = s /\ UNCHANGED <<mine, faults, cut>>
          /\ \A u \in Tasks \ {t} : pc'[u] = pc[u]
      BY <1>3, <2>1, PivotMoves DEF Always
    <2>3. Alone(t) => Alone(t)' BY <2>2, AloneStays
    <2>4. DirsAt(t) => DirsAt(t)'
      BY <1>1, <2>1, <2>2 DEF DirsAt, Whole, Image, Layers, Missing
    <2>5. DownAt(t) => DownAt(t)' BY <1>1, <2>1, <2>2 DEF DownAt
    <2>6. FitsAt(t) => FitsAt(t)'
      BY <1>1, <2>1, <2>2 DEF FitsAt, RecordedAt, Unrecorded, Whole, Image, Missing, Nothing
    <2> QED BY <1>1, <1>3, <2>2, <2>3, <2>4, <2>5, <2>6
            DEF Keeps, At, Always, TypeOK, TaskType, RecordsImage, Nothing
  <1>4. old' \in Less(old) \cup {old} => old' \in Contents BY LessTyped DEF Always, TypeOK
  <1> QED BY <1>1, <1>2, <1>3, <1>4

LEMMA RetireKeeps == ASSUME Always, NEW t \in Tasks, Retire(t) PROVE Keeps(t)
  <1>1. /\ pc[t] = "retire"
        /\ UNCHANGED <<latest, new, record, digest, command, proc, child, respawn,
                       cleaning, pushes, restarts, exits, shared, late>>
        /\ \/ current' = Missing /\ old' \in {old, current} /\ GoOn(t, "place")
           \/ MayFail(Free(old)) /\ GiveUp(t) /\ UNCHANGED <<current, old>>
    BY DEF Retire, process, bounds
  <1>2. CASE MayFail(Free(old)) /\ GiveUp(t) /\ UNCHANGED <<current, old>>
    <2>1. faults' \in Nat BY <1>2, FaultTyped DEF Always, TypeOK, MayFail
    <2> QED BY <1>1, <1>2, <2>1, GiveUpKeeps DEF Keeps, Always, TypeOK, TaskType, RecordsImage, Nothing
  <1>3. CASE current' = Missing /\ old' \in {old, current} /\ GoOn(t, "place")
    <2>1. pc[t] \in Pivoting \ Unrecorded /\ "place" \in Pivoting \ Unrecorded
      BY <1>1 DEF Pivoting, Unrecorded
    <2>2. /\ pc' \in [Tasks -> Stages] /\ mine' \in [Tasks -> TaskType] /\ Pulled'
          /\ pc'[t] = "place" /\ UNCHANGED <<mine, faults, cut>>
          /\ \A u \in Tasks \ {t} : pc'[u] = pc[u]
      BY <1>3, <2>1, PivotMoves DEF Always
    <2>3. Alone(t) => Alone(t)' BY <2>2, AloneStays
    <2>4. DirsAt(t) => DirsAt(t)'
      BY <1>1, <1>3, <2>1, <2>2 DEF DirsAt, Whole, Image, Layers, Missing
    <2>5. DownAt(t) => DownAt(t)' BY <1>1, <2>1, <2>2 DEF DownAt
    <2>6. FitsAt(t) => FitsAt(t)'
      BY <1>1, <1>3, <2>1, <2>2 DEF FitsAt, RecordedAt, Unrecorded, Whole, Image, Missing, Nothing
    <2>7. current' \in Contents /\ old' \in Contents BY <1>3, EmptyTyped DEF Always, TypeOK
    <2> QED BY <1>1, <1>3, <2>2, <2>3, <2>4, <2>5, <2>6, <2>7
            DEF Keeps, At, Always, TypeOK, TaskType, RecordsImage, Nothing
  <1> QED BY <1>1, <1>2, <1>3

LEMMA PlaceKeeps == ASSUME Always, NEW t \in Tasks, Place(t) PROVE Keeps(t)
  <1>1. /\ pc[t] = "place"
        /\ UNCHANGED <<latest, old, record, digest, command, proc, child, respawn,
                       cleaning, pushes, restarts, exits, shared, late>>
        /\ \/ current' = new /\ new' = Missing /\ GoOn(t, "config")
           \/ MayFail(new # Missing /\ Free(current)) /\ GiveUp(t) /\ UNCHANGED <<current, new>>
    BY DEF Place, process, bounds
  <1>2. CASE MayFail(new # Missing /\ Free(current)) /\ GiveUp(t) /\ UNCHANGED <<current, new>>
    <2>1. faults' \in Nat BY <1>2, FaultTyped DEF Always, TypeOK, MayFail
    <2> QED BY <1>1, <1>2, <2>1, GiveUpKeeps DEF Keeps, Always, TypeOK, TaskType, RecordsImage, Nothing
  <1>3. CASE current' = new /\ new' = Missing /\ GoOn(t, "config")
    <2>1. pc[t] \in Pivoting \ Unrecorded /\ "config" \in Pivoting \cap Unrecorded
      BY <1>1 DEF Pivoting, Unrecorded
    <2>2. /\ pc' \in [Tasks -> Stages] /\ mine' \in [Tasks -> TaskType] /\ Pulled'
          /\ pc'[t] = "config" /\ UNCHANGED <<mine, faults, cut>>
          /\ \A u \in Tasks \ {t} : pc'[u] = pc[u]
          /\ mine[t].got \in Versions
      BY <1>3, <2>1, PivotMoves DEF Always
    <2>3. Alone(t) => Alone(t)' BY <2>2, AloneStays
    <2>4. DirsAt(t) => DirsAt(t)'
      <3> SUFFICES ASSUME DirsAt(t) PROVE DirsAt(t)' OBVIOUS
      <3>1. current' = Image(mine[t].got) BY <1>3, <2>1 DEF DirsAt
      <3>2. Whole(current)' BY <2>2, <3>1 DEF Whole, Image, Layers
      <3>3. current' = Image(mine'[t].got) BY <2>2, <3>1
      <3> QED BY <2>1, <2>2, <3>2, <3>3 DEF DirsAt, Unrecorded, Image, Layers
    <2>5. DownAt(t) => DownAt(t)' BY <1>1, <2>1, <2>2 DEF DownAt
    <2>6. FitsAt(t) => FitsAt(t)'
      BY <1>1, <1>3, <2>1, <2>2 DEF FitsAt, RecordedAt, Unrecorded, Whole, Image, Missing, Nothing
    <2>7. current' \in Contents /\ new' \in Contents BY <1>3, EmptyTyped DEF Always, TypeOK
    <2> QED BY <1>1, <1>3, <2>2, <2>3, <2>4, <2>5, <2>6, <2>7
            DEF Keeps, At, Always, TypeOK, TaskType, RecordsImage, Nothing
  <1> QED BY <1>1, <1>2, <1>3

LEMMA ConfigKeeps == ASSUME Always, NEW t \in Tasks, Config(t) PROVE Keeps(t)
  <1>1. /\ pc[t] = "config" /\ command' = mine[t].got /\ GoOn(t, "start")
        /\ UNCHANGED <<latest, current, new, old, record, digest, proc, child, respawn,
                       cleaning, pushes, restarts, exits, shared, late>>
    BY DEF Config, disk, bounds
  <1>2. /\ pc[t] \in (Pivoting \cap Unrecorded) \ {"stop", "wait"}
        /\ "start" \in (Pivoting \cap Unrecorded) \ {"stop", "wait"}
    BY <1>1 DEF Pivoting, Unrecorded
  <1>3. /\ pc' \in [Tasks -> Stages] /\ mine' \in [Tasks -> TaskType] /\ Pulled'
        /\ pc'[t] = "start" /\ UNCHANGED <<mine, faults, cut>>
        /\ \A u \in Tasks \ {t} : pc'[u] = pc[u]
        /\ mine[t].got \in Versions
    BY <1>1, <1>2, PivotMoves DEF Always
  <1>4. Alone(t) => Alone(t)' BY <1>3, AloneStays
  <1>5. DirsAt(t) => DirsAt(t)'
    BY <1>1, <1>2, <1>3 DEF DirsAt, Whole, Image, Layers, Missing
  <1>6. DownAt(t) => DownAt(t)' BY <1>1, <1>2, <1>3 DEF DownAt
  <1>7. mine[t].got # 0 BY <1>3, UpdaterAssumption
  <1>8. DownAt(t) /\ FitsAt(t) => FitsAt(t)'
    BY <1>1, <1>2, <1>3, <1>7 DEF DownAt, FitsAt, RecordedAt, Whole, Image, Missing, Nothing
  <1> QED BY <1>1, <1>3, <1>4, <1>5, <1>6, <1>8
          DEF Keeps, At, Always, TypeOK, TaskType, RecordsImage, Nothing

LEMMA StartKeeps == ASSUME Always, NEW t \in Tasks, Start(t) PROVE Keeps(t)
  <1>1. /\ pc[t] = "start"
        /\ UNCHANGED <<latest, current, new, old, record, digest, command, respawn,
                       pushes, restarts, exits, shared, late>>
        /\ \/ proc # "up" /\ Spawn /\ GoOn(t, "digest") /\ cleaning' \in BOOLEAN
           \/ StartFails /\ GiveUp(t) /\ UNCHANGED cleaning
    BY DEF Start, disk, bounds
  <1>2. /\ proc' \in {"down", "up", "stopping"}
        /\ child' \in [cmd : Versions \cup {0}, rootfs : Contents]
    BY <1>1, SpawnTyped DEF Always
  <1>3. CASE StartFails /\ GiveUp(t) /\ UNCHANGED cleaning
    <2>1. faults' \in Nat BY <1>3, FaultTyped DEF Always, TypeOK, StartFails, SpawnFails, MayFail
    <2>2. UNCHANGED <<proc, child>> \/ proc' = "down" BY <1>3 DEF StartFails, SpawnFails
    <2> QED BY <1>1, <1>2, <1>3, <2>1, <2>2, GiveUpKeeps
            DEF Keeps, Always, TypeOK, TaskType, RecordsImage, Nothing
  <1>4. CASE proc # "up" /\ Spawn /\ GoOn(t, "digest") /\ cleaning' \in BOOLEAN
    <2>1. pc[t] \in Unrecorded \ {"config"} /\ "digest" \in (Unrecorded \ Pivoting) \ {"config"}
      BY <1>1 DEF Pivoting, Unrecorded
    <2>2. /\ pc' \in [Tasks -> Stages] /\ mine' \in [Tasks -> TaskType] /\ Pulled'
          /\ pc'[t] = "digest" /\ UNCHANGED <<mine, faults, cut>>
          /\ \A u \in Tasks \ {t} : pc'[u] = pc[u]
          /\ mine[t].got \in Versions
      BY <1>4, <2>1, PivotMoves DEF Always
    <2>3. Alone(t) => Alone(t)' BY <2>2, AloneStays
    <2>4. DirsAt(t) => DirsAt(t)'
      BY <1>1, <2>1, <2>2 DEF DirsAt, Whole, Image, Layers, Missing
    <2>5. proc' = "up" /\ child' = [cmd |-> command, rootfs |-> current] BY <1>4 DEF Spawn
    <2>6. DownAt(t)' BY <2>1, <2>2, <2>5 DEF DownAt
    <2>7. DirsAt(t) /\ FitsAt(t) => FitsAt(t)'
      <3> SUFFICES ASSUME DirsAt(t), FitsAt(t) PROVE FitsAt(t)' OBVIOUS
      <3>1. command = mine[t].got /\ current = Image(mine[t].got) BY <2>1 DEF DirsAt, FitsAt
      <3>2. command # 0 BY <2>2, <3>1, UpdaterAssumption
      <3>3. Whole(child'.rootfs) /\ child'.rootfs = Image(child'.cmd)
        BY <2>2, <2>5, <3>1 DEF Whole, Image
      <3> QED BY <1>1, <2>1, <2>2, <3>1, <3>2, <3>3 DEF FitsAt, RecordedAt, Whole, Image, Layers
    <2> QED BY <1>1, <1>2, <1>4, <2>2, <2>3, <2>4, <2>6, <2>7
            DEF Keeps, At, Always, TypeOK, TaskType, RecordsImage, Nothing
  <1> QED BY <1>1, <1>3, <1>4

LEMMA DigestKeeps == ASSUME Always, NEW t \in Tasks, Digest(t) PROVE Keeps(t)
  <1>1. /\ pc[t] = "digest" /\ ReadDigest(t) /\ Goto(t, "record")
        /\ UNCHANGED <<latest, current, new, old, record, digest, command, proc, child, respawn,
                       cleaning, pushes, restarts, exits, shared, cut, late>>
    BY DEF Digest, disk, process, bounds, history
  <1>2. /\ pc[t] \in (Unrecorded \ Pivoting) \ {"config"}
        /\ "record" \in (Unrecorded \ Pivoting) \ {"config"} /\ "record" \in Stages
    BY <1>1 DEF Pivoting, Unrecorded, Stages, Updating
  <1>3. mine[t].got \in Versions BY <1>2 DEF Always, Pulled
  <1>4. /\ pc' \in [Tasks -> Stages] /\ mine' \in [Tasks -> TaskType] /\ Pulled'
        /\ pc'[t] = "record" /\ mine'[t].got = mine[t].got
        /\ \A u \in Tasks \ {t} : pc'[u] = pc[u]
    BY <1>1, <1>2, <1>3, ReadMoves DEF Always
  <1>5. Alone(t) => Alone(t)' BY <1>4, AloneStays
  <1>6. DirsAt(t) => DirsAt(t)'
    BY <1>1, <1>2, <1>4 DEF DirsAt, Whole, Image, Layers, Missing
  <1>7. DownAt(t) => DownAt(t)' BY <1>1, <1>2, <1>4 DEF DownAt
  <1>8. FitsAt(t) => FitsAt(t)'
    BY <1>1, <1>2, <1>4 DEF FitsAt, RecordedAt, Whole, Image, Missing, Nothing
  <1>9. faults' \in Nat BY <1>1, FaultTyped DEF ReadDigest, Always, TypeOK
  <1> QED BY <1>1, <1>4, <1>5, <1>6, <1>7, <1>8, <1>9
          DEF Keeps, At, Always, TypeOK, TaskType, RecordsImage, Nothing

LEMMA RecordKeeps == ASSUME Always, NEW t \in Tasks, Record(t) PROVE Keeps(t)
  <1>1. /\ pc[t] = "record" /\ Goto(t, "done") /\ UNCHANGED mine
        /\ UNCHANGED <<latest, current, new, old, digest, command, proc, child, respawn,
                       cleaning, pushes, restarts, exits, shared, late>>
        /\ \/ /\ record' = [cmd |-> mine[t].got, digest |-> mine[t].seen]
              /\ cut' = FALSE /\ UNCHANGED faults
           \/ Fault /\ cut' = TRUE /\ UNCHANGED record
    BY DEF Record, process, bounds
  <1>2. /\ pc[t] \in Unrecorded \ {"config"} /\ "done" \in Stages
        /\ "done" \notin Pivoting \cup Unrecorded \cup {"clear", "unpack", "wait", "place", "resume", "restart"}
    BY <1>1 DEF Pivoting, Unrecorded, Stages, Updating
  <1>3. mine[t].got \in Versions /\ mine[t].seen \in Versions \cup {0}
    BY <1>2 DEF Always, Pulled, TypeOK
  <1>4. /\ pc' \in [Tasks -> Stages] /\ mine' \in [Tasks -> TaskType] /\ Pulled'
        /\ pc'[t] = "done" /\ \A u \in Tasks \ {t} : pc'[u] = pc[u]
    BY <1>1, <1>2, GoOnMoves DEF Always
  <1>5. Alone(t) => Alone(t)' BY <1>4, AloneStays
  <1>6. DirsAt(t) => DirsAt(t)'
    BY <1>1, <1>2, <1>4 DEF DirsAt, Whole, Image, Layers, Missing
  <1>7. DownAt(t) => DownAt(t)' BY <1>1, <1>2, <1>4 DEF DownAt
  <1>8. DirsAt(t) /\ FitsAt(t) => FitsAt(t)'
    <2> SUFFICES ASSUME DirsAt(t), FitsAt(t) PROVE FitsAt(t)' OBVIOUS
    <2>1. command = mine[t].got /\ current = Image(mine[t].got) BY <1>2 DEF DirsAt, FitsAt
    <2>2. proc # "down" => Whole(child.rootfs) /\ child.rootfs = Image(child.cmd)
      BY <1>1 DEF FitsAt
    <2>3. proc # "down" \/ respawn => command # 0 BY DEF FitsAt
    <2>4. RecordedAt(t)' => record'.cmd = mine[t].got BY <1>1 DEF RecordedAt
    <2> QED BY <1>1, <1>2, <1>4, <2>1, <2>2, <2>3, <2>4 DEF FitsAt, Whole, Image, Layers
  <1>9. /\ faults' \in Nat /\ cut' \in BOOLEAN
        /\ record' \in [cmd : Versions \cup {0}, digest : Versions \cup {0}] /\ RecordsImage'
    <2>1. CASE /\ record' = [cmd |-> mine[t].got, digest |-> mine[t].seen]
               /\ cut' = FALSE /\ UNCHANGED faults
      BY <1>3, <2>1 DEF Always, TypeOK, RecordsImage
    <2>2. CASE Fault /\ cut' = TRUE /\ UNCHANGED record
      BY <2>2, FaultTyped DEF Always, TypeOK, RecordsImage, Nothing
    <2> QED BY <1>1, <2>1, <2>2
  <1> QED BY <1>1, <1>4, <1>5, <1>6, <1>7, <1>8, <1>9 DEF Keeps, At, Always, TypeOK, TaskType

LEMMA DoneKeeps == ASSUME Always, NEW t \in Tasks, Done(t) PROVE Keeps(t)
  <1>1. /\ pc[t] = "done" /\ Rest(t) /\ digest' = mine[t].seen
        /\ UNCHANGED <<latest, current, new, old, record, command, proc, child, respawn,
                       cleaning, faults, pushes, restarts, exits, shared, cut, late>>
    BY DEF Done, disk, process, bounds, history
  <1>2. cut' = (cut \/ pc[t] \in Unrecorded) BY <1>1 DEF Unrecorded, Always, TypeOK
  <1>3. GiveUp(t) BY <1>1, <1>2 DEF GiveUp
  <1>4. digest' \in Versions \cup {0} BY <1>1 DEF Always, TypeOK
  <1> QED BY <1>1, <1>3, <1>4, GiveUpKeeps DEF Keeps, Always, TypeOK, TaskType, RecordsImage, Nothing

LEMMA UpdateKeeps ==
  ASSUME Always, NEW t \in Tasks, DoUpdate(t)
  PROVE  Keeps(t) /\ Busy(t) /\ (shared' \/ UNCHANGED shared)
  <1>1. Busy(t)
    BY DEF DoUpdate, Pull, Clear, Unpack, Stop, Wait, Sweep, Retire, Place, Config, Start,
           Digest, Record, Done, Busy, Updating, Pivoting
  <1>2. shared' \/ UNCHANGED shared
    BY WaitKeeps DEF DoUpdate, Pull, Clear, Unpack, Stop, Sweep, Retire, Place, Config, Start,
                     Digest, Record, Done, history
  <1> QED BY <1>1, <1>2, PullKeeps, ClearKeeps, UnpackKeeps, StopKeeps, WaitKeeps, SweepKeeps, RetireKeeps,
             PlaceKeeps, ConfigKeeps, StartKeeps, DigestKeeps, RecordKeeps, DoneKeeps DEF DoUpdate

-----------------------------------------------------------------------------
(* An update begins: shared, unless nobody else is busy.                     *)

View == \E u \in Tasks : Alone(u) /\ At(u)

\* What one task sees alone, every task sees that is alone too.
LEMMA AtShifts ==
  ASSUME NEW t \in Tasks, NEW u \in Tasks, Alone(t), Alone(u), At(u)
  PROVE  At(t)
  <1>1. CASE t = u BY <1>1
  <1>2. CASE t # u
    <2>1. pc[t] \notin Updating \cup Starting /\ pc[u] \notin Updating \cup Starting
      BY <1>2 DEF Alone, Busy
    <2>2. /\ pc[t] \notin Pivoting \cup Unrecorded \cup {"unpack", "place", "wait", "resume", "restart"}
          /\ pc[u] \notin Pivoting \cup Unrecorded \cup {"unpack", "place", "wait", "resume", "restart"}
      BY <2>1 DEF Pivoting, Unrecorded, Updating, Starting
    <2>3. RecordedAt(t) <=> RecordedAt(u) BY <2>2 DEF RecordedAt
    <2>4. DirsAt(t) BY <2>2 DEF At, DirsAt
    <2>5. DownAt(t) BY <2>2 DEF At, DownAt
    <2>6. FitsAt(t) BY <2>2, <2>3 DEF At, FitsAt, Unrecorded
    <2> QED BY <2>4, <2>5, <2>6 DEF At
  <1> QED BY <1>1, <1>2

LEMMA UpdateBegins ==
  ASSUME ViewInv, NEW t \in Tasks, Update(t),
         pc[t] \notin Updating,
         \/ UNCHANGED mine /\ mine[t].layers = 0
         \/ mine' = [mine EXCEPT ![t] = Locals],
         UNCHANGED <<current, record, command, respawn, cut>>,
         UNCHANGED <<proc, child>> \/ proc' = "down"
  PROVE  /\ pc' \in [Tasks -> Stages] /\ mine' \in [Tasks -> TaskType] /\ Pulled'
         /\ shared' \in BOOLEAN
         /\ ~shared' => View'
  <1>1. /\ pc' \in [Tasks -> Stages] /\ mine' \in [Tasks -> TaskType] /\ Pulled'
        /\ pc'[t] = "pull" /\ \A u \in Tasks \ {t} : pc'[u] = pc[u]
    BY UpdateMoves DEF ViewInv, Always
  <1>2. shared' \in BOOLEAN /\ (~shared' => ~shared /\ Alone(t))
    BY DEF Update, Alone, Busy
  <1>3. ASSUME ~shared' PROVE Alone(t)' /\ At(t)'
    <2>1. Alone(t) /\ At(t) BY <1>2, <1>3, AtShifts DEF ViewInv
    <2>2. Alone(t)' BY <1>1, <2>1, AloneStays
    <2>3. pc'[t] \notin Pivoting \cup Unrecorded \cup {"unpack", "resume", "restart"}
      BY <1>1 DEF Pivoting, Unrecorded
    <2>4. pc[t] \notin Pivoting \cup Unrecorded /\ pc[t] # "wait" BY DEF Updating, Pivoting, Unrecorded
    <2>5. RecordedAt(t)' => RecordedAt(t) BY <2>4 DEF RecordedAt
    <2>6. DirsAt(t)' BY <2>1, <2>3 DEF At, DirsAt, Whole, Image, Layers, Missing, Pivoting
    <2>7. DownAt(t)' BY <2>1, <2>3, <2>4 DEF At, DownAt, Pivoting
    <2>8. FitsAt(t)'
      <3>0. FitsAt(t) BY <2>1 DEF At
      <3>1. RecordedAt(t)' /\ command' # 0 /\ current' # Missing => current' = Image(command')
        BY <3>0, <2>5 DEF FitsAt
      <3>2. proc' # "down" \/ respawn' => command' # 0 BY <3>0 DEF FitsAt
      <3>3. proc' # "down" => Whole(child'.rootfs) /\ (RecordedAt(t)' => child'.rootfs = Image(child'.cmd))
        BY <3>0, <2>5 DEF FitsAt
      <3>4. RecordedAt(t)' /\ record' # Nothing /\ current' # Missing => current' = Image(record'.cmd)
        BY <3>0, <2>5 DEF FitsAt
      <3> QED BY <2>3, <3>1, <3>2, <3>3, <3>4 DEF FitsAt, Unrecorded, Whole, Image, Missing, Nothing
    <2> QED BY <2>2, <2>6, <2>7, <2>8 DEF At
  <1>4. ~shared' => View' BY <1>3 DEF View
  <1> QED BY <1>1, <1>2, <1>4

LEMMA TriggerKeeps == ASSUME ViewInv, NEW t \in Hands, Trigger(t) PROVE ViewInv'
  <1>0. t \in Tasks BY DEF Tasks
  <1>1. /\ pc[t] = "unasked" /\ Update(t)
        /\ UNCHANGED <<latest, current, new, old, record, digest, command, proc, child, respawn, mine,
                       cleaning, faults, pushes, restarts, exits, cut, late>>
    BY DEF Trigger, disk, process, bounds
  <1>2. mine[t].layers = 0 BY <1>0, <1>1 DEF ViewInv, Always, Pulled, Pivoting, Unrecorded
  <1>3. pc[t] \notin Updating BY <1>1 DEF Updating, Pivoting
  <1>4. /\ pc' \in [Tasks -> Stages] /\ mine' \in [Tasks -> TaskType] /\ Pulled'
        /\ shared' \in BOOLEAN /\ (~shared' => View')
    BY <1>0, <1>1, <1>2, <1>3, UpdateBegins
  <1> QED BY <1>1, <1>4 DEF ViewInv, View, Always, TypeOK, TaskType, RecordsImage, Nothing

-----------------------------------------------------------------------------
(* The poll loop's own steps.                                                *)

LEMMA PollIsTask == Poll \in Tasks
  BY DEF Tasks

\* A step of a task that is not busy and does not get busy.
LEMMA IdleMoves ==
  ASSUME View, NEW t \in Tasks, ~Busy(t), ~Busy(t)',
         \A u \in Tasks \ {t} : pc'[u] = pc[u] /\ mine'[u] = mine[u],
         UNCHANGED <<current, new, record, command, proc, child, respawn, cut>>
  PROVE  View'
  <1>1. PICK u \in Tasks : Alone(u) /\ At(u) BY DEF View
  <1>2. Alone(u)' BY <1>1 DEF Alone, Busy
  <1>3. CASE u # t
    <2>1. pc'[u] = pc[u] /\ mine'[u] = mine[u] BY <1>3
    <2> QED BY <1>1, <1>2, <2>1
            DEF View, At, DirsAt, DownAt, FitsAt, RecordedAt, Whole, Image, Layers, Missing, Nothing,
                Pivoting, Unrecorded
  <1>4. CASE u = t
    <2>1. /\ pc[t] \notin Pivoting \cup Unrecorded \cup {"unpack", "place", "wait", "resume", "restart"}
          /\ pc'[t] \notin Pivoting \cup Unrecorded \cup {"unpack", "place", "wait", "resume", "restart"}
      BY DEF Busy, Pivoting, Unrecorded, Updating, Starting
    <2>2. DirsAt(t)' BY <1>1, <1>4, <2>1 DEF At, DirsAt, Whole, Image, Layers, Missing, Pivoting, Unrecorded
    <2>3. DownAt(t)' BY <1>1, <1>4, <2>1 DEF At, DownAt, Pivoting
    <2>4. FitsAt(t)'
      BY <1>1, <1>4, <2>1
      DEF At, FitsAt, RecordedAt, Whole, Image, Layers, Missing, Nothing, Unrecorded
    <2> QED BY <1>2, <1>4, <2>2, <2>3, <2>4 DEF View, At
  <1> QED BY <1>3, <1>4

LEMMA BootKeeps == ASSUME ViewInv, Boot PROVE ViewInv'
  <1>1. /\ pc[Poll] = "boot"
        /\ UNCHANGED <<latest, current, new, old, record, digest, command, proc, child, respawn, mine,
                       cleaning, faults, pushes, restarts, exits, cut, late>>
        /\ \/ record # Nothing /\ Goto(Poll, "resume") /\ UNCHANGED shared
           \/ Update(Poll)
    BY DEF Boot, disk, process, bounds
  <1>2. mine[Poll].layers = 0 BY PollIsTask, <1>1 DEF ViewInv, Always, Pulled, Pivoting, Unrecorded
  <1>3. pc[Poll] \notin Updating BY <1>1 DEF Updating, Pivoting
  <1>4. CASE Update(Poll)
    <2>1. /\ pc' \in [Tasks -> Stages] /\ mine' \in [Tasks -> TaskType] /\ Pulled'
          /\ shared' \in BOOLEAN /\ (~shared' => View')
      BY <1>1, <1>2, <1>3, <1>4, PollIsTask, UpdateBegins
    <2> QED BY <1>1, <2>1 DEF ViewInv, View, Always, TypeOK, TaskType, RecordsImage, Nothing
  <1>5. CASE record # Nothing /\ Goto(Poll, "resume") /\ UNCHANGED shared
    <2>1. "resume" \in Stages /\ "resume" \in Starting
          /\ "resume" \notin Pivoting \cup Unrecorded \cup {"clear", "unpack", "done"}
      BY DEF Stages, Starting, Pivoting, Unrecorded
    <2>2. /\ pc' \in [Tasks -> Stages] /\ mine' \in [Tasks -> TaskType] /\ Pulled'
          /\ pc'[Poll] = "resume" /\ \A u \in Tasks \ {Poll} : pc'[u] = pc[u]
      BY <1>1, <1>2, <1>5, <2>1, PollIsTask, GoOnMoves DEF ViewInv, Always
    <2>3. ~shared => Alone(Poll) /\ At(Poll)
      <3>1. Busy(Poll) BY <1>1 DEF Busy, Starting
      <3> QED BY <3>1, PollIsTask, AtShifts DEF ViewInv, Alone
    <2>4. Alone(Poll) => Alone(Poll)' BY <2>2, PollIsTask, AloneStays
    <2>5. At(Poll) => At(Poll)'
      BY <1>1, <1>5, <2>1, <2>2
      DEF At, DirsAt, DownAt, FitsAt, RecordedAt, Whole, Image, Layers, Missing, Nothing,
          Pivoting, Unrecorded
    <2> QED BY <1>1, <1>5, <2>2, <2>3, <2>4, <2>5, PollIsTask
            DEF ViewInv, Always, TypeOK, TaskType, RecordsImage, Nothing
  <1> QED BY <1>1, <1>4, <1>5

LEMMA ResumeKeeps == ASSUME ViewInv, Resume PROVE ViewInv'
  <1>1. /\ pc[Poll] = "resume" /\ command' = record.cmd /\ Goto(Poll, "restart")
        /\ UNCHANGED <<latest, current, new, old, record, digest, proc, child, respawn, mine,
                       cleaning, faults, pushes, restarts, exits, shared, cut, late>>
    BY DEF Resume, disk, bounds, history
  <1>2. mine[Poll].layers = 0 BY PollIsTask, <1>1 DEF ViewInv, Always, Pulled, Pivoting, Unrecorded
  <1>3. "restart" \in Stages /\ "restart" \notin Pivoting \cup Unrecorded \cup {"clear", "unpack", "done"}
    BY DEF Stages, Starting, Pivoting, Unrecorded
  <1>4. /\ pc' \in [Tasks -> Stages] /\ mine' \in [Tasks -> TaskType] /\ Pulled'
        /\ pc'[Poll] = "restart" /\ \A u \in Tasks \ {Poll} : pc'[u] = pc[u]
    BY <1>1, <1>2, <1>3, PollIsTask, GoOnMoves DEF ViewInv, Always
  <1>5. ~shared => Alone(Poll) /\ At(Poll)
    <2>1. Busy(Poll) BY <1>1 DEF Busy, Starting
    <2> QED BY <2>1, PollIsTask, AtShifts DEF ViewInv, Alone
  <1>6. Alone(Poll) => Alone(Poll)' BY <1>4, PollIsTask, AloneStays
  <1>7. DirsAt(Poll) => DirsAt(Poll)' BY <1>1, <1>3, <1>4 DEF DirsAt, Whole, Image, Layers, Missing
  <1>8. DownAt(Poll) => DownAt(Poll)' BY <1>1, <1>3, <1>4 DEF DownAt
  <1>9. FitsAt(Poll) => FitsAt(Poll)'
    <2> SUFFICES ASSUME FitsAt(Poll) PROVE FitsAt(Poll)' OBVIOUS
    <2>1. record # Nothing /\ record.cmd \in Versions BY <1>1 DEF FitsAt, ViewInv, Always, RecordsImage
    <2>2. record.cmd # 0 BY <2>1, UpdaterAssumption
    <2>3. RecordedAt(Poll) <=> RecordedAt(Poll)' BY <1>1, <1>3, <1>4 DEF RecordedAt, Unrecorded
    <2>4. RecordedAt(Poll) /\ current # Missing => current = Image(record.cmd) BY <2>1 DEF FitsAt
    <2> QED BY <1>1, <1>3, <1>4, <2>1, <2>2, <2>3, <2>4 DEF FitsAt, Whole, Image, Layers, Missing, Nothing, Unrecorded
  <1>10. command' \in Versions \cup {0} BY <1>1 DEF ViewInv, Always, TypeOK
  <1> QED BY <1>1, <1>4, <1>5, <1>6, <1>7, <1>8, <1>9, <1>10, PollIsTask
          DEF ViewInv, At, Always, TypeOK, TaskType, RecordsImage, Nothing

LEMMA RestartKeeps == ASSUME ViewInv, Restart PROVE ViewInv'
  <1>1. /\ pc[Poll] = "restart"
        /\ UNCHANGED <<latest, current, new, old, record, command, respawn, mine,
                       cleaning, pushes, restarts, exits, cut, late>>
        /\ \/ /\ proc # "up" /\ Spawn /\ digest' = record.digest
              /\ Goto(Poll, "idle") /\ UNCHANGED <<faults, shared>>
           \/ StartFails /\ Update(Poll) /\ UNCHANGED digest
    BY DEF Restart, disk, bounds
  <1>2. mine[Poll].layers = 0 BY PollIsTask, <1>1 DEF ViewInv, Always, Pulled, Pivoting, Unrecorded
  <1>3. /\ proc' \in {"down", "up", "stopping"}
        /\ child' \in [cmd : Versions \cup {0}, rootfs : Contents]
    BY <1>1, SpawnTyped DEF ViewInv, Always
  <1>4. CASE StartFails /\ Update(Poll) /\ UNCHANGED digest
    <2>1. pc[Poll] \notin Updating BY <1>1 DEF Updating, Pivoting
    <2>2. UNCHANGED <<proc, child>> \/ proc' = "down" BY <1>4 DEF StartFails, SpawnFails
    <2>3. faults' \in Nat BY <1>4, FaultTyped DEF ViewInv, Always, TypeOK, StartFails, SpawnFails, MayFail
    <2>4. /\ pc' \in [Tasks -> Stages] /\ mine' \in [Tasks -> TaskType] /\ Pulled'
          /\ shared' \in BOOLEAN /\ (~shared' => View')
      BY <1>1, <1>2, <1>4, <2>1, <2>2, PollIsTask, UpdateBegins
    <2> QED BY <1>1, <1>3, <1>4, <2>3, <2>4 DEF ViewInv, View, Always, TypeOK, TaskType, RecordsImage, Nothing
  <1>5. CASE /\ proc # "up" /\ Spawn /\ digest' = record.digest
             /\ Goto(Poll, "idle") /\ UNCHANGED <<faults, shared>>
    <2>1. "idle" \in Stages /\ "idle" \notin Pivoting \cup Unrecorded \cup {"clear", "unpack", "done"}
      BY DEF Stages, Pivoting, Unrecorded
    <2>2. /\ pc' \in [Tasks -> Stages] /\ mine' \in [Tasks -> TaskType] /\ Pulled'
          /\ pc'[Poll] = "idle" /\ \A u \in Tasks \ {Poll} : pc'[u] = pc[u]
      BY <1>1, <1>2, <1>5, <2>1, PollIsTask, GoOnMoves DEF ViewInv, Always
    <2>3. ~shared => Alone(Poll) /\ At(Poll)
      <3>1. Busy(Poll) BY <1>1 DEF Busy, Starting
      <3> QED BY <3>1, PollIsTask, AtShifts DEF ViewInv, Alone
    <2>4. Alone(Poll) => Alone(Poll)' BY <2>2, PollIsTask, AloneStays
    <2>5. DirsAt(Poll) => DirsAt(Poll)' BY <1>1, <2>1, <2>2 DEF DirsAt, Whole, Image, Layers, Missing
    <2>6. proc' = "up" /\ child' = [cmd |-> command, rootfs |-> current] /\ current \notin {Missing, {}}
      BY <1>5 DEF Spawn
    <2>7. DownAt(Poll)' BY <2>1, <2>2, <2>6 DEF DownAt
    <2>8. DirsAt(Poll) /\ FitsAt(Poll) => FitsAt(Poll)'
      <3> SUFFICES ASSUME DirsAt(Poll), FitsAt(Poll) PROVE FitsAt(Poll)' OBVIOUS
      <3>1. record # Nothing /\ record.cmd \in Versions /\ command = record.cmd
        BY <1>1 DEF FitsAt, ViewInv, Always, RecordsImage
      <3>2. command # 0 BY <3>1, UpdaterAssumption
      <3>3. Whole(current) BY <2>6 DEF DirsAt
      <3>4. RecordedAt(Poll)' => current = Image(command)
        BY <1>1, <2>6, <3>2 DEF FitsAt, RecordedAt, Unrecorded
      <3> QED BY <1>1, <2>1, <2>2, <2>6, <3>1, <3>2, <3>3, <3>4
              DEF FitsAt, Whole, Image, Layers, Missing, Nothing, Unrecorded
    <2>9. digest' \in Versions \cup {0} BY <1>5 DEF ViewInv, Always, TypeOK
    <2> QED BY <1>1, <1>3, <1>5, <2>2, <2>3, <2>4, <2>5, <2>7, <2>8, <2>9, PollIsTask
            DEF ViewInv, At, Always, TypeOK, TaskType, RecordsImage, Nothing
  <1> QED BY <1>1, <1>4, <1>5

LEMMA PollsKeep == ASSUME ViewInv, PollWakes \/ PollCheck \/ PollCompare PROVE ViewInv'
  <1>1. /\ pc[Poll] \in {"idle", "check", "compare"}
        /\ UNCHANGED <<latest, current, new, old, record, digest, command, proc, child, respawn,
                       cleaning, pushes, restarts, exits, cut, late>>
        /\ \/ Goto(Poll, "check") /\ UNCHANGED <<mine, faults, shared>>
           \/ Goto(Poll, "compare") /\ ReadDigest(Poll) /\ UNCHANGED shared
           \/ Rest(Poll) /\ UNCHANGED <<faults, shared>>
           \/ Update(Poll) /\ mine' = [mine EXCEPT ![Poll] = Locals] /\ UNCHANGED faults
    BY DEF PollWakes, PollCheck, PollCompare, disk, process, bounds, history
  <1>2. mine[Poll].layers = 0 BY PollIsTask, <1>1 DEF ViewInv, Always, Pulled, Pivoting, Unrecorded
  <1>3. ~Busy(Poll) BY <1>1 DEF Busy, Updating, Starting, Pivoting
  <1>4. ASSUME UNCHANGED shared, faults' \in Nat,
               pc'[Poll] \in {"idle", "check", "compare", "answered"},
               pc' \in [Tasks -> Stages], mine' \in [Tasks -> TaskType], Pulled',
               \A u \in Tasks \ {Poll} : pc'[u] = pc[u] /\ mine'[u] = mine[u]
        PROVE  ViewInv'
    <2>1. ~Busy(Poll)' BY <1>4 DEF Busy, Updating, Starting, Pivoting
    <2>2. View => View' BY <1>1, <1>3, <1>4, <2>1, PollIsTask, IdleMoves
    <2> QED BY <1>1, <1>4, <2>2 DEF ViewInv, View, Always, TypeOK, TaskType, RecordsImage, Nothing
  <1>5. /\ "check" \in Stages /\ "compare" \in Stages
        /\ "check" \notin Pivoting \cup Unrecorded \cup {"clear", "unpack", "done"}
        /\ "compare" \notin Pivoting \cup Unrecorded \cup {"clear", "unpack", "done"}
    BY DEF Stages, Pivoting, Unrecorded
  <1>6. mine \in [Tasks -> TaskType] /\ faults \in Nat /\ TypeOK /\ Pulled
    BY DEF ViewInv, Always, TypeOK, TaskType
  <1>7. CASE Goto(Poll, "check") /\ UNCHANGED <<mine, faults, shared>>
    <2>1. /\ pc' \in [Tasks -> Stages] /\ mine' \in [Tasks -> TaskType] /\ Pulled'
          /\ pc'[Poll] = "check" /\ \A u \in Tasks \ {Poll} : pc'[u] = pc[u]
      BY <1>2, <1>5, <1>6, <1>7, PollIsTask, GoOnMoves
    <2> QED BY <1>4, <1>6, <1>7, <2>1
  <1>8. CASE Goto(Poll, "compare") /\ ReadDigest(Poll) /\ UNCHANGED shared
    <2>1. /\ pc' \in [Tasks -> Stages] /\ mine' \in [Tasks -> TaskType] /\ Pulled'
          /\ pc'[Poll] = "compare" /\ \A u \in Tasks \ {Poll} : pc'[u] = pc[u]
      BY <1>2, <1>5, <1>6, <1>8, PollIsTask, ReadMoves
    <2>2. \A u \in Tasks \ {Poll} : mine'[u] = mine[u] BY <1>6, <1>8 DEF ReadDigest
    <2>3. faults' \in Nat BY <1>6, <1>8, FaultTyped DEF ReadDigest
    <2> QED BY <1>4, <1>8, <2>1, <2>2, <2>3
  <1>9. CASE Rest(Poll) /\ UNCHANGED <<faults, shared>>
    <2>1. /\ pc' \in [Tasks -> Stages] /\ mine' \in [Tasks -> TaskType] /\ Pulled'
          /\ pc'[Poll] \in {"idle", "answered"} /\ \A u \in Tasks \ {Poll} : pc'[u] = pc[u]
      BY <1>6, <1>9, PollIsTask, RestMoves
    <2>2. \A u \in Tasks \ {Poll} : mine'[u] = mine[u] BY <1>6, <1>9 DEF Rest
    <2> QED BY <1>4, <1>6, <1>9, <2>1, <2>2
  <1>10. CASE Update(Poll) /\ mine' = [mine EXCEPT ![Poll] = Locals] /\ UNCHANGED faults
    <2>1. pc[Poll] \notin Updating BY <1>3 DEF Busy
    <2>2. /\ pc' \in [Tasks -> Stages] /\ mine' \in [Tasks -> TaskType] /\ Pulled'
          /\ shared' \in BOOLEAN /\ (~shared' => View')
      BY <1>1, <1>10, <2>1, PollIsTask, UpdateBegins
    <2> QED BY <1>1, <1>10, <2>2 DEF ViewInv, View, Always, TypeOK, TaskType, RecordsImage, Nothing
  <1> QED BY <1>1, <1>7, <1>8, <1>9, <1>10

-----------------------------------------------------------------------------
(* Around the updater.                                                       *)

LEMMA AroundKeeps ==
  ASSUME ViewInv, Clean \/ Push \/ ChildStopped \/ ChildExits PROVE ViewInv'
  <1>1. UNCHANGED <<current, new, record, command, pc, mine, shared, cut>>
    BY DEF Clean, Push, ChildStopped, ChildExits, disk, process, task, history
  <1>2. Always'
    <2>1. CASE Clean
      <3>1. old' \in Less(old) \cup {old} => old' \in Contents BY LessTyped DEF ViewInv, Always, TypeOK
      <3> QED BY <1>1, <2>1, <3>1, FaultTyped
              DEF Clean, disk, process, task, bounds, ViewInv, Always, TypeOK, Pulled, RecordsImage, Nothing
    <2>2. CASE Push
      BY <1>1, <2>2
      DEF Push, disk, process, task, history, ViewInv, Always, TypeOK, Pulled, RecordsImage, Nothing
    <2>3. CASE ChildStopped \/ ChildExits
      <3>1. NoChild \in [cmd : Versions \cup {0}, rootfs : Contents] BY EmptyTyped DEF NoChild
      <3> QED BY <1>1, <2>3, <3>1
              DEF ChildStopped, ChildExits, disk, process, task, bounds, history, ViewInv, Always, TypeOK,
                  Pulled, RecordsImage, Nothing
    <2> QED BY <2>1, <2>2, <2>3
  <1>3. /\ UNCHANGED <<proc, child, respawn>> \/ proc' = "down"
        /\ respawn' => respawn \/ proc # "down"
    BY DEF Clean, Push, ChildStopped, ChildExits, process
  <1>4. ASSUME NEW u \in Tasks, Alone(u), At(u) PROVE Alone(u)' /\ At(u)'
    <2>1. Alone(u)' BY <1>1, <1>4 DEF Alone, Busy
    <2>2. DirsAt(u)' BY <1>1, <1>4 DEF At, DirsAt, Whole, Image, Layers, Missing, Pivoting, Unrecorded
    <2>3. DownAt(u)' BY <1>1, <1>3, <1>4 DEF At, DownAt, Pivoting
    <2>4. FitsAt(u)'
      BY <1>1, <1>3, <1>4 DEF At, FitsAt, RecordedAt, Whole, Image, Layers, Missing, Nothing, Unrecorded
    <2> QED BY <2>1, <2>2, <2>3, <2>4 DEF At
  <1> QED BY <1>1, <1>2, <1>4 DEF ViewInv

\* The exit handler's spawn: of the rootfs in place, with its command, unless a
\* pivot is under way.
LEMMA RespawnKeeps == ASSUME ViewInv, Respawn PROVE ViewInv'
  <1>1. /\ respawn /\ respawn' = FALSE
        /\ (Spawn /\ UNCHANGED faults) \/ SpawnFails
        /\ shared' = (shared \/ proc # "down" \/ \E t \in Tasks : pc[t] \in Pivoting)
        /\ UNCHANGED <<latest, current, new, old, record, digest, command, pc, mine, cleaning,
                       pushes, restarts, exits, cut, late>>
    BY DEF Respawn, disk, task, bounds
  <1>2. Always'
    <2>1. /\ proc' \in {"down", "up", "stopping"}
          /\ child' \in [cmd : Versions \cup {0}, rootfs : Contents]
      BY <1>1, SpawnTyped DEF ViewInv, Always
    <2>2. faults' \in Nat BY <1>1, FaultTyped DEF SpawnFails, MayFail, ViewInv, Always, TypeOK
    <2> QED BY <1>1, <2>1, <2>2 DEF ViewInv, Always, TypeOK, Pulled, RecordsImage, Nothing
  <1>3. ASSUME NEW u \in Tasks, Alone(u), At(u), ~shared' PROVE Alone(u)' /\ At(u)'
    <2>1. ~shared /\ proc = "down" /\ pc[u] \notin Pivoting BY <1>1, <1>3
    <2>2. Alone(u)' BY <1>1, <1>3 DEF Alone, Busy
    <2>3. DirsAt(u)' BY <1>1, <1>3 DEF At, DirsAt, Whole, Image, Layers, Missing, Pivoting, Unrecorded
    <2>4. \/ proc' = "down"
          \/ proc' = "up" /\ child' = [cmd |-> command, rootfs |-> current] /\ current # Missing
      BY <1>1 DEF Spawn, SpawnFails
    <2>5. DownAt(u)' BY <1>1, <2>1, <2>4 DEF DownAt, Pivoting
    <2>6. command # 0 /\ (current # Missing => Whole(current)) BY <1>1, <1>3 DEF At, FitsAt, DirsAt
    <2>7. current # Missing /\ RecordedAt(u) => current = Image(command)
      BY <1>3, <2>6 DEF At, FitsAt
    <2>8. pc[u] \in {"digest", "record"} /\ current # Missing => current = Image(command)
      BY <1>3 DEF At, FitsAt, DirsAt, Unrecorded
    <2>9. FitsAt(u)'
      <3>1. proc' # "down" => Whole(child'.rootfs) BY <2>4, <2>6
      <3>2. /\ proc' # "down" /\ RecordedAt(u) => child'.rootfs = Image(child'.cmd)
            /\ proc' # "down" /\ pc[u] \in {"digest", "record"} => child'.rootfs = Image(child'.cmd)
        BY <2>4, <2>7, <2>8
      <3>3. RecordedAt(u)' <=> RecordedAt(u) BY <1>1 DEF RecordedAt, Unrecorded
      <3>4. FitsAt(u) BY <1>3 DEF At
      <3>5. RecordedAt(u) /\ record # Nothing /\ current # Missing => current = Image(record.cmd)
        BY <3>4 DEF FitsAt
      <3>6. /\ pc[u] \in Unrecorded \ {"config"} => command = mine[u].got
            /\ pc[u] \in {"resume", "restart"} => record # Nothing
            /\ pc[u] = "restart" => command = record.cmd
        BY <3>4 DEF FitsAt
      <3>7. proc' # "down" => Whole(child.rootfs)' BY <3>1 DEF Whole, Image, Layers
      <3>8. /\ proc' # "down" /\ RecordedAt(u)' => child'.rootfs = Image(child.cmd)'
            /\ proc' # "down" /\ pc'[u] \in {"digest", "record"} => child'.rootfs = Image(child.cmd)'
        BY <1>1, <3>2, <3>3 DEF Image, Layers
      <3>9. /\ RecordedAt(u)' /\ command' # 0 /\ current' # Missing => current' = Image(command)'
            /\ RecordedAt(u)' /\ record' # Nothing /\ current' # Missing => current' = Image(record.cmd)'
        BY <1>1, <2>7, <3>3, <3>5 DEF Image, Layers, Missing, Nothing
      <3> QED BY <1>1, <2>6, <3>6, <3>7, <3>8, <3>9 DEF FitsAt, Missing, Nothing, Unrecorded
    <2> QED BY <2>2, <2>3, <2>5, <2>9 DEF At
  <1>4. ~shared' => ~shared BY <1>1
  <1> QED BY <1>2, <1>3, <1>4 DEF ViewInv

\* What stormd finds when it starts again: its disk, as it was left.
LEMMA StormdRestartsKeeps == ASSUME ViewInv, StormdRestarts PROVE ViewInv'
  <1>1. /\ command' = 0 /\ proc' = "down" /\ child' = NoChild /\ respawn' = FALSE
        /\ digest' = 0 /\ cleaning' = FALSE /\ restarts' = restarts + 1
        /\ pc' = [t \in Tasks |-> IF t = Poll THEN "boot"
                                  ELSE IF pc[t] = "unasked" THEN "unasked" ELSE "answered"]
        /\ mine' = [t \in Tasks |-> Locals]
        /\ cut' = (cut \/ \E t \in Tasks : pc[t] \in Unrecorded)
        /\ UNCHANGED <<latest, current, new, old, record, pushes, faults, exits, shared, late>>
    BY DEF StormdRestarts, disk
  <1>2. Always'
    <2>1. pc' \in [Tasks -> Stages] BY <1>1 DEF Stages, Starting
    <2>2. mine' \in [Tasks -> TaskType] BY <1>1, LocalsTyped
    <2>3. Pulled' BY <1>1 DEF Pulled, Locals, Pivoting, Unrecorded
    <2>4. NoChild \in [cmd : Versions \cup {0}, rootfs : Contents] BY EmptyTyped DEF NoChild
    <2>5. RecordsImage' BY <1>1 DEF ViewInv, Always, RecordsImage, Nothing
    <2>6. cut' \in BOOLEAN BY <1>1
    <2>7. TypeOK'
      <3>1. /\ latest' \in Versions /\ current' \in Contents /\ new' \in Contents /\ old' \in Contents
            /\ record' \in [cmd : Versions \cup {0}, digest : Versions \cup {0}]
            /\ shared' \in BOOLEAN /\ late' \in BOOLEAN
            /\ pushes' \in Nat /\ faults' \in Nat /\ restarts' \in Nat /\ exits' \in Nat
        BY <1>1 DEF ViewInv, Always, TypeOK
      <3>2. /\ digest' \in Versions \cup {0} /\ command' \in Versions \cup {0} /\ proc' = "down"
            /\ respawn' \in BOOLEAN /\ cleaning' \in BOOLEAN
        BY <1>1
      <3>3. child' \in [cmd : Versions \cup {0}, rootfs : Contents] BY <1>1, <2>4
      <3> QED BY <2>1, <2>2, <2>6, <3>1, <3>2, <3>3 DEF TypeOK, TaskType
    <2> QED BY <2>3, <2>5, <2>7 DEF Always
  <1>3. ASSUME NEW u \in Tasks, At(u) PROVE Alone(Poll)' /\ At(Poll)'
    <2>1. Alone(Poll)' BY <1>1 DEF Alone, Busy, Updating, Starting, Pivoting
    <2>2. pc'[Poll] = "boot" BY <1>1, PollIsTask
    <2>3. cut' \/ (~cut /\ pc[u] \notin Unrecorded) BY <1>1
    <2>4. RecordedAt(Poll)' => RecordedAt(u) BY <1>1, <2>2, <2>3 DEF RecordedAt, Unrecorded
    <2>5. DirsAt(Poll)' BY <1>1, <1>3, <2>2 DEF At, DirsAt, Whole, Image, Layers, Missing, Pivoting, Unrecorded
    <2>6. DownAt(Poll)' BY <1>1, <2>2 DEF DownAt, Pivoting
    <2>7. FitsAt(Poll)'
      BY <1>1, <1>3, <2>2, <2>4 DEF At, FitsAt, Whole, Image, Layers, Missing, Nothing, Unrecorded
    <2> QED BY <2>1, <2>5, <2>6, <2>7 DEF At
  <1> QED BY <1>1, <1>2, <1>3, PollIsTask DEF ViewInv

-----------------------------------------------------------------------------
(* The theorems.                                                             *)

LEMMA StepView == ViewInv /\ [Next]_vars => ViewInv'
  <1> SUFFICES ASSUME ViewInv, [Next]_vars PROVE ViewInv' OBVIOUS
  <1>1. CASE PollLoop BY <1>1, BootKeeps, ResumeKeeps, RestartKeeps, PollsKeep DEF PollLoop
  <1>2. CASE Clean \/ Push \/ ChildStopped \/ ChildExits BY <1>2, AroundKeeps
  <1>3. CASE Respawn BY <1>3, RespawnKeeps
  <1>4. CASE StormdRestarts BY <1>4, StormdRestartsKeeps
  <1>5. ASSUME NEW t \in Tasks, DoUpdate(t) PROVE ViewInv'
    <2>1. Keeps(t) /\ Busy(t) /\ (shared' \/ UNCHANGED shared) BY <1>5, UpdateKeeps DEF ViewInv
    <2>2. ~shared => Alone(t) /\ At(t) BY <2>1, AtShifts DEF ViewInv, Alone
    <2> QED BY <2>1, <2>2 DEF Keeps, ViewInv
  <1>6. ASSUME NEW t \in Hands, Trigger(t) PROVE ViewInv' BY <1>6, TriggerKeeps
  <1>7. CASE UNCHANGED vars
    <2>1. UNCHANGED <<latest, current, new, old, record, digest, command, proc, child, respawn, pc, mine,
                      cleaning, faults, pushes, restarts, exits, shared, cut, late>>
      BY <1>7 DEF vars, disk, process, task, bounds, history
    <2>2. Always' BY <2>1 DEF ViewInv, Always, TypeOK, Pulled, RecordsImage, Nothing
    <2>3. ASSUME NEW u \in Tasks, Alone(u), At(u) PROVE Alone(u)' /\ At(u)'
      BY <2>1, <2>3
      DEF Alone, Busy, At, DirsAt, DownAt, FitsAt, RecordedAt, Whole, Image, Layers, Missing, Nothing,
          Pivoting, Unrecorded
    <2> QED BY <2>1, <2>2, <2>3 DEF ViewInv
  <1> QED BY <1>1, <1>2, <1>3, <1>4, <1>5, <1>6, <1>7 DEF Next

\* One update at a time has the directories, the process is down while they are
\* moved, and the supervisor's command is of the rootfs in place: through faults,
\* exits and restarts of stormd, until two tasks overlap.
THEOREM UpdaterInvCorrect == Spec => []UpdaterInv
  <1>1. Spec => []ViewInv BY InitView, StepView, PTL DEF Spec
  <1> QED BY <1>1, ViewImplies, PTL

\* What runs is always one whole image, and, unless a pivot was cut off from its
\* record, has that image's own command (do_update, pivot, start_recorded).
THEOREM ChildFitsCorrect == Spec => []ChildFits
  <1>1. UpdaterInv => ChildFits BY DEF UpdaterInv
  <1> QED BY <1>1, UpdaterInvCorrect, PTL

\* While stormd runs on and its pivots are recorded, the recorded command is of the
\* rootfs in place whenever no pivot is under way, so of the one it will be used in
\* if stormd then stops and starts again (Record, start_recorded).
THEOREM RecordFitsCorrect == Spec => []RecordFits
  <1>1. UpdaterInv => RecordFits BY DEF UpdaterInv
  <1> QED BY <1>1, UpdaterInvCorrect, PTL

-----------------------------------------------------------------------------
(* The updater implements ImageStore.                                        *)

\* Rootfs, of any directory.
RootfsIn(dir) ==
  IF dir = Missing THEN 0
  ELSE IF Whole(dir) THEN CHOOSE v \in Versions : dir = Image(v) ELSE -1

LEMMA RootfsOfMissing == RootfsIn(Missing) = 0
  BY DEF RootfsIn

\* Images are told apart by their layers.
LEMMA RootfsOfImage == ASSUME NEW v \in Versions PROVE RootfsIn(Image(v)) = v
  <1>1. 1 \in Layers /\ 0 \notin Versions BY UpdaterAssumption DEF Layers
  <1>2. <<v, 1>> \in Image(v) BY <1>1 DEF Image
  <1>3. Image(v) # Missing
    <2>1. <<v, 1>> # <<0, 0>> BY <1>1
    <2> QED BY <1>2, <2>1 DEF Missing
  <1>4. ASSUME NEW w \in Versions, Image(v) = Image(w) PROVE v = w
    <2>1. <<v, 1>> \in {w} \X Layers BY <1>2, <1>4 DEF Image
    <2> QED BY <2>1
  <1>5. Whole(Image(v)) BY DEF Whole
  <1> QED BY <1>3, <1>4, <1>5 DEF RootfsIn

LEMMA RootfsOfWhole == ASSUME NEW dir, Whole(dir) PROVE RootfsIn(dir) \in Versions /\ RootfsIn(dir) # 0
  <1>1. PICK v \in Versions : dir = Image(v) BY DEF Whole
  <1> QED BY <1>1, RootfsOfImage, UpdaterAssumption

\* What steps ImageStore allows while nothing is shared.
StoreSteps ==
  \/ UNCHANGED <<current, proc>>
  \/ current' = current /\ proc' = "down"
  \/ current' = current /\ proc # "down" /\ proc' # "down"
  \/ current' = current /\ Whole(current) /\ proc' = "up"
  \/ proc = "down" /\ proc' = "down" /\ current' = Missing
  \/ proc = "down" /\ proc' = "down" /\ current = Missing /\ Whole(current)'

LEMMA StoreStep ==
  ASSUME StoreSteps, UNCHANGED shared
  PROVE  [Store!Next]_(Store!vars)
  <1>1. Rootfs = RootfsIn(current) BY DEF Rootfs, RootfsIn
  <1>2. Rootfs' = RootfsIn(current') BY DEF Rootfs, RootfsIn, Whole, Image, Layers, Missing
  <1>3. CASE UNCHANGED <<current, proc>> \/ (current' = current /\ proc # "down" /\ proc' # "down")
    <2>1. Rootfs' = Rootfs /\ (proc' # "down") = (proc # "down") BY <1>1, <1>2, <1>3
    <2> QED BY <2>1 DEF Store!vars
  <1>4. CASE current' = current /\ proc' = "down"
    <2>1. Rootfs' = Rootfs /\ (proc' # "down") = FALSE BY <1>1, <1>2, <1>4
    <2> QED BY <2>1 DEF Store!Next, Store!End
  <1>5. CASE current' = current /\ Whole(current) /\ proc' = "up"
    <2>1. Rootfs' = Rootfs /\ Rootfs # 0 /\ (proc' # "down") = TRUE
      BY <1>1, <1>2, <1>5, RootfsOfWhole
    <2> QED BY <2>1 DEF Store!Next, Store!Run
  <1>6. CASE proc = "down" /\ proc' = "down" /\ current' = Missing
    <2>1. Rootfs' = 0 BY <1>2, <1>6, RootfsOfMissing
    <2> QED BY <1>6, <2>1 DEF Store!Next, Store!TakeAway
  <1>7. CASE proc = "down" /\ proc' = "down" /\ current = Missing /\ Whole(current)'
    <2>1. Rootfs = 0 BY <1>1, <1>7, RootfsOfMissing
    <2>2. Whole(current') BY <1>7 DEF Whole, Image, Layers
    <2>3. Rootfs' \in Versions BY <1>2, <2>2, RootfsOfWhole
    <2> QED BY <1>7, <2>1, <2>3 DEF Store!Next, Store!PutInPlace
  <1> QED BY <1>3, <1>4, <1>5, <1>6, <1>7 DEF StoreSteps

\* The steps of an update, with nobody beside it.
LEMMA UpdateStores ==
  ASSUME NEW t \in Tasks, TypeOK, Pulled, At(t), DoUpdate(t) PROVE StoreSteps
  <1>1. CASE Pull(t) \/ Clear(t) \/ Unpack(t) \/ Wait(t) \/ Sweep(t) \/ Config(t) \/ Digest(t)
             \/ Record(t) \/ Done(t)
    <2>1. UNCHANGED <<current, proc>>
      BY <1>1 DEF Pull, Clear, Unpack, Wait, Sweep, Config, Digest, Record, Done, disk, process
    <2> QED BY <2>1 DEF StoreSteps
  <1>2. CASE Stop(t) BY <1>2 DEF Stop, disk, StoreSteps
  <1>3. CASE Retire(t)
    <2>1. proc = "down" BY <1>3 DEF Retire, At, DownAt, Pivoting
    <2> QED BY <1>3, <2>1 DEF Retire, process, StoreSteps
  <1>4. CASE Place(t)
    <2>1. proc = "down" /\ current = Missing BY <1>4 DEF Place, At, DownAt, DirsAt, Pivoting
    <2>2. new = Image(mine[t].got) /\ mine[t].got \in Versions
      BY <1>4 DEF Place, At, DirsAt, Pulled, Pivoting, Unrecorded
    <2>3. Whole(new) BY <2>2 DEF Whole
    <2>4. current' \in {current, new} /\ proc' = proc BY <1>4 DEF Place, process
    <2>5. current' = new => Whole(current)' BY <2>3 DEF Whole, Image, Layers
    <2> QED BY <2>1, <2>4, <2>5 DEF StoreSteps
  <1>5. CASE Start(t)
    <2>1. current = Image(mine[t].got) /\ mine[t].got \in Versions
      BY <1>5 DEF Start, At, DirsAt, Pulled, Pivoting, Unrecorded
    <2>2. Whole(current) BY <2>1 DEF Whole
    <2>3. current' = current /\ (proc' = "up" \/ proc' = "down" \/ proc' = proc)
      BY <1>5 DEF Start, Spawn, StartFails, SpawnFails, disk
    <2> QED BY <2>2, <2>3 DEF StoreSteps
  <1> QED BY <1>1, <1>2, <1>3, <1>4, <1>5 DEF DoUpdate

LEMMA NextStores == ViewInv /\ [Next]_vars => [Store!Next]_(Store!vars)
  <1> SUFFICES ASSUME ViewInv, [Next]_vars PROVE [Store!Next]_(Store!vars) OBVIOUS
  <1>1. shared' \in BOOLEAN BY StepView DEF ViewInv, Always, TypeOK
  <1>2. CASE shared' BY <1>1, <1>2 DEF Store!Next, Store!Interfered
  <1>3. CASE ~shared'
    <2>1. shared => shared'
      BY DEF Next, PollLoop, Boot, Resume, Restart, PollWakes, PollCheck, PollCompare, Clean, Push,
             ChildStopped, ChildExits, Respawn, StormdRestarts, DoUpdate, Trigger, Update, Pull, Clear,
             Unpack, Stop, Wait, Sweep, Retire, Place, Config, Start, Digest, Record, Done, vars, history
    <2>2. UNCHANGED shared BY <1>1, <1>3, <2>1 DEF ViewInv, Always, TypeOK
    <2>3. PICK u \in Tasks : Alone(u) /\ At(u) BY <2>2, <1>3 DEF ViewInv
    <2>4. current = Missing \/ Whole(current) BY <2>3 DEF At, DirsAt
    <2>5. StoreSteps
      <3>1. CASE Boot \/ Resume \/ PollWakes \/ PollCheck \/ PollCompare \/ Clean \/ Push
                 \/ (\E t \in Hands : Trigger(t)) \/ UNCHANGED vars
        <4>1. UNCHANGED <<current, proc>>
          BY <3>1 DEF Boot, Resume, PollWakes, PollCheck, PollCompare, Clean, Push, Trigger, vars, disk, process
        <4> QED BY <4>1 DEF StoreSteps
      <3>2. CASE Restart \/ Respawn
        <4>1. /\ current' = current
              /\ \/ proc' = "up" /\ current # Missing
                 \/ proc' = "down" \/ proc' = proc
          BY <3>2 DEF Restart, Respawn, Spawn, StartFails, SpawnFails, disk
        <4> QED BY <2>4, <4>1 DEF StoreSteps
      <3>3. CASE ChildStopped \/ ChildExits \/ StormdRestarts
        BY <3>3 DEF ChildStopped, ChildExits, StormdRestarts, disk, StoreSteps
      <3>4. ASSUME NEW t \in Tasks, DoUpdate(t) PROVE StoreSteps
        <4>1. Busy(t) BY <3>4, UpdateKeeps DEF ViewInv
        <4>2. At(t) BY <2>3, <4>1 DEF Alone
        <4> QED BY <3>4, <4>2, UpdateStores DEF ViewInv, Always
      <3> QED BY <3>1, <3>2, <3>3, <3>4 DEF Next, PollLoop
    <2> QED BY <2>2, <2>5, StoreStep
  <1> QED BY <1>1, <1>2, <1>3

\* Whatever fails, and however often stormd ends, the updater takes away and puts in
\* place only whole images, only while the process is down, and runs only what is
\* there: it implements ImageStore, for any images, layers, requests and bounds.
THEOREM KeepsPromiseCorrect == Spec => KeepsPromise
  <1>1. Init => Store!Init
    BY DEF Init, Store!Init, Rootfs
  <1>2. Spec => []ViewInv BY InitView, StepView, PTL DEF Spec
  <1> QED BY <1>1, <1>2, NextStores, PTL DEF Spec, KeepsPromise, Store!Spec

-----------------------------------------------------------------------------
(* The disk keeps an image.                                                  *)

Accidents == faults + restarts
BeforePlace == {"stop", "wait", "sweep", "retire", "place"}

\* Between the two renames the old rootfs is in .old.  After one accident it still
\* is, until the next update has unpacked all of .new and sweeps .old.
ImageLeft ==
  ~shared /\ ~late /\ record # Nothing /\ current = Missing =>
    /\ Accidents = 0 => Whole(old) /\ \E t \in Tasks : pc[t] = "place"
    /\ Accidents <= 1 => Whole(old) \/ \E t \in Tasks : pc[t] \in BeforePlace

\* An image has a layer at least: it is neither an empty nor a missing directory.
LEMMA ImageThere == ASSUME NEW v \in Versions PROVE Whole(Image(v)) /\ Image(v) # Missing /\ Image(v) # {}
<1>1. Whole(Image(v))
  BY DEF Whole
<1>2. <<v, 1>> \in Image(v)
  BY UpdaterAssumption DEF Image, Layers
<1>3. v # 0
  BY UpdaterAssumption
<1>4. <<v, 1>> \notin Missing
  BY <1>3 DEF Missing
<1> QED BY <1>1, <1>2, <1>4

\* Two counters that each stay or go up by one.
LEMMA Sums ==
  ASSUME NEW a \in Nat, NEW b \in Nat, NEW c \in {a, a + 1}, NEW d \in {b, b + 1}
  PROVE  a + b \in Nat /\ c + d \in Nat /\ a + b <= c + d
  OBVIOUS

\* History is not undone, and accidents only add up.
LEMMA Onward ==
  ASSUME TypeOK, [Next]_vars
  PROVE  /\ Accidents \in Nat /\ Accidents' \in Nat /\ Accidents <= Accidents'
         /\ shared => shared'
         /\ late => late'
<1>1. faults \in Nat /\ restarts \in Nat
  BY DEF TypeOK
<1>2. /\ faults' \in {faults, faults + 1} /\ restarts' \in {restarts, restarts + 1}
      /\ shared => shared'
      /\ late => late'
  <2> DEFINE Kept == /\ faults' \in {faults, faults + 1} /\ restarts' \in {restarts, restarts + 1}
                     /\ shared => shared'
                     /\ late => late'
  <2> USE DEF disk, process, task, bounds, history, Fault, MayFail, GoOn, SpawnFails, StartFails, Spawn,
              ReadDigest, Update, GiveUp, Rest
  <2>1. Boot => Kept
    <3>1. Boot => faults' \in {faults, faults + 1} /\ restarts' \in {restarts, restarts + 1}
      BY DEF Boot
    <3>2. Boot => (shared => shared')
      BY ZenonT(30) DEF Boot
    <3>3. Boot => (late => late')
      BY ZenonT(30) DEF Boot
    <3> QED BY ONLY <3>1, <3>2, <3>3
  <2>2. Resume => Kept
    BY DEF Resume
  <2>3. Restart => Kept
    <3>1. Restart => faults' \in {faults, faults + 1} /\ restarts' \in {restarts, restarts + 1}
      BY DEF Restart
    <3>2. Restart => (shared => shared')
      BY ZenonT(30) DEF Restart
    <3>3. Restart => (late => late')
      BY ZenonT(30) DEF Restart
    <3> QED BY ONLY <3>1, <3>2, <3>3
  <2>4. PollWakes => Kept
    BY DEF PollWakes
  <2>5. PollCheck => Kept
    BY DEF PollCheck
  <2>6. PollCompare => Kept
    <3>1. PollCompare => faults' \in {faults, faults + 1} /\ restarts' \in {restarts, restarts + 1}
      BY DEF PollCompare
    <3>2. PollCompare => (shared => shared')
      BY ZenonT(30) DEF PollCompare
    <3>3. PollCompare => (late => late')
      BY ZenonT(30) DEF PollCompare
    <3> QED BY ONLY <3>1, <3>2, <3>3
  <2>7. Clean => Kept
    <3>1. Clean => faults' \in {faults, faults + 1} /\ restarts' \in {restarts, restarts + 1}
      BY DEF Clean
    <3>2. Clean => (shared => shared')
      BY ZenonT(30) DEF Clean
    <3>3. Clean => (late => late')
      BY ZenonT(30) DEF Clean
    <3> QED BY ONLY <3>1, <3>2, <3>3
  <2>8. Push => Kept
    BY DEF Push
  <2>9. ChildStopped => Kept
    BY DEF ChildStopped
  <2>10. ChildExits => Kept
    BY DEF ChildExits
  <2>11. Respawn => Kept
    <3>1. Respawn => faults' \in {faults, faults + 1} /\ restarts' \in {restarts, restarts + 1}
      BY DEF Respawn
    <3>2. Respawn => (shared => shared')
      BY ZenonT(30) DEF Respawn
    <3>3. Respawn => (late => late')
      BY ZenonT(30) DEF Respawn
    <3> QED BY ONLY <3>1, <3>2, <3>3
  <2>12. StormdRestarts => Kept
    BY DEF StormdRestarts
  <2>13. ASSUME NEW t \in Tasks, DoUpdate(t) PROVE Kept
    <3>1. Pull(t) => Kept
      BY DEF Pull
    <3>2. Clear(t) => Kept
      BY DEF Clear
    <3>3. Unpack(t) => Kept
      BY DEF Unpack
    <3>4. Stop(t) => Kept
      BY DEF Stop
    <3>5. Wait(t) => Kept
      BY DEF Wait
    <3>6. Sweep(t) => Kept
      BY DEF Sweep
    <3>7. Retire(t) => Kept
      BY DEF Retire
    <3>8. Place(t) => Kept
      BY DEF Place
    <3>9. Config(t) => Kept
      BY DEF Config
    <3>10. Start(t) => Kept
      BY DEF Start
    <3>11. Digest(t) => Kept
      BY DEF Digest
    <3>12. Record(t) => Kept
      BY DEF Record
    <3>13. Done(t) => Kept
      BY DEF Done
    <3> QED BY ONLY <2>13, <3>1, <3>2, <3>3, <3>4, <3>5, <3>6,
       <3>7, <3>8, <3>9, <3>10, <3>11, <3>12, <3>13
       DEF DoUpdate
  <2>14. ASSUME NEW t \in Hands, Trigger(t) PROVE Kept
    BY <2>14 DEF Trigger
  <2>15. UNCHANGED vars => Kept
    BY DEF vars
  <2> HIDE DEF Kept
  <2>16. Kept
    BY ONLY [Next]_vars, <2>1, <2>2, <2>3, <2>4, <2>5, <2>6, <2>7,
       <2>8, <2>9, <2>10, <2>11, <2>12, <2>13, <2>14, <2>15
       DEF Next, PollLoop
  <2> QED BY <2>16 DEF Kept
<1>3. faults' \in {faults, faults + 1} /\ restarts' \in {restarts, restarts + 1}
  BY ONLY <1>2
<1>4. Accidents \in Nat /\ Accidents' \in Nat /\ Accidents <= Accidents'
  BY ONLY <1>1, <1>3, Sums DEF Accidents
<1> QED BY <1>2, <1>4

\* While there is no rootfs in place and no accident more.
LEMMA UpdateLeaves ==
  ASSUME UpdaterInv, ImageLeft, NEW t \in Tasks, DoUpdate(t), TypeOK, ~shared, ~late,
         record # Nothing, current = Missing, current' = Missing,
         Accidents \in Nat, Accidents' \in Nat, Accidents <= Accidents'
  PROVE  /\ Accidents' = 0 => Whole(old)' /\ \E u \in Tasks : pc'[u] = "place"
         /\ Accidents' <= 1 => Whole(old)' \/ \E u \in Tasks : pc'[u] \in BeforePlace
<1>1. pc \in [Tasks -> Stages] /\ pc[t] \in Updating
  BY DEF TypeOK, DoUpdate, Pull, Clear, Unpack, Stop, Wait, Sweep, Retire, Place, Config, Start, Digest,
     Record, Done, Updating, Pivoting
<1>2. \A u \in Tasks : pc[u] \in BeforePlace => u = t
  BY <1>1 DEF UpdaterInv, OneUpdate, BeforePlace, Updating, Pivoting
<1>3. /\ Accidents = 0 => Whole(old) /\ pc[t] = "place"
      /\ Accidents <= 1 => Whole(old) \/ pc[t] \in BeforePlace
  BY <1>2 DEF ImageLeft, BeforePlace
<1>4. CASE pc[t] = "place"
  <2>1. new # Missing
    BY <1>4, ImageThere DEF UpdaterInv, Pulled, Directories, Pivoting, Unrecorded
  <2>2. Place(t)
    BY <1>4 DEF DoUpdate, Pull, Clear, Unpack, Stop, Wait, Sweep, Retire, Config, Start, Digest, Record, Done
  <2>3. UNCHANGED <<old, restarts>> /\ faults' = faults + 1
    BY <2>1, <2>2 DEF Place, Free, MayFail, Fault, bounds
  <2>4. Accidents' = Accidents + 1
    BY <2>3 DEF Accidents, TypeOK
  <2>5. Accidents' <= 1 => Accidents = 0
    BY <2>4
  <2>6. Accidents' # 0
    BY <2>4
  <2> QED BY <1>3, <2>3, <2>5, <2>6 DEF Whole
<1>5. CASE pc[t] # "place"
  <2>1. Accidents # 0 /\ Accidents' # 0 /\ (Accidents' <= 1 => Accidents <= 1 /\ Accidents' = Accidents)
    BY <1>3, <1>5
  <2>2. CASE pc[t] \in {"stop", "wait", "sweep", "retire"}
    <3>1. Stop(t) \/ Wait(t) \/ Sweep(t) \/ Retire(t)
      BY <2>2 DEF DoUpdate, Pull, Clear, Unpack, Place, Config, Start, Digest, Record, Done
    <3>2. UNCHANGED restarts /\ (faults' = faults + 1 \/ pc'[t] \in BeforePlace)
      BY <1>1, <3>1 DEF Stop, Wait, Sweep, Retire, GoOn, Goto, Fault, MayFail, bounds, BeforePlace
    <3>3. Accidents' = Accidents => faults' # faults + 1
      BY <3>2 DEF Accidents, TypeOK
    <3> QED BY <2>1, <3>2, <3>3
  <2>3. CASE pc[t] \notin BeforePlace
    <3>1. UNCHANGED old
      BY <2>3 DEF DoUpdate, Pull, Clear, Unpack, Stop, Wait, Sweep, Retire, Place, Config, Start, Digest,
         Record, Done, disk, BeforePlace
    <3> QED BY <1>3, <2>1, <2>3, <3>1 DEF Whole
  <2> QED BY <1>5, <2>2, <2>3 DEF BeforePlace
<1> QED BY <1>4, <1>5

\* ImageLeft is inductive beside UpdaterInv.
LEMMA StepLeaves == ASSUME UpdaterInv, TypeOK, ImageLeft, [Next]_vars PROVE ImageLeft'
<1> SUFFICES ASSUME ~shared', ~late', record' # Nothing, current' = Missing
             PROVE  /\ Accidents' = 0 => Whole(old)' /\ \E u \in Tasks : pc'[u] = "place"
                    /\ Accidents' <= 1 => Whole(old)' \/ \E u \in Tasks : pc'[u] \in BeforePlace
  BY DEF ImageLeft, Nothing, Missing
<1>1. Accidents \in Nat /\ Accidents' \in Nat /\ Accidents <= Accidents' /\ ~shared /\ ~late
  BY Onward
<1>2. ASSUME NEW t \in Tasks, DoUpdate(t), current # Missing \/ record = Nothing
      PROVE  Whole(old)' /\ pc'[t] = "place"
  <2>1. CASE Retire(t) /\ current # Missing
    <3>1. old' = current /\ pc'[t] = "place"
      BY <2>1 DEF Retire, GoOn, Goto, TypeOK
    <3> QED BY <2>1, <3>1, <1>1 DEF UpdaterInv, Directories, Whole
  <2>2. CASE ~(Retire(t) /\ current # Missing)
    <3>1. current' = Missing => Place(t) \/ current = Missing
      BY <1>2, <2>2 DEF DoUpdate, Pull, Clear, Unpack, Stop, Wait, Sweep, Retire, Config, Start, Digest,
         Record, Done, disk
    <3>2. ASSUME Place(t) PROVE new # Missing
      BY <3>2, <1>1, ImageThere DEF Place, UpdaterInv, Pulled, Directories, Pivoting, Unrecorded
    <3>3. current = Missing
      BY <3>1, <3>2 DEF Place
    <3>4. Record(t)
      BY <1>2, <3>3 DEF DoUpdate, Pull, Clear, Unpack, Stop, Wait, Sweep, Retire, Place, Config, Start,
         Digest, Done, disk
    <3>5. current # Missing
      BY <3>4, <1>1, ImageThere DEF Record, UpdaterInv, Pulled, Directories, Unrecorded
    <3> QED BY <3>3, <3>5
  <2> QED BY <2>1, <2>2
<1>3. ASSUME NEW t \in Tasks, DoUpdate(t), current = Missing, record # Nothing
      PROVE  /\ Accidents' = 0 => Whole(old)' /\ \E u \in Tasks : pc'[u] = "place"
             /\ Accidents' <= 1 => Whole(old)' \/ \E u \in Tasks : pc'[u] \in BeforePlace
  BY <1>1, <1>3, UpdateLeaves
<1>4. CASE StormdRestarts
  <2>1. UNCHANGED <<current, old, record, faults>> /\ restarts' = restarts + 1
    BY <1>4 DEF StormdRestarts, disk
  <2>2. Accidents' = Accidents + 1
    BY <2>1 DEF Accidents, TypeOK
  <2>3. Accidents' # 0 /\ (Accidents' <= 1 => Accidents = 0)
    BY <1>1, <2>2
  <2> QED BY <1>1, <2>1, <2>3 DEF ImageLeft, Whole
<1>5. CASE Clean
  BY <1>5 DEF Clean
<1>6. CASE \/ PollLoop \/ Push \/ ChildStopped \/ ChildExits \/ Respawn \/ UNCHANGED vars
           \/ \E t \in Hands : Trigger(t)
  <2>1. UNCHANGED <<current, old, record>>
    BY <1>6 DEF PollLoop, Boot, Resume, Restart, PollWakes, PollCheck, PollCompare, Push, ChildStopped,
       ChildExits, Respawn, Trigger, vars, disk
  <2>2. \A u \in Tasks : pc[u] \in BeforePlace => pc'[u] = pc[u]
    <3> USE DEF BeforePlace, Goto, Update, Rest, TypeOK, Tasks, task
    <3>1. CASE PollLoop
      BY <3>1 DEF PollLoop, Boot, Resume, Restart, PollWakes, PollCheck, PollCompare
    <3>2. CASE Push \/ ChildStopped \/ ChildExits \/ Respawn \/ UNCHANGED vars
      BY <3>2 DEF Push, ChildStopped, ChildExits, Respawn, vars
    <3>3. ASSUME NEW t \in Hands, Trigger(t) PROVE \A u \in Tasks : pc[u] \in BeforePlace => pc'[u] = pc[u]
      BY <3>3 DEF Trigger
    <3> QED BY <1>6, <3>1, <3>2, <3>3
  <2>3. (Accidents' = 0 => Accidents = 0) /\ (Accidents' <= 1 => Accidents <= 1)
    BY <1>1
  <2> QED BY <1>1, <2>1, <2>2, <2>3 DEF ImageLeft, Whole, BeforePlace
<1> QED BY <1>2, <1>3, <1>4, <1>5, <1>6 DEF Next, BeforePlace

\* No single failure of a request, a file operation or a spawn, and no single end
\* of stormd, leaves the disk without a whole image once one has been recorded
\* (pull_and_assemble, pivot): for any images, layers and requests by hand.
THEOREM KeepsImageCorrect == Spec => []KeepsImage
<1>1. Init => ImageLeft
  BY DEF Init, ImageLeft
<1>2. UpdaterInv /\ ImageLeft => KeepsImage
  <2> SUFFICES ASSUME UpdaterInv, ImageLeft, ~shared, ~late, record # Nothing, faults + restarts <= 1
               PROVE  \E dir \in {current, new, old} : Whole(dir)
    BY DEF KeepsImage
  <2>1. CASE current # Missing
    BY <2>1 DEF UpdaterInv, Directories
  <2>2. CASE current = Missing
    <3>1. Whole(old) \/ \E t \in Tasks : pc[t] \in BeforePlace
      BY <2>2 DEF ImageLeft, Accidents
    <3>2. ASSUME NEW t \in Tasks, pc[t] \in BeforePlace PROVE Whole(new)
      BY <3>2, ImageThere DEF UpdaterInv, Pulled, Directories, BeforePlace, Pivoting, Unrecorded
    <3> QED BY <3>1, <3>2
  <2> QED BY <2>1, <2>2
<1>3. ViewInv => UpdaterInv /\ TypeOK
  BY ViewImplies DEF ViewInv, Always
<1>4. ViewInv /\ ImageLeft /\ [Next]_vars => ViewInv' /\ ImageLeft'
  BY <1>3, StepView, StepLeaves
<1>5. Spec => [](ViewInv /\ ImageLeft)
  BY <1>1, <1>4, InitView, PTL DEF Spec
<1> QED BY <1>2, <1>3, <1>5, PTL
=============================================================================
