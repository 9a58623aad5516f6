---------------------------- MODULE StorageProofs ---------------------------
(***************************************************************************)
(* Theorems about what stormd keeps outside its memory: the golden volumes *)
(* it attaches and mounts, the log files it rotates, renames and prunes,   *)
(* and what its shell and an SFTP session do to files.  How many lines some*)
(* files stand for, or how long they are, is a sum over a set.             *)
(***************************************************************************)
EXTENDS Goldens, RunLog, Files, FiniteSetTheorems, SequenceTheorems, WellFoundedInduction, TLAPS

-----------------------------------------------------------------------------
(* Goldens: what is mounted is what the map and the config say.            *)

Volume == Volumes \cup {NoVolume}
PresentPcs == {"attach", "place", "unattach", "note", "presented", "refused"}
ReleasePcs == {"release", "undo", "detach", "released", "unreleased"}
BootPcs == {"idle", "spawn", "done"} \cup PresentPcs
ExitPcs == {"idle", "done"} \cup ReleasePcs
SwapPcs == {"idle", "stop", "spawn"} \cup PresentPcs \cup ReleasePcs
PcsOf(t) == IF t = "boot" THEN BootPcs ELSE IF t = "exit" THEN ExitPcs ELSE SwapPcs

\* The types, and where each task can be.
GoldensTyped ==
  /\ content \in {"filesystem", "image"} /\ wanted \in Volumes /\ presented \in Volume
  /\ g_running \in BOOLEAN /\ g_stopping \in BOOLEAN
  /\ g_pc \in [GoldenTasks -> BootPcs \cup ExitPcs \cup SwapPcs] /\ held \in [GoldenTasks -> Volume]
  /\ swap \in [GoldenTasks -> [old : Volume, new : Volume, ran : BOOLEAN, back : BOOLEAN]]
  /\ \A t \in GoldenTasks : g_pc[t] \in PcsOf(t)
  /\ \A t \in Swappers : g_pc[t] # "idle" => swap[t].old \in Volumes /\ swap[t].new \in Volumes
  /\ g_pc["exit"] # "idle" => g_pc["boot"] = "done"

\* A task that is at the golden: all but a start that found it presented.
Working(t) == InFlight(t) /\ ~(t = "boot" /\ g_pc[t] = "spawn")
Only(t) == \A u \in GoldenTasks \ {t} : ~Working(u)

\* A volume is all that is attached and at the path, or nothing is, or one is half way.
Up(v) == v \in Volumes /\ v \in attached /\ path = <<v>> /\ ("engine" \notin trouble => attached = {v})
Clear == path = <<>> /\ presented = NoVolume /\ ("engine" \notin trouble => attached = {})
Settled == Clear \/ Up(presented)
HalfWay(v) == path = <<>> /\ presented = NoVolume /\ v \in Volumes /\ ("engine" \notin trouble => attached \subseteq {v})

\* What a task that is alone has made of it.
AtStep(t) ==
  /\ g_pc[t] \in {"stop", "release", "unreleased", "spawn"} => Settled
  /\ g_pc[t] \in {"released", "refused", "attach"} => Clear
  /\ g_pc[t] = "attach" => held[t] \in Volumes
  /\ g_pc[t] \in {"place", "unattach", "detach"} => HalfWay(held[t])
  /\ g_pc[t] = "place" => held[t] \in attached
  /\ g_pc[t] \in {"note", "undo"} => presented = NoVolume /\ Up(held[t])
  /\ g_pc[t] = "presented" => presented = held[t] /\ Up(held[t])

\* And of what the config names: it is what is presented, or on its way there.
ByName(t) ==
  /\ t \in Swappers =>
       /\ g_pc[t] \in {"stop"} \cup PresentPcs \cup (ReleasePcs \ {"unreleased"}) => swap[t].old = wanted
       /\ g_pc[t] \in {"stop"} \cup ReleasePcs => ~swap[t].back
       /\ g_pc[t] \in {"attach", "place", "note", "presented"} =>
            held[t] = IF swap[t].back THEN swap[t].old ELSE swap[t].new
       /\ g_pc[t] = "spawn" => presented = wanted
  /\ t = "boot" => held[t] = wanted /\ ~g_running
  /\ t = "exit" => ~g_running
  /\ g_pc[t] \in {"stop", "release", "unreleased"} => presented \in {NoVolume, wanted}
  /\ g_pc[t] = "undo" => held[t] = wanted

AtRest == presented \in {NoVolume, wanted} /\ (g_running \/ g_pc["boot"] = "spawn" => presented # NoVolume)

OneAtATime ==
  "overlap" \notin trouble =>
    \/ /\ \A t \in GoldenTasks : ~Working(t)
       /\ Settled /\ ("unpresented" \notin trouble => AtRest)
    \/ \E t \in GoldenTasks :
         Working(t) /\ Only(t) /\ AtStep(t) /\ ("unpresented" \notin trouble => ByName(t))

ExitLeaves ==
  trouble \cap {"overlap", "engine", "busy"} = {} =>
    g_pc["exit"] # "unreleased" /\ (g_pc["exit"] = "done" => Clear)

GoldensInv == GoldensTyped /\ OneAtATime /\ ExitLeaves

\* While no two tasks have been at it, the one that works is where it was found.
LEMMA Alone ==
  ASSUME GoldensInv, NEW t \in GoldenTasks, Working(t), "overlap" \notin trouble
  PROVE  Only(t) /\ AtStep(t) /\ ("unpresented" \notin trouble => ByName(t))
<1>1. PICK u \in GoldenTasks :
        Working(u) /\ Only(u) /\ AtStep(u) /\ ("unpresented" \notin trouble => ByName(u))
  BY DEF GoldensInv, OneAtATime
<1>2. u = t
  BY <1>1 DEF Only
<1> QED BY <1>1, <1>2

\* What a task's next place does to the types, and to who is at work.
LEMMA Goes ==
  ASSUME GoldensTyped, NEW t \in GoldenTasks, NEW s \in PcsOf(t), GoldenGo(t, s)
  PROVE  /\ g_pc' \in [GoldenTasks -> BootPcs \cup ExitPcs \cup SwapPcs]
         /\ \A u \in GoldenTasks : g_pc'[u] = IF u = t THEN s ELSE g_pc[u]
         /\ \A u \in GoldenTasks : g_pc'[u] \in PcsOf(u)
<1>1. s \in BootPcs \cup ExitPcs \cup SwapPcs
  BY DEF PcsOf
<1> QED BY <1>1 DEF GoldensTyped, GoldenGo

LEMMA Stays ==
  ASSUME GoldensTyped, NEW t \in GoldenTasks, NEW s \in PcsOf(t), Only(t), GoldenGo(t, s),
         s \notin {"idle", "done"}, t # "boot" \/ s # "spawn",
         AtStep(t)', "unpresented" \notin trouble' => ByName(t)'
  PROVE  OneAtATime'
<1>1. \A u \in GoldenTasks : g_pc'[u] = IF u = t THEN s ELSE g_pc[u]
  BY Goes
<1>2. Working(t)' /\ Only(t)'
  BY <1>1 DEF Working, Only, InFlight
<1> QED BY <1>2 DEF OneAtATime

LEMMA Ends ==
  ASSUME GoldensTyped, NEW t \in GoldenTasks, NEW s \in PcsOf(t), Only(t), GoldenGo(t, s),
         s \in {"idle", "done"} \/ (t = "boot" /\ s = "spawn"),
         Settled', "unpresented" \notin trouble' => AtRest'
  PROVE  OneAtATime'
<1>1. \A u \in GoldenTasks : g_pc'[u] = IF u = t THEN s ELSE g_pc[u]
  BY Goes
<1>2. \A u \in GoldenTasks : ~Working(u)'
  BY <1>1 DEF Working, Only, InFlight
<1> QED BY <1>2 DEF OneAtATime

\* What another task than the exit does leaves it as it was.
LEMMA ExitStays ==
  ASSUME GoldensTyped, ExitLeaves, NEW t \in GoldenTasks \ {"exit"}, NEW s \in PcsOf(t), GoldenGo(t, s),
         g_pc["exit"] # "done", trouble \subseteq trouble'
  PROVE  ExitLeaves'
<1>1. g_pc'["exit"] = g_pc["exit"]
  BY Goes DEF GoldenTasks
<1> QED BY <1>1 DEF ExitLeaves

-----------------------------------------------------------------------------
LEMMA PresentingGoldens ==
  ASSUME GoldensInv, NEW t \in GoldenTasks \ {"exit"}, Presenting(t)
  PROVE  GoldensInv'
<1> USE GoldensAssumption, NoVolumeAssumption
<1>0. GoldensTyped /\ PresentPcs \subseteq PcsOf(t) /\ t \in GoldenTasks /\ held[t] \in Volume
  BY DEF GoldensInv, GoldensTyped, GoldenTasks, PcsOf, PresentPcs, BootPcs, SwapPcs, ExitPcs
<1>1. CASE Attach(t)
  <2>1. PICK s \in {"place", "refused"} :
          /\ g_pc[t] = "attach" /\ g_pc["exit"] # "done" /\ GoldenGo(t, s)
          /\ \/ s = "place" /\ attached' = attached \cup {held[t]} /\ trouble' = trouble
             \/ s = "refused" /\ attached' = attached /\ trouble' = trouble
             \/ s = "refused" /\ attached' = attached \cup {held[t]} /\ trouble' = trouble \cup {"engine"}
          /\ UNCHANGED <<content, wanted, path, presented, g_running, g_stopping, held, swap>>
    BY <1>1 DEF Attach, GoldenAt
  <2>2. s \in PcsOf(t) /\ g_pc'[t] = s /\ trouble \subseteq trouble'
    BY <1>0, <2>1, Goes DEF PresentPcs
  <2>3. GoldensTyped'
    BY <1>0, <2>1, <2>2, Goes DEF GoldensTyped, GoldenTasks
  <2>4. ExitLeaves'
    BY <1>0, <2>1, <2>2, ExitStays DEF GoldensInv
  <2>5. ASSUME "overlap" \notin trouble'
        PROVE  OneAtATime'
    <3>1. Only(t) /\ AtStep(t) /\ ("unpresented" \notin trouble => ByName(t))
      BY <1>0, <2>1, <2>5, Alone DEF Working, InFlight
    <3>2. AtStep(t)'
      BY <2>1, <2>2, <3>1 DEF AtStep, Clear, HalfWay
    <3>3. "unpresented" \notin trouble' => ByName(t)'
      BY <1>0, <2>1, <2>2, <3>1 DEF ByName, PresentPcs, ReleasePcs
    <3> QED BY <1>0, <2>1, <2>2, <3>1, <3>2, <3>3, Stays
  <2> QED BY <2>3, <2>4, <2>5 DEF GoldensInv, OneAtATime
<1>2. CASE Place(t)
  <2>1. PICK s \in {"note", "unattach"} :
          /\ g_pc[t] = "place" /\ g_pc["exit"] # "done" /\ GoldenGo(t, s)
          /\ \/ s = "note" /\ path' = IF content = "image" THEN <<held[t]>> ELSE Append(path, held[t])
             \/ s = "unattach" /\ path' = path
          /\ UNCHANGED <<content, wanted, attached, presented, g_running, g_stopping, held, swap, trouble>>
    BY <1>2 DEF Place, GoldenAt
  <2>2. s \in PcsOf(t) /\ g_pc'[t] = s
    BY <1>0, <2>1, Goes DEF PresentPcs
  <2>3. GoldensTyped'
    BY <1>0, <2>1, <2>2, Goes DEF GoldensTyped, GoldenTasks
  <2>4. ExitLeaves'
    BY <1>0, <2>1, <2>2, ExitStays DEF GoldensInv
  <2>5. ASSUME "overlap" \notin trouble'
        PROVE  OneAtATime'
    <3>1. Only(t) /\ AtStep(t) /\ ("unpresented" \notin trouble => ByName(t))
      BY <1>0, <2>1, <2>5, Alone DEF Working, InFlight
    <3>2. HalfWay(held[t]) /\ held[t] \in attached
      BY <2>1, <3>1 DEF AtStep
    <3>3. Append(<<>>, held[t]) = <<held[t]>>
      OBVIOUS
    <3>4. AtStep(t)'
      BY <2>1, <2>2, <3>2, <3>3 DEF AtStep, HalfWay, Up
    <3>5. "unpresented" \notin trouble' => ByName(t)'
      BY <1>0, <2>1, <2>2, <3>1 DEF ByName, PresentPcs, ReleasePcs
    <3> QED BY <1>0, <2>1, <2>2, <3>1, <3>4, <3>5, Stays
  <2> QED BY <2>3, <2>4, <2>5 DEF GoldensInv, OneAtATime
<1>3. CASE Unattach(t)
  <2>1. /\ g_pc[t] = "unattach" /\ g_pc["exit"] # "done" /\ GoldenGo(t, "refused")
        /\ \/ attached' = attached \ {held[t]} /\ trouble' = trouble
           \/ attached' = attached /\ trouble' = trouble \cup {"engine"}
        /\ UNCHANGED <<content, wanted, path, presented, g_running, g_stopping, held, swap>>
    BY <1>3 DEF Unattach, Detach, GoldenAt
  <2>2. "refused" \in PcsOf(t) /\ g_pc'[t] = "refused" /\ trouble \subseteq trouble'
    BY <1>0, <2>1, Goes DEF PresentPcs
  <2>3. GoldensTyped'
    BY <1>0, <2>1, <2>2, Goes DEF GoldensTyped, GoldenTasks
  <2>4. ExitLeaves'
    BY <1>0, <2>1, <2>2, ExitStays DEF GoldensInv
  <2>5. ASSUME "overlap" \notin trouble'
        PROVE  OneAtATime'
    <3>1. Only(t) /\ AtStep(t) /\ ("unpresented" \notin trouble => ByName(t))
      BY <1>0, <2>1, <2>5, Alone DEF Working, InFlight
    <3>2. AtStep(t)'
      BY <2>1, <2>2, <3>1 DEF AtStep, Clear, HalfWay
    <3>3. "unpresented" \notin trouble' => ByName(t)'
      BY <1>0, <2>1, <2>2, <3>1 DEF ByName, PresentPcs, ReleasePcs
    <3> QED BY <1>0, <2>1, <2>2, <3>1, <3>2, <3>3, Stays
  <2> QED BY <2>3, <2>4, <2>5 DEF GoldensInv, OneAtATime
<1>4. CASE Note(t)
  <2>1. /\ g_pc[t] = "note" /\ g_pc["exit"] # "done" /\ GoldenGo(t, "presented") /\ presented' = held[t]
        /\ UNCHANGED <<content, wanted, path, attached, g_running, g_stopping, held, swap, trouble>>
    BY <1>4 DEF Note, GoldenAt, golden_world
  <2>2. "presented" \in PcsOf(t) /\ g_pc'[t] = "presented"
    BY <1>0, <2>1, Goes DEF PresentPcs
  <2>3. GoldensTyped'
    BY <1>0, <2>1, <2>2, Goes DEF GoldensTyped, GoldenTasks
  <2>4. ExitLeaves'
    BY <1>0, <2>1, <2>2, ExitStays DEF GoldensInv
  <2>5. ASSUME "overlap" \notin trouble'
        PROVE  OneAtATime'
    <3>1. Only(t) /\ AtStep(t) /\ ("unpresented" \notin trouble => ByName(t))
      BY <1>0, <2>1, <2>5, Alone DEF Working, InFlight
    <3>2. AtStep(t)'
      BY <2>1, <2>2, <3>1 DEF AtStep, Up
    <3>3. "unpresented" \notin trouble' => ByName(t)'
      BY <1>0, <2>1, <2>2, <3>1 DEF ByName, PresentPcs, ReleasePcs
    <3> QED BY <1>0, <2>1, <2>2, <3>1, <3>2, <3>3, Stays
  <2> QED BY <2>3, <2>4, <2>5 DEF GoldensInv, OneAtATime
<1> QED BY <1>1, <1>2, <1>3, <1>4 DEF Presenting

\* What the exit's own step does with what it leaves.
LEMMA ReleasingGoldens ==
  ASSUME GoldensInv, NEW t \in GoldenTasks \ {"boot"}, Releasing(t)
  PROVE  GoldensInv'
<1> USE GoldensAssumption, NoVolumeAssumption
<1>0. GoldensTyped /\ ReleasePcs \subseteq PcsOf(t) /\ t \in GoldenTasks /\ held[t] \in Volume /\ presented \in Volume
  BY DEF GoldensInv, GoldensTyped, GoldenTasks, PcsOf, ReleasePcs, BootPcs, SwapPcs, ExitPcs
<1>1. CASE Take(t)
  <2>1. PICK s \in {"released", "undo"} :
          /\ g_pc[t] = "release" /\ g_pc["exit"] # "done" /\ GoldenGo(t, s)
          /\ s = (IF presented = NoVolume THEN "released" ELSE "undo")
          /\ held' = [held EXCEPT ![t] = presented] /\ presented' = NoVolume
          /\ UNCHANGED <<content, wanted, path, attached, g_running, g_stopping, swap, trouble>>
    BY <1>1 DEF Take, GoldenAt, golden_world
  <2>2. s \in PcsOf(t) /\ g_pc'[t] = s /\ held'[t] = presented
    BY <1>0, <2>1, Goes DEF ReleasePcs, GoldensTyped
  <2>3. GoldensTyped'
    BY <1>0, <2>1, <2>2, Goes DEF GoldensTyped, GoldenTasks, Volume
  <2>4. ExitLeaves'
    BY <1>0, <2>1, <2>2, ExitStays DEF GoldensInv, ExitLeaves
  <2>5. ASSUME "overlap" \notin trouble'
        PROVE  OneAtATime'
    <3>1. Only(t) /\ AtStep(t) /\ ("unpresented" \notin trouble => ByName(t))
      BY <1>0, <2>1, <2>5, Alone DEF Working, InFlight
    <3>2. AtStep(t)'
      BY <2>1, <2>2, <3>1 DEF AtStep, Clear, Up, Settled
    <3>3. "unpresented" \notin trouble' => ByName(t)'
      BY <1>0, <2>1, <2>2, <3>1 DEF ByName, PresentPcs, ReleasePcs, GoldenTasks
    <3> QED BY <1>0, <2>1, <2>2, <3>1, <3>2, <3>3, Stays
  <2> QED BY <2>3, <2>4, <2>5 DEF GoldensInv, OneAtATime
<1>2. CASE Undo(t)
  <2>1. PICK s \in {"detach", "unreleased"} :
          /\ g_pc[t] = "undo" /\ g_pc["exit"] # "done" /\ GoldenGo(t, s)
          /\ \/ /\ s = "detach"
                /\ path' = IF content = "image" THEN <<>> ELSE SubSeq(path, 1, Len(path) - 1)
                /\ presented' = presented /\ trouble' = trouble
             \/ /\ s = "unreleased" /\ path' = path /\ presented' = held[t]
                /\ trouble' = IF t = "exit" THEN trouble \cup {"busy"} ELSE trouble
          /\ UNCHANGED <<content, wanted, attached, g_running, g_stopping, held, swap>>
    BY <1>2 DEF Undo, GoldenAt
  <2>2. s \in PcsOf(t) /\ g_pc'[t] = s /\ trouble \subseteq trouble'
    BY <1>0, <2>1, Goes DEF ReleasePcs
  <2>3. GoldensTyped'
    BY <1>0, <2>1, <2>2, Goes DEF GoldensTyped, GoldenTasks
  <2>4. ExitLeaves'
    <3>1. CASE t # "exit"
      BY <1>0, <2>1, <2>2, <3>1, ExitStays DEF GoldensInv
    <3>2. CASE t = "exit"
      BY <2>1, <2>2, <3>2 DEF ExitLeaves
    <3> QED BY <3>1, <3>2
  <2>5. ASSUME "overlap" \notin trouble'
        PROVE  OneAtATime'
    <3>1. Only(t) /\ AtStep(t) /\ ("unpresented" \notin trouble => ByName(t))
      BY <1>0, <2>1, <2>5, Alone DEF Working, InFlight
    <3>2. presented = NoVolume /\ Up(held[t])
      BY <2>1, <3>1 DEF AtStep
    <3>3. path = <<held[t]>> => SubSeq(path, 1, Len(path) - 1) = <<>>
      OBVIOUS
    <3>4. AtStep(t)'
      BY <2>1, <2>2, <3>2, <3>3 DEF AtStep, HalfWay, Up, Settled
    <3>5. "unpresented" \notin trouble' => ByName(t)'
      BY <1>0, <2>1, <2>2, <3>1 DEF ByName, PresentPcs, ReleasePcs, GoldenTasks
    <3> QED BY <1>0, <2>1, <2>2, <3>1, <3>4, <3>5, Stays
  <2> QED BY <2>3, <2>4, <2>5 DEF GoldensInv, OneAtATime
<1>3. CASE Unmounted(t)
  <2>1. PICK s \in {"released", "unreleased"} :
          /\ g_pc[t] = "detach" /\ g_pc["exit"] # "done" /\ GoldenGo(t, s)
          /\ \/ s = "released" /\ attached' = attached \ {held[t]} /\ trouble' = trouble
             \/ s = "unreleased" /\ attached' = attached /\ trouble' = trouble \cup {"engine"}
          /\ UNCHANGED <<content, wanted, path, presented, g_running, g_stopping, held, swap>>
    BY <1>3 DEF Unmounted, Detach, GoldenAt
  <2>2. s \in PcsOf(t) /\ g_pc'[t] = s /\ trouble \subseteq trouble'
    BY <1>0, <2>1, Goes DEF ReleasePcs
  <2>3. GoldensTyped'
    BY <1>0, <2>1, <2>2, Goes DEF GoldensTyped, GoldenTasks
  <2>4. ExitLeaves'
    <3>1. CASE t # "exit"
      BY <1>0, <2>1, <2>2, <3>1, ExitStays DEF GoldensInv
    <3>2. CASE t = "exit"
      BY <2>1, <2>2, <3>2 DEF ExitLeaves
    <3> QED BY <3>1, <3>2
  <2>5. ASSUME "overlap" \notin trouble'
        PROVE  OneAtATime'
    <3>1. Only(t) /\ AtStep(t) /\ ("unpresented" \notin trouble => ByName(t))
      BY <1>0, <2>1, <2>5, Alone DEF Working, InFlight
    <3>2. AtStep(t)'
      BY <2>1, <2>2, <3>1 DEF AtStep, Clear, HalfWay, Settled
    <3>3. "unpresented" \notin trouble' => ByName(t)'
      BY <1>0, <2>1, <2>2, <3>1, <3>2 DEF AtStep, HalfWay, ByName, PresentPcs, ReleasePcs, GoldenTasks
    <3> QED BY <1>0, <2>1, <2>2, <3>1, <3>2, <3>3, Stays
  <2> QED BY <2>3, <2>4, <2>5 DEF GoldensInv, OneAtATime
<1> QED BY <1>1, <1>2, <1>3 DEF Releasing

-----------------------------------------------------------------------------
\* A task that begins, with no trouble to come of it, begins alone.
LEMMA Begins ==
  ASSUME GoldensInv, NEW t \in GoldenTasks, g_pc[t] \in {"idle", "done"},
         trouble' = trouble \cup Beside(t), "overlap" \notin trouble'
  PROVE  trouble' = trouble /\ (\A u \in GoldenTasks : ~InFlight(u)) /\ Settled /\ ("unpresented" \notin trouble => AtRest)
<1>1. \A u \in GoldenTasks : ~InFlight(u)
  BY DEF Beside, InFlight
<1>2. \A u \in GoldenTasks : ~Working(u)
  BY <1>1 DEF Working
<1>3. Beside(t) = {}
  BY DEF Beside
<1> QED BY <1>1, <1>2, <1>3 DEF GoldensInv, OneAtATime

LEMMA BootGoldens ==
  ASSUME GoldensInv, Boot \/ BootAgain \/ BootSpawns
  PROVE  GoldensInv'
<1> USE GoldensAssumption, NoVolumeAssumption
<1>0. /\ GoldensTyped /\ "boot" \in GoldenTasks /\ PcsOf("boot") = BootPcs /\ wanted \in Volume
      /\ "boot" \in GoldenTasks \ {"exit"} /\ g_pc["boot"] # "done" => g_pc["exit"] = "idle"
  BY DEF GoldensInv, GoldensTyped, GoldenTasks, PcsOf, Volume
<1> DEFINE t == "boot"
<1>1. CASE Boot
  <2>1. PICK s \in {"spawn", "done", "attach"} :
          /\ g_pc[t] = "idle" /\ g_pc["exit"] # "done" /\ GoldenGo(t, s)
          /\ \/ s = "spawn" /\ presented # NoVolume /\ held' = held /\ trouble' = trouble
             \/ s = "done" /\ presented = NoVolume /\ held' = held /\ trouble' = trouble
             \/ /\ s = "attach" /\ presented = NoVolume
                /\ held' = [held EXCEPT ![t] = wanted] /\ trouble' = trouble \cup Beside(t)
          /\ UNCHANGED <<content, wanted, path, attached, presented, g_running, g_stopping, swap>>
    BY <1>1 DEF Boot, GoldenAt, golden_world
  <2>2. s \in PcsOf(t) /\ g_pc'[t] = s /\ trouble \subseteq trouble'
    BY <1>0, <2>1, Goes DEF BootPcs, PresentPcs
  <2>3. GoldensTyped'
    <3>1. held' \in [GoldenTasks -> Volume]
      BY <1>0, <2>1 DEF GoldensTyped
    <3>2. /\ g_pc' \in [GoldenTasks -> BootPcs \cup ExitPcs \cup SwapPcs]
          /\ \A u \in GoldenTasks : g_pc'[u] \in PcsOf(u)
      BY <1>0, <2>1, <2>2, Goes
    <3>3. g_pc'["exit"] = "idle" /\ \A u \in Swappers : g_pc'[u] = g_pc[u]
      BY <1>0, <2>1, <2>2, Goes DEF GoldenTasks
    <3> QED BY <1>0, <2>1, <3>1, <3>2, <3>3 DEF GoldensTyped
  <2>4. ExitLeaves'
    BY <1>0, <2>1, <2>2, ExitStays DEF GoldensInv
  <2>5. ASSUME "overlap" \notin trouble', s = "attach"
        PROVE  OneAtATime'
    <3>1. trouble' = trouble /\ (\A u \in GoldenTasks : ~InFlight(u)) /\ Settled /\ ("unpresented" \notin trouble => AtRest)
      BY <1>0, <2>1, <2>5, Begins
    <3>2. held'[t] = wanted
      BY <1>0, <2>1, <2>5 DEF GoldensTyped
    <3>3. AtStep(t)'
      BY <2>1, <2>2, <2>5, <3>1, <3>2, <1>0 DEF AtStep, Settled, Clear, Up, GoldensTyped
    <3>4. "unpresented" \notin trouble' => ByName(t)'
      BY <1>0, <2>1, <2>2, <2>5, <3>1, <3>2 DEF ByName, AtRest
    <3> QED BY <1>0, <2>1, <2>2, <2>5, <3>1, <3>3, <3>4, Stays DEF Only, Working
  <2>6. ASSUME "overlap" \notin trouble', s # "attach"
        PROVE  OneAtATime'
    <3>1. /\ \A u \in GoldenTasks : Working(u)' <=> Working(u)
          /\ \A u \in GoldenTasks \ {t} : g_pc'[u] = g_pc[u]
          /\ ~Working(t)
      BY <1>0, <2>1, <2>2, <2>6, Goes DEF Working, InFlight
    <3>2. CASE \A u \in GoldenTasks : ~Working(u)
      <4>1. Settled /\ ("unpresented" \notin trouble => AtRest)
        BY <2>1, <2>6, <3>2 DEF GoldensInv, OneAtATime
      <4>2. Settled' /\ ("unpresented" \notin trouble' => AtRest')
        BY <2>1, <2>2, <2>6, <4>1 DEF Settled, Clear, Up, AtRest
      <4> QED BY <3>1, <3>2, <4>2 DEF OneAtATime
    <3>3. ASSUME NEW u \in GoldenTasks, Working(u)
          PROVE  OneAtATime'
      <4>1. Only(u) /\ AtStep(u) /\ ("unpresented" \notin trouble => ByName(u))
        BY <2>1, <2>6, <3>3, Alone
      <4>2. Only(u)' /\ Working(u)'
        BY <3>1, <3>3, <4>1 DEF Only
      <4>3. g_pc'[u] = g_pc[u] /\ u # t /\ trouble' = trouble
        BY <2>1, <2>6, <3>1, <3>3
      <4>4. AtStep(u)'
        BY <2>1, <2>6, <4>1, <4>3 DEF AtStep, Settled, Clear, Up, HalfWay
      <4>5. "unpresented" \notin trouble' => ByName(u)'
        BY <2>1, <2>6, <4>1, <4>3 DEF ByName
      <4> QED BY <3>3, <4>2, <4>4, <4>5 DEF OneAtATime
    <3> QED BY <3>2, <3>3
  <2> QED BY <2>3, <2>4, <2>5, <2>6 DEF GoldensInv, OneAtATime
<1>2. CASE BootAgain
  <2>1. /\ g_pc[t] = "refused" /\ g_pc["exit"] # "done" /\ GoldenGo(t, "idle")
        /\ UNCHANGED <<content, wanted, path, attached, presented, g_running, g_stopping, held, swap, trouble>>
    BY <1>2 DEF BootAgain, GoldenAt, golden_world
  <2>2. "idle" \in PcsOf(t) /\ g_pc'[t] = "idle"
    BY <1>0, <2>1, Goes DEF BootPcs
  <2>3. GoldensTyped'
    BY <1>0, <2>1, <2>2, Goes DEF GoldensTyped, GoldenTasks
  <2>4. ExitLeaves'
    BY <1>0, <2>1, <2>2, ExitStays DEF GoldensInv
  <2>5. ASSUME "overlap" \notin trouble'
        PROVE  OneAtATime'
    <3>1. Only(t) /\ AtStep(t) /\ ("unpresented" \notin trouble => ByName(t))
      BY <1>0, <2>1, <2>5, Alone DEF Working, InFlight
    <3>2. Settled' /\ ("unpresented" \notin trouble' => AtRest')
      BY <2>1, <2>2, <3>1 DEF AtStep, Clear, Settled, ByName, AtRest
    <3> QED BY <1>0, <2>1, <2>2, <3>1, <3>2, Ends
  <2> QED BY <2>3, <2>4, <2>5 DEF GoldensInv, OneAtATime
<1>3. CASE BootSpawns
  <2>1. /\ g_pc[t] \in {"presented", "spawn"} /\ g_pc["exit"] # "done" /\ GoldenGo(t, "done")
        /\ g_running' = ~g_stopping
        /\ UNCHANGED <<content, wanted, path, attached, presented, g_stopping, held, swap, trouble>>
    BY <1>3 DEF BootSpawns, golden_world
  <2>2. "done" \in PcsOf(t) /\ g_pc'[t] = "done"
    BY <1>0, <2>1, Goes DEF BootPcs
  <2>3. GoldensTyped'
    BY <1>0, <2>1, <2>2, Goes DEF GoldensTyped, GoldenTasks
  <2>4. ExitLeaves'
    BY <1>0, <2>1, <2>2, ExitStays DEF GoldensInv
  <2>5. ASSUME "overlap" \notin trouble', g_pc[t] = "presented"
        PROVE  OneAtATime'
    <3>1. Only(t) /\ AtStep(t) /\ ("unpresented" \notin trouble => ByName(t))
      BY <1>0, <2>1, <2>5, Alone DEF Working, InFlight
    <3>2. Settled' /\ ("unpresented" \notin trouble' => AtRest')
      BY <2>1, <2>2, <2>5, <3>1 DEF AtStep, Up, Settled, ByName, AtRest
    <3> QED BY <1>0, <2>1, <2>2, <3>1, <3>2, Ends
  <2>6. ASSUME "overlap" \notin trouble', g_pc[t] = "spawn"
        PROVE  OneAtATime'
    <3>1. /\ \A u \in GoldenTasks : Working(u)' <=> Working(u)
          /\ \A u \in GoldenTasks \ {t} : g_pc'[u] = g_pc[u]
          /\ ~Working(t)
      BY <1>0, <2>1, <2>2, <2>6, Goes DEF Working, InFlight
    <3>2. CASE \A u \in GoldenTasks : ~Working(u)
      <4>1. Settled /\ ("unpresented" \notin trouble => AtRest)
        BY <2>1, <2>6, <3>2 DEF GoldensInv, OneAtATime
      <4>2. Settled' /\ ("unpresented" \notin trouble' => AtRest')
        BY <2>1, <2>2, <2>6, <4>1 DEF Settled, Clear, Up, AtRest
      <4> QED BY <3>1, <3>2, <4>2 DEF OneAtATime
    <3>3. ASSUME NEW u \in GoldenTasks, Working(u)
          PROVE  OneAtATime'
      <4>1. Only(u) /\ AtStep(u) /\ ("unpresented" \notin trouble => ByName(u))
        BY <2>1, <2>6, <3>3, Alone
      <4>2. Only(u)' /\ Working(u)'
        BY <3>1, <3>3, <4>1 DEF Only
      <4>3. g_pc'[u] = g_pc[u] /\ u # t /\ u # "exit" /\ trouble' = trouble
        BY <1>0, <2>1, <2>6, <3>1, <3>3 DEF Working, InFlight
      <4>4. AtStep(u)'
        BY <2>1, <2>6, <4>1, <4>3 DEF AtStep, Settled, Clear, Up, HalfWay
      <4>5. "unpresented" \notin trouble' => ByName(u)'
        BY <2>1, <2>6, <4>1, <4>3 DEF ByName
      <4> QED BY <3>3, <4>2, <4>4, <4>5 DEF OneAtATime
    <3> QED BY <3>2, <3>3
  <2> QED BY <2>1, <2>3, <2>4, <2>5, <2>6 DEF GoldensInv, OneAtATime
<1> QED BY <1>1, <1>2, <1>3

-----------------------------------------------------------------------------
LEMMA SwapGoldens ==
  ASSUME GoldensInv, NEW t \in Swappers,
         \/ (\E v \in Volumes : SwapBegins(t, v)) \/ SwapStops(t) \/ SwapReleased(t)
         \/ SwapPresented(t) \/ SwapRefused(t) \/ SwapSpawns(t)
  PROVE  GoldensInv'
<1> USE GoldensAssumption, NoVolumeAssumption
<1>0. GoldensTyped /\ t \in GoldenTasks \ {"exit"} /\ t \in GoldenTasks /\ PcsOf(t) = SwapPcs /\ t # "boot"
  BY DEF GoldensInv, GoldensTyped, GoldenTasks, PcsOf
<1>1. ASSUME NEW v \in Volumes, SwapBegins(t, v)
      PROVE  GoldensInv'
  <2>1. PICK s \in {"stop", "release"} :
          /\ g_pc[t] = "idle" /\ g_pc["exit"] # "done" /\ GoldenGo(t, s)
          /\ swap' = [swap EXCEPT ![t] = [old |-> wanted, new |-> v, ran |-> g_running, back |-> FALSE]]
          /\ trouble' = trouble \cup Beside(t)
          /\ UNCHANGED <<content, wanted, path, attached, presented, g_running, g_stopping, held>>
    BY <1>1 DEF SwapBegins, GoldenAt, golden_world
  <2>2. s \in PcsOf(t) /\ g_pc'[t] = s /\ trouble \subseteq trouble'
    BY <1>0, <2>1, Goes DEF SwapPcs, ReleasePcs
  <2>3. swap' \in [GoldenTasks -> [old : Volume, new : Volume, ran : BOOLEAN, back : BOOLEAN]]
        /\ swap'[t].old = wanted /\ swap'[t].new = v /\ ~swap'[t].back /\ \A u \in Swappers \ {t} : swap'[u] = swap[u]
    BY <1>0, <2>1 DEF GoldensTyped, Volume, GoldenTasks
  <2>4. GoldensTyped'
    BY <1>0, <2>1, <2>2, <2>3, Goes DEF GoldensTyped, GoldenTasks
  <2>5. ExitLeaves'
    BY <1>0, <2>1, <2>2, ExitStays DEF GoldensInv
  <2>6. ASSUME "overlap" \notin trouble'
        PROVE  OneAtATime'
    <3>1. trouble' = trouble /\ (\A u \in GoldenTasks : ~InFlight(u)) /\ Settled /\ ("unpresented" \notin trouble => AtRest)
      BY <1>0, <2>1, <2>6, Begins
    <3>2. AtStep(t)'
      BY <2>1, <2>2, <3>1 DEF AtStep, Settled, Clear, Up
    <3>3. "unpresented" \notin trouble' => ByName(t)'
      BY <1>0, <2>1, <2>2, <2>3, <3>1 DEF ByName, AtRest
    <3> QED BY <1>0, <2>1, <2>2, <3>1, <3>2, <3>3, Stays DEF Only, Working
  <2> QED BY <2>4, <2>5, <2>6 DEF GoldensInv, OneAtATime
<1>2. CASE SwapStops(t)
  <2>1. /\ g_pc[t] = "stop" /\ g_pc["exit"] # "done" /\ GoldenGo(t, "release") /\ g_running' \in {FALSE, g_running}
        /\ UNCHANGED <<content, wanted, path, attached, presented, g_stopping, held, swap, trouble>>
    BY <1>2 DEF SwapStops, GoldenAt, golden_world
  <2>2. "release" \in PcsOf(t) /\ g_pc'[t] = "release"
    BY <1>0, <2>1, Goes DEF SwapPcs, ReleasePcs
  <2>3. GoldensTyped'
    BY <1>0, <2>1, <2>2, Goes DEF GoldensTyped, GoldenTasks
  <2>4. ExitLeaves'
    BY <1>0, <2>1, <2>2, ExitStays DEF GoldensInv
  <2>5. ASSUME "overlap" \notin trouble'
        PROVE  OneAtATime'
    <3>1. Only(t) /\ AtStep(t) /\ ("unpresented" \notin trouble => ByName(t))
      BY <1>0, <2>1, <2>5, Alone DEF Working, InFlight
    <3>2. AtStep(t)'
      BY <2>1, <2>2, <3>1 DEF AtStep, Settled, Clear, Up
    <3>3. "unpresented" \notin trouble' => ByName(t)'
      BY <1>0, <2>1, <2>2, <3>1 DEF ByName, PresentPcs, ReleasePcs
    <3> QED BY <1>0, <2>1, <2>2, <3>1, <3>2, <3>3, Stays
  <2> QED BY <2>3, <2>4, <2>5 DEF GoldensInv, OneAtATime
<1>3. CASE SwapReleased(t)
  <2>1. /\ g_pc[t] = "released" /\ g_pc["exit"] # "done" /\ GoldenGo(t, "attach")
        /\ held' = [held EXCEPT ![t] = swap[t].new]
        /\ UNCHANGED <<content, wanted, path, attached, presented, g_running, g_stopping, swap, trouble>>
    BY <1>3 DEF SwapReleased, GoldenAt, golden_world
  <2>2. "attach" \in PcsOf(t) /\ g_pc'[t] = "attach" /\ swap[t].new \in Volumes /\ held'[t] = swap[t].new
        /\ held' \in [GoldenTasks -> Volume]
    BY <1>0, <2>1, Goes DEF SwapPcs, PresentPcs, GoldensTyped, Volume
  <2>3. GoldensTyped'
    BY <1>0, <2>1, <2>2, Goes DEF GoldensTyped, GoldenTasks
  <2>4. ExitLeaves'
    BY <1>0, <2>1, <2>2, ExitStays DEF GoldensInv
  <2>5. ASSUME "overlap" \notin trouble'
        PROVE  OneAtATime'
    <3>1. Only(t) /\ AtStep(t) /\ ("unpresented" \notin trouble => ByName(t))
      BY <1>0, <2>1, <2>5, Alone DEF Working, InFlight
    <3>2. AtStep(t)'
      BY <2>1, <2>2, <3>1 DEF AtStep, Clear
    <3>3. "unpresented" \notin trouble' => ByName(t)'
      BY <1>0, <2>1, <2>2, <3>1 DEF ByName, PresentPcs, ReleasePcs
    <3> QED BY <1>0, <2>1, <2>2, <3>1, <3>2, <3>3, Stays
  <2> QED BY <2>3, <2>4, <2>5 DEF GoldensInv, OneAtATime
<1>4. CASE SwapPresented(t)
  <2>1. /\ g_pc[t] = "presented" /\ g_pc["exit"] # "done" /\ GoldenGo(t, "spawn")
        /\ wanted' = IF swap[t].back THEN wanted ELSE swap[t].new
        /\ UNCHANGED <<content, path, attached, presented, g_running, g_stopping, held, swap, trouble>>
    BY <1>4 DEF SwapPresented, GoldenAt, golden_world
  <2>2. "spawn" \in PcsOf(t) /\ g_pc'[t] = "spawn" /\ wanted' \in Volumes
    BY <1>0, <2>1, Goes DEF SwapPcs, GoldensTyped
  <2>3. GoldensTyped'
    BY <1>0, <2>1, <2>2, Goes DEF GoldensTyped, GoldenTasks
  <2>4. ExitLeaves'
    BY <1>0, <2>1, <2>2, ExitStays DEF GoldensInv
  <2>5. ASSUME "overlap" \notin trouble'
        PROVE  OneAtATime'
    <3>1. Only(t) /\ AtStep(t) /\ ("unpresented" \notin trouble => ByName(t))
      BY <1>0, <2>1, <2>5, Alone DEF Working, InFlight
    <3>2. AtStep(t)'
      BY <2>1, <2>2, <3>1 DEF AtStep, Settled, Up
    <3>3. "unpresented" \notin trouble' => presented = wanted'
      BY <1>0, <2>1, <3>1 DEF ByName, AtStep, PresentPcs
    <3>4. "unpresented" \notin trouble' => ByName(t)'
      BY <1>0, <2>1, <2>2, <3>3 DEF ByName, PresentPcs, ReleasePcs
    <3> QED BY <1>0, <2>1, <2>2, <3>1, <3>2, <3>4, Stays
  <2> QED BY <2>3, <2>4, <2>5 DEF GoldensInv, OneAtATime
<1>5. CASE SwapRefused(t)
  <2>1. PICK s \in {"attach", "spawn"} :
          /\ g_pc[t] = "refused" /\ g_pc["exit"] # "done" /\ GoldenGo(t, s)
          /\ \/ /\ s = "attach" /\ held' = [held EXCEPT ![t] = swap[t].old]
                /\ swap' = [swap EXCEPT ![t].back = TRUE] /\ trouble' = trouble
             \/ s = "spawn" /\ held' = held /\ swap' = swap /\ trouble' = trouble \cup {"unpresented"}
          /\ UNCHANGED <<content, wanted, path, attached, presented, g_running, g_stopping>>
    BY <1>5 DEF SwapRefused, GoldenAt, golden_world
  <2>2. s \in PcsOf(t) /\ g_pc'[t] = s /\ trouble \subseteq trouble'
    BY <1>0, <2>1, Goes DEF SwapPcs, PresentPcs
  <2>3. /\ held' \in [GoldenTasks -> Volume] /\ swap[t].old \in Volumes
        /\ s = "attach" => held'[t] = swap[t].old
    BY <1>0, <2>1 DEF GoldensTyped, Volume
  <2>4. /\ swap' \in [GoldenTasks -> [old : Volume, new : Volume, ran : BOOLEAN, back : BOOLEAN]]
        /\ swap'[t].old = swap[t].old /\ swap'[t].new = swap[t].new /\ \A u \in Swappers \ {t} : swap'[u] = swap[u]
        /\ s = "attach" => swap'[t].back
    <3>1. CASE swap' = swap /\ s = "spawn"
      BY <1>0, <3>1 DEF GoldensTyped
    <3>2. CASE swap' = [swap EXCEPT ![t].back = TRUE]
      BY <1>0, <3>2 DEF GoldensTyped, GoldenTasks
    <3> QED BY <2>1, <3>1, <3>2
  <2>5. GoldensTyped'
    BY <1>0, <2>1, <2>2, <2>3, <2>4, Goes DEF GoldensTyped, GoldenTasks
  <2>6. ExitLeaves'
    BY <1>0, <2>1, <2>2, ExitStays DEF GoldensInv
  <2>7. ASSUME "overlap" \notin trouble'
        PROVE  OneAtATime'
    <3>1. Only(t) /\ AtStep(t) /\ ("unpresented" \notin trouble => ByName(t))
      BY <1>0, <2>1, <2>7, Alone DEF Working, InFlight
    <3>2. AtStep(t)'
      BY <2>1, <2>2, <2>3, <3>1 DEF AtStep, Settled, Clear
    <3>3. "unpresented" \notin trouble' => ByName(t)'
      BY <1>0, <2>1, <2>2, <2>3, <2>4, <3>1 DEF ByName, PresentPcs, ReleasePcs
    <3> QED BY <1>0, <2>1, <2>2, <3>1, <3>2, <3>3, Stays
  <2> QED BY <2>5, <2>6, <2>7 DEF GoldensInv, OneAtATime
<1>6. CASE SwapSpawns(t)
  <2>1. /\ g_pc[t] \in {"spawn", "unreleased"} /\ g_pc["exit"] # "done" /\ GoldenGo(t, "idle")
        /\ g_running' = IF swap[t].ran /\ ~g_stopping THEN TRUE ELSE g_running
        /\ trouble' = IF g_pc[t] = "unreleased" /\ presented = NoVolume
                      THEN trouble \cup {"unpresented"} ELSE trouble
        /\ held' = [held EXCEPT ![t] = NoVolume] /\ swap' = [swap EXCEPT ![t] = NoSwap]
        /\ UNCHANGED <<content, wanted, path, attached, presented, g_stopping>>
    BY <1>6 DEF SwapSpawns, golden_world
  <2>2. "idle" \in PcsOf(t) /\ g_pc'[t] = "idle" /\ trouble \subseteq trouble'
    BY <1>0, <2>1, Goes DEF SwapPcs
  <2>3. /\ held' \in [GoldenTasks -> Volume] /\ g_running' \in BOOLEAN
        /\ swap' \in [GoldenTasks -> [old : Volume, new : Volume, ran : BOOLEAN, back : BOOLEAN]]
        /\ \A u \in Swappers \ {t} : swap'[u] = swap[u]
    BY <1>0, <2>1 DEF GoldensTyped, Volume, NoSwap, GoldenTasks
  <2>4. GoldensTyped'
    BY <1>0, <2>1, <2>2, <2>3, Goes DEF GoldensTyped, GoldenTasks
  <2>5. ExitLeaves'
    BY <1>0, <2>1, <2>2, ExitStays DEF GoldensInv
  <2>6. ASSUME "overlap" \notin trouble'
        PROVE  OneAtATime'
    <3>1. Only(t) /\ AtStep(t) /\ ("unpresented" \notin trouble => ByName(t))
      BY <1>0, <2>1, <2>2, <2>6, Alone DEF Working, InFlight
    <3>2. Settled'
      BY <2>1, <3>1 DEF AtStep, Settled, Clear, Up
    <3>3. "unpresented" \notin trouble' => presented = wanted
      BY <1>0, <2>1, <3>1 DEF ByName
    <3>4. "unpresented" \notin trouble' => AtRest'
      BY <1>0, <2>1, <3>3 DEF AtRest, GoldensTyped
    <3> QED BY <1>0, <2>1, <2>2, <3>1, <3>2, <3>4, Ends
  <2> QED BY <2>4, <2>5, <2>6 DEF GoldensInv, OneAtATime
<1> QED BY <1>1, <1>2, <1>3, <1>4, <1>5, <1>6

-----------------------------------------------------------------------------
LEMMA ExitGoldens ==
  ASSUME GoldensInv, GoldensShutdown \/ ReleaseAll \/ ReleaseEnds \/ UNCHANGED GoldensVars
  PROVE  GoldensInv'
<1> USE GoldensAssumption, NoVolumeAssumption
<1>0. GoldensTyped /\ "exit" \in GoldenTasks /\ PcsOf("exit") = ExitPcs
  BY DEF GoldensInv, GoldenTasks, PcsOf
<1>1. CASE GoldensShutdown \/ UNCHANGED GoldensVars
  <2>1. /\ g_stopping' \in BOOLEAN
        /\ UNCHANGED <<content, wanted, path, attached, presented, g_running, g_pc, held, swap, trouble>>
    BY <1>0, <1>1 DEF GoldensShutdown, GoldensVars, golden_world, golden_task, GoldensTyped
  <2> QED BY <2>1 DEF GoldensInv, GoldensTyped, OneAtATime, ExitLeaves, Working, Only, InFlight, AtStep, ByName,
                      AtRest, Settled, Clear, Up, HalfWay
<1>2. CASE ReleaseAll
  <2>1. PICK s \in {"done", "release"} :
          /\ g_pc["exit"] = "idle" /\ GoldenGo("exit", s) /\ g_pc["boot"] = "done"
          /\ s = (IF presented = NoVolume THEN "done" ELSE "release")
          /\ g_running' = FALSE /\ trouble' = trouble \cup Beside("exit")
          /\ UNCHANGED <<content, wanted, path, attached, presented, g_stopping, held, swap>>
    BY <1>2 DEF ReleaseAll, GoldenAt, golden_world
  <2>2. s \in PcsOf("exit") /\ g_pc'["exit"] = s /\ g_pc'["boot"] = "done"
    BY <1>0, <2>1, Goes DEF ExitPcs, ReleasePcs, GoldenTasks
  <2>3. GoldensTyped'
    <3>1. /\ g_pc' \in [GoldenTasks -> BootPcs \cup ExitPcs \cup SwapPcs]
          /\ \A u \in GoldenTasks : g_pc'[u] = IF u = "exit" THEN s ELSE g_pc[u]
          /\ \A u \in GoldenTasks : g_pc'[u] \in PcsOf(u)
      BY <1>0, <2>1, <2>2, Goes DEF GoldenTasks
    <3>2. \A u \in Swappers : u \in GoldenTasks /\ g_pc'[u] = g_pc[u]
      BY <3>1, GoldensAssumption DEF GoldenTasks
    <3>. QED
      BY ONLY <1>0, <2>1, <2>2, <3>1, <3>2 DEF GoldensTyped
  <2>4. ASSUME "overlap" \notin trouble'
        PROVE  trouble' = trouble /\ (\A u \in GoldenTasks : ~InFlight(u)) /\ Settled /\ ("unpresented" \notin trouble => AtRest)
    BY <1>0, <2>1, <2>4, Begins
  <2>5. ExitLeaves'
    BY <2>1, <2>2, <2>4 DEF ExitLeaves, Settled, Clear, Up
  <2>6. ASSUME "overlap" \notin trouble', s = "release"
        PROVE  OneAtATime'
    <3>1. AtStep("exit")'
      BY <2>1, <2>2, <2>4, <2>6 DEF AtStep, Settled, Clear, Up
    <3>2. "unpresented" \notin trouble' => ByName("exit")'
      BY <2>1, <2>2, <2>4, <2>6 DEF ByName, AtRest
    <3> QED BY <1>0, <2>1, <2>2, <2>4, <2>6, <3>1, <3>2, Stays DEF Only, Working
  <2>7. ASSUME "overlap" \notin trouble', s = "done"
        PROVE  OneAtATime'
    <3>1. Settled' /\ ("unpresented" \notin trouble' => AtRest')
      BY <2>1, <2>2, <2>4, <2>7 DEF AtRest, Settled, Clear, Up
    <3> QED BY <1>0, <2>1, <2>2, <2>4, <2>7, <3>1, Ends DEF Only, Working
  <2> QED BY <2>1, <2>3, <2>5, <2>6, <2>7 DEF GoldensInv, OneAtATime
<1>3. CASE ReleaseEnds
  <2>1. /\ g_pc["exit"] \in {"released", "unreleased"} /\ GoldenGo("exit", "done")
        /\ UNCHANGED <<content, wanted, path, attached, presented, g_running, g_stopping, held, swap, trouble>>
    BY <1>3 DEF ReleaseEnds, golden_world
  <2>2. "done" \in PcsOf("exit") /\ g_pc'["exit"] = "done" /\ g_pc'["boot"] = "done" /\ g_pc["boot"] = "done"
    BY <1>0, <2>1, Goes DEF ExitPcs, GoldensTyped, GoldenTasks
  <2>3. GoldensTyped'
    BY <1>0, <2>1, <2>2, Goes DEF GoldensTyped, GoldenTasks
  <2>4. ASSUME "overlap" \notin trouble'
        PROVE  /\ Only("exit") /\ AtStep("exit") /\ ("unpresented" \notin trouble => ByName("exit"))
               /\ Settled
    BY <1>0, <2>1, <2>4, Alone DEF Working, InFlight, AtStep, Settled
  <2>5. ExitLeaves'
    BY <2>1, <2>2, <2>4 DEF GoldensInv, ExitLeaves, AtStep, Clear
  <2>6. ASSUME "overlap" \notin trouble'
        PROVE  OneAtATime'
    <3>1. Settled' /\ ("unpresented" \notin trouble' => AtRest')
      BY <2>1, <2>2, <2>4, <2>6 DEF AtRest, Settled, Clear, Up, ByName, AtStep
    <3> QED BY <1>0, <2>1, <2>2, <2>4, <2>6, <3>1, Ends
  <2> QED BY <2>3, <2>5, <2>6 DEF GoldensInv, OneAtATime
<1> QED BY <1>1, <1>2, <1>3

LEMMA InitGoldens == GoldensInit => GoldensInv
<1> SUFFICES ASSUME GoldensInit PROVE GoldensInv
  OBVIOUS
<1>1. \A t \in GoldenTasks : g_pc[t] = "idle"
  BY DEF GoldensInit
<1>2. GoldensTyped
  BY <1>1, GoldensAssumption, NoVolumeAssumption
     DEF GoldensInit, GoldensTyped, GoldenTasks, Volume, NoSwap, PcsOf, BootPcs, ExitPcs, SwapPcs
<1>3. OneAtATime
  BY <1>1 DEF GoldensInit, OneAtATime, Working, InFlight, Settled, Clear, AtRest, GoldenTasks
<1>4. ExitLeaves
  BY <1>1 DEF ExitLeaves, GoldenTasks
<1> QED BY <1>2, <1>3, <1>4 DEF GoldensInv

\* Of boot, swap and the exit handler the one that attaches, places, undoes or
\* releases a golden finds the path, the attached volumes and the map as its own
\* last step left them, for as long as it is alone: the inductive invariant.
THEOREM GoldensInvCorrect == GoldensSpec => []GoldensInv
<1>1. GoldensInv /\ [GoldensNext]_GoldensVars => GoldensInv'
  <2> SUFFICES ASSUME GoldensInv, [GoldensNext]_GoldensVars PROVE GoldensInv'
    OBVIOUS
  <2>1. "boot" \in GoldenTasks \ {"exit"} /\ "exit" \in GoldenTasks \ {"boot"}
        /\ \A t \in Swappers : t \in GoldenTasks \ {"exit"} /\ t \in GoldenTasks \ {"boot"}
    BY GoldensAssumption DEF GoldenTasks
  <2>2. CASE Boot \/ BootAgain \/ BootSpawns
    BY <2>2, BootGoldens
  <2>3. CASE \E t \in {"boot"} \cup Swappers : Presenting(t)
    BY <2>1, <2>3, PresentingGoldens
  <2>4. CASE \E t \in {"exit"} \cup Swappers : Releasing(t)
    BY <2>1, <2>4, ReleasingGoldens
  <2>5. CASE GoldensShutdown \/ ReleaseAll \/ ReleaseEnds \/ UNCHANGED GoldensVars
    BY <2>5, ExitGoldens
  <2>6. CASE \E t \in Swappers : \/ (\E v \in Volumes : SwapBegins(t, v)) \/ SwapStops(t) \/ SwapReleased(t)
                                 \/ SwapPresented(t) \/ SwapRefused(t) \/ SwapSpawns(t)
    BY <2>6, SwapGoldens
  <2> QED BY <2>2, <2>3, <2>4, <2>5, <2>6 DEF GoldensNext
<1> QED BY <1>1, InitGoldens, PTL DEF GoldensSpec

\* What golden.rs has in its map as presented is attached and is the one thing at
\* the path, after any steps that fail, as long as no two tasks worked at once.
THEOREM GoldenServedCorrect == GoldensSpec => []GoldenServed
<1>1. GoldensInv => GoldenServed
  <2> SUFFICES ASSUME GoldensInv, presented # NoVolume, "overlap" \notin trouble
               PROVE  presented \in attached /\ path = <<presented>>
    BY DEF GoldenServed
  <2>1. CASE Settled
    BY <2>1 DEF Settled, Clear, Up
  <2>2. ASSUME NEW t \in GoldenTasks, AtStep(t), Working(t)
        PROVE  presented \in attached /\ path = <<presented>>
    <3>1. g_pc[t] \in (BootPcs \cup ExitPcs \cup SwapPcs) \ {"idle", "done"}
      BY <2>2 DEF GoldensInv, GoldensTyped, Working, InFlight
    <3> QED BY <2>2, <3>1 DEF AtStep, Settled, Clear, Up, HalfWay, BootPcs, ExitPcs, SwapPcs, PresentPcs, ReleasePcs
  <2> QED BY <2>1, <2>2 DEF GoldensInv, OneAtATime
<1> QED BY <1>1, GoldensInvCorrect, PTL

\* With no task under way the running process has the golden that its config names:
\* a swap that fails puts the golden before it back, and the config with it.
THEOREM RunsWithGoldenCorrect == GoldensSpec => []RunsWithGolden
<1>1. GoldensInv => RunsWithGolden
  <2> SUFFICES ASSUME GoldensInv, g_running, trouble \cap {"overlap", "unpresented"} = {},
                      \A t \in GoldenTasks : ~InFlight(t)
               PROVE  presented = wanted
    BY DEF RunsWithGolden
  <2>1. \A t \in GoldenTasks : ~Working(t)
    BY DEF Working
  <2> QED BY <2>1 DEF GoldensInv, OneAtATime, AtRest
<1> QED BY <1>1, GoldensInvCorrect, PTL

\* A stormd that has exited has left nothing mounted and nothing attached, unless a
\* step of the release failed or a task was still at it.
THEOREM NothingLeftCorrect == GoldensSpec => []NothingLeft
<1>1. GoldensInv => NothingLeft
  BY DEF GoldensInv, NothingLeft, ExitLeaves, Clear
<1> QED BY <1>1, GoldensInvCorrect, PTL

-----------------------------------------------------------------------------
(* Sums over finite sets.  SumFunctionOnSet is defined by recursion on the *)
(* set: induction is the choice of a smallest set, or a least number, that *)
(* is a counterexample.                                                    *)

NatBelow == {ss \in Nat \X Nat : ss[1] < ss[2]}

\* Of some finite sets, one has none of the others but for one element less.
LEMMA SmallestSet ==
  ASSUME NEW F, F # {}, \A T \in F : IsFiniteSet(T)
  PROVE  \E T \in F : \A x \in T : T \ {x} \notin F
<1> DEFINE sizes == {Cardinality(T) : T \in F}
<1>1. sizes \subseteq Nat /\ sizes # {}
  BY FS_CardinalityType
<1>2. IsWellFoundedOn(NatBelow, Nat)
  BY NatLessThanWellFounded DEF OpToRel, NatBelow
<1>3. PICK n \in sizes : \A m \in sizes : <<m, n>> \notin NatBelow
  BY <1>1, <1>2, WFMin
<1>4. PICK T \in F : Cardinality(T) = n
  BY <1>3
<1>5. ASSUME NEW x \in T, T \ {x} \in F
      PROVE  FALSE
  <2>1. Cardinality(T \ {x}) = n - 1 /\ n \in Nat /\ n - 1 \in Nat
    BY <1>1, <1>4, <1>5, FS_RemoveElement, FS_CardinalityType
  <2>2. Cardinality(T \ {x}) \in sizes
    BY <1>5
  <2>3. <<n - 1, n>> \in NatBelow
    BY <2>1 DEF NatBelow
  <2>. QED
    BY <1>3, <2>1, <2>2, <2>3
<1>. QED
  BY <1>4, <1>5

First(T) == CHOOSE x \in T : TRUE
SumFrom(w, g, T) == IF T = {} THEN 0 ELSE w[First(T)] + g[T \ {First(T)}]
Sums(w, S) == CHOOSE g : g = [T \in SUBSET S |-> SumFrom(w, g, T)]

\* A set of numbers that is not empty has a least one.
LEMMA LeastOf ==
  ASSUME NEW T, T \subseteq Nat, T # {}
  PROVE  \E n \in T : \A m \in T : n <= m
<1>1. IsWellFoundedOn(NatBelow, Nat)
  BY NatLessThanWellFounded DEF OpToRel, NatBelow
<1>2. PICK n \in T : \A m \in T : <<m, n>> \notin NatBelow
  BY <1>1, WFMin
<1>3. ASSUME NEW m \in T
      PROVE  n <= m
  <2>1. m \in Nat /\ n \in Nat
    OBVIOUS
  <2>2. ~(m < n)
    BY <1>2, <2>1 DEF NatBelow
  <2>. QED
    BY <2>1, <2>2
<1>. QED
  BY <1>3

\* The recursion of a sum over a finite set has a solution.
LEMMA SumsExist ==
  ASSUME NEW w, NEW S, IsFiniteSet(S)
  PROVE  \E g : g = [T \in SUBSET S |-> SumFrom(w, g, T)]
<1> DEFINE Small(n) == {T \in SUBSET S : Cardinality(T) <= n}
           Solves(g, n) == g = [T \in Small(n) |-> SumFrom(w, g, T)]
           bad == {n \in Nat : ~\E g : Solves(g, n)}
<1>0. \A T \in SUBSET S : IsFiniteSet(T) /\ Cardinality(T) \in Nat
  BY FS_Subset, FS_CardinalityType
<1>1. bad = {}
  <2> SUFFICES ASSUME bad # {}
               PROVE  FALSE
    OBVIOUS
  <2>1. PICK n \in bad : \A m \in bad : n <= m
    BY LeastOf
  <2>2. n # 0
    <3>1. \A T \in Small(0) : T = {}
      BY <1>0, FS_EmptySet
    <3> DEFINE zero == [T \in Small(0) |-> 0]
    <3>2. \A T \in Small(0) : SumFrom(w, zero, T) = 0
      BY <3>1 DEF SumFrom
    <3>3. Solves(zero, 0)
      BY <3>2
    <3>. QED
      BY <2>1, <3>3
  <2>3. n \in Nat /\ n - 1 \in Nat /\ n - 1 \notin bad
    <3>1. n \in Nat
      OBVIOUS
    <3> HIDE DEF bad
    <3>2. n - 1 \in bad => n <= n - 1
      BY <2>1
    <3>. QED
      BY <2>2, <3>1, <3>2
  <2>4. PICK g : Solves(g, n - 1)
    BY <2>3
  <2> DEFINE h == [T \in Small(n) |-> IF T \in Small(n - 1) THEN g[T] ELSE SumFrom(w, g, T)]
  <2>5. ASSUME NEW T \in Small(n)
        PROVE  h[T] = SumFrom(w, h, T)
    <3>1. g[T] = SumFrom(w, g, T) \/ T \notin Small(n - 1)
      BY <2>4
    <3>2. h[T] = SumFrom(w, g, T)
      BY <3>1
    <3>3. CASE T = {}
      BY <3>2, <3>3 DEF SumFrom
    <3>4. CASE T # {}
      <4>1. First(T) \in T
        BY <3>4 DEF First
      <4>2. T \ {First(T)} \in Small(n - 1)
        <5>1. Cardinality(T \ {First(T)}) = Cardinality(T) - 1
          BY <1>0, <4>1, FS_RemoveElement
        <5>2. Cardinality(T) <= n /\ Cardinality(T) \in Nat
          BY <1>0
        <5>3. Cardinality(T \ {First(T)}) <= n - 1
          BY <2>3, <5>1, <5>2
        <5>. QED
          BY <5>3
      <4>3. T \ {First(T)} \in Small(n)
        <5>1. Cardinality(T \ {First(T)}) <= n - 1 /\ Cardinality(T \ {First(T)}) \in Nat
          BY <1>0, <4>2
        <5>. QED
          BY <2>3, <5>1
      <4>4. h[T \ {First(T)}] = g[T \ {First(T)}]
        BY <4>2, <4>3
      <4>. QED
        BY <3>2, <4>4 DEF SumFrom
    <3>. QED
      BY <3>3, <3>4
  <2>6. h = [T \in Small(n) |-> h[T]]
    OBVIOUS
  <2> HIDE DEF h
  <2>7. Solves(h, n)
    BY <2>5, <2>6
  <2>. QED
    BY <2>1, <2>7
<1>2. Small(Cardinality(S)) = SUBSET S /\ Cardinality(S) \in Nat
  BY <1>0, FS_Subset, FS_CardinalityType
<1>3. PICK g : Solves(g, Cardinality(S))
  BY <1>1, <1>2
<1>4. g = [T \in SUBSET S |-> SumFrom(w, g, T)]
  BY <1>2, <1>3
<1>. QED
  BY <1>4

SumOn(w, S) == SumFunctionOnSet(w, S)

\* The sums of one weight, set by set.
LEMMA SumsAre ==
  ASSUME NEW w, NEW S, IsFiniteSet(S)
  PROVE  /\ SumOn(w, S) = Sums(w, S)[S]
         /\ \A T \in SUBSET S : Sums(w, S)[T] = SumFrom(w, Sums(w, S), T)
<1>1. SumOn(w, S) = Sums(w, S)[S]
  BY DEF SumOn, SumFunctionOnSet, FoldFunctionOnSet, MapThenFoldSet, Sums, SumFrom, First
<1>2. Sums(w, S) = [T \in SUBSET S |-> SumFrom(w, Sums(w, S), T)]
  BY SumsExist DEF Sums
<1>. QED
  BY <1>1, <1>2

\* A sum over a part of a set is what that part's own sum is.
LEMMA SumOfPart ==
  ASSUME NEW w, NEW S, IsFiniteSet(S), NEW R \in SUBSET S
  PROVE  \A T \in SUBSET R : Sums(w, S)[T] = Sums(w, R)[T]
<1> DEFINE F == {T \in SUBSET R : Sums(w, S)[T] # Sums(w, R)[T]}
<1> SUFFICES ASSUME F # {}
             PROVE  FALSE
  OBVIOUS
<1>0. IsFiniteSet(R) /\ \A T \in SUBSET R : IsFiniteSet(T) /\ T \in SUBSET S
  BY FS_Subset
<1>1. PICK T \in F : \A x \in T : T \ {x} \notin F
  BY <1>0, SmallestSet
<1>2. /\ Sums(w, S)[T] = SumFrom(w, Sums(w, S), T)
      /\ Sums(w, R)[T] = SumFrom(w, Sums(w, R), T)
  BY <1>0, SumsAre
<1>3. T # {} => First(T) \in T
  BY DEF First
<1>4. T # {} => Sums(w, S)[T \ {First(T)}] = Sums(w, R)[T \ {First(T)}]
  BY <1>1, <1>3
<1>5. SumFrom(w, Sums(w, S), T) = SumFrom(w, Sums(w, R), T)
  BY <1>4 DEF SumFrom
<1>. QED
  BY <1>2, <1>5

\* A sum is taken one element after the other.
LEMMA SumIs ==
  ASSUME NEW w, NEW S, IsFiniteSet(S)
  PROVE  /\ S = {} => SumOn(w, S) = 0
         /\ S # {} => First(S) \in S /\ SumOn(w, S) = w[First(S)] + SumOn(w, S \ {First(S)})
<1>1. SumOn(w, S) = SumFrom(w, Sums(w, S), S)
  BY SumsAre
<1>2. S # {} => First(S) \in S
  BY DEF First
<1>3. Sums(w, S)[S \ {First(S)}] = SumOn(w, S \ {First(S)})
  <2>1. IsFiniteSet(S \ {First(S)}) /\ S \ {First(S)} \in SUBSET S
    BY FS_RemoveElement
  <2>. QED
    BY <2>1, SumOfPart, SumsAre
<1>. QED
  BY <1>1, <1>2, <1>3 DEF SumFrom

\* A sum of numbers is a number.
LEMMA SumType ==
  ASSUME NEW w, NEW S, IsFiniteSet(S), \A x \in S : w[x] \in Nat
  PROVE  SumOn(w, S) \in Nat
<1> DEFINE F == {T \in SUBSET S : SumOn(w, T) \notin Nat}
<1> SUFFICES ASSUME F # {}
             PROVE  FALSE
  <2>1. S \in SUBSET S
    OBVIOUS
  <2>. QED
    BY <2>1
<1>0. \A T \in SUBSET S : IsFiniteSet(T)
  BY FS_Subset
<1>1. PICK T \in F : \A x \in T : T \ {x} \notin F
  BY <1>0, SmallestSet
<1>2. CASE T = {}
  <2>1. SumOn(w, T) = 0
    BY <1>0, <1>2, SumIs
  <2>. QED
    BY <2>1
<1>3. CASE T # {}
  <2>1. First(T) \in T /\ SumOn(w, T) = w[First(T)] + SumOn(w, T \ {First(T)})
    BY <1>0, <1>3, SumIs
  <2>2. SumOn(w, T \ {First(T)}) \in Nat /\ w[First(T)] \in Nat
    BY <1>1, <2>1
  <2>. QED
    BY <2>1, <2>2
<1>. QED
  BY <1>2, <1>3

\* Whichever element is taken first.
LEMMA SumWithout ==
  ASSUME NEW w, NEW S, IsFiniteSet(S), \A y \in S : w[y] \in Nat, NEW x \in S
  PROVE  SumOn(w, S) = w[x] + SumOn(w, S \ {x})
<1> DEFINE F == {T \in SUBSET S : \E z \in T : SumOn(w, T) # w[z] + SumOn(w, T \ {z})}
<1> SUFFICES ASSUME F # {}
             PROVE  FALSE
  <2>1. S \in SUBSET S
    OBVIOUS
  <2>. QED
    BY <2>1
<1>0. \A T \in SUBSET S : IsFiniteSet(T) /\ SumOn(w, T) \in Nat
  BY FS_Subset, SumType
<1>1. PICK T \in F : \A y \in T : T \ {y} \notin F
  BY <1>0, SmallestSet
<1>2. PICK z \in T : SumOn(w, T) # w[z] + SumOn(w, T \ {z})
  OBVIOUS
<1> DEFINE c == First(T)
<1>3. c \in T /\ SumOn(w, T) = w[c] + SumOn(w, T \ {c})
  BY <1>0, <1>2, SumIs
<1>4. c # z
  BY <1>2, <1>3
<1> HIDE DEF c
<1>5. SumOn(w, T \ {c}) = w[z] + SumOn(w, (T \ {c}) \ {z})
  BY <1>1, <1>3, <1>4
<1>6. SumOn(w, T \ {z}) = w[c] + SumOn(w, (T \ {z}) \ {c})
  BY <1>1, <1>3, <1>4
<1>7. (T \ {c}) \ {z} = (T \ {z}) \ {c}
  OBVIOUS
<1>8. w[c] \in Nat /\ w[z] \in Nat /\ SumOn(w, (T \ {c}) \ {z}) \in Nat
  BY <1>0, <1>3
<1>9. SumOn(w, T \ {z}) = w[c] + SumOn(w, (T \ {c}) \ {z})
  BY <1>6, <1>7
<1> DEFINE r == SumOn(w, (T \ {c}) \ {z})
<1>10. w[c] + (w[z] + r) = w[z] + (w[c] + r)
  BY <1>8
<1>. QED
  BY <1>2, <1>3, <1>5, <1>9, <1>10

\* What it is a sum of is all that counts.
LEMMA SumSame ==
  ASSUME NEW w, NEW v, NEW S, IsFiniteSet(S), \A x \in S : w[x] = v[x]
  PROVE  SumOn(w, S) = SumOn(v, S)
<1> DEFINE F == {T \in SUBSET S : SumOn(w, T) # SumOn(v, T)}
<1> SUFFICES ASSUME F # {}
             PROVE  FALSE
  <2>1. S \in SUBSET S
    OBVIOUS
  <2>. QED
    BY <2>1
<1>0. \A T \in SUBSET S : IsFiniteSet(T)
  BY FS_Subset
<1>1. PICK T \in F : \A y \in T : T \ {y} \notin F
  BY <1>0, SmallestSet
<1>2. CASE T = {}
  BY <1>0, <1>2, SumIs
<1>3. CASE T # {}
  <2>1. First(T) \in T /\ SumOn(w, T) = w[First(T)] + SumOn(w, T \ {First(T)})
        /\ SumOn(v, T) = v[First(T)] + SumOn(v, T \ {First(T)})
    BY <1>0, <1>3, SumIs
  <2>2. SumOn(w, T \ {First(T)}) = SumOn(v, T \ {First(T)}) /\ w[First(T)] = v[First(T)]
    BY <1>1, <2>1
  <2>. QED
    BY <2>1, <2>2
<1>. QED
  BY <1>2, <1>3

-----------------------------------------------------------------------------
(* RunLog: which closed runs pruning keeps.                                *)

AllNames == UNION {LogNames(q) : q \in Logged}

\* What pruning relies on: a closed run's file is in the history, with the id of its run.
RunsTyped ==
  /\ DOMAIN files = AllNames /\ second \in Seconds /\ run_ids \in [Logged -> Seconds]
  /\ closed \in [Logged -> SUBSET AllNames]
  /\ \A p \in Logged : closed[p] \subseteq ClosedNames(p)
  /\ \A p \in Logged : \A f \in ClosedNames(p) : files[f] # <<>> => f \in closed[p]

NewerLeft(p, f) == {g \in closed[p] : files[g] # <<>> /\ g[3] >= f[3]}
\* Of the process's closed runs none is gone that is not older than enough of the others.
NewestLeft == \A p \in Logged : \A f \in closed[p] : files[f] = <<>> => Cardinality(NewerLeft(p, f)) >= KeepRuns

RunsInv == RunsTyped /\ NewestLeft

\* A closed run's name is no other process's, nor that of a live or rotated file.
LEMMA NamesApart ==
  ASSUME NEW p, NEW q, NEW f \in ClosedNames(q)
  PROVE  /\ f # Live(p) /\ (\A n : f # Rotated(p, n)) /\ (f \in ClosedNames(p) => p = q)
         /\ f[1] = q /\ f[3] \in Seconds
<1>1. PICK id \in Seconds, tag \in {"exited", "failed"} : f = <<q, "run", id, tag>>
  BY DEF ClosedNames, ClosedRuns
<1>2. Len(f) = 4 /\ f[1] = q /\ f[3] = id
  BY <1>1
<1>3. f # Live(p)
  <2>1. Len(Live(p)) = 2
    BY DEF Live
  <2> QED BY <1>2, <2>1
<1>4. ASSUME NEW n PROVE f # Rotated(p, n)
  <2>1. Len(Rotated(p, n)) = 3
    BY DEF Rotated
  <2> QED BY <1>2, <2>1
<1>5. ASSUME f \in ClosedNames(p) PROVE p = q
  <2>1. PICK id2 \in Seconds, tag2 \in {"exited", "failed"} : f = <<p, "run", id2, tag2>>
    BY <1>5 DEF ClosedNames, ClosedRuns
  <2>2. f[1] = p
    BY <2>1
  <2> QED BY <1>2, <2>2
<1> QED BY <1>1, <1>2, <1>3, <1>4, <1>5

\* The names of a process's closed runs are finitely many.
LEMMA ClosedFinite == ASSUME NEW p, NEW S \in SUBSET ClosedNames(p) PROVE IsFiniteSet(S)
<1>1. IsFiniteSet(Seconds) /\ IsFiniteSet({"exited", "failed"})
  <2>1. IsFiniteSet(0..MaxSeconds)
    BY RunLogAssumption, FS_Interval
  <2>2. IsFiniteSet({"exited"} \cup {"failed"})
    BY FS_Singleton, FS_Union
  <2>3. {"exited"} \cup {"failed"} = {"exited", "failed"}
    OBVIOUS
  <2> QED BY <2>1, <2>2, <2>3 DEF Seconds
<1>2. IsFiniteSet(Seconds \X {"exited", "failed"})
  BY <1>1, FS_Product
<1> DEFINE name == [x \in Seconds \X {"exited", "failed"} |-> ClosedRuns(p, x[1], x[2])]
<1>3. ClosedNames(p) \subseteq {name[x] : x \in Seconds \X {"exited", "failed"}}
  <2> SUFFICES ASSUME NEW f \in ClosedNames(p) PROVE \E x \in Seconds \X {"exited", "failed"} : f = name[x]
    OBVIOUS
  <2>1. PICK id \in Seconds, tag \in {"exited", "failed"} : f = ClosedRuns(p, id, tag)
    BY DEF ClosedNames
  <2>2. <<id, tag>> \in Seconds \X {"exited", "failed"} /\ f = name[<<id, tag>>]
    BY <2>1
  <2> QED BY <2>2
<1>4. name \in Surjection(Seconds \X {"exited", "failed"}, {name[x] : x \in Seconds \X {"exited", "failed"}})
  BY DEF Surjection
<1>5. IsFiniteSet({name[x] : x \in Seconds \X {"exited", "failed"}})
  BY <1>2, <1>4, FS_Surjection
<1> QED BY <1>3, <1>5, FS_Subset

\* Fewer closed runs, fewer of them left.
LEMMA MoreLeft ==
  ASSUME NEW p, NEW S \in SUBSET ClosedNames(p), NEW T \in SUBSET S
  PROVE  Cardinality(T) \in Nat /\ Cardinality(S) \in Nat /\ Cardinality(T) <= Cardinality(S)
BY ClosedFinite, FS_Subset, FS_CardinalityType

LEMMA InitRuns == RunLogInit => RunsInv
  BY RunLogAssumption DEF RunLogInit, RunsInv, RunsTyped, NewestLeft, AllNames, Seconds, LogNames, ClosedNames

\* A step that leaves the closed runs as they are.
LEMMA RunsAside ==
  ASSUME RunsInv, closed' = closed, DOMAIN files' = AllNames, run_ids' \in [Logged -> Seconds], second' \in Seconds,
         \A q \in Logged : \A f \in ClosedNames(q) : files'[f] = files[f]
  PROVE  RunsInv'
<1>1. \A p \in Logged : \A f \in closed[p] : files'[f] = files[f]
  BY DEF RunsInv, RunsTyped
<1>2. \A p \in Logged : \A f : NewerLeft(p, f)' = NewerLeft(p, f)
  BY <1>1 DEF NewerLeft
<1>3. RunsTyped'
  BY DEF RunsInv, RunsTyped
<1>4. NewestLeft'
  BY <1>1, <1>2 DEF RunsInv, NewestLeft
<1> QED BY <1>3, <1>4 DEF RunsInv

LEMMA WriteRuns ==
  ASSUME RunsInv, NEW p \in Logged, NEW id \in Seconds, Write(p, id)
  PROVE  /\ DOMAIN files' = AllNames
         /\ \A q \in Logged : \A f \in ClosedNames(q) : files'[f] = files[f]
<1>0. DOMAIN files = AllNames /\ \A q \in Logged : \A f \in ClosedNames(q) : f \in AllNames
  BY DEF RunsInv, RunsTyped, AllNames, LogNames, ClosedNames
<1>1. DOMAIN WithRoom(p) = AllNames
  BY <1>0 DEF WithRoom, Shifted
<1>2. ASSUME NEW q \in Logged, NEW f \in ClosedNames(q)
      PROVE  WithRoom(p)[f] = files[f] /\ f # Live(p)
  <2>1. f # Live(p) /\ f # Rotated(p, 1) /\ \A n : f # Rotated(p, n)
    BY NamesApart
  <2>2. f \in DOMAIN files
    BY <1>0
  <2>3. Shifted(p)[f] = files[f]
    BY <2>1, <2>2 DEF Shifted
  <2> QED BY <2>1, <2>3 DEF WithRoom
<1>3. CASE LogPut(p, id)
  <2>1. files' = [WithRoom(p) EXCEPT ![Live(p)] = @ \o LogEntry(p, id)]
    BY <1>3 DEF LogPut
  <2>2. DOMAIN files' = AllNames
    BY <1>1, <2>1
  <2>3. ASSUME NEW q \in Logged, NEW f \in ClosedNames(q)
        PROVE  files'[f] = files[f]
    BY <1>0, <1>1, <1>2, <2>1, <2>3
  <2> QED BY <2>2, <2>3
<1>4. CASE Lose(p)
  <2>1. files' = files \/ files' = WithRoom(p)
    BY <1>4 DEF Lose, NotTried, Tried
  <2> QED BY <1>0, <1>1, <1>2, <2>1
<1> QED BY <1>3, <1>4 DEF Write

LEMMA TakeFileRuns ==
  ASSUME RunsInv, NEW p \in Logged, NEW tag \in {"exited", "failed"}, TakeFile(p, tag)
  PROVE  RunsInv'
<1> DEFINE name == ClosedRuns(p, run_ids[p], tag)
<1>0. /\ DOMAIN files = AllNames /\ (\A q \in Logged : \A f \in ClosedNames(q) : f \in AllNames) /\ Live(p) \in AllNames
      /\ name \in ClosedNames(p) /\ run_ids \in [Logged -> Seconds] /\ second \in Seconds
      /\ UNCHANGED <<run_ids, second>>
  BY DEF RunsInv, RunsTyped, AllNames, LogNames, ClosedNames, TakeFile
<1>1. CASE UNCHANGED <<files, closed>>
  BY <1>0, <1>1, RunsAside
<1>2. CASE files[Live(p)] # <<>> /\ LogRenamed(p, name)
  <2>1. /\ files' = [files EXCEPT ![name] = files[Live(p)], ![Live(p)] = <<>>]
        /\ closed' = [closed EXCEPT ![p] = @ \cup {name}]
    BY <1>2 DEF LogRenamed
  <2>2. name # Live(p)
    BY <1>0, NamesApart
  <2>3. /\ DOMAIN files' = AllNames /\ files'[name] # <<>>
        /\ \A q \in Logged : \A f \in ClosedNames(q) : f # name => files'[f] = files[f]
    <3>1. name \in AllNames /\ \A q \in Logged : \A f \in ClosedNames(q) : f # Live(p) /\ f \in AllNames
      BY <1>0, NamesApart
    <3>. QED
      BY ONLY <1>0, <1>2, <2>1, <2>2, <3>1
  <2>4. /\ closed' \in [Logged -> SUBSET AllNames] /\ closed'[p] = closed[p] \cup {name}
        /\ \A q \in Logged \ {p} : closed'[q] = closed[q]
    BY <1>0, <2>1 DEF RunsInv, RunsTyped
  <2>5. RunsTyped'
    <3>1. \A q \in Logged : closed'[q] \subseteq ClosedNames(q)
      BY <1>0, <2>4 DEF RunsInv, RunsTyped
    <3>2. \A q \in Logged : \A f \in ClosedNames(q) : files'[f] # <<>> => f \in closed'[q]
      BY <1>0, <2>3, <2>4, NamesApart DEF RunsInv, RunsTyped
    <3> QED BY <1>0, <2>3, <2>4, <3>1, <3>2 DEF RunsTyped, ClosedNames
  <2>6. NewestLeft'
    <3> SUFFICES ASSUME NEW q \in Logged, NEW f \in closed'[q], files'[f] = <<>>
                 PROVE  Cardinality(NewerLeft(q, f)') >= KeepRuns
      BY DEF NewestLeft
    <3>1. f # name /\ f \in closed[q] /\ f \in ClosedNames(q)
      BY <2>3, <2>4 DEF RunsInv, RunsTyped
    <3>2. files[f] = <<>>
      BY <2>3, <3>1
    <3>3. NewerLeft(q, f) \subseteq NewerLeft(q, f)' /\ NewerLeft(q, f)' \subseteq ClosedNames(q)
      BY <2>3, <2>4, <2>5 DEF NewerLeft, RunsInv, RunsTyped
    <3>4. Cardinality(NewerLeft(q, f)) >= KeepRuns
      BY <3>1, <3>2 DEF RunsInv, NewestLeft
    <3>5. Cardinality(NewerLeft(q, f)) <= Cardinality(NewerLeft(q, f)')
          /\ Cardinality(NewerLeft(q, f)) \in Nat /\ Cardinality(NewerLeft(q, f)') \in Nat
      BY <3>3, MoreLeft
    <3> QED BY <3>4, <3>5, RunLogAssumption
  <2> QED BY <2>5, <2>6 DEF RunsInv
<1> QED BY <1>1, <1>2 DEF TakeFile, Left

LEMMA PruneRuns ==
  ASSUME Dotted = {}, RunsInv, NEW p \in Logged, Prune(p)
  PROVE  RunsInv'
<1>1. Listed(p) = {f \in ClosedNames(p) : files[f] # <<>>}
  BY DEF Listed
<1>2. PICK kept \in SUBSET Listed(p) :
        /\ Cardinality(kept) = KeepRuns \/ (kept = Listed(p) /\ Cardinality(kept) <= KeepRuns)
        /\ \A f \in kept, g \in Listed(p) \ kept : Newer(p, f, g)
        /\ files' = [f \in DOMAIN files |-> IF f \in Listed(p) \ kept THEN <<>> ELSE files[f]]
  BY DEF Prune
<1>3. DOMAIN files' = AllNames /\ closed' = closed /\ run_ids' = run_ids /\ second' = second /\ DOMAIN files = AllNames
  BY <1>2 DEF Prune, RunsInv, RunsTyped
<1>4. RunsTyped'
  <2>1. \A f \in AllNames : files'[f] # <<>> => files[f] # <<>>
    BY <1>2, <1>3
  <2>2. \A q \in Logged : ClosedNames(q) \subseteq AllNames
    BY DEF AllNames, LogNames, ClosedNames
  <2>3. \A q \in Logged : \A f \in ClosedNames(q) : files'[f] # <<>> => f \in closed'[q]
    BY <1>3, <2>1, <2>2 DEF RunsInv, RunsTyped
  <2> QED BY <1>3, <2>3 DEF RunsInv, RunsTyped, ClosedNames
<1>5. ASSUME NEW q \in Logged, NEW f \in closed[q], files'[f] = <<>>
      PROVE  Cardinality(NewerLeft(q, f)') >= KeepRuns
  <2>0. f \in ClosedNames(q) /\ f \in DOMAIN files /\ NewerLeft(q, f) \subseteq ClosedNames(q)
        /\ NewerLeft(q, f)' \subseteq ClosedNames(q) /\ closed[q] \subseteq AllNames
    BY <1>3, <1>4 DEF RunsInv, RunsTyped, NewerLeft
  <2>1. CASE q # p
    <3>1. \A g \in closed[q] : g \notin Listed(p)
      BY <1>1, <2>1, NamesApart DEF RunsInv, RunsTyped
    <3>2. files[f] = <<>> /\ NewerLeft(q, f)' = NewerLeft(q, f)
      BY <1>2, <1>3, <1>5, <2>0, <3>1 DEF NewerLeft
    <3> QED BY <3>2 DEF RunsInv, NewestLeft
  <2>2. CASE q = p /\ f \notin Listed(p) /\ NewerLeft(p, f) \subseteq kept
    <3>1. files[f] = <<>> /\ NewerLeft(p, f)' = NewerLeft(p, f)
      BY <1>1, <1>2, <1>3, <2>0, <2>2 DEF NewerLeft
    <3> QED BY <2>2, <3>1 DEF RunsInv, NewestLeft
  <2>3. ASSUME q = p, NEW g \in Listed(p) \ kept, g[3] >= f[3]
        PROVE  Cardinality(NewerLeft(q, f)') >= KeepRuns
    <3>1. Cardinality(kept) = KeepRuns
      BY <1>2, <2>3
    <3>2. ASSUME NEW h \in kept PROVE h \in NewerLeft(p, f)'
      <4>1. Newer(p, h, g) /\ h[1] = p /\ h[3] \in Seconds /\ g[3] \in Seconds /\ f[3] \in Seconds
        BY <1>1, <1>2, <2>0, <2>3, <3>2, NamesApart
      <4>2. h[3] >= g[3]
        BY <4>1 DEF Newer
      <4>3. h[3] >= f[3]
        BY <2>3, <4>1, <4>2, RunLogAssumption DEF Seconds
      <4>4. h \in closed[p] /\ files'[h] # <<>> /\ h \in AllNames
        BY <1>1, <1>2, <1>3, <3>2 DEF RunsInv, RunsTyped
      <4> QED BY <1>3, <4>3, <4>4 DEF NewerLeft
    <3>3. Cardinality(kept) <= Cardinality(NewerLeft(p, f)') /\ Cardinality(NewerLeft(p, f)') \in Nat
      BY <2>0, <2>3, <3>2, MoreLeft
    <3> QED BY <2>3, <3>1, <3>3, RunLogAssumption
  <2>4. CASE q = p /\ f \in Listed(p)
    <3>1. f \notin kept
      BY <1>1, <1>2, <1>5, <2>0, <2>4
    <3>2. f[3] >= f[3]
      BY <2>0, NamesApart, RunLogAssumption DEF Seconds
    <3> QED BY <2>3, <2>4, <3>1, <3>2
  <2>5. CASE q = p /\ f \notin Listed(p) /\ ~(NewerLeft(p, f) \subseteq kept)
    <3>1. PICK g \in NewerLeft(p, f) : g \notin kept
      BY <2>5
    <3>2. g \in Listed(p) /\ g[3] >= f[3]
      BY <1>1, <2>0, <2>5, <3>1 DEF NewerLeft
    <3> QED BY <2>3, <2>5, <3>1, <3>2
  <2> QED BY <2>1, <2>2, <2>4, <2>5
<1> QED BY <1>3, <1>4, <1>5 DEF RunsInv, NewestLeft

\* A closed run's file has the run's id and is its process's, and of a process's
\* closed runs none has gone before the older ones: the inductive invariant.
THEOREM RunsInvCorrect == Dotted = {} => (RunLogSpec => []RunsInv)
<1> SUFFICES ASSUME Dotted = {} PROVE RunLogSpec => []RunsInv
  OBVIOUS
<1>1. ASSUME RunsInv, [RunLogNext]_RunLogVars
      PROVE  RunsInv'
  <2>0. /\ DOMAIN files = AllNames /\ run_ids \in [Logged -> Seconds] /\ second \in Seconds
    BY <1>1 DEF RunsInv, RunsTyped
  <2>1. CASE VolumeTurns \/ Second \/ UNCHANGED RunLogVars
    <3>1. UNCHANGED <<files, run_ids, closed>> /\ second' \in Seconds
      BY <2>0, <2>1, RunLogAssumption DEF VolumeTurns, Second, RunLogVars, log_history, Seconds
    <3> QED BY <1>1, <2>0, <3>1, RunsAside
  <2>2. ASSUME NEW p \in Logged, SpawnCapture(p) \/ (\E id \in Seconds : Read(p, id))
        PROVE  RunsInv'
    <3>1. closed' = closed /\ second' = second /\ run_ids' \in [Logged -> Seconds] /\ \E id \in Seconds : Write(p, id)
      BY <2>0, <2>2 DEF SpawnCapture, Read
    <3> QED BY <1>1, <2>0, <3>1, WriteRuns, RunsAside
  <2>3. ASSUME NEW p \in Logged, Exits(p) \/ Drain(p) \/ (\E id \in Seconds : PipeCloses(p, id))
        PROVE  RunsInv'
    <3>1. UNCHANGED <<files, run_ids, closed, second>>
      BY <2>3 DEF Exits, Drain, PipeCloses, log_history
    <3> QED BY <1>1, <2>0, <3>1, RunsAside
  <2>4. ASSUME NEW p \in Logged, Prune(p) \/ (\E tag \in {"exited", "failed"} : TakeFile(p, tag))
        PROVE  RunsInv'
    BY <1>1, <2>4, PruneRuns, TakeFileRuns
  <2> QED BY <1>1, <2>1, <2>2, <2>3, <2>4 DEF RunLogNext
<1> QED BY <1>1, InitRuns, PTL DEF RunLogSpec

\* store.rs, prune_runs: however writes fail, runs close and names are used again,
\* the newest closed runs are kept, where no process's name is another's, a dot and more.
THEOREM NewestRunsKeptCorrect == Dotted = {} => (RunLogSpec => []NewestRunsKept)
<1>1. RunsInv => NewestRunsKept
  BY DEF RunsInv, NewestLeft, NewestRunsKept, NewerLeft
<1> QED BY <1>1, RunsInvCorrect, PTL

-----------------------------------------------------------------------------
(* RunLog: where every line that was written has gone.                     *)

Noted == [run : Seconds, lost : Nat]
Counts(e) == IF e.lost > 0 THEN e.lost ELSE 1

\* The lines a file stands for, entry by entry.
LEMMA LinesInIs ==
  /\ LinesIn(<<>>) = 0
  /\ \A s \in Seq(Noted) : LinesIn(s) \in Nat
  /\ \A s \in Seq(Noted) : \A e \in Noted : LinesIn(Append(s, e)) = LinesIn(s) + Counts(e)
<1> DEFINE w(s) == [i \in DOMAIN s |-> Counts(s[i])]
<1>1. \A s : LinesIn(s) = SumOn(w(s), DOMAIN s)
  BY DEF LinesIn, SumFunction, SumOn, Counts
<1>2. \A s \in Seq(Noted) : IsFiniteSet(DOMAIN s) /\ \A i \in DOMAIN s : w(s)[i] \in Nat
  <2> SUFFICES ASSUME NEW s \in Seq(Noted)
               PROVE  IsFiniteSet(DOMAIN s) /\ \A i \in DOMAIN s : w(s)[i] \in Nat
    OBVIOUS
  <2>1. IsFiniteSet(1..Len(s))
    BY FS_Interval
  <2>2. DOMAIN s = 1..Len(s) /\ \A i \in 1..Len(s) : s[i] \in Noted
    OBVIOUS
  <2>. QED
    BY <2>1, <2>2 DEF Noted, Counts
<1>3. LinesIn(<<>>) = 0
  <2>1. IsFiniteSet(DOMAIN <<>>) /\ DOMAIN <<>> = {}
    BY FS_EmptySet
  <2>2. SumOn(w(<<>>), DOMAIN <<>>) = 0
    BY <2>1, SumIs
  <2>. QED
    BY <1>1, <2>2
<1>4. ASSUME NEW s \in Seq(Noted)
      PROVE  LinesIn(s) \in Nat
  BY <1>1, <1>2, SumType
<1>5. ASSUME NEW s \in Seq(Noted), NEW e \in Noted
      PROVE  LinesIn(Append(s, e)) = LinesIn(s) + Counts(e)
  <2> DEFINE t == Append(s, e)
             n == Len(s) + 1
  <2>1. t \in Seq(Noted) /\ DOMAIN t = 1..n /\ n \in Nat /\ n \in DOMAIN t /\ t[n] = e /\ DOMAIN s = 1..Len(s)
        /\ \A i \in 1..Len(s) : t[i] = s[i]
    OBVIOUS
  <2>2. DOMAIN t \ {n} = DOMAIN s
    BY <2>1
  <2> HIDE DEF t, n
  <2>3. IsFiniteSet(DOMAIN t) /\ (\A i \in DOMAIN t : w(t)[i] \in Nat) /\ IsFiniteSet(DOMAIN s)
    BY <1>2, <2>1
  <2>4. SumOn(w(t), DOMAIN t) = w(t)[n] + SumOn(w(t), DOMAIN s)
    <3> DEFINE v == w(t)
    <3>1. IsFiniteSet(DOMAIN t) /\ (\A i \in DOMAIN t : v[i] \in Nat) /\ n \in DOMAIN t
      BY <2>1, <2>3
    <3> HIDE DEF v
    <3>2. SumOn(v, DOMAIN t) = v[n] + SumOn(v, DOMAIN t \ {n})
      BY <3>1, SumWithout
    <3>. QED
      BY <2>2, <3>2 DEF v
  <2>5. \A i \in DOMAIN s : w(t)[i] = w(s)[i]
    BY <2>1, <2>2
  <2>6. SumOn(w(t), DOMAIN s) = SumOn(w(s), DOMAIN s)
    BY <2>3, <2>5, SumSame
  <2>7. w(t)[n] = Counts(e)
    BY <2>1
  <2>8. Counts(e) \in Nat /\ LinesIn(s) \in Nat
    BY <1>4 DEF Counts, Noted
  <2>9. LinesIn(t) = Counts(e) + LinesIn(s)
    BY <1>1, <2>4, <2>6, <2>7
  <2>. QED
    BY <2>8, <2>9 DEF t
<1>. QED
  BY <1>3, <1>4, <1>5

-----------------------------------------------------------------------------
InFiles(fs, S) == SumFunction([f \in S |-> LinesIn(fs[f])])
Countable(fs, S) == IsFiniteSet(S) /\ \A f \in S : LinesIn(fs[f]) \in Nat

\* Some files hold as many lines as one of them and the others.
LEMMA InFilesIs ==
  ASSUME NEW fs, NEW S, Countable(fs, S)
  PROVE  /\ InFiles(fs, S) \in Nat
         /\ S = {} => InFiles(fs, S) = 0
         /\ \A x \in S : InFiles(fs, S) = LinesIn(fs[x]) + InFiles(fs, S \ {x})
<1> DEFINE w(T) == [f \in T |-> LinesIn(fs[f])]
<1>1. \A T : InFiles(fs, T) = SumOn(w(T), T)
  BY DEF InFiles, SumFunction, SumOn
<1>2. IsFiniteSet(S) /\ \A f \in S : w(S)[f] \in Nat
  BY DEF Countable
<1>3. ASSUME NEW x \in S
      PROVE  InFiles(fs, S) = LinesIn(fs[x]) + InFiles(fs, S \ {x})
  <2>1. SumOn(w(S), S) = w(S)[x] + SumOn(w(S), S \ {x})
    BY <1>2, SumWithout
  <2>2. IsFiniteSet(S \ {x}) /\ \A f \in S \ {x} : w(S)[f] = w(S \ {x})[f]
    BY <1>2, FS_RemoveElement
  <2>3. SumOn(w(S), S \ {x}) = SumOn(w(S \ {x}), S \ {x})
    BY <2>2, SumSame
  <2>. QED
    BY <1>1, <2>1, <2>3
<1>4. InFiles(fs, S) \in Nat
  BY <1>1, <1>2, SumType
<1>5. S = {} => InFiles(fs, S) = 0
  BY <1>1, <1>2, SumIs
<1>. QED
  BY <1>3, <1>4, <1>5

\* Files that are the same hold as many lines.
LEMMA InSame ==
  ASSUME NEW fs, NEW gs, NEW S, IsFiniteSet(S), \A f \in S : fs[f] = gs[f]
  PROVE  InFiles(fs, S) = InFiles(gs, S)
<1>1. [f \in S |-> LinesIn(fs[f])] = [f \in S |-> LinesIn(gs[f])]
  OBVIOUS
<1>. QED
  BY <1>1 DEF InFiles

\* One file changes.
LEMMA OneFile ==
  ASSUME NEW fs, NEW gs, NEW S, Countable(fs, S), Countable(gs, S), NEW x \in S, \A f \in S \ {x} : fs[f] = gs[f]
  PROVE  InFiles(gs, S) + LinesIn(fs[x]) = InFiles(fs, S) + LinesIn(gs[x])
<1>1. /\ InFiles(fs, S) = LinesIn(fs[x]) + InFiles(fs, S \ {x})
      /\ InFiles(gs, S) = LinesIn(gs[x]) + InFiles(gs, S \ {x})
  BY InFilesIs
<1>2. Countable(fs, S \ {x})
  BY FS_RemoveElement DEF Countable
<1>3. InFiles(fs, S \ {x}) = InFiles(gs, S \ {x}) /\ InFiles(fs, S \ {x}) \in Nat
  BY <1>2, InSame, InFilesIs DEF Countable
<1>4. LinesIn(fs[x]) \in Nat /\ LinesIn(gs[x]) \in Nat
  BY DEF Countable
<1>. QED
  BY <1>1, <1>3, <1>4

\* Some files go.
LEMMA FilesGo ==
  ASSUME NEW fs, NEW S, Countable(fs, S), NEW X \in SUBSET S
  PROVE  InFiles(fs, S) = InFiles([f \in S |-> IF f \in X THEN <<>> ELSE fs[f]], S) + InFiles(fs, X)
<1> DEFINE Emptied(Y) == [f \in S |-> IF f \in Y THEN <<>> ELSE fs[f]]
           F == {Y \in SUBSET X : InFiles(fs, S) # InFiles(Emptied(Y), S) + InFiles(fs, Y)}
<1> SUFFICES ASSUME F # {}
             PROVE  FALSE
  <2>1. X \in SUBSET X
    OBVIOUS
  <2>. QED
    BY <2>1
<1>0. \A Y \in SUBSET X : IsFiniteSet(Y) /\ Countable(fs, Y) /\ Countable(Emptied(Y), S)
  <2> SUFFICES ASSUME NEW Y \in SUBSET X
               PROVE  IsFiniteSet(Y) /\ Countable(fs, Y) /\ Countable(Emptied(Y), S)
    OBVIOUS
  <2>1. IsFiniteSet(Y) /\ Countable(fs, Y)
    BY FS_Subset DEF Countable
  <2>2. \A f \in S : LinesIn(Emptied(Y)[f]) \in Nat
    BY LinesInIs DEF Countable
  <2>. QED
    BY <2>1, <2>2 DEF Countable
<1>1. PICK T \in F : \A y \in T : T \ {y} \notin F
  BY <1>0, SmallestSet
<1> HIDE DEF Emptied
<1>2. CASE T = {}
  <2>1. \A f \in S : fs[f] = Emptied(T)[f]
    BY <1>2 DEF Emptied
  <2>2. InFiles(fs, S) = InFiles(Emptied(T), S)
    BY <2>1, InSame DEF Countable
  <2>3. InFiles(fs, T) = 0 /\ InFiles(fs, S) \in Nat
    BY <1>0, <1>2, InFilesIs
  <2>. QED
    BY <1>1, <2>2, <2>3
<1>3. ASSUME NEW c \in T
      PROVE  FALSE
  <2> DEFINE U == T \ {c}
  <2>1. U \in SUBSET X /\ T \in SUBSET X /\ c \in S
    OBVIOUS
  <2>2. InFiles(fs, S) = InFiles(Emptied(U), S) + InFiles(fs, U)
    BY <1>1, <2>1
  <2>3. InFiles(fs, T) = LinesIn(fs[c]) + InFiles(fs, U)
    BY <1>0, <2>1, InFilesIs
  <2>4. Emptied(U)[c] = fs[c] /\ Emptied(T)[c] = <<>> /\ \A f \in S \ {c} : Emptied(U)[f] = Emptied(T)[f]
    BY <2>1 DEF Emptied
  <2>5. InFiles(Emptied(T), S) + LinesIn(fs[c]) = InFiles(Emptied(U), S) + LinesIn(<<>>)
    <3>1. Countable(Emptied(U), S) /\ Countable(Emptied(T), S)
      BY <1>0, <2>1
    <3> HIDE DEF U
    <3>2. InFiles(Emptied(T), S) + LinesIn(Emptied(U)[c]) = InFiles(Emptied(U), S) + LinesIn(Emptied(T)[c])
      BY <2>1, <2>4, <3>1, OneFile
    <3>. QED
      BY <2>4, <3>2
  <2>6. /\ InFiles(Emptied(T), S) \in Nat /\ InFiles(Emptied(U), S) \in Nat /\ InFiles(fs, U) \in Nat
        /\ LinesIn(fs[c]) \in Nat /\ LinesIn(<<>>) = 0
    BY <1>0, <2>1, InFilesIs, LinesInIs DEF Countable
  <2>7. InFiles(fs, S) = InFiles(Emptied(T), S) + InFiles(fs, T)
    BY <2>2, <2>3, <2>5, <2>6
  <2>. QED
    BY <2>7
<1>. QED
  BY <1>2, <1>3

-----------------------------------------------------------------------------
LogTyped ==
  /\ files \in [AllNames -> Seq(Noted)] /\ second \in Seconds /\ run_ids \in [Logged -> Seconds]
  /\ failing \in [Logged -> Nat] /\ emitted \in [Logged -> Nat] /\ gone \in [Logged -> Nat]
  /\ forgotten \in [Logged -> Nat]

\* The lines of each process are in its files, or one of the three counts has them.
Balance(p) == InFiles(files, LogNames(p)) + failing[p] + gone[p] + forgotten[p]
Balanced == \A p \in Logged : emitted[p] = Balance(p)

LinesInv == LogTyped /\ Balanced

\* A file's name begins with its process's.
LEMMA OfItsProcess == \A q : \A f \in LogNames(q) : f[1] = q
<1> SUFFICES ASSUME NEW q, NEW f \in LogNames(q)
             PROVE  f[1] = q
  OBVIOUS
<1>1. Live(q)[1] = q /\ \A n : Rotated(q, n)[1] = q
  BY DEF Live, Rotated
<1>2. f \in ClosedNames(q) => f[1] = q
  BY NamesApart
<1>. QED
  BY <1>1, <1>2 DEF LogNames, ClosedNames

\* A process's files are finitely many, and no other's.
LEMMA OwnNames ==
  ASSUME NEW p \in Logged
  PROVE  /\ IsFiniteSet(LogNames(p)) /\ LogNames(p) \subseteq AllNames
         /\ Live(p) \in LogNames(p) /\ (\A n \in 1..MaxFiles : Rotated(p, n) \in LogNames(p))
         /\ ClosedNames(p) \subseteq LogNames(p)
         /\ \A q \in Logged \ {p} : LogNames(q) \cap LogNames(p) = {}
<1> DEFINE Rotations(q) == {Rotated(q, n) : n \in 1..MaxFiles}
<1>1. LogNames(p) = {Live(p)} \cup Rotations(p) \cup ClosedNames(p)
  BY DEF LogNames, ClosedNames
<1>2. IsFiniteSet(Rotations(p))
  <2> DEFINE name == [n \in 1..MaxFiles |-> Rotated(p, n)]
  <2>1. name \in Surjection(1..MaxFiles, Rotations(p))
    BY DEF Surjection
  <2>2. IsFiniteSet(1..MaxFiles)
    BY RunLogAssumption, FS_Interval
  <2>. QED
    BY <2>1, <2>2, FS_Surjection
<1>3. IsFiniteSet({Live(p)}) /\ IsFiniteSet(ClosedNames(p))
  BY FS_Singleton, ClosedFinite
<1>4. IsFiniteSet(LogNames(p))
  <2>1. IsFiniteSet({Live(p)} \cup Rotations(p))
    BY <1>2, <1>3, FS_Union
  <2>. QED
    BY <1>1, <1>3, <2>1, FS_Union
<1>5. \A q \in Logged \ {p} : LogNames(q) \cap LogNames(p) = {}
  BY OfItsProcess
<1>. QED
  BY <1>1, <1>4, <1>5 DEF AllNames

\* The names of a process's live and rotated files are different.
LEMMA RotatedApart ==
  ASSUME NEW p
  PROVE  /\ \A n \in Nat : Rotated(p, n) # Live(p)
         /\ \A n, m \in Nat : Rotated(p, n) = Rotated(p, m) => n = m
         /\ \A n \in Nat : Rotated(p, n)[3] = n
<1>1. ASSUME NEW n \in Nat
      PROVE  Rotated(p, n) # Live(p) /\ Rotated(p, n)[3] = n
  <2>1. Len(Rotated(p, n)) = 3 /\ Len(Live(p)) = 2 /\ Rotated(p, n)[3] = n
    BY DEF Rotated, Live
  <2>. QED
    BY <2>1
<1>. QED
  BY <1>1

LEMMA CountableFiles ==
  ASSUME NEW fs \in [AllNames -> Seq(Noted)], NEW S \in SUBSET AllNames, IsFiniteSet(S)
  PROVE  Countable(fs, S)
BY LinesInIs DEF Countable

\* A rotation loses the last file and no other.
LEMMA Rotation ==
  ASSUME LogTyped, NEW p \in Logged
  PROVE  /\ Shifted(p) \in [AllNames -> Seq(Noted)] /\ Shifted(p)[Live(p)] = <<>>
         /\ \A q \in Logged \ {p} : \A f \in LogNames(q) : Shifted(p)[f] = files[f]
         /\ InFiles(files, LogNames(p))
              = InFiles(Shifted(p), LogNames(p)) + LinesIn(files[Rotated(p, MaxFiles)])
<1> DEFINE S == LogNames(p)
           g == Shifted(p)
           C(j) == IF j = 0 THEN Live(p) ELSE Rotated(p, j)
           A(j) == S \ {C(n) : n \in (j + 1)..MaxFiles}
           bad == {j \in 0..MaxFiles : InFiles(g, A(j)) # InFiles(files, A(j) \ {C(j)})}
<1>0. MaxFiles \in Nat /\ MaxFiles >= 1 /\ files \in [AllNames -> Seq(Noted)] /\ DOMAIN files = AllNames
  BY RunLogAssumption DEF LogTyped
<1>1. \A j \in 0..MaxFiles : C(j) \in S /\ C(j) \in AllNames
  <2>1. \A j \in 0..MaxFiles : j # 0 => j \in 1..MaxFiles
    BY <1>0
  <2>. QED
    BY <2>1, OwnNames
<1>2. \A i, j \in 0..MaxFiles : C(i) = C(j) => i = j
  BY <1>0, RotatedApart
<1>3. g[C(0)] = <<>>
  BY <1>0, <1>1 DEF Shifted
<1>4. \A j \in 1..MaxFiles : g[C(j)] = files[C(j - 1)]
  <2> SUFFICES ASSUME NEW j \in 1..MaxFiles
               PROVE  g[C(j)] = files[C(j - 1)]
    OBVIOUS
  <2>1. C(j) = Rotated(p, j) /\ C(j) \in DOMAIN files /\ C(j) # Live(p) /\ C(j)[3] = j
        /\ j \in 0..MaxFiles
    BY <1>0, <1>1, RotatedApart
  <2>2. CASE j = 1
    BY <2>1, <2>2 DEF Shifted
  <2>3. CASE j # 1
    <3>1. j \in 2..MaxFiles /\ C(j) # Rotated(p, 1) /\ C(j - 1) = Rotated(p, j - 1)
      BY <1>0, <2>1, <2>3, RotatedApart
    <3>. QED
      BY <2>1, <3>1 DEF Shifted
  <2>. QED
    BY <2>2, <2>3
<1>5. \A f \in AllNames : (\A j \in 0..MaxFiles : f # C(j)) => g[f] = files[f]
  <2> SUFFICES ASSUME NEW f \in AllNames, \A j \in 0..MaxFiles : f # C(j)
               PROVE  g[f] = files[f]
    OBVIOUS
  <2>1. f # C(0) /\ 0 \in 0..MaxFiles
    BY <1>0
  <2>2. \A n \in 1..MaxFiles : f # Rotated(p, n)
    <3>1. \A n \in 1..MaxFiles : n \in 0..MaxFiles /\ C(n) = Rotated(p, n)
      BY <1>0
    <3>. QED
      BY <3>1
  <2>3. 1 \in 1..MaxFiles /\ \A n \in 2..MaxFiles : n \in 1..MaxFiles
    BY <1>0
  <2>. QED
    BY <1>0, <2>1, <2>2, <2>3 DEF Shifted
<1>6. DOMAIN g = AllNames /\ \A f \in AllNames : g[f] \in Seq(Noted)
  <2>1. g = [f \in AllNames |-> g[f]]
    BY <1>0 DEF Shifted
  <2>2. ASSUME NEW f \in AllNames
        PROVE  g[f] \in Seq(Noted)
    <3>1. CASE \A j \in 0..MaxFiles : f # C(j)
      BY <1>0, <1>5, <3>1
    <3>2. CASE f = C(0)
      <4>1. <<>> \in Seq(Noted)
        OBVIOUS
      <4>. QED
        BY <1>3, <3>2, <4>1
    <3>3. ASSUME NEW j \in 0..MaxFiles, f = C(j), j # 0
          PROVE  g[f] \in Seq(Noted)
      <4>1. j \in 1..MaxFiles /\ j - 1 \in 0..MaxFiles
        BY <1>0, <3>3
      <4>2. g[f] = files[C(j - 1)] /\ C(j - 1) \in AllNames
        BY <1>1, <1>4, <3>3, <4>1
      <4>. QED
        BY <1>0, <4>2
    <3>. QED
      BY <3>1, <3>2, <3>3
  <2>. QED
    BY <2>1, <2>2
<1>7. g \in [AllNames -> Seq(Noted)]
  <2>1. g = [f \in AllNames |-> g[f]]
    BY <1>0 DEF Shifted
  <2>. QED
    BY <1>6, <2>1
<1>8. IsFiniteSet(S) /\ S \subseteq AllNames /\ Countable(files, S) /\ Countable(g, S)
  BY <1>0, <1>7, OwnNames, CountableFiles
<1> HIDE DEF g, C
<1>9. \A j \in 0..MaxFiles : Countable(files, A(j)) /\ Countable(g, A(j)) /\ C(j) \in A(j)
  <2> SUFFICES ASSUME NEW j \in 0..MaxFiles
               PROVE  Countable(files, A(j)) /\ Countable(g, A(j)) /\ C(j) \in A(j)
    OBVIOUS
  <2>1. A(j) \subseteq AllNames /\ IsFiniteSet(A(j))
    BY <1>8, FS_Subset
  <2>2. \A n \in (j + 1)..MaxFiles : C(n) # C(j)
    BY <1>0, <1>2
  <2>. QED
    BY <1>0, <1>1, <1>7, <2>1, <2>2, CountableFiles
<1>10. \A j \in 1..MaxFiles : A(j) \ {C(j)} = A(j - 1)
  <2> SUFFICES ASSUME NEW j \in 1..MaxFiles
               PROVE  A(j) \ {C(j)} = A(j - 1)
    OBVIOUS
  <2>1. \A n : n \in ((j - 1) + 1)..MaxFiles <=> (n = j \/ n \in (j + 1)..MaxFiles)
    BY <1>0
  <2>. QED
    BY <2>1
<1>11. bad = {}
  <2> SUFFICES ASSUME bad # {}
               PROVE  FALSE
    OBVIOUS
  <2>1. PICK j \in bad : \A m \in bad : j <= m
    <3>1. bad \subseteq Nat
      OBVIOUS
    <3>. QED
      BY <3>1, LeastOf
  <2>2. j \in 0..MaxFiles /\ InFiles(g, A(j)) # InFiles(files, A(j) \ {C(j)})
    OBVIOUS
  <2>3. InFiles(g, A(j)) = LinesIn(g[C(j)]) + InFiles(g, A(j) \ {C(j)})
    BY <1>9, <2>2, InFilesIs
  <2>4. CASE j = 0
    <3>1. \A f \in A(0) \ {C(0)} : \A n \in 0..MaxFiles : f # C(n)
      <4>1. \A n \in 0..MaxFiles : n = 0 \/ n \in (0 + 1)..MaxFiles
        BY <1>0
      <4>. QED
        BY <4>1
    <3>2. \A f \in A(0) \ {C(0)} : g[f] = files[f]
      BY <1>5, <1>8, <3>1
    <3>3. IsFiniteSet(A(0) \ {C(0)}) /\ Countable(files, A(0) \ {C(0)})
      BY <1>9, <2>2, <2>4, FS_RemoveElement DEF Countable
    <3>4. InFiles(g, A(0) \ {C(0)}) = InFiles(files, A(0) \ {C(0)})
      BY <3>2, <3>3, InSame
    <3>5. LinesIn(g[C(0)]) = 0 /\ InFiles(files, A(0) \ {C(0)}) \in Nat
      BY <1>3, <3>3, LinesInIs, InFilesIs
    <3>. QED
      BY <2>2, <2>3, <2>4, <3>4, <3>5
  <2>5. CASE j # 0
    <3>1. j \in 1..MaxFiles /\ j - 1 \in 0..MaxFiles
      BY <1>0, <2>2, <2>5
    <3>2. j - 1 \notin bad
      <4> HIDE DEF bad
      <4>1. j - 1 \in bad => j <= j - 1
        BY <2>1
      <4>. QED
        BY <3>1, <4>1
    <3>3. InFiles(g, A(j - 1)) = InFiles(files, A(j - 1) \ {C(j - 1)})
      BY <3>1, <3>2
    <3>4. InFiles(files, A(j - 1)) = LinesIn(files[C(j - 1)]) + InFiles(files, A(j - 1) \ {C(j - 1)})
      <4> HIDE DEF A
      <4>1. Countable(files, A(j - 1)) /\ C(j - 1) \in A(j - 1)
        BY <1>9, <3>1
      <4>. QED
        BY <4>1, InFilesIs
    <3>5. LinesIn(g[C(j)]) = LinesIn(files[C(j - 1)]) /\ A(j) \ {C(j)} = A(j - 1)
      BY <1>4, <1>10, <3>1
    <3>. QED
      BY <2>2, <2>3, <3>3, <3>4, <3>5
  <2>. QED
    BY <2>4, <2>5
<1>12. A(MaxFiles) = S /\ MaxFiles \in 0..MaxFiles
  <2>1. (MaxFiles + 1)..MaxFiles = {}
    BY <1>0
  <2>. QED
    BY <1>0, <2>1
<1>13. InFiles(g, S) = InFiles(files, S \ {C(MaxFiles)})
  BY <1>11, <1>12
<1>14. InFiles(files, S) = LinesIn(files[C(MaxFiles)]) + InFiles(files, S \ {C(MaxFiles)})
  BY <1>1, <1>8, <1>12, InFilesIs
<1>15. C(MaxFiles) = Rotated(p, MaxFiles) /\ C(0) = Live(p)
  BY <1>0 DEF C
<1>16. LinesIn(files[C(MaxFiles)]) \in Nat /\ InFiles(g, S) \in Nat
  BY <1>1, <1>8, <1>12, InFilesIs DEF Countable
<1>17. InFiles(files, S) = InFiles(g, S) + LinesIn(files[Rotated(p, MaxFiles)])
  BY <1>13, <1>14, <1>15, <1>16
<1>18. \A q \in Logged \ {p} : \A f \in LogNames(q) : g[f] = files[f]
  <2>1. \A q \in Logged \ {p} : \A f \in LogNames(q) : f \in AllNames /\ f \notin S
    BY OwnNames
  <2>. QED
    BY <1>1, <1>5, <2>1
<1>. QED
  BY <1>3, <1>7, <1>15, <1>17, <1>18 DEF g

\* What is written to a process's log is in its live file, or lost and counted.
LEMMA WriteBalances ==
  ASSUME LinesInv, NEW p \in Logged, NEW id \in Seconds, Write(p, id)
  PROVE  /\ files' \in [AllNames -> Seq(Noted)] /\ failing' \in [Logged -> Nat] /\ gone' \in [Logged -> Nat]
         /\ emitted' \in [Logged -> Nat]
         /\ \A q \in Logged \ {p} :
              /\ \A f \in LogNames(q) : files'[f] = files[f]
              /\ failing'[q] = failing[q] /\ gone'[q] = gone[q] /\ emitted'[q] = emitted[q]
         /\ emitted'[p] = emitted[p] + 1
         /\ InFiles(files', LogNames(p)) + failing'[p] + gone'[p]
              = InFiles(files, LogNames(p)) + failing[p] + gone[p] + 1
<1> DEFINE S == LogNames(p)
           g == WithRoom(p)
           r == RotatedAway(p)
           fresh == LogEntry(p, id)
<1>0. /\ files \in [AllNames -> Seq(Noted)] /\ failing \in [Logged -> Nat] /\ gone \in [Logged -> Nat]
      /\ emitted \in [Logged -> Nat] /\ LogTyped /\ S \subseteq AllNames /\ Live(p) \in S /\ IsFiniteSet(S)
      /\ Countable(files, S) /\ InFiles(files, S) \in Nat
      /\ \A q \in Logged \ {p} : LogNames(q) \subseteq AllNames /\ LogNames(q) \cap S = {}
  BY OwnNames, CountableFiles, InFilesIs DEF LinesInv, LogTyped
<1>1. /\ g \in [AllNames -> Seq(Noted)] /\ r \in Nat
      /\ \A q \in Logged \ {p} : \A f \in LogNames(q) : g[f] = files[f]
      /\ InFiles(files, S) = InFiles(g, S) + r
  <2>1. CASE Full(p)
    <3>1. Rotated(p, MaxFiles) \in S
      <4>1. MaxFiles \in 1..MaxFiles
        BY RunLogAssumption
      <4>. QED
        BY <4>1, OwnNames
    <3>2. LinesIn(files[Rotated(p, MaxFiles)]) \in Nat
      BY <1>0, <3>1 DEF Countable
    <3>. QED
      BY <1>0, <2>1, <3>2, Rotation DEF WithRoom, RotatedAway
  <2>2. CASE ~Full(p)
    BY <1>0, <2>2 DEF WithRoom, RotatedAway
  <2>. QED
    BY <2>1, <2>2
<1>2. emitted' = [emitted EXCEPT ![p] = @ + 1]
  BY DEF Write
<1>3. emitted' \in [Logged -> Nat] /\ emitted'[p] = emitted[p] + 1 /\ \A q \in Logged \ {p} : emitted'[q] = emitted[q]
  BY <1>0, <1>2
<1>4. Countable(g, S) /\ InFiles(g, S) \in Nat
  BY <1>0, <1>1, CountableFiles, InFilesIs
<1>5. ASSUME NEW s \in Seq(Noted)
      PROVE  s \o fresh \in Seq(Noted) /\ LinesIn(s \o fresh) = LinesIn(s) + failing[p] + 1
  <2>1. Line(id) \in Noted /\ Counts(Line(id)) = 1
    BY DEF Line, Noted, Counts
  <2>2. s \o <<Line(id)>> = Append(s, Line(id)) /\ LinesIn(s) \in Nat /\ failing[p] \in Nat
    BY <1>0, <2>1, LinesInIs
  <2>3. CASE failing[p] > 0
    <3> DEFINE e == Missing(id, failing[p])
               t == Append(s, e)
               u == Append(t, Line(id))
    <3>1. e \in Noted /\ Counts(e) = failing[p]
      BY <2>2, <2>3 DEF Missing, Noted, Counts
    <3> HIDE DEF e
    <3>2. t \in Seq(Noted) /\ LinesIn(t) = LinesIn(s) + failing[p]
      BY <3>1, LinesInIs
    <3>3. s \o (<<e>> \o <<Line(id)>>) = u
      BY <2>1, <3>1
    <3> HIDE DEF t
    <3>4. LinesIn(u) = LinesIn(t) + 1 /\ u \in Seq(Noted)
      BY <2>1, <3>2, LinesInIs
    <3>5. fresh = <<e>> \o <<Line(id)>>
      BY <2>3 DEF LogEntry, e
    <3> HIDE DEF u, fresh
    <3>6. s \o fresh = u
      BY <3>3, <3>5
    <3>7. LinesIn(u) = LinesIn(s) + failing[p] + 1
      BY <2>2, <3>2, <3>4
    <3>. QED
      BY <3>4, <3>6, <3>7
  <2>4. CASE ~(failing[p] > 0)
    <3> DEFINE u == Append(s, Line(id))
    <3>1. LinesIn(u) = LinesIn(s) + 1 /\ u \in Seq(Noted) /\ s \o <<Line(id)>> = u
      BY <2>1, <2>2, LinesInIs
    <3>2. fresh = <<>> \o <<Line(id)>>
      BY <2>4 DEF LogEntry
    <3>3. \A x \in Seq(Noted) : <<>> \o x = x
      OBVIOUS
    <3>4. <<Line(id)>> \in Seq(Noted)
      BY <2>1
    <3>5. fresh = <<Line(id)>>
      BY <3>2, <3>3, <3>4
    <3> HIDE DEF u, fresh
    <3>6. failing[p] = 0
      BY <2>2, <2>4
    <3>7. s \o fresh = u
      BY <3>1, <3>5
    <3>8. LinesIn(u) = LinesIn(s) + failing[p] + 1
      BY <2>2, <3>1, <3>6
    <3>. QED
      BY <3>1, <3>7, <3>8
  <2>. QED
    BY <2>3, <2>4
<1> HIDE DEF g, r, fresh
<1>6. CASE LogPut(p, id)
  <2>1. /\ files' = [g EXCEPT ![Live(p)] = @ \o fresh]
        /\ failing' = [failing EXCEPT ![p] = 0] /\ gone' = [gone EXCEPT ![p] = @ + r]
    BY <1>6 DEF LogPut, g, r, fresh
  <2>2. /\ failing' \in [Logged -> Nat] /\ failing'[p] = 0 /\ \A q \in Logged \ {p} : failing'[q] = failing[q]
        /\ gone' \in [Logged -> Nat] /\ gone'[p] = gone[p] + r /\ \A q \in Logged \ {p} : gone'[q] = gone[q]
    BY <1>0, <1>1, <2>1
  <2>3. g[Live(p)] \in Seq(Noted) /\ Live(p) \in AllNames /\ DOMAIN g = AllNames
    BY <1>0, <1>1
  <2> DEFINE new == g[Live(p)] \o fresh
  <2>4. new \in Seq(Noted) /\ LinesIn(new) = LinesIn(g[Live(p)]) + failing[p] + 1 /\ LinesIn(g[Live(p)]) \in Nat
    BY <1>5, <2>3, LinesInIs
  <2>5. files' = [g EXCEPT ![Live(p)] = new]
    BY <2>1
  <2> HIDE DEF new
  <2>6. files' \in [AllNames -> Seq(Noted)] /\ files'[Live(p)] = new /\ \A f \in AllNames : f # Live(p) => files'[f] = g[f]
    BY <1>1, <2>3, <2>4, <2>5
  <2>7. InFiles(files', S) + LinesIn(g[Live(p)]) = InFiles(g, S) + LinesIn(files'[Live(p)])
    <3>1. Countable(files', S)
      BY <1>0, <2>6, CountableFiles
    <3>2. \A f \in S \ {Live(p)} : g[f] = files'[f]
      BY <1>0, <2>6
    <3>. QED
      BY <1>0, <1>4, <3>1, <3>2, OneFile
  <2>8. InFiles(files', S) \in Nat
    BY <1>0, <2>6, CountableFiles, InFilesIs
  <2>9. failing[p] \in Nat /\ gone[p] \in Nat
    BY <1>0
  <2>10. InFiles(files', S) = InFiles(g, S) + failing[p] + 1
    <3>1. LinesIn(files'[Live(p)]) = LinesIn(g[Live(p)]) + failing[p] + 1
      BY <2>4, <2>6
    <3>2. LinesIn(g[Live(p)]) \in Nat
      BY <2>4
    <3>. QED
      BY ONLY <3>1, <3>2, <1>4, <2>7, <2>8, <2>9
  <2>12. InFiles(files', S) + failing'[p] + gone'[p] = InFiles(files, S) + failing[p] + gone[p] + 1
    BY <1>1, <1>4, <2>2, <2>9, <2>10
  <2>13. \A q \in Logged \ {p} : \A f \in LogNames(q) : files'[f] = files[f]
    BY <1>0, <1>1, <2>6
  <2>. QED
    BY <1>3, <2>2, <2>6, <2>12, <2>13
<1>7. CASE Lose(p)
  <2>1. failing' = [failing EXCEPT ![p] = @ + 1]
        /\ \/ files' = files /\ gone' = gone
           \/ files' = g /\ gone' = [gone EXCEPT ![p] = @ + r]
    BY <1>7 DEF Lose, NotTried, Tried, g, r
  <2>2. failing' \in [Logged -> Nat] /\ failing'[p] = failing[p] + 1 /\ \A q \in Logged \ {p} : failing'[q] = failing[q]
    BY <1>0, <2>1
  <2>3. failing[p] \in Nat /\ gone[p] \in Nat
    BY <1>0
  <2>4. CASE files' = files /\ gone' = gone
    <3>1. files' \in [AllNames -> Seq(Noted)] /\ gone' \in [Logged -> Nat]
      BY <1>0, <2>4
    <3>2. \A q \in Logged \ {p} : gone'[q] = gone[q] /\ \A f \in LogNames(q) : files'[f] = files[f]
      BY <2>4
    <3>3. InFiles(files', S) = InFiles(files, S) /\ gone'[p] = gone[p]
      BY <2>4
    <3>4. InFiles(files', S) + failing'[p] + gone'[p] = InFiles(files, S) + failing[p] + gone[p] + 1
      BY <1>0, <2>2, <2>3, <3>3
    <3>. QED
      BY <1>3, <2>2, <3>1, <3>2, <3>4
  <2>5. CASE files' = g /\ gone' = [gone EXCEPT ![p] = @ + r]
    <3>1. gone' \in [Logged -> Nat] /\ gone'[p] = gone[p] + r /\ \A q \in Logged \ {p} : gone'[q] = gone[q]
      BY <1>0, <1>1, <2>5
    <3>2. InFiles(files', S) + failing'[p] + gone'[p] = InFiles(files, S) + failing[p] + gone[p] + 1
      BY <1>1, <1>4, <2>2, <2>3, <2>5, <3>1
    <3>. QED
      BY <1>1, <1>3, <2>2, <2>5, <3>1, <3>2
  <2>. QED
    BY <2>1, <2>4, <2>5
<1>. QED
  BY <1>6, <1>7 DEF Write

\* What a step leaves of a process alone stays balanced.
LEMMA OthersBalance ==
  ASSUME LinesInv, NEW q \in Logged, \A f \in LogNames(q) : files'[f] = files[f],
         emitted'[q] = emitted[q], failing'[q] = failing[q], gone'[q] = gone[q], forgotten'[q] = forgotten[q]
  PROVE  emitted'[q] = Balance(q)'
<1>1. InFiles(files', LogNames(q)) = InFiles(files, LogNames(q))
  BY OwnNames, InSame
<1>. QED
  BY <1>1 DEF LinesInv, Balanced, Balance

LEMMA WriteLines ==
  ASSUME LinesInv, NEW p \in Logged, NEW id \in Seconds, Write(p, id), UNCHANGED <<second, forgotten>>,
         run_ids' \in [Logged -> Seconds]
  PROVE  LinesInv'
<1>1. LogTyped'
  BY WriteBalances DEF LinesInv, LogTyped
<1>2. ASSUME NEW q \in Logged \ {p}
      PROVE  emitted'[q] = Balance(q)'
  BY WriteBalances, OthersBalance
<1>3. emitted'[p] = Balance(p)'
  <2>1. emitted[p] = InFiles(files, LogNames(p)) + failing[p] + gone[p] + forgotten[p]
    BY DEF LinesInv, Balanced, Balance
  <2>2. /\ InFiles(files, LogNames(p)) \in Nat /\ InFiles(files', LogNames(p)) \in Nat
        /\ failing[p] \in Nat /\ gone[p] \in Nat /\ forgotten[p] \in Nat /\ failing'[p] \in Nat /\ gone'[p] \in Nat
    <3>1. Countable(files, LogNames(p)) /\ Countable(files', LogNames(p))
      BY <1>1, OwnNames, CountableFiles DEF LinesInv, LogTyped
    <3>. QED
      BY <1>1, <3>1, InFilesIs DEF LinesInv, LogTyped
  <2>3. emitted'[p] = InFiles(files', LogNames(p)) + failing'[p] + gone'[p] + forgotten[p]
    <3>1. /\ emitted'[p] = emitted[p] + 1
          /\ InFiles(files', LogNames(p)) + failing'[p] + gone'[p]
               = InFiles(files, LogNames(p)) + failing[p] + gone[p] + 1
      BY WriteBalances
    <3>. QED
      BY ONLY <2>1, <2>2, <3>1
  <2>. QED
    BY <2>3 DEF Balance
<1>. QED
  BY <1>1, <1>2, <1>3 DEF LinesInv, Balanced

LEMMA TakeFileLines ==
  ASSUME LinesInv, NEW p \in Logged, NEW tag \in {"exited", "failed"}, TakeFile(p, tag)
  PROVE  LinesInv'
<1> DEFINE S == LogNames(p)
           name == ClosedRuns(p, run_ids[p], tag)
           live == Live(p)
<1>0. /\ files \in [AllNames -> Seq(Noted)] /\ failing \in [Logged -> Nat] /\ gone \in [Logged -> Nat]
      /\ forgotten \in [Logged -> Nat] /\ emitted \in [Logged -> Nat]
      /\ failing' = [failing EXCEPT ![p] = 0] /\ forgotten' = [forgotten EXCEPT ![p] = @ + failing[p]]
      /\ second' = second /\ run_ids' = run_ids /\ emitted' = emitted
  BY DEF LinesInv, LogTyped, TakeFile
<1>1. /\ failing' \in [Logged -> Nat] /\ forgotten' \in [Logged -> Nat] /\ failing'[p] = 0
      /\ forgotten'[p] = forgotten[p] + failing[p]
      /\ \A q \in Logged \ {p} : failing'[q] = failing[q] /\ forgotten'[q] = forgotten[q] /\ emitted'[q] = emitted[q]
  BY <1>0
<1>2. /\ failing[p] \in Nat /\ gone[p] \in Nat /\ forgotten[p] \in Nat
      /\ emitted[p] = InFiles(files, S) + failing[p] + gone[p] + forgotten[p]
  BY <1>0 DEF LinesInv, Balanced, Balance
<1>3. S \subseteq AllNames /\ IsFiniteSet(S) /\ live \in S /\ Countable(files, S) /\ InFiles(files, S) \in Nat
  BY <1>0, OwnNames, CountableFiles, InFilesIs
<1>4. CASE Left(p)
  <2>1. files' = files /\ gone' = gone
    BY <1>4 DEF Left
  <2>2. LogTyped'
    BY <1>0, <1>1, <2>1 DEF LinesInv, LogTyped
  <2>3. ASSUME NEW q \in Logged \ {p}
        PROVE  emitted'[q] = Balance(q)'
    BY <1>1, <2>1, OthersBalance
  <2>4. emitted'[p] = InFiles(files, S) + failing'[p] + gone[p] + forgotten'[p]
    BY <1>0, <1>1, <1>2, <1>3
  <2>5. emitted'[p] = Balance(p)'
    BY <2>1, <2>4 DEF Balance
  <2>. QED
    BY <2>2, <2>3, <2>5 DEF LinesInv, Balanced
<1>5. CASE LogRenamed(p, name)
  <2>1. /\ files' = [files EXCEPT ![name] = files[live], ![live] = <<>>]
        /\ gone' = [gone EXCEPT ![p] = @ + LinesIn(files[name])]
    BY <1>5 DEF LogRenamed
  <2>2. name \in S /\ name # live
    <3>1. run_ids[p] \in Seconds
      BY DEF LinesInv, LogTyped
    <3>2. name \in ClosedNames(p)
      BY <3>1 DEF ClosedNames
    <3>. QED
      BY <3>2, OwnNames, NamesApart
  <2>3. ClosedNames(p) \subseteq S
    BY OwnNames
  <2> DEFINE h == [files EXCEPT ![name] = files[live]]
  <2> HIDE DEF name, live, S
  <2>4. files' = [h EXCEPT ![live] = <<>>]
    BY ONLY <2>1, Zenon DEF h
  <2>5. h \in [AllNames -> Seq(Noted)] /\ h[name] = files[live] /\ \A f \in AllNames : f # name => h[f] = files[f]
    BY <1>0, <1>3, <2>2
  <2> HIDE DEF h
  <2>6. <<>> \in Seq(Noted)
    OBVIOUS
  <2>7. files' \in [AllNames -> Seq(Noted)] /\ files'[live] = <<>> /\ \A f \in AllNames : f # live => files'[f] = h[f]
    BY <1>3, <2>4, <2>5, <2>6
  <2>8. Countable(h, S) /\ Countable(files', S) /\ InFiles(h, S) \in Nat /\ InFiles(files', S) \in Nat
    BY <1>3, <2>5, <2>7, CountableFiles, InFilesIs
  <2>9. InFiles(h, S) + LinesIn(files[name]) = InFiles(files, S) + LinesIn(files[live])
    <3>1. InFiles(h, S) + LinesIn(files[name]) = InFiles(files, S) + LinesIn(h[name])
      BY <1>3, <2>2, <2>5, <2>8, OneFile
    <3>. QED
      BY <2>5, <3>1
  <2>10. InFiles(files', S) + LinesIn(files[live]) = InFiles(h, S)
    <3>1. InFiles(files', S) + LinesIn(h[live]) = InFiles(h, S) + LinesIn(files'[live])
      BY <1>3, <2>7, <2>8, OneFile
    <3>2. LinesIn(files'[live]) = 0 /\ h[live] = files[live]
      BY <1>3, <2>2, <2>5, <2>7, LinesInIs
    <3>. QED
      BY <2>8, <3>1, <3>2
  <2>11. LinesIn(files[live]) \in Nat /\ LinesIn(files[name]) \in Nat
    BY <1>3, <2>2 DEF Countable
  <2>12. gone' \in [Logged -> Nat] /\ gone'[p] = gone[p] + LinesIn(files[name]) /\ \A q \in Logged \ {p} : gone'[q] = gone[q]
    BY <1>0, <2>1, <2>11
  <2>13. LogTyped'
    BY <1>0, <1>1, <2>7, <2>12 DEF LinesInv, LogTyped
  <2>14. ASSUME NEW q \in Logged \ {p}
         PROVE  emitted'[q] = Balance(q)'
    <3>1. LogNames(q) \subseteq AllNames /\ LogNames(q) \cap S = {}
      BY OwnNames DEF S
    <3>2. \A f \in LogNames(q) : files'[f] = files[f]
      BY <1>3, <2>2, <2>5, <2>7, <3>1
    <3>. QED
      BY <1>1, <2>12, <3>2, OthersBalance
  <2>15. InFiles(files', S) + LinesIn(files[name]) = InFiles(files, S)
    BY ONLY <1>3, <2>8, <2>9, <2>10, <2>11
  <2>16. emitted'[p] = InFiles(files', S) + failing'[p] + gone'[p] + forgotten'[p]
    <3>1. emitted'[p] = emitted[p] /\ failing'[p] = 0 /\ forgotten'[p] = forgotten[p] + failing[p]
          /\ gone'[p] = gone[p] + LinesIn(files[name])
      BY <1>0, <1>1, <2>12
    <3>2. InFiles(files, S) \in Nat /\ InFiles(files', S) \in Nat /\ LinesIn(files[name]) \in Nat
      BY <1>3, <2>8, <2>11
    <3>. QED
      BY ONLY <1>2, <2>15, <3>1, <3>2
  <2>17. emitted'[p] = Balance(p)'
    BY <2>16 DEF Balance, S
  <2>. QED
    BY <2>13, <2>14, <2>17 DEF LinesInv, Balanced
<1>. QED
  BY <1>4, <1>5 DEF TakeFile

\* What pruning deletes is counted as gone, process by process.
LEMMA PruneLines ==
  ASSUME LinesInv, NEW p \in Logged, Prune(p)
  PROVE  LinesInv'
<1>1. PICK kept \in SUBSET Listed(p) :
        /\ files' = [f \in DOMAIN files |-> IF f \in Listed(p) \ kept THEN <<>> ELSE files[f]]
        /\ gone' = [q \in Logged |-> gone[q] + LinesOfRun({f \in Listed(p) \ kept : f[1] = q})]
  BY DEF Prune
<1> DEFINE X == Listed(p) \ kept
           Of(q) == {f \in X : f[1] = q}
<1>0. /\ files \in [AllNames -> Seq(Noted)] /\ failing \in [Logged -> Nat] /\ gone \in [Logged -> Nat]
      /\ forgotten \in [Logged -> Nat] /\ emitted \in [Logged -> Nat] /\ DOMAIN files = AllNames
      /\ UNCHANGED <<failing, forgotten, emitted, second, run_ids>>
  BY DEF LinesInv, LogTyped, Prune
<1>2. files' = [f \in AllNames |-> IF f \in X THEN <<>> ELSE files[f]]
  BY <1>0, <1>1
<1>3. files' \in [AllNames -> Seq(Noted)]
  <2>1. <<>> \in Seq(Noted)
    OBVIOUS
  <2>. QED
    BY <1>0, <1>2, <2>1
<1>4. ASSUME NEW q \in Logged
      PROVE  LogNames(q) \subseteq AllNames /\ IsFiniteSet(LogNames(q)) /\ Countable(files, LogNames(q))
  BY <1>0, OwnNames, CountableFiles
<1>5. X \subseteq AllNames
  <2>1. Listed(p) \subseteq AllNames
    <3>1. \A q \in Logged : ClosedNames(q) \subseteq AllNames /\ LogNames(q) \subseteq AllNames
      BY OwnNames
    <3>. QED
      BY <3>1 DEF Listed
  <2>. QED
    BY <2>1
<1>6. ASSUME NEW q \in Logged
      PROVE  Of(q) \in SUBSET LogNames(q) /\ \A f \in LogNames(q) : f \in X <=> f \in Of(q)
  BY <1>5, OfItsProcess DEF AllNames
<1>7. \A q \in Logged : gone'[q] = gone[q] + InFiles(files, Of(q))
  BY <1>1 DEF LinesOfRun, InFiles
<1> HIDE DEF X, Of
<1>8. ASSUME NEW q \in Logged
      PROVE  InFiles(files, Of(q)) \in Nat
  <2>1. Countable(files, Of(q))
    BY <1>4, <1>6, FS_Subset DEF Countable
  <2>. QED
    BY <2>1, InFilesIs
<1>9. gone' \in [Logged -> Nat]
  <2>1. gone' = [q \in Logged |-> gone'[q]]
    BY <1>1
  <2>2. ASSUME NEW q \in Logged
        PROVE  gone'[q] \in Nat
    <3>1. gone[q] \in Nat
      BY <1>0
    <3>. QED
      BY <1>7, <1>8, <3>1
  <2>. QED
    BY <2>1, <2>2
<1>10. LogTyped'
  BY <1>0, <1>3, <1>9 DEF LinesInv, LogTyped
<1>11. ASSUME NEW q \in Logged
       PROVE  emitted'[q] = Balance(q)'
  <2> DEFINE S == LogNames(q)
             rest == [f \in S |-> IF f \in Of(q) THEN <<>> ELSE files[f]]
  <2>1. InFiles(files, S) = InFiles(rest, S) + InFiles(files, Of(q))
    BY <1>4, <1>6, FilesGo
  <2>2. \A f \in S : rest[f] = files'[f]
    BY <1>2, <1>4, <1>6
  <2> HIDE DEF rest
  <2>3. InFiles(rest, S) = InFiles(files', S)
    BY <1>4, <2>2, InSame
  <2>4. InFiles(files', S) \in Nat
    BY <1>3, <1>4, CountableFiles, InFilesIs
  <2>5. emitted[q] = InFiles(files, S) + failing[q] + gone[q] + forgotten[q]
    BY DEF LinesInv, Balanced, Balance
  <2>6. failing[q] \in Nat /\ gone[q] \in Nat /\ forgotten[q] \in Nat
    BY <1>0
  <2>7. gone'[q] = gone[q] + InFiles(files, Of(q)) /\ InFiles(files, Of(q)) \in Nat
    BY <1>7, <1>8
  <2>8. emitted[q] = InFiles(files', S) + failing[q] + gone'[q] + forgotten[q]
    BY ONLY <2>1, <2>3, <2>4, <2>5, <2>6, <2>7
  <2>. QED
    BY <1>0, <2>8 DEF Balance
<1>. QED
  BY <1>10, <1>11 DEF LinesInv, Balanced

LEMMA InitLines == RunLogInit => LinesInv
<1> SUFFICES ASSUME RunLogInit
             PROVE  LinesInv
  OBVIOUS
<1>1. <<>> \in Seq(Noted) /\ 0 \in Seconds
  BY RunLogAssumption DEF Seconds
<1>2. LogTyped
  BY <1>1 DEF RunLogInit, LogTyped, AllNames
<1>3. ASSUME NEW p \in Logged
      PROVE  emitted[p] = Balance(p)
  <2> DEFINE S == LogNames(p)
             F == {Y \in SUBSET S : InFiles(files, Y) # 0}
  <2>0. IsFiniteSet(S) /\ \A f \in S : LinesIn(files[f]) = 0
    <3>1. \A f \in S : files[f] = <<>>
      BY OwnNames DEF RunLogInit, AllNames
    <3>. QED
      BY <3>1, OwnNames, LinesInIs
  <2>1. InFiles(files, S) = 0
    <3> SUFFICES ASSUME F # {}
                 PROVE  FALSE
      <4>1. S \in SUBSET S
        OBVIOUS
      <4>. QED
        BY <4>1
    <3>1. \A Y \in SUBSET S : IsFiniteSet(Y) /\ Countable(files, Y)
      BY <2>0, FS_Subset DEF Countable
    <3>2. PICK T \in F : \A y \in T : T \ {y} \notin F
      BY <3>1, SmallestSet
    <3>3. CASE T = {}
      BY <3>1, <3>2, <3>3, InFilesIs
    <3>4. ASSUME NEW c \in T
          PROVE  FALSE
      <4>1. InFiles(files, T) = LinesIn(files[c]) + InFiles(files, T \ {c})
        BY <3>1, <3>2, InFilesIs
      <4>2. InFiles(files, T \ {c}) = 0 /\ LinesIn(files[c]) = 0
        BY <2>0, <3>2
      <4>. QED
        BY <3>2, <4>1, <4>2
    <3>. QED
      BY <3>3, <3>4
  <2>2. failing[p] = 0 /\ gone[p] = 0 /\ forgotten[p] = 0 /\ emitted[p] = 0
    BY DEF RunLogInit
  <2>. QED
    BY <2>1, <2>2 DEF Balance
<1>. QED
  BY <1>2, <1>3 DEF LinesInv, Balanced

LEMMA LinesAside ==
  ASSUME LinesInv, UNCHANGED <<files, failing, emitted, gone, forgotten>>, second' \in Seconds, run_ids' \in [Logged -> Seconds]
  PROVE  LinesInv'
<1>1. LogTyped'
  BY DEF LinesInv, LogTyped
<1>2. \A p \in Logged : emitted'[p] = Balance(p)'
  BY OthersBalance
<1>. QED
  BY <1>1, <1>2 DEF LinesInv, Balanced

LEMMA StepLines ==
  ASSUME LinesInv, [RunLogNext]_RunLogVars
  PROVE  LinesInv'
<1>0. second \in Seconds /\ run_ids \in [Logged -> Seconds]
  BY DEF LinesInv, LogTyped
<1>1. CASE VolumeTurns
  BY <1>0, <1>1, LinesAside DEF VolumeTurns, log_history
<1>2. CASE Second
  <2>1. second' \in Seconds
    BY <1>0, <1>2, RunLogAssumption DEF Second, Seconds
  <2>. QED
    BY <1>0, <1>2, <2>1, LinesAside DEF Second, log_history
<1>3. ASSUME NEW p \in Logged, SpawnCapture(p)
      PROVE  LinesInv'
  <2>1. run_ids' \in [Logged -> Seconds] /\ Write(p, second) /\ UNCHANGED <<second, forgotten>>
    BY <1>0, <1>3 DEF SpawnCapture
  <2>. QED
    BY <1>0, <2>1, WriteLines
<1>4. ASSUME NEW p \in Logged, NEW id \in Seconds, Read(p, id)
      PROVE  LinesInv'
  <2>1. run_ids' \in [Logged -> Seconds] /\ Write(p, id) /\ UNCHANGED <<second, forgotten>>
    BY <1>0, <1>4 DEF Read
  <2>. QED
    BY <2>1, WriteLines
<1>5. ASSUME NEW p \in Logged, NEW id \in Seconds, PipeCloses(p, id)
      PROVE  LinesInv'
  BY <1>0, <1>5, LinesAside DEF PipeCloses, log_history
<1>6. ASSUME NEW p \in Logged, Exits(p)
      PROVE  LinesInv'
  BY <1>0, <1>6, LinesAside DEF Exits, log_history
<1>7. ASSUME NEW p \in Logged, Drain(p)
      PROVE  LinesInv'
  BY <1>0, <1>7, LinesAside DEF Drain, log_history
<1>8. CASE UNCHANGED RunLogVars
  BY <1>0, <1>8, LinesAside DEF RunLogVars, log_history
<1>. QED
  BY <1>1, <1>2, <1>3, <1>4, <1>5, <1>6, <1>7, <1>8, TakeFileLines, PruneLines DEF RunLogNext

\* No name is another's with a dot: a query looks at the process's own files.
LEMMA LinesMean ==
  ASSUME LinesInv, Dotted = {}
  PROVE  LinesAccounted
<1>1. \A p \in Logged : FilesAsked(p, AllRuns) = LogNames(p)
  BY DEF FilesAsked, FilesFor
<1>2. \A S : LinesOfRun(S) = InFiles(files, S)
  BY DEF LinesOfRun, InFiles
<1>. QED
  BY <1>1, <1>2 DEF LinesInv, Balanced, Balance, LinesAccounted

\* What was written to each process's log is in its files, was counted as lost, was
\* deleted with a file or was forgotten with its writer, whatever the names: through
\* rotation, failing writes, renames and pruning the counts balance.  The inductive
\* invariant.
THEOREM LinesInvCorrect == RunLogSpec => []LinesInv
<1>1. RunLogInit => LinesInv
  BY InitLines
<1>2. LinesInv /\ [RunLogNext]_RunLogVars => LinesInv'
  BY StepLines
<1>. QED
  BY <1>1, <1>2, PTL DEF RunLogSpec

\* A query for the whole log of a process finds every line that was written, or the
\* count of it, or the line waits to be counted or has gone with its file, where no
\* process's name is another's, a dot and more: its query would find the other's too.
THEOREM LinesAccountedCorrect == Dotted = {} => (RunLogSpec => []LinesAccounted)
<1> SUFFICES ASSUME Dotted = {}
             PROVE  RunLogSpec => []LinesAccounted
  OBVIOUS
<1>1. LinesInv => LinesAccounted
  BY LinesMean
<1>. QED
  BY <1>1, LinesInvCorrect, PTL

-----------------------------------------------------------------------------
(* Files: what a command has said it did is so.                            *)

Iteration(f, n, a, step) == f = [k \in 0..n |-> IF k = 0 THEN a ELSE step[f[k - 1]]]

\* A recursion on a number has a solution.
LEMMA Iterates ==
  ASSUME NEW n \in Nat, NEW S, NEW a \in S, NEW step \in [S -> S]
  PROVE  \E f : Iteration(f, n, a, step) /\ \A k \in 0..n : f[k] \in S
<1> USE DEF Iteration
<1> DEFINE Solves(f, m) == Iteration(f, m, a, step) /\ \A k \in 0..m : f[k] \in S
           bad == {m \in Nat : ~\E f : Solves(f, m)}
<1>1. bad = {}
  <2> SUFFICES ASSUME bad # {}
               PROVE  FALSE
    OBVIOUS
  <2>1. PICK m \in bad : \A j \in bad : m <= j
    BY LeastOf
  <2>2. m # 0
    <3> DEFINE one == [k \in 0..0 |-> a]
    <3>1. Solves(one, 0)
      OBVIOUS
    <3>. QED
      BY <2>1, <3>1
  <2>3. m \in Nat /\ m - 1 \in Nat /\ m - 1 \notin bad
    <3>1. m \in Nat
      OBVIOUS
    <3> HIDE DEF bad
    <3>2. m - 1 \in bad => m <= m - 1
      BY <2>1
    <3>. QED
      BY <2>2, <3>1, <3>2
  <2>4. PICK g : Solves(g, m - 1)
    BY <2>3
  <2> DEFINE h == [k \in 0..m |-> IF k = m THEN step[g[m - 1]] ELSE g[k]]
  <2>5. ASSUME NEW k \in 0..m
        PROVE  h[k] \in S /\ h[k] = IF k = 0 THEN a ELSE step[h[k - 1]]
    <3>1. CASE k = m
      <4>1. h[k] = step[g[m - 1]] /\ h[k - 1] = g[m - 1] /\ g[m - 1] \in S
        BY <2>2, <2>3, <2>4, <3>1
      <4>. QED
        BY <2>2, <3>1, <4>1
    <3>2. CASE k # m
      <4>1. k \in 0..(m - 1) /\ h[k] = g[k]
        BY <2>3, <3>2
      <4>2. k # 0 => h[k - 1] = g[k - 1]
        BY <2>3, <3>2, <4>1
      <4>3. g[k] \in S /\ g[k] = IF k = 0 THEN a ELSE step[g[k - 1]]
        BY <2>4, <4>1
      <4>. QED
        BY <4>1, <4>2, <4>3
    <3>. QED
      BY <3>1, <3>2
  <2>6. h = [k \in 0..m |-> h[k]]
    OBVIOUS
  <2> HIDE DEF h
  <2>7. Solves(h, m)
    BY <2>5, <2>6
  <2>. QED
    BY <2>1, <2>7
<1>2. PICK f : Solves(f, n)
  BY <1>1
<1>. QED
  BY <1>2

Kinds == {"file", "dir", "link"}
InodeStates == [kind : Kinds, length : Nat, to : EntryNames \cup {"none"}]
DirEntries == (Inodes \cup {Absent}) \ {Root}
\* A disk: links lead somewhere, the root is a directory and is in none.
DiskOK(d) ==
  /\ d \in [inode : [Inodes -> InodeStates], entries : [Inodes -> [EntryNames -> DirEntries]]]
  /\ \A i \in Inodes : d.inode[i].kind = "link" => d.inode[i].to \in EntryNames
  /\ d.inode[Root].kind = "dir"
DiskTyped == DiskOK(disk)

Hops == Cardinality(Inodes)
RootPlaces == {<<Root, x>> : x \in EntryNames}
Places == (Inodes \X EntryNames) \cup {Nowhere}
\* The places in the root and in its directories.
Anchored == {q \in Inodes \X EntryNames : q[1] = Root \/ \E r \in RootPlaces : At(r) = q[1]} \cup {Nowhere}

LEMMA HopsNat == Hops \in Nat /\ Root \in Inodes /\ Absent \notin Inodes /\ Absent # Root
  BY FilesAssumption, FS_CardinalityType DEF Hops

\* What is at a place, and where a link leads.
PlacesRight ==
  /\ Kind(Root) = "dir" /\ Kind(Absent) = "none" /\ At(Nowhere) = Absent /\ ~IsLink(Nowhere)
  /\ \A i \in Inodes : Kind(i) = disk.inode[i].kind /\ Kind(i) \in Kinds
  /\ \A d \in Inodes, x \in EntryNames :
       At(<<d, x>>) = IF Kind(d) = "dir" THEN disk.entries[d][x] ELSE Absent
  /\ \A q \in Places : At(q) \in DirEntries /\ Hop(q) \in Places /\ (Hop(q) \in RootPlaces \/ Hop(q) = q)
  /\ \A q \in Places : IsLink(q) => At(q) \in Inodes
  /\ RootPlaces \subseteq Anchored /\ Anchored \subseteq Places

LEMMA PlaceFacts == DiskTyped => PlacesRight
<1> SUFFICES ASSUME DiskTyped
             PROVE  PlacesRight
  OBVIOUS
<1>1. \A i \in Inodes : Kind(i) = disk.inode[i].kind /\ Kind(i) \in Kinds
  BY HopsNat DEF DiskTyped, DiskOK, InodeStates, Kind
<1>2. Kind(Root) = "dir" /\ Kind(Absent) = "none" /\ At(Nowhere) = Absent /\ ~IsLink(Nowhere)
  BY HopsNat DEF DiskTyped, DiskOK, Kind, At, IsLink
<1>3. ASSUME NEW d \in Inodes, NEW x \in EntryNames
      PROVE  /\ At(<<d, x>>) = IF Kind(d) = "dir" THEN disk.entries[d][x] ELSE Absent
             /\ At(<<d, x>>) \in DirEntries
  <2>1. <<d, x>> # Nowhere
    BY HopsNat DEF Nowhere
  <2>2. disk.entries[d][x] \in DirEntries /\ Absent \in DirEntries
    BY HopsNat DEF DiskTyped, DiskOK, DirEntries
  <2>. QED
    BY <2>1, <2>2 DEF At, Entry
<1>4. ASSUME NEW q \in Places
      PROVE  At(q) \in DirEntries /\ Hop(q) \in Places /\ (Hop(q) \in RootPlaces \/ Hop(q) = q)
             /\ (IsLink(q) => At(q) \in Inodes)
  <2>1. At(q) \in DirEntries
    <3>1. CASE q = Nowhere
      BY <1>2, <3>1, HopsNat DEF DirEntries
    <3>2. CASE q # Nowhere
      <4>1. PICK d \in Inodes, x \in EntryNames : q = <<d, x>>
        BY <3>2 DEF Places
      <4>. QED
        BY <1>3, <4>1
    <3>. QED
      BY <3>1, <3>2
  <2>2. CASE ~IsLink(q)
    BY <2>1, <2>2 DEF Hop
  <2>3. CASE IsLink(q)
    <3>1. Kind(At(q)) = "link"
      BY <2>3 DEF IsLink
    <3>2. At(q) \in Inodes
      BY <1>2, <2>1, <3>1 DEF DirEntries
    <3>3. disk.inode[At(q)].to \in EntryNames
      BY <1>1, <3>1, <3>2 DEF DiskTyped, DiskOK
    <3>4. Hop(q) = <<Root, disk.inode[At(q)].to>>
      BY <2>3 DEF Hop
    <3>. QED
      BY <2>1, <3>2, <3>3, <3>4, HopsNat DEF RootPlaces, Places
  <2>. QED
    BY <2>2, <2>3
<1>5. RootPlaces \subseteq Anchored /\ Anchored \subseteq Places
  BY HopsNat DEF RootPlaces, Anchored, Places
<1>. QED
  BY <1>1, <1>2, <1>3, <1>4, <1>5 DEF PlacesRight

LEMMA PlaceFactsNext == DiskTyped' => PlacesRight'
  BY PlaceFacts, PTL

USE DEF PlacesRight

\* The places a link leads through.
Walks(f, from) ==
  /\ f[0] = from
  /\ \A k \in 1..Hops : f[k] = Hop(f[k - 1])
  /\ \A k \in 0..Hops : f[k] \in Places

LedsRight ==
  \A from \in Places : \E f :
    /\ Walks(f, from)
    /\ Led(from) = IF ~IsLink(from) THEN from ELSE IF IsLink(f[Hops]) THEN Nowhere ELSE f[Hops]

LEMMA LedWalk == DiskTyped => LedsRight
<1> SUFFICES ASSUME DiskTyped, NEW from \in Places
             PROVE  \E f : /\ Walks(f, from)
                           /\ Led(from) = IF ~IsLink(from) THEN from
                                          ELSE IF IsLink(f[Hops]) THEN Nowhere ELSE f[Hops]
  BY DEF LedsRight
<1> DEFINE step == [q \in Places |-> Hop(q)]
           IsWalk(f) == f = [k \in 0..Hops |-> IF k = 0 THEN from ELSE Hop(f[k - 1])]
<1>1. step \in [Places -> Places]
  BY PlaceFacts
<1>2. PICK g : Iteration(g, Hops, from, step) /\ \A k \in 0..Hops : g[k] \in Places
  <2> HIDE DEF step
  <2>. QED
    BY <1>1, HopsNat, Iterates
<1>3. \A k \in 1..Hops : k - 1 \in 0..Hops /\ k \in 0..Hops
  BY HopsNat
<1>4. ASSUME NEW k \in 0..Hops, k # 0
      PROVE  step[g[k - 1]] = Hop(g[k - 1])
  <2>1. k \in 1..Hops
    BY <1>4, HopsNat
  <2>2. g[k - 1] \in Places
    BY <1>2, <1>3, <2>1
  <2>. QED
    BY <2>2
<1>5. IsWalk(g)
  <2>1. [k \in 0..Hops |-> IF k = 0 THEN from ELSE step[g[k - 1]]]
          = [k \in 0..Hops |-> IF k = 0 THEN from ELSE Hop(g[k - 1])]
    BY <1>4
  <2>. QED
    BY <1>2, <2>1 DEF Iteration
<1> DEFINE f == CHOOSE f : IsWalk(f)
<1>6. IsWalk(f)
  BY <1>5
<1>7. Led(from) = IF ~IsLink(from) THEN from ELSE IF IsLink(f[Hops]) THEN Nowhere ELSE f[Hops]
  BY DEF Led, Hops
<1> HIDE DEF f
<1>8. f[0] = from /\ \A k \in 1..Hops : f[k] = Hop(f[k - 1])
  BY <1>6, HopsNat
<1>9. \A k \in 0..Hops : f[k] \in Places
  <2> DEFINE bad == {k \in 0..Hops : f[k] \notin Places}
  <2> SUFFICES ASSUME bad # {}
               PROVE  FALSE
    OBVIOUS
  <2>0. bad \subseteq Nat
    BY HopsNat
  <2>1. PICK k \in bad : \A j \in bad : k <= j
    <3> HIDE DEF bad
    <3>. QED
      BY <2>0, LeastOf
  <2>2. k \in 0..Hops /\ k # 0 /\ f[k] \notin Places
    BY <1>8
  <2>3. k - 1 \in 0..Hops /\ k \in 1..Hops
    BY <2>2, HopsNat
  <2>4. k - 1 \notin bad
    <3> HIDE DEF bad
    <3>1. k - 1 \in bad => k <= k - 1
      BY <2>1
    <3>. QED
      BY <2>2, <3>1
  <2>5. f[k] \in Places
    BY <1>8, <2>3, <2>4, PlaceFacts
  <2>. QED
    BY <2>2, <2>5
<1>. QED
  BY <1>7, <1>8, <1>9 DEF Walks

LEMMA LedWalkNext == DiskTyped' => LedsRight'
  BY LedWalk, PTL

\* Links lead to a place in the root that is no link, or nowhere.
LEMMA LedTo ==
  DiskTyped => \A from \in Places :
    /\ Led(from) \in RootPlaces \cup {Nowhere, from}
    /\ ~IsLink(Led(from))
    /\ ~IsLink(from) => Led(from) = from
<1> SUFFICES ASSUME DiskTyped, NEW from \in Places
             PROVE  /\ Led(from) \in RootPlaces \cup {Nowhere, from}
                    /\ ~IsLink(Led(from))
                    /\ ~IsLink(from) => Led(from) = from
  OBVIOUS
<1>1. PICK f : /\ Walks(f, from)
               /\ Led(from) = IF ~IsLink(from) THEN from ELSE IF IsLink(f[Hops]) THEN Nowhere ELSE f[Hops]
  BY LedWalk DEF LedsRight
<1>2. \A k \in 0..Hops : f[k] \in RootPlaces \cup {from}
  <2> DEFINE bad == {k \in 0..Hops : f[k] \notin RootPlaces \cup {from}}
  <2> SUFFICES ASSUME bad # {}
               PROVE  FALSE
    OBVIOUS
  <2>0. bad \subseteq Nat
    BY HopsNat
  <2>1. PICK k \in bad : \A j \in bad : k <= j
    <3> HIDE DEF bad
    <3>. QED
      BY <2>0, LeastOf
  <2>2. k \in 0..Hops /\ k # 0
    BY <1>1 DEF Walks
  <2>3. k - 1 \in 0..Hops /\ k \in 1..Hops
    BY <2>2, HopsNat
  <2>4. k - 1 \notin bad
    <3> HIDE DEF bad
    <3>1. k - 1 \in bad => k <= k - 1
      BY <2>1
    <3>. QED
      BY <2>2, <3>1
  <2>5. f[k] = Hop(f[k - 1]) /\ f[k - 1] \in Places
    BY <1>1, <2>3 DEF Walks
  <2>6. f[k] \in RootPlaces \/ f[k] = f[k - 1]
    BY <2>5, PlaceFacts
  <2>. QED
    BY <2>3, <2>4, <2>6
<1>3. f[Hops] \in RootPlaces \cup {from}
  BY <1>2, HopsNat
<1>. QED
  BY <1>1, <1>3, PlaceFacts

\* Where a path is.
LEMMA HereFacts ==
  DiskTyped => \A p \in Paths :
    /\ p[1] \in EntryNames /\ p[Len(p)] \in EntryNames /\ Len(p) \in {1, 2}
    /\ Len(p) = 1 => p = <<p[1]>> /\ ParentOf(p) = Root /\ Here(p) = <<Root, p[1]>>
    /\ Len(p) = 2 => p = <<p[1], p[2]>> /\ ParentOf(p) = At(Led(<<Root, p[1]>>)) /\ ParentOf(p) # Root
    /\ Here(p) # Nowhere => ParentOf(p) \in Inodes /\ Kind(ParentOf(p)) = "dir"
                            /\ Here(p) = <<ParentOf(p), p[Len(p)]>>
    /\ Here(p) \in Anchored /\ There(p) \in Anchored /\ ~IsLink(There(p))
    /\ There(p) # Nowhere => Here(p) # Nowhere /\ Kind(There(p)[1]) = "dir"
    /\ ~IsLink(Here(p)) => There(p) = Here(p)
    /\ SymlinkMetadata(p) \in DirEntries /\ Metadata(p) \in DirEntries
<1> SUFFICES ASSUME DiskTyped, NEW p \in Paths
             PROVE  /\ p[1] \in EntryNames /\ p[Len(p)] \in EntryNames /\ Len(p) \in {1, 2}
                    /\ Len(p) = 1 => p = <<p[1]>> /\ ParentOf(p) = Root /\ Here(p) = <<Root, p[1]>>
                    /\ Len(p) = 2 => p = <<p[1], p[2]>> /\ ParentOf(p) = At(Led(<<Root, p[1]>>)) /\ ParentOf(p) # Root
                    /\ Here(p) # Nowhere => ParentOf(p) \in Inodes /\ Kind(ParentOf(p)) = "dir"
                                            /\ Here(p) = <<ParentOf(p), p[Len(p)]>>
                    /\ Here(p) \in Anchored /\ There(p) \in Anchored /\ ~IsLink(There(p))
                    /\ There(p) # Nowhere => Here(p) # Nowhere /\ Kind(There(p)[1]) = "dir"
                    /\ ~IsLink(Here(p)) => There(p) = Here(p)
                    /\ SymlinkMetadata(p) \in DirEntries /\ Metadata(p) \in DirEntries
  OBVIOUS
<1>1. p[1] \in EntryNames /\ p[Len(p)] \in EntryNames /\ Len(p) \in {1, 2}
      /\ (Len(p) = 1 => p = <<p[1]>>) /\ (Len(p) = 2 => p = <<p[1], p[2]>>)
  <2>1. CASE \E x \in EntryNames : p = <<x>>
    BY <2>1
  <2>2. CASE \E x, y \in EntryNames : p = <<x, y>>
    BY <2>2
  <2>. QED
    BY <2>1, <2>2 DEF Paths
<1> DEFINE r == <<Root, p[1]>>
<1>2. r \in RootPlaces /\ r \in Places
  BY <1>1, HopsNat DEF RootPlaces, Places
<1>3. Led(r) \in RootPlaces \cup {Nowhere} /\ Led(r) \in Places
  BY <1>2, LedTo, HopsNat DEF RootPlaces, Places
<1>4. At(Led(r)) \in DirEntries
  BY <1>3, PlaceFacts
<1>5. Len(p) = 1 => ParentOf(p) = Root
  BY DEF ParentOf
<1>6. Len(p) = 2 => ParentOf(p) = At(Led(r)) /\ ParentOf(p) # Root
  BY <1>4 DEF ParentOf, DirEntries
<1>7. Here(p) # Nowhere => /\ ParentOf(p) \in Inodes /\ Kind(ParentOf(p)) = "dir"
                           /\ Here(p) = <<ParentOf(p), p[Len(p)]>>
  BY <1>1, <1>4, <1>5, <1>6, HopsNat, PlaceFacts DEF Here, DirEntries
<1>8. Len(p) = 1 => Here(p) = <<Root, p[1]>>
  BY <1>1, <1>5, PlaceFacts DEF Here
<1>9. Here(p) \in Anchored
  <2>1. CASE Here(p) = Nowhere
    BY <2>1 DEF Anchored
  <2>2. CASE Here(p) # Nowhere /\ Len(p) = 1
    BY <1>2, <1>8, <2>2, PlaceFacts
  <2>3. CASE Here(p) # Nowhere /\ Len(p) = 2
    <3>1. Led(r) # Nowhere
      BY <1>6, <1>7, <2>3, PlaceFacts, HopsNat
    <3>2. Led(r) \in RootPlaces /\ At(Led(r)) = Here(p)[1]
      BY <1>3, <1>6, <1>7, <2>3, <3>1
    <3>3. Here(p) \in Inodes \X EntryNames
      BY <1>1, <1>7, <2>3
    <3>. QED
      BY <3>2, <3>3 DEF Anchored
  <2>. QED
    BY <1>1, <2>1, <2>2, <2>3
<1>10. There(p) \in Anchored /\ ~IsLink(There(p))
  <2>1. Here(p) \in Places
    BY <1>9, PlaceFacts
  <2>2. There(p) \in RootPlaces \cup {Nowhere, Here(p)} /\ ~IsLink(There(p))
    BY <2>1, LedTo DEF There
  <2>3. Nowhere \in Anchored
    BY DEF Anchored
  <2>. QED
    BY <1>9, <2>2, <2>3, PlaceFacts
<1>11. SymlinkMetadata(p) \in DirEntries /\ Metadata(p) \in DirEntries
  BY <1>9, <1>10, PlaceFacts DEF SymlinkMetadata, Metadata
<1>12. Here(p) \in Places /\ (~IsLink(Here(p)) => There(p) = Here(p))
  BY <1>9, LedTo, PlaceFacts DEF There
<1>13. ASSUME There(p) # Nowhere
       PROVE  Here(p) # Nowhere /\ Kind(There(p)[1]) = "dir"
  <2>1. Here(p) # Nowhere
    BY <1>12, <1>13, PlaceFacts
  <2>2. There(p) \in RootPlaces \cup {Here(p)}
    BY <1>12, <1>13, LedTo DEF There
  <2>3. Kind(Here(p)[1]) = "dir"
    BY <1>7, <2>1
  <2>4. \A q \in RootPlaces : Kind(q[1]) = "dir"
    BY PlaceFacts DEF RootPlaces
  <2>. QED
    BY <2>1, <2>2, <2>3, <2>4
<1>. QED
  BY <1>1, <1>5, <1>6, <1>7, <1>8, <1>9, <1>10, <1>11, <1>12, <1>13

-----------------------------------------------------------------------------
\* What is at a place is still there, and no link has come to an empty one.
Kept(q) ==
  /\ At(q) # Absent => /\ At(q)' = At(q)
                       /\ disk'.inode[At(q)].kind = disk.inode[At(q)].kind
                       /\ disk'.inode[At(q)].to = disk.inode[At(q)].to
  /\ At(q) = Absent => ~IsLink(q)'

LEMMA KeptHop ==
  ASSUME DiskTyped, DiskTyped', NEW q \in Places, Kept(q)
  PROVE  Hop(q)' = Hop(q) /\ IsLink(q)' = IsLink(q) /\ (At(q) # Absent => Kind(At(q))' = Kind(At(q)))
<1>1. \A i \in Inodes : Kind(i)' = disk'.inode[i].kind
  BY PlaceFactsNext
<1>2. \A i \in Inodes : Kind(i) = disk.inode[i].kind
  BY PlaceFacts
<1>3. CASE At(q) = Absent
  <2>1. ~IsLink(q)' /\ ~IsLink(q)
    BY <1>3, PlaceFacts DEF Kept, IsLink
  <2>. QED
    BY <1>3, <2>1 DEF Hop, IsLink
<1>4. CASE At(q) # Absent
  <2>1. At(q) \in Inodes
    BY <1>4, PlaceFacts DEF DirEntries
  <2>2. At(q)' = At(q) /\ disk'.inode[At(q)].kind = disk.inode[At(q)].kind
        /\ disk'.inode[At(q)].to = disk.inode[At(q)].to
    BY <1>4 DEF Kept
  <2>3. Kind(At(q)) = disk.inode[At(q)].kind
    BY <1>2, <2>1
  <2>4. (Kind(At(q)))' = disk'.inode[At(q)].kind
    BY <1>1, <2>1, <2>2
  <2>5. IsLink(q)' = IsLink(q)
    BY <2>2, <2>3, <2>4 DEF IsLink
  <2>6. Kind(At(q))' = Kind(At(q))
    BY <2>2, <2>3, <2>4
  <2>. QED
    BY <2>2, <2>5, <2>6 DEF Hop
<1>. QED
  BY <1>3, <1>4

\* Links lead where they led.
LEMMA SameWalk ==
  ASSUME DiskTyped, DiskTyped', NEW Q, Q \subseteq Places, RootPlaces \subseteq Q, \A q \in Q : Kept(q),
         NEW from \in Q
  PROVE  Led(from)' = Led(from)
<1>1. PICK f : /\ Walks(f, from)
               /\ Led(from) = IF ~IsLink(from) THEN from ELSE IF IsLink(f[Hops]) THEN Nowhere ELSE f[Hops]
  BY LedWalk DEF LedsRight
<1>2. LedsRight'
  BY LedWalkNext
<1>3. PICK g : /\ Walks(g, from)'
               /\ Led(from)' = IF ~IsLink(from)' THEN from ELSE IF IsLink(g[Hops])' THEN Nowhere ELSE g[Hops]
  <2>1. from \in Places
    OBVIOUS
  <2>. QED
    BY <1>2, <2>1 DEF LedsRight
<1>4. \A q \in Q : Hop(q)' = Hop(q) /\ IsLink(q)' = IsLink(q) /\ Hop(q) \in Q
  BY KeptHop, PlaceFacts
<1>5. f[0] = from /\ (\A k \in 1..Hops : f[k] = Hop(f[k - 1]))
  BY <1>1 DEF Walks
<1>6. g[0] = from /\ (\A k \in 1..Hops : g[k] = Hop(g[k - 1])')
  BY <1>3 DEF Walks
<1>7. \A k \in 0..Hops : f[k] \in Q /\ g[k] = f[k]
  <2> DEFINE bad == {k \in 0..Hops : ~(f[k] \in Q /\ g[k] = f[k])}
  <2> SUFFICES ASSUME bad # {}
               PROVE  FALSE
    OBVIOUS
  <2>0. bad \subseteq Nat
    BY HopsNat
  <2>1. PICK k \in bad : \A j \in bad : k <= j
    <3> HIDE DEF bad
    <3>. QED
      BY <2>0, LeastOf
  <2>2. k \in 0..Hops /\ k # 0
    BY <1>5, <1>6
  <2>3. k - 1 \in 0..Hops /\ k \in 1..Hops
    BY <2>2, HopsNat
  <2>4. k - 1 \notin bad
    <3> HIDE DEF bad
    <3>1. k - 1 \in bad => k <= k - 1
      BY <2>1
    <3>. QED
      BY <2>2, <3>1
  <2>5. f[k - 1] \in Q /\ g[k - 1] = f[k - 1]
    BY <2>3, <2>4
  <2>6. f[k] = Hop(f[k - 1]) /\ g[k] = Hop(g[k - 1])'
    BY <1>5, <1>6, <2>3
  <2>7. Hop(g[k - 1])' = Hop(f[k - 1])
    BY <1>4, <2>5
  <2>. QED
    BY <1>4, <2>5, <2>6, <2>7
<1>8. f[Hops] \in Q /\ g[Hops] = f[Hops]
  BY <1>7, HopsNat
<1>9. IsLink(g[Hops])' = IsLink(f[Hops]) /\ IsLink(from)' = IsLink(from)
  BY <1>4, <1>8
<1>. QED
  BY <1>1, <1>3, <1>8, <1>9

\* A path is where it was, and leads where it led.
LEMMA Unmoved ==
  ASSUME DiskTyped, DiskTyped', NEW p \in Paths, \A q \in RootPlaces : Kept(q), Here(p) # Nowhere
  PROVE  Here(p)' = Here(p) /\ \A here : here = Here(p) /\ Kept(here) => There(p)' = There(p)
<1>1. RootPlaces \subseteq Places /\ Here(p) \in Places
  BY PlaceFacts, HereFacts
<1>2. \A q \in RootPlaces : Led(q)' = Led(q)
  BY <1>1, SameWalk
<1>3. ParentOf(p)' = ParentOf(p) /\ Kind(ParentOf(p))' = "dir"
  <2>0. Kind(Root)' = "dir"
    BY PlaceFactsNext
  <2>1. CASE Len(p) = 1
    BY <2>0, <2>1 DEF ParentOf
  <2>2. CASE Len(p) = 2
    <3>0. PICK r : r = Led(<<Root, p[1]>>)
      OBVIOUS
    <3>1. <<Root, p[1]>> \in RootPlaces
      BY HereFacts DEF RootPlaces
    <3>2. r \in RootPlaces \cup {Nowhere}
      BY <1>1, <3>0, <3>1, LedTo
    <3>3. ParentOf(p) = At(r) /\ At(r) \in Inodes /\ Kind(At(r)) = "dir"
      BY <2>2, <3>0, HereFacts
    <3>4. r \in RootPlaces /\ At(r) # Absent
      BY <3>2, <3>3, PlaceFacts, HopsNat
    <3>5. At(r)' = At(r) /\ Kind(At(r))' = Kind(At(r))
      BY <1>1, <3>4, KeptHop DEF Kept
    <3>6. ParentOf(p)' = At(r)'
      BY <1>2, <2>2, <3>0, <3>1 DEF ParentOf
    <3>7. Kind(ParentOf(p))' = Kind(At(r))'
      BY <3>6
    <3>. QED
      BY <3>3, <3>5, <3>6, <3>7
  <2>. QED
    BY <2>1, <2>2, HereFacts
<1>4. Here(p)' = Here(p)
  BY <1>3, HereFacts DEF Here
<1>5. ASSUME NEW here, here = Here(p), Kept(here)
      PROVE  There(p)' = There(p)
  <2> DEFINE Q == RootPlaces \cup {here}
  <2>1. Q \subseteq Places /\ RootPlaces \subseteq Q /\ here \in Q /\ \A q \in Q : Kept(q)
    BY <1>1, <1>5
  <2>2. \A q \in Q : Led(q)' = Led(q)
    <3> HIDE DEF Q
    <3>. QED
      BY <2>1, SameWalk
  <2>3. Led(here)' = Led(here) /\ Here(p)' = here
    BY <1>4, <1>5, <2>1, <2>2
  <2>. QED
    BY <1>5, <2>3 DEF There
<1>. QED
  BY <1>4, <1>5

-----------------------------------------------------------------------------
\* The disks that the system calls may leave.
InUse(d, i) == i = Root \/ \E e \in Inodes, x \in EntryNames : d.entries[e][x] = i

LEMMA PlainOK == Plain \in InodeStates /\ Plain.kind = "file" /\ Absent \in DirEntries
                 /\ Empty \in [EntryNames -> DirEntries] /\ \A x \in EntryNames : Empty[x] = Absent
  BY HopsNat DEF Plain, InodeStates, Kinds, DirEntries, Empty

LEMMA TidiedIs ==
  ASSUME NEW d, DiskOK(d), NEW K, disk' = Tidied(d, K)
  PROVE  /\ DiskTyped' /\ disk'.entries = d.entries
         /\ \A i \in Inodes : InUse(d, i) => disk'.inode[i] = d.inode[i]
         /\ \A i \in Inodes : disk'.inode[i] \in {d.inode[i], Plain}
<1> DEFINE inode == [i \in Inodes |-> IF i \in K \/ InUse(d, i) THEN d.inode[i] ELSE Plain]
<1>1. disk' = [d EXCEPT !.inode = inode]
  BY DEF Tidied, InUse
<1>2. inode \in [Inodes -> InodeStates] /\ (\A i \in Inodes : InUse(d, i) => inode[i] = d.inode[i])
      /\ inode[Root] = d.inode[Root] /\ \A i \in Inodes : inode[i] \in {d.inode[i], Plain}
  BY PlainOK, HopsNat DEF DiskOK, InUse
<1> HIDE DEF inode
<1>3. disk' = [inode |-> inode, entries |-> d.entries]
  BY <1>1 DEF DiskOK
<1>4. disk'.inode = inode /\ disk'.entries = d.entries
  BY <1>3
<1>5. DiskOK(disk')
  <2>1. disk' \in [inode : [Inodes -> InodeStates], entries : [Inodes -> [EntryNames -> DirEntries]]]
    BY <1>2, <1>3 DEF DiskOK
  <2>2. \A i \in Inodes : disk'.inode[i].kind = "link" => disk'.inode[i].to \in EntryNames
    BY <1>2, <1>4, PlainOK DEF DiskOK
  <2>3. disk'.inode[Root].kind = "dir"
    BY <1>2, <1>4 DEF DiskOK
  <2>. QED
    BY <2>1, <2>2, <2>3 DEF DiskOK
<1>. QED
  BY <1>2, <1>4, <1>5 DEF DiskTyped

Placed(d, place, i) == [d EXCEPT !.entries[place[1]][place[2]] = i]

LEMMA PlacedIs ==
  ASSUME NEW d, DiskOK(d), NEW place \in Inodes \X EntryNames, NEW i \in DirEntries
  PROVE  /\ DiskOK(Placed(d, place, i)) /\ Placed(d, place, i).inode = d.inode
         /\ \A e \in Inodes, x \in EntryNames :
              Placed(d, place, i).entries[e][x] = IF <<e, x>> = place THEN i ELSE d.entries[e][x]
<1> DEFINE entries == [d.entries EXCEPT ![place[1]][place[2]] = i]
<1>1. Placed(d, place, i) = [inode |-> d.inode, entries |-> entries]
  <2>1. d = [inode |-> d.inode, entries |-> d.entries]
    BY DEF DiskOK
  <2>2. Placed(d, place, i) = [d EXCEPT !.entries = entries]
    BY <2>1 DEF Placed
  <2> HIDE DEF entries
  <2>. QED
    BY <2>1, <2>2
<1>2. entries \in [Inodes -> [EntryNames -> DirEntries]]
  BY DEF DiskOK
<1>3. ASSUME NEW e \in Inodes, NEW x \in EntryNames
      PROVE  entries[e][x] = IF <<e, x>> = place THEN i ELSE d.entries[e][x]
  <2>1. PICK b \in Inodes, y \in EntryNames : place = <<b, y>>
    OBVIOUS
  <2>2. d.entries \in [Inodes -> [EntryNames -> DirEntries]] /\ d.entries[b] \in [EntryNames -> DirEntries]
    BY DEF DiskOK
  <2>3. entries = [d.entries EXCEPT ![b] = [d.entries[b] EXCEPT ![y] = i]]
    BY <2>1
  <2> HIDE DEF entries
  <2>4. e # b => entries[e] = d.entries[e]
    BY <2>2, <2>3
  <2>5. e = b => entries[e] = [d.entries[b] EXCEPT ![y] = i]
    BY <2>2, <2>3
  <2>6. CASE e = b
    BY <2>1, <2>2, <2>5, <2>6
  <2>7. CASE e # b
    BY <2>1, <2>4, <2>7
  <2>. QED
    BY <2>6, <2>7
<1> HIDE DEF entries
<1>. QED
  BY <1>1, <1>2, <1>3 DEF DiskOK

LEMMA PutIs ==
  ASSUME DiskTyped, NEW place \in Inodes \X EntryNames, NEW i \in DirEntries
  PROVE  /\ DiskOK(Put(place, i)) /\ Put(place, i).inode = disk.inode
         /\ \A e \in Inodes, x \in EntryNames :
              Put(place, i).entries[e][x] = IF <<e, x>> = place THEN i ELSE disk.entries[e][x]
<1>1. Put(place, i) = Placed(disk, place, i)
  BY DEF Put, Placed
<1>. QED
  BY <1>1, PlacedIs DEF DiskTyped

LEMMA MadeIs ==
  ASSUME DiskTyped, NEW place \in Places, NEW new \in InodeStates, new.kind = "link" => new.to \in EntryNames,
         NEW d \in Made(place, new)
  PROVE  /\ place \in Inodes \X EntryNames /\ At(place) = Absent /\ DiskOK(d)
         /\ \E i \in Inodes : /\ ~InUse(disk, i) /\ i # Absent
                              /\ d.inode = [disk.inode EXCEPT ![i] = new]
                              /\ \A e \in Inodes, x \in EntryNames :
                                   d.entries[e][x] = IF e = i THEN Absent
                                                     ELSE IF <<e, x>> = place THEN i ELSE disk.entries[e][x]
<1>1. place # Nowhere /\ At(place) = Absent /\ place \in Inodes \X EntryNames
  BY DEF Made, Places
<1>2. PICK i \in Spare : d = [Put(place, i) EXCEPT !.inode[i] = new, !.entries[i] = Empty]
  <2>1. Spare # {} => (CHOOSE i \in Spare : TRUE) \in Spare
    OBVIOUS
  <2>. QED
    BY <2>1 DEF Made
<1>3. i \in Inodes /\ i # Root /\ i # Absent /\ i \in DirEntries /\ ~InUse(disk, i)
  BY HopsNat DEF Spare, Linked, DirEntries, InUse
<1> DEFINE p == Put(place, i)
<1>4. /\ DiskOK(p) /\ p.inode = disk.inode
      /\ \A e \in Inodes, x \in EntryNames :
           p.entries[e][x] = IF <<e, x>> = place THEN i ELSE disk.entries[e][x]
  BY <1>1, <1>3, PutIs
<1>5. d = [p EXCEPT !.inode[i] = new, !.entries[i] = Empty]
  BY <1>2
<1> HIDE DEF p
<1>6. p = [inode |-> p.inode, entries |-> p.entries]
  BY <1>4 DEF DiskOK
<1>7. d.inode = [p.inode EXCEPT ![i] = new] /\ d.entries = [p.entries EXCEPT ![i] = Empty]
      /\ d = [inode |-> d.inode, entries |-> d.entries]
  BY <1>5, <1>6
<1>8. d.inode \in [Inodes -> InodeStates] /\ d.entries \in [Inodes -> [EntryNames -> DirEntries]]
  BY <1>4, <1>7, PlainOK DEF DiskOK
<1>9. \A j \in Inodes : d.inode[j].kind = "link" => d.inode[j].to \in EntryNames
  BY <1>4, <1>7 DEF DiskOK
<1>10. d.inode[Root].kind = "dir"
  BY <1>3, <1>4, <1>7, HopsNat DEF DiskOK
<1>11. DiskOK(d)
  BY <1>7, <1>8, <1>9, <1>10 DEF DiskOK
<1>12. ASSUME NEW e \in Inodes, NEW x \in EntryNames
       PROVE  d.entries[e][x] = IF e = i THEN Absent ELSE IF <<e, x>> = place THEN i ELSE disk.entries[e][x]
  BY <1>3, <1>4, <1>7, PlainOK DEF DiskOK
<1>13. d.inode = [disk.inode EXCEPT ![i] = new]
  BY <1>4, <1>7
<1>. QED
  BY <1>1, <1>3, <1>11, <1>12, <1>13

LEMMA WithoutIs ==
  ASSUME DiskTyped, NEW place \in Inodes \X EntryNames, NEW cleared
  PROVE  /\ DiskOK(Without(place, cleared)) /\ Without(place, cleared).inode = disk.inode
         /\ \A e \in Inodes, x \in EntryNames :
              Without(place, cleared).entries[e][x] = IF e \in cleared \/ <<e, x>> = place THEN Absent
                                                   ELSE disk.entries[e][x]
<1> DEFINE p == Put(place, Absent)
           entries == [e \in Inodes |-> IF e \in cleared THEN Empty ELSE p.entries[e]]
<1>1. Without(place, cleared) = [inode |-> disk.inode, entries |-> entries]
  BY DEF Without, DiskTyped, DiskOK
<1>2. /\ DiskOK(p)
      /\ \A e \in Inodes, x \in EntryNames :
           p.entries[e][x] = IF <<e, x>> = place THEN Absent ELSE disk.entries[e][x]
  BY PutIs, PlainOK
<1> HIDE DEF p
<1>3. entries \in [Inodes -> [EntryNames -> DirEntries]]
  BY <1>2, PlainOK DEF DiskOK
<1>4. ASSUME NEW e \in Inodes, NEW x \in EntryNames
      PROVE  entries[e][x] = IF e \in cleared \/ <<e, x>> = place THEN Absent ELSE disk.entries[e][x]
  BY <1>2, PlainOK
<1> HIDE DEF entries
<1>. QED
  BY <1>1, <1>3, <1>4 DEF DiskTyped, DiskOK

\* What removes a place, writes, makes or moves leaves a disk.
LEMMA WrittenIs ==
  ASSUME DiskTyped, NEW p \in Paths, NEW n \in Nat, NEW d \in Written(p, n)
  PROVE  /\ DiskOK(d)
         /\ \/ /\ Metadata(p) \in Inodes /\ Kind(Metadata(p)) = "file" /\ d.entries = disk.entries
               /\ \A i \in Inodes : d.inode[i] = IF i = Metadata(p) THEN [disk.inode[i] EXCEPT !.length = n]
                                                ELSE disk.inode[i]
            \/ d \in Made(There(p), [Plain EXCEPT !.length = n])
<1> DEFINE i == Metadata(p)
<1>1. CASE Kind(i) = "file"
  <2>1. i \in Inodes
    BY <1>1, HereFacts, PlaceFacts DEF DirEntries
  <2>2. d = [disk EXCEPT !.inode[i].length = n]
    BY <1>1 DEF Written, Metadata
  <2> HIDE DEF i
  <2>3. disk = [inode |-> disk.inode, entries |-> disk.entries]
    BY DEF DiskTyped, DiskOK
  <2>4. d = [inode |-> [disk.inode EXCEPT ![i] = [disk.inode[i] EXCEPT !.length = n]], entries |-> disk.entries]
    BY <2>2, <2>3
  <2>5. disk.inode[i] \in InodeStates /\ disk.inode \in [Inodes -> InodeStates]
    BY <2>1 DEF DiskTyped, DiskOK
  <2> DEFINE new == [disk.inode[i] EXCEPT !.length = n]
  <2>6. new \in InodeStates /\ new.kind = disk.inode[i].kind /\ new.to = disk.inode[i].to
    BY <2>5 DEF InodeStates
  <2>7. d.inode = [disk.inode EXCEPT ![i] = new] /\ d.entries = disk.entries
    BY <2>4
  <2> HIDE DEF new
  <2>8. d \in [inode : [Inodes -> InodeStates], entries : [Inodes -> [EntryNames -> DirEntries]]]
    BY <2>4, <2>5, <2>6 DEF DiskTyped, DiskOK, new
  <2>9. \A j \in Inodes : d.inode[j].kind = disk.inode[j].kind /\ d.inode[j].to = disk.inode[j].to
    BY <2>5, <2>6, <2>7
  <2>10. DiskOK(d)
    BY <2>8, <2>9, HopsNat DEF DiskTyped, DiskOK
  <2>11. \A j \in Inodes : d.inode[j] = IF j = i THEN new ELSE disk.inode[j]
    BY <2>5, <2>7
  <2>. QED
    BY <1>1, <2>1, <2>7, <2>10, <2>11 DEF i, new
<1>2. CASE Kind(i) # "file"
  <2> DEFINE new == [Plain EXCEPT !.length = n]
  <2>1. d \in Made(There(p), new)
    BY <1>2 DEF Written, Metadata
  <2>2. new \in InodeStates /\ new.kind = "file"
    BY DEF Plain, InodeStates, Kinds
  <2>3. There(p) \in Places
    BY HereFacts, PlaceFacts
  <2>4. DiskOK(d)
    <3> HIDE DEF new
    <3>. QED
      BY <2>1, <2>2, <2>3, MadeIs
  <2>. QED
    BY <2>1, <2>4
<1>. QED
  BY <1>1, <1>2

LEMMA RemovedOK ==
  ASSUME DiskTyped, NEW p \in Paths, NEW d \in Unlinked(p) \cup DirRemoved(p) \cup TreeRemoved(p)
  PROVE  /\ Here(p) \in Inodes \X EntryNames /\ SymlinkMetadata(p) # Absent /\ DiskOK(d)
         /\ \E cleared : d = Without(Here(p), cleared)
<1>1. /\ Kind(SymlinkMetadata(p)) \in Kinds
      /\ \E cleared : d = Without(Here(p), cleared)
  BY DEF Unlinked, DirRemoved, TreeRemoved, Kinds
<1>2. SymlinkMetadata(p) # Absent
  BY <1>1, PlaceFacts DEF Kinds
<1>3. Here(p) \in Places /\ Here(p) # Nowhere
  BY <1>2, HereFacts, PlaceFacts DEF SymlinkMetadata
<1>4. Here(p) \in Inodes \X EntryNames
  BY <1>3 DEF Places
<1>. QED
  BY <1>1, <1>2, <1>4, WithoutIs

LEMMA RenamedIs ==
  ASSUME DiskTyped, NEW p \in Paths, NEW q \in Paths, NEW d \in Renamed(p, q)
  PROVE  /\ DiskOK(d) /\ SymlinkMetadata(p) \in Inodes \ {Root} /\ Here(q) \in Inodes \X EntryNames
         /\ Here(p) \in Inodes \X EntryNames
         /\ \/ SymlinkMetadata(p) = SymlinkMetadata(q) /\ d = disk
            \/ /\ Here(q)[1] \notin Below(SymlinkMetadata(p)) /\ Here(p) # Here(q) /\ d.inode = disk.inode
               /\ \A e \in Inodes, x \in EntryNames :
                    d.entries[e][x] = IF <<e, x>> = Here(p) THEN Absent
                                      ELSE IF <<e, x>> = Here(q) THEN SymlinkMetadata(p) ELSE disk.entries[e][x]
<1> DEFINE i == SymlinkMetadata(p)
           j == SymlinkMetadata(q)
<1>1. i # Absent /\ Here(q) # Nowhere
  BY DEF Renamed, SymlinkMetadata
<1>2. i \in DirEntries /\ Here(p) \in Places /\ Here(q) \in Places
  BY HereFacts, PlaceFacts
<1>3. i \in Inodes \ {Root}
  BY <1>1, <1>2 DEF DirEntries
<1>4. Here(p) # Nowhere
  BY <1>1, PlaceFacts DEF SymlinkMetadata
<1>5. Here(p) \in Inodes \X EntryNames /\ Here(q) \in Inodes \X EntryNames
  BY <1>1, <1>2, <1>4 DEF Places
<1>6. CASE i = j
  BY <1>1, <1>3, <1>5, <1>6 DEF Renamed, SymlinkMetadata, DiskTyped
<1>7. CASE i # j
  <2> DEFINE m == Put(Here(q), i)
  <2>1. Here(q)[1] \notin Below(i) /\ d = [m EXCEPT !.entries[Here(p)[1]][Here(p)[2]] = Absent]
    BY <1>1, <1>7 DEF Renamed, SymlinkMetadata
  <2>2. Here(p) # Here(q)
    BY <1>7 DEF SymlinkMetadata
  <2>3. /\ DiskOK(m) /\ m.inode = disk.inode
        /\ \A e \in Inodes, x \in EntryNames :
             m.entries[e][x] = IF <<e, x>> = Here(q) THEN i ELSE disk.entries[e][x]
    BY <1>2, <1>5, PutIs
  <2>4. d = Placed(m, Here(p), Absent)
    BY <2>1 DEF Placed
  <2> HIDE DEF m, i
  <2>5. /\ DiskOK(d) /\ d.inode = m.inode
        /\ \A e \in Inodes, x \in EntryNames :
             d.entries[e][x] = IF <<e, x>> = Here(p) THEN Absent ELSE m.entries[e][x]
    BY <1>5, <2>3, <2>4, PlainOK, PlacedIs
  <2>. QED
    BY <1>3, <1>5, <2>1, <2>2, <2>3, <2>5 DEF i
<1>. QED
  BY <1>6, <1>7

LEMMA NewOK ==
  /\ [Plain EXCEPT !.kind = "dir"] \in InodeStates /\ [Plain EXCEPT !.kind = "dir"].kind = "dir"
  /\ \A x \in EntryNames : LET new == [Plain EXCEPT !.kind = "link", !.to = x] IN
       new \in InodeStates /\ new.kind = "link" /\ new.to = x
  /\ \A n \in Nat : LET new == [Plain EXCEPT !.length = n] IN
       new \in InodeStates /\ new.kind = "file" /\ new.length = n
  BY DEF Plain, InodeStates, Kinds

LEMMA MadeOK ==
  ASSUME DiskTyped, NEW p \in Paths, NEW d,
         \/ d \in DirMade(p)
         \/ \E x \in EntryNames : d \in SymlinkMade(x, p)
         \/ \E q \in Paths : d \in HardLinked(q, p)
         \/ \E flags \in OpenFlags : d \in Openable(p, flags)
  PROVE  DiskOK(d)
<1>1. Here(p) \in Places /\ There(p) \in Places
  BY HereFacts, PlaceFacts
<1>2. ASSUME NEW place \in Places, d \in Made(place, Plain)
      PROVE  DiskOK(d)
  BY <1>2, PlainOK, MadeIs
<1>3. CASE d \in DirMade(p)
  <2> DEFINE new == [Plain EXCEPT !.kind = "dir"]
  <2>1. d \in Made(Here(p), new)
    BY <1>3 DEF DirMade
  <2>2. new \in InodeStates /\ new.kind # "link"
    BY NewOK
  <2> HIDE DEF new
  <2>. QED
    BY <1>1, <2>1, <2>2, MadeIs
<1>4. ASSUME NEW x \in EntryNames, d \in SymlinkMade(x, p)
      PROVE  DiskOK(d)
  <2> DEFINE new == [Plain EXCEPT !.kind = "link", !.to = x]
  <2>1. d \in Made(Here(p), new)
    BY <1>4 DEF SymlinkMade
  <2>2. new \in InodeStates /\ new.to \in EntryNames
    BY NewOK
  <2> HIDE DEF new
  <2>. QED
    BY <1>1, <2>1, <2>2, MadeIs
<1>5. ASSUME NEW q \in Paths, d \in HardLinked(q, p)
      PROVE  DiskOK(d)
  <2>1. /\ Kind(SymlinkMetadata(q)) \in {"file", "link"} /\ Here(p) # Nowhere
        /\ d = Put(Here(p), SymlinkMetadata(q))
    BY <1>5 DEF HardLinked
  <2>2. SymlinkMetadata(q) \in DirEntries /\ Here(p) \in Inodes \X EntryNames
    BY <1>1, <2>1, HereFacts DEF Places
  <2>. QED
    BY <2>1, <2>2, PutIs
<1>6. ASSUME NEW flags \in OpenFlags, d \in Openable(p, flags)
      PROVE  DiskOK(d)
  <2>1. \/ d \in Made(Here(p), Plain) \/ d \in Made(There(p), Plain)
        \/ d \in Written(p, 0) \/ d = disk
    BY <1>6 DEF Openable
  <2>. QED
    BY <1>1, <1>2, <2>1, WrittenIs DEF DiskTyped
<1>. QED
  BY <1>3, <1>4, <1>5, <1>6

\* The lengths that a command writes.
LEMMA LengthsOK ==
  DiskTyped => /\ \A n \in Lengths : n \in Nat
               /\ \A i \in Inodes : disk.inode[i].length \in Nat
  BY FilesAssumption DEF Lengths, DiskTyped, DiskOK, InodeStates

\* A call of a command leaves a disk.
LEMMA CallsTyped ==
  ASSUME DiskTyped, NEW disks, \A d \in disks : DiskOK(d), NEW a, Calls(disks, a)
  PROVE  DiskTyped'
<1>1. CASE UNCHANGED disk
  BY <1>1 DEF DiskTyped
<1>2. CASE \E d \in disks : disk' = Tidied(d, Held(handles))
  BY <1>2, TidiedIs
<1>. QED
  BY <1>1, <1>2 DEF Calls

LEMMA RequestTyped ==
  ASSUME DiskTyped, NEW disks, \A d \in disks : DiskOK(d), Request(disks)
  PROVE  DiskTyped'
<1>1. PICK d \in disks : disk' = Tidied(d, Held(handles'))
  BY DEF Request
<1>. QED
  BY <1>1, TidiedIs

LEMMA ShellTyped ==
  ASSUME DiskTyped, NEW p \in Paths, ShellNext(p)
  PROVE  DiskTyped'
<1>0. DiskOK(disk)
  BY DEF DiskTyped
<1>1. ASSUME UNCHANGED disk
      PROVE  DiskTyped'
  BY <1>1 DEF DiskTyped
<1>2. ASSUME NEW recursive, NEW force, CmdRmLooks(p, recursive, force)
      PROVE  DiskTyped'
  <2>1. CASE UNCHANGED disk
    BY <1>1, <2>1
  <2>2. CASE Calls({disk}, NoLook)
    <3> DEFINE disks == {disk}
    <3>1. \A d \in disks : DiskOK(d)
      BY <1>0
    <3> HIDE DEF disks
    <3>. QED
      BY <2>2, <3>1, CallsTyped DEF disks
  <2>. QED
    BY <1>2, <2>1, <2>2 DEF CmdRmLooks, Looks
<1>3. CASE CmdRmActs(p)
  <2>1. PICK disks : /\ disks \subseteq TreeRemoved(p) \cup Unlinked(p)
                     /\ Calls(disks, Asked("rm", p))
    BY <1>3 DEF CmdRmActs
  <2>. QED
    BY <2>1, RemovedOK, CallsTyped
<1>4. CASE CmdMkdir(p)
  <2>1. Calls(DirMade(p), Asked("mkdir", p))
    BY <1>4 DEF CmdMkdir
  <2>2. \A d \in DirMade(p) : DiskOK(d)
    BY MadeOK
  <2>. QED
    BY <2>1, <2>2, CallsTyped
<1>5. CASE CmdMkdirParent(p)
  <2>1. disk' \in DirMade(<<p[1]>>)
    BY <1>5 DEF CmdMkdirParent
  <2>2. p[1] \in EntryNames
    BY HereFacts
  <2>3. <<p[1]>> \in Paths
    BY <2>2 DEF Paths
  <2>. QED
    BY <2>1, <2>3, MadeOK DEF DiskTyped
<1>6. CASE CmdMkdirP(p)
  <2> DEFINE disks == IF Kind(Metadata(p)) = "dir" THEN {disk} ELSE DirMade(p)
  <2>1. Calls(disks, Asked("mkdir", p))
    BY <1>6 DEF CmdMkdirP
  <2>2. \A d \in disks : DiskOK(d)
    BY <1>0, MadeOK
  <2> HIDE DEF disks
  <2>. QED
    BY <2>1, <2>2, CallsTyped
<1>7. CASE CmdTouchLooks(p)
  BY <1>1, <1>7 DEF CmdTouchLooks, Looks
<1>8. CASE CmdTouchActs(p)
  <2> DEFINE disks == IF ~looked.there THEN Written(p, 0)
                      ELSE IF Kind(Metadata(p)) = "file" THEN {disk} ELSE {}
  <2>1. Calls(disks, Asked("touch", p))
    BY <1>8 DEF CmdTouchActs
  <2>2. \A d \in disks : DiskOK(d)
    BY <1>0, WrittenIs
  <2> HIDE DEF disks
  <2>. QED
    BY <2>1, <2>2, CallsTyped
<1>9. ASSUME NEW q \in Paths, CmdCp(q, p)
      PROVE  DiskTyped'
  <2> DEFINE i == Metadata(q)
             n == IF i = Metadata(p) THEN 0 ELSE disk.inode[i].length
             disks == IF Kind(i) = "file" THEN Written(p, n) ELSE {}
             a == [cmd |-> "write", path |-> p, length |-> n]
  <2>1. Calls(disks, a)
    BY <1>9 DEF CmdCp
  <2>2. Kind(i) = "file" => n \in Nat
    <3>1. Kind(i) = "file" => i \in Inodes
      BY HereFacts, PlaceFacts DEF DirEntries
    <3>. QED
      BY <3>1, LengthsOK
  <2>3. \A d \in disks : DiskOK(d)
    <3> HIDE DEF i, n
    <3>. QED
      BY <2>2, WrittenIs
  <2> HIDE DEF disks, a
  <2>. QED
    BY <2>1, <2>3, CallsTyped
<1>10. ASSUME NEW q \in Paths, CmdMv(q, p)
       PROVE  DiskTyped'
  <2> DEFINE a == [cmd |-> "mv", inode |-> SymlinkMetadata(q), place |-> Here(p)]
  <2>1. Calls(Renamed(q, p), a)
    BY <1>10 DEF CmdMv
  <2>2. \A d \in Renamed(q, p) : DiskOK(d)
    BY RenamedIs
  <2> HIDE DEF a
  <2>. QED
    BY <2>1, <2>2, CallsTyped
<1>11. ASSUME NEW q \in Paths, NEW symbolic, CmdLn(q, p, symbolic)
       PROVE  DiskTyped'
  <2> DEFINE disks == IF symbolic THEN (IF Len(q) = 1 THEN SymlinkMade(q[1], p) ELSE {}) ELSE HardLinked(q, p)
  <2>1. Calls(disks, NoLook)
    BY <1>11 DEF CmdLn
  <2>2. \A d \in disks : d \in SymlinkMade(q[1], p) \/ d \in HardLinked(q, p)
    OBVIOUS
  <2>3. q[1] \in EntryNames
    BY HereFacts
  <2> HIDE DEF disks
  <2>4. \A d \in disks : DiskOK(d)
    BY <2>2, <2>3, MadeOK
  <2>. QED
    BY <2>1, <2>4, CallsTyped
<1>12. ASSUME NEW n \in Lengths, NEW append, CmdWrite(p, n, append)
       PROVE  DiskTyped'
  <2> DEFINE disks == IF append THEN Appended(p, n) ELSE Written(p, n)
             a == [cmd |-> "write", path |-> p, length |-> n]
             m == IF Kind(Metadata(p)) = "file" THEN disk.inode[Metadata(p)].length + n ELSE n
  <2>1. Calls(disks, a)
    BY <1>12 DEF CmdWrite
  <2>2. Kind(Metadata(p)) = "file" => Metadata(p) \in Inodes
    BY HereFacts, PlaceFacts DEF DirEntries
  <2>3. n \in Nat /\ m \in Nat
    BY <2>2, LengthsOK
  <2>4. Appended(p, n) = Written(p, m)
    BY DEF Appended
  <2> HIDE DEF m
  <2>5. \A d \in disks : DiskOK(d)
    BY <2>3, <2>4, WrittenIs
  <2> HIDE DEF disks, a
  <2>. QED
    BY <2>1, <2>5, CallsTyped
<1>. QED
  BY <1>2, <1>3, <1>4, <1>5, <1>6, <1>7, <1>8, <1>9, <1>10, <1>11, <1>12 DEF ShellNext

LEMMA SftpTyped ==
  ASSUME DiskTyped, SftpNext
  PROVE  DiskTyped'
<1>0. DiskOK(disk)
  BY DEF DiskTyped
<1>1. ASSUME NEW disks, Request(disks), \A d \in disks : DiskOK(d)
      PROVE  DiskTyped'
  BY <1>1, RequestTyped
<1>2. ASSUME Request({disk})
      PROVE  DiskTyped'
  <2> DEFINE disks == {disk}
  <2>1. Request(disks) /\ \A d \in disks : DiskOK(d)
    BY <1>0, <1>2
  <2> HIDE DEF disks
  <2>. QED
    BY <1>1, <2>1
<1>3. ASSUME NEW p \in Paths, NEW flags \in OpenFlags, SftpOpen(p, flags)
      PROVE  DiskTyped'
  <2>1. PICK d \in Openable(p, flags) : Request({d})
    BY <1>3 DEF SftpOpen
  <2>2. DiskOK(d)
    BY MadeOK
  <2> DEFINE disks == {d}
  <2>3. Request(disks) /\ \A e \in disks : DiskOK(e)
    BY <2>1, <2>2
  <2> HIDE DEF disks
  <2>. QED
    BY <1>1, <2>3
<1>4. ASSUME NEW p \in Paths, NEW q \in Paths, SftpRename(q, p)
      PROVE  DiskTyped'
  BY <1>1, <1>4, RenamedIs DEF SftpRename
<1>5. ASSUME NEW p \in Paths, NEW x \in EntryNames, SftpSymlink(x, p)
      PROVE  DiskTyped'
  BY <1>1, <1>5, MadeOK DEF SftpSymlink
<1>6. ASSUME NEW p \in Paths, SftpRemove(p) \/ SftpRmdir(p)
      PROVE  DiskTyped'
  BY <1>1, <1>6, RemovedOK DEF SftpRemove, SftpRmdir
<1>7. ASSUME NEW p \in Paths, SftpMkdir(p)
      PROVE  DiskTyped'
  BY <1>1, <1>7, MadeOK DEF SftpMkdir
<1>8. ASSUME NEW p \in Paths, SftpOpendir(p)
      PROVE  DiskTyped'
  BY <1>2, <1>8 DEF SftpOpendir
<1>9. ASSUME NEW h \in DOMAIN handles, SftpClose(h) \/ SftpReaddir(h)
      PROVE  DiskTyped'
  BY <1>2, <1>9 DEF SftpClose, SftpReaddir
<1>10. ASSUME NEW h \in DOMAIN handles, NEW offset \in Lengths, SftpWrite(h, offset)
       PROVE  DiskTyped'
  <2> DEFINE i == handles[h].inode
             len == disk.inode[i].length
             upto == IF handles[h].writes = "end" THEN len + 1 ELSE IF offset < len THEN len ELSE offset + 1
             d == [disk EXCEPT !.inode[i].length = upto]
  <2>1. Request({d})
    BY <1>10 DEF SftpWrite
  <2>2. i \in Inodes => upto \in Nat
    <3>1. offset \in Nat
      BY LengthsOK
    <3>2. i \in Inodes => len \in Nat
      BY LengthsOK
    <3> HIDE DEF len
    <3>. QED
      BY <3>1, <3>2
  <2>3. DiskOK(d)
    <3> HIDE DEF upto, i
    <3> DEFINE inode == [disk.inode EXCEPT ![i].length = upto]
    <3>0. disk = [inode |-> disk.inode, entries |-> disk.entries]
      BY <1>0 DEF DiskOK
    <3>1. d = [inode |-> inode, entries |-> disk.entries]
      BY <3>0
    <3>2. disk.inode \in [Inodes -> InodeStates]
      BY <1>0 DEF DiskOK
    <3>3. inode \in [Inodes -> InodeStates]
      BY <2>2, <3>2 DEF InodeStates
    <3>4. \A j \in Inodes : inode[j].kind = disk.inode[j].kind /\ inode[j].to = disk.inode[j].to
      BY <3>2 DEF InodeStates
    <3> HIDE DEF inode, d
    <3>. QED
      BY <1>0, <3>1, <3>3, <3>4, HopsNat DEF DiskOK
  <2> DEFINE disks == {d}
  <2>4. Request(disks) /\ \A e \in disks : DiskOK(e)
    BY <2>1, <2>3
  <2> HIDE DEF disks
  <2>. QED
    BY <1>1, <2>4
<1>. QED
  BY <1>3, <1>4, <1>5, <1>6, <1>7, <1>8, <1>9, <1>10 DEF SftpNext

LEMMA StepTyped == DiskTyped /\ [FilesNext]_FilesVars => DiskTyped'
  BY ShellTyped, SftpTyped DEF FilesNext, FilesVars, DiskTyped

LEMMA InitTyped == FilesInit => DiskTyped
<1> SUFFICES ASSUME FilesInit
             PROVE  DiskTyped
  OBVIOUS
<1> DEFINE inode == [i \in Inodes |-> IF i = Root THEN [Plain EXCEPT !.kind = "dir"] ELSE Plain]
           entries == [i \in Inodes |-> Empty]
<1>1. disk = [inode |-> inode, entries |-> entries]
  BY DEF FilesInit
<1>2. inode \in [Inodes -> InodeStates] /\ entries \in [Inodes -> [EntryNames -> DirEntries]]
  BY NewOK, PlainOK
<1>3. inode[Root].kind = "dir" /\ \A i \in Inodes : inode[i].kind # "link"
  BY NewOK, PlainOK, HopsNat
<1> HIDE DEF inode, entries
<1>. QED
  BY <1>1, <1>2, <1>3 DEF DiskTyped, DiskOK

-----------------------------------------------------------------------------
\* Something new at a place leaves all else as it was.
LEMMA MadeKeeps ==
  ASSUME DiskTyped, NEW place \in Anchored, Kind(place[1]) = "dir",
         NEW new \in InodeStates, new.kind # "link", NEW d \in Made(place, new), NEW K, disk' = Tidied(d, K)
  PROVE  /\ DiskTyped' /\ \A q \in Anchored : Kept(q)
         /\ At(place)' \in Inodes /\ disk'.inode[At(place)'] = new
<1>0. place \in Places
  BY PlaceFacts
<1>1. /\ place \in Inodes \X EntryNames /\ At(place) = Absent /\ DiskOK(d)
  BY <1>0, MadeIs
<1>2. PICK i \in Inodes :
        /\ ~InUse(disk, i) /\ i # Absent /\ d.inode = [disk.inode EXCEPT ![i] = new]
        /\ \A e \in Inodes, x \in EntryNames :
             d.entries[e][x] = IF e = i THEN Absent ELSE IF <<e, x>> = place THEN i ELSE disk.entries[e][x]
  BY <1>0, MadeIs
<1>3. /\ DiskTyped' /\ disk'.entries = d.entries
      /\ \A j \in Inodes : InUse(d, j) => disk'.inode[j] = d.inode[j]
  BY <1>1, TidiedIs
<1>4. d.inode[i] = new /\ \A j \in Inodes \ {i} : d.inode[j] = disk.inode[j]
  BY <1>2 DEF DiskTyped, DiskOK
<1>5. /\ \A j \in Inodes : Kind(j)' = disk'.inode[j].kind /\ Kind(j) = disk.inode[j].kind
      /\ \A e \in Inodes, x \in EntryNames :
           /\ At(<<e, x>>) = IF Kind(e) = "dir" THEN disk.entries[e][x] ELSE Absent
           /\ At(<<e, x>>)' = IF Kind(e)' = "dir" THEN disk'.entries[e][x] ELSE Absent
      /\ Kind(Absent)' = "none" /\ ~IsLink(Nowhere)' /\ At(Nowhere) = Absent
  BY <1>3, PlaceFacts, PlaceFactsNext
<1>6. ASSUME NEW e \in Inodes, NEW x \in EntryNames, <<e, x>> \in Anchored
      PROVE  /\ e # i /\ Kind(e)' = Kind(e)
             /\ disk'.entries[e][x] = IF <<e, x>> = place THEN i ELSE disk.entries[e][x]
  <2>1. InUse(disk, e) /\ InUse(d, e)
    <3>1. CASE e = Root
      BY <3>1 DEF InUse
    <3>2. CASE e # Root
      <4>1. <<e, x>> # Nowhere
        BY HopsNat DEF Nowhere
      <4>2. PICK r \in RootPlaces : At(r) = e
        BY <1>6, <3>2, <4>1 DEF Anchored
      <4>3. PICK y \in EntryNames : r = <<Root, y>>
        BY DEF RootPlaces
      <4>4. disk.entries[Root][y] = e /\ Root \in Inodes /\ Kind(Root) = "dir" /\ e # Absent
        BY <1>5, <4>2, <4>3, PlaceFacts, HopsNat
      <4>5. Root # i /\ <<Root, y>> # place
        BY <1>1, <1>2, <4>2, <4>3, <4>4 DEF InUse
      <4>6. d.entries[Root][y] = e
        BY <1>2, <4>4, <4>5
      <4>. QED
        BY <4>4, <4>6 DEF InUse
    <3>. QED
      BY <3>1, <3>2
  <2>2. e # i
    BY <1>2, <2>1
  <2>. QED
    BY <1>2, <1>3, <1>4, <1>5, <2>1, <2>2
<1>7. PICK b \in Inodes, y \in EntryNames : place = <<b, y>>
  BY <1>1
<1>8. d.entries[b][y] = i /\ Kind(b)' = "dir" /\ disk'.entries[b][y] = i
  BY <1>2, <1>3, <1>6, <1>7
<1>9. At(place)' = i /\ disk'.inode[i] = new
  <2>1. InUse(d, i)
    BY <1>8 DEF InUse
  <2>2. At(place)' = i
    BY <1>5, <1>7, <1>8
  <2>. QED
    BY <1>3, <1>4, <2>1, <2>2
<1>10. ASSUME NEW q \in Anchored
       PROVE  Kept(q)
  <2>1. CASE q = Nowhere
    BY <1>5, <2>1 DEF Kept
  <2>2. CASE q = place
    <3>1. (Kind(At(place)))' # "link"
      BY <1>5, <1>9
    <3>. QED
      BY <1>1, <2>2, <3>1 DEF Kept, IsLink
  <2>3. CASE q # place /\ q # Nowhere
    <3>1. PICK e \in Inodes, x \in EntryNames : q = <<e, x>>
      BY <2>3 DEF Anchored
    <3>2. At(q)' = At(q)
      BY <1>5, <1>6, <2>3, <3>1
    <3>3. CASE At(q) = Absent
      BY <1>5, <3>2, <3>3 DEF Kept, IsLink
    <3>4. CASE At(q) # Absent
      <4> DEFINE f == At(q)
      <4>1. f \in Inodes /\ disk.entries[e][x] = f
        BY <1>5, <3>1, <3>4, PlaceFacts DEF DirEntries
      <4>2. f # i /\ d.entries[e][x] = f
        BY <1>2, <1>3, <1>6, <2>3, <3>1, <4>1 DEF InUse
      <4> HIDE DEF f
      <4>3. InUse(d, f)
        BY <4>2 DEF InUse
      <4>4. disk'.inode[f] = disk.inode[f]
        BY <1>3, <1>4, <4>1, <4>2, <4>3
      <4>. QED
        BY <3>2, <3>4, <4>4 DEF Kept, f
    <3>. QED
      BY <3>3, <3>4
  <2>. QED
    BY <2>1, <2>2, <2>3
<1>. QED
  BY <1>3, <1>9, <1>10

\* As does a new length.
LEMMA SameKeeps ==
  ASSUME DiskTyped, NEW d, DiskOK(d), d.entries = disk.entries,
         \A i \in Inodes : d.inode[i].kind = disk.inode[i].kind /\ d.inode[i].to = disk.inode[i].to,
         NEW K, disk' = Tidied(d, K)
  PROVE  /\ DiskTyped'
         /\ \A q \in Anchored : Kept(q) /\ (At(q) # Absent => disk'.inode[At(q)] = d.inode[At(q)])
<1>1. /\ DiskTyped' /\ disk'.entries = d.entries
      /\ \A j \in Inodes : InUse(d, j) => disk'.inode[j] = d.inode[j]
  BY TidiedIs
<1>2. /\ \A j \in Inodes : Kind(j)' = disk'.inode[j].kind /\ Kind(j) = disk.inode[j].kind
      /\ \A e \in Inodes, x \in EntryNames :
           /\ At(<<e, x>>) = IF Kind(e) = "dir" THEN disk.entries[e][x] ELSE Absent
           /\ At(<<e, x>>)' = IF Kind(e)' = "dir" THEN disk'.entries[e][x] ELSE Absent
      /\ Kind(Absent)' = "none" /\ ~IsLink(Nowhere)' /\ At(Nowhere) = Absent
  BY <1>1, PlaceFacts, PlaceFactsNext
<1>3. ASSUME NEW e \in Inodes, NEW x \in EntryNames, <<e, x>> \in Anchored
      PROVE  Kind(e)' = Kind(e)
  <2>1. InUse(d, e)
    <3>1. CASE e = Root
      BY <3>1 DEF InUse
    <3>2. CASE e # Root
      <4>1. <<e, x>> # Nowhere
        BY HopsNat DEF Nowhere
      <4>2. PICK r \in RootPlaces : At(r) = e
        BY <1>3, <3>2, <4>1 DEF Anchored
      <4>3. PICK y \in EntryNames : r = <<Root, y>>
        BY DEF RootPlaces
      <4>4. disk.entries[Root][y] = e /\ Root \in Inodes
        BY <1>2, <4>2, <4>3, PlaceFacts, HopsNat
      <4>. QED
        BY <4>4 DEF InUse
    <3>. QED
      BY <3>1, <3>2
  <2>. QED
    BY <1>1, <1>2, <2>1
<1>4. ASSUME NEW q \in Anchored
      PROVE  Kept(q) /\ (At(q) # Absent => disk'.inode[At(q)] = d.inode[At(q)])
  <2>1. CASE q = Nowhere
    BY <1>2, <2>1 DEF Kept
  <2>2. CASE q # Nowhere
    <3>1. PICK e \in Inodes, x \in EntryNames : q = <<e, x>>
      BY <2>2 DEF Anchored
    <3>2. At(q)' = At(q)
      BY <1>1, <1>2, <1>3, <3>1
    <3>3. CASE At(q) = Absent
      BY <1>2, <3>2, <3>3 DEF Kept, IsLink
    <3>4. CASE At(q) # Absent
      <4> DEFINE f == At(q)
      <4>1. f \in Inodes /\ disk.entries[e][x] = f
        BY <1>2, <3>1, <3>4, PlaceFacts DEF DirEntries
      <4> HIDE DEF f
      <4>2. InUse(d, f)
        BY <4>1 DEF InUse
      <4>3. disk'.inode[f] = d.inode[f]
        BY <1>1, <4>1, <4>2
      <4>. QED
        BY <3>2, <3>4, <4>1, <4>3 DEF Kept, f
    <3>. QED
      BY <3>3, <3>4
  <2>. QED
    BY <2>1, <2>2
<1>. QED
  BY <1>1, <1>4

-----------------------------------------------------------------------------
(* What each command says, of the disk it leaves.                          *)

\* A file that was written is there, as long as it was made.
LEMMA WriteTrue ==
  ASSUME DiskTyped, NEW p \in Paths, NEW n \in Nat, NEW d \in Written(p, n), NEW K, disk' = Tidied(d, K)
  PROVE  Metadata(p)' # Absent /\ Length(Metadata(p))' = n
<1>0. PICK t : t = There(p)
  OBVIOUS
<1>1. DiskOK(d) /\ RootPlaces \subseteq Anchored /\ t \in Anchored /\ Here(p) \in Anchored
  BY <1>0, WrittenIs, HereFacts, PlaceFacts
<1>2. ASSUME DiskTyped', \A q \in Anchored : Kept(q), t # Nowhere
      PROVE  Metadata(p)' = At(t)'
  <2>0. PICK here : here = Here(p)
    OBVIOUS
  <2>1. There(p)' = There(p)
    BY <1>0, <1>1, <1>2, <2>0, Unmoved, HereFacts
  <2>. QED
    BY <1>0, <2>1 DEF Metadata
<1>3. ASSUME DiskTyped', NEW i \in Inodes, Metadata(p)' = i, disk'.inode[i].kind = "file", disk'.inode[i].length = n
      PROVE  Metadata(p)' # Absent /\ Length(Metadata(p))' = n
  <2>1. Kind(i)' = "file"
    BY <1>3, PlaceFactsNext
  <2>2. Kind(Metadata(p))' = "file" /\ disk'.inode[Metadata(p)'].length = n
    BY <1>3, <2>1
  <2>. QED
    BY <1>3, <2>2, HopsNat DEF Length
<1>4. CASE /\ Metadata(p) \in Inodes /\ Kind(Metadata(p)) = "file" /\ d.entries = disk.entries
           /\ \A i \in Inodes : d.inode[i] = IF i = Metadata(p) THEN [disk.inode[i] EXCEPT !.length = n]
                                             ELSE disk.inode[i]
  <2> DEFINE i == Metadata(p)
  <2>1. disk.inode[i] \in InodeStates /\ disk.inode[i].kind = "file" /\ d.inode[i] = [disk.inode[i] EXCEPT !.length = n]
    BY <1>4, PlaceFacts DEF DiskTyped, DiskOK
  <2>2. d.inode[i].kind = "file" /\ d.inode[i].length = n /\ d.inode[i].to = disk.inode[i].to
    BY <2>1 DEF InodeStates
  <2>3. \A j \in Inodes : d.inode[j].kind = disk.inode[j].kind /\ d.inode[j].to = disk.inode[j].to
    BY <1>4, <2>1, <2>2
  <2>4. /\ DiskTyped'
        /\ \A q \in Anchored : Kept(q) /\ (At(q) # Absent => disk'.inode[At(q)] = d.inode[At(q)])
    BY <1>1, <1>4, <2>3, SameKeeps
  <2>5. i = At(t) /\ i # Absent /\ t # Nowhere
    BY <1>0, <1>4, HopsNat, PlaceFacts DEF Metadata
  <2>6. Metadata(p)' = i /\ disk'.inode[i] = d.inode[i]
    BY <1>1, <1>2, <2>4, <2>5 DEF Kept
  <2>. QED
    BY <1>3, <1>4, <2>2, <2>4, <2>6
<1>5. CASE d \in Made(There(p), [Plain EXCEPT !.length = n])
  <2> DEFINE new == [Plain EXCEPT !.length = n]
  <2>1. new \in InodeStates /\ new.kind = "file" /\ new.length = n
    BY NewOK
  <2>2. t # Nowhere
    BY <1>0, <1>5 DEF Made
  <2>3. Kind(t[1]) = "dir" /\ d \in Made(t, new)
    BY <1>0, <1>5, <2>2, HereFacts
  <2> HIDE DEF new
  <2>4. /\ DiskTyped' /\ \A q \in Anchored : Kept(q)
        /\ At(t)' \in Inodes /\ disk'.inode[At(t)'] = new
    BY <1>1, <2>1, <2>3, MadeKeeps
  <2>5. Metadata(p)' = At(t)'
    BY <1>2, <2>2, <2>4
  <2>. QED
    BY <1>3, <2>1, <2>4, <2>5
<1>. QED
  BY <1>4, <1>5, WrittenIs

\* A directory that was made is there.
LEMMA MkdirTrue ==
  ASSUME DiskTyped, NEW p \in Paths, NEW d \in DirMade(p), NEW K, disk' = Tidied(d, K)
  PROVE  Kind(Metadata(p))' = "dir"
<1> DEFINE new == [Plain EXCEPT !.kind = "dir"]
<1>0. PICK here : here = Here(p)
  OBVIOUS
<1>1. new \in InodeStates /\ new.kind = "dir" /\ d \in Made(here, new)
  BY <1>0, NewOK DEF DirMade
<1> HIDE DEF new
<1>2. here # Nowhere /\ At(here) = Absent
  BY <1>1 DEF Made
<1>3. here \in Anchored /\ Kind(here[1]) = "dir" /\ There(p) = here
  BY <1>0, <1>2, HereFacts, PlaceFacts DEF IsLink
<1>4. /\ DiskTyped' /\ \A q \in Anchored : Kept(q)
      /\ At(here)' \in Inodes /\ disk'.inode[At(here)'] = new
  BY <1>1, <1>3, MadeKeeps
<1>5. There(p)' = here
  BY <1>0, <1>2, <1>3, <1>4, Unmoved, PlaceFacts
<1>6. Metadata(p)' = At(here)'
  BY <1>5 DEF Metadata
<1>7. PICK i \in Inodes : i = At(here)' /\ disk'.inode[i] = new
  BY <1>4
<1>8. Kind(i)' = "dir"
  BY <1>1, <1>4, <1>7, PlaceFactsNext
<1>. QED
  BY <1>6, <1>7, <1>8

\* What is left alone is what it was.
LEMMA SameTrue ==
  ASSUME DiskTyped, NEW p \in Paths, NEW K, disk' = Tidied(disk, K), Metadata(p) # Absent
  PROVE  Metadata(p)' # Absent /\ Kind(Metadata(p))' = Kind(Metadata(p))
<1>0. PICK here, t : here = Here(p) /\ t = There(p)
  OBVIOUS
<1>1. /\ DiskTyped'
      /\ \A q \in Anchored : Kept(q)
  BY SameKeeps DEF DiskTyped
<1>2. t # Nowhere /\ here # Nowhere /\ t \in Anchored /\ here \in Anchored /\ t \in Places
  BY <1>0, HereFacts, PlaceFacts DEF Metadata
<1>3. There(p)' = t
  BY <1>0, <1>1, <1>2, Unmoved, PlaceFacts
<1>4. Metadata(p)' = At(t)' /\ Metadata(p) = At(t)
  BY <1>0, <1>3 DEF Metadata
<1>5. At(t)' = At(t) /\ Kind(At(t))' = Kind(At(t))
  BY <1>1, <1>2, <1>4, KeptHop DEF Kept
<1>. QED
  BY <1>4, <1>5

\* A directory is below itself.
LEMMA BelowSelf ==
  ASSUME DiskTyped, NEW i \in Inodes
  PROVE  i \in Below(i)
<1> DEFINE S == SUBSET (Inodes \cup {Absent})
           More(T) == T \cup {disk.entries[d][x] : d \in {d \in T : Kind(d) = "dir"}, x \in EntryNames}
           step == [T \in S |-> More(T)]
           IsBelow(f) == f = [k \in 0..Hops |-> IF k = 0 THEN {i} ELSE More(f[k - 1])]
<1>1. step \in [S -> S]
  <2> SUFFICES ASSUME NEW T \in S
               PROVE  More(T) \in S
    OBVIOUS
  <2>1. ASSUME NEW d \in T, Kind(d) = "dir", NEW x \in EntryNames
        PROVE  disk.entries[d][x] \in Inodes \cup {Absent}
    <3>1. d \in Inodes
      BY <2>1, PlaceFacts
    <3>. QED
      BY <3>1 DEF DiskTyped, DiskOK, DirEntries
  <2>. QED
    BY <2>1
<1>2. PICK g : Iteration(g, Hops, {i}, step) /\ \A k \in 0..Hops : g[k] \in S
  <2>1. {i} \in S
    OBVIOUS
  <2> HIDE DEF step, S
  <2>. QED
    BY <1>1, <2>1, HopsNat, Iterates
<1>3. IsBelow(g)
  <2>1. ASSUME NEW k \in 0..Hops, k # 0
        PROVE  step[g[k - 1]] = More(g[k - 1])
    <3>1. k - 1 \in 0..Hops
      BY <2>1, HopsNat
    <3>2. g[k - 1] \in S
      BY <1>2, <3>1
    <3> HIDE DEF More, S
    <3>. QED
      BY <3>2
  <2> HIDE DEF step, More
  <2>2. [k \in 0..Hops |-> IF k = 0 THEN {i} ELSE step[g[k - 1]]]
          = [k \in 0..Hops |-> IF k = 0 THEN {i} ELSE More(g[k - 1])]
    BY <2>1
  <2>. QED
    BY <1>2, <2>2 DEF Iteration
<1> DEFINE f == CHOOSE f : IsBelow(f)
<1>4. IsBelow(f)
  <2> HIDE DEF IsBelow
  <2>. QED
    BY <1>3
<1>5. Below(i) = f[Hops] \ {Absent}
  BY DEF Below, Hops
<1> HIDE DEF f
<1>6. \A k \in 0..Hops : i \in f[k]
  <2> DEFINE bad == {k \in 0..Hops : i \notin f[k]}
  <2> SUFFICES ASSUME bad # {}
               PROVE  FALSE
    OBVIOUS
  <2>0. bad \subseteq Nat
    BY HopsNat
  <2>1. PICK k \in bad : \A j \in bad : k <= j
    <3> HIDE DEF bad
    <3>. QED
      BY <2>0, LeastOf
  <2>2. k \in 0..Hops /\ k # 0
    BY <1>4
  <2>3. k - 1 \in 0..Hops
    BY <2>2, HopsNat
  <2>4. k - 1 \notin bad
    <3> HIDE DEF bad
    <3>1. k - 1 \in bad => k <= k - 1
      BY <2>1
    <3>. QED
      BY <2>2, <3>1
  <2>5. f[k] = More(f[k - 1])
    <3> HIDE DEF More
    <3>. QED
      BY <1>4, <2>2
  <2>. QED
    BY <2>3, <2>4, <2>5
<1>. QED
  BY <1>5, <1>6, HopsNat

\* What was removed is gone.
LEMMA RemovedTrue ==
  ASSUME DiskTyped, NEW p \in Paths, NEW d \in Unlinked(p) \cup TreeRemoved(p), NEW K, disk' = Tidied(d, K)
  PROVE  SymlinkMetadata(p)' = Absent
<1>1. PICK cleared : d = Without(Here(p), cleared)
  BY RemovedOK
<1>2. Here(p) \in Inodes \X EntryNames /\ SymlinkMetadata(p) # Absent /\ DiskOK(d)
  BY RemovedOK
<1>3. PICK b \in Inodes, y \in EntryNames : Here(p) = <<b, y>>
  BY <1>2
<1>4. Here(p) # Nowhere /\ Kind(b) = "dir" /\ b = ParentOf(p) /\ y = p[Len(p)]
  <2>1. Here(p) # Nowhere
    BY <1>3, HopsNat DEF Nowhere
  <2>2. Kind(ParentOf(p)) = "dir" /\ Here(p) = <<ParentOf(p), p[Len(p)]>>
    BY <2>1, HereFacts
  <2> DEFINE u == ParentOf(p)
             v == p[Len(p)]
  <2>3. <<u, v>> = <<b, y>> /\ Kind(u) = "dir"
    BY <1>3, <2>2
  <2> HIDE DEF u, v
  <2>4. u = b /\ v = y
    BY <2>3
  <2>. QED
    BY <2>1, <2>3, <2>4 DEF u, v
<1>5. /\ d.inode = disk.inode
      /\ \A e \in Inodes, x \in EntryNames :
           d.entries[e][x] = IF e \in cleared \/ <<e, x>> = <<b, y>> THEN Absent ELSE disk.entries[e][x]
  BY <1>1, <1>2, <1>3, WithoutIs
<1>6. /\ DiskTyped' /\ disk'.entries = d.entries
      /\ \A i \in Inodes : InUse(d, i) => disk'.inode[i] = d.inode[i]
  BY <1>2, TidiedIs
<1>7. /\ \A i \in Inodes : Kind(i)' = disk'.inode[i].kind /\ Kind(i) = disk.inode[i].kind
      /\ \A e \in Inodes, x \in EntryNames :
           /\ At(<<e, x>>) = IF Kind(e) = "dir" THEN disk.entries[e][x] ELSE Absent
           /\ At(<<e, x>>)' = IF Kind(e)' = "dir" THEN disk'.entries[e][x] ELSE Absent
      /\ Kind(Absent)' = "none" /\ At(Nowhere)' = Absent /\ Kind(Root)' = "dir" /\ Root \in Inodes /\ Kind(Root) = "dir"
  BY <1>6, PlaceFacts, PlaceFactsNext, HopsNat
<1>8. At(<<b, y>>)' = Absent
  BY <1>5, <1>6, <1>7
<1>9. ASSUME Here(p)' = <<b, y>>
      PROVE  SymlinkMetadata(p)' = Absent
  BY <1>8, <1>9 DEF SymlinkMetadata
<1>10. CASE Len(p) = 1
  <2>1. ParentOf(p)' = Root /\ b = Root
    BY <1>4, <1>10 DEF ParentOf
  <2>2. Here(p)' = <<b, y>>
    BY <1>4, <1>7, <2>1 DEF Here
  <2>. QED
    BY <1>9, <2>2
<1>11. CASE Len(p) = 2 /\ Root \in cleared
  <2>1. PICK r : r = <<Root, p[1]>>
    OBVIOUS
  <2>2. At(r)' = Absent
    BY <1>5, <1>6, <1>7, <1>11, <2>1, HereFacts
  <2>3. ~IsLink(r)'
    BY <1>7, <2>2 DEF IsLink
  <2>4. Led(r)' = r
    BY <2>3 DEF Led
  <2>5. ParentOf(p)' = Absent
    BY <1>11, <2>1, <2>2, <2>4 DEF ParentOf
  <2>6. Here(p)' = Nowhere
    BY <1>7, <2>5 DEF Here
  <2>. QED
    BY <1>7, <2>6 DEF SymlinkMetadata
<1>12. CASE Len(p) = 2 /\ Root \notin cleared
  <2>1. b # Root
    BY <1>4, <1>12, HereFacts
  <2>2. ASSUME NEW q \in RootPlaces
        PROVE  Kept(q)
    <3>1. PICK x \in EntryNames : q = <<Root, x>>
      BY DEF RootPlaces
    <3>2. At(q)' = disk.entries[Root][x] /\ At(q) = disk.entries[Root][x] /\ d.entries[Root][x] = disk.entries[Root][x]
      BY <1>5, <1>6, <1>7, <1>12, <2>1, <3>1
    <3>3. CASE At(q) = Absent
      BY <1>7, <3>2, <3>3 DEF Kept, IsLink
    <3>4. CASE At(q) # Absent
      <4>1. PICK f \in Inodes : f = At(q)
        BY <3>4, PlaceFacts, <1>7 DEF DirEntries
      <4>2. InUse(d, f)
        BY <1>7, <3>2, <4>1 DEF InUse
      <4>3. disk'.inode[f] = disk.inode[f]
        BY <1>5, <1>6, <4>2
      <4>. QED
        BY <3>2, <3>4, <4>1, <4>3 DEF Kept
    <3>. QED
      BY <3>3, <3>4
  <2>3. Here(p)' = <<b, y>>
    BY <1>3, <1>4, <1>6, <2>2, Unmoved
  <2>. QED
    BY <1>9, <2>3
<1>. QED
  BY <1>10, <1>11, <1>12, HereFacts

\* What was moved is at its new place.
LEMMA RenamedTrue ==
  ASSUME DiskTyped, NEW p \in Paths, NEW q \in Paths, NEW d \in Renamed(p, q), NEW K, disk' = Tidied(d, K),
         NEW i, i = SymlinkMetadata(p), NEW to, to = Here(q)
  PROVE  At(to)' = i
<1>1. /\ DiskOK(d) /\ i \in Inodes \ {Root} /\ to \in Inodes \X EntryNames
      /\ Here(p) \in Inodes \X EntryNames
  BY RenamedIs
<1>2. PICK b \in Inodes, y \in EntryNames : to = <<b, y>>
  BY <1>1
<1>3. to # Nowhere /\ to \in Anchored
  <2>1. Here(q) \in Anchored
    BY HereFacts
  <2>2. to # Nowhere
    <3>1. Absent # b
      BY HopsNat
    <3>. QED
      BY <1>2, <3>1 DEF Nowhere
  <2>. QED
    BY <2>1, <2>2
<1>4. b = ParentOf(q) /\ Kind(b) = "dir"
  <2>1. Kind(ParentOf(q)) = "dir" /\ to = <<ParentOf(q), q[Len(q)]>>
    BY <1>3, HereFacts
  <2> DEFINE u == ParentOf(q)
             v == q[Len(q)]
  <2>2. <<u, v>> = <<b, y>> /\ Kind(u) = "dir"
    BY <1>2, <2>1
  <2> HIDE DEF u, v
  <2>3. u = b
    BY <2>2
  <2>. QED
    BY <2>2, <2>3 DEF u
<1>5. /\ DiskTyped' /\ disk'.entries = d.entries
      /\ \A j \in Inodes : InUse(d, j) => disk'.inode[j] = d.inode[j]
  BY <1>1, TidiedIs
<1>6. /\ \A j \in Inodes : Kind(j)' = disk'.inode[j].kind /\ Kind(j) = disk.inode[j].kind
      /\ \A e \in Inodes, x \in EntryNames :
           /\ At(<<e, x>>) = IF Kind(e) = "dir" THEN disk.entries[e][x] ELSE Absent
           /\ At(<<e, x>>)' = IF Kind(e)' = "dir" THEN disk'.entries[e][x] ELSE Absent
  BY <1>5, PlaceFacts, PlaceFactsNext
<1>7. CASE SymlinkMetadata(p) = SymlinkMetadata(q) /\ d = disk
  <2>1. At(to) = i /\ i # Absent
    BY <1>1, <1>7, HopsNat DEF SymlinkMetadata
  <2>2. Kept(to)
    <3>1. \A r \in Anchored : Kept(r)
      <4>1. DiskOK(disk) /\ disk' = Tidied(disk, K)
        BY <1>7 DEF DiskTyped
      <4>. QED
        BY <4>1, SameKeeps
    <3>. QED
      BY <1>3, <3>1
  <2>. QED
    BY <2>1, <2>2 DEF Kept
<1>8. CASE /\ b \notin Below(i) /\ Here(p) # to /\ d.inode = disk.inode
           /\ \A e \in Inodes, x \in EntryNames :
                d.entries[e][x] = IF <<e, x>> = Here(p) THEN Absent
                                  ELSE IF <<e, x>> = to THEN i ELSE disk.entries[e][x]
  <2>1. d.entries[b][y] = i
    BY <1>2, <1>8
  <2>2. b # i
    BY <1>1, <1>8, BelowSelf
  <2>3. InUse(d, b)
    <3>1. CASE b = Root
      BY <3>1 DEF InUse
    <3>2. CASE b # Root
      <4>1. PICK r \in RootPlaces : At(r) = b
        BY <1>2, <1>3, <3>2 DEF Anchored
      <4>2. PICK x \in EntryNames : r = <<Root, x>>
        BY DEF RootPlaces
      <4>3. disk.entries[Root][x] = b /\ Root \in Inodes
        BY <1>6, <4>1, <4>2, HopsNat, PlaceFacts
      <4>4. r # Here(p)
        BY <1>1, <2>2, <4>1 DEF SymlinkMetadata
      <4>5. r # to
        BY <1>2, <3>2, <4>2
      <4>6. d.entries[Root][x] = b
        BY <1>8, <4>2, <4>3, <4>4, <4>5
      <4>. QED
        BY <4>3, <4>6 DEF InUse
    <3>. QED
      BY <3>1, <3>2
  <2>4. Kind(b)' = "dir"
    BY <1>4, <1>5, <1>6, <1>8, <2>3
  <2>. QED
    BY <1>2, <1>5, <1>6, <2>1, <2>4
<1>9. to[1] = b
  BY <1>2
<1>. QED
  BY <1>7, <1>8, <1>9, RenamedIs

\* A call that worked left one of its disks, and said so.
LEMMA CallsAnswer ==
  ASSUME NEW disks, NEW a, Calls(disks, a)
  PROVE  \/ answer' = NoLook
         \/ answer' = a /\ \E d \in disks : disk' = Tidied(d, Held(handles))
  BY DEF Calls

\* Of no answer nothing is asked.
LEMMA NoAnswer ==
  ASSUME answer' = NoLook
  PROVE  AnswerTrue'
<1>1. answer'.cmd = "none"
  BY DEF NoLook
<1>. QED
  BY <1>1 DEF AnswerTrue

LEMMA ShellAnswers ==
  ASSUME DiskTyped, NEW p \in Paths, ShellNext(p)
  PROVE  AnswerTrue'
<1> DEFINE K == Held(handles)
<1>1. ASSUME NEW recursive, NEW force, CmdRmLooks(p, recursive, force)
      PROVE  AnswerTrue'
  <2>1. answer' = NoLook
    BY <1>1, CallsAnswer DEF CmdRmLooks, Looks
  <2>. QED
    BY <2>1, NoAnswer
<1>2. CASE CmdRmActs(p)
  <2>1. PICK disks : /\ disks \subseteq TreeRemoved(p) \cup Unlinked(p)
                     /\ Calls(disks, Asked("rm", p))
    BY <1>2 DEF CmdRmActs
  <2>2. CASE answer' = NoLook
    BY <2>2, NoAnswer
  <2>3. CASE answer' = Asked("rm", p) /\ \E d \in disks : disk' = Tidied(d, K)
    <3>1. SymlinkMetadata(p)' = Absent
      BY <2>1, <2>3, RemovedTrue
    <3>2. answer'.cmd = "rm" /\ answer'.path = p
      BY <2>3 DEF Asked
    <3>. QED
      BY <3>1, <3>2 DEF AnswerTrue
  <2>. QED
    BY <2>1, <2>2, <2>3, CallsAnswer
<1>3. ASSUME answer' = Asked("mkdir", p), Kind(Metadata(p))' = "dir"
      PROVE  AnswerTrue'
  <2>1. answer'.cmd = "mkdir" /\ answer'.path = p
    BY <1>3 DEF Asked
  <2>. QED
    BY <1>3, <2>1 DEF AnswerTrue
<1>4. CASE CmdMkdir(p)
  <2>1. Calls(DirMade(p), Asked("mkdir", p))
    BY <1>4 DEF CmdMkdir
  <2>. QED
    BY <1>3, <2>1, CallsAnswer, NoAnswer, MkdirTrue
<1>5. CASE CmdMkdirParent(p)
  BY <1>5, NoAnswer DEF CmdMkdirParent
<1>6. CASE CmdMkdirP(p)
  <2> DEFINE disks == IF Kind(Metadata(p)) = "dir" THEN {disk} ELSE DirMade(p)
  <2>1. Calls(disks, Asked("mkdir", p))
    BY <1>6 DEF CmdMkdirP
  <2>2. ASSUME NEW d \in disks, disk' = Tidied(d, K)
        PROVE  Kind(Metadata(p))' = "dir"
    <3>1. CASE Kind(Metadata(p)) = "dir"
      <4>1. d = disk /\ Metadata(p) # Absent
        BY <3>1, PlaceFacts
      <4>. QED
        BY <2>2, <3>1, <4>1, SameTrue
    <3>2. CASE Kind(Metadata(p)) # "dir"
      BY <2>2, <3>2, MkdirTrue
    <3>. QED
      BY <3>1, <3>2
  <2> HIDE DEF disks
  <2>. QED
    BY <1>3, <2>1, <2>2, CallsAnswer, NoAnswer
<1>7. CASE CmdTouchLooks(p)
  BY <1>7, NoAnswer DEF CmdTouchLooks, Looks
<1>8. CASE CmdTouchActs(p)
  <2> DEFINE disks == IF ~looked.there THEN Written(p, 0)
                      ELSE IF Kind(Metadata(p)) = "file" THEN {disk} ELSE {}
  <2>1. Calls(disks, Asked("touch", p))
    BY <1>8 DEF CmdTouchActs
  <2>2. ASSUME NEW d \in disks, disk' = Tidied(d, K)
        PROVE  Metadata(p)' # Absent
    <3>1. CASE d \in Written(p, 0)
      BY <2>2, <3>1, WriteTrue
    <3>2. CASE d = disk /\ Kind(Metadata(p)) = "file"
      <4>1. Metadata(p) # Absent
        BY <3>2, PlaceFacts
      <4>. QED
        BY <2>2, <3>2, <4>1, SameTrue
    <3>. QED
      BY <2>2, <3>1, <3>2
  <2> HIDE DEF disks
  <2>3. CASE answer' = Asked("touch", p) /\ Metadata(p)' # Absent
    <3>1. answer'.cmd = "touch" /\ answer'.path = p
      BY <2>3 DEF Asked
    <3>. QED
      BY <2>3, <3>1 DEF AnswerTrue
  <2>. QED
    BY <2>1, <2>2, <2>3, CallsAnswer, NoAnswer
\* A file that was written with so much, or more.
<1>9. ASSUME NEW n \in Nat, NEW m \in Nat, m >= n, NEW disks, disks \subseteq Written(p, m),
             Calls(disks, [cmd |-> "write", path |-> p, length |-> n])
      PROVE  AnswerTrue'
  <2> DEFINE a == [cmd |-> "write", path |-> p, length |-> n]
  <2>1. CASE answer' = NoLook
    BY <2>1, NoAnswer
  <2>2. CASE answer' = a /\ \E d \in disks : disk' = Tidied(d, K)
    <3>1. Length(Metadata(p))' = m
      BY <1>9, <2>2, WriteTrue
    <3>2. answer'.cmd = "write" /\ answer'.path = p /\ answer'.length = n
      BY <2>2
    <3>3. Length(Metadata(p))' >= n
      BY <1>9, <3>1
    <3>4. Length(Metadata(answer.path))' >= answer'.length
      BY <3>2, <3>3
    <3>. QED
      BY <3>2, <3>4 DEF AnswerTrue
  <2> HIDE DEF a
  <2>3. Calls(disks, a)
    BY <1>9 DEF a
  <2>. QED
    BY <2>1, <2>2, <2>3, CallsAnswer
<1>10. ASSUME NEW q \in Paths, CmdCp(q, p)
       PROVE  AnswerTrue'
  <2> DEFINE i == Metadata(q)
             n == IF i = Metadata(p) THEN 0 ELSE disk.inode[i].length
             disks == IF Kind(i) = "file" THEN Written(p, n) ELSE {}
             a == [cmd |-> "write", path |-> p, length |-> n]
  <2>1. Calls(disks, a)
    BY <1>10 DEF CmdCp
  <2>2. CASE Kind(i) = "file"
    <3>1. i \in Inodes
      BY <2>2, HereFacts, PlaceFacts DEF DirEntries
    <3>2. n \in Nat /\ disks = Written(p, n)
      BY <2>2, <3>1, LengthsOK
    <3> HIDE DEF n, disks
    <3>3. n >= n
      BY <3>2
    <3>. QED
      BY <1>9, <2>1, <3>2, <3>3
  <2>3. CASE Kind(i) # "file"
    <3>1. disks = {}
      BY <2>3
    <3> HIDE DEF disks, a
    <3>2. answer' = NoLook
      BY <2>1, <3>1, CallsAnswer
    <3>. QED
      BY <3>2, NoAnswer
  <2>. QED
    BY <2>2, <2>3
<1>11. ASSUME NEW q \in Paths, CmdMv(q, p)
       PROVE  AnswerTrue'
  <2>0. PICK i, to : i = SymlinkMetadata(q) /\ to = Here(p)
    OBVIOUS
  <2> DEFINE a == [cmd |-> "mv", inode |-> i, place |-> to]
  <2>1. Calls(Renamed(q, p), a)
    BY <1>11, <2>0 DEF CmdMv
  <2>2. CASE answer' = NoLook
    BY <2>2, NoAnswer
  <2>3. CASE answer' = a /\ \E d \in Renamed(q, p) : disk' = Tidied(d, K)
    <3>1. At(to)' = i
      BY <2>0, <2>3, RenamedTrue
    <3>2. answer'.cmd = "mv" /\ answer'.inode = i /\ answer'.place = to
      BY <2>3
    <3>3. At(answer.place)' = answer'.inode
      BY <3>1, <3>2
    <3>. QED
      BY <3>2, <3>3 DEF AnswerTrue
  <2> HIDE DEF a
  <2>. QED
    BY <2>1, <2>2, <2>3, CallsAnswer
<1>12. ASSUME NEW q \in Paths, NEW symbolic, CmdLn(q, p, symbolic)
       PROVE  AnswerTrue'
  <2>1. PICK disks : Calls(disks, NoLook)
    BY <1>12 DEF CmdLn
  <2>2. answer' = NoLook
    BY <2>1, CallsAnswer
  <2>. QED
    BY <2>2, NoAnswer
<1>13. ASSUME NEW n \in Lengths, NEW append, CmdWrite(p, n, append)
       PROVE  AnswerTrue'
  <2> DEFINE disks == IF append THEN Appended(p, n) ELSE Written(p, n)
             a == [cmd |-> "write", path |-> p, length |-> n]
             m == IF append /\ Kind(Metadata(p)) = "file" THEN disk.inode[Metadata(p)].length + n ELSE n
  <2>1. Calls(disks, a)
    BY <1>13 DEF CmdWrite
  <2>2. Kind(Metadata(p)) = "file" => Metadata(p) \in Inodes
    BY HereFacts, PlaceFacts DEF DirEntries
  <2>3. n \in Nat /\ m \in Nat /\ m >= n
    BY <2>2, LengthsOK
  <2>4. disks = Written(p, m)
    BY DEF Appended
  <2> HIDE DEF disks, m
  <2>. QED
    BY <1>9, <2>1, <2>3, <2>4
<1>. QED
  BY <1>1, <1>2, <1>4, <1>5, <1>6, <1>7, <1>8, <1>10, <1>11, <1>12, <1>13 DEF ShellNext

\* A request of the session answers no command.
LEMMA SftpAnswers == SftpNext => answer' = NoLook
<1> SUFFICES ASSUME SftpNext
             PROVE  answer' = NoLook
  OBVIOUS
<1>1. \E disks : Request(disks)
  BY DEF SftpNext, SftpOpen, SftpRename, SftpSymlink, SftpOpendir, SftpRemove, SftpMkdir, SftpRmdir,
         SftpClose, SftpReaddir, SftpWrite
<1>. QED
  BY <1>1 DEF Request

\* On the same disk a path is where it was, and leads where it led.
LEMMA SameDisk ==
  ASSUME DiskTyped, disk' = disk, NEW p \in Paths
  PROVE  SymlinkMetadata(p)' = SymlinkMetadata(p) /\ Metadata(p)' = Metadata(p)
<1>0. DiskTyped'
  BY DEF DiskTyped
<1>1. \A i : Kind(i)' = Kind(i)
  BY DEF Kind
<1>2. \A q : At(q)' = At(q)
  <2>1. \A d, x : Entry(d, x)' = Entry(d, x)
    BY <1>1 DEF Entry
  <2>. QED
    BY <2>1 DEF At
<1>3. ASSUME NEW q \in Places
      PROVE  Kept(q)
  <2>1. PICK i : i = At(q)
    OBVIOUS
  <2>2. At(q)' = i /\ Kind(i)' = Kind(i) /\ (i = Absent => Kind(i) # "link")
    BY <1>1, <1>2, <2>1, PlaceFacts
  <2>3. IsLink(q)' <=> Kind(i)' = "link"
    BY <2>2 DEF IsLink
  <2>. QED
    BY <2>1, <2>2, <2>3 DEF Kept
<1>4. \A q \in Places : Led(q)' = Led(q)
  <2>1. RootPlaces \subseteq Places
    BY PlaceFacts
  <2>. QED
    BY <1>0, <1>3, <2>1, SameWalk
<1>5. ParentOf(p)' = ParentOf(p)
  <2>1. CASE Len(p) = 1
    BY <2>1 DEF ParentOf
  <2>2. CASE Len(p) # 1
    <3>1. PICK r, t : r = <<Root, p[1]>> /\ t = Led(r)
      OBVIOUS
    <3>2. r \in Places
      BY <3>1, HereFacts, PlaceFacts DEF RootPlaces
    <3>3. Led(r)' = t
      BY <1>4, <3>1, <3>2
    <3>. QED
      BY <1>2, <2>2, <3>1, <3>3 DEF ParentOf
  <2>. QED
    BY <2>1, <2>2
<1>6. PICK u, here, there : u = ParentOf(p) /\ here = Here(p) /\ there = There(p)
  OBVIOUS
<1>7. Here(p)' = here
  BY <1>1, <1>5, <1>6 DEF Here
<1>8. here \in Places /\ Led(here)' = there
  BY <1>4, <1>6, HereFacts, PlaceFacts DEF There
<1>9. There(p)' = there
  BY <1>7, <1>8 DEF There
<1>. QED
  BY <1>2, <1>6, <1>7, <1>9 DEF SymlinkMetadata, Metadata

\* The path that an answer is about is one.
AnswerTyped == answer.cmd \in {"rm", "mkdir", "touch", "write"} => answer.path \in Paths

LEMMA AnswerNamed ==
  ASSUME answer' = NoLook \/ (\E p \in Paths : \/ answer'.path = p \/ answer'.cmd = "mv")
  PROVE  AnswerTyped'
<1>1. CASE answer' = NoLook
  <2>1. answer'.cmd = "none"
    BY <1>1 DEF NoLook
  <2>. QED
    BY <2>1 DEF AnswerTyped
<1>. QED
  BY <1>1 DEF AnswerTyped

LEMMA ShellNames ==
  ASSUME NEW p \in Paths, ShellNext(p)
  PROVE  AnswerTyped'
<1> DEFINE Named(a) == a.path = p \/ a.cmd = "mv"
<1>1. ASSUME NEW disks, NEW a, Calls(disks, a), Named(a)
      PROVE  AnswerTyped'
  <2>1. answer' = NoLook \/ answer' = a
    BY <1>1, CallsAnswer
  <2>. QED
    BY <1>1, <2>1, AnswerNamed
<1>2. \A name : Named(Asked(name, p))
  BY DEF Asked
<1>3. \A n : Named([cmd |-> "write", path |-> p, length |-> n])
  OBVIOUS
<1>4. \A i, to : Named([cmd |-> "mv", inode |-> i, place |-> to])
  OBVIOUS
<1> HIDE DEF Named
<1>0. ASSUME NEW disks, Calls(disks, NoLook)
      PROVE  AnswerTyped'
  BY <1>0, AnswerNamed DEF Calls
<1>5. \A a : Looks(a) => AnswerTyped'
  BY AnswerNamed DEF Looks
<1>6. ASSUME NEW recursive, NEW force, CmdRmLooks(p, recursive, force)
      PROVE  AnswerTyped'
  BY <1>0, <1>5, <1>6 DEF CmdRmLooks
<1>7. CASE CmdRmActs(p) \/ CmdMkdir(p) \/ CmdMkdirP(p) \/ CmdTouchLooks(p) \/ CmdTouchActs(p)
  BY <1>1, <1>2, <1>5, <1>7 DEF CmdRmActs, CmdMkdir, CmdMkdirP, CmdTouchLooks, CmdTouchActs
<1>8. CASE CmdMkdirParent(p)
  BY <1>8, AnswerNamed DEF CmdMkdirParent
<1>9. ASSUME NEW q \in Paths, CmdCp(q, p)
      PROVE  AnswerTyped'
  BY <1>1, <1>3, <1>9 DEF CmdCp
<1>10. ASSUME NEW q \in Paths, CmdMv(q, p)
       PROVE  AnswerTyped'
  BY <1>1, <1>4, <1>10 DEF CmdMv
<1>11. ASSUME NEW q \in Paths, NEW symbolic, CmdLn(q, p, symbolic)
       PROVE  AnswerTyped'
  BY <1>0, <1>11 DEF CmdLn
<1>12. ASSUME NEW n \in Lengths, NEW append, CmdWrite(p, n, append)
       PROVE  AnswerTyped'
  BY <1>1, <1>3, <1>12 DEF CmdWrite
<1>. QED
  BY <1>6, <1>7, <1>8, <1>9, <1>10, <1>11, <1>12 DEF ShellNext

AnswerInv == DiskTyped /\ AnswerTyped /\ AnswerTrue

LEMMA StepAnswers == AnswerInv /\ [FilesNext]_FilesVars => AnswerInv'
<1> SUFFICES ASSUME DiskTyped, AnswerTyped, AnswerTrue, [FilesNext]_FilesVars
             PROVE  AnswerInv'
  BY DEF AnswerInv
<1>1. DiskTyped'
  BY StepTyped
<1>2. CASE SftpNext
  <2>1. answer' = NoLook
    BY <1>2, SftpAnswers
  <2>. QED
    BY <1>1, <2>1, NoAnswer, AnswerNamed DEF AnswerInv
<1>3. ASSUME NEW p \in Paths, ShellNext(p)
      PROVE  AnswerInv'
  BY <1>1, <1>3, ShellAnswers, ShellNames DEF AnswerInv
<1>4. CASE UNCHANGED FilesVars
  <2>1. disk' = disk /\ answer' = answer
    BY <1>4 DEF FilesVars
  <2>2. PICK a : a = answer
    OBVIOUS
  <2>3. AnswerTyped'
    BY <2>1 DEF AnswerTyped
  <2>4. \A i : Kind(i)' = Kind(i) /\ Length(i)' = Length(i)
    BY <2>1 DEF Kind, Length
  <2>5. \A q : At(q)' = At(q)
    <3>1. \A d, x : Entry(d, x)' = Entry(d, x)
      BY <2>1, <2>4 DEF Entry
    <3>. QED
      BY <3>1 DEF At
  <2>6. \A p \in Paths : SymlinkMetadata(p)' = SymlinkMetadata(p) /\ Metadata(p)' = Metadata(p)
    BY <2>1, SameDisk
  <2>7. AnswerTrue'
    <3>1. CASE a.cmd = "rm"
      BY <2>1, <2>2, <2>6, <3>1 DEF AnswerTrue, AnswerTyped
    <3>2. CASE a.cmd = "mv"
      BY <2>1, <2>2, <2>5, <3>2 DEF AnswerTrue
    <3>3. CASE a.cmd \in {"mkdir", "touch", "write"}
      <4>1. PICK p \in Paths : p = a.path
        BY <2>2, <3>3 DEF AnswerTyped
      <4>2. PICK m : m = Metadata(p)
        OBVIOUS
      <4>3. Metadata(p)' = m
        BY <2>6, <4>2
      <4>. QED
        BY <2>1, <2>2, <2>4, <3>3, <4>1, <4>2, <4>3 DEF AnswerTrue
    <3>4. CASE a.cmd \notin {"rm", "mv", "mkdir", "touch", "write"}
      BY <2>1, <2>2, <3>4 DEF AnswerTrue
    <3>. QED
      BY <3>1, <3>2, <3>3, <3>4
  <2>. QED
    BY <1>1, <2>3, <2>7 DEF AnswerInv
<1>. QED
  BY <1>2, <1>3, <1>4 DEF FilesNext

LEMMA InitAnswers == FilesInit => AnswerInv
<1> SUFFICES ASSUME FilesInit
             PROVE  AnswerInv
  OBVIOUS
<1>1. answer.cmd = "none"
  BY DEF FilesInit, NoLook
<1>. QED
  BY <1>1, InitTyped DEF AnswerInv, AnswerTrue, AnswerTyped

-----------------------------------------------------------------------------
\* The image of a finite set is finite.
LEMMA ImageFinite ==
  ASSUME NEW S, IsFiniteSet(S), NEW f, DOMAIN f = S
  PROVE  IsFiniteSet({f[x] : x \in S})
<1> DEFINE T == {f[x] : x \in S}
           g == [x \in S |-> f[x]]
<1>1. g \in [S -> T] /\ \A t \in T : \E s \in S : g[s] = t
  OBVIOUS
<1>2. g \in Surjection(S, T)
  BY <1>1 DEF Surjection
<1> HIDE DEF g, T
<1>3. IsFiniteSet(T)
  BY <1>2, FS_Surjection
<1>. QED
  BY <1>3 DEF T

\* Two sets apart add up to what both do.
LEMMA SumUnion ==
  ASSUME NEW w, NEW A, NEW B, IsFiniteSet(A), IsFiniteSet(B), A \cap B = {}, \A y \in A \cup B : w[y] \in Nat
  PROVE  SumOn(w, A \cup B) = SumOn(w, A) + SumOn(w, B)
<1> DEFINE F == {T \in SUBSET A : SumOn(w, T \cup B) # SumOn(w, T) + SumOn(w, B)}
<1> SUFFICES ASSUME F # {}
             PROVE  FALSE
  <2>1. A \in SUBSET A
    OBVIOUS
  <2>. QED
    BY <2>1
<1>0. \A T \in SUBSET A : IsFiniteSet(T) /\ IsFiniteSet(T \cup B)
  BY FS_Subset, FS_Union
<1>1. PICK T \in F : \A y \in T : T \ {y} \notin F
  BY <1>0, SmallestSet
<1>2. SumOn(w, B) \in Nat
  BY SumType
<1>3. CASE T = {}
  <2>1. SumOn(w, T) = 0
    BY <1>0, <1>3, SumIs
  <2>2. PICK C : C = T \cup B
    OBVIOUS
  <2>3. C = B
    BY <1>3, <2>2
  <2>4. SumOn(w, C) = SumOn(w, T) + SumOn(w, B)
    BY <1>2, <2>1, <2>3
  <2>5. T \in SUBSET A /\ SumOn(w, C) # SumOn(w, T) + SumOn(w, B)
    BY <1>1, <2>2
  <2>. QED
    BY <2>4, <2>5
<1>4. CASE T # {}
  <2>1. PICK z \in T : TRUE
    BY <1>4
  <2> DEFINE R == T \ {z}
  <2>2. R \in SUBSET A /\ (T \cup B) \ {z} = R \cup B /\ z \in T \cup B /\ \A y \in T \cup B : w[y] \in Nat
    OBVIOUS
  <2>3. SumOn(w, T \cup B) = w[z] + SumOn(w, R \cup B)
    BY <1>0, <2>2, SumWithout
  <2>4. SumOn(w, T) = w[z] + SumOn(w, R)
    BY <1>0, <2>2, SumWithout
  <2>5. SumOn(w, R \cup B) = SumOn(w, R) + SumOn(w, B)
    BY <1>1, <2>1, <2>2
  <2>6. SumOn(w, R) \in Nat /\ w[z] \in Nat
    BY <1>0, <2>2, SumType
  <2> HIDE DEF R
  <2>7. SumOn(w, T \cup B) = SumOn(w, T) + SumOn(w, B)
    BY <1>2, <2>3, <2>4, <2>5, <2>6
  <2>. QED
    BY <1>1, <2>7
<1>. QED
  BY <1>3, <1>4

\* Parts that are apart add up to what all of them do.
LEMMA SumParts ==
  ASSUME NEW w, NEW X, IsFiniteSet(X), NEW part, \A x \in X : IsFiniteSet(part[x]),
         \A x \in X, z \in X : x # z => part[x] \cap part[z] = {},
         \A x \in X : \A y \in part[x] : w[y] \in Nat,
         NEW v, \A x \in X : v[x] = SumOn(w, part[x])
  PROVE  SumOn(w, UNION {part[x] : x \in X}) = SumOn(v, X)
<1> DEFINE U(T) == UNION {part[x] : x \in T}
           F == {T \in SUBSET X : SumOn(w, U(T)) # SumOn(v, T)}
<1> SUFFICES ASSUME F # {}
             PROVE  FALSE
  <2>1. X \in SUBSET X
    OBVIOUS
  <2>. QED
    BY <2>1
<1>0. ASSUME NEW T \in SUBSET X
      PROVE  IsFiniteSet(T) /\ IsFiniteSet(U(T))
  <2>1. IsFiniteSet(T)
    BY FS_Subset
  <2> DEFINE f == [x \in T |-> part[x]]
             I == {f[x] : x \in T}
  <2>2. I = {part[x] : x \in T}
    OBVIOUS
  <2>3. IsFiniteSet(I) /\ \A s \in I : IsFiniteSet(s)
    <3>1. DOMAIN f = T
      OBVIOUS
    <3>2. \A s \in I : IsFiniteSet(s)
      OBVIOUS
    <3> HIDE DEF f
    <3>3. IsFiniteSet(I)
      BY <2>1, <3>1, ImageFinite
    <3>. QED
      BY <3>2, <3>3
  <2> HIDE DEF I
  <2>4. IsFiniteSet(UNION I)
    BY <2>3, FS_UNION
  <2>. QED
    BY <2>1, <2>2, <2>4
<1>1. PICK T \in F : \A y \in T : T \ {y} \notin F
  BY <1>0, SmallestSet
<1>2. \A x \in X : v[x] \in Nat
  BY SumType
<1>3. CASE T = {}
  <2>1. U(T) = {}
    BY <1>3
  <2>2. SumOn(w, U(T)) = 0
    BY <1>0, <2>1, SumIs
  <2>3. SumOn(v, T) = 0
    BY <1>0, <1>3, SumIs
  <2>. QED
    BY <1>1, <2>2, <2>3
<1>4. CASE T # {}
  <2>1. PICK z \in T : TRUE
    BY <1>4
  <2>2. PICK R : R = T \ {z}
    OBVIOUS
  <2>3. PICK A, B, C : A = part[z] /\ B = U(R) /\ C = U(T)
    OBVIOUS
  <2>4. R \in SUBSET X /\ z \in X
    BY <2>2
  <2>5. A \cap B = {} /\ C = A \cup B
    BY <2>2, <2>3
  <2>6. SumOn(w, B) = SumOn(v, R)
    BY <1>1, <2>2, <2>3, <2>4
  <2>7. IsFiniteSet(A) /\ IsFiniteSet(B) /\ \A y \in A \cup B : w[y] \in Nat
    BY <1>0, <2>3, <2>4
  <2>8. SumOn(w, C) = SumOn(w, A) + SumOn(w, B)
    BY <2>5, <2>7, SumUnion
  <2>9. SumOn(v, T) = v[z] + SumOn(v, R)
    BY <1>0, <1>2, <2>2, SumWithout
  <2>10. SumOn(w, C) = SumOn(v, T)
    BY <2>3, <2>4, <2>6, <2>8, <2>9
  <2>. QED
    BY <1>1, <2>3, <2>10
<1>. QED
  BY <1>3, <1>4

\* Names for names, the sum is the same.
LEMMA SumImage ==
  ASSUME NEW w, NEW S, IsFiniteSet(S), NEW f, DOMAIN f = S,
         \A x \in S, z \in S : f[x] = f[z] => x = z,
         \A x \in S : w[x] \in Nat /\ w[f[x]] = w[x]
  PROVE  SumOn(w, {f[x] : x \in S}) = SumOn(w, S)
<1> DEFINE part == [x \in S |-> {f[x]}]
<1>1. \A x \in S : IsFiniteSet(part[x])
  BY FS_Singleton
<1>2. \A x \in S, z \in S : x # z => part[x] \cap part[z] = {}
  OBVIOUS
<1>3. \A x \in S : \A y \in part[x] : w[y] \in Nat
  OBVIOUS
<1>4. ASSUME NEW x \in S
      PROVE  w[x] = SumOn(w, part[x])
  <2>1. part[x] = {f[x]} /\ part[x] \ {f[x]} = {} /\ \A y \in part[x] : w[y] \in Nat
    OBVIOUS
  <2>2. SumOn(w, part[x]) = w[f[x]] + SumOn(w, part[x] \ {f[x]})
    BY <1>1, <2>1, SumWithout
  <2>3. SumOn(w, part[x] \ {f[x]}) = 0
    BY <2>1, FS_EmptySet, SumIs
  <2>. QED
    BY <2>2, <2>3
<1>5. UNION {part[x] : x \in S} = {f[x] : x \in S}
  OBVIOUS
<1> HIDE DEF part
<1>6. SumOn(w, UNION {part[x] : x \in S}) = SumOn(w, S)
  BY <1>1, <1>2, <1>3, <1>4, SumParts
<1>. QED
  BY <1>5, <1>6

-----------------------------------------------------------------------------
\* The names that find gives, each with its inode; and the lengths of those.
FoundNames == (Seq(EntryNames) \ {<<>>}) \X Inodes
Weights == [q \in FoundNames |-> Length(q[2])]

\* What find and du are said with.
Finds(f) ==
  f = [k \in 0..Hops |-> [e \in Inodes |->
         IF k = 0 \/ Kind(e) # "dir" THEN {} ELSE FoundIn(f[k - 1], e)]]
Adds(f) ==
  f = [k \in 0..Hops |-> [e \in Inodes |-> IF k = 0 THEN 0 ELSE SizeOf(f[k - 1], e)]]

\* A name before a name.
LEMMA NameBefore ==
  ASSUME NEW x \in EntryNames, NEW s \in Seq(EntryNames)
  PROVE  /\ <<x>> \o s \in Seq(EntryNames) \ {<<>>} /\ (<<x>> \o s)[1] = x
         /\ s # <<>> => <<x>> \o s # <<x>>
         /\ \A t \in Seq(EntryNames) : <<x>> \o s = <<x>> \o t => s = t
<1>1. <<x>> \in Seq(EntryNames) /\ Len(<<x>>) = 1 /\ <<x>> # <<>> /\ <<x>>[1] = x
  OBVIOUS
<1>2. /\ <<x>> \o s \in Seq(EntryNames)
      /\ \A i \in 1..(Len(<<x>>) + Len(s)) :
           (<<x>> \o s)[i] = IF i <= Len(<<x>>) THEN <<x>>[i] ELSE s[i - Len(<<x>>)]
  BY <1>1, ConcatProperties
<1>3. Len(s) \in Nat
  BY LenProperties
<1>4. (<<x>> \o s)[1] = x
  <2>1. 1 \in 1..(Len(<<x>>) + Len(s)) /\ 1 <= Len(<<x>>)
    BY <1>1, <1>3
  <2>. QED
    BY <1>1, <1>2, <2>1
<1>5. <<x>> \o s # <<>> /\ (s # <<>> => <<x>> \o s # <<x>>)
  <2>1. PICK t : t = <<x>> /\ t \in Seq(EntryNames) /\ t # <<>>
    BY <1>1
  <2>2. t \o s = t => s = <<>>
    BY <2>1, ConcatSimplifications
  <2>3. t \o s = <<>> => t = <<>>
    BY <2>1, ConcatSimplifications
  <2>. QED
    BY <2>1, <2>2, <2>3
<1>6. \A t \in Seq(EntryNames) : <<x>> \o s = <<x>> \o t => s = t
  BY <1>1, ConcatSimplifications
<1>. QED
  BY <1>2, <1>4, <1>5, <1>6

LEMMA LengthNat == DiskTyped => \A i \in Inodes \cup {Absent} : Length(i) \in Nat
<1> SUFFICES ASSUME DiskTyped, NEW i \in Inodes \cup {Absent}
             PROVE  Length(i) \in Nat
  OBVIOUS
<1>1. CASE i = Absent
  BY <1>1, PlaceFacts DEF Length
<1>2. CASE i # Absent
  BY <1>2, LengthsOK DEF Length
<1>. QED
  BY <1>1, <1>2

\* The solutions that find and du are said with.
LEMMA FindsExist == DiskTyped => \E f : Finds(f)
<1> SUFFICES ASSUME DiskTyped
             PROVE  \E f : Finds(f)
  OBVIOUS
<1> DEFINE none == [e \in Inodes |-> {}]
           S == [Inodes -> SUBSET FoundNames]
           step == [g \in S |-> [e \in Inodes |-> IF Kind(e) # "dir" THEN {} ELSE FoundIn(g, e)]]
<1>1. none \in S
  OBVIOUS
<1>2. ASSUME NEW g \in S, NEW e \in Inodes
      PROVE  FoundIn(g, e) \in SUBSET FoundNames
  <2>1. ASSUME NEW x \in EntryNames
        PROVE  FoundUnder(g, e, x) \subseteq FoundNames
    <3>1. PICK i : i = disk.entries[e][x]
      OBVIOUS
    <3>2. i # Absent => i \in Inodes
      BY <3>1 DEF DiskTyped, DiskOK, DirEntries
    <3>3. CASE i = Absent
      BY <3>1, <3>3 DEF FoundUnder
    <3>4. CASE i # Absent
      <4>1. <<x>> \in Seq(EntryNames) \ {<<>>}
        OBVIOUS
      <4>2. <<<<x>>, i>> \in FoundNames
        BY <3>2, <3>4, <4>1 DEF FoundNames
      <4>3. ASSUME NEW q \in g[i]
            PROVE  <<<<x>> \o q[1], q[2]>> \in FoundNames
        <5>1. q \in FoundNames
          BY <3>2, <3>4
        <5>2. q[1] \in Seq(EntryNames) /\ q[2] \in Inodes
          BY <5>1 DEF FoundNames
        <5>. QED
          BY <5>2, NameBefore DEF FoundNames
      <4>. QED
        BY <3>1, <3>4, <4>2, <4>3 DEF FoundUnder
    <3>. QED
      BY <3>3, <3>4
  <2>. QED
    BY <2>1 DEF FoundIn
<1>3. step \in [S -> S]
  BY <1>2
<1>4. PICK f : Iteration(f, Hops, none, step) /\ \A k \in 0..Hops : f[k] \in S
  <2> HIDE DEF none, S, step
  <2>. QED
    BY <1>1, <1>3, HopsNat, Iterates
<1>5. ASSUME NEW k \in 0..Hops
      PROVE  (IF k = 0 THEN none ELSE step[f[k - 1]])
               = [e \in Inodes |-> IF k = 0 \/ Kind(e) # "dir" THEN {} ELSE FoundIn(f[k - 1], e)]
  <2>1. CASE k = 0
    BY <2>1
  <2>2. CASE k # 0
    <3>1. k - 1 \in 0..Hops
      BY <2>2, HopsNat
    <3>2. f[k - 1] \in S
      BY <1>4, <3>1
    <3> HIDE DEF S
    <3>. QED
      BY <2>2, <3>2
  <2>. QED
    BY <2>1, <2>2
<1>6. Finds(f)
  <2> HIDE DEF none, step
  <2>. QED
    BY <1>4, <1>5 DEF Iteration, Finds
<1>. QED
  BY <1>6

LEMMA AddsExist == DiskTyped => \E f : Adds(f)
<1> SUFFICES ASSUME DiskTyped
             PROVE  \E f : Adds(f)
  OBVIOUS
<1> DEFINE none == [e \in Inodes |-> 0]
           S == [Inodes -> Nat]
           step == [g \in S |-> [e \in Inodes |-> SizeOf(g, e)]]
<1>1. none \in S
  OBVIOUS
<1>2. ASSUME NEW g \in S, NEW e \in Inodes
      PROVE  SizeOf(g, e) \in Nat
  <2> DEFINE w == [x \in EntryNames |-> SizeUnder(g, e, x)]
  <2>1. ASSUME NEW x \in EntryNames
        PROVE  w[x] \in Nat
    <3>1. PICK i : i = disk.entries[e][x]
      OBVIOUS
    <3>2. i \in Inodes \cup {Absent}
      BY <3>1 DEF DiskTyped, DiskOK, DirEntries
    <3>3. CASE Kind(i) = "dir"
      <4>1. i \in Inodes
        BY <3>2, <3>3, PlaceFacts
      <4>. QED
        BY <3>1, <3>3, <4>1 DEF SizeUnder
    <3>4. CASE Kind(i) # "dir"
      BY <3>1, <3>2, <3>4, LengthNat DEF SizeUnder
    <3>. QED
      BY <3>3, <3>4
  <2>2. DOMAIN w = EntryNames /\ IsFiniteSet(EntryNames)
    BY FilesAssumption
  <2>3. SizeOf(g, e) = SumOn(w, EntryNames)
    BY <2>2 DEF SizeOf, SumFunction, SumOn
  <2> HIDE DEF w
  <2>. QED
    BY <2>1, <2>2, <2>3, SumType
<1>3. step \in [S -> S]
  BY <1>2
<1>4. PICK f : Iteration(f, Hops, none, step) /\ \A k \in 0..Hops : f[k] \in S
  <2> HIDE DEF none, S, step
  <2>. QED
    BY <1>1, <1>3, HopsNat, Iterates
<1>5. ASSUME NEW k \in 0..Hops
      PROVE  (IF k = 0 THEN none ELSE step[f[k - 1]])
               = [e \in Inodes |-> IF k = 0 THEN 0 ELSE SizeOf(f[k - 1], e)]
  <2>1. CASE k = 0
    BY <2>1
  <2>2. CASE k # 0
    <3>1. k - 1 \in 0..Hops
      BY <2>2, HopsNat
    <3>2. f[k - 1] \in S
      BY <1>4, <3>1
    <3> HIDE DEF S
    <3>. QED
      BY <2>2, <3>2
  <2>. QED
    BY <2>1, <2>2
<1>6. Adds(f)
  <2> HIDE DEF none, step
  <2>. QED
    BY <1>4, <1>5 DEF Iteration, Adds
<1>. QED
  BY <1>6

\* What find and du say of an inode: the last of such a solution.
LEMMA FoundBy ==
  DiskTyped /\ Hops <= FindLevels => \E f : Finds(f) /\ \A d \in Inodes : FindRecursive(d) = f[Hops][d]
<1> SUFFICES ASSUME DiskTyped, Hops <= FindLevels
             PROVE  \E f : Finds(f) /\ \A d \in Inodes : FindRecursive(d) = f[Hops][d]
  OBVIOUS
<1> DEFINE f == CHOOSE f : Finds(f)
<1>1. Finds(f)
  BY FindsExist
<1>2. ASSUME NEW d \in Inodes
      PROVE  FindRecursive(d) = f[Hops][d]
  BY HopsNat DEF FindRecursive, Hops, Finds, FoundIn, FoundUnder
<1>. QED
  BY <1>1, <1>2

LEMMA AddedBy ==
  DiskTyped => \E f : Adds(f) /\ \A d \in Inodes : DirSize(d) = IF Kind(d) = "dir" THEN f[Hops][d] ELSE 0
<1> SUFFICES ASSUME DiskTyped
             PROVE  \E f : Adds(f) /\ \A d \in Inodes : DirSize(d) = IF Kind(d) = "dir" THEN f[Hops][d] ELSE 0
  OBVIOUS
<1> DEFINE f == CHOOSE f : Adds(f)
<1>1. Adds(f)
  BY AddsExist
<1>2. ASSUME NEW d \in Inodes
      PROVE  DirSize(d) = IF Kind(d) = "dir" THEN f[Hops][d] ELSE 0
  BY DEF DirSize, Hops, Adds, SizeOf, SizeUnder
<1>. QED
  BY <1>1, <1>2

\* What find finds, level by level, adds up to what du adds.
LEMMA LevelsAgree ==
  ASSUME DiskTyped, NEW f, Finds(f), NEW g, Adds(g), NEW k \in 0..Hops, NEW e \in Inodes
  PROVE  /\ f[k][e] \subseteq FoundNames /\ IsFiniteSet(f[k][e])
         /\ Kind(e) # "dir" => f[k][e] = {}
         /\ g[k][e] \in Nat
         /\ Kind(e) = "dir" => SumOn(Weights, f[k][e]) = g[k][e]
<1> DEFINE Agree(l, d) ==
             /\ f[l][d] \subseteq FoundNames /\ IsFiniteSet(f[l][d])
             /\ Kind(d) # "dir" => f[l][d] = {}
             /\ g[l][d] \in Nat
             /\ Kind(d) = "dir" => SumOn(Weights, f[l][d]) = g[l][d]
           bad == {l \in 0..Hops : \E d \in Inodes : ~Agree(l, d)}
<1> SUFFICES ASSUME bad # {}
             PROVE  FALSE
  OBVIOUS
<1>1. bad \subseteq Nat
  BY HopsNat
<1>2. PICK l \in bad : \A j \in bad : l <= j
  <2> HIDE DEF bad
  <2>. QED
    BY <1>1, LeastOf
<1>3. PICK d \in Inodes : ~Agree(l, d)
  OBVIOUS
<1>4. /\ f[l][d] = IF l = 0 \/ Kind(d) # "dir" THEN {} ELSE FoundIn(f[l - 1], d)
      /\ g[l][d] = IF l = 0 THEN 0 ELSE SizeOf(g[l - 1], d)
  <2>1. l \in 0..Hops
    OBVIOUS
  <2> HIDE DEF bad, Agree
  <2>2. f[l] = [i \in Inodes |-> IF l = 0 \/ Kind(i) # "dir" THEN {} ELSE FoundIn(f[l - 1], i)]
    BY <2>1 DEF Finds
  <2>3. g[l] = [i \in Inodes |-> IF l = 0 THEN 0 ELSE SizeOf(g[l - 1], i)]
    BY <2>1 DEF Adds
  <2>. QED
    BY <2>2, <2>3
<1>5. l # 0
  <2> SUFFICES ASSUME l = 0
               PROVE  FALSE
    OBVIOUS
  <2>1. f[l][d] = {} /\ g[l][d] = 0
    BY <1>4
  <2>2. SumOn(Weights, {}) = 0 /\ IsFiniteSet({})
    BY FS_EmptySet, SumIs
  <2>. QED
    BY <1>3, <2>1, <2>2
<1>6. \A i \in Inodes : Agree(l - 1, i)
  <2>1. l \in 0..Hops /\ l - 1 \in 0..Hops
    BY <1>5, HopsNat
  <2> HIDE DEF Agree
  <2>2. l - 1 \notin bad
    <3> HIDE DEF bad
    <3>1. l - 1 \in bad => l <= l - 1
      BY <1>2
    <3>. QED
      BY <2>1, <3>1
  <2>. QED
    BY <2>1, <2>2
<1>7. PICK F, G : F = f[l - 1] /\ G = g[l - 1]
  OBVIOUS
<1>8. \A i \in Inodes : /\ F[i] \subseteq FoundNames /\ IsFiniteSet(F[i])
                        /\ Kind(i) # "dir" => F[i] = {}
                        /\ G[i] \in Nat
                        /\ Kind(i) = "dir" => SumOn(Weights, F[i]) = G[i]
  BY <1>6, <1>7
<1> DEFINE part == [x \in EntryNames |-> FoundUnder(F, d, x)]
           adding == [x \in EntryNames |-> SizeUnder(G, d, x)]
<1>9. \A q \in FoundNames : Weights[q] = Length(q[2]) /\ Weights[q] \in Nat
  BY LengthNat DEF Weights, FoundNames
<1>10. ASSUME NEW x \in EntryNames
       PROVE  /\ part[x] \subseteq FoundNames /\ IsFiniteSet(part[x])
              /\ \A q \in part[x] : q[1][1] = x
              /\ adding[x] \in Nat /\ SumOn(Weights, part[x]) = adding[x]
  <2>1. PICK i : i = disk.entries[d][x]
    OBVIOUS
  <2>2. i \in Inodes \cup {Absent}
    BY <2>1 DEF DiskTyped, DiskOK, DirEntries
  <2>3. CASE i = Absent
    <3>1. part[x] = {} /\ adding[x] = Length(i)
      BY <2>1, <2>3, PlaceFacts DEF FoundUnder, SizeUnder
    <3>2. Length(i) = 0
      BY <2>3, PlaceFacts DEF Length
    <3>3. SumOn(Weights, {}) = 0 /\ IsFiniteSet({})
      BY FS_EmptySet, SumIs
    <3>. QED
      BY <3>1, <3>2, <3>3
  <2>4. CASE i # Absent
    <3> DEFINE h == [q \in F[i] |-> <<<<x>> \o q[1], q[2]>>]
               one == <<<<x>>, i>>
               rest == {h[q] : q \in F[i]}
    <3>1. i \in Inodes
      BY <2>2, <2>4
    <3>2. part[x] = {one} \cup rest
      BY <2>1, <2>4 DEF FoundUnder
    <3>3. ASSUME NEW q \in F[i]
          PROVE  /\ q \in FoundNames /\ q[1] \in Seq(EntryNames) \ {<<>>} /\ q[2] \in Inodes
                 /\ h[q] = <<<<x>> \o q[1], q[2]>>
                 /\ h[q] \in FoundNames /\ h[q][1][1] = x /\ h[q] # one /\ Weights[h[q]] = Weights[q]
      <4>1. q \in FoundNames
        BY <1>8, <3>1
      <4>2. q[1] \in Seq(EntryNames) \ {<<>>} /\ q[2] \in Inodes
        BY <4>1 DEF FoundNames
      <4>3. PICK s, n : s = <<x>> \o q[1] /\ n = q[2]
        OBVIOUS
      <4>4. s \in Seq(EntryNames) \ {<<>>} /\ s[1] = x /\ s # <<x>>
        BY <4>2, <4>3, NameBefore
      <4>5. h[q] = <<s, n>>
        BY <4>3
      <4>6. h[q] \in FoundNames /\ h[q][1] = s /\ h[q][2] = n
        BY <4>2, <4>3, <4>4, <4>5 DEF FoundNames
      <4>7. h[q] # one
        BY <4>4, <4>5
      <4> HIDE DEF h, one
      <4>. QED
        BY <1>9, <4>1, <4>2, <4>3, <4>4, <4>5, <4>6, <4>7
    <3>4. one \in FoundNames /\ one[1][1] = x /\ Weights[one] = Length(i)
      <4>1. <<x>> \in Seq(EntryNames) \ {<<>>}
        OBVIOUS
      <4>2. one \in FoundNames
        BY <3>1, <4>1 DEF FoundNames
      <4>3. one[2] = i /\ one[1] = <<x>> /\ <<x>>[1] = x
        OBVIOUS
      <4> HIDE DEF one
      <4>. QED
        BY <1>9, <4>2, <4>3
    <3>5. \A q \in F[i], r \in F[i] : h[q] = h[r] => q = r
      <4> SUFFICES ASSUME NEW q \in F[i], NEW r \in F[i], h[q] = h[r]
                   PROVE  q = r
        OBVIOUS
      <4>1. /\ h[q] = <<<<x>> \o q[1], q[2]>> /\ h[r] = <<<<x>> \o r[1], r[2]>>
            /\ q[1] \in Seq(EntryNames) /\ r[1] \in Seq(EntryNames)
        BY <3>3
      <4>2. PICK s, t, a, b : s = q[1] /\ t = r[1] /\ a = <<x>> \o s /\ b = <<x>> \o t
        OBVIOUS
      <4> HIDE DEF h
      <4>3. s \in Seq(EntryNames) /\ t \in Seq(EntryNames) /\ a = b /\ q[2] = r[2]
        <5>1. <<a, q[2]>> = <<b, r[2]>>
          BY <4>1, <4>2
        <5>2. a = b /\ q[2] = r[2]
          BY ONLY <5>1
        <5>. QED
          BY <4>1, <4>2, <5>2
      <4>4. s = t
        <5>1. <<x>> \o s = <<x>> \o t
          BY <4>2, <4>3
        <5>2. \A v \in Seq(EntryNames) : <<x>> \o s = <<x>> \o v => s = v
          BY <4>3, NameBefore
        <5>. QED
          BY <4>3, <5>1, <5>2
      <4>5. q = <<q[1], q[2]>> /\ r = <<r[1], r[2]>>
        <5>1. q \in FoundNames /\ r \in FoundNames
          BY <3>3
        <5>. QED
          BY ONLY <5>1 DEF FoundNames
      <4>. QED
        BY <4>2, <4>3, <4>4, <4>5
    <3>6. DOMAIN h = F[i] /\ IsFiniteSet(F[i])
      BY <1>8, <3>1
    <3> HIDE DEF h, one
    <3>7. IsFiniteSet(rest) /\ IsFiniteSet({one})
      <4>1. IsFiniteSet({h[q] : q \in F[i]})
        BY <3>6, ImageFinite
      <4>2. IsFiniteSet({one})
        BY FS_Singleton
      <4>. QED
        BY <4>1, <4>2
    <3>8. SumOn(Weights, rest) = SumOn(Weights, F[i])
      <4>1. \A q \in F[i] : Weights[q] \in Nat /\ Weights[h[q]] = Weights[q]
        BY <1>9, <3>3
      <4>. QED
        BY <3>5, <3>6, <4>1, SumImage
    <3>9. rest \subseteq FoundNames /\ one \notin rest /\ \A q \in rest : q[1][1] = x
      BY <3>3
    <3> HIDE DEF rest
    <3>10. IsFiniteSet(part[x]) /\ part[x] \subseteq FoundNames /\ \A q \in part[x] : q[1][1] = x
      <4>1. IsFiniteSet({one} \cup rest)
        BY <3>7, FS_Union
      <4> HIDE DEF part
      <4>. QED
        BY <3>2, <3>4, <3>9, <4>1
    <3>11. SumOn(Weights, part[x]) = Length(i) + SumOn(Weights, F[i])
      <4>1. PICK P : P = part[x]
        OBVIOUS
      <4>2. IsFiniteSet(P) /\ one \in P /\ P \ {one} = rest /\ \A q \in P : Weights[q] \in Nat
        BY <1>9, <3>2, <3>9, <3>10, <4>1
      <4>3. SumOn(Weights, P) = Weights[one] + SumOn(Weights, P \ {one})
        BY <4>2, SumWithout
      <4>. QED
        BY <3>4, <3>8, <4>1, <4>2, <4>3
    <3>12. adding[x] = IF Kind(i) = "dir" THEN G[i] ELSE Length(i)
      BY <2>1 DEF SizeUnder
    <3>13. Length(i) \in Nat /\ (Kind(i) = "dir" => Length(i) = 0)
      <4>1. Length(i) \in Nat
        BY <3>1, LengthNat
      <4>. QED
        BY <4>1 DEF Length
    <3>14. CASE Kind(i) = "dir"
      <4>1. SumOn(Weights, F[i]) = G[i] /\ G[i] \in Nat
        BY <1>8, <3>1, <3>14
      <4> HIDE DEF part, adding
      <4>. QED
        BY <3>10, <3>11, <3>12, <3>13, <3>14, <4>1
    <3>15. CASE Kind(i) # "dir"
      <4>1. F[i] = {}
        BY <1>8, <3>1, <3>15
      <4>2. SumOn(Weights, F[i]) = 0
        BY <3>6, <4>1, SumIs
      <4> HIDE DEF part, adding
      <4>. QED
        BY <3>10, <3>11, <3>12, <3>13, <3>15, <4>2
    <3>. QED
      BY <3>14, <3>15
  <2>. QED
    BY <2>3, <2>4
<1>11. FoundIn(F, d) = UNION {part[x] : x \in EntryNames}
  BY DEF FoundIn
<1>12. SizeOf(G, d) = SumOn(adding, EntryNames)
  <2>1. DOMAIN adding = EntryNames
    OBVIOUS
  <2>. QED
    BY <2>1 DEF SizeOf, SumFunction, SumOn
<1>13. DOMAIN part = EntryNames /\ IsFiniteSet(EntryNames)
  BY FilesAssumption
<1> HIDE DEF part, adding
<1>14. SumOn(Weights, FoundIn(F, d)) = SizeOf(G, d)
  <2>1. \A x \in EntryNames, z \in EntryNames : x # z => part[x] \cap part[z] = {}
    BY <1>10
  <2>2. \A x \in EntryNames : IsFiniteSet(part[x]) /\ adding[x] = SumOn(Weights, part[x])
    BY <1>10
  <2>3. \A x \in EntryNames : \A q \in part[x] : Weights[q] \in Nat
    BY <1>9, <1>10
  <2>4. SumOn(Weights, UNION {part[x] : x \in EntryNames}) = SumOn(adding, EntryNames)
    BY <1>13, <2>1, <2>2, <2>3, SumParts
  <2>. QED
    BY <1>11, <1>12, <2>4
<1>15. FoundIn(F, d) \subseteq FoundNames /\ IsFiniteSet(FoundIn(F, d))
  <2> DEFINE I == {part[x] : x \in EntryNames}
  <2>1. IsFiniteSet(I)
    BY <1>13, ImageFinite
  <2>2. \A s \in I : IsFiniteSet(s) /\ s \subseteq FoundNames
    BY <1>10
  <2>3. FoundIn(F, d) = UNION I
    BY <1>11
  <2> HIDE DEF I
  <2>4. IsFiniteSet(UNION I)
    BY <2>1, <2>2, FS_UNION
  <2>. QED
    BY <2>2, <2>3, <2>4
<1>16. SizeOf(G, d) \in Nat
  BY <1>10, <1>12, <1>13, SumType
<1>17. /\ f[l][d] = IF Kind(d) # "dir" THEN {} ELSE FoundIn(F, d)
       /\ g[l][d] = SizeOf(G, d)
  BY <1>4, <1>5, <1>7
<1>18. IsFiniteSet({})
  BY FS_EmptySet
<1>. QED
  BY <1>3, <1>14, <1>15, <1>16, <1>17, <1>18

\* What du adds up and ls lists is what find finds.
LEMMA FoundAgrees ==
  ASSUME DiskTyped, Hops <= FindLevels, NEW p \in Paths, Metadata(p) # Absent
  PROVE  LET d == Metadata(p) IN
           /\ DirSize(d) = SumFunction([q \in FindRecursive(d) |-> Length(q[2])])
           /\ CmdTest("-d", p) => LET first == {q[1][1] : q \in FindRecursive(d)} IN
                                   CmdLs(p, TRUE) = first /\ CmdLs(p, FALSE) = first \ Hidden
<1> DEFINE d == Metadata(p)
<1>1. d \in Inodes /\ Kind(d) \in Kinds /\ Kind(d) # "link" /\ There(p) # Nowhere
  <2>1. d \in Inodes
    BY HereFacts DEF DirEntries
  <2>2. ~IsLink(There(p)) /\ d = At(There(p))
    BY HereFacts DEF Metadata
  <2>3. Kind(d) # "link"
    BY <2>2 DEF IsLink
  <2>4. There(p) # Nowhere
    BY <2>2, PlaceFacts
  <2>. QED
    BY <2>1, <2>3, <2>4, PlaceFacts
<1>2. PICK f : Finds(f) /\ \A i \in Inodes : FindRecursive(i) = f[Hops][i]
  BY FoundBy
<1>3. PICK g : Adds(g) /\ \A i \in Inodes : DirSize(i) = IF Kind(i) = "dir" THEN g[Hops][i] ELSE 0
  BY AddedBy
<1>4. PICK found : found = FindRecursive(d)
  OBVIOUS
<1>5. /\ found \subseteq FoundNames /\ IsFiniteSet(found)
      /\ Kind(d) # "dir" => found = {}
      /\ Kind(d) = "dir" => SumOn(Weights, found) = DirSize(d)
      /\ Kind(d) # "dir" => DirSize(d) = 0
  <2>1. Hops \in 0..Hops
    BY HopsNat
  <2>2. f[Hops][d] = found /\ DirSize(d) = IF Kind(d) = "dir" THEN g[Hops][d] ELSE 0
    BY <1>1, <1>2, <1>3, <1>4
  <2> HIDE DEF d
  <2>. QED
    BY <1>1, <1>2, <1>3, <2>1, <2>2, LevelsAgree
<1>6. DirSize(d) = SumFunction([q \in FindRecursive(d) |-> Length(q[2])])
  <2> DEFINE w == [q \in found |-> Length(q[2])]
  <2>1. SumFunction([q \in FindRecursive(d) |-> Length(q[2])]) = SumOn(w, found)
    <3>1. DOMAIN w = found
      OBVIOUS
    <3>2. SumFunction(w) = SumOn(w, found)
      BY <3>1 DEF SumFunction, SumOn
    <3>3. w = [q \in FindRecursive(d) |-> Length(q[2])]
      BY <1>4
    <3> HIDE DEF w
    <3>. QED
      BY <3>2, <3>3
  <2>2. \A q \in found : w[q] = Weights[q]
    BY <1>5 DEF Weights
  <2> HIDE DEF w, d
  <2>3. SumOn(w, found) = SumOn(Weights, found)
    BY <1>5, <2>2, SumSame
  <2>4. found = {} => SumOn(Weights, found) = 0
    BY <1>5, SumIs
  <2>. QED
    BY <1>5, <2>1, <2>3, <2>4
<1>7. CmdTest("-d", p) => LET first == {q[1][1] : q \in FindRecursive(d)} IN
                            CmdLs(p, TRUE) = first /\ CmdLs(p, FALSE) = first \ Hidden
  <2> SUFFICES ASSUME Kind(d) = "dir"
               PROVE  {x \in EntryNames : disk.entries[d][x] # Absent} = {q[1][1] : q \in found}
    <3>1. Kind(d) = "dir" =>
            /\ CmdLs(p, TRUE) = {x \in EntryNames : disk.entries[d][x] # Absent}
            /\ CmdLs(p, FALSE) = {x \in EntryNames : disk.entries[d][x] # Absent} \ Hidden
      BY DEF CmdLs
    <3>2. CmdTest("-d", p) => Kind(d) = "dir"
      BY DEF CmdTest
    <3> HIDE DEF d
    <3> QED BY <1>4, <3>1, <3>2
  <2>2. PICK F : found = FoundIn(F, d) /\ \A i \in Inodes : F[i] \subseteq FoundNames
    <3>1. Hops # 0
      <4>1. IsFiniteSet(Inodes) /\ Inodes # {}
        BY FilesAssumption
      <4>. QED
        BY <4>1, FS_EmptySet DEF Hops
    <3>2. Hops \in 0..Hops /\ Hops - 1 \in 0..Hops
      BY <3>1, HopsNat
    <3>3. f[Hops] = [i \in Inodes |-> IF Hops = 0 \/ Kind(i) # "dir" THEN {} ELSE FoundIn(f[Hops - 1], i)]
      BY <1>2, <3>2 DEF Finds
    <3>4. found = FoundIn(f[Hops - 1], d)
      BY <1>1, <1>2, <1>4, <3>1, <3>3
    <3>5. \A i \in Inodes : f[Hops - 1][i] \subseteq FoundNames
      BY <1>2, <1>3, <3>2, LevelsAgree
    <3>. QED
      BY <3>4, <3>5
  <2> HIDE DEF d
  <2>3. ASSUME NEW x \in EntryNames, disk.entries[d][x] # Absent
        PROVE  <<<<x>>, disk.entries[d][x]>> \in found
    <3>1. <<<<x>>, disk.entries[d][x]>> \in FoundUnder(F, d, x)
      BY <2>3 DEF FoundUnder
    <3>. QED
      BY <2>2, <3>1 DEF FoundIn
  <2>4. ASSUME NEW q \in found
        PROVE  q[1][1] \in {x \in EntryNames : disk.entries[d][x] # Absent}
    <3>1. PICK x \in EntryNames : q \in FoundUnder(F, d, x)
      BY <2>2 DEF FoundIn
    <3>2. PICK i : i = disk.entries[d][x]
      OBVIOUS
    <3>3. i # Absent /\ (q = <<<<x>>, i>> \/ \E r \in F[i] : q = <<<<x>> \o r[1], r[2]>>)
      BY <3>1, <3>2 DEF FoundUnder
    <3>4. i \in Inodes
      BY <1>1, <3>2, <3>3 DEF DiskTyped, DiskOK, DirEntries
    <3>5. q[1][1] = x
      <4>1. CASE q = <<<<x>>, i>>
        <5>1. q[1] = <<x>>
          BY <4>1
        <5>. QED
          BY <5>1
      <4>2. CASE \E r \in F[i] : q = <<<<x>> \o r[1], r[2]>>
        <5>1. PICK r \in F[i] : q = <<<<x>> \o r[1], r[2]>>
          BY <4>2
        <5>2. r \in FoundNames
          BY <2>2, <3>4
        <5>3. PICK s, t : s = r[1] /\ t = <<x>> \o s
          OBVIOUS
        <5>4. s \in Seq(EntryNames)
          BY <5>2, <5>3 DEF FoundNames
        <5>5. t[1] = x
          BY <5>3, <5>4, NameBefore
        <5>6. q[1] = t
          BY <5>1, <5>3
        <5>. QED
          BY <5>5, <5>6
      <4>. QED
        BY <3>3, <4>1, <4>2
    <3>. QED
      BY <3>2, <3>3, <3>5
  <2>5. ASSUME NEW x \in {x \in EntryNames : disk.entries[d][x] # Absent}
        PROVE  x \in {q[1][1] : q \in found}
    <3>1. PICK q : q = <<<<x>>, disk.entries[d][x]>>
      OBVIOUS
    <3>2. q \in found /\ q[1] = <<x>>
      BY <2>3, <3>1
    <3>3. q[1][1] = x
      BY <3>2
    <3>. QED
      BY <3>2, <3>3
  <2>. QED
    BY <2>4, <2>5
<1>. QED
  BY <1>6, <1>7

\* A sum is no less than any of what it adds up.
LEMMA SumAtLeast ==
  ASSUME NEW w, NEW S, IsFiniteSet(S), \A y \in S : w[y] \in Nat, NEW x \in S
  PROVE  SumOn(w, S) >= w[x]
<1>1. SumOn(w, S) = w[x] + SumOn(w, S \ {x})
  BY SumWithout
<1>2. IsFiniteSet(S \ {x})
  BY FS_Difference
<1>3. SumOn(w, S \ {x}) \in Nat
  BY <1>2, SumType
<1>. QED
  BY <1>1, <1>3

\* du counts every entry that is not a directory.
LEMMA DuCounts ==
  ASSUME DiskTyped, NEW u \in Inodes, Kind(u) = "dir", NEW y \in EntryNames,
         disk.entries[u][y] \in Inodes, Kind(disk.entries[u][y]) # "dir"
  PROVE  DirSize(u) >= Length(disk.entries[u][y])
<1>1. PICK g : Adds(g) /\ \A i \in Inodes : DirSize(i) = IF Kind(i) = "dir" THEN g[Hops][i] ELSE 0
  BY AddedBy
<1>2. PICK f : Finds(f)
  BY FindsExist
<1>3. Hops # 0 /\ Hops \in 0..Hops /\ Hops - 1 \in 0..Hops
  <2>1. IsFiniteSet(Inodes) /\ Inodes # {}
    BY FilesAssumption
  <2>2. Hops # 0
    BY <2>1, FS_EmptySet DEF Hops
  <2>. QED
    BY <2>2, HopsNat
<1>4. DirSize(u) = SizeOf(g[Hops - 1], u)
  <2>1. g[Hops] = [e \in Inodes |-> IF Hops = 0 THEN 0 ELSE SizeOf(g[Hops - 1], e)]
    BY <1>1, <1>3 DEF Adds
  <2>. QED
    BY <1>1, <1>3, <2>1
<1>5. \A e \in Inodes : g[Hops - 1][e] \in Nat
  BY <1>1, <1>2, <1>3, LevelsAgree
<1> DEFINE w == [x \in EntryNames |-> SizeUnder(g[Hops - 1], u, x)]
<1>6. ASSUME NEW x \in EntryNames
      PROVE  w[x] \in Nat
  <2>1. PICK i : i = disk.entries[u][x]
    OBVIOUS
  <2>2. i \in Inodes \cup {Absent}
    BY <2>1 DEF DiskTyped, DiskOK, DirEntries
  <2>3. CASE Kind(i) = "dir"
    <3>1. i \in Inodes
      BY <2>2, <2>3, PlaceFacts
    <3>. QED
      BY <1>5, <2>1, <2>3, <3>1 DEF SizeUnder
  <2>4. CASE Kind(i) # "dir"
    BY <2>1, <2>2, <2>4, LengthNat DEF SizeUnder
  <2>. QED
    BY <2>3, <2>4
<1>7. DOMAIN w = EntryNames /\ IsFiniteSet(EntryNames)
  BY FilesAssumption
<1>8. SizeOf(g[Hops - 1], u) = SumOn(w, EntryNames)
  BY <1>7 DEF SizeOf, SumFunction, SumOn
<1>9. w[y] = Length(disk.entries[u][y])
  BY DEF SizeUnder
<1> HIDE DEF w
<1>10. SumOn(w, EntryNames) >= w[y]
  BY <1>6, <1>7, SumAtLeast
<1>. QED
  BY <1>4, <1>8, <1>9, <1>10

LEMMA DirSizeNat == ASSUME DiskTyped, NEW d \in Inodes PROVE DirSize(d) \in Nat
<1>1. PICK g : Adds(g) /\ \A i \in Inodes : DirSize(i) = IF Kind(i) = "dir" THEN g[Hops][i] ELSE 0
  BY AddedBy
<1>2. PICK f : Finds(f)
  BY FindsExist
<1>3. g[Hops][d] \in Nat
  BY <1>1, <1>2, HopsNat, LevelsAgree
<1>. QED
  BY <1>1, <1>3

\* The commands that look agree.
LEMMA LooksAgree == DiskTyped => SizesAgree
<1> SUFFICES ASSUME DiskTyped, NEW p \in Paths, Metadata(p) # Absent
             PROVE  LET d == Metadata(p)  found == FindRecursive(d) IN
                      /\ CmdTest("-e", p) /\ (CmdTest("-f", p) \/ CmdTest("-d", p))
                      /\ CmdTest("-f", p) => \A all \in BOOLEAN : CmdLs(p, all) = {p}
                      /\ Len(p) = 2 => p[2] \in CmdLs(<<p[1]>>, TRUE)
                      /\ Len(p) = 2 /\ CmdTest("-f", p) /\ CmdTest("-s", p) => DirSize(Metadata(<<p[1]>>)) > 0
                      /\ Cardinality(Inodes) <= FindLevels /\ Cardinality(found) <= FindLimit =>
                           /\ DirSize(d) = SumFunction([q \in found |-> Length(q[2])])
                           /\ CmdTest("-d", p) => LET first == {q[1][1] : q \in found} IN
                                                   CmdLs(p, TRUE) = first /\ CmdLs(p, FALSE) = first \ Hidden
  BY Zenon DEF SizesAgree
<1> DEFINE d == Metadata(p)
<1>1. d \in Inodes /\ Kind(d) \in Kinds /\ Kind(d) # "link" /\ There(p) # Nowhere
  <2>1. d \in Inodes
    BY HereFacts DEF DirEntries
  <2>2. ~IsLink(There(p)) /\ d = At(There(p))
    BY HereFacts DEF Metadata
  <2>3. Kind(d) # "link"
    BY <2>2 DEF IsLink
  <2>4. There(p) # Nowhere
    BY <2>2, PlaceFacts
  <2>. QED
    BY <2>1, <2>3, <2>4, PlaceFacts
<1>2. CmdTest("-e", p) /\ (CmdTest("-f", p) \/ CmdTest("-d", p))
  BY <1>1 DEF CmdTest, Kinds
<1>3. CmdTest("-f", p) => \A all \in BOOLEAN : CmdLs(p, all) = {p}
  BY DEF CmdTest, CmdLs
<1>4. ASSUME Len(p) = 2
      PROVE  /\ p[2] \in CmdLs(<<p[1]>>, TRUE)
             /\ CmdTest("-f", p) /\ CmdTest("-s", p) => DirSize(Metadata(<<p[1]>>)) > 0
  <2>1. PICK u, x, y, r : u = ParentOf(p) /\ x = p[1] /\ y = p[2] /\ r = <<x>>
    OBVIOUS
  <2>2. x \in EntryNames /\ y \in EntryNames /\ r \in Paths /\ Len(r) = 1 /\ r[1] = x
    BY <1>4, <2>1, HereFacts DEF Paths
  <2>3. Here(r) = <<Root, x>> /\ u = At(Led(<<Root, x>>))
    BY <1>4, <2>1, <2>2, HereFacts
  <2>4. Metadata(r) = u
    BY <2>3 DEF Metadata, There
  <2>5. Here(p) # Nowhere
    BY <1>1, HereFacts
  <2>6. u \in Inodes /\ Kind(u) = "dir" /\ Here(p) = <<u, y>>
    BY <1>4, <2>1, <2>5, HereFacts
  <2>7. At(Here(p)) # Absent
    <3>1. CASE IsLink(Here(p))
      BY <3>1, PlaceFacts DEF IsLink
    <3>2. CASE ~IsLink(Here(p))
      BY <3>2, HereFacts DEF Metadata
    <3>. QED
      BY <3>1, <3>2
  <2>8. At(<<u, y>>) = disk.entries[u][y]
    BY <2>2, <2>6, PlaceFacts
  <2>9. disk.entries[u][y] # Absent
    BY <1>4, <2>6, <2>7, <2>8
  <2>10. p[2] \in CmdLs(<<p[1]>>, TRUE)
    BY <2>1, <2>2, <2>4, <2>6, <2>9 DEF CmdLs
  <2>11. ASSUME Kind(d) = "file", Length(d) > 0
         PROVE  DirSize(u) > 0
    <3>1. PICK i : i = disk.entries[u][y]
      OBVIOUS
    <3>2. i \in Inodes /\ i = At(Here(p))
      BY <2>2, <2>6, <2>8, <2>9, <3>1 DEF DiskTyped, DiskOK, DirEntries
    <3>3. Kind(i) # "dir" /\ Length(i) > 0
      <4>1. CASE IsLink(Here(p))
        BY <3>2, <4>1 DEF IsLink, Length
      <4>2. CASE ~IsLink(Here(p))
        <5>1. i = d
          BY <3>2, <4>2, HereFacts DEF Metadata
        <5>. QED
          BY <2>11, <5>1
      <4>. QED
        BY <4>1, <4>2
    <3>4. DirSize(u) >= Length(i) /\ Length(i) \in Nat
      BY <2>2, <2>6, <3>1, <3>2, <3>3, DuCounts, LengthNat
    <3>5. DirSize(u) \in Nat
      BY <2>6, DirSizeNat
    <3>. QED
      BY <3>3, <3>4, <3>5
  <2>12. CmdTest("-f", p) /\ CmdTest("-s", p) => Kind(d) = "file" /\ Length(d) > 0
    BY DEF CmdTest
  <2>. QED
    BY <2>1, <2>4, <2>10, <2>11, <2>12
<1>5. Cardinality(Inodes) <= FindLevels =>
        /\ DirSize(d) = SumFunction([q \in FindRecursive(d) |-> Length(q[2])])
        /\ CmdTest("-d", p) => LET first == {q[1][1] : q \in FindRecursive(d)} IN
                                CmdLs(p, TRUE) = first /\ CmdLs(p, FALSE) = first \ Hidden
  BY FoundAgrees DEF Hops
<1>. QED
  BY <1>2, <1>3, <1>4, <1>5

\* Every command that reports 0 has done what it was asked, whatever the session did since it
\* looked at its operand; and du, find, ls, with and without -a, and test agree of every
\* tree that find gives whole.
THEOREM DoneAsSaidCorrect == FilesSpec => []DoneAsSaid
<1>1. FilesInit => AnswerInv
  BY InitAnswers
<1>2. AnswerInv /\ [FilesNext]_FilesVars => AnswerInv'
  BY StepAnswers
<1>3. AnswerInv => DoneAsSaid
  BY LooksAgree DEF AnswerInv, DoneAsSaid
<1>. QED
  BY <1>1, <1>2, <1>3, PTL DEF FilesSpec

=============================================================================
