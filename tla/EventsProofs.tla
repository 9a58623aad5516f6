---------------------------- MODULE EventsProofs ----------------------------
(***************************************************************************)
(* Theorems about what stormd tells others: the state file of the APIs' health,*)
(* the events it publishes, the console it streams, and the calls that ask it.*)
(***************************************************************************)
EXTENDS ApiHealth, K8sEvents, Follow, Locks, FiniteSetTheorems, TLAPS

-----------------------------------------------------------------------------
(* ApiHealth: the file is of the newest states.                            *)

\* The states in which a task is between taking the publishing lock and its rename.
InPublish == {"locked", "listed", "written"}

\* Who publishes has the lock.
LockHeld == \A a \in Apis : publishing[a] \in InPublish <=> publish_lock = a

\* What a task has listed is still right of every API whose task has nothing more to
\* publish; and it is in the temporary file once written.
ListedRight ==
  \A a \in Apis :
    /\ publishing[a] \in {"listed", "written"} =>
         /\ body[a] \in [Apis -> Healths]
         /\ \A b \in Apis : publishing[b] # "recorded" => body[a][b] = health[b]
    /\ publishing[a] = "written" => tmp_file = body[a]

PublishInv == ApiHealthTypeOK /\ LockHeld /\ ListedRight /\ FileIsNewest

-----------------------------------------------------------------------------
\* A list of every API's health is not the file that is missing.
LEMMA ListIsAFile == ASSUME NEW f \in [Apis -> Healths], NEW a \in Apis PROVE f # NoFile
  <1>1. DOMAIN f = Apis OBVIOUS
  <1>2. DOMAIN NoFile = {} BY DEF NoFile
  <1> QED BY <1>1, <1>2

\* record keeps a list of latencies.
LEMMA WindowTyped ==
  ASSUME NEW w \in Seq(Nat), NEW probe \in ProbeResults
  PROVE  NewWindow(w, probe) \in Seq(Nat)
  <1> DEFINE longer == IF probe \in Answers THEN Append(w, probe.ms) ELSE w
  <1>1. longer \in Seq(Nat)
    <2>1. probe \in Answers => probe.ms \in Nat BY ApiHealthAssumption DEF Answers
    <2> QED BY <2>1
  <1>2. Len(longer) > Window => longer # <<>> BY <1>1, ApiHealthAssumption
  <1>3. Len(longer) > Window => Tail(longer) \in Seq(Nat) BY <1>1, <1>2
  <1> QED BY <1>1, <1>3 DEF NewWindow

\* And one of the five states.
LEMMA Classified ==
  ASSUME NEW probe \in ProbeResults, NEW w PROVE Classify(probe, w) \in ApiStates
  BY DEF Classify, ApiStates

LEMMA InitPublish == ApiHealthInit => PublishInv
  <1> SUFFICES ASSUME ApiHealthInit PROVE PublishInv OBVIOUS
  <1>1. Unprobed \in Healths BY DEF Unprobed, Healths, ApiStates
  <1>2. health \in [Apis -> Healths] /\ state_file = health BY <1>1 DEF ApiHealthInit
  <1> QED BY <1>2, ApiHealthAssumption DEF ApiHealthInit, PublishInv, ApiHealthTypeOK, LockHeld, ListedRight, FileIsNewest, InPublish

LEMMA StepPublish == PublishInv /\ [ApiHealthNext]_apiHealthVars => PublishInv'
  <1> SUFFICES ASSUME PublishInv, [ApiHealthNext]_apiHealthVars PROVE PublishInv' OBVIOUS
  <1> USE DEF PublishInv
  <1>1. ASSUME NEW a \in Apis, Record(a) PROVE PublishInv'
    <2>1. PICK probe \in ProbeResults :
            health' = [health EXCEPT ![a] = [state |-> Classify(probe, NewWindow(health[a].window, probe)),
                         window |-> NewWindow(health[a].window, probe), checks |-> @.checks + 1]]
      BY <1>1 DEF Record
    <2>2. health' \in [Apis -> Healths]
      <3>1. health[a] \in Healths BY DEF ApiHealthTypeOK
      <3>2. NewWindow(health[a].window, probe) \in Seq(Nat) BY <3>1, WindowTyped DEF Healths
      <3> DEFINE new == [state |-> Classify(probe, NewWindow(health[a].window, probe)),
                         window |-> NewWindow(health[a].window, probe), checks |-> health[a].checks + 1]
      <3>3. new \in Healths
        <4>1. Classify(probe, NewWindow(health[a].window, probe)) \in ApiStates BY Classified
        <4>2. health[a].checks + 1 \in Nat BY <3>1 DEF Healths
        <4> HIDE DEF Classify, NewWindow
        <4> QED BY <3>2, <4>1, <4>2 DEF Healths
      <3>4. health' = [health EXCEPT ![a] = new] BY <2>1
      <3> HIDE DEF new
      <3> QED BY <3>3, <3>4 DEF ApiHealthTypeOK
    <2>3. \A b \in Apis : b # a => health'[b] = health[b] BY <2>1 DEF ApiHealthTypeOK
    <2>4. /\ publishing[a] = "probing" /\ publishing' = [publishing EXCEPT ![a] = "recorded"]
          /\ UNCHANGED <<publish_lock, body, tmp_file, state_file, publish_failures, io_failed>>
      BY <1>1 DEF Record, PublishGoes
    <2>5. ApiHealthTypeOK' BY <2>2, <2>4 DEF ApiHealthTypeOK
    <2>6. LockHeld' BY <2>4 DEF LockHeld, InPublish, ApiHealthTypeOK
    <2>7. ListedRight' BY <2>3, <2>4 DEF ListedRight, ApiHealthTypeOK
    <2>8. FileIsNewest' BY <2>3, <2>4 DEF FileIsNewest, ApiHealthTypeOK
    <2> QED BY <2>5, <2>6, <2>7, <2>8
  <1>2. ASSUME NEW a \in Apis, PublishLocks(a) PROVE PublishInv'
    <2>1. ApiHealthTypeOK' BY <1>2 DEF PublishLocks, OneWriter, PublishGoes, ApiHealthTypeOK
    <2>2. LockHeld' BY <1>2, ApiHealthAssumption DEF PublishLocks, OneWriter, PublishGoes, ApiHealthTypeOK, LockHeld, InPublish
    <2>3. ListedRight'
      BY <1>2, ApiHealthAssumption DEF PublishLocks, OneWriter, PublishGoes, ApiHealthTypeOK, LockHeld, InPublish, ListedRight
    <2>4. FileIsNewest' BY <1>2 DEF PublishLocks, PublishGoes, ApiHealthTypeOK, FileIsNewest
    <2> QED BY <2>1, <2>2, <2>3, <2>4
  <1>3. ASSUME NEW a \in Apis, Lists(a) PROVE PublishInv'
    <2>1. ApiHealthTypeOK' BY <1>3 DEF Lists, PublishGoes, ApiHealthTypeOK
    <2>2. LockHeld' BY <1>3 DEF Lists, PublishGoes, ApiHealthTypeOK, LockHeld, InPublish
    <2>3. ListedRight' BY <1>3 DEF Lists, PublishGoes, ApiHealthTypeOK, LockHeld, InPublish, ListedRight
    <2>4. FileIsNewest' BY <1>3 DEF Lists, PublishGoes, ApiHealthTypeOK, FileIsNewest
    <2> QED BY <2>1, <2>2, <2>3, <2>4
  <1>4. ASSUME NEW a \in Apis, TmpWritten(a) PROVE PublishInv'
    <2>1. ApiHealthTypeOK' BY <1>4 DEF TmpWritten, PublishGoes, ApiHealthTypeOK, ListedRight
    <2>2. LockHeld' BY <1>4 DEF TmpWritten, PublishGoes, ApiHealthTypeOK, LockHeld, InPublish
    <2>3. ListedRight' BY <1>4 DEF TmpWritten, PublishGoes, ApiHealthTypeOK, LockHeld, InPublish, ListedRight
    <2>4. FileIsNewest' BY <1>4 DEF TmpWritten, PublishGoes, ApiHealthTypeOK, FileIsNewest
    <2> QED BY <2>1, <2>2, <2>3, <2>4
  <1>5. ASSUME NEW a \in Apis, TmpRenamed(a) PROVE PublishInv'
    <2>1. publishing[a] = "written" /\ publishing' = [publishing EXCEPT ![a] = "probing"]
      BY <1>5 DEF TmpRenamed, PublishGoes
    <2>2. tmp_file = body[a] /\ body[a] \in [Apis -> Healths] BY <2>1 DEF ListedRight
    <2>3. tmp_file # NoFile BY <2>2, ListIsAFile
    <2>4. /\ state_file' = body[a] /\ tmp_file' = NoFile /\ body' = [body EXCEPT ![a] = NoFile]
          /\ publish_lock' = "nobody" /\ UNCHANGED <<health, publish_failures>>
          /\ io_failed' = [io_failed EXCEPT !.unwritten = {}]
      BY <1>5, <2>2, <2>3 DEF TmpRenamed
    <2>5. ApiHealthTypeOK' BY <2>1, <2>2, <2>4 DEF ApiHealthTypeOK
    <2>6. LockHeld' BY <2>1, <2>4, ApiHealthAssumption DEF ApiHealthTypeOK, LockHeld, InPublish
    <2>7. ListedRight' BY <2>1, <2>4 DEF ApiHealthTypeOK, LockHeld, InPublish, ListedRight
    <2>8. FileIsNewest' BY <2>1, <2>4 DEF ApiHealthTypeOK, ListedRight, FileIsNewest
    <2> QED BY <2>5, <2>6, <2>7, <2>8
  <1>7. ASSUME NEW a \in Apis, PublishFails(a) PROVE PublishInv'
    <2>1. /\ publishing[a] \in {"listed", "written"} /\ publishing' = [publishing EXCEPT ![a] = "probing"]
          /\ body' = [body EXCEPT ![a] = NoFile] /\ publish_failures' = publish_failures + 1
          /\ io_failed' = [times |-> io_failed.times + 1, unwritten |-> io_failed.unwritten \cup {a}]
          /\ publish_lock' = "nobody" /\ UNCHANGED <<health, tmp_file, state_file>>
      BY <1>7 DEF PublishFails, PublishGoes
    <2>2. ApiHealthTypeOK' BY <2>1 DEF ApiHealthTypeOK
    <2>3. LockHeld' BY <2>1, ApiHealthAssumption DEF ApiHealthTypeOK, LockHeld, InPublish
    <2>4. ListedRight' BY <2>1 DEF ApiHealthTypeOK, LockHeld, InPublish, ListedRight
    <2>5. FileIsNewest' BY <2>1 DEF ApiHealthTypeOK, FileIsNewest
    <2> QED BY <2>2, <2>3, <2>4, <2>5
  <1>6. CASE UNCHANGED apiHealthVars
    BY <1>6 DEF apiHealthVars, ApiHealthTypeOK, LockHeld, ListedRight, FileIsNewest
  <1> QED BY <1>1, <1>2, <1>3, <1>4, <1>5, <1>6, <1>7 DEF ApiHealthNext

\* The lock, the lists and the file are always right.
THEOREM PublishInvCorrect == ApiHealthSpec => []PublishInv
  BY InitPublish, StepPublish, PTL DEF ApiHealthSpec

\* apihealth.rs, publish: the file left last holds the newest state, but for what the disk
\* refused to write, and no rename finds that another has taken its temporary file: for
\* any number of APIs that are recorded and published at once.
THEOREM FileIsNewestCorrect == ApiHealthSpec => []FileIsNewest
  BY PublishInvCorrect, PTL DEF PublishInv

-----------------------------------------------------------------------------
(* K8sEvents: every event counted once and told.                           *)

Kept == [what : Said, count : Nat, seq : Nat]

\* The types; one event of each thing said; and the newest change is of an event kept.
K8sTyped ==
  /\ event_store \in Seq(Kept) /\ event_seq \in Nat /\ since_seq \in 0..event_seq
  /\ published \in [Said -> Nat] /\ times \in [Said -> Nat] /\ dropped \in [Said -> Nat]
OneEach ==
  /\ \A i, j \in DOMAIN event_store : event_store[i].what = event_store[j].what => i = j
  /\ \A i \in DOMAIN event_store : event_store[i].seq <= event_seq
  /\ event_store # <<>> => \E i \in DOMAIN event_store : event_store[i].seq = event_seq
K8sTold ==
  \A i \in DOMAIN event_store :
    event_store[i].seq > since_seq \/ published[event_store[i].what] = event_store[i].count
K8sCounted ==
  \A w \in Said :
    /\ About(w) = {} => times[w] = dropped[w]
    /\ \A i \in About(w) : times[w] = dropped[w] + event_store[i].count

K8sInv == K8sTyped /\ OneEach /\ K8sTold /\ K8sCounted

LEMMA InitK8s == K8sInit => K8sInv
<1> SUFFICES ASSUME K8sInit PROVE K8sInv
  OBVIOUS
<1>1. event_store = <<>> /\ DOMAIN event_store = {}
  BY DEF K8sInit
<1> QED BY <1>1 DEF K8sInit, K8sInv, K8sTyped, OneEach, K8sTold, K8sCounted, About, Zero

LEMMA PollsK8s ==
  ASSUME K8sInv, Polls
  PROVE  K8sInv'
<1> DEFINE answer == Since(since_seq)
<1>0. K8sTyped /\ OneEach /\ DOMAIN event_store = 1..Len(event_store)
      /\ \A i \in DOMAIN event_store : event_store[i] \in Kept
  BY DEF K8sInv, K8sTyped
<1>1. /\ answer # {} /\ since_seq' = event_store[Latest(answer)].seq
      /\ published' = [w \in Said |-> IF answer \cap About(w) = {} THEN published[w]
                                      ELSE event_store[Latest(answer \cap About(w))].count]
      /\ UNCHANGED <<event_store, event_seq, times, dropped>>
  BY DEF Polls
<1>2. event_seq \in Nat /\ since_seq \in Nat /\ \A i \in DOMAIN event_store : event_store[i].seq \in Nat
  BY <1>0 DEF K8sTyped, Kept
<1>3. since_seq' = event_seq
  <2>1. PICK i \in DOMAIN event_store : event_store[i].seq = event_seq
    BY <1>0, <1>1 DEF OneEach, Since
  <2>2. i \in answer /\ \A j \in answer : event_store[j].seq <= event_store[i].seq
    BY <1>0, <1>1, <1>2, <2>1 DEF OneEach, Since
  <2>3. Latest(answer) \in answer /\ \A j \in answer : event_store[j].seq <= event_store[Latest(answer)].seq
    BY <2>2 DEF Latest
  <2> HIDE DEF answer
  <2>4. Latest(answer) \in DOMAIN event_store
    BY <2>3 DEF answer, Since
  <2> QED BY <1>0, <1>1, <1>2, <2>1, <2>2, <2>3, <2>4 DEF OneEach
<1>4. ASSUME NEW i \in answer
      PROVE  published'[event_store[i].what] = event_store[i].count
  <2>1. i \in DOMAIN event_store /\ event_store[i].what \in Said
    BY <1>0 DEF Since, Kept
  <2>2. answer \cap About(event_store[i].what) = {i}
    BY <1>0, <2>1 DEF OneEach, About, Since
  <2>3. Latest({i}) = i
    BY <1>2, <2>1 DEF Latest
  <2> QED BY <1>1, <2>1, <2>2, <2>3
<1>5. ASSUME NEW i \in DOMAIN event_store, i \notin answer
      PROVE  published'[event_store[i].what] = event_store[i].count
  <2>1. event_store[i].what \in Said /\ published[event_store[i].what] = event_store[i].count
    BY <1>0, <1>5 DEF Since, Kept, K8sInv, K8sTold
  <2>2. answer \cap About(event_store[i].what) = {}
    BY <1>0, <1>5 DEF OneEach, About, Since
  <2> QED BY <1>1, <2>1, <2>2
<1>6. published' \in [Said -> Nat]
  <2> SUFFICES ASSUME NEW w \in Said PROVE published'[w] \in Nat
    BY <1>1
  <2>1. CASE answer \cap About(w) = {}
    BY <1>0, <1>1, <2>1 DEF K8sTyped
  <2>2. ASSUME NEW i \in answer \cap About(w)
        PROVE  published'[w] \in Nat
    <3>1. event_store[i].what = w /\ event_store[i].count \in Nat
      BY <1>0, <2>2 DEF About, Kept
    <3> QED BY <1>4, <2>2, <3>1
  <2> QED BY <2>1, <2>2
<1>7. K8sTyped'
  BY <1>0, <1>1, <1>2, <1>3, <1>6 DEF K8sTyped
<1>8. K8sTold'
  BY <1>1, <1>4, <1>5 DEF K8sTold
<1>9. OneEach' /\ K8sCounted'
  BY <1>1 DEF K8sInv, OneEach, K8sCounted, About
<1> QED BY <1>7, <1>8, <1>9 DEF K8sInv

LEMMA AddK8s ==
  ASSUME K8sInv, NEW w \in Said, Add(w)
  PROVE  K8sInv'
<1> USE K8sAssumption
<1>0. /\ K8sTyped /\ OneEach /\ DOMAIN event_store = 1..Len(event_store) /\ Len(event_store) \in Nat
      /\ event_seq \in Nat /\ since_seq \in Nat /\ since_seq <= event_seq
      /\ \A i \in DOMAIN event_store : /\ event_store[i] \in Kept /\ event_store[i].what \in Said
                                       /\ event_store[i].count \in Nat /\ event_store[i].seq \in Nat
  <2>1. K8sTyped /\ OneEach
    BY DEF K8sInv
  <2>2. DOMAIN event_store = 1..Len(event_store) /\ Len(event_store) \in Nat
        /\ \A i \in DOMAIN event_store : event_store[i] \in Kept
    BY <2>1 DEF K8sTyped
  <2>3. event_seq \in Nat /\ since_seq \in Nat /\ since_seq <= event_seq
    BY <2>1 DEF K8sTyped
  <2> QED BY <2>1, <2>2, <2>3 DEF Kept
<1>1. /\ event_seq' = event_seq + 1 /\ times' = [times EXCEPT ![w] = @ + 1]
      /\ UNCHANGED <<since_seq, published>>
  BY DEF Add
<1>2. /\ event_seq' \in Nat /\ since_seq' \in 0..event_seq' /\ published' \in [Said -> Nat] /\ times' \in [Said -> Nat]
      /\ times'[w] = times[w] + 1 /\ \A v \in Said \ {w} : times'[v] = times[v]
  BY <1>0, <1>1 DEF K8sTyped
<1>3. ASSUME NEW k \in About(w)
      PROVE  K8sInv'
  <2>1. About(w) = {k} /\ k \in DOMAIN event_store /\ event_store[k].what = w
    BY <1>0, <1>3 DEF About, OneEach
  <2>2. LastOf({k}) = k
    BY <1>0, <2>1 DEF LastOf
  <2>3. event_store' = [event_store EXCEPT ![k].count = @ + 1, ![k].seq = event_seq + 1] /\ dropped' = dropped
    BY <2>1, <2>2 DEF Add, Bumped
  <2> DEFINE c == [event_store[k] EXCEPT !.count = @ + 1, !.seq = event_seq + 1]
  <2>4. event_store' = [event_store EXCEPT ![k] = c]
    BY <1>0, <2>1, <2>3
  <2>a. c \in Kept /\ c.what = w /\ c.count = event_store[k].count + 1 /\ c.seq = event_seq'
    <3> DEFINE a == event_store[k].count + 1
               b == event_seq + 1
               d == event_store[k]
    <3>1. d \in Kept /\ a \in Nat /\ b \in Nat /\ b = event_seq' /\ d.what = w
      BY <1>0, <1>1, <2>1
    <3>2. c = [d EXCEPT !.count = a, !.seq = b]
      BY <3>1 DEF Kept
    <3> HIDE DEF a, b, c, d
    <3>3. c \in Kept /\ c.what = d.what /\ c.count = a /\ c.seq = b
      BY ONLY <3>1, <3>2 DEF Kept
    <3> QED BY <3>1, <3>3 DEF a
  <2> HIDE DEF c
  <2>b. /\ event_store'[k] = c /\ \A i \in DOMAIN event_store \ {k} : event_store'[i] = event_store[i]
        /\ DOMAIN event_store' = DOMAIN event_store
    BY <1>0, <2>1, <2>4
  <2>5. event_store' \in Seq(Kept)
    BY <1>0, <2>1, <2>4, <2>a DEF K8sTyped
  <2>6. OneEach'
    BY SMTT(40), <1>0, <1>1, <2>1, <2>a, <2>b DEF OneEach
  <2>7. K8sTold'
    BY <1>0, <1>1, <2>1, <2>a, <2>b DEF K8sInv, K8sTold
  <2>8. \A v \in Said : About(v)' = About(v)
    BY <2>1, <2>a, <2>b DEF About
  <2>9. K8sCounted'
    <3> SUFFICES ASSUME NEW v \in Said
                 PROVE  /\ About(v)' = {} => times'[v] = dropped'[v]
                        /\ \A i \in About(v)' : times'[v] = dropped'[v] + event_store'[i].count
      BY DEF K8sCounted
    <3>1. CASE v = w
      <4>1. times[w] = dropped[w] + event_store[k].count /\ dropped[w] \in Nat
        BY <1>0, <2>1 DEF K8sInv, K8sCounted, K8sTyped
      <4>2. times'[w] = dropped'[w] + event_store'[k].count
        <5>1. event_store'[k].count = event_store[k].count + 1 /\ event_store[k].count \in Nat /\ dropped'[w] = dropped[w]
          BY <1>0, <2>1, <2>3, <2>a, <2>b
        <5> QED BY <1>2, <4>1, <5>1
      <4> QED BY <2>1, <2>8, <3>1, <4>2
    <3>2. CASE v # w
      <4>1. \A i \in About(v) : event_store'[i] = event_store[i]
        BY <2>1, <2>b, <3>2 DEF About
      <4> QED BY <1>2, <2>3, <2>8, <3>2, <4>1 DEF K8sInv, K8sCounted
    <3> QED BY <3>1, <3>2
  <2> QED BY <1>0, <1>2, <2>3, <2>5, <2>6, <2>7, <2>9 DEF K8sInv, K8sTyped
<1> DEFINE e == [what |-> w, count |-> 1, seq |-> event_seq + 1]
<1>4. e \in Kept /\ e.what = w /\ e.count = 1 /\ e.seq = event_seq'
  BY <1>0, <1>1 DEF Kept
<1>5. Pushed(w) = Append(event_store, e)
  BY DEF Pushed
<1> HIDE DEF e
<1>6. CASE About(w) = {} /\ Len(event_store) < Keep
  <2>1. event_store' = Append(event_store, e) /\ dropped' = dropped
    BY <1>5, <1>6 DEF Add
  <2> DEFINE n == Len(event_store) + 1
  <2>2. /\ event_store' \in Seq(Kept) /\ DOMAIN event_store' = DOMAIN event_store \cup {n} /\ n \notin DOMAIN event_store
        /\ event_store'[n] = e /\ \A i \in DOMAIN event_store : event_store'[i] = event_store[i]
    BY <1>0, <1>4, <2>1 DEF K8sTyped
  <2> HIDE DEF n
  <2>3. OneEach'
    BY <1>0, <1>1, <1>4, <1>6, <2>2 DEF OneEach, About
  <2>4. K8sTold'
    BY <1>0, <1>1, <1>4, <2>2 DEF K8sInv, K8sTold
  <2>5. About(w)' = {n} /\ \A v \in Said \ {w} : About(v)' = About(v)
    BY <1>4, <1>6, <2>2 DEF About
  <2>6. K8sCounted'
    <3> SUFFICES ASSUME NEW v \in Said
                 PROVE  /\ About(v)' = {} => times'[v] = dropped'[v]
                        /\ \A i \in About(v)' : times'[v] = dropped'[v] + event_store'[i].count
      BY DEF K8sCounted
    <3>1. CASE v = w
      <4>1. dropped'[w] = dropped[w] /\ times[w] = dropped[w] /\ dropped[w] \in Nat
        BY <1>0, <1>6, <2>1 DEF K8sInv, K8sCounted, K8sTyped
      <4> QED BY <1>2, <1>4, <2>2, <2>5, <3>1, <4>1
    <3>2. CASE v # w
      <4>1. \A i \in About(v) : event_store'[i] = event_store[i]
        BY <2>2 DEF About
      <4>2. times'[v] = times[v] /\ dropped'[v] = dropped[v] /\ About(v)' = About(v)
        BY <1>2, <2>1, <2>5, <3>2
      <4>3. /\ About(v) = {} => times[v] = dropped[v]
            /\ \A i \in About(v) : times[v] = dropped[v] + event_store[i].count
        BY DEF K8sInv, K8sCounted
      <4> QED BY ONLY <4>1, <4>2, <4>3
    <3> QED BY <3>1, <3>2
  <2> QED BY <1>0, <1>2, <2>1, <2>2, <2>3, <2>4, <2>6 DEF K8sInv, K8sTyped
<1>7. CASE About(w) = {} /\ ~(Len(event_store) < Keep)
  <2> DEFINE n == Len(event_store)
             old == event_store[1]
  <2>1. 1 \in DOMAIN event_store /\ n \in DOMAIN event_store /\ Pushed(w)[1] = old /\ old \in Kept /\ old.what # w
    BY <1>0, <1>4, <1>5, <1>7 DEF About
  <2>2. event_store' = Tail(Append(event_store, e)) /\ dropped' = [dropped EXCEPT ![old.what] = @ + old.count]
    BY <1>5, <1>7, <2>1 DEF Add
  <2>3. /\ event_store' \in Seq(Kept) /\ DOMAIN event_store' = 1..n
        /\ event_store'[n] = e /\ \A i \in 1..n : i # n => event_store'[i] = event_store[i + 1]
    <3> DEFINE all == Append(event_store, e)
    <3>1. /\ all \in Seq(Kept) /\ Len(all) = n + 1 /\ all[n + 1] = e
          /\ \A i \in 1..n : all[i] = event_store[i]
      <4>1. event_store \in Seq(Kept)
        BY <1>0 DEF K8sTyped
      <4> QED BY <1>4, <4>1
    <3>2. event_store' = Tail(all)
      BY <2>2
    <3> HIDE DEF all
    <3>x. all # <<>>
      BY <1>0, <3>1
    <3>3. /\ event_store' \in Seq(Kept) /\ Len(event_store') = n
          /\ \A i \in 1..n : event_store'[i] = all[i + 1]
      BY <1>0, <3>1, <3>2, <3>x
    <3>4. n \in Nat /\ n \in 1..n /\ DOMAIN event_store' = 1..n
      BY <1>0, <2>1, <3>3
    <3> HIDE DEF n
    <3> QED BY <3>1, <3>3, <3>4
  <2>4. /\ \A i \in 1..n : i # n => i + 1 \in DOMAIN event_store /\ i + 1 # 1
        /\ \A i \in DOMAIN event_store : i # 1 => i - 1 \in 1..n /\ i - 1 # n /\ (i - 1) + 1 = i
        /\ DOMAIN event_store = 1..n
    <3>1. n \in Nat /\ DOMAIN event_store = 1..n
      BY <1>0
    <3> HIDE DEF n
    <3> QED BY <3>1
  <2>5. ASSUME NEW i \in DOMAIN event_store, i # 1 PROVE event_store'[i - 1] = event_store[i]
    BY <2>3, <2>4, <2>5
  <2>6. /\ dropped' \in [Said -> Nat] /\ dropped'[old.what] = dropped[old.what] + old.count
        /\ \A v \in Said : v # old.what => dropped'[v] = dropped[v]
    BY SMTT(40), <1>0, <2>1, <2>2 DEF K8sTyped, Kept
  <2> HIDE DEF n, old
  <2>7. OneEach'
    <3>1. \A i, j \in 1..n : event_store'[i].what = event_store'[j].what => i = j
      <4> SUFFICES ASSUME NEW i \in 1..n, NEW j \in 1..n, event_store'[i].what = event_store'[j].what
                   PROVE  i = j
        OBVIOUS
      <4>1. CASE i # n /\ j # n
        <5>1. i + 1 = j + 1
          BY <1>0, <2>3, <2>4, <4>1 DEF OneEach
        <5> QED BY <5>1
      <4>2. \A k \in 1..n : k # n => event_store'[k].what # w
        BY <1>7, <2>3, <2>4 DEF About
      <4> QED BY <1>4, <2>3, <4>1, <4>2
    <3>2. \A i \in 1..n : event_store'[i].seq <= event_seq'
      BY SMTT(40), <1>0, <1>1, <1>4, <2>3, <2>4 DEF OneEach
    <3>3. event_store'[n].seq = event_seq' /\ n \in 1..n
      BY <1>4, <2>1, <2>3, <2>4
    <3> QED BY <2>3, <3>1, <3>2, <3>3 DEF OneEach
  <2>8. K8sTold'
    <3> SUFFICES ASSUME NEW i \in 1..n
                 PROVE  event_store'[i].seq > since_seq' \/ published'[event_store'[i].what] = event_store'[i].count
      BY <2>3 DEF K8sTold
    <3>1. CASE i = n
      BY <1>0, <1>1, <1>4, <2>3, <3>1
    <3>2. CASE i # n
      BY <1>1, <2>3, <2>4, <3>2 DEF K8sInv, K8sTold
    <3> QED BY <3>1, <3>2
  <2>9. K8sCounted'
    <3> SUFFICES ASSUME NEW v \in Said
                 PROVE  /\ About(v)' = {} => times'[v] = dropped'[v]
                        /\ \A i \in About(v)' : times'[v] = dropped'[v] + event_store'[i].count
      BY DEF K8sCounted
    <3>1. CASE v = w
      <4>1. About(w)' = {n}
        <5>1. \A i \in 1..n : i # n => event_store'[i].what # w
          BY <1>7, <2>3, <2>4 DEF About
        <5> QED BY <1>4, <2>1, <2>3, <2>4, <5>1 DEF About
      <4>2. dropped'[w] = dropped[w] /\ times[w] = dropped[w] /\ dropped[w] \in Nat
        BY <1>0, <1>7, <2>1, <2>6 DEF K8sInv, K8sCounted, K8sTyped
      <4> QED BY <1>2, <1>4, <2>3, <3>1, <4>1, <4>2
    <3>2. CASE v = old.what
      <4>1. About(v) = {1}
        BY <1>0, <2>1, <3>2 DEF About, OneEach, old
      <4>2. About(v)' = {}
        BY <1>4, <2>1, <2>3, <2>4, <3>2, <4>1 DEF About
      <4>3. times[v] = dropped[v] + old.count /\ times'[v] = times[v]
        BY <1>2, <2>1, <3>2, <4>1 DEF K8sInv, K8sCounted, old
      <4> QED BY <2>6, <3>2, <4>2, <4>3
    <3>3. CASE v # w /\ v # old.what
      <4>1. times'[v] = times[v] /\ dropped'[v] = dropped[v] /\ 1 \notin About(v)
        BY <1>2, <2>6, <3>3 DEF About, old
      <4>2. \A i \in About(v)' : i # n /\ i \in 1..n /\ i + 1 \in About(v) /\ event_store'[i] = event_store[i + 1]
        BY <1>4, <2>3, <2>4, <3>3 DEF About
      <4>3. \A i \in About(v) : i - 1 \in About(v)'
        <5> SUFFICES ASSUME NEW i \in About(v) PROVE i - 1 \in About(v)'
          OBVIOUS
        <5>1. i \in DOMAIN event_store /\ i # 1 /\ event_store[i].what = v
          BY <4>1 DEF About
        <5> QED BY <2>3, <2>4, <2>5, <5>1 DEF About
      <4> QED BY <4>1, <4>2, <4>3 DEF K8sInv, K8sCounted
    <3> QED BY <3>1, <3>2, <3>3
  <2> QED BY <1>2, <2>3, <2>6, <2>7, <2>8, <2>9 DEF K8sInv, K8sTyped
<1> QED BY <1>3, <1>6, <1>7

\* The store has one event of each thing that was said, its counts and those of the
\* events it has dropped are all that was said, and what the last answer did not
\* have has changed since: the inductive invariant.
THEOREM K8sInvCorrect == K8sSpec => []K8sInv
<1>1. K8sInv /\ [K8sNext]_k8sVars => K8sInv'
  <2>1. K8sInv /\ UNCHANGED k8sVars => K8sInv'
    BY DEF k8sVars, K8sInv, K8sTyped, OneEach, K8sTold, K8sCounted, About
  <2> QED BY <2>1, PollsK8s, AddK8s DEF K8sNext
<1> QED BY <1>1, InitK8s, PTL DEF K8sSpec

\* k8sevents.rs: each time that something was said is counted once, in the one event the
\* list holds of it or in one that it has dropped, and an event that the list still holds
\* has been published as it is or is in the next answer, however EventStore::add, since
\* and the dropping of old events alternate.  (One dropped before it was asked for is
\* never told.)
THEOREM CountedAndToldCorrect == K8sSpec => []CountedAndTold
<1>1. K8sInv => CountedAndTold
  <2> SUFFICES ASSUME K8sInv PROVE CountedAndTold
    OBVIOUS
  <2>1. \A w \in Said : About(w) = {} \/ \E i \in About(w) : About(w) = {i}
    BY DEF K8sInv, OneEach, About
  <2> QED BY <2>1 DEF K8sInv, K8sTold, K8sCounted, CountedAndTold
<1> QED BY <1>1, K8sInvCorrect, PTL

-----------------------------------------------------------------------------
(* Follow: a viewer sees what it asks for, or how much it missed.          *)

Entry == [line : Nat, severity : Nat, child : BOOLEAN]
Viewer == [pc : {"away", "snapshot", "live"}, ask : Asks, at : Nat, since : Nat,
           shown : SUBSET Nat, passed : SUBSET Nat, skipped : Nat]
OnScreen == {screen.rows[k] : k \in DOMAIN screen.rows} \cup screen.off

FollowTyped ==
  /\ made \in Nat
  /\ reader \in [Readers -> [pc : {"line", "all"}, lines : Seq(Entry)]]
  /\ \A r \in Readers : reader[r].pc = "all" => reader[r].lines # <<>>
  /\ screen \in [rows : Seq(Nat), off : SUBSET Nat]
  /\ ingest \in [pc : {"idle", "all"}, entry : Entry]
  /\ channel \in [Channels -> Seq(Entry)]
  /\ viewer \in [Viewers -> Viewer]

\* A child's line has been on the screen before it is published.
FedFirst ==
  /\ \A r \in Readers : \A k \in DOMAIN reader[r].lines : reader[r].lines[k].line \in OnScreen
  /\ \A i \in DOMAIN channel["process"] : channel["process"][i].child => channel["process"][i].line \in OnScreen

Sent(v) == channel[viewer[v].ask.on]
\* The entries a follower asked for and has been passed over with.
Unshown(v) ==
  {i \in viewer[v].since..(viewer[v].at - 1) :
     Sent(v)[i].severity <= viewer[v].ask.least /\ Sent(v)[i].line \notin viewer[v].shown}

\* Where a follower is, what it had of what was there before, and what it has missed since.
InPlace ==
  \A v \in Viewers : viewer[v].pc # "away" =>
    /\ viewer[v].since \in 1..viewer[v].at /\ viewer[v].at <= Len(Sent(v)) + 1
    /\ viewer[v].ask.view = "console" => viewer[v].ask.on = "process"
    /\ viewer[v].pc = "snapshot" => viewer[v].at = viewer[v].since /\ viewer[v].skipped = 0
HadBefore ==
  \A v \in Viewers : viewer[v].pc = "live" /\ viewer[v].ask.view = "console" =>
    \A i \in 1..(viewer[v].since - 1) :
      Sent(v)[i].child => Sent(v)[i].line \in viewer[v].shown \cup viewer[v].passed
MissedCounted == \A v \in Viewers : viewer[v].pc # "away" => Cardinality(Unshown(v)) <= viewer[v].skipped

FollowInv == FollowTyped /\ FedFirst /\ InPlace /\ HadBefore /\ MissedCounted

\* The lines that a viewer was not shown are finitely many.
LEMMA UnshownFinite ==
  ASSUME FollowTyped, NEW v \in Viewers
  PROVE  IsFiniteSet(Unshown(v)) /\ Cardinality(Unshown(v)) \in Nat
<1>1. viewer[v].since \in Int /\ viewer[v].at - 1 \in Int
  BY DEF FollowTyped, Viewer
<1>2. IsFiniteSet(viewer[v].since..(viewer[v].at - 1))
  BY <1>1, FS_Interval
<1>3. IsFiniteSet(Unshown(v))
  BY <1>2, FS_Subset DEF Unshown
<1> QED BY <1>3, FS_CardinalityType

LEMMA InitFollow == FollowInit => FollowInv
<1> SUFFICES ASSUME FollowInit PROVE FollowInv
  OBVIOUS
<1>1. Away \in Viewer /\ Away.pc = "away"
  BY DEF Away, Viewer, Asks, Debug, Severity, Channels
<1>2. FollowTyped
  <2>1. ingest \in [pc : {"idle", "all"}, entry : Entry]
    BY DEF FollowInit, IdleViewer, NoEntry, Entry, Debug
  <2> QED BY <1>1, <2>1 DEF FollowInit, FollowTyped
<1>3. FedFirst
  BY DEF FollowInit, FedFirst, Channels
<1> QED BY <1>1, <1>2, <1>3 DEF FollowInit, FollowInv, InPlace, HadBefore, MissedCounted

\* What the channels are given and the screen is fed leaves every follower where it was.
LEMMA ViewersStay ==
  ASSUME FollowInv, UNCHANGED viewer, channel' \in [Channels -> Seq(Entry)],
         \A c \in Channels : /\ Len(channel'[c]) >= Len(channel[c])
                             /\ \A i \in 1..Len(channel[c]) : channel'[c][i] = channel[c][i]
  PROVE  InPlace' /\ HadBefore' /\ MissedCounted'
<1>1. ASSUME NEW v \in Viewers, viewer[v].pc # "away"
      PROVE  /\ Sent(v)' = channel'[viewer[v].ask.on] /\ Len(Sent(v)') >= Len(Sent(v))
             /\ \A i \in 1..(viewer[v].at - 1) : Sent(v)'[i] = Sent(v)[i]
             /\ viewer[v].at \in Nat /\ viewer[v].since \in 1..viewer[v].at /\ Len(Sent(v)) \in Nat /\ Len(Sent(v)') \in Nat
             /\ viewer[v].at <= Len(Sent(v)) + 1
  <2>1. viewer[v] \in Viewer /\ viewer[v].ask.on \in Channels /\ viewer[v].at \in Nat
    BY DEF FollowInv, FollowTyped, Viewer, Asks, Channels
  <2>2. Len(Sent(v)) \in Nat /\ Len(channel'[viewer[v].ask.on]) \in Nat
    BY <2>1 DEF Sent, FollowInv, FollowTyped
  <2>3. Sent(v)' = channel'[viewer[v].ask.on]
    BY DEF Sent
  <2>4. viewer[v].since \in 1..viewer[v].at /\ viewer[v].at <= Len(Sent(v)) + 1
    BY <1>1 DEF FollowInv, InPlace
  <2>5. \A i \in 1..(viewer[v].at - 1) : i \in 1..Len(Sent(v))
    BY <2>1, <2>2, <2>4
  <2>6. Len(Sent(v)') >= Len(Sent(v)) /\ \A i \in 1..Len(Sent(v)) : Sent(v)'[i] = Sent(v)[i]
    BY <2>1, <2>3 DEF Sent
  <2> QED BY <2>1, <2>2, <2>3, <2>4, <2>5, <2>6
<1>2. InPlace'
  BY <1>1 DEF FollowInv, InPlace
<1>3. HadBefore'
  <2> SUFFICES ASSUME NEW v \in Viewers, viewer[v].pc = "live", viewer[v].ask.view = "console",
                      NEW i \in 1..(viewer[v].since - 1), Sent(v)'[i].child
               PROVE  Sent(v)'[i].line \in viewer[v].shown \cup viewer[v].passed
    BY DEF HadBefore
  <2>1. Sent(v)'[i] = Sent(v)[i]
    BY <1>1
  <2> QED BY <2>1 DEF FollowInv, HadBefore
<1>4. MissedCounted'
  <2> SUFFICES ASSUME NEW v \in Viewers, viewer[v].pc # "away"
               PROVE  Cardinality(Unshown(v)') <= viewer[v].skipped
    BY DEF MissedCounted
  <2>1. \A i \in viewer[v].since..(viewer[v].at - 1) : Sent(v)'[i] = Sent(v)[i]
    BY <1>1
  <2>2. Unshown(v)' = Unshown(v)
    BY <2>1 DEF Unshown
  <2> QED BY <2>2 DEF FollowInv, MissedCounted
<1> QED BY <1>2, <1>3, <1>4

\* Publishing: an entry at the end of a channel, which a child's line is on the screen before.
LEMMA Published ==
  ASSUME FollowInv, NEW c \in Channels, NEW e \in Entry, channel' = [channel EXCEPT ![c] = Append(@, e)],
         UNCHANGED screen, c = "process" /\ e.child => e.line \in OnScreen
  PROVE  /\ channel' \in [Channels -> Seq(Entry)]
         /\ \A d \in Channels : /\ Len(channel'[d]) >= Len(channel[d])
                                /\ \A i \in 1..Len(channel[d]) : channel'[d][i] = channel[d][i]
         /\ \A i \in DOMAIN channel'["process"] : channel'["process"][i].child => channel'["process"][i].line \in OnScreen'
<1>1. channel \in [Channels -> Seq(Entry)] /\ "process" \in Channels /\ channel[c] \in Seq(Entry)
  BY DEF FollowInv, FollowTyped, Channels
<1> DEFINE new == Append(channel[c], e)
<1>2. /\ new \in Seq(Entry) /\ Len(new) = Len(channel[c]) + 1 /\ new[Len(channel[c]) + 1] = e
      /\ \A i \in 1..Len(channel[c]) : new[i] = channel[c][i]
  BY <1>1
<1>3. channel' = [channel EXCEPT ![c] = new]
  OBVIOUS
<1> HIDE DEF new
<1>4. channel' \in [Channels -> Seq(Entry)] /\ channel'[c] = new /\ \A d \in Channels \ {c} : channel'[d] = channel[d]
  BY <1>1, <1>2, <1>3
<1>5. \A d \in Channels : Len(channel[d]) \in Nat
  BY <1>1
<1>6. ASSUME NEW i \in DOMAIN channel'["process"], channel'["process"][i].child
      PROVE  channel'["process"][i].line \in OnScreen'
  <2>1. OnScreen' = OnScreen
    BY DEF OnScreen
  <2>2. CASE c # "process"
    BY <1>1, <1>4, <1>6, <2>1, <2>2 DEF FollowInv, FedFirst
  <2>3. CASE c = "process"
    <3>1. i \in 1..(Len(channel[c]) + 1) /\ DOMAIN channel[c] = 1..Len(channel[c])
      BY <1>1, <1>2, <1>4, <2>3
    <3>2. CASE i = Len(channel[c]) + 1
      BY <1>2, <1>4, <1>6, <2>1, <2>3, <3>2
    <3>3. CASE i \in 1..Len(channel[c])
      BY <1>2, <1>4, <1>6, <2>1, <2>3, <3>1, <3>3 DEF FollowInv, FedFirst
    <3> QED BY <1>5, <3>1, <3>2, <3>3
  <2> QED BY <2>2, <2>3
<1> QED BY <1>2, <1>4, <1>5, <1>6

LEMMA FedKeeps ==
  ASSUME FollowInv, NEW lines \in Seq(Nat), screen' = Fed(lines)
  PROVE  /\ screen' \in [rows : Seq(Nat), off : SUBSET Nat]
         /\ OnScreen' = OnScreen \cup {lines[k] : k \in DOMAIN lines}
<1> USE FollowAssumption
<1> DEFINE all == screen.rows \o lines
           off == IF Len(all) > Rows THEN Len(all) - Rows ELSE 0
<1>1. screen \in [rows : Seq(Nat), off : SUBSET Nat] /\ screen.rows \in Seq(Nat)
  BY DEF FollowInv, FollowTyped
<1>2. /\ all \in Seq(Nat) /\ Len(all) = Len(screen.rows) + Len(lines)
      /\ \A k \in 1..Len(screen.rows) : all[k] = screen.rows[k]
      /\ \A k \in 1..Len(lines) : all[Len(screen.rows) + k] = lines[k]
      /\ Len(screen.rows) \in Nat /\ Len(lines) \in Nat
      /\ DOMAIN screen.rows = 1..Len(screen.rows) /\ DOMAIN lines = 1..Len(lines)
  BY <1>1
<1>3. {all[k] : k \in 1..Len(all)} = {screen.rows[k] : k \in DOMAIN screen.rows} \cup {lines[k] : k \in DOMAIN lines}
  <2>1. \A k \in 1..Len(all) : k \in 1..Len(screen.rows)
                               \/ (k - Len(screen.rows) \in 1..Len(lines) /\ Len(screen.rows) + (k - Len(screen.rows)) = k)
    BY <1>2
  <2>2. \A k \in 1..Len(all) : all[k] \in {screen.rows[j] : j \in DOMAIN screen.rows} \cup {lines[j] : j \in DOMAIN lines}
    <3> SUFFICES ASSUME NEW k \in 1..Len(all)
                 PROVE  all[k] \in {screen.rows[j] : j \in DOMAIN screen.rows} \cup {lines[j] : j \in DOMAIN lines}
      OBVIOUS
    <3>1. CASE k \in 1..Len(screen.rows)
      BY <1>2, <3>1
    <3>2. ASSUME NEW j \in 1..Len(lines), Len(screen.rows) + j = k
          PROVE  all[k] = lines[j]
      BY <1>2, <3>2
    <3> QED BY <1>2, <2>1, <3>1, <3>2
  <2>3. \A k \in 1..Len(screen.rows) : k \in 1..Len(all)
    BY <1>2
  <2>4. \A k \in 1..Len(lines) : Len(screen.rows) + k \in 1..Len(all)
    BY <1>2
  <2> HIDE DEF all
  <2> QED BY <1>2, <2>2, <2>3, <2>4
<1>4. screen' = [rows |-> SubSeq(all, off + 1, Len(all)), off |-> screen.off \cup {all[k] : k \in 1..off}]
  BY DEF Fed
<1>5. off \in 0..Len(all) /\ Len(all) \in Nat
  BY <1>2
<1> HIDE DEF all, off
<1>6. /\ screen'.rows \in Seq(Nat) /\ Len(screen'.rows) = Len(all) - off
      /\ \A k \in 1..(Len(all) - off) : screen'.rows[k] = all[off + k]
      /\ screen'.off = screen.off \cup {all[k] : k \in 1..off}
  BY <1>2, <1>4, <1>5
<1>7. {all[k] : k \in 1..Len(all)} = {screen'.rows[k] : k \in DOMAIN screen'.rows} \cup {all[k] : k \in 1..off}
  <2>1. DOMAIN screen'.rows = 1..(Len(all) - off)
    BY <1>5, <1>6
  <2>2. \A k \in 1..(Len(all) - off) : off + k \in 1..Len(all)
    BY <1>5
  <2>3. \A k \in 1..Len(all) : k \in 1..off \/ (k - off \in 1..(Len(all) - off) /\ off + (k - off) = k)
    BY <1>5
  <2>4. 1..off \subseteq 1..Len(all)
    BY <1>5
  <2>5. \A k \in 1..Len(all) : all[k] \in {screen'.rows[j] : j \in DOMAIN screen'.rows} \cup {all[j] : j \in 1..off}
    <3> SUFFICES ASSUME NEW k \in 1..Len(all), k \notin 1..off
                 PROVE  all[k] \in {screen'.rows[j] : j \in DOMAIN screen'.rows}
      OBVIOUS
    <3>1. k - off \in DOMAIN screen'.rows /\ screen'.rows[k - off] = all[off + (k - off)]
      BY <1>6, <2>1, <2>3
    <3> QED BY <2>3, <3>1
  <2> QED BY <1>6, <2>1, <2>2, <2>4, <2>5
<1>8. OnScreen' = OnScreen \cup {lines[k] : k \in DOMAIN lines}
  BY <1>3, <1>6, <1>7 DEF OnScreen
<1>9. \A k \in 1..off : all[k] \in Nat
  BY <1>2, <1>5
<1> QED BY <1>1, <1>4, <1>6, <1>8, <1>9

LEMMA WritersFollow ==
  ASSUME FollowInv,
         (\E r \in Readers : ReadChunk(r) \/ PublishProcess(r) \/ PublishAll(r)) \/ IngestEntry \/ IngestAll
  PROVE  FollowInv'
<1>0. /\ FollowTyped /\ made \in Nat /\ reader \in [Readers -> [pc : {"line", "all"}, lines : Seq(Entry)]]
      /\ channel \in [Channels -> Seq(Entry)] /\ "process" \in Channels /\ "all" \in Channels
  BY DEF FollowInv, FollowTyped, Channels
<1>1. ASSUME NEW r \in Readers, ReadChunk(r)
      PROVE  FollowInv'
  <2>1. PICK n \in 1..2, severity \in {Default[r], Severity.error} :
          /\ made' = made + n
          /\ reader' = [reader EXCEPT ![r] = [pc |-> "line",
               lines |-> [k \in 1..n |-> [line |-> made + k, severity |-> severity, child |-> TRUE]]]]
          /\ screen' = Fed([k \in 1..n |-> made + k])
    BY <1>1 DEF ReadChunk
  <2> DEFINE lines == [k \in 1..n |-> [line |-> made + k, severity |-> severity, child |-> TRUE]]
             fed == [k \in 1..n |-> made + k]
  <2>2. severity \in Nat
    BY DEF Default, Severity, Readers
  <2>3. fed \in Seq(Nat) /\ DOMAIN fed = 1..n /\ \A k \in 1..n : fed[k] = made + k
    <3>1. n \in Nat /\ \A k \in 1..n : made + k \in Nat
      BY <1>0
    <3> QED BY <3>1
  <2>4. lines \in Seq(Entry) /\ DOMAIN lines = 1..n /\ \A k \in 1..n : lines[k].line = made + k
    <3>1. n \in Nat /\ \A k \in 1..n : made + k \in Nat
      BY <1>0
    <3>2. \A k \in 1..n : lines[k] \in Entry
      BY <2>2, <3>1 DEF Entry
    <3> QED BY <3>1, <3>2
  <2>5. /\ reader' = [reader EXCEPT ![r] = [pc |-> "line", lines |-> lines]] /\ screen' = Fed(fed)
        /\ UNCHANGED <<ingest, channel, viewer>>
    BY <1>1, <2>1 DEF ReadChunk
  <2>6. made' \in Nat
    BY <1>0, <2>1
  <2> HIDE DEF lines, fed
  <2>7. /\ reader' \in [Readers -> [pc : {"line", "all"}, lines : Seq(Entry)]]
        /\ reader'[r].pc = "line" /\ reader'[r].lines = lines /\ \A q \in Readers \ {r} : reader'[q] = reader[q]
    BY <1>0, <2>4, <2>5
  <2>8. screen' \in [rows : Seq(Nat), off : SUBSET Nat] /\ OnScreen' = OnScreen \cup {fed[k] : k \in DOMAIN fed}
    BY <2>3, <2>5, FedKeeps
  <2>9. FollowTyped'
    BY <2>5, <2>6, <2>7, <2>8 DEF FollowInv, FollowTyped
  <2>10. FedFirst'
    BY <2>3, <2>4, <2>5, <2>7, <2>8 DEF FollowInv, FedFirst
  <2>11. InPlace' /\ HadBefore' /\ MissedCounted'
    <3>1. channel' = channel /\ \A c \in Channels : Len(channel[c]) \in Nat
      BY <1>0, <2>5
    <3> QED BY <1>0, <2>5, <3>1, ViewersStay
  <2> QED BY <2>9, <2>10, <2>11 DEF FollowInv
<1>2. ASSUME NEW r \in Readers, PublishProcess(r) \/ PublishAll(r)
      PROVE  FollowInv'
  <2> DEFINE e == Head(reader[r].lines)
  <2>1. PICK c \in Channels :
          /\ reader[r].lines # <<>> /\ channel' = [channel EXCEPT ![c] = Append(@, e)]
          /\ \/ reader' = [reader EXCEPT ![r].pc = "all"]
             \/ reader' = [reader EXCEPT ![r] = [pc |-> "line", lines |-> Tail(@.lines)]]
          /\ UNCHANGED <<made, screen, ingest, viewer>>
    BY <1>0, <1>2 DEF PublishProcess, PublishAll, FollowTyped
  <2>2. reader[r].lines \in Seq(Entry)
    BY <1>0
  <2>3. e \in Entry /\ e.line \in OnScreen
    <3>1. e = reader[r].lines[1] /\ 1 \in DOMAIN reader[r].lines
      BY <2>1, <2>2
    <3> QED BY <2>2, <3>1 DEF FollowInv, FedFirst
  <2>4. /\ Tail(reader[r].lines) \in Seq(Entry)
        /\ \A k \in DOMAIN Tail(reader[r].lines) :
             k + 1 \in DOMAIN reader[r].lines /\ Tail(reader[r].lines)[k] = reader[r].lines[k + 1]
    BY <2>1, <2>2
  <2>5. /\ reader' \in [Readers -> [pc : {"line", "all"}, lines : Seq(Entry)]]
        /\ reader'[r].lines \in {reader[r].lines, Tail(reader[r].lines)}
        /\ reader'[r].pc = "all" => reader'[r].lines = reader[r].lines
        /\ \A q \in Readers \ {r} : reader'[q] = reader[q]
    <3>1. CASE reader' = [reader EXCEPT ![r].pc = "all"]
      BY <1>0, <3>1
    <3>2. CASE reader' = [reader EXCEPT ![r] = [pc |-> "line", lines |-> Tail(@.lines)]]
      <4>1. [pc |-> "line", lines |-> Tail(reader[r].lines)] \in [pc : {"line", "all"}, lines : Seq(Entry)]
        BY <2>4
      <4> QED BY <1>0, <3>2, <4>1
    <3> QED BY <2>1, <3>1, <3>2
  <2> HIDE DEF e
  <2>6. /\ channel' \in [Channels -> Seq(Entry)]
        /\ \A d \in Channels : /\ Len(channel'[d]) >= Len(channel[d])
                               /\ \A i \in 1..Len(channel[d]) : channel'[d][i] = channel[d][i]
        /\ \A i \in DOMAIN channel'["process"] : channel'["process"][i].child => channel'["process"][i].line \in OnScreen'
    BY <2>1, <2>3, Published
  <2>7. FollowTyped'
    BY <2>1, <2>5, <2>6 DEF FollowInv, FollowTyped
  <2>8. FedFirst'
    <3>1. OnScreen' = OnScreen
      BY <2>1 DEF OnScreen
    <3>2. \A k \in DOMAIN reader'[r].lines : reader'[r].lines[k].line \in OnScreen
      <4>1. CASE reader'[r].lines = reader[r].lines
        BY <4>1 DEF FollowInv, FedFirst
      <4>2. CASE reader'[r].lines = Tail(reader[r].lines)
        BY <2>4, <4>2 DEF FollowInv, FedFirst
      <4> QED BY <2>5, <4>1, <4>2
    <3> QED BY <2>5, <2>6, <3>1, <3>2 DEF FollowInv, FedFirst
  <2>9. InPlace' /\ HadBefore' /\ MissedCounted'
    BY <2>1, <2>6, ViewersStay
  <2> QED BY <2>7, <2>8, <2>9 DEF FollowInv
<1>3. CASE IngestEntry \/ IngestAll
  <2>1. PICK c \in Channels, e \in Entry :
          /\ channel' = [channel EXCEPT ![c] = Append(@, e)] /\ (c = "process" => ~e.child)
          /\ ingest' \in [pc : {"idle", "all"}, entry : Entry] /\ made' \in Nat
          /\ UNCHANGED <<reader, screen, viewer>>
    <3>1. CASE IngestEntry
      <4>1. PICK severity \in {Severity.info, Severity.error} :
              /\ made' = made + 1
              /\ ingest' = [pc |-> "all", entry |-> [line |-> made + 1, severity |-> severity, child |-> FALSE]]
              /\ channel' = [channel EXCEPT !["process"] = Append(@, [line |-> made + 1, severity |-> severity, child |-> FALSE])]
              /\ UNCHANGED <<reader, screen, viewer>>
        BY <3>1 DEF IngestEntry
      <4>2. [line |-> made + 1, severity |-> severity, child |-> FALSE] \in Entry /\ made + 1 \in Nat
        BY <1>0 DEF Entry, Severity
      <4> QED BY <1>0, <4>1, <4>2
    <3>2. CASE IngestAll
      <4>1. ingest.entry \in Entry /\ IdleViewer \in [pc : {"idle", "all"}, entry : Entry]
        BY <1>0 DEF FollowTyped, IdleViewer, NoEntry, Entry, Debug
      <4> QED BY <1>0, <3>2, <4>1 DEF IngestAll
    <3> QED BY <1>3, <3>1, <3>2
  <2>2. /\ channel' \in [Channels -> Seq(Entry)]
        /\ \A d \in Channels : /\ Len(channel'[d]) >= Len(channel[d])
                               /\ \A i \in 1..Len(channel[d]) : channel'[d][i] = channel[d][i]
        /\ \A i \in DOMAIN channel'["process"] : channel'["process"][i].child => channel'["process"][i].line \in OnScreen'
    BY <2>1, Published
  <2>3. FollowTyped'
    BY <2>1, <2>2 DEF FollowInv, FollowTyped
  <2>4. FedFirst'
    BY <2>1, <2>2 DEF FollowInv, FedFirst, OnScreen
  <2>5. InPlace' /\ HadBefore' /\ MissedCounted'
    BY <2>1, <2>2, ViewersStay
  <2> QED BY <2>3, <2>4, <2>5 DEF FollowInv
<1> QED BY <1>1, <1>2, <1>3

-----------------------------------------------------------------------------
\* A step of one follower, from what it makes of that follower.
LEMMA OneViewer ==
  ASSUME FollowInv, NEW v \in Viewers, NEW w \in Viewer, viewer' = [viewer EXCEPT ![v] = w],
         UNCHANGED <<made, reader, screen, ingest, channel>>,
         w.pc # "away" =>
           /\ w.since \in 1..w.at /\ w.at <= Len(channel[w.ask.on]) + 1
           /\ w.pc = "snapshot" => w.at = w.since /\ w.skipped = 0
           /\ Cardinality({i \in w.since..(w.at - 1) :
                             channel[w.ask.on][i].severity <= w.ask.least /\ channel[w.ask.on][i].line \notin w.shown})
                <= w.skipped,
         w.pc = "live" /\ w.ask.view = "console" =>
           \A i \in 1..(w.since - 1) : channel[w.ask.on][i].child => channel[w.ask.on][i].line \in w.shown \cup w.passed
  PROVE  FollowInv'
<1>1. viewer \in [Viewers -> Viewer]
  BY DEF FollowInv, FollowTyped
<1>2. viewer' \in [Viewers -> Viewer] /\ viewer'[v] = w /\ \A u \in Viewers \ {v} : viewer'[u] = viewer[u]
  BY <1>1
<1>3. w.ask.view = "console" => w.ask.on = "process"
  BY DEF Viewer, Asks
<1>4. FollowTyped' /\ FedFirst'
  BY <1>2 DEF FollowInv, FollowTyped, FedFirst, OnScreen
<1>5. \A u \in Viewers \ {v} : Sent(u)' = Sent(u) /\ Unshown(u)' = Unshown(u)
  BY <1>2 DEF Sent, Unshown
<1>6. Sent(v)' = channel[w.ask.on]
  BY <1>2 DEF Sent
<1>7. InPlace'
  BY <1>2, <1>3, <1>5, <1>6 DEF FollowInv, InPlace
<1>8. HadBefore'
  BY <1>2, <1>5, <1>6 DEF FollowInv, HadBefore
<1>9. MissedCounted'
  <2>1. Unshown(v)' = {i \in w.since..(w.at - 1) :
                         channel[w.ask.on][i].severity <= w.ask.least /\ channel[w.ask.on][i].line \notin w.shown}
    BY <1>2, <1>6 DEF Unshown
  <2> QED BY <1>2, <1>5, <2>1 DEF FollowInv, MissedCounted
<1> QED BY <1>4, <1>7, <1>8, <1>9 DEF FollowInv

LEMMA ComeAndGo ==
  ASSUME FollowInv, NEW v \in Viewers, Subscribe(v) \/ Snapshot(v) \/ Closed(v)
  PROVE  FollowInv'
<1>0. /\ FollowTyped /\ viewer \in [Viewers -> Viewer] /\ viewer[v] \in Viewer /\ channel \in [Channels -> Seq(Entry)]
      /\ \A n \in Nat : Cardinality({i \in n..(n - 1) : FALSE}) = 0
  <2>1. \A n \in Nat : {i \in n..(n - 1) : FALSE} = {}
    OBVIOUS
  <2> QED BY <2>1, FS_EmptySet DEF FollowInv, FollowTyped
<1>1. CASE Subscribe(v)
  <2>1. PICK ask \in Asks :
          viewer' = [viewer EXCEPT ![v] =
                       [Away EXCEPT !.pc = IF ask.view = "console" THEN "snapshot" ELSE "live",
                                    !.ask = ask, !.at = Len(channel[ask.on]) + 1, !.since = Len(channel[ask.on]) + 1]]
    BY <1>1 DEF Subscribe
  <2> DEFINE n == Len(channel[ask.on]) + 1
             p == IF ask.view = "console" THEN "snapshot" ELSE "live"
             w == [Away EXCEPT !.pc = p, !.ask = ask, !.at = n, !.since = n]
  <2>2. ask.on \in Channels /\ n \in Nat /\ n >= 1 /\ n <= Len(channel[ask.on]) + 1
        /\ (ask.view = "console" => ask.on = "process")
    <3>1. ask.on \in Channels /\ (ask.view = "console" => ask.on = "process")
      BY DEF Asks, Channels
    <3>2. Len(channel[ask.on]) \in Nat
      BY <1>0, <3>1
    <3> QED BY <3>1, <3>2
  <2>3. viewer' = [viewer EXCEPT ![v] = w]
    BY <2>1
  <2>4. Away \in Viewer /\ Away.shown = {} /\ Away.skipped = 0
    BY DEF Away, Viewer, Asks, Debug, Severity, Channels
  <2>5. p \in {"away", "snapshot", "live"} /\ ~(p = "live" /\ ask.view = "console") /\ (p = "snapshot" => ask.view = "console")
    OBVIOUS
  <2> HIDE DEF n, p
  <2>6. w \in Viewer /\ w.pc = p /\ w.ask = ask /\ w.at = n /\ w.since = n /\ w.shown = {} /\ w.skipped = 0
    <3>1. w \in Viewer /\ w.pc = p /\ w.ask = ask /\ w.at = n /\ w.since = n /\ w.shown = Away.shown /\ w.skipped = Away.skipped
      <4>1. Away \in Viewer /\ p \in {"away", "snapshot", "live"} /\ ask \in Asks /\ n \in Nat
        BY <2>2, <2>4, <2>5
      <4> QED BY ONLY <4>1 DEF Viewer
    <3> QED BY <2>4, <3>1
  <2> HIDE DEF w
  <2>7. w.since \in 1..w.at /\ w.at <= Len(channel[w.ask.on]) + 1
        /\ (w.ask.view = "console" => w.ask.on = "process")
    BY <2>2, <2>6
  <2>8. Cardinality({i \in w.since..(w.at - 1) :
                       channel[w.ask.on][i].severity <= w.ask.least /\ channel[w.ask.on][i].line \notin w.shown}) <= w.skipped
    <3>1. \A i \in w.since..(w.at - 1) : FALSE
      BY <2>2, <2>6
    <3>2. {i \in w.since..(w.at - 1) :
             channel[w.ask.on][i].severity <= w.ask.least /\ channel[w.ask.on][i].line \notin w.shown} = {}
      BY <3>1
    <3>3. Cardinality({}) = 0 /\ w.skipped = 0 /\ 0 <= 0
      BY <2>6, FS_EmptySet
    <3> QED BY <3>2, <3>3
  <2>9. UNCHANGED <<made, reader, screen, ingest, channel>>
    BY <1>1 DEF Subscribe
  <2>10. ~(w.pc = "live" /\ w.ask.view = "console")
    BY <2>5, <2>6
  <2> QED BY <2>3, <2>6, <2>7, <2>8, <2>9, <2>10, OneViewer
<1>2. CASE Snapshot(v)
  <2> DEFINE rows == {screen.rows[k] : k \in DOMAIN screen.rows}
             w == [viewer[v] EXCEPT !.pc = "live", !.shown = rows, !.passed = screen.off]
  <2>1. viewer[v].pc = "snapshot" /\ viewer' = [viewer EXCEPT ![v] = w] /\ UNCHANGED <<made, reader, screen, ingest, channel>>
    BY <1>0, <1>2 DEF Snapshot
  <2>2. rows \subseteq Nat /\ screen.off \subseteq Nat
    BY <1>0 DEF FollowTyped
  <2> HIDE DEF rows
  <2>3. w \in Viewer /\ w.pc = "live" /\ w.ask = viewer[v].ask /\ w.at = viewer[v].at /\ w.since = viewer[v].since
        /\ w.shown = rows /\ w.passed = screen.off /\ w.skipped = viewer[v].skipped
    BY <1>0, <2>2 DEF Viewer
  <2> HIDE DEF w
  <2>4. /\ w.since \in 1..w.at /\ w.at <= Len(channel[w.ask.on]) + 1 /\ w.at = w.since /\ w.skipped = 0 /\ w.at \in Nat
        /\ w.ask.view = "console" => w.ask.on = "process"
    BY <1>0, <2>1, <2>3 DEF FollowInv, InPlace, Sent, Viewer
  <2>5. Cardinality({i \in w.since..(w.at - 1) :
                       channel[w.ask.on][i].severity <= w.ask.least /\ channel[w.ask.on][i].line \notin w.shown}) <= w.skipped
    <3>1. \A i \in w.since..(w.at - 1) : FALSE
      BY <2>4
    <3>2. {i \in w.since..(w.at - 1) :
             channel[w.ask.on][i].severity <= w.ask.least /\ channel[w.ask.on][i].line \notin w.shown} = {}
      BY <3>1
    <3>3. Cardinality({}) = 0 /\ w.skipped = 0 /\ 0 <= 0
      BY <2>4, FS_EmptySet
    <3> QED BY <3>2, <3>3
  <2>6. w.ask.view = "console" =>
          \A i \in 1..(w.since - 1) : channel[w.ask.on][i].child => channel[w.ask.on][i].line \in w.shown \cup w.passed
    <3> SUFFICES ASSUME w.ask.on = "process", NEW i \in 1..(w.since - 1), channel["process"][i].child
                 PROVE  channel["process"][i].line \in w.shown \cup w.passed
      BY <2>4
    <3>1. i \in DOMAIN channel["process"]
      <4>1. channel["process"] \in Seq(Entry)
        BY <1>0 DEF Channels
      <4>2. i \in 1..Len(channel["process"])
        BY <2>4, <4>1
      <4> QED BY <4>1, <4>2
    <3> QED BY <2>3, <3>1 DEF FollowInv, FedFirst, OnScreen, rows
  <2> QED BY <2>1, <2>3, <2>4, <2>5, <2>6, OneViewer
<1>3. CASE Closed(v)
  <2>1. Away \in Viewer /\ Away.pc = "away"
    BY DEF Away, Viewer, Asks, Debug, Severity, Channels
  <2>2. viewer' = [viewer EXCEPT ![v] = Away] /\ UNCHANGED <<made, reader, screen, ingest, channel>>
    BY <1>3 DEF Closed
  <2> QED BY <2>1, <2>2, OneViewer
<1> QED BY <1>1, <1>2, <1>3

LEMMA TakeEntries ==
  ASSUME FollowInv, NEW v \in Viewers, Lagged(v) \/ Receive(v)
  PROVE  FollowInv'
<1> DEFINE sent == channel[viewer[v].ask.on]
           since == viewer[v].since
           at == viewer[v].at
<1>0. /\ FollowTyped /\ viewer \in [Viewers -> Viewer] /\ viewer[v] \in Viewer /\ viewer[v].pc = "live"
      /\ channel \in [Channels -> Seq(Entry)]
  BY DEF FollowInv, FollowTyped, Lagged, Receive
<1>1. viewer[v].ask.on \in Channels /\ sent \in Seq(Entry) /\ Len(sent) \in Nat
  <2>1. viewer[v].ask.on \in Channels
    BY <1>0 DEF Viewer, Asks, Channels
  <2>2. sent \in Seq(Entry)
    BY <1>0, <2>1
  <2> QED BY <2>1, <2>2
<1>2. since \in 1..at /\ at \in Nat /\ at <= Len(sent) + 1 /\ viewer[v].skipped \in Nat
  BY <1>0 DEF FollowInv, InPlace, Sent, Viewer
<1>3. Sent(v) = sent /\ Cardinality(Unshown(v)) <= viewer[v].skipped
      /\ IsFiniteSet(Unshown(v)) /\ Cardinality(Unshown(v)) \in Nat
  BY <1>0, UnshownFinite DEF FollowInv, MissedCounted, Sent
<1>4. viewer[v].ask.view = "console" => \A i \in 1..(since - 1) : sent[i].child => sent[i].line \in viewer[v].shown \cup viewer[v].passed
  BY <1>0, <1>3 DEF FollowInv, HadBefore
<1>5. UNCHANGED <<made, reader, screen, ingest, channel>>
  BY DEF Lagged, Receive
<1> HIDE DEF sent, since, at
<1>6. CASE Lagged(v)
  <2> DEFINE missed == Len(sent) - at + 1 - Capacity
             a == at + missed
             k == viewer[v].skipped + missed
             w == [viewer[v] EXCEPT !.at = a, !.skipped = k]
  <2>1. missed \in Nat \ {0} /\ a \in Nat /\ k \in Nat /\ a <= Len(sent) + 1
    <3>1. Len(sent) - at + 1 > Capacity
      BY <1>6 DEF Lagged, Behind, sent, at
    <3> QED BY <1>1, <1>2, <3>1, FollowAssumption
  <2>2. viewer' = [viewer EXCEPT ![v] = w]
    <3>1. Behind(v) - Capacity = missed
      BY <1>6, <1>1, <1>2, FollowAssumption DEF Behind, sent, at
    <3>2. viewer' = [viewer EXCEPT ![v].at = @ + missed, ![v].skipped = @ + missed]
      BY <1>6, <3>1 DEF Lagged
    <3> HIDE DEF missed
    <3>3. viewer' = [viewer EXCEPT ![v] = [viewer[v] EXCEPT !.at = @ + missed, !.skipped = @ + missed]]
      BY ONLY <3>2, Zenon
    <3> QED BY <3>3, Zenon DEF at
  <2> HIDE DEF a, k
  <2>3. w \in Viewer /\ w.pc = "live" /\ w.ask = viewer[v].ask /\ w.at = a /\ w.since = since
        /\ w.shown = viewer[v].shown /\ w.passed = viewer[v].passed /\ w.skipped = k
    BY <1>0, <2>1 DEF Viewer, since
  <2> HIDE DEF w
  <2> DEFINE new == {i \in since..(a - 1) : sent[i].severity <= viewer[v].ask.least /\ sent[i].line \notin viewer[v].shown}
  <2>4. new \subseteq Unshown(v) \cup (at..(a - 1))
    <3>1. \A i \in since..(a - 1) : i \in since..(at - 1) \/ i \in at..(a - 1)
      BY <1>2, <2>1
    <3> QED BY <1>3, <3>1 DEF Unshown, since, at
  <2>5. IsFiniteSet(at..(a - 1)) /\ Cardinality(at..(a - 1)) = missed
    <3>1. at \in Int /\ a - 1 \in Int /\ ~(at > a - 1) /\ (a - 1) - at + 1 = missed
      BY <1>2, <2>1 DEF a
    <3> QED BY <3>1, FS_Interval
  <2>6. IsFiniteSet(Unshown(v) \cup (at..(a - 1)))
        /\ Cardinality(Unshown(v) \cup (at..(a - 1))) <= Cardinality(Unshown(v)) + missed
    <3>1. /\ IsFiniteSet(Unshown(v) \cup (at..(a - 1))) /\ IsFiniteSet(Unshown(v) \cap (at..(a - 1)))
          /\ Cardinality(Unshown(v) \cup (at..(a - 1)))
               = Cardinality(Unshown(v)) + Cardinality(at..(a - 1)) - Cardinality(Unshown(v) \cap (at..(a - 1)))
      BY <1>3, <2>5, FS_Union, FS_Intersection
    <3>2. Cardinality(Unshown(v) \cap (at..(a - 1))) \in Nat
      BY <3>1, FS_CardinalityType
    <3> QED BY <1>3, <2>1, <2>5, <3>1, <3>2
  <2>7. Cardinality(new) <= k
    <3>1. Cardinality(new) <= Cardinality(Unshown(v) \cup (at..(a - 1))) /\ Cardinality(new) \in Nat
          /\ Cardinality(Unshown(v) \cup (at..(a - 1))) \in Nat
      BY <2>4, <2>6, FS_Subset, FS_CardinalityType
    <3> QED BY <1>2, <1>3, <2>1, <2>6, <3>1 DEF k
  <2>8. w.since \in 1..w.at /\ w.at <= Len(channel[w.ask.on]) + 1 /\ sent = channel[w.ask.on]
    <3>1. since \in 1..a
      BY <1>2, <2>1 DEF a
    <3>2. sent = channel[w.ask.on]
      BY <2>3 DEF sent
    <3> QED BY <2>1, <2>3, <3>1, <3>2
  <2>9. /\ Cardinality({i \in w.since..(w.at - 1) :
                       channel[w.ask.on][i].severity <= w.ask.least /\ channel[w.ask.on][i].line \notin w.shown}) <= w.skipped
        /\ w.ask.view = "console" =>
             \A i \in 1..(w.since - 1) : channel[w.ask.on][i].child => channel[w.ask.on][i].line \in w.shown \cup w.passed
    BY <1>4, <2>3, <2>7, <2>8
  <2> QED BY <1>5, <2>2, <2>3, <2>8, <2>9, OneViewer
<1>7. CASE Receive(v)
  <2> DEFINE entry == sent[at]
             seen == IF entry.severity > viewer[v].ask.least THEN viewer[v].shown ELSE viewer[v].shown \cup {entry.line}
             w == [viewer[v] EXCEPT !.at = at + 1, !.shown = seen]
  <2>1. at <= Len(sent) /\ at \in 1..Len(sent) /\ entry \in Entry
    <3>1. Len(sent) - at + 1 >= 1
      BY <1>7 DEF Receive, Behind, sent, at
    <3>2. at \in 1..Len(sent)
      BY <1>1, <1>2, <3>1
    <3> QED BY <1>1, <3>2
  <2>2. viewer' = [viewer EXCEPT ![v] = w]
    BY <1>0, <1>7 DEF Receive, sent, at
  <2>3. seen \in SUBSET Nat /\ viewer[v].shown \subseteq seen /\ at + 1 \in Nat
        /\ (entry.severity <= viewer[v].ask.least => entry.line \in seen)
    <3>1. entry.severity \in Nat /\ entry.line \in Nat /\ viewer[v].shown \subseteq Nat /\ viewer[v].ask.least \in Nat
      BY <1>0, <2>1 DEF Entry, Viewer, Asks, Debug, Severity
    <3> HIDE DEF entry
    <3> QED BY <1>2, <3>1
  <2> DEFINE a == at + 1
  <2> HIDE DEF entry, seen, a
  <2>4. w \in Viewer /\ w.pc = "live" /\ w.ask = viewer[v].ask /\ w.at = a /\ w.since = since
        /\ w.shown = seen /\ w.passed = viewer[v].passed /\ w.skipped = viewer[v].skipped
    BY <1>0, <2>3 DEF Viewer, since, a
  <2> HIDE DEF w
  <2> DEFINE new == {i \in since..(a - 1) : sent[i].severity <= viewer[v].ask.least /\ sent[i].line \notin seen}
  <2>5. new \subseteq Unshown(v)
    <3>1. \A i \in since..(a - 1) : i \in since..(at - 1) \/ i = at
      BY <1>2 DEF a
    <3> QED BY <1>3, <2>3, <3>1 DEF Unshown, since, at, entry
  <2>6. Cardinality(new) <= viewer[v].skipped
    <3>1. Cardinality(new) <= Cardinality(Unshown(v)) /\ Cardinality(new) \in Nat
      BY <1>3, <2>5, FS_Subset, FS_CardinalityType
    <3> QED BY <1>2, <1>3, <3>1
  <2>7. w.since \in 1..w.at /\ w.at <= Len(channel[w.ask.on]) + 1 /\ sent = channel[w.ask.on]
    <3>1. since \in 1..a /\ a <= Len(sent) + 1
      BY <1>1, <1>2, <2>1 DEF a
    <3>2. sent = channel[w.ask.on]
      BY <2>4 DEF sent
    <3> QED BY <2>4, <3>1, <3>2
  <2>8. /\ Cardinality({i \in w.since..(w.at - 1) :
                       channel[w.ask.on][i].severity <= w.ask.least /\ channel[w.ask.on][i].line \notin w.shown}) <= w.skipped
        /\ w.ask.view = "console" =>
             \A i \in 1..(w.since - 1) : channel[w.ask.on][i].child => channel[w.ask.on][i].line \in w.shown \cup w.passed
    BY <1>4, <2>3, <2>4, <2>6, <2>7
  <2> QED BY <1>5, <2>2, <2>4, <2>7, <2>8, OneViewer
<1> QED BY <1>6, <1>7

\* A line is fed to the terminal before it is published, and what a viewer has passed
\* over is counted against it: the inductive invariant, for any number of readers,
\* viewers and lines.
THEOREM FollowInvCorrect == FollowSpec => []FollowInv
<1>1. FollowInv /\ [FollowNext]_followVars => FollowInv'
  <2>1. FollowInv /\ UNCHANGED followVars => FollowInv'
    BY DEF followVars, FollowInv, FollowTyped, FedFirst, OnScreen, InPlace, HadBefore, MissedCounted, Sent, Unshown
  <2> QED BY <2>1, WritersFollow, ComeAndGo, TakeEntries DEF FollowNext
<1> QED BY <1>1, InitFollow, PTL DEF FollowSpec

\* api.rs, handle_console: a viewer has been shown every line that it asked for, on
\* the screen it got or one by one, or has been told of at least as many missed.
THEOREM SeenOrToldCorrect == FollowSpec => []SeenOrTold
<1>1. FollowInv => SeenOrTold
  BY DEF FollowInv, HadBefore, MissedCounted, Sent, Unshown, SeenOrTold
<1> QED BY <1>1, FollowInvCorrect, PTL

-----------------------------------------------------------------------------
(* Locks: what a call of the supervisor can wait for.                      *)

CallPcs == {"free", "table", "write", "lock", "held", "post"}
Holding == {"held", "post"}
Call == [call : LockCalls \cup {"none"}, at : Procs \cup {Free.at}, left : SUBSET Procs, pc : CallPcs]
Channel == [up : BOOLEAN, reads : BOOLEAN, killed : BOOLEAN, queued : 0..Queue, piped : 0..Room]
KeepTable == {"send_stdin", "get_all_statuses", "stop_all"}

\* The types, and what each call can be at.
CallsTyped ==
  /\ caller \in [Callers -> Call] /\ stdin \in [Procs -> Channel]
  /\ \A t \in Callers : caller[t].pc # "free" =>
       /\ caller[t].call \in LockCalls /\ caller[t].at \in Procs
       /\ caller[t].pc = "write" => caller[t].call = "register_process"
       /\ caller[t].pc \in {"lock"} \cup Holding => caller[t].call # "register_process"
       /\ caller[t].pc = "post" => caller[t].call = "stop_process"
       /\ caller[t].left # {} => caller[t].call \in {"get_all_statuses", "stop_all"}

\* A lock is held by the call that is at it, and the table by those that keep it.
LocksHeld ==
  /\ lock_holder \in [Procs -> Callers \cup {"none"}]
  /\ \A p \in Procs, t \in Callers : lock_holder[p] = t <=> caller[t].pc \in Holding /\ caller[t].at = p
  /\ table_readers = {t \in Callers : caller[t].pc \in {"lock"} \cup Holding /\ caller[t].call \in KeepTable}

LocksInv == CallsTyped /\ LocksHeld

LEMMA InitLocks == LocksInit => LocksInv
<1> SUFFICES ASSUME LocksInit PROVE LocksInv
  OBVIOUS
<1>1. Free \in Call /\ Free.pc = "free"
  BY DEF Free, Call, CallPcs
<1>2. stdin \in [Procs -> Channel]
  <2>1. 0 \in 0..Queue /\ 0 \in 0..Room
    BY LocksAssumption
  <2>2. ASSUME NEW p \in Procs
        PROVE  stdin[p] \in Channel
    <3>1. PICK b \in BOOLEAN : stdin[p] = [up |-> TRUE, reads |-> b, killed |-> FALSE, queued |-> 0, piped |-> 0]
      BY DEF LocksInit
    <3> QED BY <2>1, <3>1 DEF Channel
  <2> QED BY <2>2 DEF LocksInit
<1> QED BY <1>1, <1>2, LocksAssumption DEF LocksInit, LocksInv, CallsTyped, LocksHeld, Holding

\* A call that goes on, with its lock and the table as they were, from one place to another.
LEMMA CallMoves ==
  ASSUME LocksInv, NEW t \in Callers, NEW c \in Call, caller' = [caller EXCEPT ![t] = c]
  PROVE  caller' \in [Callers -> Call] /\ caller'[t] = c /\ \A u \in Callers \ {t} : caller'[u] = caller[u]
BY DEF LocksInv, CallsTyped, Holding

LEMMA ReleasedLocks ==
  ASSUME LocksInv, NEW t \in Callers, caller[t].pc \in Holding, Released(t), stdin' \in [Procs -> Channel]
  PROVE  LocksInv'
<1> DEFINE q == caller[t].at
<1> USE LocksAssumption
<1>1. /\ caller[t] \in Call /\ q \in Procs /\ caller[t].call \in LockCalls /\ lock_holder[q] = t
      /\ caller[t].call # "register_process" /\ lock_holder \in [Procs -> Callers \cup {"none"}]
      /\ caller[t].left # {} => caller[t].call \in {"get_all_statuses", "stop_all"}
  BY DEF LocksInv, CallsTyped, LocksHeld, Holding
<1>2. lock_holder' = [lock_holder EXCEPT ![q] = "none"]
  BY DEF Released
<1>3. \A p \in Procs : lock_holder'[p] = IF p = q THEN "none" ELSE lock_holder[p]
  BY <1>1, <1>2
<1>4. PICK c \in Call :
        /\ caller' = [caller EXCEPT ![t] = c]
        /\ c.pc \notin Holding
        /\ c.pc # "free" => /\ c.call = caller[t].call /\ c.at \in Procs /\ c.pc # "write"
                            /\ c.left \subseteq caller[t].left /\ caller[t].left # {}
        /\ table_readers' = IF c.pc = "lock" THEN table_readers ELSE table_readers \ {t}
        /\ c.pc = "lock" => caller[t].call \in {"get_all_statuses", "stop_all"}
  <2>1. CASE caller[t].left = {}
    <3>1. Free \in Call /\ Free.pc = "free"
      BY DEF Free, Call, CallPcs
    <3> QED BY <2>1, <3>1 DEF Released, Holding
  <2>2. ASSUME NEW p \in caller[t].left,
               NEW pc \in IF caller[t].call = "stop_all" THEN {"lock", "table"} ELSE {"lock"},
               caller' = [caller EXCEPT ![t].at = p, ![t].left = @ \ {p}, ![t].pc = pc],
               table_readers' = IF pc = "table" THEN table_readers \ {t} ELSE table_readers
        PROVE  \E c \in Call :
                 /\ caller' = [caller EXCEPT ![t] = c]
                 /\ c.pc \notin Holding
                 /\ c.pc # "free" => /\ c.call = caller[t].call /\ c.at \in Procs /\ c.pc # "write"
                                     /\ c.left \subseteq caller[t].left /\ caller[t].left # {}
                 /\ table_readers' = IF c.pc = "lock" THEN table_readers ELSE table_readers \ {t}
                 /\ c.pc = "lock" => caller[t].call \in {"get_all_statuses", "stop_all"}
    <3> DEFINE d == [caller[t] EXCEPT !.at = p, !.left = @ \ {p}, !.pc = pc]
    <3>1. p \in Procs /\ pc \in {"lock", "table"}
      BY <1>1, <2>2 DEF Call
    <3>2. d \in Call /\ d.call = caller[t].call /\ d.at = p /\ d.left = caller[t].left \ {p} /\ d.pc = pc
      BY <1>1, <3>1 DEF Call, CallPcs
    <3>3. caller' = [caller EXCEPT ![t] = d]
      BY <2>2 DEF LocksInv, CallsTyped, Holding
    <3> HIDE DEF d
    <3> QED BY <1>1, <2>2, <3>1, <3>2, <3>3 DEF Holding
  <2> QED BY <2>1, <2>2 DEF Released
<1>5. caller' \in [Callers -> Call] /\ caller'[t] = c /\ \A u \in Callers \ {t} : caller'[u] = caller[u]
  BY <1>4, CallMoves
<1>6. CallsTyped'
  BY <1>1, <1>4, <1>5 DEF LocksInv, CallsTyped, Holding
<1>7. LocksHeld'
  <2>1. lock_holder' \in [Procs -> Callers \cup {"none"}]
    BY <1>1, <1>2
  <2>2. \A p \in Procs, u \in Callers : lock_holder'[p] = u <=> caller'[u].pc \in Holding /\ caller'[u].at = p
    BY <1>1, <1>3, <1>4, <1>5 DEF LocksInv, LocksHeld, Holding
  <2>3. table_readers' = {u \in Callers : caller'[u].pc \in {"lock"} \cup Holding /\ caller'[u].call \in KeepTable}
    BY <1>1, <1>4, <1>5 DEF LocksInv, LocksHeld, KeepTable, Holding
  <2> QED BY <2>1, <2>2, <2>3 DEF LocksHeld
<1> QED BY <1>6, <1>7 DEF LocksInv

LEMMA CallLocks ==
  ASSUME LocksInv, NEW t \in Callers, CallStep(t)
  PROVE  LocksInv'
<1> USE LocksAssumption
<1>0. caller[t] \in Call /\ caller \in [Callers -> Call] /\ stdin \in [Procs -> Channel]
  BY DEF LocksInv, CallsTyped, Holding
<1>1. CASE Begin(t)
  <2>1. PICK call \in LockCalls, p \in Procs :
          caller' = [caller EXCEPT ![t] =
                      [call |-> call, at |-> p, pc |-> "table",
                       left |-> IF call \in {"get_all_statuses", "stop_all"} THEN Procs \ {p} ELSE {}]]
    BY <1>1 DEF Begin
  <2> DEFINE c == [call |-> call, at |-> p, pc |-> "table",
                   left |-> IF call \in {"get_all_statuses", "stop_all"} THEN Procs \ {p} ELSE {}]
  <2>2. c \in Call /\ c.call \in LockCalls /\ c.at \in Procs /\ c.pc = "table"
        /\ (c.left # {} => c.call \in {"get_all_statuses", "stop_all"})
    BY DEF Call, CallPcs
  <2>3. caller' = [caller EXCEPT ![t] = c]
    BY <2>1
  <2> HIDE DEF c
  <2>4. caller' \in [Callers -> Call] /\ caller'[t] = c /\ \A u \in Callers \ {t} : caller'[u] = caller[u]
    BY <2>2, <2>3, CallMoves
  <2>5. UNCHANGED <<table_readers, lock_holder, stdin>> /\ caller[t].pc = "free"
    BY <1>1 DEF Begin
  <2>6. CallsTyped'
    BY <2>2, <2>4, <2>5 DEF LocksInv, CallsTyped, Holding
  <2>7. LocksHeld'
    BY <2>2, <2>4, <2>5 DEF LocksInv, LocksHeld, Holding
  <2> QED BY <2>6, <2>7 DEF LocksInv
<1>2. CASE TakeTable(t) \/ AskToWrite(t)
  <2>1. PICK s \in {"lock", "write"} :
          /\ caller[t].pc = "table" /\ caller' = [caller EXCEPT ![t].pc = s] /\ UNCHANGED <<lock_holder, stdin>>
          /\ s = "write" <=> caller[t].call = "register_process"
          /\ table_readers' = IF s = "write" \/ caller[t].call = "stop_process" THEN table_readers
                              ELSE table_readers \cup {t}
    BY <1>2 DEF TakeTable, AskToWrite, Goes
  <2> DEFINE c == [caller[t] EXCEPT !.pc = s]
  <2>2. c \in Call /\ c.call = caller[t].call /\ c.at = caller[t].at /\ c.pc = s /\ c.left = caller[t].left
    BY <1>0 DEF Call, CallPcs
  <2>3. caller' = [caller EXCEPT ![t] = c]
    BY <1>0, <2>1
  <2> HIDE DEF c
  <2>4. caller' \in [Callers -> Call] /\ caller'[t] = c /\ \A u \in Callers \ {t} : caller'[u] = caller[u]
    BY <2>2, <2>3, CallMoves
  <2>5. CallsTyped'
    BY <2>1, <2>2, <2>4 DEF LocksInv, CallsTyped, Holding
  <2>6. \A p \in Procs, u \in Callers : lock_holder'[p] = u <=> caller'[u].pc \in Holding /\ caller'[u].at = p
    BY <2>1, <2>2, <2>4 DEF LocksInv, LocksHeld, Holding
  <2>7. table_readers' = {u \in Callers : caller'[u].pc \in {"lock"} \cup Holding /\ caller'[u].call \in KeepTable}
    BY <2>1, <2>2, <2>4 DEF LocksInv, LocksHeld, KeepTable, CallsTyped, LockCalls, Holding
  <2> QED BY <2>1, <2>5, <2>6, <2>7 DEF LocksInv, LocksHeld, Holding
<1>3. CASE Register(t)
  <2>1. /\ caller[t].pc = "write" /\ caller' = [caller EXCEPT ![t] = Free]
        /\ UNCHANGED <<table_readers, lock_holder, stdin>>
    BY <1>3 DEF Register
  <2>2. Free \in Call /\ Free.pc = "free"
    BY DEF Free, Call, CallPcs
  <2>3. caller' \in [Callers -> Call] /\ caller'[t] = Free /\ \A u \in Callers \ {t} : caller'[u] = caller[u]
    BY <2>1, <2>2, CallMoves
  <2>4. CallsTyped'
    BY <2>1, <2>2, <2>3 DEF LocksInv, CallsTyped, Holding
  <2>5. LocksHeld'
    BY <2>1, <2>2, <2>3 DEF LocksInv, LocksHeld, Holding
  <2> QED BY <2>4, <2>5 DEF LocksInv
<1>4. CASE Lock(t)
  <2>1. /\ caller[t].pc = "lock" /\ lock_holder[caller[t].at] = "none" /\ caller' = [caller EXCEPT ![t].pc = "held"]
        /\ lock_holder' = [lock_holder EXCEPT ![caller[t].at] = t] /\ UNCHANGED <<table_readers, stdin>>
    BY <1>4 DEF Lock, Goes
  <2> DEFINE c == [caller[t] EXCEPT !.pc = "held"]
  <2>2. c \in Call /\ c.call = caller[t].call /\ c.at = caller[t].at /\ c.pc = "held" /\ c.left = caller[t].left
    BY <1>0 DEF Call, CallPcs
  <2>3. caller' = [caller EXCEPT ![t] = c]
    BY <1>0, <2>1
  <2> HIDE DEF c
  <2>4. caller' \in [Callers -> Call] /\ caller'[t] = c /\ \A u \in Callers \ {t} : caller'[u] = caller[u]
    BY <2>2, <2>3, CallMoves
  <2>5. caller[t].at \in Procs /\ lock_holder \in [Procs -> Callers \cup {"none"}]
    BY <2>1 DEF LocksInv, CallsTyped, LocksHeld, Holding
  <2>6. CallsTyped'
    BY <2>1, <2>2, <2>4 DEF LocksInv, CallsTyped, Holding
  <2>7. lock_holder' \in [Procs -> Callers \cup {"none"}]
        /\ \A p \in Procs : lock_holder'[p] = IF p = caller[t].at THEN t ELSE lock_holder[p]
    BY <2>1, <2>5
  <2>8. \A p \in Procs, u \in Callers : lock_holder'[p] = u <=> caller'[u].pc \in Holding /\ caller'[u].at = p
    BY <2>1, <2>2, <2>4, <2>5, <2>7 DEF LocksInv, LocksHeld, Holding
  <2>9. table_readers' = {u \in Callers : caller'[u].pc \in {"lock"} \cup Holding /\ caller'[u].call \in KeepTable}
    BY <2>1, <2>2, <2>4 DEF LocksInv, LocksHeld, Holding
  <2> QED BY <2>6, <2>7, <2>8, <2>9 DEF LocksInv, LocksHeld, Holding
<1>5. CASE Send(t)
  <2>1. caller[t].pc = "held" /\ Released(t)
    BY <1>5 DEF Send
  <2>3. caller[t].pc \in Holding
    BY <2>1 DEF Holding
  <2>2. stdin' \in [Procs -> Channel]
    <3>1. CASE stdin' = stdin
      BY <1>0, <3>1
    <3>2. CASE stdin[caller[t].at].queued < Queue /\ stdin' = [stdin EXCEPT ![caller[t].at].queued = @ + 1]
      <4>1. caller[t].at \in Procs
        BY <2>1 DEF LocksInv, CallsTyped, Holding
      <4>2. stdin[caller[t].at] \in Channel
        BY <1>0, <4>1
      <4>3. [stdin[caller[t].at] EXCEPT !.queued = @ + 1] \in Channel
        BY <3>2, <4>2 DEF Channel
      <4> QED BY <1>0, <3>2, <4>3
    <3> QED BY <1>5, <3>1, <3>2 DEF Send
  <2> QED BY <2>1, <2>2, <2>3, ReleasedLocks
<1>6. CASE StopSent(t) \/ StatusRead(t) \/ Answered(t)
  <2>1. caller[t].pc \in Holding
    BY <1>6 DEF StopSent, StatusRead, Answered, Holding
  <2>2. stdin' \in [Procs -> Channel]
    <3>1. CASE stdin' = stdin
      BY <1>0, <3>1
    <3>2. CASE stdin' = [stdin EXCEPT ![caller[t].at].killed = TRUE]
      <4>1. caller[t].at \in Procs
        BY <2>1 DEF LocksInv, CallsTyped, Holding
      <4>2. [stdin[caller[t].at] EXCEPT !.killed = TRUE] \in Channel
        BY <1>0, <4>1 DEF Channel
      <4> QED BY <1>0, <3>2, <4>2
    <3> QED BY <1>6, <3>1, <3>2 DEF StopSent, StatusRead, Answered
  <2>3. CASE Released(t)
    BY <2>1, <2>2, <2>3, ReleasedLocks
  <2>4. CASE /\ caller[t].pc = "held" /\ caller[t].call = "stop_process" /\ Goes(t, "post")
             /\ UNCHANGED <<table_readers, lock_holder>>
    <3> DEFINE c == [caller[t] EXCEPT !.pc = "post"]
    <3>1. c \in Call /\ c.call = caller[t].call /\ c.at = caller[t].at /\ c.pc = "post" /\ c.left = caller[t].left
      BY <1>0 DEF Call, CallPcs
    <3>2. caller' = [caller EXCEPT ![t] = c]
      BY <1>0, <2>4 DEF Goes
    <3> HIDE DEF c
    <3>3. caller' \in [Callers -> Call] /\ caller'[t] = c /\ \A u \in Callers \ {t} : caller'[u] = caller[u]
      BY <3>1, <3>2, CallMoves
    <3>4. CallsTyped'
      BY <2>2, <2>4, <3>1, <3>3 DEF LocksInv, CallsTyped, Holding
    <3>5. LocksHeld'
      BY <2>4, <3>1, <3>3 DEF LocksInv, LocksHeld, Holding
    <3> QED BY <3>4, <3>5 DEF LocksInv
  <2> QED BY <1>6, <2>3, <2>4 DEF StopSent, StatusRead, Answered
<1> QED BY <1>1, <1>2, <1>3, <1>4, <1>5, <1>6 DEF CallStep

LEMMA ChannelChanges ==
  ASSUME NEW c \in Channel, NEW q \in 0..Queue, NEW r \in 0..Room
  PROVE  /\ [c EXCEPT !.queued = q, !.piped = r] \in Channel
         /\ [c EXCEPT !.up = FALSE, !.killed = FALSE, !.queued = q, !.piped = r] \in Channel
BY DEF Channel

LEMMA ChildLocks ==
  ASSUME LocksInv, (\E p \in Procs : ChildStep(p)) \/ UNCHANGED locksVars
  PROVE  LocksInv'
<1> USE LocksAssumption
<1>0. stdin \in [Procs -> Channel]
  BY DEF LocksInv, CallsTyped, Holding
<1>1. UNCHANGED <<caller, table_readers, lock_holder>>
  BY DEF ChildStep, WriteLine, ReadLine, Killed, locksVars
<1>2. stdin' \in [Procs -> Channel]
  <2>1. ASSUME NEW p \in Procs, WriteLine(p)
        PROVE  stdin' \in [Procs -> Channel]
    <3>1. stdin[p] \in Channel
      BY <1>0
    <3>2. stdin[p].queued - 1 \in 0..Queue /\ stdin[p].piped + 1 \in 0..Room
      BY <2>1, <3>1 DEF WriteLine, Channel
    <3>3. stdin' = [stdin EXCEPT ![p] = [stdin[p] EXCEPT !.queued = @ - 1, !.piped = @ + 1]]
      BY <1>0, <2>1 DEF WriteLine
    <3> QED BY <1>0, <3>1, <3>2, <3>3, ChannelChanges
  <2>2. ASSUME NEW p \in Procs, ReadLine(p)
        PROVE  stdin' \in [Procs -> Channel]
    <3>1. stdin[p] \in Channel
      BY <1>0
    <3>2. [stdin[p] EXCEPT !.piped = @ - 1] \in Channel
      BY <2>2, <3>1 DEF ReadLine, Channel
    <3> QED BY <1>0, <2>2, <3>2 DEF ReadLine
  <2>3. ASSUME NEW p \in Procs, Killed(p)
        PROVE  stdin' \in [Procs -> Channel]
    <3>1. stdin[p] \in Channel
      BY <1>0
    <3>2. 0 \in 0..Queue /\ 0 \in 0..Room
      OBVIOUS
    <3> QED BY <1>0, <2>3, <3>1, <3>2, ChannelChanges DEF Killed
  <2> QED BY <1>0, <2>1, <2>2, <2>3 DEF ChildStep, locksVars
<1> QED BY <1>1, <1>2 DEF LocksInv, CallsTyped, LocksHeld, Holding

\* Who holds the supervisor's table, to read or to write, and who holds the lock of a
\* process is at the place in the call where it holds it: the inductive invariant.
THEOREM LocksInvCorrect == LocksSpec => []LocksInv
<1>1. LocksInv /\ [LocksNext]_locksVars => LocksInv'
  BY CallLocks, ChildLocks DEF LocksNext
<1> QED BY <1>1, InitLocks, PTL DEF LocksSpec

\* A call of the supervisor that waits for a lock waits for calls that are nearer their
\* end, so that no callers wait for each other, for any calls and processes; and a call
\* that waits for no lock waits, if at all, for the answer of the webhook's server or for
\* a child to read its stdin (send_stdin, stop_process, stop_all, get_all_statuses).
THEOREM OnlyOutsidersBlockCorrect == LocksSpec => []OnlyOutsidersBlock
<1>1. LocksInv => OnlyOutsidersBlock
  <2> USE LocksAssumption
  <2> SUFFICES ASSUME LocksInv, NEW t \in Callers
               PROVE  /\ \A u \in WaitsFor(t) : Nearer(u, t)
                      /\ caller[t].pc = "held" /\ caller[t].call = "send_stdin" =>
                           CanSend(caller[t].at) \/ ChildCanGoOn(caller[t].at) \/ DeafChild(caller[t].at)
    BY DEF OnlyOutsidersBlock
  <2>1. ASSUME NEW u \in WaitsFor(t)
        PROVE  Nearer(u, t)
    <3>1. CASE caller[t].pc = "table"
      BY <2>1, <3>1 DEF WaitsFor, Nearer, Distance
    <3>2. CASE caller[t].pc = "write"
      <4>1. u \in Callers /\ caller[u].pc \in {"lock"} \cup Holding
        BY <2>1, <3>2 DEF WaitsFor, LocksInv, LocksHeld
      <4> QED BY <3>2, <4>1 DEF Nearer, Distance, Holding
    <3>3. CASE caller[t].pc = "lock"
      <4>1. caller[t].at \in Procs
        BY <3>3 DEF LocksInv, CallsTyped
      <4>2. u = lock_holder[caller[t].at] /\ u # "none"
        BY <2>1, <3>3 DEF WaitsFor
      <4>3. u \in Callers /\ caller[u].pc \in Holding
        BY <4>1, <4>2 DEF LocksInv, LocksHeld
      <4> QED BY <3>3, <4>3 DEF Nearer, Distance, Holding
    <3> QED BY <2>1, <3>1, <3>2, <3>3 DEF WaitsFor
  <2>2. ASSUME caller[t].pc = "held", caller[t].call = "send_stdin"
        PROVE  CanSend(caller[t].at) \/ ChildCanGoOn(caller[t].at) \/ DeafChild(caller[t].at)
    <3>1. stdin[caller[t].at] \in Channel
      BY <2>2 DEF LocksInv, CallsTyped
    <3> QED BY <3>1 DEF Channel, CanSend, ChildCanGoOn, DeafChild
  <2> QED BY <2>1, <2>2
<1> QED BY <1>1, LocksInvCorrect, PTL
=============================================================================
