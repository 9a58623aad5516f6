------------------------------ MODULE K8sEvents ------------------------------
(***************************************************************************)
(* The Kubernetes-shaped events: what is said again is counted, the oldest *)
(* are dropped, and whoever publishes them asks for those changed since    *)
(* the last one that it has.                                               *)
(***************************************************************************)
EXTENDS Naturals, Sequences

CONSTANTS
  Said,     (* what may be said: a process, a reason and a message *)
  Keep,     (* KEEP                                                *)
  MaxSeq    (* bound on how much is said                           *)

ASSUME K8sAssumption == Keep \in Nat \ {0} /\ MaxSeq \in Nat

VARIABLES
  event_store, event_seq,   \* EventStore: the events, the oldest first, and the last seq
  since_seq, published,     \* the publisher: the last seq it has, and the count it has of each
  times, dropped            \* history: how often each was said, and was part of what was dropped

k8sVars == <<event_store, event_seq, since_seq, published, times, dropped>>

Zero == [w \in Said |-> 0]

K8sInit ==
  /\ event_store = <<>> /\ event_seq = 0 /\ since_seq = 0
  /\ published = Zero /\ times = Zero /\ dropped = Zero

About(w) == {i \in DOMAIN event_store : event_store[i].what = w}
LastOf(S) == CHOOSE i \in S : \A j \in S : j <= i

\* Said again: one more, and changed now.
BugBumped(i) == [event_store EXCEPT ![i].count = @ + 1]

Bumped(i) == [event_store EXCEPT ![i].count = @ + 1, ![i].seq = event_seq + 1]

\* Said for the first time, or since it was dropped; the oldest goes.
Pushed(w) == Append(event_store, [what |-> w, count |-> 1, seq |-> event_seq + 1])

Add(w) ==
  /\ event_seq < MaxSeq /\ event_seq' = event_seq + 1 /\ times' = [times EXCEPT ![w] = @ + 1]
  /\ IF About(w) # {} THEN event_store' = Bumped(LastOf(About(w))) /\ UNCHANGED dropped
     ELSE IF Len(event_store) < Keep THEN event_store' = Pushed(w) /\ UNCHANGED dropped
     ELSE /\ event_store' = Tail(Pushed(w))
          /\ dropped' = [dropped EXCEPT ![Pushed(w)[1].what] = @ + Pushed(w)[1].count]
  /\ UNCHANGED <<since_seq, published>>

\* Those changed after a seq, and the latest change among some of them.
Since(n) == {i \in DOMAIN event_store : event_store[i].seq > n}
Latest(S) == CHOOSE i \in S : \A j \in S : event_store[j].seq <= event_store[i].seq

\* The answer has the oldest change first: the publisher sets the count it was given
\* last of each, and asks from the last one on.
Polls ==
  LET answer == Since(since_seq) IN
    /\ answer # {} /\ since_seq' = event_store[Latest(answer)].seq
    /\ published' = [w \in Said |->
         IF answer \cap About(w) = {} THEN published[w] ELSE event_store[Latest(answer \cap About(w))].count]
    /\ UNCHANGED <<event_store, event_seq, times, dropped>>

K8sNext == Polls \/ \E w \in Said : Add(w)

K8sSpec == K8sInit /\ [][K8sNext]_k8sVars

-----------------------------------------------------------------------------
(* Properties.                                                               *)

\* The type invariant.
K8sTypeOK ==
  /\ event_seq \in 0..MaxSeq /\ since_seq \in 0..event_seq /\ Len(event_store) <= Keep
  /\ \A i \in DOMAIN event_store : event_store[i].what \in Said /\ event_store[i].seq \in 1..event_seq

\* k8sevents.rs: "the same reason and message again bumps count".  However saying,
\* dropping and asking alternate, an event still kept has been published as it is or
\* is in the next answer, and every time that something was said is counted once, in
\* the one event there is of it or in one that has been dropped.
CountedAndTold ==
  /\ \A i \in DOMAIN event_store : LET e == event_store[i] IN
       e.seq > since_seq \/ published[e.what] = e.count
  /\ \A w \in Said :
       \/ About(w) = {} /\ times[w] = dropped[w]
       \/ \E i \in About(w) : About(w) = {i} /\ times[w] = dropped[w] + event_store[i].count
=============================================================================
