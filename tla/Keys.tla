-------------------------------- MODULE Keys --------------------------------
(***************************************************************************)
(* The public keys that an SSH login is checked against: those of the      *)
(* authorized_keys file, and those fetched every 30 s from a metadata      *)
(* service, which may want a token, restart, fail and change what it       *)
(* serves between any two requests of one fetch.                           *)
(***************************************************************************)
EXTENDS Naturals

CONSTANTS
  PubKeys,     (* the keys there are                        *)
  Unparsable,  (* those among them that do not parse        *)
  Indices,     (* the entries an index may have             *)
  Served,      (* the sets of keys an entry may have        *)
  MaxEpoch     (* bound on the restarts of the service      *)

ASSUME KeysAssumption ==
  /\ Unparsable \subseteq PubKeys /\ Served \subseteq SUBSET PubKeys /\ "index" \notin Indices
  /\ MaxEpoch \in Nat \ {0}

VARIABLES
  imds,        \* the service: up, issues tokens, its epoch, and the keys of each entry
  listed,      \* the keys of the authorized_keys file; none when it is unreadable
  token,       \* Imds.token: the epoch it is of, 0 for none
  fetch,       \* fetch_keys as it runs: at, what for, with what token, attempt, entries left, got
  key_store,   \* SshKeyStore: keys, each with its entry
  during,      \* history: pairs served since the fetch began, and all that time; whether
               \* the service was down, or restarted twice under one request; the entries refused
  told         \* history: the pairs served while the last good fetch was made, and those
               \* that the fetches since have left in the store, or should have

keysVars == <<imds, listed, token, fetch, key_store, during, told>>

NoFetch == [at |-> "idle", for |-> "index", using |-> 0, attempt |-> 0, left |-> {}, got |-> {}]
Pairs(served) == {p \in (PubKeys \ Unparsable) \X Indices : p[1] \in served[p[2]]}

KeysInit ==
  /\ imds \in [up : {TRUE}, tokens : BOOLEAN, epoch : {1}, served : [Indices -> Served]]
  /\ listed = {} /\ token = 0 /\ fetch = NoFetch /\ key_store = {}
  /\ during = [since |-> {}, through |-> {}, disturbed |-> FALSE, refused |-> {}]
  /\ told = [since |-> {}, through |-> {}]

-----------------------------------------------------------------------------
(* The service, and the file.                                                *)

Disturbs == during' = [during EXCEPT !.disturbed = TRUE]
ImdsTurns ==
  /\ imds' = [imds EXCEPT !.up = ~@] /\ Disturbs
  /\ UNCHANGED <<listed, token, fetch, key_store, told>>
\* It forgets its tokens, which a request renews once.
ImdsRestarts ==
  /\ imds.epoch < MaxEpoch /\ imds' = [imds EXCEPT !.epoch = @ + 1]
  /\ IF fetch.at = "get" /\ fetch.attempt = 1 THEN Disturbs ELSE UNCHANGED during
  /\ UNCHANGED <<listed, token, fetch, key_store, told>>
ImdsServes(i, keys) ==
  /\ imds' = [imds EXCEPT !.served[i] = keys]
  /\ during' = [during EXCEPT !.since = @ \cup Pairs(imds'.served), !.through = @ \cap Pairs(imds'.served)]
  /\ UNCHANGED <<listed, token, fetch, key_store, told>>
FileListed(keys) == listed' = keys /\ UNCHANGED <<imds, token, fetch, key_store, during, told>>

-----------------------------------------------------------------------------
(* Imds::get, for the index and then for each of its entries.                *)

FetchBegins ==
  /\ fetch.at = "idle" /\ fetch' = [NoFetch EXCEPT !.at = "token"]
  /\ during' = [since |-> Pairs(imds.served), through |-> Pairs(imds.served), disturbed |-> ~imds.up,
                refused |-> {}]
  /\ UNCHANGED <<imds, listed, token, key_store, told>>

\* A minute before its six hours are over, which every request looks at.
TokenLapses == token # 0 /\ token' = 0 /\ UNCHANGED <<imds, listed, fetch, key_store, during, told>>

\* The token held, or a new one; none from a service that is down or has none.
Token ==
  /\ fetch.at = "token"
  /\ token' = IF token # 0 THEN token ELSE IF imds.up /\ imds.tokens THEN imds.epoch ELSE 0
  /\ fetch' = [fetch EXCEPT !.at = "get", !.using = token']
  /\ UNCHANGED <<imds, listed, key_store, during, told>>

Status == IF ~imds.up THEN "failed" ELSE IF imds.tokens /\ fetch.using # imds.epoch THEN "401" ELSE "ok"

\* IndexRefused with a token that was held: a new one is asked for, once.
TokenStale == Status = "401" /\ fetch.using # 0 /\ fetch.attempt = 0

Renewed ==
  /\ TokenStale /\ token' = 0 /\ fetch' = [fetch EXCEPT !.at = "token", !.attempt = 1]
  /\ UNCHANGED <<imds, listed, key_store, during, told>>

\* A service that was disturbed owes nothing of the entries it refused.
Owed(refused) == {p \in during.through : ~(during.disturbed /\ p[2] \in refused)}
\* The next entry, or the end: the keys got are the store.
Continues(left, got, refused) ==
  /\ during' = [during EXCEPT !.refused = refused]
  /\ \/ \E i \in left :
          /\ fetch' = [NoFetch EXCEPT !.at = "token", !.for = i, !.left = left \ {i}, !.got = got]
          /\ UNCHANGED <<key_store, told>>
     \/ /\ left = {} /\ fetch' = NoFetch /\ key_store' = got
        /\ told' = [since |-> during.since, through |-> Owed(refused)]

\* A refused index leaves the store as it is; that of a service that was not disturbed
\* should not have been refused.
IndexRefused ==
  /\ fetch' = NoFetch
  /\ told' = IF during.disturbed THEN told ELSE [told EXCEPT !.through = during.through]
  /\ UNCHANGED during

\* Mutant: a failed fetch is an empty one.
BugIndexAnswered ==
  /\ ~TokenStale /\ fetch.for = "index"
  /\ IF Status = "ok" THEN Continues({i \in Indices : imds.served[i] # {}}, {}, {})
     ELSE IndexRefused /\ key_store' = {}
  /\ UNCHANGED <<imds, listed, token>>

IndexAnswered ==
  /\ ~TokenStale /\ fetch.for = "index"
  /\ IF Status = "ok" THEN Continues({i \in Indices : imds.served[i] # {}}, {}, {})
     ELSE IndexRefused /\ UNCHANGED key_store
  /\ UNCHANGED <<imds, listed, token>>

\* An entry that is refused is passed over, and what it had is not kept.
EntryAnswered ==
  /\ ~TokenStale /\ fetch.for # "index"
  /\ LET i == fetch.for
         keys == IF Status = "ok" THEN imds.served[i] \ Unparsable ELSE {}
         refused == during.refused \cup (IF Status = "ok" THEN {} ELSE {i})
     IN Continues(fetch.left, fetch.got \cup {<<k, i>> : k \in keys}, refused)
  /\ UNCHANGED <<imds, listed, token>>

Get == fetch.at = "get" /\ (Renewed \/ IndexAnswered \/ EntryAnswered)

KeysNext ==
  \/ ImdsTurns \/ ImdsRestarts \/ (\E i \in Indices, keys \in Served : ImdsServes(i, keys))
  \/ (\E keys \in Served : FileListed(keys))
  \/ FetchBegins \/ TokenLapses \/ Token \/ Get

KeysSpec == KeysInit /\ [][KeysNext]_keysVars

-----------------------------------------------------------------------------
(* A login: the same look when a key is offered and when it has signed.      *)

Lookup(k) == {i \in Indices : <<k, i>> \in key_store}
InAuthorizedKeys(k) == k \in listed \ Unparsable
AuthPublickey(k) == InAuthorizedKeys(k) \/ Lookup(k) # {}

-----------------------------------------------------------------------------
(* Properties.                                                               *)

\* The type invariant.
KeysTypeOK ==
  /\ imds \in [up : BOOLEAN, tokens : BOOLEAN, epoch : 1..MaxEpoch, served : [Indices -> Served]]
  /\ listed \subseteq PubKeys /\ token \in 0..MaxEpoch
  /\ fetch \in [at : {"idle", "token", "get"}, for : Indices \cup {"index"}, using : 0..MaxEpoch,
                attempt : 0..1, left : SUBSET Indices, got : SUBSET (PubKeys \X Indices)]
  /\ key_store \subseteq (PubKeys \ Unparsable) \X Indices

\* cloudid.rs: a stale token is renewed and a failed fetch keeps the old keys.  After
\* each fetch, whoever has had a key in the service all the while gets in, however often
\* the token went stale, by its age or by restarts of the service (but for two under one
\* request); if the service failed under the fetch, so does everybody but for the entries
\* it refused, or, if it was the index, everybody who got in before by what had been
\* fetched.  And who gets in by neither list had a key there while the last good fetch
\* was made.
KeysCurrent ==
  \A k \in PubKeys :
    /\ (\E i \in Indices : <<k, i>> \in told.through) => AuthPublickey(k)
    /\ AuthPublickey(k) => k \in listed \/ \E i \in Indices : <<k, i>> \in told.since
=============================================================================
