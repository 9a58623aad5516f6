------------------------------- MODULE Reload -------------------------------
(***************************************************************************)
(* What stormd re-reads from files when they change: the certificate and   *)
(* key of the API listener, the client CAs, the bearer token.  Handshakes  *)
(* and requests ask for it at once, while whoever rotates the files writes *)
(* them one after the other.                                               *)
(***************************************************************************)
EXTENDS Naturals

CONSTANTS
  Askers,       (* handshakes and requests                *)
  Fickle,       (* the files whose mode may change        *)
  MaxVersion    (* bound on how often a file is written   *)

PairParts == {"cert", "key"}
ASSUME ReloadAssumption ==
  MaxVersion \in Nat \ {0} /\ Fickle \subseteq PairParts /\ "nobody" \notin Askers

NoValue == [f \in PairParts |-> 0]

VARIABLES
  kind,         \* pair: a certificate and its key; cas: two CA files; token: one file
  version,      \* each file's contents, and its stamp: 0 when there is no file
  readable,     \* whether each can be opened
  stamps,       \* the stamps last stored
  current,      \* what is served, NoValue when there is nothing
  holder,       \* who has the lock
  ask,          \* each asker: idle, stamped, cert, key, done
  saw, got,     \* the stamps it took, what it has read; then what it is given
  fresh,        \* history: no file has changed since it began, nor is one missing
  missed        \* history: a file that could not be opened is missing from what is served

reload_files == <<version, readable>>
reload_cache == <<stamps, current, holder>>
ReloadVars == <<kind, reload_files, reload_cache, ask, saw, got, fresh, missed>>

Used == IF kind = "token" THEN {"cert"} ELSE PairParts

\* What a read gives: the contents, or nothing.
Contents(f) == IF f \in Used /\ readable[f] THEN version[f] ELSE 0
Unopened(f) == f \in Used /\ ~readable[f] /\ version[f] # 0
\* load_certified_key, build, read_to_string: the key must go with the certificate.
Loads(v) == kind = "pair" => (v["cert"] # 0 /\ v["cert"] = v["key"])

\* ReloadingCert::new and ReloadingClientVerifier::new load what is there; a token
\* is first read when it is asked for.
ReloadInit ==
  /\ kind \in {"pair", "cas", "token"}
  /\ version \in {[f \in PairParts |-> 1], [f \in PairParts |-> IF f = "cert" THEN 1 ELSE 0]}
  /\ readable = [f \in PairParts |-> TRUE]
  /\ IF kind = "token" THEN stamps = NoValue /\ current = NoValue
     ELSE /\ stamps = version
          /\ current = IF Loads(version) THEN version ELSE NoValue
  /\ holder = "nobody"
  /\ ask = [a \in Askers |-> "idle"] /\ saw = [a \in Askers |-> NoValue]
  /\ got = [a \in Askers |-> NoValue] /\ fresh = [a \in Askers |-> FALSE]
  /\ missed = FALSE

-----------------------------------------------------------------------------
(* The files.                                                                *)

Stale == fresh' = [a \in Askers |-> FALSE]

FileWritten(f) ==
  /\ version[f] < MaxVersion /\ version' = [version EXCEPT ![f] = @ + 1] /\ Stale
  /\ UNCHANGED <<kind, readable, reload_cache, ask, saw, got, missed>>

\* Its mode changes, or descriptors run out: its stamp stays.
FileTurns(f) ==
  /\ readable' = [readable EXCEPT ![f] = ~@] /\ Stale
  /\ UNCHANGED <<kind, version, reload_cache, ask, saw, got, missed>>

-----------------------------------------------------------------------------
(* get and TokenFile::current: stamps first, then the lock, then the files.  *)

Stamps == [f \in PairParts |-> IF f \in Used THEN version[f] ELSE 0]
AskGo(a, s) == ask' = [ask EXCEPT ![a] = s]

TakesStamps(a) ==
  /\ ask[a] = "idle" /\ AskGo(a, "stamped")
  /\ saw' = [saw EXCEPT ![a] = Stamps] /\ fresh' = [fresh EXCEPT ![a] = TRUE]
  /\ UNCHANGED <<kind, reload_files, reload_cache, got, missed>>

Changed(a) == saw[a] # stamps
\* Nothing to serve is tried every time; for a token, no file to have a stamp of.
Retried(a) == \/ kind = "pair" /\ current = NoValue
              \/ kind = "token" /\ saw[a] = NoValue

Locks(a) ==
  /\ ask[a] = "stamped" /\ holder = "nobody"
  /\ IF Changed(a) \/ Retried(a)
     THEN holder' = a /\ AskGo(a, "cert") /\ got' = [got EXCEPT ![a] = NoValue] /\ UNCHANGED fresh
     ELSE /\ AskGo(a, "done") /\ got' = [got EXCEPT ![a] = current] /\ UNCHANGED holder
          /\ fresh' = [fresh EXCEPT ![a] = @ /\ ~missed]
  /\ UNCHANGED <<kind, reload_files, stamps, current, saw, missed>>

ReadsFirst(a) ==
  /\ ask[a] = "cert" /\ AskGo(a, "key")
  /\ got' = [got EXCEPT ![a]["cert"] = Contents("cert")]
  /\ missed' = Unopened("cert")
  /\ UNCHANGED <<kind, reload_files, reload_cache, saw, fresh>>

\* The second file is read, and both are stored before the lock is let go.  What does
\* not load leaves the pair that is served; the stamps are noted anyway.
ReadsAndStores(a, noted) ==
  LET read == [got[a] EXCEPT !["key"] = Contents("key")] IN
    /\ ask[a] = "key" /\ holder' = "nobody" /\ AskGo(a, "done")
    /\ stamps' = noted
    /\ current' = IF Loads(read) THEN read ELSE current
    /\ got' = [got EXCEPT ![a] = current']
    /\ missed' = (missed \/ Unopened("key"))
    /\ UNCHANGED <<kind, reload_files, saw, fresh>>

\* The stamps are those of the files as they are once they have been read.
BugStores(a) == ReadsAndStores(a, Stamps)

Stores(a) == ReadsAndStores(a, saw[a])

AsksAgain(a) ==
  /\ ask[a] = "done" /\ AskGo(a, "idle")
  /\ saw' = [saw EXCEPT ![a] = NoValue] /\ got' = [got EXCEPT ![a] = NoValue]
  /\ fresh' = [fresh EXCEPT ![a] = FALSE]
  /\ UNCHANGED <<kind, reload_files, reload_cache, missed>>

ReloadNext ==
  \/ \E f \in Used : FileWritten(f)
  \/ \E f \in Used \cap Fickle : FileTurns(f)
  \/ \E a \in Askers :
       \/ TakesStamps(a) \/ Locks(a) \/ ReadsFirst(a) \/ Stores(a) \/ AsksAgain(a)

ReloadSpec == ReloadInit /\ [][ReloadNext]_ReloadVars

-----------------------------------------------------------------------------
(* Properties.                                                               *)

\* The type invariant.
ReloadTypeOK ==
  /\ kind \in {"pair", "cas", "token"}
  /\ version \in [PairParts -> 0..MaxVersion] /\ readable \in [PairParts -> BOOLEAN]
  /\ stamps \in [PairParts -> 0..MaxVersion] /\ current \in [PairParts -> 0..MaxVersion]
  /\ holder \in Askers \cup {"nobody"}
  /\ ask \in [Askers -> {"idle", "stamped", "cert", "key", "done"}]
  /\ saw \in [Askers -> [PairParts -> 0..MaxVersion]] /\ got \in [Askers -> [PairParts -> 0..MaxVersion]]
  /\ fresh \in [Askers -> BOOLEAN] /\ missed \in BOOLEAN

\* tls.rs: a pair that is rotated is served from the next handshake.  Who asks after
\* the last change is given what the files hold, whatever askers that began before it
\* have stored meanwhile, unless a file that has not changed since could not be opened
\* then.
ServesNewest ==
  \A a \in Askers :
    (ask[a] = "done" /\ fresh[a] /\ Loads(Stamps) /\ \A f \in PairParts : readable[f]) =>
      got[a] = Stamps
=============================================================================
