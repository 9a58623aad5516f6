------------------------------- MODULE Follow -------------------------------
(***************************************************************************)
(* Following a process's output: the two reader tasks of a run             *)
(* (stormlog/lib.rs, spawn_capture), the process's terminal, the broadcast *)
(* channels every entry is published to (stormlog/stream.rs) and the two   *)
(* WebSocket followers, the console of one process and the log view        *)
(* (stormd/ws.rs).                                                         *)
(*                                                                         *)
(* A line is a number, in the order the child wrote them.  A chunk is what *)
(* one read of the pipe returned.  The entries that no child wrote (the    *)
(* markers of a run, and what api.rs ingests) are not on the terminal.     *)
(***************************************************************************)
EXTENDS Integers, Sequences, FiniteSets

CONSTANTS
  Viewers,      \* the followers
  Rows,         \* lines the terminal shows
  Capacity,     \* CHANNEL_CAPACITY: entries a slow follower can be behind
  MaxEntries    \* bound: entries of all kinds

ASSUME FollowAssumption == Rows \in Nat \ {0} /\ Capacity \in Nat \ {0} /\ MaxEntries \in Nat

(* stdout lines are Info unless they say otherwise, stderr ones Warning. *)
Readers == {"stdout", "stderr"}
Severity == [error |-> 3, warning |-> 4, info |-> 6]
Default == [stdout |-> Severity.info, stderr |-> Severity.warning]
Channels == {"process", "all"}

(* What a follower asked for: the console, or the log of the process or of *)
(* all, entries at least as severe as `least' (Debug is all of them).      *)
Debug == 7
Asks == [view : {"console"}, on : {"process"}, least : {Debug}]
        \cup [view : {"logs"}, on : Channels, least : {Severity.warning, Debug}]

VARIABLES
  made,       \* entries so far
  reader,     \* per reader: the lines of its chunk, and where it is with the first
  screen,     \* the lines the terminal shows, and those it has shown before
  ingest,     \* the entry api.rs or a marker is writing, if any
  channel,    \* per channel: every entry sent on it
  viewer      \* per follower: how far it is and what it has been shown

followVars == <<made, reader, screen, ingest, channel, viewer>>

NoEntry == [line |-> 0, severity |-> Debug, child |-> FALSE]
IdleViewer == [pc |-> "idle", entry |-> NoEntry]
Away == [pc |-> "away", ask |-> [view |-> "console", on |-> "process", least |-> Debug],
         at |-> 0, since |-> 0, shown |-> {}, passed |-> {}, skipped |-> 0]

-----------------------------------------------------------------------------
(* A read: the terminal is fed the whole chunk before its first line is    *)
(* written anywhere.                                                       *)
Fed(lines) ==
  LET all == screen.rows \o lines
      off == IF Len(all) > Rows THEN Len(all) - Rows ELSE 0
  IN [rows |-> SubSeq(all, off + 1, Len(all)),
      off  |-> screen.off \cup {all[k] : k \in 1..off}]

ReadChunk(r) ==
  /\ reader[r].lines = <<>>
  /\ \E n \in 1..2 :
       /\ made + n <= MaxEntries
       /\ made' = made + n
       /\ \E severity \in {Default[r], Severity.error} :
            reader' = [reader EXCEPT ![r] =
                         [pc |-> "line",
                          lines |-> [k \in 1..n |-> [line |-> made + k, severity |-> severity,
                                                     child |-> TRUE]]]]
       /\ screen' = Fed([k \in 1..n |-> made + k])
  /\ UNCHANGED <<ingest, channel, viewer>>

(* write_entry ends in publish: the process's channel under the lock of    *)
(* the channels, the global one after it.                                  *)
PublishProcess(r) ==
  /\ reader[r].pc = "line" /\ reader[r].lines # <<>>
  /\ channel' = [channel EXCEPT !["process"] = Append(@, Head(reader[r].lines))]
  /\ reader' = [reader EXCEPT ![r].pc = "all"]
  /\ UNCHANGED <<made, screen, ingest, viewer>>

PublishAll(r) ==
  /\ reader[r].pc = "all"
  /\ channel' = [channel EXCEPT !["all"] = Append(@, Head(reader[r].lines))]
  /\ reader' = [reader EXCEPT ![r] = [pc |-> "line", lines |-> Tail(@.lines)]]
  /\ UNCHANGED <<made, screen, ingest, viewer>>

(* A marker, or an entry from POST /logs/ingest: no terminal. *)
IngestEntry ==
  /\ ingest.pc = "idle" /\ made < MaxEntries
  /\ made' = made + 1
  /\ \E severity \in {Severity.info, Severity.error} :
       LET entry == [line |-> made + 1, severity |-> severity, child |-> FALSE]
       IN /\ ingest' = [pc |-> "all", entry |-> entry]
          /\ channel' = [channel EXCEPT !["process"] = Append(@, entry)]
  /\ UNCHANGED <<reader, screen, viewer>>

IngestAll ==
  /\ ingest.pc = "all"
  /\ channel' = [channel EXCEPT !["all"] = Append(@, ingest.entry)]
  /\ ingest' = IdleViewer
  /\ UNCHANGED <<made, reader, screen, viewer>>

-----------------------------------------------------------------------------
(* handle_console subscribes and then takes the screen; handle_logs only   *)
(* subscribes.                                                             *)
Subscribe(v) ==
  /\ viewer[v].pc = "away"
  /\ \E ask \in Asks :
       viewer' = [viewer EXCEPT ![v] =
                    [Away EXCEPT !.pc = IF ask.view = "console" THEN "snapshot" ELSE "live",
                                 !.ask = ask, !.at = Len(channel[ask.on]) + 1,
                                 !.since = Len(channel[ask.on]) + 1]]
  /\ UNCHANGED <<made, reader, screen, ingest, channel>>

Snapshot(v) ==
  /\ viewer[v].pc = "snapshot"
  /\ viewer' = [viewer EXCEPT ![v].pc = "live", ![v].shown = {screen.rows[k] : k \in DOMAIN screen.rows},
                              ![v].passed = screen.off]
  /\ UNCHANGED <<made, reader, screen, ingest, channel>>

(* recv: a follower more than Capacity entries behind is told how many it  *)
(* missed and goes on with the oldest one kept.                            *)
Behind(v) == Len(channel[viewer[v].ask.on]) - viewer[v].at + 1

(* BUG: the follower jumps to the newest entry and counts to the oldest. *)
BugLagged(v) ==
  /\ viewer[v].pc = "live" /\ Behind(v) > Capacity
  /\ viewer' = [viewer EXCEPT ![v].at = Len(channel[viewer[v].ask.on]),
                              ![v].skipped = @ + Behind(v) - Capacity]
  /\ UNCHANGED <<made, reader, screen, ingest, channel>>

Lagged(v) ==
  /\ viewer[v].pc = "live" /\ Behind(v) > Capacity
  /\ LET missed == Behind(v) - Capacity
     IN viewer' = [viewer EXCEPT ![v].at = @ + missed, ![v].skipped = @ + missed]
  /\ UNCHANGED <<made, reader, screen, ingest, channel>>

(* An entry as severe as asked for is shown; syslog's order, 0 the worst. *)
Receive(v) ==
  /\ viewer[v].pc = "live" /\ Behind(v) \in 1..Capacity
  /\ LET entry == channel[viewer[v].ask.on][viewer[v].at]
     IN viewer' = [viewer EXCEPT ![v].at = @ + 1,
                                 ![v].shown = IF entry.severity > viewer[v].ask.least THEN @
                                              ELSE @ \cup {entry.line}]
  /\ UNCHANGED <<made, reader, screen, ingest, channel>>

Closed(v) ==
  /\ viewer[v].pc # "away"
  /\ viewer' = [viewer EXCEPT ![v] = Away]
  /\ UNCHANGED <<made, reader, screen, ingest, channel>>

FollowInit ==
  /\ made = 0
  /\ reader = [r \in Readers |-> [pc |-> "line", lines |-> <<>>]]
  /\ screen = [rows |-> <<>>, off |-> {}]
  /\ ingest = IdleViewer
  /\ channel = [c \in Channels |-> <<>>]
  /\ viewer = [v \in Viewers |-> Away]

FollowNext ==
  \/ \E r \in Readers : ReadChunk(r) \/ PublishProcess(r) \/ PublishAll(r)
  \/ IngestEntry \/ IngestAll
  \/ \E v \in Viewers : Subscribe(v) \/ Snapshot(v) \/ Lagged(v) \/ Receive(v) \/ Closed(v)

FollowSpec == FollowInit /\ [][FollowNext]_followVars

-----------------------------------------------------------------------------
FollowTypeOK ==
  /\ made \in 0..MaxEntries
  /\ \A r \in Readers : reader[r].pc \in {"line", "all"}
  /\ Len(screen.rows) <= Rows
  /\ \A v \in Viewers : viewer[v].pc \in {"away", "snapshot", "live"}

(* Nothing falls between a follower's first screen and the entries that    *)
(* come after it: a line sent before it subscribed is on the screen it got *)
(* or had already left it, and of the entries since, those it asked for    *)
(* and was not shown are no more than it was told it missed.  A line is    *)
(* fed to the terminal before it is published, and handle_console          *)
(* subscribes before it takes the screen.                                  *)
SeenOrTold ==
  \A v \in Viewers :
    viewer[v].pc = "live" =>
      LET sent == channel[viewer[v].ask.on]
          Unseen(i) == sent[i].line \notin viewer[v].shown
      IN /\ viewer[v].ask.view = "console" =>
              \A i \in 1..(viewer[v].since - 1) :
                sent[i].child => ~Unseen(i) \/ sent[i].line \in viewer[v].passed
         /\ Cardinality({i \in viewer[v].since..(viewer[v].at - 1) :
                           sent[i].severity <= viewer[v].ask.least /\ Unseen(i)})
              <= viewer[v].skipped
=============================================================================
