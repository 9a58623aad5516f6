------------------------------ MODULE MCServices ------------------------------
(***************************************************************************)
(* One instance for TLC of the parts of stormd that run beside the         *)
(* supervisor and share no state: each behaviour is one of theirs, so that *)
(* a state of the run is a state of one part with the others at rest.      *)
(***************************************************************************)
EXTENDS Reaper, Cron, Reload, Goldens, RunLog, Files, Applets, Follow, Locks, Keys, NodeVars,
        K8sEvents, ApiHealth, LineEditor, Standalone

VARIABLE part   \* the part this behaviour is of

Services == {"reaper", "cron", "reload", "goldens", "runlog", "files", "applets", "follow", "locks",
             "keys", "nodevars", "events", "apihealth", "editor",
             "standalone"}

TwoPaces == [j \in Jobs |-> IF j = "often" THEN 1 ELSE 2]

\* "", "2", "11", "1:2", "A", "a", " 2 "; and the patterns "1", "a", "11".
SmallLines == {<<>>, <<50>>, <<49, 49>>, <<49, 58, 50>>, <<65>>, <<97>>, <<32, 50, 32>>}
SmallPatterns == {<<49>>, <<97>>, <<49, 49>>}

\* "${n}", in arguments, values and the path of a file.
Ref(n) == <<"${", n, "}">>
SomeArgs == {<<",">> \o Ref("NODE_IP"), Ref("K") \o Ref("NODE_NAME"), Ref("H") \o Ref("NODE_IP") \o <<"${", "NODE_IP">>,
             Ref("K") \o <<"NODE_IP", "}">>}
SomeValues == {<<>>, Ref("NODE_IP") \o <<":">>, Ref("K"), <<"${">>}
SomeFiles == {Ref("NODE_IP") \o <<".crt">>}
QuietConfig == [args |-> <<",">> \o Ref("NODE_IP"), env |-> NoEnv, env_default |-> NoEnv, wait_for_files |-> {}]
QuietImds == [up |-> TRUE, tokens |-> FALSE, epoch |-> 1, served |-> [i \in Indices |-> {}]]
\* The commands l, which takes paths, s, which is systemctl, ll, which takes a process's
\* name, and sl, which leaves; a letter of two bytes, the second of which is U+00A0.
AGrave == [w \in Wide |-> <<"A~", BLANK>>]
TheSystemctl == <<"s">>
SomeBuiltins == {<<"l">>, <<"s">>, <<"l", "l">>, <<"s", "l">>}
SomeFileCmds == {<<"l">>}
SomeProcessCmds == {<<"l", "l">>}
SomeSubcommands == {<<"l", "s">>}
SomeLeaving == {<<"s", "l">>}
SomeNames == {<<"s", "l">>}
SomeHere == {<<"s">>, <<"l", "s">>}
OneDir == {<<"s">>}
OneEntry == [d \in OneDir |-> {<<"l">>}]
EntryKeys == {{}, {"k", "junk"}}

\* The volumes are alike, and so are the processes: one is wanted first, and one may
\* be deaf.
ServicesInit ==
  /\ part \in Services
  /\ ReaperInit /\ CronInit /\ RunLogInit /\ FilesInit /\ FollowInit /\ K8sInit /\ ApiHealthInit
  /\ LineEditorInit /\ StandaloneInit
  /\ ReloadInit /\ (part = "reload" \/ (kind = "token" /\ version["key"] = 0))
  /\ GoldensInit /\ wanted = (CHOOSE v \in Volumes : TRUE) /\ (part = "goldens" \/ content = "image")
  /\ AppletsInit /\ (part = "applets" \/ text = <<>>)
  /\ KeysInit /\ (part = "keys" \/ imds = QuietImds)
  /\ NodeVarsInit /\ (part = "nodevars" \/ (config = QuietConfig /\ inherited = NoEnv /\ node_values = NodeValues(FALSE)))
  /\ LocksInit /\ \A p \in Procs : stdin[p].reads \/ (part = "locks" /\ p = "web")

OthersRest ==
  /\ part' = part
  /\ part # "reaper" => UNCHANGED ReaperVars
  /\ part # "cron" => UNCHANGED CronVars
  /\ part # "reload" => UNCHANGED ReloadVars
  /\ part # "goldens" => UNCHANGED GoldensVars
  /\ part # "runlog" => UNCHANGED RunLogVars
  /\ part # "files" => UNCHANGED FilesVars
  /\ part # "applets" => UNCHANGED appletVars
  /\ part # "follow" => UNCHANGED followVars
  /\ part # "locks" => UNCHANGED locksVars
  /\ part # "keys" => UNCHANGED keysVars
  /\ part # "nodevars" => UNCHANGED nodeVars
  /\ part # "events" => UNCHANGED k8sVars
  /\ part # "apihealth" => UNCHANGED apiHealthVars
  /\ part # "editor" => UNCHANGED terminalVars
  /\ part # "standalone" => UNCHANGED call

ServicesNext ==
  /\ \/ part = "reaper" /\ ReaperNext
     \/ part = "cron" /\ CronNext
     \/ part = "reload" /\ ReloadNext
     \/ part = "goldens" /\ GoldensNext
     \/ part = "runlog" /\ RunLogNext
     \/ part = "files" /\ FilesNext
     \/ part = "applets" /\ AppletsNext
     \/ part = "follow" /\ FollowNext
     \/ part = "locks" /\ LocksNext
     \/ part = "keys" /\ KeysNext
     \/ part = "nodevars" /\ NodeVarsNext
     \/ part = "events" /\ K8sNext
     \/ part = "apihealth" /\ ApiHealthNext
     \/ part = "editor" /\ LineEditorNext
     \/ part = "standalone" /\ Invoke
  /\ OthersRest
===============================================================================
