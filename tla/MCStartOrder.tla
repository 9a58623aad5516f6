---------------------------- MODULE MCStartOrder ----------------------------
(* Instances of StartOrder for TLC. *)
EXTENDS StartOrder

\* A one-shot, a probed service that needs it, and a service that needs both.
Chain == [deps |-> <<<<>>, <<1>>, <<1, 2>>>>, one_shot |-> {1}, probed |-> {2},
          restarted |-> {}]

\* A probed one-shot that is restarted (restart_policy "always"), and a service that
\* waits for it and then for a third that config order never starts.
Forward == [deps |-> <<<<>>, <<1, 3>>, <<>>>>, one_shot |-> {1}, probed |-> {1},
            restarted |-> {1}]

SomeLayouts == {Chain, Forward}
=============================================================================
