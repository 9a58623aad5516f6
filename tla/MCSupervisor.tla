---------------------------- MODULE MCSupervisor ----------------------------
(* Instances of Supervisor for TLC. *)
EXTENDS Supervisor, TLC

Restarts == [on_exit |-> "restart", on_failure |-> "restart", on_no_restart |-> "hold",
             policy |-> "None", max_restarts |-> 1]

\* Between them: every row of the table in handle_exit, with and without a
\* restart_policy.
SomeConfigs ==
  { Restarts,
    [Restarts EXCEPT !.on_exit = "stop", !.on_failure = "fail"],
    [Restarts EXCEPT !.on_failure = "ignore", !.on_no_restart = "fail"],
    [Restarts EXCEPT !.policy = "OnFailure"] }

CallerSymmetry == Permutations(Callers)
=============================================================================
