------------------------------ MODULE MCProbes ------------------------------
(* The instance of Probes for TLC: a process has the probes of a Kubernetes  *)
(* container, or one of the others.                                          *)
EXTENDS Probes

Kubernetes == {{"startup", "liveness"}, {"readiness"}, {"ready_probe"}, {"api"}}
=============================================================================
