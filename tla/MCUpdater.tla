----------------------------- MODULE MCUpdater -----------------------------
(* Instances of Updater for TLC. *)
EXTENDS Updater

TwoImages == {1, 2}

=============================================================================
