------------------------------- MODULE MCLocks -------------------------------
(***************************************************************************)
(* Locks for TLC, by itself: one process, whose child may be deaf.         *)
(***************************************************************************)
EXTENDS Locks

OneProc == {"web"}
=============================================================================
