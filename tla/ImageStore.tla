----------------------------- MODULE ImageStore -----------------------------
(***************************************************************************)
(* What the image updater promises of a process's rootfs, whatever fails   *)
(* or crashes: it is a whole published image or nothing, it is taken away  *)
(* and replaced only while the process is down, and only a rootfs that is  *)
(* there is run.                                                           *)
(*                                                                         *)
(* The promise is of one update at a time: once two update the process at  *)
(* once, or something else starts it during an update, nothing is.         *)
(***************************************************************************)
EXTENDS Naturals

CONSTANT Images     (* the images that are published: numbers, from 1 *)

VARIABLES
  rootfs,   \* the image in place; 0 when there is none
  up,       \* whether the process has a child
  shared    \* something else has had a hand in an update

vars == <<rootfs, up, shared>>

Init == rootfs = 0 /\ up = FALSE /\ shared = FALSE

Run == rootfs # 0 /\ up' = TRUE /\ UNCHANGED <<rootfs, shared>>

End == up' = FALSE /\ UNCHANGED <<rootfs, shared>>

TakeAway == ~up /\ rootfs' = 0 /\ UNCHANGED <<up, shared>>

PutInPlace == ~up /\ rootfs = 0 /\ rootfs' \in Images /\ UNCHANGED <<up, shared>>

\* From the moment of the interference on.
Interfered == shared' = TRUE

Next == Interfered \/ Run \/ End \/ TakeAway \/ PutInPlace

Spec == Init /\ [][Next]_vars
=============================================================================
