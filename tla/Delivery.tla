------------------------------ MODULE Delivery ------------------------------
(***************************************************************************)
(* What the CD reconciler promises, without caches, conflicts, restarts or *)
(* deletion: images are built one after the other, an image that was built *)
(* is rolled out, never one older than an image rolled out before, and an  *)
(* image is only reported once it was rolled out.  The Deployment may be   *)
(* taken away at any time; even then nothing older comes back.             *)
(* CDController implements it.                                             *)
(***************************************************************************)
EXTENDS Naturals

VARIABLES
  built,      \* images built so far
  rolledOut,  \* the latest image that was rolled out
  running,    \* the image that runs, 0 if none does
  reported    \* the image in the status

vars == <<built, rolledOut, running, reported>>

Init == built = 0 /\ rolledOut = 0 /\ running = 0 /\ reported = 0

Build == built' = built + 1 /\ UNCHANGED <<rolledOut, running, reported>>

RollOut ==
  /\ \E n \in rolledOut .. built : n > 0 /\ rolledOut' = n /\ running' = n
  /\ UNCHANGED <<built, reported>>

Report ==
  /\ \E n \in (reported + 1) .. rolledOut : reported' = n
  /\ UNCHANGED <<built, rolledOut, running>>

TakeAway == running' = 0 /\ UNCHANGED <<built, rolledOut, reported>>

Next == Build \/ RollOut \/ Report \/ TakeAway

Spec == Init /\ [][Next]_vars
=============================================================================
