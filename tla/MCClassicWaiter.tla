-------------------------- MODULE MCClassicWaiter --------------------------
(***************************************************************************)
(* Contexts and command queues for the runs of ClassicWaiter.              *)
(***************************************************************************)
EXTENDS ClassicWaiter, TLC

CONSTANTS c1, s1

\* One context with one sub-context: with ctx0's, its work is on two queues.
SubsOne == c1 :> {s1}
=============================================================================
