--------------------------- MODULE MCQueueFences ---------------------------
(***************************************************************************)
(* Devices and queues for the runs of QueueFences.                         *)
(***************************************************************************)
EXTENDS QueueFences, TLC

CONSTANTS r1, r2, q1, q2, d1, d2

\* One queue; two queues of one device; one queue on each of two devices.
Alone   == q1 :> d1
Sisters == q1 :> d1 @@ q2 :> d1
Apart   == q1 :> d1 @@ q2 :> d2

\* Every ring may be bound to every queue, so rings are interchangeable; so are
\* the queues of one device, under DeviceOf <- Sisters.
SisterSymmetry == Permutations(Rings) \cup Permutations(Queues)
=============================================================================
