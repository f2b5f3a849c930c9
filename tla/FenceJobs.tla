----------------------------- MODULE FenceJobs -----------------------------
(***************************************************************************)
(* What the retirement queue is about (src/fence.rs): who can hold a share *)
(* of it, the streams of fences put into it, and the job that ends it.     *)
(***************************************************************************)
EXTENDS Integers

CONSTANTS Holders,    \* everything that can hold a share of the queue
          Owner,      \* the renderer's own Retirement, the first share
          Streams,    \* (context, ring) pairs, the global path, the presents
          MaxFences,  \* bound on the fences created on one stream
          Stop,       \* the job that ends the thread
          None        \* no job in hand

ASSUME ConstantsOK == /\ Owner \in Holders
                      /\ MaxFences \in Nat
                      /\ Stop # None

Fence == [stream : Streams, seqno : Nat \ {0}]
Job   == Fence \cup {Stop}

ASSUME JobsDistinct == Stop \notin Fence /\ None \notin Fence
=============================================================================
