----------------------------- MODULE FenceOrder -----------------------------
(***************************************************************************)
(* What virglrs promises about fences, whoever delivers them: on each      *)
(* stream (one ring of one context, the legacy global path, the present    *)
(* path) fences are answered one at a time in the order they were created, *)
(* none is skipped, and every one is eventually answered.  Between streams *)
(* nothing is promised.                                                    *)
(***************************************************************************)
EXTENDS Naturals

CONSTANTS Streams,    \* the orders a guest can observe
          MaxFences   \* bound on the fences created on one stream

VARIABLES made,       \* how many fences have been created on each stream
          seen        \* the seqno last answered on each stream

vars == <<made, seen>>

Init == /\ made = [s \in Streams |-> 0]
        /\ seen = [s \in Streams |-> 0]

Make(s) == /\ made[s] < MaxFences
           /\ made' = [made EXCEPT ![s] = @ + 1]
           /\ UNCHANGED seen

Answer(s) == /\ seen[s] < made[s]
             /\ seen' = [seen EXCEPT ![s] = @ + 1]
             /\ UNCHANGED made

Next == \E s \in Streams : Make(s) \/ Answer(s)

\* Everything but the answers' coming.
Safety == Init /\ [][Next]_vars

Spec == Safety /\ \A s \in Streams : WF_vars(Answer(s))
=============================================================================
