------------------------------- MODULE MCRing -------------------------------
(***************************************************************************)
(* The settings the runs of Ring put a ring in.                            *)
(***************************************************************************)
EXTENDS Ring

\* At its doorbell: it parks between a guest's writes, under a present and a teardown.
Doorbell ==
  [cmds |-> {<<"run", 0>>}, ops |-> {}, sends |-> 0, presents |-> 1, idle |-> 1,
   lies |-> FALSE, teardown |-> TRUE]

\* At its seqnos: the context's stream submits them and waits.
Seqnos ==
  [cmds |-> {<<"run", 0>>, <<"vqwait", 1>>, <<"bad", 0>>}, ops |-> {"submit", "wait"},
   sends |-> 2, presents |-> 0, idle |-> 0, lies |-> FALSE, teardown |-> FALSE]

\* Under batches of every kind, an overrun, a destroy and a teardown.
Batches ==
  [cmds |-> {<<"run", 0>>, <<"vqwait", 1>>, <<"ask", 0>>, <<"bad", 0>>}, ops |-> {"bad", "destroy"},
   sends |-> 1, presents |-> 0, idle |-> 0, lies |-> TRUE, teardown |-> TRUE]

Waits   == {Doorbell, Seqnos}
Batched == {Batches}
Stopped == {[Doorbell EXCEPT !.idle = 0]}
=============================================================================
