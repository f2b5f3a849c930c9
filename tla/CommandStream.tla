---------------------------- MODULE CommandStream ----------------------------
(***************************************************************************)
(* What a command ring promises a guest: the commands it wrote are run     *)
(* once each, in the order it wrote them, and nothing else is.  How many   *)
(* run at a time is the host's business, and it may stop at any of them.   *)
(***************************************************************************)
EXTENDS Naturals, Sequences

VARIABLES written,   \* the commands the guest has written, in order
          ran        \* the positions the host has run, in order

vars == <<written, ran>>

Init == written = <<>> /\ ran = <<>>

Write == /\ Len(written') > Len(written)
         /\ SubSeq(written', 1, Len(written)) = written
         /\ UNCHANGED ran

Run == /\ \E n \in Len(ran) + 1 .. Len(written) :
            ran' = ran \o [k \in 1 .. n - Len(ran) |-> Len(ran) + k]
       /\ UNCHANGED written

Next == Write \/ Run

Spec == Init /\ [][Next]_vars
=============================================================================
