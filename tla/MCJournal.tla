------------------------------ MODULE MCJournal ------------------------------
(***************************************************************************)
(* A guest that allocates twice and frees once.                            *)
(***************************************************************************)
EXTENDS Journal

TwoAndFree == {[create |-> 2, batch |-> 2, write |-> 0, free |-> 1, destroy |-> 0,
                export |-> 0, record |-> 0, reset |-> 0, ring |-> 0]}
=============================================================================
