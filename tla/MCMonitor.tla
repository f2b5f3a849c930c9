------------------------------ MODULE MCMonitor ------------------------------
(* The periods two rings ask their monitor for: a shorter one after a longer. *)
EXTENDS Monitor

Periods == <<9, 2>>
=============================================================================
