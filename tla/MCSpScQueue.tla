----------------------------- MODULE MCSpScQueue -----------------------------
(* Both uses of the queue, with two producers where there is a mutex.         *)
EXTENDS SpScQueue
CONSTANTS t1
=============================================================================
