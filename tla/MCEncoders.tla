----------------------------- MODULE MCEncoders -----------------------------
(* Encoders with two recording threads and the API thread.                   *)
EXTENDS Encoders, TLC
CONSTANTS w1, w2
Symmetric == Permutations({w1, w2})
=============================================================================
