---------------------------- MODULE MCHandleAlloc ----------------------------
(* HandleAlloc with every possible content of the uninitialised sparse array: *)
(* each index in range, and one value out of range.                           *)
EXTENDS HandleAlloc
MCGarbage == 0 .. MaxHandles
=============================================================================
