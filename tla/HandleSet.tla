------------------------------ MODULE HandleSet ------------------------------
(***************************************************************************)
(* What a bx handle allocator promises: a set of handles in use, alloc     *)
(* returns one that is not in use and fails only when there is none.       *)
(***************************************************************************)
CONSTANTS
    Handles,
    NoHandle,  \* what alloc returns when every handle is in use
    NoResult   \* alloc has not been called since the last reset

VARIABLES inUse, result

setVars == <<inUse, result>>

SetInit == inUse = {} /\ result = NoResult

SetAlloc ==
    \/ \E h \in Handles \ inUse : inUse' = inUse \union {h} /\ result' = h
    \/ inUse = Handles /\ result' = NoHandle /\ UNCHANGED inUse

SetFree == /\ \E h \in inUse : inUse' = inUse \ {h}
           /\ UNCHANGED result

SetReset == inUse' = {} /\ result' = NoResult

SetNext == SetAlloc \/ SetFree \/ SetReset

SetSpec == SetInit /\ [][SetNext]_setVars
=============================================================================
