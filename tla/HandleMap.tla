------------------------------ MODULE HandleMap ------------------------------
(***************************************************************************)
(* What a bx hash map of handles promises: a partial map from keys to      *)
(* handles; insert refuses a key that is there and a map that is full.     *)
(***************************************************************************)
EXTENDS Integers, FiniteSets

CONSTANTS Keys, Handles, Capacity

VARIABLES
    map,     \* pairs of a key and its handle
    result   \* what the last insert or removeByKey returned

mapVars == <<map, result>>

Present(k) == \E h \in Handles : <<k, h>> \in map

MapInit == map = {} /\ result = FALSE

MapInsert == \E k \in Keys, h \in Handles :
    \/ /\ ~Present(k) /\ Cardinality(map) < Capacity
       /\ map' = map \union {<<k, h>>} /\ result' = TRUE
    \/ /\ Present(k) \/ Cardinality(map) = Capacity
       /\ result' = FALSE /\ UNCHANGED map

MapRemoveByKey == \E k \in Keys :
    /\ map' = {p \in map : p[1] # k}
    /\ result' = Present(k)

MapRemoveByHandle == \E h \in Handles :
    /\ map' = {p \in map : p[2] # h}
    /\ UNCHANGED result

MapNext == MapInsert \/ MapRemoveByKey \/ MapRemoveByHandle

MapSpec == MapInit /\ [][MapNext]_mapVars
=============================================================================
