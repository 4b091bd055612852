---------------------------- MODULE HandleHashMap ----------------------------
(***************************************************************************)
(* bx::HandleHashMapT (src/bx/include/bx/inline/handlealloc.inl): open     *)
(* addressing with linear probing.  A removed entry leaves no mark: the    *)
(* entries after it, up to the next free slot, are inserted again when     *)
(* they can no longer be found where they are.                             *)
(*                                                                         *)
(* The maps of shaders, programs, uniforms and vertex layouts are of this  *)
(* type.  They hold each handle at most once.  reset, which the            *)
(* constructor calls, clears m_handle and leaves m_key as it is.           *)
(***************************************************************************)
EXTENDS Integers, FiniteSets

CONSTANTS
    Keys,
    Handles,
    kInvalidHandle,
    Capacity         \* MaxCapacityT

ASSUME CapacityAssumption == Capacity \in Nat \ {0}
ASSUME InvalidAssumption == kInvalidHandle \notin Handles

VARIABLES
    home,    \* mix(key) % MaxCapacityT, any function
    key,     \* m_key
    handle,  \* m_handle
    num,     \* m_numElements
    shift,   \* removeIndex: the slot its loop has reached, NoSlot outside
    result   \* what the last insert or removeByKey returned

vars == <<home, key, handle, num, shift, result>>

Slots == 0 .. Capacity - 1
NoSlot == Capacity      \* UINT32_MAX

After(i) == (i + 1) % Capacity

TypeOK ==
    /\ home \in [Keys -> Slots]
    /\ key \in [Slots -> Keys]
    /\ handle \in [Slots -> Handles \union {kInvalidHandle}]
    /\ num \in 0 .. Capacity
    /\ shift \in Slots \union {NoSlot}
    /\ result \in BOOLEAN

Init ==
    /\ home \in [Keys -> Slots]
    /\ key \in [Slots -> Keys]
    /\ handle = [i \in Slots |-> kInvalidHandle]
    /\ num = 0
    /\ shift = NoSlot
    /\ result = FALSE

Used(i) == handle[i] # kInvalidHandle

\* How many slots a search for k passes before it comes to slot i.
Probes(k, i) == (i - home[k]) % Capacity

\* A search for k ends at the first slot that is free or has the key.
Ends(k, i) == ~Used(i) \/ key[i] = k
FirstEnd(k, i) == Ends(k, i) /\ \A j \in Slots : Ends(k, j) => Probes(k, i) <= Probes(k, j)

\* Bug: a slot whose entry has been removed is not seen as free.
FindIndexIgnoringFree(k) ==
    IF \E i \in Slots : key[i] = k THEN CHOOSE i \in Slots : key[i] = k ELSE NoSlot

FindIndex(k) ==
    IF \E i \in Slots : FirstEnd(k, i) /\ Used(i)
       THEN CHOOSE i \in Slots : FirstEnd(k, i)
       ELSE NoSlot

Find(k) == IF FindIndex(k) = NoSlot THEN kInvalidHandle ELSE handle[FindIndex(k)]

Idle == shift = NoSlot

\* insert, with the slot its search ends at.
Insert(k, h) ==
    /\ Idle
    /\ \A i \in Slots : handle[i] # h
    /\ \/ /\ \E i \in Slots :
                /\ FirstEnd(k, i) /\ ~Used(i)
                /\ key' = [key EXCEPT ![i] = k]
                /\ handle' = [handle EXCEPT ![i] = h]
          /\ num' = num + 1
          /\ result' = TRUE
       \/ /\ \A i \in Slots : FirstEnd(k, i) => Used(i)
          /\ result' = FALSE
          /\ UNCHANGED <<key, handle, num>>
    /\ UNCHANGED <<home, shift>>

\* Bug: the entries after the removed one stay where they are.
RemoveIndexOnly(i) ==
    /\ handle' = [handle EXCEPT ![i] = kInvalidHandle]
    /\ num' = num - 1
    /\ shift' = NoSlot

\* Bug: the loop starts while the entry is still there.
RemoveIndexLater(i) ==
    /\ handle' = handle
    /\ num' = num - 1
    /\ shift' = After(i)

\* removeIndex up to its loop.
RemoveIndex(i) ==
    /\ handle' = [handle EXCEPT ![i] = kInvalidHandle]
    /\ num' = num - 1
    /\ shift' = After(i)

RemoveByKey(k) ==
    /\ Idle
    /\ \/ FindIndex(k) # NoSlot /\ RemoveIndex(FindIndex(k)) /\ result' = TRUE
       \/ FindIndex(k) = NoSlot /\ result' = FALSE /\ UNCHANGED <<handle, num, shift>>
    /\ UNCHANGED <<home, key>>

RemoveByHandle(h) ==
    /\ Idle
    /\ \E i \in Slots : handle[i] = h /\ RemoveIndex(i)
    /\ UNCHANGED <<home, key, result>>

\* Bug: an entry that moves is counted as removed and not as inserted.
ShiftMiscounts ==
    /\ ~Idle
    /\ \/ ~Used(shift) /\ shift' = NoSlot /\ UNCHANGED <<key, handle, num>>
       \/ Used(shift) /\ FindIndex(key[shift]) = shift /\ shift' = After(shift)
          /\ UNCHANGED <<key, handle, num>>
       \/ /\ Used(shift) /\ FindIndex(key[shift]) # shift
          /\ \E i \in Slots :
                /\ FirstEnd(key[shift], i)
                /\ key' = [key EXCEPT ![i] = key[shift]]
                /\ handle' = [handle EXCEPT ![shift] = kInvalidHandle, ![i] = handle[shift]]
          /\ num' = num - 1
          /\ shift' = After(shift)
    /\ UNCHANGED <<home, result>>

\* Bug: the loop ends at the first entry that is where it belongs.
ShiftStopsEarly ==
    /\ ~Idle
    /\ \/ /\ ~Used(shift) \/ FindIndex(key[shift]) = shift
          /\ shift' = NoSlot /\ UNCHANGED <<key, handle>>
       \/ /\ Used(shift) /\ FindIndex(key[shift]) # shift
          /\ \E i \in Slots :
                /\ FirstEnd(key[shift], i)
                /\ key' = [key EXCEPT ![i] = key[shift]]
                /\ handle' = [handle EXCEPT ![shift] = kInvalidHandle, ![i] = handle[shift]]
          /\ shift' = After(shift)
    /\ UNCHANGED <<home, num, result>>

\* One round of removeIndex's loop.  An entry that is not found at its slot is
\* taken out and inserted again, which cannot fail: its search ends at a free slot.
Shift ==
    /\ ~Idle
    /\ \/ ~Used(shift) /\ shift' = NoSlot /\ UNCHANGED <<key, handle>>
       \/ /\ Used(shift) /\ FindIndex(key[shift]) = shift
          /\ shift' = After(shift) /\ UNCHANGED <<key, handle>>
       \/ /\ Used(shift) /\ FindIndex(key[shift]) # shift
          /\ \E i \in Slots :
                /\ FirstEnd(key[shift], i)
                /\ key' = [key EXCEPT ![i] = key[shift]]
                /\ handle' = [handle EXCEPT ![shift] = kInvalidHandle, ![i] = handle[shift]]
          /\ shift' = After(shift)
    /\ UNCHANGED <<home, num, result>>

Next ==
    \/ \E k \in Keys : RemoveByKey(k) \/ \E h \in Handles : Insert(k, h)
    \/ \E h \in Handles : RemoveByHandle(h)
    \/ Shift

Spec == Init /\ [][Next]_vars
FairSpec == Spec /\ WF_vars(Shift)

-----------------------------------------------------------------------------
(* Properties.                                                              *)

\* find sees exactly the entries there are: a hole never hides one behind it, and
\* keys left over in free slots are never taken for entries.  m_numElements, which an
\* Iterator counts down, is their number.
FindExact ==
    /\ Idle => \A k \in Keys : \A h \in Handles :
                  Find(k) = h <=> \E i \in Slots : handle[i] = h /\ key[i] = k
    /\ num = Cardinality({i \in Slots : Used(i)})

\* removeIndex returns, also in a table without a free slot.
RemovalEnds == ~Idle ~> Idle

\* The table implements a map.
Map == INSTANCE HandleMap WITH
    map <- {<<key[i], handle[i]>> : i \in {j \in Slots : Used(j)}}
HandleMapSpec == Map!MapSpec
=============================================================================
