----------------------------- MODULE HandleAlloc -----------------------------
(***************************************************************************)
(* bx::HandleAlloc (src/bx/include/bx/inline/handlealloc.inl): handles in  *)
(* 0 .. m_maxHandles-1 kept in a dense array, those in use first, and a    *)
(* sparse array that gives the place of a handle in dense.  The memory of  *)
(* both follows the object; createHandleAlloc does not clear it, and the   *)
(* constructor fills dense only, so sparse starts with arbitrary contents. *)
(***************************************************************************)
EXTENDS Integers, FiniteSets

CONSTANTS
    MaxHandles,  \* m_maxHandles
    Garbage      \* values an uninitialised element of sparse may have

ASSUME MaxHandlesAssumption == MaxHandles \in Nat \ {0}
ASSUME GarbageAssumption == Garbage \subseteq Nat

VARIABLES
    numHandles,  \* m_numHandles
    dense,       \* getDensePtr()[0 .. m_maxHandles-1]
    sparse,      \* getSparsePtr()[0 .. m_maxHandles-1]
    allocated    \* what the last call of alloc since reset returned

allocVars == <<numHandles, dense, sparse, allocated>>

AllHandles == 0 .. MaxHandles - 1
NoHandle == MaxHandles      \* kInvalidHandle: any value no handle has
NoResult == -1                    \* alloc has not been called since the last reset

AllocTypeOK ==
    /\ numHandles \in 0 .. MaxHandles
    /\ dense \in [AllHandles -> AllHandles]
    /\ sparse \in [AllHandles -> Nat]
    /\ allocated \in AllHandles \union {NoHandle, NoResult}

\* The handles given out and not freed.
InUse == {h \in AllHandles : \E i \in AllHandles : i < numHandles /\ dense[i] = h}

\* Bug: a handle is believed valid without looking it up in dense.
IsValidSparseOnly(h) == sparse[h] < numHandles

\* HandleAlloc::isValid
IsValid(h) ==
    LET index == sparse[h] IN index < numHandles /\ dense[index] = h

AllocInit ==
    /\ numHandles = 0
    /\ dense = [i \in AllHandles |-> i]
    /\ sparse \in [AllHandles -> Garbage]
    /\ allocated = NoResult

\* Bug: one handle less than there is.
HasRoomOffByOne == numHandles < MaxHandles - 1
HasRoom == numHandles < MaxHandles

\* Bug: the place written to sparse is one too small.
AllocPlaceOffByOne ==
    /\ HasRoom
    /\ allocated' = dense[numHandles]
    /\ sparse' = [sparse EXCEPT ![dense[numHandles]] = numHandles - 1]
    /\ numHandles' = numHandles + 1
    /\ UNCHANGED dense

\* HandleAlloc::alloc
Alloc ==
    \/ /\ HasRoom
       /\ allocated' = dense[numHandles]
       /\ sparse' = [sparse EXCEPT ![dense[numHandles]] = numHandles]
       /\ numHandles' = numHandles + 1
       /\ UNCHANGED dense
    \/ /\ ~HasRoom
       /\ allocated' = NoHandle
       /\ UNCHANGED <<numHandles, dense, sparse>>

\* Bug: the handle that takes the freed place keeps its old place in sparse.
FreeWithoutSparse(h) ==
    LET index == sparse[h]
        last  == numHandles - 1
    IN  /\ numHandles' = last
        /\ dense' = [dense EXCEPT ![last] = h, ![index] = dense[last]]
        /\ UNCHANGED <<sparse, allocated>>

\* HandleAlloc::free.  The code has no check: a caller passes a handle in use.
Free(h) ==
    LET index == sparse[h]
        last  == numHandles - 1
        temp  == dense[last]
    IN  /\ numHandles' = last
        /\ dense' = [dense EXCEPT ![last] = h, ![index] = temp]
        /\ sparse' = [sparse EXCEPT ![temp] = index]
        /\ UNCHANGED allocated

\* HandleAlloc::reset
Reset ==
    /\ numHandles' = 0
    /\ dense' = [i \in AllHandles |-> i]
    /\ allocated' = NoResult
    /\ UNCHANGED sparse

AllocNext ==
    \/ Alloc
    \/ \E h \in InUse : Free(h)
    \/ Reset

AllocSpec == AllocInit /\ [][AllocNext]_allocVars

-----------------------------------------------------------------------------
(* Properties.                                                             *)

\* isValid, the test behind every check of a handle in bgfx, is exact, whatever
\* the sparse array held before.
IsValidExact == \A h \in AllHandles : IsValid(h) <=> h \in InUse

\* The handles stay a permutation and sparse points back into it.
Dual == /\ \A i, j \in AllHandles : dense[i] = dense[j] => i = j
        /\ \A i \in AllHandles : i < numHandles => sparse[dense[i]] = i

\* encoderApiWait asserts that the first handle after reset is 0.
FirstHandleIsZero ==
    [][allocated = NoResult /\ allocated' # NoResult => allocated' = 0]_allocVars

\* The two arrays implement a set of handles.
Abstract == INSTANCE HandleSet WITH
    Handles <- AllHandles, inUse <- InUse, result <- allocated
HandleSetSpec == Abstract!SetSpec
=============================================================================
