--------------------------- MODULE ContainerProofs ---------------------------
(***************************************************************************)
(* Proofs about the two containers of handles and the queue of nodes, which *)
(* share no state.                                                         *)
(*                                                                         *)
(* HandleAlloc, for every number of handles and every initial content of   *)
(* the sparse array, implements a set of handles.                          *)
(*                                                                         *)
(* The hash map of handles finds exactly its entries and implements a      *)
(* partial map, for every capacity, every hash function and any keys and   *)
(* handles.  An entry is hidden by a free slot that its search meets       *)
(* before it.  Outside removeIndex no entry is hidden.  Inside, one slot,  *)
(* the hole, may hide entries, and only entries its loop has still to      *)
(* visit.                                                                  *)
(*                                                                         *)
(* The queue of nodes, for any number of producers and of pushes, is first *)
(* in, first out, and no thread comes to a node that has been deleted.     *)
(***************************************************************************)
EXTENDS HandleAlloc, HandleHashMap, SpScQueue, FiniteSetTheorems, SequenceTheorems,
        WellFoundedInduction, TLAPS

-----------------------------------------------------------------------------
(* HandleAlloc.                                                             *)

\* dense reaches every handle, so that alloc fails only when all are in use.
Onto == \A h \in AllHandles : \E i \in AllHandles : dense[i] = h

\* The inductive invariant of HandleAlloc.
AllocInv == AllocTypeOK /\ Dual /\ Onto

\* The handles are the numbers below MaxHandles.
LEMMA HandlesRange ==
    /\ MaxHandles \in Nat
    /\ \A i : i \in AllHandles <=> i \in Int /\ 0 <= i /\ i < MaxHandles
BY MaxHandlesAssumption DEF AllHandles

\* The number of handles in use is at most MaxHandles.
LEMMA NumHandlesRange ==
    AllocInv => /\ numHandles \in Nat /\ numHandles <= MaxHandles
                /\ dense \in [AllHandles -> AllHandles] /\ sparse \in [AllHandles -> Nat]
BY MaxHandlesAssumption DEF AllocInv, AllocTypeOK

\* The place of a handle in use: in range, and dense gives the handle back.
LEMMA PlaceOfHandle ==
    ASSUME AllocInv, NEW h \in InUse
    PROVE  /\ h \in AllHandles /\ sparse[h] \in AllHandles
           /\ sparse[h] < numHandles /\ dense[sparse[h]] = h
<1>1. PICK i \in AllHandles : i < numHandles /\ dense[i] = h
    BY DEF InUse
<1>2. sparse[dense[i]] = i
    BY <1>1 DEF AllocInv, Dual
<1>3. h \in AllHandles
    BY DEF InUse
<1> QED BY <1>1, <1>2, <1>3

\* What createHandleAlloc makes satisfies the invariant.
LEMMA InitDual == AllocInit => AllocInv
<1> SUFFICES ASSUME AllocInit PROVE AllocInv
    OBVIOUS
<1>1. \A i \in AllHandles : dense[i] = i /\ ~(i < numHandles)
    BY HandlesRange DEF AllocInit
<1>2. AllocTypeOK
    <2>1. 0 \in 0 .. MaxHandles
        BY HandlesRange
    <2>2. sparse \in [AllHandles -> Nat]
        BY GarbageAssumption DEF AllocInit
    <2> QED BY <2>1, <2>2 DEF AllocInit, AllocTypeOK
<1> QED BY <1>1, <1>2 DEF AllocInv, Dual, Onto

\* alloc keeps it.
LEMMA AllocDual == AllocInv /\ Alloc => AllocInv'
<1> SUFFICES ASSUME AllocInv, Alloc PROVE AllocInv'
    OBVIOUS
<1>1. CASE ~HasRoom
    <2>1. UNCHANGED <<numHandles, dense, sparse>> /\ allocated' = NoHandle
        BY <1>1 DEF Alloc
    <2> QED BY <2>1 DEF AllocInv, AllocTypeOK, Dual, Onto
<1>2. CASE HasRoom
    <2>1. /\ numHandles' = numHandles + 1 /\ dense' = dense
          /\ sparse' = [sparse EXCEPT ![dense[numHandles]] = numHandles]
          /\ allocated' = dense[numHandles]
        BY <1>2 DEF Alloc
    <2>2. numHandles \in AllHandles /\ dense[numHandles] \in AllHandles
        BY <1>2, HandlesRange, NumHandlesRange DEF HasRoom, AllocInv, AllocTypeOK
    <2>3. AllocTypeOK'
        BY <1>2, <2>1, <2>2, MaxHandlesAssumption DEF HasRoom, AllocInv, AllocTypeOK
    <2>4. ASSUME NEW i \in AllHandles, i < numHandles' PROVE sparse'[dense'[i]] = i
        <3>1. CASE i = numHandles
            BY <3>1, <2>1, <2>2 DEF AllocInv, AllocTypeOK
        <3>2. CASE i # numHandles
            <4>1. i < numHandles
                BY <3>2, <2>1, <2>4, HandlesRange, NumHandlesRange DEF AllocInv
            <4>2. dense[i] # dense[numHandles]
                BY <3>2, <2>2 DEF AllocInv, Dual
            <4> QED BY <4>1, <4>2, <2>1, <2>2 DEF AllocInv, AllocTypeOK, Dual
        <3> QED BY <3>1, <3>2
    <2> QED BY <2>1, <2>3, <2>4 DEF AllocInv, Dual, Onto
<1> QED BY <1>1, <1>2

\* free keeps it, also when the last handle is the one freed.
LEMMA FreeDual == ASSUME AllocInv, NEW h \in InUse, Free(h) PROVE AllocInv'
<1> DEFINE index == sparse[h]
           final == numHandles - 1
<1>1. /\ h \in AllHandles /\ index \in AllHandles /\ index < numHandles /\ dense[index] = h
    BY PlaceOfHandle
<1>2. final \in AllHandles /\ dense[final] \in AllHandles
    BY <1>1, HandlesRange, NumHandlesRange DEF AllocInv, AllocTypeOK
<1>3. /\ numHandles' = final
      /\ dense' = [dense EXCEPT ![final] = h, ![index] = dense[final]]
      /\ sparse' = [sparse EXCEPT ![dense[final]] = index]
      /\ allocated' = allocated
    BY DEF Free
<1>4. \A i \in AllHandles : (i < final <=> i < numHandles /\ i # final)
    BY HandlesRange, NumHandlesRange DEF AllocInv
<1>5. AllocTypeOK'
    <2>1. final \in 0 .. MaxHandles
        BY <1>2, HandlesRange, NumHandlesRange
    <2>2. index \in Nat
        BY <1>1, HandlesRange
    <2> QED BY <1>1, <1>2, <1>3, <2>1, <2>2 DEF AllocInv, AllocTypeOK
<1> HIDE DEF index, final
<1>6. \A i \in AllHandles : dense'[i] = IF i = index THEN dense[final]
                                     ELSE IF i = final THEN h ELSE dense[i]
    BY <1>1, <1>2, <1>3 DEF AllocInv, AllocTypeOK
<1>7. \A i, j \in AllHandles : dense'[i] = dense'[j] => i = j
    BY <1>1, <1>2, <1>6 DEF AllocInv, Dual
<1>8. ASSUME NEW i \in AllHandles, i < final PROVE sparse'[dense'[i]] = i
    <2>1. i < numHandles /\ i # final
        BY <1>4, <1>8
    <2>2. CASE i = index
        BY <2>2, <1>2, <1>3, <1>6 DEF AllocInv, AllocTypeOK
    <2>3. CASE i # index
        <3>1. dense'[i] = dense[i] /\ dense[i] # dense[final] /\ dense[i] \in AllHandles
            BY <2>1, <2>3, <1>2, <1>6 DEF AllocInv, AllocTypeOK, Dual
        <3> QED BY <3>1, <2>1, <1>2, <1>3 DEF AllocInv, AllocTypeOK, Dual
    <2> QED BY <2>2, <2>3
<1>9. ASSUME NEW g \in AllHandles PROVE \E i \in AllHandles : dense'[i] = g
    <2>1. PICK i \in AllHandles : dense[i] = g
        BY DEF AllocInv, Onto
    <2> QED BY <2>1, <1>1, <1>2, <1>6
<1> QED BY <1>3, <1>5, <1>7, <1>8, <1>9 DEF AllocInv, Dual, Onto

\* reset keeps it.
LEMMA ResetDual == AllocInv /\ Reset => AllocInv'
<1> SUFFICES ASSUME AllocInv, Reset PROVE AllocInv'
    OBVIOUS
<1>1. \A i \in AllHandles : dense'[i] = i /\ ~(i < numHandles')
    BY HandlesRange DEF Reset
<1>2. AllocTypeOK'
    BY MaxHandlesAssumption DEF Reset, AllocInv, AllocTypeOK
<1> QED BY <1>1, <1>2 DEF AllocInv, Dual, Onto

\* The dense array stays a permutation of the handles with those in use first,
\* and sparse gives the place of each of them.
THEOREM AllocInvariance == AllocSpec => []AllocInv
<1>1. AllocInv /\ [AllocNext]_allocVars => AllocInv'
    <2> SUFFICES ASSUME AllocInv, [AllocNext]_allocVars PROVE AllocInv'
        OBVIOUS
    <2>1. CASE UNCHANGED allocVars
        BY <2>1 DEF allocVars, AllocInv, AllocTypeOK, Dual, Onto
    <2> QED BY <2>1, AllocDual, FreeDual, ResetDual DEF AllocNext
<1> QED BY <1>1, InitDual, PTL DEF AllocSpec

\* The two parts of it that the runs check.
THEOREM AllocTypeCorrect == AllocSpec => []AllocTypeOK
<1>1. AllocInv => AllocTypeOK
    BY DEF AllocInv
<1> QED BY <1>1, AllocInvariance, PTL

\* sparse inverts the used part of dense in every state.
THEOREM DualAlways == AllocSpec => []Dual
<1>1. AllocInv => Dual
    BY DEF AllocInv
<1> QED BY <1>1, AllocInvariance, PTL

\* Before the first call of alloc after reset the handles are in order.
Fresh == allocated = NoResult => numHandles = 0 /\ dense = [i \in AllHandles |-> i]

\* encoderApiWait may assert that the handle it gets is 0: the first call of
\* alloc after reset returns handle 0, whatever was in use before.
THEOREM FirstHandle == AllocSpec => FirstHandleIsZero
<1>1. AllocInit => Fresh
    BY DEF AllocInit, Fresh
<1>2. AllocInv /\ Fresh /\ [AllocNext]_allocVars => Fresh'
    <2> SUFFICES ASSUME AllocInv, Fresh, [AllocNext]_allocVars PROVE Fresh'
        OBVIOUS
    <2>1. CASE UNCHANGED allocVars
        BY <2>1 DEF allocVars, Fresh
    <2>2. ASSUME Alloc PROVE allocated' # NoResult
        <3>1. CASE HasRoom
            <4>1. allocated' = dense[numHandles] /\ numHandles \in AllHandles
                BY <2>2, <3>1, HandlesRange, NumHandlesRange
                   DEF Alloc, HasRoom, AllocInv, AllocTypeOK
            <4>2. allocated' \in AllHandles
                BY <4>1 DEF AllocInv, AllocTypeOK
            <4> QED BY <4>2, HandlesRange DEF NoResult
        <3>2. CASE ~HasRoom
            BY <2>2, <3>2, MaxHandlesAssumption DEF Alloc, NoHandle, NoResult
        <3> QED BY <3>1, <3>2
    <2>3. CASE Alloc
        BY <2>3, <2>2 DEF Fresh
    <2>4. ASSUME NEW h \in InUse, Free(h) PROVE Fresh'
        <3>1. allocated # NoResult
            <4> SUFFICES ASSUME allocated = NoResult PROVE FALSE
                OBVIOUS
            <4>1. numHandles = 0
                BY DEF Fresh
            <4> QED BY <4>1, <2>4, HandlesRange DEF InUse
        <3> QED BY <3>1, <2>4 DEF Free, Fresh
    <2>5. CASE Reset
        BY <2>5 DEF Reset, Fresh
    <2> QED BY <2>1, <2>3, <2>4, <2>5 DEF AllocNext
<1>3. AllocInv /\ Fresh /\ [AllocNext]_allocVars =>
        [allocated = NoResult /\ allocated' # NoResult => allocated' = 0]_allocVars
    <2> SUFFICES ASSUME AllocInv, Fresh, AllocNext, allocated = NoResult, allocated' # NoResult
                 PROVE allocated' = 0
        OBVIOUS
    <2>1. numHandles = 0 /\ dense = [i \in AllHandles |-> i]
        BY DEF Fresh
    <2>2. 0 \in AllHandles /\ HasRoom
        BY <2>1, MaxHandlesAssumption, HandlesRange DEF HasRoom
    <2>3. Alloc
        BY DEF AllocNext, Free, Reset
    <2> QED BY <2>1, <2>2, <2>3 DEF Alloc
<1> QED BY <1>1, <1>2, <1>3, AllocInvariance, PTL DEF AllocSpec, FirstHandleIsZero

\* isValid tells the handles in use from all others, for any garbage in sparse.
THEOREM IsValidCorrect == AllocSpec => []IsValidExact
<1>1. AllocInv => IsValidExact
    <2> SUFFICES ASSUME AllocInv, NEW h \in AllHandles PROVE IsValid(h) <=> h \in InUse
        BY DEF IsValidExact
    <2>1. ASSUME IsValid(h) PROVE h \in InUse
        <3>1. sparse[h] \in AllHandles
            BY <2>1, HandlesRange, NumHandlesRange DEF IsValid, AllocInv, AllocTypeOK
        <3> QED BY <2>1, <3>1 DEF IsValid, InUse
    <2>2. ASSUME h \in InUse PROVE IsValid(h)
        BY <2>2, PlaceOfHandle DEF IsValid
    <2> QED BY <2>1, <2>2
<1> QED BY <1>1, AllocInvariance, PTL

\* alloc takes one handle out of the free ones, or finds that there is none.
LEMMA AllocRefines == AllocInv /\ Alloc => Abstract!SetAlloc
<1> SUFFICES ASSUME AllocInv, Alloc PROVE Abstract!SetAlloc
    OBVIOUS
<1>1. CASE HasRoom
    <2>1. /\ numHandles' = numHandles + 1 /\ dense' = dense
          /\ allocated' = dense[numHandles]
        BY <1>1 DEF Alloc
    <2>2. numHandles \in AllHandles /\ dense[numHandles] \in AllHandles
        BY <1>1, HandlesRange, NumHandlesRange DEF HasRoom, AllocInv, AllocTypeOK
    <2>3. dense[numHandles] \notin InUse
        BY <2>2, HandlesRange DEF InUse, AllocInv, Dual
    <2>4. \A i \in AllHandles : (i < numHandles' <=> i < numHandles \/ i = numHandles)
        BY <2>1, HandlesRange, NumHandlesRange DEF AllocInv
    <2>5. InUse' = InUse \union {dense[numHandles]}
        BY <2>1, <2>2, <2>4 DEF InUse
    <2> QED BY <2>1, <2>2, <2>3, <2>5 DEF Abstract!SetAlloc
<1>2. CASE ~HasRoom
    <2>1. dense' = dense /\ numHandles' = numHandles /\ allocated' = NoHandle
        BY <1>2 DEF Alloc
    <2>2. \A i \in AllHandles : i < numHandles
        BY <1>2, HandlesRange, NumHandlesRange DEF HasRoom, AllocInv
    <2>3. InUse = AllHandles
        BY <2>2 DEF InUse, AllocInv, Onto
    <2>4. InUse' = InUse
        BY <2>1 DEF InUse
    <2> QED BY <2>1, <2>3, <2>4 DEF Abstract!SetAlloc
<1> QED BY <1>1, <1>2

\* free takes exactly the handle it is given out of use.
LEMMA FreeRefines == ASSUME AllocInv, NEW h \in InUse, Free(h) PROVE Abstract!SetFree
<1>1. AllocInv'
    BY FreeDual
<1>2. InUse' = InUse \ {h}
    <2> DEFINE index == sparse[h]
               final == numHandles - 1
    <2>1. /\ h \in AllHandles /\ index \in AllHandles /\ index < numHandles /\ dense[index] = h
        BY PlaceOfHandle
    <2>2. final \in AllHandles
        BY <2>1, HandlesRange, NumHandlesRange DEF AllocInv
    <2>3. numHandles' = final /\ dense' = [dense EXCEPT ![final] = h, ![index] = dense[final]]
        BY DEF Free
    <2>4. \A i \in AllHandles : (i < final <=> i < numHandles /\ i # final)
        BY HandlesRange, NumHandlesRange DEF AllocInv
    <2>5. index # final => index < final
        BY <2>1, <2>4
    <2> HIDE DEF index, final
    <2>6. \A i \in AllHandles : dense'[i] = IF i = index THEN dense[final]
                                         ELSE IF i = final THEN h ELSE dense[i]
        BY <2>1, <2>2, <2>3 DEF AllocInv, AllocTypeOK
    <2>7. ASSUME NEW g \in InUse' PROVE g \in InUse /\ g # h
        <3>1. PICK i \in AllHandles : i < final /\ dense'[i] = g
            BY <2>3 DEF InUse
        <3>2. i < numHandles /\ i # final
            BY <3>1, <2>4
        <3>3. final < numHandles
            BY NumHandlesRange DEF final, AllocInv
        <3> QED BY <3>1, <3>2, <3>3, <2>1, <2>2, <2>6 DEF InUse, AllocInv, Dual, AllocTypeOK
    <2>8. ASSUME NEW g \in InUse, g # h PROVE g \in InUse'
        <3>1. PICK i \in AllHandles : i < numHandles /\ dense[i] = g
            BY DEF InUse
        <3>2. i # index /\ g \in AllHandles
            BY <3>1, <2>1, <2>8 DEF InUse
        <3>3. CASE i = final
            <4>1. dense'[index] = g /\ index < final
                BY <3>1, <3>2, <3>3, <2>1, <2>5, <2>6
            <4> QED BY <4>1, <3>2, <2>1, <2>3 DEF InUse
        <3>4. CASE i # final
            <4>1. dense'[i] = g /\ i < final
                BY <3>1, <3>2, <3>4, <2>4, <2>6
            <4> QED BY <4>1, <3>2, <2>3 DEF InUse
        <3> QED BY <3>3, <3>4
    <2> QED BY <2>7, <2>8
<1> QED BY <1>2 DEF Free, Abstract!SetFree

\* HandleAlloc implements a set of handles: no handle is given out twice, and
\* alloc fails only when every handle is in use.
THEOREM RefinesHandleSet == AllocSpec => HandleSetSpec
<1>1. AllocInit => Abstract!SetInit
    <2> SUFFICES ASSUME AllocInit PROVE Abstract!SetInit
        OBVIOUS
    <2>1. InUse = {}
        BY HandlesRange DEF AllocInit, InUse
    <2> QED BY <2>1 DEF AllocInit, Abstract!SetInit
<1>2. AllocInv /\ [AllocNext]_allocVars => [Abstract!SetNext]_Abstract!setVars
    <2> SUFFICES ASSUME AllocInv, [AllocNext]_allocVars
                 PROVE  Abstract!SetNext \/ UNCHANGED Abstract!setVars
        OBVIOUS
    <2>1. CASE Alloc
        BY <2>1, AllocRefines DEF Abstract!SetNext
    <2>2. CASE \E h \in InUse : Free(h)
        BY <2>2, FreeRefines DEF Abstract!SetNext
    <2>3. CASE Reset
        <3>1. InUse' = {}
            BY <2>3, HandlesRange DEF Reset, InUse
        <3> QED BY <2>3, <3>1 DEF Reset, Abstract!SetNext, Abstract!SetReset
    <2>4. CASE UNCHANGED allocVars
        BY <2>4 DEF allocVars, InUse, Abstract!setVars
    <2> QED BY <2>1, <2>2, <2>3, <2>4 DEF AllocNext
<1> QED BY <1>1, <1>2, AllocInvariance, PTL DEF AllocSpec, HandleSetSpec, Abstract!SetSpec

-----------------------------------------------------------------------------
(* HandleHashMap.                                                           *)

Dist(a, b) == IF b >= a THEN b - a ELSE b - a + Capacity

UsedSlots == {i \in Slots : Used(i)}

Distinct == \A i, j \in Slots :
    Used(i) /\ Used(j) /\ i # j => handle[i] # handle[j] /\ key[i] # key[j]

Hidden(i, j) == Used(i) /\ ~Used(j) /\ Dist(home[key[i]], j) < Dist(home[key[i]], i)

\* How far the loop of removeIndex is past the hole g.
Gap(g) == IF shift = g THEN Capacity ELSE Dist(g, shift)

Hole(g) == ~Used(g) /\ \A i, j \in Slots : Hidden(i, j) => j = g /\ Dist(g, i) >= Gap(g)

Reach ==
    /\ Idle => \A i, j \in Slots : ~Hidden(i, j)
    /\ ~Idle => \E g \in Slots : Hole(g)

NumExact == num = Cardinality(UsedSlots)

HInv == TypeOK /\ Distinct /\ Reach /\ NumExact

-----------------------------------------------------------------------------
(* Arithmetic of the ring of slots.                                         *)

\* The remainder of a difference of two slots is their distance.
LEMMA ModIsDist == ASSUME NEW a \in Slots, NEW b \in Slots
                   PROVE (b - a) % Capacity = Dist(a, b)
<1> DEFINE x == IF b >= a THEN b - a ELSE b - a + Capacity
<1>1. Capacity \in Nat \ {0} BY CapacityAssumption
<1>2. x \in 0 .. Capacity - 1 BY <1>1 DEF Slots
<1>3. CASE b >= a
  <2>1. x = b - a BY <1>3
  <2>2. (b - a) % Capacity = b - a BY <1>1, <1>2, <2>1, SMT
  <2> QED BY <1>3, <2>2 DEF Dist
<1>4. CASE ~(b >= a)
  <2>1. x - Capacity = b - a /\ x \in Int BY <1>1, <1>4 DEF Slots
  <2> HIDE DEF x
  <2>2. (x - Capacity) % Capacity = x BY <1>1, <1>2, SMT
  <2> USE DEF x
  <2> QED BY <1>4, <2>1, <2>2 DEF Dist
<1> QED BY <1>3, <1>4

\* After is the next slot, and the first one after the last.
LEMMA AfterIs == ASSUME NEW i \in Slots
                 PROVE After(i) = IF i = Capacity - 1 THEN 0 ELSE i + 1
<1>1. Capacity \in Nat \ {0} BY CapacityAssumption
<1>2. CASE i = Capacity - 1
  <2>1. After(i) = Capacity % Capacity BY <1>1, <1>2 DEF After, Slots
  <2>2. Capacity % Capacity = 0 BY <1>1, SMT
  <2> QED BY <1>2, <2>1, <2>2
<1>3. CASE i # Capacity - 1
  <2>1. i + 1 \in 0 .. Capacity - 1 BY <1>1, <1>3 DEF Slots
  <2>2. (i + 1) % Capacity = i + 1 BY <1>1, <2>1, SMT
  <2> QED BY <1>3, <2>2 DEF After
<1> QED BY <1>2, <1>3

\* Distances are natural, below the capacity, and tell slots apart.
LEMMA DistFacts == ASSUME NEW a \in Slots, NEW b \in Slots, NEW c \in Slots
                   PROVE /\ Dist(a, b) \in 0 .. Capacity - 1
                         /\ Dist(a, b) = Dist(a, c) => b = c
                         /\ b # a => Dist(a, b) >= 1
                         /\ After(b) \in Slots
                         /\ After(b) = b <=> Capacity = 1
                         /\ b # a => Dist(a, b) + 1 = IF After(b) = a THEN Capacity ELSE Dist(a, After(b))
                         /\ Capacity # 1 => Dist(b, After(b)) = 1
                         /\ Capacity = 1 => a = b
<1>1. Capacity \in Nat \ {0} BY CapacityAssumption
<1>2. After(b) = IF b = Capacity - 1 THEN 0 ELSE b + 1 BY AfterIs
<1> QED BY <1>1, <1>2 DEF Dist, Slots

\* A slot between a home and an entry divides the distance.
LEMMA DistSplit == ASSUME NEW h \in Slots, NEW g \in Slots, NEW s \in Slots, NEW i \in Slots,
                          Dist(h, g) < Dist(h, i), Dist(g, s) < Dist(g, i)
                   PROVE Dist(h, s) < Dist(h, i)
BY CapacityAssumption DEF Dist, Slots

\* The first end of a search is the one at the least distance from the key's home.
LEMMA FirstEndIs == ASSUME TypeOK, NEW k \in Keys, NEW i \in Slots
                    PROVE FirstEnd(k, i) <=>
                             /\ Ends(k, i)
                             /\ \A j \in Slots : Ends(k, j) => Dist(home[k], i) <= Dist(home[k], j)
<1>1. home[k] \in Slots BY DEF TypeOK
<1>2. \A j \in Slots : Probes(k, j) = Dist(home[k], j) BY <1>1, ModIsDist DEF Probes
<1> QED BY <1>2 DEF FirstEnd

\* A search ends at one slot.
LEMMA FirstEndUnique == ASSUME TypeOK, NEW k \in Keys, NEW i \in Slots, NEW j \in Slots,
                               FirstEnd(k, i), FirstEnd(k, j)
                        PROVE i = j
<1>1. home[k] \in Slots BY DEF TypeOK
<1>2. Dist(home[k], i) <= Dist(home[k], j) /\ Dist(home[k], j) <= Dist(home[k], i)
  BY FirstEndIs
<1>3. Dist(home[k], i) \in Int /\ Dist(home[k], j) \in Int BY <1>1, DistFacts
<1> QED BY <1>1, <1>2, <1>3, DistFacts

\* FindIndex is that slot when an entry is there.
LEMMA FindIndexIs == ASSUME TypeOK, NEW k \in Keys, NEW i \in Slots
                     PROVE FindIndex(k) = i <=> FirstEnd(k, i) /\ Used(i)
<1>1. NoSlot \notin Slots BY CapacityAssumption DEF NoSlot, Slots
<1>2. CASE \E j \in Slots : FirstEnd(k, j) /\ Used(j)
  <2>1. PICK j \in Slots : FirstEnd(k, j) /\ Used(j) BY <1>2
  <2>2. \A n \in Slots : FirstEnd(k, n) <=> n = j BY <2>1, FirstEndUnique
  <2>3. (CHOOSE n \in Slots : FirstEnd(k, n)) = j BY <2>1, <2>2
  <2>4. FindIndex(k) = j BY <1>2, <2>3 DEF FindIndex
  <2> QED BY <2>1, <2>2, <2>4
<1>3. CASE ~\E j \in Slots : FirstEnd(k, j) /\ Used(j)
  BY <1>1, <1>3 DEF FindIndex
<1> QED BY <1>2, <1>3

\* FindIndex is a slot or NoSlot.
LEMMA FindIndexType == ASSUME TypeOK, NEW k \in Keys
                       PROVE /\ FindIndex(k) \in Slots \/ FindIndex(k) = NoSlot
                             /\ NoSlot \notin Slots
<1>1. NoSlot \notin Slots BY CapacityAssumption DEF NoSlot, Slots
<1>2. CASE \E j \in Slots : FirstEnd(k, j) /\ Used(j)
  <2>1. PICK j \in Slots : FirstEnd(k, j) /\ Used(j) BY <1>2
  <2> QED BY <1>1, <2>1, FindIndexIs
<1>3. CASE ~\E j \in Slots : FirstEnd(k, j) /\ Used(j)
  BY <1>1, <1>3 DEF FindIndex
<1> QED BY <1>2, <1>3

\* An idle table finds an entry where it is.
LEMMA EntryFound == ASSUME HInv, Idle, NEW i \in Slots, Used(i)
                    PROVE FindIndex(key[i]) = i
<1>1. TypeOK /\ key[i] \in Keys BY DEF HInv, TypeOK
<1>2. Ends(key[i], i) BY DEF Ends
<1>3. ASSUME NEW j \in Slots, Ends(key[i], j)
      PROVE Dist(home[key[i]], i) <= Dist(home[key[i]], j)
  <2>1. home[key[i]] \in Slots BY <1>1 DEF TypeOK
  <2>2. Dist(home[key[i]], i) \in Int /\ Dist(home[key[i]], j) \in Int BY <2>1, DistFacts
  <2>3. CASE Used(j)
    BY <1>3, <2>2, <2>3 DEF HInv, Distinct, Ends
  <2>4. CASE ~Used(j)
    BY <2>2, <2>4 DEF HInv, Reach, Hidden
  <2> QED BY <2>3, <2>4
<1>4. FirstEnd(key[i], i) BY <1>1, <1>2, <1>3, FirstEndIs
<1> QED BY <1>1, <1>4, FindIndexIs

-----------------------------------------------------------------------------
(* Every step keeps HInv.                                                   *)

\* The set of used slots is finite and no larger than the table.
LEMMA UsedFinite == /\ IsFiniteSet(UsedSlots)
                    /\ Cardinality(UsedSlots) \in 0 .. Capacity
<1>1. IsFiniteSet(Slots) /\ Cardinality(Slots) = Capacity
  BY FS_Interval, CapacityAssumption DEF Slots
<1>2. UsedSlots \subseteq Slots BY DEF UsedSlots
<1>3. IsFiniteSet(UsedSlots) /\ Cardinality(UsedSlots) <= Cardinality(Slots)
  BY <1>1, <1>2, FS_Subset
<1> QED BY <1>1, <1>3, FS_CardinalityType, CapacityAssumption

LEMMA InitHInv == Init => HInv
<1> SUFFICES ASSUME Init PROVE HInv OBVIOUS
<1>1. TypeOK
  <2>1. 0 \in 0 .. Capacity BY CapacityAssumption
  <2> QED BY <2>1 DEF Init, TypeOK
<1>2. \A i \in Slots : ~Used(i) BY DEF Init, Used
<1>3. UsedSlots = {} BY <1>2 DEF UsedSlots
<1>4. NumExact BY <1>3, FS_EmptySet DEF Init, NumExact
<1>5. Distinct /\ Reach BY <1>2 DEF Distinct, Reach, Hidden, Init, Idle
<1> QED BY <1>1, <1>4, <1>5 DEF HInv

\* An entry is put where its search ends.
LEMMA PutKeeps ==
    ASSUME HInv, Idle, NEW k \in Keys, NEW h \in Handles, NEW i \in Slots,
           \A n \in Slots : handle[n] # h,
           FirstEnd(k, i), ~Used(i),
           key' = [key EXCEPT ![i] = k], handle' = [handle EXCEPT ![i] = h],
           num' = num + 1, result' = TRUE, UNCHANGED <<home, shift>>
    PROVE  HInv' /\ UsedSlots' = UsedSlots \union {i} /\ ~\E n \in Slots : Used(n) /\ key[n] = k
<1> USE DEF HInv
<1>1. \A n \in Slots : Used(n)' <=> n = i \/ Used(n)
  BY InvalidAssumption DEF Used, TypeOK
<1>2. UsedSlots' = UsedSlots \union {i} /\ i \notin UsedSlots BY <1>1 DEF UsedSlots, Slots
<1>3. Cardinality(UsedSlots') = Cardinality(UsedSlots) + 1
  BY <1>2, UsedFinite, FS_AddElement
<1>4. Cardinality(UsedSlots') \in 0 .. Capacity
  <2>1. UsedSlots' \subseteq Slots BY DEF UsedSlots, Slots
  <2>2. IsFiniteSet(Slots) /\ Cardinality(Slots) = Capacity
    BY FS_Interval, CapacityAssumption DEF Slots
  <2>3. IsFiniteSet(UsedSlots') /\ Cardinality(UsedSlots') <= Capacity BY <2>1, <2>2, FS_Subset
  <2> QED BY <2>3, FS_CardinalityType, CapacityAssumption
<1>5. NumExact' BY <1>3 DEF NumExact
<1>6. TypeOK' BY <1>4, <1>5 DEF TypeOK, NumExact, Slots, NoSlot
<1>7. \A n \in Slots : home[k] \in Slots /\ Dist(home[k], n) \in Int BY DistFacts DEF TypeOK
<1>8. \A n \in Slots : ~(Used(n) /\ key[n] = k)
  <2> SUFFICES ASSUME NEW n \in Slots, Used(n), key[n] = k PROVE FALSE OBVIOUS
  <2>1. Dist(home[k], i) <= Dist(home[k], n) BY FirstEndIs DEF Ends
  <2>2. Dist(home[k], i) # Dist(home[k], n) BY <1>7, DistFacts
  <2>3. Hidden(n, i) BY <1>7, <2>1, <2>2 DEF Hidden
  <2> QED BY <2>3 DEF Reach
<1>9. Distinct' BY <1>1, <1>8 DEF Distinct, TypeOK
<1>10. ASSUME NEW a \in Slots, NEW b \in Slots PROVE ~Hidden(a, b)'
  <2>1. SUFFICES ASSUME Used(a)', ~Used(b)' PROVE ~Hidden(a, b)' BY DEF Hidden
  <2>2. b # i /\ ~Used(b) BY <1>1, <2>1
  <2>3. CASE a = i
    <3>1. key'[a] = k BY <2>3 DEF TypeOK
    <3>2. Dist(home[k], i) <= Dist(home[k], b) BY <2>2, FirstEndIs DEF Ends
    <3> QED BY <1>7, <2>3, <3>1, <3>2 DEF Hidden, Dist
  <2>4. CASE a # i
    <3>1. key'[a] = key[a] /\ Used(a) BY <1>1, <2>1, <2>4 DEF TypeOK
    <3>2. ~Hidden(a, b) BY DEF Reach
    <3> QED BY <2>2, <3>1, <3>2 DEF Hidden, Dist
  <2> QED BY <2>3, <2>4
<1>11. Reach' BY <1>10 DEF Reach, Idle, NoSlot
<1> QED BY <1>2, <1>5, <1>6, <1>8, <1>9, <1>11

\* Taking out an entry leaves its slot as the hole.
LEMMA RemoveKeeps ==
    ASSUME HInv, Idle, NEW i \in Slots, Used(i), RemoveIndex(i), UNCHANGED <<home, key>>,
           result' \in BOOLEAN
    PROVE  HInv' /\ UsedSlots' = UsedSlots \ {i}
<1> USE DEF HInv
<1>1. \A n \in Slots : Used(n)' <=> n # i /\ Used(n)
  BY DEF Used, TypeOK, RemoveIndex
<1>2. UsedSlots' = UsedSlots \ {i} /\ i \in UsedSlots BY <1>1 DEF UsedSlots, Slots
<1>3. Cardinality(UsedSlots') = Cardinality(UsedSlots) - 1
  BY <1>2, UsedFinite, FS_RemoveElement
<1>4. NumExact' BY <1>3 DEF NumExact, RemoveIndex
<1>5. Cardinality(UsedSlots') \in 0 .. Capacity
  <2>1. IsFiniteSet(UsedSlots') BY <1>2, UsedFinite, FS_Subset
  <2>2. Cardinality(UsedSlots') \in Nat BY <2>1, FS_CardinalityType
  <2> QED BY <1>3, <2>2, UsedFinite, CapacityAssumption
<1>6. After(i) \in Slots BY DistFacts
<1>7. TypeOK' BY <1>4, <1>5, <1>6 DEF TypeOK, NumExact, Slots, NoSlot, RemoveIndex
<1>8. Distinct' BY <1>1 DEF Distinct, TypeOK, RemoveIndex
<1>9. NoSlot \notin Slots BY CapacityAssumption DEF NoSlot, Slots
<1>10. Hole(i)'
  <2>1. ~Used(i)' BY <1>1
  <2>2. ASSUME NEW a \in Slots, NEW b \in Slots, Hidden(a, b)'
        PROVE b = i /\ Dist(i, a)' >= Gap(i)'
    <3>1. Used(a) /\ a # i /\ ~Used(b)' BY <1>1, <2>2 DEF Hidden
    <3>2. ~Hidden(a, b) BY DEF Reach
    <3>3. b = i BY <1>1, <2>2, <3>1, <3>2 DEF Hidden, Dist
    <3>4. Capacity # 1 BY <3>1, DistFacts
    <3>5. Gap(i)' = 1
      <4>1. After(i) # i /\ Dist(i, After(i)) = 1 BY <3>4, DistFacts
      <4> QED BY <4>1 DEF Gap, Dist, RemoveIndex
    <3>6. Dist(i, a)' = Dist(i, a) BY DEF Dist
    <3>7. Dist(i, a) >= 1 BY <3>1, DistFacts
    <3> QED BY <3>3, <3>5, <3>6, <3>7
  <2> QED BY <2>1, <2>2 DEF Hole, Slots
<1>11. Reach' BY <1>6, <1>9, <1>10 DEF Reach, Idle, RemoveIndex, Slots, NoSlot
<1> QED BY <1>2, <1>4, <1>7, <1>8, <1>11

\* A round of the loop that moves an entry moves it into the hole.
LEMMA MoveKeeps ==
    ASSUME HInv, ~Idle, Used(shift), FindIndex(key[shift]) # shift, NEW i \in Slots,
           FirstEnd(key[shift], i),
           key' = [key EXCEPT ![i] = key[shift]],
           handle' = [handle EXCEPT ![shift] = kInvalidHandle, ![i] = handle[shift]],
           shift' = After(shift), UNCHANGED <<home, num, result>>
    PROVE  /\ HInv' /\ UsedSlots' = (UsedSlots \ {shift}) \union {i}
           /\ shift \in UsedSlots /\ i \notin UsedSlots
<1> USE DEF HInv
<1> DEFINE k == key[shift]
<1>1. shift \in Slots /\ k \in Keys BY DEF TypeOK, Idle
<1>2. \A n \in Slots : home[k] \in Slots /\ Dist(home[k], n) \in Int BY <1>1, DistFacts DEF TypeOK
<1>3. i # shift BY <1>1, FindIndexIs
<1>4. Ends(k, shift) BY DEF Ends
<1>5. Dist(home[k], i) < Dist(home[k], shift)
  <2>1. Dist(home[k], i) <= Dist(home[k], shift) BY <1>1, <1>4, FirstEndIs
  <2>2. Dist(home[k], i) # Dist(home[k], shift) BY <1>1, <1>2, <1>3, DistFacts
  <2> QED BY <1>1, <1>2, <2>1, <2>2
<1>6. ~Used(i)
  <2>1. Ends(k, i) BY <1>1, FirstEndIs
  <2> QED BY <1>1, <1>3, <2>1 DEF Ends, Distinct
<1>7. PICK g \in Slots : Hole(g) BY DEF Reach
<1>8. Hidden(shift, i) BY <1>5, <1>6 DEF Hidden
<1>9. i = g BY <1>1, <1>7, <1>8 DEF Hole
<1>10. \A n \in Slots : Used(n)' <=> n = i \/ (Used(n) /\ n # shift)
  BY <1>1, <1>3, InvalidAssumption DEF Used, TypeOK
<1>11. UsedSlots' = (UsedSlots \ {shift}) \union {i} /\ i \notin UsedSlots /\ shift \in UsedSlots
  BY <1>1, <1>6, <1>10 DEF UsedSlots, Slots
<1>12. Cardinality(UsedSlots') = Cardinality(UsedSlots)
  <2>1. IsFiniteSet(UsedSlots \ {shift}) BY UsedFinite, FS_Subset
  <2>2. Cardinality(UsedSlots \ {shift}) = Cardinality(UsedSlots) - 1
    BY <1>11, UsedFinite, FS_RemoveElement
  <2>3. Cardinality(UsedSlots') = Cardinality(UsedSlots \ {shift}) + 1
    BY <1>11, <2>1, FS_AddElement
  <2> QED BY <2>2, <2>3, UsedFinite, CapacityAssumption
<1>13. NumExact' BY <1>12 DEF NumExact
<1>14. After(shift) \in Slots BY <1>1, DistFacts
<1>15. TypeOK' BY <1>1, <1>14 DEF TypeOK, Slots, NoSlot
<1>16. \A n \in Slots : /\ key'[n] = IF n = i THEN key[shift] ELSE key[n]
                        /\ handle'[n] = IF n = i THEN handle[shift]
                                        ELSE IF n = shift THEN kInvalidHandle ELSE handle[n]
  BY <1>1 DEF TypeOK
<1>17. Distinct'
  <2> SUFFICES ASSUME NEW a \in Slots, NEW b \in Slots, Used(a)', Used(b)', a # b
               PROVE handle'[a] # handle'[b] /\ key'[a] # key'[b]
    BY DEF Distinct, Slots
  <2>1. /\ a = i \/ (Used(a) /\ a # shift)
        /\ b = i \/ (Used(b) /\ b # shift)
    BY <1>10
  <2>2. /\ a # i /\ Used(a) => handle[a] # handle[shift] /\ key[a] # key[shift]
        /\ b # i /\ Used(b) => handle[b] # handle[shift] /\ key[b] # key[shift]
        /\ Used(a) /\ Used(b) => handle[a] # handle[b] /\ key[a] # key[b]
    BY <1>1, <2>1 DEF Distinct
  <2> QED BY <1>16, <2>1, <2>2
<1>18. ASSUME NEW s \in Slots, s = shift PROVE Hole(s)'
  <2>1. After(s) # s /\ Dist(s, After(s)) = 1 BY <1>3, <1>18, DistFacts
  <2>2. Gap(s)' = 1 BY <1>18, <2>1 DEF Gap, Dist
  <2>3. ASSUME NEW a \in Slots, NEW b \in Slots, Hidden(a, b)'
        PROVE b = s /\ Dist(s, a)' >= 1
    <3>1. Used(a)' /\ ~Used(b)' /\ Dist(home[key'[a]], b) < Dist(home[key'[a]], a)
      BY <2>3 DEF Hidden, Dist
    <3>2. a # s BY <1>3, <1>10, <1>18, <3>1
    <3>3. Dist(s, a) >= 1 BY <3>2, DistFacts
    <3>4. Dist(s, a)' = Dist(s, a) BY DEF Dist
    <3>5. CASE b # s
      <4>1. b # i /\ ~Used(b) BY <1>10, <1>18, <3>1, <3>5
      <4>2. CASE a = i
        <5>1. key'[a] = k BY <1>16, <4>2
        <5>2. Dist(home[k], i) <= Dist(home[k], b) BY <1>1, <4>1, FirstEndIs DEF Ends
        <5> QED BY <1>2, <3>1, <4>2, <5>1, <5>2
      <4>3. CASE a # i
        <5>1. key'[a] = key[a] /\ Used(a) BY <1>10, <1>16, <3>1, <4>3
        <5>2. Hidden(a, b) BY <3>1, <4>1, <5>1 DEF Hidden
        <5> QED BY <1>7, <1>9, <4>1, <5>2 DEF Hole
      <4> QED BY <4>2, <4>3
    <3> QED BY <3>3, <3>4, <3>5
  <2>4. ~Used(s)' BY <1>3, <1>10, <1>18
  <2> QED BY <2>2, <2>3, <2>4 DEF Hole, Slots
<1>19. Reach'
  <2>1. ~Idle' BY <1>14, FindIndexType, <1>1 DEF Idle, NoSlot
  <2>2. \E s \in Slots : Hole(s)' BY <1>1, <1>18
  <2> QED BY <2>1, <2>2 DEF Reach, Slots
<1> QED BY <1>11, <1>13, <1>15, <1>17, <1>19

\* A round that leaves the entry where it is: the hole does not hide it.
LEMMA KeepKeeps ==
    ASSUME HInv, ~Idle, Used(shift), FindIndex(key[shift]) = shift,
           shift' = After(shift), UNCHANGED <<home, key, handle, num, result>>
    PROVE  HInv'
<1> USE DEF HInv
<1>1. shift \in Slots /\ key[shift] \in Keys BY DEF TypeOK, Idle
<1>2. After(shift) \in Slots BY <1>1, DistFacts
<1>3. TypeOK' BY <1>2 DEF TypeOK, Slots, NoSlot
<1>4. Distinct' /\ NumExact' BY DEF Distinct, NumExact, UsedSlots, Used, Slots
<1>5. PICK g \in Slots : Hole(g) BY DEF Reach
<1>6. g # shift BY <1>5 DEF Hole
<1>7. Gap(g) = Dist(g, shift) /\ Gap(g)' = Gap(g) + 1
  <2>1. Dist(g, shift) + 1 = IF After(shift) = g THEN Capacity ELSE Dist(g, After(shift))
    BY <1>1, <1>6, DistFacts
  <2> QED BY <1>6, <2>1 DEF Gap, Dist
<1>8. Hole(g)'
  <2>1. ASSUME NEW a \in Slots, NEW b \in Slots, Hidden(a, b)'
        PROVE b = g /\ Dist(g, a)' >= Gap(g)'
    <3>1. Hidden(a, b) BY <2>1 DEF Hidden, Dist, Used
    <3>2. b = g /\ Dist(g, a) >= Dist(g, shift) BY <1>5, <1>7, <3>1 DEF Hole
    <3>3. a # shift
      <4> SUFFICES ASSUME a = shift PROVE FALSE OBVIOUS
      <4>1. FirstEnd(key[shift], shift) BY <1>1, FindIndexIs
      <4>2. Ends(key[shift], g) BY <1>5 DEF Ends, Hole
      <4>3. Dist(home[key[shift]], shift) <= Dist(home[key[shift]], g)
        BY <1>1, <4>1, <4>2, FirstEndIs
      <4>4. /\ Dist(home[key[shift]], shift) \in Int
            /\ Dist(home[key[shift]], g) \in Int BY <1>1, DistFacts DEF TypeOK
      <4> QED BY <3>1, <3>2, <4>3, <4>4 DEF Hidden
    <3>4. Dist(g, a) # Dist(g, shift) BY <1>1, <3>3, DistFacts
    <3>5. Dist(g, a) \in Int /\ Dist(g, shift) \in Int BY <1>1, DistFacts
    <3>6. Dist(g, a)' = Dist(g, a) BY DEF Dist
    <3> QED BY <1>7, <3>2, <3>4, <3>5, <3>6
  <2>2. ~Used(g)' BY <1>5 DEF Hole, Used
  <2> QED BY <2>1, <2>2 DEF Hole, Slots
<1>9. ~Idle' BY <1>1, <1>2, FindIndexType DEF Idle, NoSlot
<1>10. Reach' BY <1>8, <1>9 DEF Reach, Slots
<1> QED BY <1>3, <1>4, <1>10

\* The loop ends at a free slot: the hole hides nothing any more.
LEMMA EndKeeps ==
    ASSUME HInv, ~Idle, ~Used(shift), shift' = NoSlot, UNCHANGED <<home, key, handle, num, result>>
    PROVE  HInv' /\ Idle'
<1> USE DEF HInv
<1>1. shift \in Slots BY DEF TypeOK, Idle
<1>2. TypeOK' BY DEF TypeOK, Slots, NoSlot
<1>3. Distinct' /\ NumExact' BY DEF Distinct, NumExact, UsedSlots, Used, Slots
<1>4. PICK g \in Slots : Hole(g) BY DEF Reach
<1>5. ASSUME NEW a \in Slots, NEW b \in Slots, Hidden(a, b) PROVE FALSE
  <2>1. b = g /\ Dist(g, a) >= Gap(g) BY <1>4, <1>5 DEF Hole
  <2>2. Used(a) /\ key[a] \in Keys /\ home[key[a]] \in Slots BY <1>5 DEF Hidden, TypeOK
  <2>3. CASE shift = g
    <3>1. Dist(g, a) >= Capacity BY <2>1, <2>3 DEF Gap
    <3> QED BY <3>1, DistFacts, CapacityAssumption
  <2>4. CASE shift # g
    <3>1. Dist(g, a) >= Dist(g, shift) BY <2>1, <2>4 DEF Gap
    <3>2. Dist(g, a) # Dist(g, shift) BY <1>1, <2>2, DistFacts
    <3>3. Dist(g, a) \in Int /\ Dist(g, shift) \in Int BY <1>1, DistFacts
    <3>4. Dist(g, shift) < Dist(g, a) BY <3>1, <3>2, <3>3
    <3>5. Dist(home[key[a]], shift) < Dist(home[key[a]], a)
      BY <1>1, <1>5, <2>1, <2>2, <3>4, DistSplit DEF Hidden
    <3>6. Hidden(a, shift) BY <2>2, <3>5 DEF Hidden
    <3> QED BY <1>1, <1>4, <2>4, <3>6 DEF Hole
  <2> QED BY <2>3, <2>4
<1>6. Idle' BY DEF Idle
<1>7. Reach'
  <2>1. \A a, b \in Slots : ~Hidden(a, b)' BY <1>5 DEF Hidden, Dist, Used
  <2> QED BY <1>6, <2>1 DEF Reach, Slots
<1> QED BY <1>2, <1>3, <1>6, <1>7

LEMMA InsertKeeps == ASSUME HInv, NEW k \in Keys, NEW h \in Handles, Insert(k, h) PROVE HInv'
<1>1. Idle /\ (\A n \in Slots : handle[n] # h) /\ UNCHANGED <<home, shift>> BY DEF Insert
<1>2. CASE \E i \in Slots : /\ FirstEnd(k, i) /\ ~Used(i)
                            /\ key' = [key EXCEPT ![i] = k]
                            /\ handle' = [handle EXCEPT ![i] = h]
                            /\ num' = num + 1 /\ result' = TRUE
  BY <1>1, <1>2, PutKeeps
<1>3. CASE result' = FALSE /\ UNCHANGED <<key, handle, num>>
  BY <1>1, <1>3 DEF HInv, TypeOK, Distinct, Reach, Idle, Hidden, Dist, Used, UsedSlots, NumExact,
                    Slots, NoSlot
<1> QED BY <1>2, <1>3 DEF Insert

LEMMA RemoveByKeyKeeps == ASSUME HInv, NEW k \in Keys, RemoveByKey(k) PROVE HInv'
<1>1. Idle /\ UNCHANGED <<home, key>> /\ TypeOK BY DEF RemoveByKey, HInv
<1>2. CASE FindIndex(k) # NoSlot /\ RemoveIndex(FindIndex(k)) /\ result' = TRUE
  <2>1. FindIndex(k) \in Slots BY <1>1, <1>2, FindIndexType
  <2>2. Used(FindIndex(k)) BY <1>1, <2>1, FindIndexIs
  <2> QED BY <1>1, <1>2, <2>1, <2>2, RemoveKeeps
<1>3. CASE result' = FALSE /\ UNCHANGED <<handle, num, shift>>
  BY <1>1, <1>3 DEF HInv, TypeOK, Distinct, Reach, Idle, Hidden, Dist, Used, UsedSlots, NumExact,
                    Slots, NoSlot
<1> QED BY <1>2, <1>3 DEF RemoveByKey

LEMMA RemoveByHandleKeeps == ASSUME HInv, NEW h \in Handles, RemoveByHandle(h) PROVE HInv'
<1>1. Idle /\ UNCHANGED <<home, key>> /\ result' \in BOOLEAN BY DEF RemoveByHandle, HInv, TypeOK
<1>2. PICK i \in Slots : handle[i] = h /\ RemoveIndex(i) BY DEF RemoveByHandle
<1>3. Used(i) BY <1>2, InvalidAssumption DEF Used
<1> QED BY <1>1, <1>2, <1>3, RemoveKeeps

\* What a round of the loop does, by its three cases.
LEMMA ShiftCases ==
    ASSUME HInv, Shift
    PROVE  /\ HInv'
           /\ \/ UNCHANGED <<key, handle>>
              \/ \E i \in Slots : /\ key' = [key EXCEPT ![i] = key[shift]]
                                  /\ handle' = [handle EXCEPT ![shift] = kInvalidHandle, ![i] = handle[shift]]
                                  /\ UsedSlots' = (UsedSlots \ {shift}) \union {i}
                                  /\ shift \in UsedSlots /\ i \notin UsedSlots
<1>1. ~Idle /\ UNCHANGED <<home, num, result>> BY DEF Shift
<1>2. CASE ~Used(shift) /\ shift' = NoSlot /\ UNCHANGED <<key, handle>>
  BY <1>1, <1>2, EndKeeps
<1>3. CASE Used(shift) /\ FindIndex(key[shift]) = shift /\ shift' = After(shift) /\ UNCHANGED <<key, handle>>
  BY <1>1, <1>3, KeepKeeps
<1>4. CASE /\ Used(shift) /\ FindIndex(key[shift]) # shift
           /\ \E i \in Slots :
                /\ FirstEnd(key[shift], i)
                /\ key' = [key EXCEPT ![i] = key[shift]]
                /\ handle' = [handle EXCEPT ![shift] = kInvalidHandle, ![i] = handle[shift]]
           /\ shift' = After(shift)
  <2>1. PICK i \in Slots : /\ FirstEnd(key[shift], i)
                           /\ key' = [key EXCEPT ![i] = key[shift]]
                           /\ handle' = [handle EXCEPT ![shift] = kInvalidHandle, ![i] = handle[shift]]
    BY <1>4
  <2>2. /\ HInv' /\ UsedSlots' = (UsedSlots \ {shift}) \union {i}
        /\ shift \in UsedSlots /\ i \notin UsedSlots
    BY <1>1, <1>4, <2>1, MoveKeeps
  <2> QED BY <2>1, <2>2
<1> QED BY <1>2, <1>3, <1>4 DEF Shift

LEMMA StepHInv == HInv /\ [Next]_vars => HInv'
<1> SUFFICES ASSUME HInv, [Next]_vars PROVE HInv' OBVIOUS
<1>1. ASSUME NEW k \in Keys, RemoveByKey(k) PROVE HInv' BY <1>1, RemoveByKeyKeeps
<1>2. ASSUME NEW k \in Keys, NEW h \in Handles, Insert(k, h) PROVE HInv' BY <1>2, InsertKeeps
<1>3. ASSUME NEW h \in Handles, RemoveByHandle(h) PROVE HInv' BY <1>3, RemoveByHandleKeeps
<1>4. CASE Shift BY <1>4, ShiftCases
<1>5. CASE UNCHANGED vars
  BY <1>5 DEF vars, HInv, TypeOK, Distinct, Reach, Idle, Hidden, Hole, Gap, Dist, Used, UsedSlots, NumExact,
              Slots, NoSlot
<1> QED BY <1>1, <1>2, <1>3, <1>4, <1>5 DEF Next

\* No entry of an idle table is hidden from its search, in a loop only the entries
\* still to be visited are, by the one hole; no key and no handle is there twice.
THEOREM Invariance == Spec => []HInv
BY InitHInv, StepHInv, PTL DEF Spec

\* Type correctness: the count of entries never leaves 0 .. MaxCapacityT.
THEOREM TypeCorrect == Spec => []TypeOK
<1>1. HInv => TypeOK BY DEF HInv
<1> QED BY <1>1, Invariance, PTL

\* find sees exactly the entries there are, and m_numElements counts them.
THEOREM FindCorrect == Spec => []FindExact
<1>1. ASSUME HInv PROVE FindExact
  <2>1. num = Cardinality({i \in Slots : Used(i)}) BY <1>1 DEF HInv, NumExact, UsedSlots
  <2>2. ASSUME Idle, NEW k \in Keys, NEW h \in Handles
        PROVE Find(k) = h <=> \E i \in Slots : handle[i] = h /\ key[i] = k
    <3> USE <1>1, <2>2
    <3>1. TypeOK BY DEF HInv
    <3>2. ASSUME Find(k) = h PROVE \E i \in Slots : handle[i] = h /\ key[i] = k
      <4>1. FindIndex(k) # NoSlot BY <3>2, InvalidAssumption DEF Find
      <4>2. FindIndex(k) \in Slots BY <3>1, <4>1, FindIndexType
      <4>3. FirstEnd(k, FindIndex(k)) /\ Used(FindIndex(k)) BY <3>1, <4>2, FindIndexIs
      <4>4. key[FindIndex(k)] = k BY <4>3 DEF FirstEnd, Ends
      <4> QED BY <3>2, <4>1, <4>2, <4>4 DEF Find
    <3>3. ASSUME NEW i \in Slots, handle[i] = h, key[i] = k PROVE Find(k) = h
      <4>1. Used(i) BY <3>3, InvalidAssumption DEF Used
      <4>2. FindIndex(k) = i BY <3>3, <4>1, EntryFound
      <4>3. i # NoSlot BY <3>1, FindIndexType
      <4> QED BY <3>3, <4>2, <4>3 DEF Find
    <3> QED BY <3>2, <3>3
  <2> QED BY <2>1, <2>2 DEF FindExact
<1> QED BY <1>1, Invariance, PTL

-----------------------------------------------------------------------------
(* The table implements the map.                                            *)

Entries == {<<key[i], handle[i]>> : i \in UsedSlots}

\* A search that can end does end somewhere: distances have a least one.
LEMMA EndExists == ASSUME TypeOK, NEW k \in Keys, NEW j \in Slots, Ends(k, j)
                   PROVE \E i \in Slots : FirstEnd(k, i)
<1> DEFINE T == {Dist(home[k], n) : n \in {m \in Slots : Ends(k, m)}}
           Below == {ss \in Nat \X Nat : ss[1] < ss[2]}
<1>1. \A n \in Slots : Dist(home[k], n) \in Nat BY DistFacts DEF TypeOK
<1>2. T \subseteq Nat /\ T # {} BY <1>1
<1> HIDE DEF T
<1>3. IsWellFoundedOn(Below, Nat) BY NatLessThanWellFounded, Zenon DEF OpToRel
<1>4. PICK x \in T : \A y \in T : ~(y < x)
  <2> HIDE DEF Below
  <2>1. PICK x \in T : \A y \in T : ~(<<y, x>> \in Below) BY <1>2, <1>3, WFMin
  <2> USE DEF Below
  <2>2. \A y \in T : ~(y < x) BY <1>2, <2>1
  <2> QED BY <2>2
<1>5. PICK i \in Slots : Ends(k, i) /\ x = Dist(home[k], i) BY <1>4 DEF T
<1>6. ASSUME NEW n \in Slots, Ends(k, n) PROVE Dist(home[k], i) <= Dist(home[k], n)
  <2>1. Dist(home[k], n) \in T BY <1>6 DEF T
  <2> QED BY <1>1, <1>4, <1>5, <2>1
<1> QED BY <1>5, <1>6, FirstEndIs

\* There are as many entries as used slots.
LEMMA EntriesCount == ASSUME HInv PROVE Cardinality(Entries) = Cardinality(UsedSlots)
<1> DEFINE f == [i \in UsedSlots |-> <<key[i], handle[i]>>]
<1>1. f \in Surjection(UsedSlots, Entries)
  BY DEF Surjection, Entries
<1>2. f \in Injection(UsedSlots, Entries)
  <2>1. f \in [UsedSlots -> Entries] BY DEF Entries
  <2>2. \A a, b \in UsedSlots : f[a] = f[b] => a = b
    BY DEF HInv, Distinct, UsedSlots
  <2> QED BY <2>1, <2>2 DEF Injection, IsInjective
<1> HIDE DEF f
<1> QED BY <1>1, <1>2, UsedFinite, FS_Surjection

\* A key is present when a used slot has it, and then the map has one pair for it.
LEMMA PresentIs == ASSUME HInv, NEW k
                   PROVE Map!Present(k) <=> \E i \in UsedSlots : key[i] = k
BY DEF Map!Present, UsedSlots, Used, HInv, TypeOK

\* The instance has a copy of Cardinality.
LEMMA SameCardinality == ASSUME NEW S PROVE Map!Cardinality(S) = Cardinality(S)
BY Zenon DEF Map!Cardinality, Cardinality

LEMMA InsertMaps == ASSUME HInv, NEW k \in Keys, NEW h \in Handles, Insert(k, h)
                    PROVE Map!MapInsert
<1>1. TypeOK BY DEF HInv
<1>2. CASE \E i \in Slots : /\ FirstEnd(k, i) /\ ~Used(i)
                            /\ key' = [key EXCEPT ![i] = k]
                            /\ handle' = [handle EXCEPT ![i] = h]
                            /\ num' = num + 1 /\ result' = TRUE
  <2>1. PICK i \in Slots : /\ FirstEnd(k, i) /\ ~Used(i)
                           /\ key' = [key EXCEPT ![i] = k]
                           /\ handle' = [handle EXCEPT ![i] = h]
                           /\ num' = num + 1 /\ result' = TRUE
    BY <1>2
  <2>2. /\ HInv' /\ UsedSlots' = UsedSlots \union {i}
        /\ ~\E n \in Slots : Used(n) /\ key[n] = k
    BY <2>1, PutKeeps DEF Insert
  <2>3. ~Map!Present(k) BY <2>2, PresentIs DEF UsedSlots
  <2>4. i \notin UsedSlots BY <2>1 DEF UsedSlots
  <2>5. Entries' = Entries \union {<<k, h>>}
    <3>1. \A n \in UsedSlots : key'[n] = key[n] /\ handle'[n] = handle[n]
      BY <1>1, <2>1, <2>4 DEF TypeOK, UsedSlots
    <3>2. key'[i] = k /\ handle'[i] = h BY <1>1, <2>1 DEF TypeOK
    <3>3. Entries' = {<<key'[n], handle'[n]>> : n \in UsedSlots'} BY DEF Entries
    <3> QED BY <2>2, <3>1, <3>2, <3>3 DEF Entries
  <2>6. Cardinality(Entries) < Capacity
    <3>1. Cardinality(UsedSlots') = Cardinality(UsedSlots) + 1
      BY <2>2, <2>4, UsedFinite, FS_AddElement
    <3>2. Cardinality(UsedSlots') <= Capacity
      BY <2>2, CapacityAssumption DEF HInv, NumExact, TypeOK
    <3> QED BY <3>1, <3>2, UsedFinite, EntriesCount, CapacityAssumption
  <2>7. Map!Cardinality(Entries) < Capacity BY <2>6, SameCardinality
  <2> QED BY <2>1, <2>3, <2>5, <2>7 DEF Map!MapInsert, Entries, UsedSlots
<1>3. CASE /\ \A i \in Slots : FirstEnd(k, i) => Used(i)
           /\ result' = FALSE /\ UNCHANGED <<key, handle, num>>
  <2>1. Entries' = Entries BY <1>3 DEF Entries, UsedSlots, Used, Slots
  <2>2. Map!Present(k) \/ Cardinality(Entries) = Capacity
    <3>1. CASE \E i \in Slots : FirstEnd(k, i)
      <4>1. PICK i \in Slots : FirstEnd(k, i) /\ Used(i) BY <1>3, <3>1
      <4>2. key[i] = k BY <4>1 DEF FirstEnd, Ends
      <4> QED BY <4>1, <4>2, PresentIs DEF UsedSlots
    <3>2. CASE ~\E i \in Slots : FirstEnd(k, i)
      <4>1. \A i \in Slots : ~Ends(k, i) BY <1>1, <3>2, EndExists
      <4>2. UsedSlots = Slots BY <4>1 DEF Ends, UsedSlots
      <4>3. Cardinality(Slots) = Capacity BY FS_Interval, CapacityAssumption DEF Slots
      <4> QED BY <4>2, <4>3, EntriesCount
    <3> QED BY <3>1, <3>2
  <2>3. Map!Cardinality(Entries) = Cardinality(Entries) BY SameCardinality
  <2> QED BY <1>3, <2>1, <2>2, <2>3 DEF Map!MapInsert, Entries, UsedSlots
<1> QED BY <1>2, <1>3 DEF Insert

\* Taking out slot i takes out the pair that is there.
LEMMA RemoveEntry ==
    ASSUME HInv, NEW i \in Slots, RemoveIndex(i), UNCHANGED key, UsedSlots' = UsedSlots \ {i}
    PROVE  Entries' = {<<key[n], handle[n]>> : n \in UsedSlots \ {i}}
<1>1. \A n \in UsedSlots \ {i} : handle'[n] = handle[n]
  BY DEF HInv, TypeOK, RemoveIndex, UsedSlots
<1>2. Entries' = {<<key'[n], handle'[n]>> : n \in UsedSlots'} BY DEF Entries
<1> QED BY <1>1, <1>2

LEMMA RemoveByKeyMaps == ASSUME HInv, NEW k \in Keys, RemoveByKey(k)
                         PROVE Map!MapRemoveByKey
<1>1. TypeOK /\ Distinct /\ Idle /\ UNCHANGED <<home, key>> BY DEF HInv, RemoveByKey
<1> DEFINE i == FindIndex(k)
<1>2. CASE i # NoSlot /\ RemoveIndex(i) /\ result' = TRUE
  <2>1. i \in Slots BY <1>1, <1>2, FindIndexType
  <2>2. FirstEnd(k, i) /\ Used(i) BY <1>1, <2>1, FindIndexIs
  <2>3. key[i] = k /\ i \in UsedSlots BY <2>1, <2>2 DEF FirstEnd, Ends, UsedSlots
  <2>4. UsedSlots' = UsedSlots \ {i} BY <1>1, <1>2, <2>1, <2>2, RemoveKeeps
  <2>5. \A n \in UsedSlots : key[n] = k <=> n = i
    BY <1>1, <2>3 DEF Distinct, UsedSlots
  <2>6. Entries' = {<<key[n], handle[n]>> : n \in UsedSlots \ {i}}
    BY <1>1, <1>2, <2>1, <2>4, RemoveEntry
  <2> HIDE DEF i
  <2>7. Entries' = {p \in Entries : p[1] # k} BY <2>5, <2>6 DEF Entries
  <2>8. Map!Present(k) BY <2>3, PresentIs
  <2> QED BY <1>2, <2>7, <2>8 DEF Map!MapRemoveByKey, Entries, UsedSlots
<1>3. CASE i = NoSlot /\ result' = FALSE /\ UNCHANGED <<handle, num, shift>>
  <2>1. \A n \in UsedSlots : key[n] # k
    BY <1>1, <1>3, EntryFound, FindIndexType DEF UsedSlots
  <2>2. ~Map!Present(k) BY <2>1, PresentIs
  <2>3. Entries' = Entries BY <1>1, <1>3 DEF Entries, UsedSlots, Used, Slots
  <2>4. Entries' = {p \in Entries : p[1] # k} BY <2>1, <2>3 DEF Entries
  <2>5. Map!Present(k) = FALSE BY <2>2 DEF Map!Present
  <2> QED BY <1>3, <2>4, <2>5 DEF Map!MapRemoveByKey, Entries, UsedSlots
<1> QED BY <1>2, <1>3 DEF RemoveByKey

LEMMA RemoveByHandleMaps == ASSUME HInv, NEW h \in Handles, RemoveByHandle(h)
                            PROVE Map!MapRemoveByHandle
<1>1. TypeOK /\ Distinct /\ Idle /\ UNCHANGED <<home, key, result>> BY DEF HInv, RemoveByHandle
<1>2. PICK i \in Slots : handle[i] = h /\ RemoveIndex(i) BY DEF RemoveByHandle
<1>3. Used(i) BY <1>2, InvalidAssumption DEF Used
<1>4. result' \in BOOLEAN BY <1>1 DEF TypeOK
<1>5. UsedSlots' = UsedSlots \ {i} BY <1>1, <1>2, <1>3, <1>4, RemoveKeeps
<1>6. Entries' = {<<key[n], handle[n]>> : n \in UsedSlots \ {i}}
  BY <1>1, <1>2, <1>5, RemoveEntry
<1>7. \A n \in UsedSlots : handle[n] = h <=> n = i
  BY <1>1, <1>2, <1>3 DEF Distinct, UsedSlots
<1>8. Entries' = {p \in Entries : p[2] # h} BY <1>6, <1>7 DEF Entries
<1> QED BY <1>1, <1>8 DEF Map!MapRemoveByHandle, Entries, UsedSlots

LEMMA ShiftMaps == ASSUME HInv, Shift PROVE UNCHANGED <<Entries, result>>
<1>1. UNCHANGED result BY DEF Shift
<1>2. CASE UNCHANGED <<key, handle>> BY <1>1, <1>2 DEF Entries, UsedSlots, Used, Slots
<1>3. CASE \E i \in Slots : /\ key' = [key EXCEPT ![i] = key[shift]]
                            /\ handle' = [handle EXCEPT ![shift] = kInvalidHandle, ![i] = handle[shift]]
                            /\ UsedSlots' = (UsedSlots \ {shift}) \union {i}
                            /\ shift \in UsedSlots /\ i \notin UsedSlots
  <2>1. PICK i \in Slots : /\ key' = [key EXCEPT ![i] = key[shift]]
                           /\ handle' = [handle EXCEPT ![shift] = kInvalidHandle, ![i] = handle[shift]]
                           /\ UsedSlots' = (UsedSlots \ {shift}) \union {i}
                           /\ shift \in UsedSlots /\ i \notin UsedSlots
    BY <1>3
  <2>2. key'[i] = key[shift] /\ handle'[i] = handle[shift]
    BY <2>1 DEF HInv, TypeOK, UsedSlots
  <2>3. \A n \in UsedSlots \ {shift} : key'[n] = key[n] /\ handle'[n] = handle[n]
    BY <2>1 DEF HInv, TypeOK, UsedSlots
  <2>4. Entries' = {<<key'[n], handle'[n]>> : n \in UsedSlots'} BY DEF Entries
  <2>5. Entries' = Entries BY <2>1, <2>2, <2>3, <2>4 DEF Entries
  <2> QED BY <1>1, <2>5
<1> QED BY <1>2, <1>3, ShiftCases

\* The table implements a partial map from keys to handles: insert refuses a key that
\* is there and a full table only, a removal takes out one pair at once, and the
\* loop of removeIndex changes nothing a caller can see.
THEOREM RefinesMap == Spec => HandleMapSpec
<1>1. Init => Map!MapInit
  <2> SUFFICES ASSUME Init PROVE Map!MapInit OBVIOUS
  <2>1. \A i \in Slots : ~Used(i) BY DEF Init, Used
  <2> QED BY <2>1 DEF Init, Map!MapInit
<1>2. HInv /\ [Next]_vars => [Map!MapNext]_(Map!mapVars)
  <2> SUFFICES ASSUME HInv, [Next]_vars PROVE Map!MapNext \/ UNCHANGED Map!mapVars OBVIOUS
  <2>1. ASSUME NEW k \in Keys, RemoveByKey(k) PROVE Map!MapNext
    BY <2>1, RemoveByKeyMaps DEF Map!MapNext
  <2>2. ASSUME NEW k \in Keys, NEW h \in Handles, Insert(k, h) PROVE Map!MapNext
    BY <2>2, InsertMaps DEF Map!MapNext
  <2>3. ASSUME NEW h \in Handles, RemoveByHandle(h) PROVE Map!MapNext
    BY <2>3, RemoveByHandleMaps DEF Map!MapNext
  <2>4. CASE Shift BY <2>4, ShiftMaps DEF Map!mapVars, Entries, UsedSlots
  <2>5. CASE UNCHANGED vars BY <2>5 DEF vars, Map!mapVars, Used, Slots
  <2> QED BY <2>1, <2>2, <2>3, <2>4, <2>5 DEF Next
<1> QED BY <1>1, <1>2, Invariance, PTL DEF Spec, HandleMapSpec, Map!MapSpec

-----------------------------------------------------------------------------
(* SpScQueue.                                                               *)

Inside(p) == pc[p] \in {"link", "publish", "check", "free"}
Building(p) == pc[p] \in {"link", "publish"}

\* One producer at a time is between new Node and the end of the mutex's scope.
Exclusion ==
    \A p \in Producers :
        /\ mode = "events" => pc[p] # "post" /\ (pc[p] # "out" => p = Main)
        /\ mode = "thread" => (Inside(p) <=> lock = p)

\* The nodes from m_first to m_last are linked, in the order they were made; at most
\* one more has been made and is not published yet.
Chain ==
    /\ first <= divider /\ divider <= last /\ last <= made
    /\ alive = first .. made
    /\ \A n \in Nodes : first <= n /\ n < last => next[n] = n + 1
    /\ \A n \in Nodes : 0 < n /\ n <= made => ptr[n] \in Values
    /\ (\A p \in Producers : ~Building(p)) => made = last
    /\ \A p \in Producers :
          /\ Building(p) => node[p] = made /\ made = last + 1
          /\ pc[p] = "publish" => next[last] = made
          /\ pc[p] = "free" => first < divider

\* What the consumer has seen stays true until it acts on it.
Consumer ==
    /\ cpc \in {"read", "advance"} => divider < last
    /\ cpc = "advance" => got = ptr[divider + 1]
    /\ peeked # NoPtr =>
          /\ cpc # "out" /\ call = "pop"
          /\ divider < last /\ peeked = ptr[divider + 1]

QueueInv == QueueTypeOK /\ Exclusion /\ Chain /\ Consumer

LEMMA NodesRange ==
    MaxPush \in Nat /\ \A n : n \in Nodes <=> n \in Int /\ 0 <= n /\ n <= MaxPush
BY MaxPushAssumption DEF Nodes

\* No two producers are inside.
LEMMA Alone ==
    ASSUME QueueInv, NEW p \in Producers, NEW q \in Producers, Inside(p), Inside(q)
    PROVE  p = q
<1>1. CASE mode = "events"
    <2>1. pc[p] # "out" /\ pc[q] # "out"
        BY DEF Inside
    <2> QED BY <1>1, <2>1 DEF QueueInv, Exclusion
<1>2. CASE mode = "thread"
    BY <1>2 DEF QueueInv, Exclusion
<1> QED BY <1>1, <1>2, ModesAssumption DEF QueueInv, QueueTypeOK

LEMMA InitQueueInv == QueueInit => QueueInv
<1> SUFFICES ASSUME QueueInit PROVE QueueInv
    OBVIOUS
<1>1. QueueTypeOK
    BY NodesRange DEF QueueInit, QueueTypeOK
<1>2. Exclusion
    BY NoOneAssumption DEF QueueInit, Exclusion, Inside
<1>3. Chain
    BY NodesRange DEF QueueInit, Chain, Building
<1>4. Consumer
    BY DEF QueueInit, Consumer
<1> QED BY <1>1, <1>2, <1>3, <1>4 DEF QueueInv

-----------------------------------------------------------------------------
(* The producers' steps.                                                    *)

LEMMA PushInv ==
    ASSUME QueueInv, NEW p \in Producers, NEW v \in Values, Push(p, v)
    PROVE  QueueInv'
<1>1. /\ pc[p] = "out" /\ made < MaxPush /\ made' = made + 1
      /\ ptr' = [ptr EXCEPT ![made + 1] = v] /\ alive' = alive \union {made + 1}
      /\ node' = [node EXCEPT ![p] = made + 1] /\ pc' = [pc EXCEPT ![p] = "link"]
      /\ UNCHANGED <<mode, next, first, last, count, consumerVars>>
    BY DEF Push
<1>2. UNCHANGED <<divider, cpc, call, got, peeked, popped>>
    BY <1>1 DEF consumerVars
<1>3. \A q \in Producers : ~Inside(q)
    <2>1. CASE mode = "events"
        BY <1>1, <2>1 DEF Push, MayPush, QueueInv, Exclusion, Inside
    <2>2. CASE mode = "thread"
        <3>1. lock = NoOne
            BY <2>2 DEF Push, MayPush
        <3> QED BY <2>2, <3>1, NoOneAssumption DEF QueueInv, Exclusion
    <2> QED BY <2>1, <2>2, ModesAssumption DEF QueueInv, QueueTypeOK
<1>4. made = last
    BY <1>3 DEF QueueInv, Chain, Inside, Building
<1>5. QueueTypeOK'
    <2>1. lock' \in Producers \union {NoOne}
        BY DEF Push, MayPush, QueueInv, QueueTypeOK
    <2> QED BY <1>1, <1>2, <2>1, NodesRange DEF QueueInv, QueueTypeOK
<1>6. Exclusion'
    BY <1>1, <1>3, NoOneAssumption DEF Push, MayPush, QueueInv, Exclusion, QueueTypeOK, Inside
<1>7. Chain'
    <2>1. \A q \in Producers : pc'[q] = IF q = p THEN "link" ELSE pc[q]
        BY <1>1 DEF QueueInv, QueueTypeOK
    <2>2. \A q \in Producers : Building(q)' => q = p
        BY <2>1, <1>3 DEF Building, Inside
    <2>3. node'[p] = made' /\ made' = last' + 1 /\ Building(p)'
        BY <1>1, <1>4, <2>1 DEF QueueInv, QueueTypeOK, Building
    <2>4. \A q \in Producers : pc'[q] # "publish" /\ pc'[q] # "free"
        BY <2>1, <1>3 DEF Inside
    <2>5. \A n \in Nodes : 0 < n /\ n <= made' => ptr'[n] \in Values
        BY <1>1, NodesRange DEF QueueInv, QueueTypeOK, Chain
    <2>6. alive' = first' .. made'
        BY <1>1, NodesRange DEF QueueInv, QueueTypeOK, Chain
    <2>7. \A n \in Nodes : first' <= n /\ n < last' => next'[n] = n + 1
        BY <1>1 DEF QueueInv, Chain
    <2>8. first' <= divider' /\ divider' <= last' /\ last' <= made'
        BY <1>1, <1>2, NodesRange DEF QueueInv, QueueTypeOK, Chain
    <2> QED BY <2>2, <2>3, <2>4, <2>5, <2>6, <2>7, <2>8 DEF Chain
<1>8. Consumer'
    BY <1>1, <1>2, <1>4, NodesRange DEF QueueInv, QueueTypeOK, Chain, Consumer
<1> QED BY <1>5, <1>6, <1>7, <1>8 DEF QueueInv

LEMMA LinkInv ==
    ASSUME QueueInv, NEW p \in Producers, Link(p)
    PROVE  QueueInv'
<1>1. /\ pc[p] = "link" /\ next' = [next EXCEPT ![last] = node[p]]
      /\ pc' = [pc EXCEPT ![p] = "publish"]
      /\ UNCHANGED <<mode, made, ptr, alive, first, last, lock, count, node, consumerVars>>
    BY DEF Link
<1>2. UNCHANGED <<divider, cpc, call, got, peeked, popped>>
    BY <1>1 DEF consumerVars
<1>3. \A q \in Producers : Inside(q) => q = p
    BY <1>1, Alone DEF Inside
<1>4. node[p] = made /\ made = last + 1
    BY <1>1 DEF QueueInv, Chain, Building
<1>5. \A q \in Producers : pc'[q] = IF q = p THEN "publish" ELSE pc[q]
    BY <1>1 DEF QueueInv, QueueTypeOK
<1>6. QueueTypeOK'
    BY <1>1, <1>2, NodesRange DEF QueueInv, QueueTypeOK
<1>7. Exclusion'
    BY <1>1, <1>5 DEF QueueInv, Exclusion, Inside
<1>8. Chain'
    <2>1. next'[last'] = made'
        BY <1>1, <1>4 DEF QueueInv, QueueTypeOK
    <2>2. \A n \in Nodes : first' <= n /\ n < last' => next'[n] = n + 1
        BY <1>1, NodesRange DEF QueueInv, QueueTypeOK, Chain
    <2>3. \A q \in Producers : (Building(q)' \/ pc'[q] = "free") => q = p
        BY <1>3, <1>5 DEF Building, Inside
    <2>4. Building(p)' /\ pc'[p] # "free"
        BY <1>5 DEF Building
    <2> QED BY <1>1, <1>2, <1>4, <2>1, <2>2, <2>3, <2>4 DEF QueueInv, Chain, Building
<1>9. Consumer'
    BY <1>1, <1>2 DEF QueueInv, Consumer
<1> QED BY <1>6, <1>7, <1>8, <1>9 DEF QueueInv

LEMMA PublishInv ==
    ASSUME QueueInv, NEW p \in Producers, Publish(p)
    PROVE  QueueInv' /\ last' = last + 1
<1>1. /\ pc[p] = "publish" /\ last' = next[last] /\ pc' = [pc EXCEPT ![p] = "check"]
      /\ UNCHANGED <<mode, made, ptr, next, alive, first, lock, count, node>>
      /\ UNCHANGED <<divider, cpc, call, got, peeked, popped>>
    BY DEF Publish, nodeVars, consumerVars
<1>2. \A q \in Producers : Inside(q) => q = p
    BY <1>1, Alone DEF Inside
<1>3. next[last] = made /\ made = last + 1
    BY <1>1 DEF QueueInv, Chain, Building
<1>4. \A q \in Producers : pc'[q] = IF q = p THEN "check" ELSE pc[q]
    BY <1>1 DEF QueueInv, QueueTypeOK
<1>5. QueueTypeOK'
    BY <1>1, <1>3 DEF QueueInv, QueueTypeOK
<1>6. Exclusion'
    BY <1>1, <1>4 DEF QueueInv, Exclusion, Inside
<1>7. Chain'
    <2>1. \A q \in Producers : ~Building(q)' /\ pc'[q] # "free"
        BY <1>2, <1>4 DEF Building, Inside
    <2>2. \A n \in Nodes : first' <= n /\ n < last' => next'[n] = n + 1
        BY <1>1, <1>3, NodesRange DEF QueueInv, QueueTypeOK, Chain
    <2>3. first' <= divider' /\ divider' <= last' /\ last' <= made'
        BY <1>1, <1>3, NodesRange DEF QueueInv, QueueTypeOK, Chain
    <2> QED BY <1>1, <1>3, <2>1, <2>2, <2>3 DEF QueueInv, Chain, Building
<1>8. Consumer'
    BY <1>1, <1>3, NodesRange DEF QueueInv, QueueTypeOK, Consumer
<1> QED BY <1>1, <1>3, <1>5, <1>6, <1>7, <1>8 DEF QueueInv

LEMMA CheckInv ==
    ASSUME QueueInv, NEW p \in Producers, Check(p)
    PROVE  QueueInv'
<1>1. /\ pc[p] = "check"
      /\ UNCHANGED <<mode, made, ptr, next, alive, first, last, count, node>>
      /\ UNCHANGED <<divider, cpc, call, got, peeked, popped>>
    BY DEF Check, nodeVars, consumerVars
<1>2. \A q \in Producers : Inside(q) => q = p
    BY <1>1, Alone DEF Inside
<1>3. Consumer'
    BY <1>1 DEF QueueInv, Consumer
<1>4. CASE first # divider /\ pc' = [pc EXCEPT ![p] = "free"] /\ UNCHANGED lock
    <2>1. \A q \in Producers : pc'[q] = IF q = p THEN "free" ELSE pc[q]
        BY <1>4 DEF QueueInv, QueueTypeOK
    <2>2. QueueTypeOK' /\ Exclusion'
        BY <1>1, <1>4, <2>1 DEF QueueInv, QueueTypeOK, Exclusion, Inside
    <2>3. \A q \in Producers : Building(q)' <=> Building(q)
        BY <1>1, <2>1 DEF Building
    <2>4. first < divider
        BY <1>4, NodesRange DEF QueueInv, QueueTypeOK, Chain
    <2>5. Chain'
        BY <1>1, <1>2, <2>1, <2>3, <2>4 DEF QueueInv, Chain, Inside, Building
    <2> QED BY <1>3, <2>2, <2>5 DEF QueueInv
<1>5. CASE Leave(p)
    <2>1. PICK to \in {"out", "post"} : /\ pc' = [pc EXCEPT ![p] = to]
                                        /\ mode = "events" => to = "out"
        BY <1>5 DEF Leave
    <2>2. \A q \in Producers : pc'[q] = IF q = p THEN to ELSE pc[q]
        BY <2>1 DEF QueueInv, QueueTypeOK
    <2>3. \A q \in Producers : ~Inside(q)'
        BY <1>2, <2>2 DEF Inside
    <2>4. mode = "thread" => lock' = NoOne
        BY <1>5 DEF Leave
    <2>5. QueueTypeOK'
        <3>1. lock' \in Producers \union {NoOne}
            BY <1>5 DEF Leave, QueueInv, QueueTypeOK
        <3> QED BY <1>1, <2>1, <3>1 DEF QueueInv, QueueTypeOK
    <2>6. Exclusion'
        BY <1>1, <2>1, <2>2, <2>3, <2>4, NoOneAssumption DEF QueueInv, Exclusion
    <2>7. \A q \in Producers : ~Building(q) /\ ~Building(q)' /\ pc'[q] # "free"
        BY <1>1, <1>2, <2>3 DEF Building, Inside
    <2>8. Chain'
        BY <1>1, <2>7 DEF QueueInv, Chain, Building
    <2> QED BY <1>3, <2>5, <2>6, <2>8 DEF QueueInv
<1> QED BY <1>4, <1>5 DEF Check

LEMMA FreeInv ==
    ASSUME QueueInv, NEW p \in Producers, FreeNode(p)
    PROVE  QueueInv'
<1>1. /\ pc[p] = "free" /\ first' = next[first] /\ alive' = alive \ {first}
      /\ pc' = [pc EXCEPT ![p] = "check"]
      /\ UNCHANGED <<mode, made, ptr, next, last, lock, count, node>>
      /\ UNCHANGED <<divider, cpc, call, got, peeked, popped>>
    BY DEF FreeNode, consumerVars
<1>2. first < divider /\ next[first] = first + 1
    BY <1>1, NodesRange DEF QueueInv, QueueTypeOK, Chain
<1>3. \A q \in Producers : pc'[q] = IF q = p THEN "check" ELSE pc[q]
    BY <1>1 DEF QueueInv, QueueTypeOK
<1>4. QueueTypeOK'
    BY <1>1, <1>2, NodesRange DEF QueueInv, QueueTypeOK
<1>5. Exclusion'
    BY <1>1, <1>3 DEF QueueInv, Exclusion, Inside
<1>6. Chain'
    <2>1. \A q \in Producers : pc'[q] # "free" /\ (Building(q)' <=> Building(q))
        BY <1>1, <1>3, Alone DEF Building, Inside
    <2>2. alive' = first' .. made'
        BY <1>1, <1>2, NodesRange DEF QueueInv, QueueTypeOK, Chain
    <2>3. first' <= divider' /\ divider' <= last' /\ last' <= made'
        BY <1>1, <1>2, NodesRange DEF QueueInv, QueueTypeOK, Chain
    <2>4. \A n \in Nodes : first' <= n /\ n < last' => next'[n] = n + 1
        BY <1>1, <1>2, NodesRange DEF QueueInv, QueueTypeOK, Chain
    <2> QED BY <1>1, <1>3, <2>1, <2>2, <2>3, <2>4 DEF QueueInv, Chain, Building
<1>7. Consumer'
    BY <1>1 DEF QueueInv, Consumer
<1> QED BY <1>4, <1>5, <1>6, <1>7 DEF QueueInv

LEMMA PostInv ==
    ASSUME QueueInv, NEW p \in Producers, Post(p)
    PROVE  QueueInv'
<1>1. /\ pc[p] = "post" /\ count' = count + 1 /\ pc' = [pc EXCEPT ![p] = "out"]
      /\ UNCHANGED <<mode, made, ptr, next, alive, first, last, lock, node>>
      /\ UNCHANGED <<divider, cpc, call, got, peeked, popped>>
    BY DEF Post, nodeVars, consumerVars
<1>2. \A q \in Producers : pc'[q] = IF q = p THEN "out" ELSE pc[q]
    BY <1>1 DEF QueueInv, QueueTypeOK
<1>3. QueueTypeOK' /\ Exclusion'
    BY <1>1, <1>2 DEF QueueInv, QueueTypeOK, Exclusion, Inside
<1>4. \A q \in Producers : Building(q)' <=> Building(q)
    BY <1>1, <1>2 DEF Building
<1>5. Chain' /\ Consumer'
    BY <1>1, <1>2, <1>4 DEF QueueInv, Chain, Consumer, Building
<1> QED BY <1>3, <1>5 DEF QueueInv

-----------------------------------------------------------------------------
(* The consumer's steps.                                                    *)

LEMMA ChainKept ==
    ASSUME QueueInv, UNCHANGED <<mode, nodeVars, producerVars, divider>>
    PROVE  Exclusion' /\ Chain'
<1>1. UNCHANGED <<mode, made, ptr, next, alive, first, divider, last, lock, pc, node>>
    BY DEF nodeVars, producerVars
<1> QED BY <1>1 DEF QueueInv, Exclusion, Inside, Chain, Building

\* A node with an item behind m_divider: its link and its item are there.
LEMMA Front ==
    ASSUME QueueInv, divider < last
    PROVE  /\ next[divider] = divider + 1
           /\ divider + 1 \in Nodes /\ ptr[divider + 1] \in Values
BY NodesRange DEF QueueInv, QueueTypeOK, Chain

LEMMA WaitInv == QueueInv /\ Wait => QueueInv'
<1> SUFFICES ASSUME QueueInv, Wait PROVE QueueInv'
    OBVIOUS
<1>1. /\ cpc = "out" /\ count > 0 /\ count' = count - 1 /\ call' = "pop" /\ cpc' = "test"
      /\ UNCHANGED <<mode, nodeVars, producerVars, divider, got, peeked, popped>>
    BY DEF Wait
<1>2. QueueTypeOK'
    BY <1>1 DEF QueueInv, QueueTypeOK, nodeVars, producerVars
<1>3. Consumer'
    BY <1>1 DEF QueueInv, Consumer
<1> QED BY <1>1, <1>2, <1>3, ChainKept DEF QueueInv

LEMMA PollInv == ASSUME QueueInv, NEW c \in {"pop", "peek"}, Poll(c) PROVE QueueInv'
<1>1. /\ cpc = "out" /\ call' = c /\ cpc' = "test"
      /\ UNCHANGED <<mode, nodeVars, producerVars, count, divider, got, peeked, popped>>
    BY DEF Poll
<1>2. QueueTypeOK'
    BY <1>1 DEF QueueInv, QueueTypeOK, nodeVars, producerVars
<1>3. Consumer'
    BY <1>1 DEF QueueInv, Consumer
<1> QED BY <1>1, <1>2, <1>3, ChainKept DEF QueueInv

LEMMA TestInv == QueueInv /\ Test => QueueInv'
<1> SUFFICES ASSUME QueueInv, Test PROVE QueueInv'
    OBVIOUS
<1>1. /\ cpc = "test"
      /\ UNCHANGED <<mode, nodeVars, producerVars, count, divider, call, got>>
    BY DEF Test
<1>2. QueueTypeOK'
    BY <1>1 DEF Test, QueueInv, QueueTypeOK, nodeVars, producerVars
<1>3. Consumer'
    <2>1. CASE divider # last /\ cpc' = "read" /\ UNCHANGED <<peeked, popped>>
        <3>1. divider < last
            BY <2>1, NodesRange DEF QueueInv, QueueTypeOK, Chain
        <3> QED BY <1>1, <2>1, <3>1 DEF QueueInv, Consumer, nodeVars, producerVars
    <2>2. CASE divider = last /\ cpc' = "out" /\ popped' = NoPtr /\ peeked' = NoPtr
        BY <2>2 DEF Consumer
    <2> QED BY <2>1, <2>2 DEF Test
<1> QED BY <1>1, <1>2, <1>3, ChainKept DEF QueueInv

LEMMA ReadInv == QueueInv /\ Read => QueueInv'
<1> SUFFICES ASSUME QueueInv, Read PROVE QueueInv'
    OBVIOUS
<1>1. /\ cpc = "read" /\ got' = ptr[next[divider]]
      /\ UNCHANGED <<mode, nodeVars, producerVars, count, divider, popped>>
    BY DEF Read
<1>2. divider < last
    BY <1>1 DEF QueueInv, Consumer
<1>3. got' = ptr[divider + 1] /\ got' \in Values
    BY <1>1, <1>2, Front
<1>4. QueueTypeOK'
    BY <1>1, <1>3 DEF Read, QueueInv, QueueTypeOK, nodeVars, producerVars
<1>5. Consumer'
    BY <1>1, <1>2, <1>3 DEF Read, QueueInv, Consumer, nodeVars, producerVars
<1> QED BY <1>1, <1>4, <1>5, ChainKept DEF QueueInv

LEMMA AdvanceInv == QueueInv /\ Advance => QueueInv' /\ divider' = divider + 1
<1> SUFFICES ASSUME QueueInv, Advance PROVE QueueInv' /\ divider' = divider + 1
    OBVIOUS
<1>1. /\ cpc = "advance" /\ divider' = next[divider] /\ popped' = got /\ peeked' = NoPtr
      /\ cpc' = "out"
      /\ UNCHANGED <<mode, nodeVars, producerVars, count, call, got>>
    BY DEF Advance
<1>2. UNCHANGED <<made, ptr, next, alive, first, last, lock, pc, node>>
    BY <1>1 DEF nodeVars, producerVars
<1>3. divider < last /\ divider' = divider + 1
    BY <1>1, Front DEF QueueInv, Consumer
<1>4. QueueTypeOK'
    BY <1>1, <1>2, <1>3, Front DEF QueueInv, QueueTypeOK
<1>5. Exclusion'
    BY <1>1, <1>2 DEF QueueInv, Exclusion, Inside
<1>6. Chain'
    <2>1. first' <= divider' /\ divider' <= last' /\ last' <= made'
        BY <1>2, <1>3, NodesRange DEF QueueInv, QueueTypeOK, Chain
    <2>2. \A q \in Producers : pc'[q] = "free" => first' < divider'
        BY <1>2, <1>3, NodesRange DEF QueueInv, QueueTypeOK, Chain
    <2> QED BY <1>1, <1>2, <2>1, <2>2 DEF QueueInv, Chain, Building
<1>7. Consumer'
    BY <1>1 DEF Consumer
<1> QED BY <1>3, <1>4, <1>5, <1>6, <1>7 DEF QueueInv

-----------------------------------------------------------------------------
(* The theorems.                                                            *)

LEMMA StepQueueInv == QueueInv /\ [QueueNext]_queueVars => QueueInv'
<1> SUFFICES ASSUME QueueInv, [QueueNext]_queueVars PROVE QueueInv'
    OBVIOUS
<1>1. ASSUME NEW p \in Producers, PushStep(p) PROVE QueueInv'
    BY <1>1, LinkInv, PublishInv, CheckInv, FreeInv, PostInv DEF PushStep
<1>2. ASSUME NEW p \in Producers, NEW v \in Values, Push(p, v) PROVE QueueInv'
    BY <1>2, PushInv
<1>3. ASSUME PopStep PROVE QueueInv'
    BY <1>3, WaitInv, TestInv, ReadInv, AdvanceInv DEF PopStep
<1>4. ASSUME NEW c \in {"pop", "peek"}, Poll(c) PROVE QueueInv'
    BY <1>4, PollInv
<1>5. CASE UNCHANGED queueVars
    BY <1>5 DEF queueVars, nodeVars, producerVars, consumerVars, QueueInv, QueueTypeOK, Exclusion,
                Inside, Chain, Building, Consumer
<1> QED BY <1>1, <1>2, <1>3, <1>4, <1>5 DEF QueueNext, Finished

\* The inductive invariant: the list between m_first and m_last, who builds it, and what
\* the consumer knows of it.
THEOREM QueueInvariance == QueueSpec => []QueueInv
BY InitQueueInv, StepQueueInv, PTL DEF QueueSpec

\* Types, for any number of pushes.
THEOREM QueueTypeCorrect == QueueSpec => []QueueTypeOK
<1>1. QueueInv => QueueTypeOK
    BY DEF QueueInv
<1> QED BY <1>1, QueueInvariance, PTL

\* No thread comes to a deleted node, and none is lost.
THEOREM NoUseAfterFree == QueueSpec => []NodesSafe
<1>1. QueueInv => NodesSafe
    <2> SUFFICES ASSUME QueueInv PROVE NodesSafe
        OBVIOUS
    <2>1. first \in alive /\ divider \in alive /\ last \in alive
        BY NodesRange DEF QueueInv, QueueTypeOK, Chain
    <2>2. ASSUME NEW p \in Producers, pc[p] = "publish" PROVE next[last] \in alive
        BY <2>2, NodesRange DEF QueueInv, QueueTypeOK, Chain, Building
    <2>3. ASSUME NEW p \in Producers, pc[p] = "free"
          PROVE  first # divider /\ next[first] \in alive
        BY <2>3, NodesRange DEF QueueInv, QueueTypeOK, Chain
    <2>4. ASSUME cpc \in {"read", "advance"} PROVE next[divider] \in alive
        BY <2>4, Front, NodesRange DEF QueueInv, QueueTypeOK, Chain, Consumer
    <2> QED BY <2>1, <2>2, <2>3, <2>4 DEF QueueInv, Chain, NodesSafe
<1> QED BY <1>1, QueueInvariance, PTL

-----------------------------------------------------------------------------
(* The semaphore of a bx::Thread's queue.                                   *)

\* The producers whose item is in the queue and not yet in the semaphore's count.
Owed == {p \in Producers : pc[p] \in {"check", "free", "post"}}

\* Every item in the queue is counted once: by the semaphore, by the producer that is to
\* post, or by the consumer that has waited.
Tokens ==
    mode = "thread" =>
        /\ call = "pop" /\ peeked = NoPtr
        /\ count + Cardinality(Owed) + (IF cpc = "out" THEN 0 ELSE 1) = last - divider

LEMMA OwedFinite == IsFiniteSet(Owed) /\ Cardinality(Owed) \in Nat
<1>1. Owed \subseteq Producers
    BY DEF Owed
<1> QED BY <1>1, ProducersAssumption, FS_Subset, FS_CardinalityType

LEMMA InitTokens == QueueInit => Tokens
<1> SUFFICES ASSUME QueueInit PROVE Tokens
    OBVIOUS
<1>1. Owed = {}
    BY DEF QueueInit, Owed
<1> QED BY <1>1, FS_EmptySet DEF QueueInit, Tokens

LEMMA PublishTokens ==
    ASSUME QueueInv, Tokens, NEW p \in Producers, Publish(p)
    PROVE  Tokens'
<1>1. /\ pc[p] = "publish" /\ pc' = [pc EXCEPT ![p] = "check"]
      /\ UNCHANGED <<mode, count, divider, cpc, call, peeked>>
    BY DEF Publish, consumerVars
<1>2. last' = last + 1
    BY PublishInv
<1>3. p \notin Owed /\ Owed' = Owed \union {p}
    BY <1>1 DEF QueueInv, QueueTypeOK, Owed
<1>4. Cardinality(Owed') = Cardinality(Owed) + 1
    BY <1>3, OwedFinite, FS_AddElement
<1> QED BY <1>1, <1>2, <1>4, OwedFinite, NodesRange DEF QueueInv, QueueTypeOK, Tokens

LEMMA PostTokens ==
    ASSUME QueueInv, Tokens, NEW p \in Producers, Post(p)
    PROVE  Tokens'
<1>1. /\ pc[p] = "post" /\ pc' = [pc EXCEPT ![p] = "out"] /\ count' = count + 1
      /\ UNCHANGED <<mode, last, divider, cpc, call, peeked>>
    BY DEF Post, consumerVars
<1>2. p \in Owed /\ Owed' = Owed \ {p}
    BY <1>1 DEF QueueInv, QueueTypeOK, Owed
<1>3. Cardinality(Owed') = Cardinality(Owed) - 1
    BY <1>2, OwedFinite, FS_RemoveElement
<1> QED BY <1>1, <1>3, OwedFinite, NodesRange DEF QueueInv, QueueTypeOK, Tokens

\* The other steps of a push neither count an item nor take it out.
LEMMA PushTokens ==
    ASSUME QueueInv, Tokens, NEW p \in Producers,
           Link(p) \/ Check(p) \/ FreeNode(p) \/ \E v \in Values : Push(p, v)
    PROVE  Tokens'
<1>1. UNCHANGED <<mode, last, count, divider, cpc, call, peeked>>
    BY DEF Link, Check, FreeNode, Push, consumerVars
<1>2. mode = "thread" => Owed' = Owed
    BY DEF Link, Check, Leave, FreeNode, Push, QueueInv, QueueTypeOK, Owed
<1> QED BY <1>1, <1>2 DEF Tokens

LEMMA PopTokens ==
    ASSUME QueueInv, Tokens, PopStep \/ \E c \in {"pop", "peek"} : Poll(c)
    PROVE  Tokens'
<1>1. UNCHANGED <<mode, last, pc>>
    BY DEF PopStep, Wait, Test, Read, Advance, Poll, producerVars
<1>2. Owed' = Owed
    BY <1>1 DEF Owed
<1>3. CASE Wait
    BY <1>1, <1>2, <1>3, OwedFinite, NodesRange DEF Wait, QueueInv, QueueTypeOK, Tokens
<1>4. CASE \E c \in {"pop", "peek"} : Poll(c)
    BY <1>1, <1>4 DEF Poll, Tokens
<1>5. CASE Test
    BY <1>1, <1>2, <1>5, OwedFinite, NodesRange DEF Test, QueueInv, QueueTypeOK, Tokens
<1>6. CASE Read
    BY <1>1, <1>2, <1>6 DEF Read, Tokens
<1>7. CASE Advance
    <2>1. divider' = divider + 1
        BY <1>7, AdvanceInv
    <2> QED BY <1>1, <1>2, <1>7, <2>1, OwedFinite, NodesRange DEF Advance, QueueInv, QueueTypeOK, Tokens
<1> QED BY <1>3, <1>4, <1>5, <1>6, <1>7 DEF PopStep

\* A pop that waited, and one whose peek saw an item, gets an item.
THEOREM PopNeverEmpty == QueueSpec => []PopFinds
<1>1. QueueInv /\ Tokens /\ [QueueNext]_queueVars => Tokens'
    <2> SUFFICES ASSUME QueueInv, Tokens, [QueueNext]_queueVars PROVE Tokens'
        OBVIOUS
    <2>1. CASE UNCHANGED queueVars
        BY <2>1 DEF queueVars, producerVars, consumerVars, Tokens, Owed
    <2> QED BY <2>1, PublishTokens, PostTokens, PushTokens, PopTokens
            DEF QueueNext, PushStep, Finished
<1>2. QueueInv /\ Tokens => PopFinds
    <2> SUFFICES ASSUME QueueInv, Tokens PROVE PopFinds
        OBVIOUS
    <2>1. ASSUME cpc = "test", mode = "thread" PROVE divider # last
        BY <2>1, OwedFinite, NodesRange DEF QueueInv, QueueTypeOK, Tokens
    <2>2. ASSUME peeked # NoPtr
          PROVE  divider # last /\ (cpc = "advance" => got = peeked)
        BY <2>2, NodesRange DEF QueueInv, QueueTypeOK, Consumer
    <2> QED BY <2>1, <2>2 DEF PopFinds
<1> QED BY <1>1, <1>2, InitTokens, QueueInvariance, PTL DEF QueueSpec

-----------------------------------------------------------------------------
(* The queue is a Fifo.                                                     *)

\* Queue is the items behind m_divider, in order.
QueueItems ==
    /\ Queue \in Seq(Values) /\ Len(Queue) = last - divider
    /\ \A i \in 1 .. last - divider : Queue[i] = ptr[divider + i]

LEMMA QueueSeq == QueueInv => QueueItems
<1> SUFFICES ASSUME QueueInv PROVE QueueItems
    OBVIOUS
<1>1. last - divider \in Nat
    BY NodesRange DEF QueueInv, QueueTypeOK, Chain
<1>2. \A i \in 1 .. last - divider : ptr[divider + i] \in Values
    BY NodesRange DEF QueueInv, QueueTypeOK, Chain
<1>3. Queue \in [1 .. last - divider -> Values]
    BY <1>2 DEF Queue
<1>4. Queue \in Seq(Values)
    BY <1>1, <1>3, SeqDef
<1>5. DOMAIN Queue = 1 .. last - divider /\ DOMAIN Queue = 1 .. Len(Queue) /\ Len(Queue) \in Nat
    BY <1>3, <1>4, LenProperties
<1>6. Len(Queue) = last - divider
    BY <1>1, <1>5
<1> QED BY <1>4, <1>6 DEF Queue, QueueItems

\* Only the exchange of m_last changes the items from outside, and only that of
\* m_divider takes one.
LEMMA QueueKept ==
    ASSUME QueueInv, UNCHANGED <<divider, last>>,
           UNCHANGED ptr \/ \E n, v : n > last /\ ptr' = [ptr EXCEPT ![n] = v]
    PROVE  Queue' = Queue
<1>1. \A i \in 1 .. last - divider : divider + i \in Nodes /\ divider + i <= last
    BY NodesRange DEF QueueInv, QueueTypeOK, Chain
<1>2. \A i \in 1 .. last - divider : ptr'[divider + i] = ptr[divider + i]
    BY <1>1, NodesRange DEF QueueInv, QueueTypeOK
<1> QED BY <1>2 DEF Queue

LEMMA PublishRefines ==
    ASSUME QueueInv, NEW p \in Producers, Publish(p)
    PROVE  Items!Put
<1>1. QueueInv' /\ last' = last + 1 /\ UNCHANGED <<ptr, divider, popped, made>>
    BY PublishInv DEF Publish, nodeVars, consumerVars
<1>2. /\ last \in Nat /\ divider \in Nat /\ divider <= last /\ last + 1 \in Nodes
      /\ last + 1 <= made
    BY <1>1, NodesRange DEF QueueInv, QueueTypeOK, Chain
<1>3. PICK v \in Values : v = ptr[last + 1]
    BY <1>2, NodesRange DEF QueueInv, Chain
<1>4. Queue \in Seq(Values) /\ Len(Queue) = last - divider
    BY QueueSeq DEF QueueItems
<1>5. /\ Queue' \in Seq(Values) /\ Len(Queue') = last' - divider'
      /\ \A i \in 1 .. last' - divider' : Queue'[i] = ptr'[divider' + i]
    <2>1. QueueItems'
        BY <1>1, QueueSeq, PTL
    <2> QED BY <2>1 DEF QueueItems
<1>6. /\ Append(Queue, v) \in Seq(Values) /\ Len(Append(Queue, v)) = Len(Queue) + 1
      /\ \A i \in 1 .. Len(Queue) : Append(Queue, v)[i] = Queue[i]
      /\ Append(Queue, v)[Len(Queue) + 1] = v
    BY <1>4, AppendProperties
<1>7. ASSUME NEW i \in 1 .. Len(Queue') PROVE Queue'[i] = Append(Queue, v)[i]
    <2>1. Len(Queue') = Len(Queue) + 1
        BY <1>1, <1>2, <1>4, <1>5
    <2>2. CASE i <= Len(Queue)
        <3>1. Queue[i] = ptr[divider + i]
            BY <2>2, <1>2, <1>4, QueueSeq DEF QueueItems
        <3> QED BY <1>1, <1>2, <1>4, <1>5, <1>6, <2>1, <2>2, <3>1
    <2>3. CASE i = Len(Queue) + 1
        BY <1>1, <1>2, <1>3, <1>4, <1>5, <1>6, <2>3
    <2> QED BY <2>1, <2>2, <2>3, <1>2, <1>4
<1>8. Queue' = Append(Queue, v)
    BY <1>1, <1>2, <1>4, <1>5, <1>6, <1>7, SeqEqual
<1> QED BY <1>1, <1>8 DEF Items!Put

LEMMA AdvanceRefines == QueueInv /\ Advance => Items!Take
<1> SUFFICES ASSUME QueueInv, Advance PROVE Items!Take
    OBVIOUS
<1>1. /\ QueueInv' /\ divider' = divider + 1 /\ divider < last /\ UNCHANGED <<ptr, last>>
      /\ popped' = ptr[divider + 1]
    BY AdvanceInv DEF Advance, nodeVars, producerVars, QueueInv, Consumer
<1>2. divider \in Nat /\ last \in Nat
    BY NodesRange DEF QueueInv, QueueTypeOK
<1>3. /\ Queue \in Seq(Values) /\ Len(Queue) = last - divider
      /\ \A i \in 1 .. last - divider : Queue[i] = ptr[divider + i]
    BY QueueSeq DEF QueueItems
<1>4. /\ Queue' \in Seq(Values) /\ Len(Queue') = last' - divider'
      /\ \A i \in 1 .. last' - divider' : Queue'[i] = ptr'[divider' + i]
    <2>1. QueueItems'
        BY <1>1, QueueSeq, PTL
    <2> QED BY <2>1 DEF QueueItems
<1>5. Queue # <<>>
    BY <1>1, <1>2, <1>3, EmptySeq
<1>6. /\ Head(Queue) = Queue[1] /\ Tail(Queue) \in Seq(Values)
      /\ Len(Tail(Queue)) = Len(Queue) - 1
      /\ \A i \in 1 .. Len(Tail(Queue)) : Tail(Queue)[i] = Queue[i + 1]
    BY <1>3, <1>5, HeadTailProperties
<1>7. popped' = Head(Queue)
    BY <1>1, <1>2, <1>3, <1>6
<1>8. ASSUME NEW i \in 1 .. Len(Queue') PROVE Queue'[i] = Tail(Queue)[i]
    <2>1. Queue'[i] = ptr[divider + (i + 1)]
        BY <1>1, <1>2, <1>4
    <2>2. i + 1 \in 1 .. last - divider /\ i \in 1 .. Len(Tail(Queue))
        BY <1>1, <1>2, <1>3, <1>4, <1>6
    <2> QED BY <1>3, <1>6, <2>1, <2>2
<1>9. Queue' = Tail(Queue)
    BY <1>1, <1>2, <1>3, <1>4, <1>6, <1>8, SeqEqual
<1> QED BY <1>5, <1>7, <1>9 DEF Items!Take

\* A test that finds m_divider = m_last ends a pop that the abstract queue answers NULL.
LEMMA TestRefines == QueueInv /\ Test => Items!Miss \/ UNCHANGED Items!fifoVars
<1> SUFFICES ASSUME QueueInv, Test PROVE Items!Miss \/ UNCHANGED Items!fifoVars
    OBVIOUS
<1>1. Queue' = Queue
    BY QueueKept DEF Test, nodeVars, producerVars
<1>2. CASE divider # last /\ cpc' = "read" /\ UNCHANGED <<peeked, popped>>
    BY <1>1, <1>2 DEF Items!fifoVars
<1>3. CASE divider = last /\ cpc' = "out" /\ popped' = NoPtr /\ peeked' = NoPtr
    <2>1. Len(Queue) = 0
        BY <1>3, QueueSeq, NodesRange DEF QueueItems, QueueInv, QueueTypeOK
    <2>2. Queue = <<>>
        BY <2>1, QueueSeq, EmptySeq DEF QueueItems
    <2> QED BY <1>1, <1>3, <2>2 DEF Items!Miss
<1> QED BY <1>2, <1>3 DEF Test

\* The queue of nodes is first in, first out, whatever the interleaving of its sides.
THEOREM RefinesFifo == QueueSpec => FifoSpec
<1>1. QueueInit => Items!FifoInit
    <2> SUFFICES ASSUME QueueInit PROVE Items!FifoInit
        OBVIOUS
    <2>1. QueueInv /\ Len(Queue) = 0
        BY InitQueueInv, QueueSeq DEF QueueItems, QueueInit
    <2>2. Queue = <<>>
        BY <2>1, QueueSeq, EmptySeq DEF QueueItems
    <2> QED BY <2>2 DEF QueueInit, Items!FifoInit
<1>2. QueueInv /\ [QueueNext]_queueVars => [Items!FifoNext]_Items!fifoVars
    <2> SUFFICES ASSUME QueueInv, [QueueNext]_queueVars
                 PROVE  Items!FifoNext \/ UNCHANGED Items!fifoVars
        OBVIOUS
    <2>1. ASSUME NEW p \in Producers, Publish(p) PROVE Items!FifoNext
        BY <2>1, PublishRefines DEF Items!FifoNext
    <2>2. ASSUME NEW p \in Producers, NEW v \in Values, Push(p, v)
          PROVE  UNCHANGED Items!fifoVars
        <3>1. made + 1 > last
            BY NodesRange DEF QueueInv, QueueTypeOK, Chain
        <3>2. /\ ptr' = [ptr EXCEPT ![made + 1] = v] /\ UNCHANGED <<divider, last, popped>>
            BY <2>2 DEF Push, consumerVars
        <3>3. Queue' = Queue
            BY <3>1, <3>2, QueueKept
        <3> QED BY <3>2, <3>3 DEF Items!fifoVars
    <2>3. ASSUME NEW p \in Producers, Link(p) \/ Check(p) \/ FreeNode(p) \/ Post(p)
          PROVE  UNCHANGED Items!fifoVars
        <3>1. UNCHANGED <<ptr, divider, last, popped>>
            BY <2>3 DEF Link, Check, FreeNode, Post, nodeVars, consumerVars
        <3> QED BY <3>1, QueueKept DEF Items!fifoVars
    <2>4. ASSUME Wait \/ Read \/ \E c \in {"pop", "peek"} : Poll(c)
          PROVE  UNCHANGED Items!fifoVars
        <3>1. UNCHANGED <<ptr, divider, last, popped>>
            BY <2>4 DEF Wait, Read, Poll, nodeVars, producerVars
        <3> QED BY <3>1, QueueKept DEF Items!fifoVars
    <2>5. CASE Test
        BY <2>5, TestRefines DEF Items!FifoNext
    <2>6. CASE Advance
        BY <2>6, AdvanceRefines DEF Items!FifoNext
    <2>7. CASE UNCHANGED queueVars
        <3>1. UNCHANGED <<ptr, divider, last, popped>>
            BY <2>7 DEF queueVars, nodeVars, producerVars, consumerVars
        <3> QED BY <3>1, QueueKept DEF Items!fifoVars
    <2> QED BY <2>1, <2>2, <2>3, <2>4, <2>5, <2>6, <2>7 DEF QueueNext, PushStep, PopStep, Finished
<1> QED BY <1>1, <1>2, QueueInvariance, PTL DEF QueueSpec, FifoSpec, Items!FifoSpec
=============================================================================
