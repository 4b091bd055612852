-------------------------- MODULE NonLocalAllocator --------------------------
(***************************************************************************)
(* NonLocalAllocator (src/bgfx/src/bgfx_p.h): first fit over the blocks of  *)
(* several buffers that live elsewhere.  m_ptr of the code is the handle of *)
(* a buffer in the upper and an offset in the lower 32 bits; here they are  *)
(* two fields of a block.  The operators take an allocator and return what  *)
(* becomes of it: free is the list m_free, used the table m_used.           *)
(***************************************************************************)
EXTENDS Integers, SequencesExt, FiniteSetsExt

MinSize == 16   \* what alloc rounds a smaller size up to

Block == [buffer : Nat, offset : Nat, size : Nat]

NoBlocks == [free |-> <<>>, used |-> {}]

End(b) == b.offset + b.size

Add(a, b) == [a EXCEPT !.free = Append(@, b)]

Rounded(size) == IF size < MinSize THEN MinSize ELSE size

Fits(a, size) == {i \in DOMAIN a.free : a.free[i].size >= Rounded(size)}

\* The first block large enough is cut; the rest keeps its place in the list.
\* Only where Fits is not empty, otherwise alloc returns kInvalidBlock.
Alloc(a, size) ==
    LET i     == CHOOSE j \in Fits(a, size) : \A k \in Fits(a, size) : j <= k
        taken == [a.free[i] EXCEPT !.size = Rounded(size)]
        rest  == [a.free[i] EXCEPT !.offset = @ + taken.size, !.size = @ - taken.size]
    IN  [block |-> taken,
         left  |-> [used |-> a.used \union {taken},
                    free |-> IF rest.size = 0 THEN RemoveAt(a.free, i)
                                              ELSE ReplaceAt(a.free, i, rest)]]

At(a, buffer, offset) == {b \in a.used : b.buffer = buffer /\ b.offset = offset}

\* Nothing happens if there is no such block.
Free(a, buffer, offset) ==
    [used |-> a.used \ At(a, buffer, offset),
     free |-> SetToSeq(At(a, buffer, offset)) \o a.free]

\* Free::operator<, which compares m_ptr.
Before(b, c) ==
    \/ b.buffer < c.buffer
    \/ b.buffer = c.buffer /\ b.offset < c.offset

\* Bug: the two blocks are merged although there is a gap between them.
JoinGap(done, b) ==
    IF done # <<>> /\ Last(done).buffer = b.buffer
       THEN Append(Front(done), [Last(done) EXCEPT !.size = End(b) - Last(done).offset])
       ELSE Append(done, b)

Join(done, b) ==
    IF done # <<>> /\ Last(done).buffer = b.buffer /\ End(Last(done)) = b.offset
       THEN Append(Front(done), [Last(done) EXCEPT !.size = @ + b.size])
       ELSE Append(done, b)

\* m_free.sort()
Sorted(blocks) ==
    CHOOSE q \in [1 .. Cardinality(blocks) -> blocks] :
        \A i, j \in DOMAIN q : i < j => Before(q[i], q[j])

Compact(a) == [a EXCEPT !.free = FoldLeft(Join, <<>>, Sorted(ToSet(a.free)))]

\* What the loop around remove() takes out of the list: it stops at m_ptr 0, which
\* remove also returns for an empty list.
Removed(a) ==
    LET isNull(b) == b.buffer = 0 /\ b.offset = 0
        n == SelectInSeq(a.free, isNull)
    IN  IF n = 0 THEN a.free ELSE SubSeq(a.free, 1, n - 1)

RemovedAll(a) == [a EXCEPT !.free = SubSeq(@, Len(Removed(a)) + 2, Len(@))]
=============================================================================
