--------------------------- MODULE TransientBuffers ---------------------------
(***************************************************************************)
(* The transient buffers of a Frame (src/bgfx/src/bgfx_p.h, struct Frame):  *)
(* one buffer that is handed out from its start to its end and is empty     *)
(* again with the next frame.  Vertices and instance data share one, the    *)
(* indices have another; the four functions of Frame differ by that only.   *)
(* Offsets are uint32_t.                                                    *)
(***************************************************************************)
EXTENDS Integers

CONSTANT Word   \* 2^32

ASSUME WordAssumption == Word \in Nat \ {0}

AlignUp(n, k) == ((n + k - 1) \div k) * k

First(offset, stride) == AlignUp(offset, stride) % Word

\* getAvailTransientVertexBuffer: how many of num elements there is room for.  The
\* difference is without sign, also when the first one would be past the end.
Available(offset, num, stride, size) ==
    LET first == First(offset, stride)
        end   == (first + num * stride) % Word
    IN  (((IF end < size THEN end ELSE size) - first) % Word) \div stride

\* allocTransientVertexBuffer: the bytes handed out, and the offset it leaves.
Taken(offset, num, stride, size) ==
    LET first == First(offset, stride)
        end   == first + Available(offset, num, stride, size) * stride
    IN  [range |-> [first |-> first, end |-> end], offset |-> end % Word]
=============================================================================
