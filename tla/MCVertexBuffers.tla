---------------------------- MODULE MCVertexBuffers ----------------------------
(* VertexBuffers with handles and layouts that may be exchanged.                *)
EXTENDS VertexBuffers
CONSTANTS l1, l2, l3, b1, b2, vec, col
\* Not the size of instance data, nor a multiple of it.
MCStride == [h \in Hashes |-> 24]
Symmetric == Permutations({l1, l2, l3}) \union Permutations({b1, b2}) \union Permutations({vec, col})
=============================================================================
