---------------------------- MODULE MCFrameBuffers ----------------------------
(* FrameBuffers with handles that may be exchanged.                            *)
EXTENDS FrameBuffers
CONSTANTS t1, t2, f1, f2
Symmetric == Permutations({t1, t2}) \union Permutations({f1, f2})
=============================================================================
