---------------------------- MODULE MCIndexBuffers ----------------------------
\* Model values and bounds for IndexBuffers.
EXTENDS IndexBuffers

MCFlags == {{"INDEX32", "ALLOW_RESIZE"}, {"COMPUTE_READ"}}
MCFlagsOdd == {{"ALLOW_RESIZE"}, {"INDEX32"}}
Symmetry == Permutations(Dynamics)
=============================================================================
