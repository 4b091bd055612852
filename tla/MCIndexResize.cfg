SPECIFICATION Spec
CONSTANTS
    Buffers = {0, 1, 2}
    Transients = {0}
    Dynamics = {d1, d2, d3}
    PageSize = 16
    Sizes = {16, 18, 34}
    Flags <- MCFlagsOdd
    GrowDrawn = FALSE
    MaxCalls = 2
INVARIANT NotTruncated
SYMMETRY Symmetry
