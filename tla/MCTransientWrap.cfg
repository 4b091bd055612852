SPECIFICATION Spec
CONSTANTS
    l1 = l1
    l2 = l2
    l3 = l3
    b1 = b1
    b2 = b2
    vec = vec
    col = col
    Buffers = {tvb, b1, b2}
    Transient = tvb
    Dynamics = {d1}
    Layouts = {l1, l2, l3}
    Hashes = {vec, col}
    Stride <- MCStride
    VbSize = 20
    IbSize = 8
    Nums = {1}
    Word = 4096
    NoLayout = NoLayout
    NewInVain = FALSE
    MaxHeld = 1
    MaxCalls = 2
SYMMETRY Symmetric
INVARIANT AvailableAtMostRequested
