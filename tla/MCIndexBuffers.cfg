SPECIFICATION Spec
CONSTANTS
    Buffers = {0, 1, 2}
    Transients = {0}
    Dynamics = {d1, d2}
    PageSize = 48
    Sizes = {16, 36}
    Flags <- MCFlags
    GrowDrawn = FALSE
    MaxCalls = 3
INVARIANTS
    TypeOK
    BlocksExact
    OneOwner
    RendererSafe
SYMMETRY Symmetry
