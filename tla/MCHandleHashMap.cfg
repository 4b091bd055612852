SPECIFICATION FairSpec
CONSTANTS
    h1 = h1
    h2 = h2
    h3 = h3
    Keys = {k1, k2, k3, k4}
    Handles = {h1, h2, h3}
    kInvalidHandle = none
    Capacity = 3
INVARIANTS
    TypeOK
    FindExact
PROPERTIES
    RemovalEnds
    HandleMapSpec
