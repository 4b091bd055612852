SPECIFICATION AllocSpec
CONSTANTS
    MaxHandles = 4
    Garbage <- MCGarbage
INVARIANTS
    IsValidExact
PROPERTIES
    HandleSetSpec
