SPECIFICATION FairSpec
CONSTANTS
    Modes = {"internal", "external", "single"}
    MaxFrames = 7
    FlipToggles = TRUE
    EarlyClose = FALSE
INVARIANTS
    TypeOK
    NoFrameRace
    TwoFrameRule
    ContextOutlivesUse
    CommandOrder
PROPERTIES
    PipelineSpec
    Termination
