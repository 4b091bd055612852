SPECIFICATION FairSpec
CONSTANTS
    w1 = w1
    w2 = w2
    Workers = {w1, w2}
    Api = Api
    MaxEncoders = 3
    MaxDrawCalls = 2
    MaxBlitItems = 1
    Kinds = {"draw", "dispatch"}
    Blitters = {Api}
    BeginAnytime = FALSE
    MaxFrames = 2
    MaxCalls = 1
INVARIANTS
    TypeOK
    EncodersSafe
    EndSemBalance
    DrawsSubmitted
PROPERTIES
    DrawListSpec
    FrameReturns
