SPECIFICATION Spec
CONSTANTS
    w1 = w1
    w2 = w2
    Workers = {w1, w2}
    Api = Api
    MaxEncoders = 3
    MaxDrawCalls = 2
    MaxBlitItems = 0
    Kinds = {"draw"}
    Blitters = {}
    BeginAnytime = TRUE
    MaxFrames = 1
    MaxCalls = 1
INVARIANTS
    InternalEncoderIsZero
