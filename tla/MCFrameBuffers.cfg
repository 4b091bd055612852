SPECIFICATION Spec
CONSTANTS
    t1 = t1
    t2 = t2
    f1 = f1
    f2 = f2
    Textures = {t1, t2}
    FrameBuffers = {f1, f2}
    MaxAttachments = 2
    Kinds = {"image", "target"}
    AdoptShared = FALSE
    MaxCalls = 2
INVARIANTS
    TypeOK
    RefCountExact
    RendererSafe
    RendererAgrees
SYMMETRY Symmetric
