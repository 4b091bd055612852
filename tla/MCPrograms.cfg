SPECIFICATION Spec
CONSTANTS
    p1 = p1
    p2 = p2
    s0 = s0
    s1 = s1
    s2 = s2
    u1 = u1
    u2 = u2
    u3 = u3
    u4 = u4
    Shaders = {s0, s1, s2}
    FirstShader = s0
    Programs = {p1}
    Uniforms = {u1, u2, u3, u4}
    NoHandle = none
    VertexShaders = {"vs", "vs_debugfont"}
    FragmentShaders = {"fs"}
    ComputeShaders = {"cs"}
    Names = {"tint", "light"}
    DebugFont = "vs_debugfont"
    UniformsOf <- MCTwoNames
    Nums <- MCNums
    MaxRefs <- MCRefs
    MaxCalls = 2
INVARIANTS
    TypeOK
    RefCountExact
    MapsExact
    RendererSafe
    RegistryAgrees
SYMMETRY Symmetric
