CONSTANTS
    None = None
    GraphicsPipelines = {"p1", "p2"}
    MeshletPipelines = {"m1"}
    ComputePipelines = {"c1"}
    ShaderTables = {"x1"}
    Framebuffers = {f1, f2}
    BindingVectors <- MCVectors
    Values = {v1, v2}
    Resources = {"r", "u", "i", "t"}
    Buffers = {"u", "i"}
    Reads <- MCReads
    Writes <- MCWrites
    VolatileSets <- MCVolatile
    TargetTexture = "t"
    IndirectBuffer = "i"
    UsesBlend = {"p2"}
    UsesStencil = {"p2"}
    ScissorEnabled = {"p2"}
    RootSignature <- MCRootSignature
    InputLayout <- MCInputLayout
    Slots <- MCSlots
    Visibility <- MCVisibility
    ShaderMask <- MCShaderMask
    Backends = {"vulkan", "d3d12", "d3d11"}
    Avoided = {"RepeatsUavs", "RepeatsMoved", "RaysInPass", "PipelineAlone", "MeshletAfterRays", "RaysRebind", "RaysAfterFailure", "ClearAfterGrow"}
    MaxHeaps = 2
    MaxOverlap = 2
SYMMETRY MCSymmetry
SPECIFICATION Spec
INVARIANTS
    DrawsWithBindings
