CONSTANTS
    Null = Null
    Supports <- MCSupports
    MaxVolatile = 2
    MaxPushConstants = 8
    BindingOffsets <- MCOffsets
    ApiSlots = {0, 1, 2, 3, 4, 5, 6}
    Apis = {"D3D12", "VULKAN", "D3D11"}
    Layouts <- MCLayouts
    StageSets = {{"VS"}, {"VS", "PS"}, {"CS"}}
    AllStages = {"VS", "PS", "CS"}
    Bindable <- MCBindable
    TableItems <- MCTableItems
    SpacesAvoided = {"OverlappingArrays", "HighSlots", "SharedVisibility", "SamplerFeedback", "OtherType", "UnsortedVolatiles", "NullVolatile", "ErasedTableSlots"}
    MaxLayouts = 2
    Threads = {t1, t2}
    s1 = s1
    s2 = s2
    Sets = {s1, s2}
    Tables = {table}
    Lists = {l1}
    Contents <- MCContents
    Resources = {"r2"}
    Unwritten = Null
    InitialSize = 1
    MaxSize = 4
    MaxCapacity = 2
    Avoided = {"GrowWhileFilling", "TableInUse", "WriteAfterGrow"}
SYMMETRY Symmetry
SPECIFICATION MCSpec
CHECK_DEADLOCK FALSE
INVARIANTS
    D3D12ShowsBindings
    VulkanShowsBindings
    D3D11ShowsBindings
    LiveRangesDisjoint
    ListsSeeDescriptors
