CONSTANTS
    l1 = l1
    l2 = l2
    t1 = t1
    t2 = t2
    t3 = t3
    b1 = b1
    b2 = b2
    b3 = b3
    b4 = b4
    CommandLists = {l1, l2}
    Textures = {t1, t2, t3}
    Buffers = {b1, b2, b3, b4}
    Subresources = {0, 1}
    StateBits <- MCStateBits
    Common = "Common"
    UnorderedAccess = "UAV"
    Usages <- MCUsages
    InitialState <- MCInitialState
    KeepInitialState = {t1, t2, b1, b4}
    UntrackedBuffers = {b3}
    InitializedTextures = {t1}
    Applications <- MCResourceApps

SPECIFICATION Spec
SYMMETRY MCSymmetry
INVARIANTS
    TypeOK
    BarriersFollowTracker
    CommittedUnlessOpen
    AccessesCovered
    UavOrdered
    KeptTexturesInInitialState
    KeptBuffersInInitialState
    PermanentInState
PROPERTIES
    EntersAsExpected
