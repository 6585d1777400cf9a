CONSTANTS
    None = None
    Unused = Unused
    Parts = {"structures", "tables", "memory", "staging"}
    Lists = {l1, l2}
    Worlds <- MCWorlds
    Desc <- MCDesc
    MaxPending = 2
    MaxQueue = 1
    Avoided = {"WritesTwice", "RebuildsMicromap", "BuildFails", "BuildsConcurrently", "DropsBuild", "Nonindexed", "RebuildsTlas", "CopiesOverBuild", "TracesWritten", "ReleasesInstance", "ReleasesCopied", "ReleasesInputs", "ReleasesClusters", "RebuildsTraced", "UpdatesFromBuffer", "RebuildsFromBuffer"}
    b1 = b1
    b2 = b2
    t1 = t1
    cached = cached
    uncached = uncached
    tex = tex
    buf = buf
    as = as
    h1 = h1
    h2 = h2
    StagingAvoided = {"UnalignedSlices", "CopiesWithinRow", "PartialBlocks", "LargeOffsets"}
SYMMETRY Symmetry
SPECIFICATION MCSpec
CHECK_DEADLOCK FALSE
INVARIANTS
    UsedStructuresAlive
    StructureAccessesOrdered
    UpdatesFitBuilds
    TablesAsSet
    ResourcesBacked
    SlicesKeepData
