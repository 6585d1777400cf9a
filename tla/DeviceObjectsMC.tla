---------------------------- MODULE DeviceObjectsMC ----------------------------
(* Four parts of a device that share no state are explored by one run, each from
   its own initial states: acceleration structures, shader tables, the memory of
   resources, and staging textures.  Variables of the others stay Unused. *)
EXTENDS AccelStructs, Integers

CONSTANTS
    Unused, Parts, StagingAvoided,
    b1, b2, t1,             \* acceleration structures
    cached, uncached,       \* shader tables
    tex, buf, as, h1, h2    \* resources and heaps

VARIABLES
    part,
    desc,                                                               \* Memory, StagingTextures
    table, cacheState, memory, generation,                              \* ShaderTables
    native, heapOf, tiles, objects, inFlight,                           \* Memory
    buffer, staged, texture, copied, mapped, outside                    \* StagingTextures

---------------------------------------------------------------------------
D(level, update, compaction) == [level |-> level, update |-> update, compaction |-> compaction]
G(type, indexed, count) == [type |-> type, indexed |-> indexed, count |-> count]
Triangles == G("triangles", TRUE, 1)
W(used, releases, operations, geometries, instances) ==
    [objects |-> used, releases |-> releases, operations |-> operations, geometries |-> geometries,
     instances |-> instances]
MCWorlds == {
    W({b1, b2, t1, "geometry"}, {b1}, {"buildBottom", "buildTop"}, {<<Triangles>>}, {{b1}, {b2}}),
    W({b1, t1, "geometry", "instances"}, {b1, "instances"}, {"buildBottom", "buildTop"}, {<<Triangles>>}, {{b1}}),
    W({b1, t1, "geometry", "instances"}, {}, {"buildBottom", "buildTop"}, {<<Triangles>>}, {{}, {b1}}),
    W({b1, t1, "geometry"}, {}, {"buildBottom", "buildTop", "failed"}, {<<Triangles>>}, {{}, {b1}}),
    W({t1, "instances"}, {}, {"buildTop", "failed"}, {}, {{}}),
    W({b1, "geometry", "micromap", "ommInput"}, {"micromap", "ommInput", b1, "geometry"},
      {"buildBottom", "buildMicromap", "failed"}, {<<Triangles>>}, {}),
    W({b1, "geometry"}, {b1}, {"buildBottom", "failed"},
      {<<Triangles>>, <<Triangles, G("aabbs", FALSE, 1)>>, <<G("triangles", FALSE, 2)>>}, {}),
    W({b1, b2, "geometry"}, {b1}, {"buildBottom", "copy"}, {<<Triangles>>}, {}),
    W({"clusters", "addresses"}, {"clusters", "addresses"}, {"clusters", "failed"}, {}, {})}
MCDesc == b1 :> D("bottom", TRUE, FALSE) @@ b2 :> D("bottom", FALSE, TRUE) @@ t1 :> D("top", TRUE, FALSE)

---------------------------------------------------------------------------
E(kind, layout) == [kind |-> kind, layout |-> layout]
Tables == INSTANCE ShaderTables WITH
    Capacity <- cached :> 2 @@ uncached :> Unused, Uncached <- Unused,
    Exports <- "RayGen" :> E("rayGen", None) @@ "LocalRayGen" :> E("rayGen", "layout") @@ "Miss" :> E("miss", None),
    BindingSets <- "set" :> "layout",
    MaxTables <- 1, MaxVersion <- 2, MaxGeneration <- 2, MaxCommands <- 2,
    Avoided <- {"SetsConcurrently", "DropsBake", "ReleasesBindings", "NoRayGen"}

---------------------------------------------------------------------------
Shape(dim, w, h, z, a, m, s, uav) ==
    [dimension |-> dim, width |-> w, height |-> h, depth |-> z, arraySize |-> a, mipLevels |-> m, sampleCount |-> s, isUAV |-> uav]
Plain == [isVirtual |-> FALSE, isTiled |-> FALSE, isVolatile |-> FALSE, native |-> FALSE, size |-> 2, alignment |-> 2,
          memoryTypes |-> {"gpu"}, keepInitialState |-> FALSE, initialState |-> "Unknown"]
T == [kind |-> "texture"] @@ Shape("Texture2D", 4, 2, 1, 1, 3, 1, TRUE) @@ Plain
B == [kind |-> "buffer", isConstantBuffer |-> TRUE, maxVersions |-> 1, otherUsage |-> FALSE, cpuAccess |-> "None"] @@ Plain
A == [kind |-> "accelStruct"] @@ Plain
Virtual(d) == [d EXCEPT !.isVirtual = TRUE]
Native(d) == [d EXCEPT !.native = TRUE]
Shapes == {Shape(dim, w, h, z, a, m, s, uav) :
    dim \in {"Texture1D", "Texture1DArray", "Texture2D", "Texture2DArray", "TextureCube", "TextureCubeArray",
             "Texture2DMS", "Texture2DMSArray", "Texture3D"},
    w \in {1, 2}, h \in {1, 2}, z \in {1, 2}, a \in {1, 6, 8}, m \in {1, 2}, s \in {1, 2}, uav \in BOOLEAN}
MemoryWorlds == {
    [heaps |-> {h1, h2}, descs |-> tex :> {Virtual(T)} @@ buf :> {[Virtual(B) EXCEPT !.memoryTypes = {"gpu", "cpu"}, !.alignment = 1]}],
    [heaps |-> {h1}, descs |-> tex :> {T, [T EXCEPT !.isTiled = TRUE]} @@ as :> {A, Virtual(A)}],
    [heaps |-> {}, descs |-> buf :> {B, [B EXCEPT !.isVolatile = TRUE]}],
    [heaps |-> {}, descs |-> tex :> {Native(T)} @@ buf :> {Native(B)}],
    [heaps |-> {}, descs |-> tex :> {s @@ T : s \in Shapes}]}
Mem == INSTANCE Memory WITH
    Worlds <- MemoryWorlds,
    Heaps <- h1 :> [capacity |-> 4, type |-> "gpu"] @@ h2 :> [capacity |-> 3, type |-> "cpu"],
    Offsets <- {0, 1, 2, 6}, OffsetSize <- 8, WordSize <- 8,
    Avoided <- {"UsesUnbound", "OffsetWraps", "OtherMemoryType", "AllocationFails", "DestroysNative", "ReleasesTiles",
        "TooManyMips", "MultisampledMips", "FlatCubes", "LongArrays"}

---------------------------------------------------------------------------
S(dim, w, h, z, mips, array, block, bytes) ==
    [dimension |-> dim, width |-> w, height |-> h, depth |-> z, mipLevels |-> mips, arraySize |-> array,
     blockSize |-> block, bytesPerBlock |-> bytes]
StagingDescs == {
    S("Texture2DArray", 1, 1, 1, 1, 3, 1, 1), S("Texture2DArray", 1, 1, 1, 1, 5, 1, 1), S("Texture2DArray", 2, 1, 1, 2, 2, 1, 4),
    S("Texture2D", 8, 8, 1, 2, 1, 4, 8), S("Texture2D", 6, 8, 1, 1, 1, 4, 8), S("Texture3D", 2, 1, 2, 2, 1, 1, 4)}
Slice(x, y, z, w, h, d) == [x |-> x, y |-> y, z |-> z, width |-> w, height |-> h, depth |-> d]
All == -1
Staging == INSTANCE StagingTextures WITH
    Descs <- StagingDescs,
    Slices <- {Slice(0, 0, 0, All, All, All), Slice(0, 0, 0, All, All, 1), Slice(0, 1, 0, All, 1, 1),
        Slice(0, 4, 0, 4, 4, 1), Slice(1, 0, 0, 1, 1, 1), Slice(0, 0, 1, All, All, 1)},
    PitchAlignment <- 8, PlacementAlignment <- 16, OffsetSize <- 64,
    Avoided <- StagingAvoided

---------------------------------------------------------------------------

sharedVars == <<api, world, held, list, queue, desc>>
accelVars == <<wrapper, bottomLevelASes, contents, unordered>>
tableVars == <<table, cacheState, memory, generation>>
memoryVars == <<native, heapOf, tiles, objects, inFlight>>
stagingVars == <<buffer, staged, texture, copied, mapped, outside>>
partVars == <<part, sharedVars, accelVars, tableVars, memoryVars, stagingVars>>

MCInit ==
    /\ part \in Parts
    /\ \/ /\ part = "structures" /\ Init
          /\ desc = Unused
          /\ table = Unused /\ cacheState = Unused /\ memory = Unused /\ generation = Unused
          /\ native = Unused /\ heapOf = Unused /\ tiles = Unused /\ objects = Unused /\ inFlight = Unused
          /\ buffer = Unused /\ staged = Unused /\ texture = Unused /\ copied = Unused /\ mapped = Unused /\ outside = Unused
       \/ /\ part = "tables" /\ Tables!Init
          /\ world = Unused /\ desc = Unused
          /\ wrapper = Unused /\ bottomLevelASes = Unused /\ contents = Unused /\ unordered = Unused
          /\ native = Unused /\ heapOf = Unused /\ tiles = Unused /\ objects = Unused /\ inFlight = Unused
          /\ buffer = Unused /\ staged = Unused /\ texture = Unused /\ copied = Unused /\ mapped = Unused /\ outside = Unused
       \/ /\ part = "memory" /\ Mem!Init
          /\ list = Unused /\ queue = Unused
          /\ wrapper = Unused /\ bottomLevelASes = Unused /\ contents = Unused /\ unordered = Unused
          /\ table = Unused /\ cacheState = Unused /\ memory = Unused /\ generation = Unused
          /\ buffer = Unused /\ staged = Unused /\ texture = Unused /\ copied = Unused /\ mapped = Unused /\ outside = Unused
       \/ /\ part = "staging" /\ Staging!Init
          /\ world = Unused /\ held = Unused /\ list = Unused /\ queue = Unused
          /\ wrapper = Unused /\ bottomLevelASes = Unused /\ contents = Unused /\ unordered = Unused
          /\ table = Unused /\ cacheState = Unused /\ memory = Unused /\ generation = Unused
          /\ native = Unused /\ heapOf = Unused /\ tiles = Unused /\ objects = Unused /\ inFlight = Unused
MCNext ==
    \/ part = "structures" /\ Next /\ UNCHANGED <<part, desc, tableVars, memoryVars, stagingVars>>
    \/ part = "tables" /\ Tables!Next /\ UNCHANGED <<part, world, desc, accelVars, memoryVars, stagingVars>>
    \/ part = "memory" /\ Mem!Next /\ UNCHANGED <<part, list, queue, accelVars, tableVars, stagingVars>>
    \/ part = "staging" /\ Staging!Next /\ UNCHANGED <<part, world, held, list, queue, accelVars, tableVars, memoryVars>>
MCSpec == MCInit /\ [][MCNext]_partVars

\* StructuresAliveWhenUsed of AccelStructs: what builds, copies and rays use is alive.
UsedStructuresAlive == part = "structures" => StructuresAliveWhenUsed

\* BuildsOrdered of AccelStructs: barriers order the builds, copies and rays
\* that touch one object.
StructureAccessesOrdered == part = "structures" => BuildsOrdered

\* UpdatesMatchBuild of AccelStructs: an update fits the build it updates.
UpdatesFitBuilds == part = "structures" => UpdatesMatchBuild

\* Rays find the shader table their list set (ShaderTables).
TablesAsSet == part = "tables" => Tables!TablesAsSet

\* Resources in flight have objects in memory that holds them (Memory).
ResourcesBacked == part = "memory" => Mem!ResourcesBacked

\* A staging texture is a texture to the CPU and to the GPU (StagingTextures).
SlicesKeepData == part = "staging" => Staging!SlicesKeepData

\* The size a staging texture's buffer is created with holds its slices
\* (StagingTextures).
SizeHoldsSlices == part = "staging" => Staging!SizeHoldsSlices

Symmetry == Permutations(Lists)
=============================================================================
