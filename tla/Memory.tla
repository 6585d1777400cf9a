-------------------------------- MODULE Memory --------------------------------
(***************************************************************************)
(* Memory of textures, buffers and acceleration structures: committed with *)
(* the resource, bound from a heap later (isVirtual), mapped tile by tile  *)
(* (isTiled), or the application's own (native handles).                   *)
(*                                                                         *)
(* Owners count references: the application's handles, command lists in    *)
(* flight, and the heap of each bound resource.  What the backends create  *)
(* and destroy in their API is the code's; requirements are the device's.  *)
(***************************************************************************)
EXTENDS TextureShapes, Sequences, FiniteSets, TLC

CONSTANTS
    Heaps,          \* heap -> [capacity, type]
    Worlds,         \* what the application works with: [heaps, descs], the latter a resource
                    \* -> descriptions it may be created with
    Offsets,        \* offsets of bindings
    OffsetSize,     \* bound: offsets wrap around at this, 2^64 in the code
    None,
    Avoided         \* what applications avoid

VARIABLES
    api,
    world,
    held,           \* heaps and resources the application has handles of
    native,         \* resources whose API object the application owns
    desc,           \* resource -> its description, None before it is created
    heapOf,         \* bound resource -> [heap, offset]
    tiles,          \* tiled texture -> heap its tiles are mapped to
    objects,        \* objects of the API: <<"memory", heap or resource>>, <<"object", resource>>, ...
    inFlight        \* resources command lists of the GPU reference

vars == <<api, world, held, native, desc, heapOf, tiles, objects, inFlight>>

(* Avoided: use of a virtual resource before it is bound (UsesUnbound), offsets
   that wrap around (OffsetWraps), heaps of another memory type than the
   resource supports (OtherMemoryType), out of memory on Vulkan
   (AllocationFails), destroying an object of one's own that Vulkan uses
   (DestroysNative), releasing the heap of tiles (ReleasesTiles), accepted
   shapes no API has (see Flaws). *)
Avoids(name, bad) == name \in Avoided => ~bad

Resources == UNION {DOMAIN w.descs : w \in Worlds}
Nothing == [r \in Resources |-> None]

Init ==
    /\ api \in {"VULKAN", "D3D12"}
    /\ world \in Worlds
    /\ held = {}
    /\ native = {r \in DOMAIN world.descs : \E d \in world.descs[r] : d.native}
    /\ desc = Nothing /\ heapOf = Nothing /\ tiles = Nothing
    /\ objects = {<<"object", r>> : r \in native}
    /\ inFlight = {}

---------------------------------------------------------------------------
(* Lifetime.                                                                *)

BoundHeapsNone(resources) == {}                                     \* a mutant
BoundHeaps(resources) == {heapOf[r].heap : r \in {x \in resources : heapOf[x] # None}}
AliveWith(handles, used) == handles \cup used \cup BoundHeaps((handles \cup used) \cap Resources)
Alive == AliveWith(held, inFlight)

(* ~Texture, ~Buffer, ~AccelStruct, ~Heap.  On Vulkan a resource made from a
   native object leaves it alone; on D3D12 the object counts references.  What
   a failed creation left behind is nobody's. *)
Kept(o, alive) == o[1] = "leaked" \/ o[2] \in alive \/ (o[1] = "object" /\ o[2] \in native)

Drop(handles, used) ==
    LET alive == AliveWith(handles, used) IN
    /\ held' = handles /\ inFlight' = used
    /\ objects' = {o \in objects : Kept(o, alive)}
    /\ heapOf' = [r \in Resources |-> IF r \in alive THEN heapOf[r] ELSE None]
    /\ Avoids("ReleasesTiles", \E r \in alive \cap Resources : tiles[r] # None /\ tiles[r] \notin alive)
    /\ UNCHANGED <<api, world, native, desc, tiles>>

Release(x) ==
    /\ x \in held
    /\ Drop(held \ {x}, inFlight)

Finish(r) == r \in inFlight /\ Drop(held, inFlight \ {r})

(* The application lets go of its own object. *)
DestroyNative(r) ==
    /\ r \in native
    /\ Avoids("DestroysNative", api = "VULKAN" /\ r \in Alive)
    /\ native' = native \ {r}
    /\ objects' = IF api = "D3D12" /\ r \in Alive THEN objects ELSE objects \ {<<"object", r>>}
    /\ UNCHANGED <<api, world, held, desc, heapOf, tiles, inFlight>>

---------------------------------------------------------------------------
(* Creation.                                                                *)

CreateHeap(h) ==
    /\ h \notin Alive /\ <<"memory", h>> \notin objects
    /\ Heaps[h].capacity # 0
    /\ held' = held \cup {h}
    /\ objects' = objects \cup {<<"memory", h>>}
    /\ UNCHANGED <<api, world, native, desc, heapOf, tiles, inFlight>>

(* DeviceWrapper::createBuffer *)
ValidBuffer(d) ==
    /\ d.isVolatile => d.isConstantBuffer /\ d.maxVersions > 0 /\ ~d.otherUsage /\ ~d.isVirtual /\ d.cpuAccess = "None"
    /\ d.keepInitialState => d.initialState # "Unknown"
Valid(d) == CASE d.kind = "texture" -> ValidTexture(d)
              [] d.kind = "buffer" -> ValidBuffer(d)
              [] d.kind = "accelStruct" -> TRUE

(* What creation allocates.  D3D12 creates virtual resources when they are
   bound, and none for volatile buffers; a committed resource is object and
   memory.  The buffer of an acceleration structure is created like any other. *)
HasObject(d) == api = "VULKAN" \/ ~(d.isVirtual \/ d.isVolatile)
HasMemory(d) == ~d.isVirtual /\ ~d.isTiled /\ (api = "VULKAN" \/ ~d.isVolatile)
Allocated(r, d) ==
    (IF HasObject(d) THEN {<<"object", r>>} ELSE {})
    \cup (IF HasMemory(d) THEN {<<"memory", r>>} ELSE {})
    \cup (IF d.kind = "accelStruct" /\ api = "VULKAN" THEN {<<"structure", r>>} ELSE {})

Create(r, d) ==
    /\ desc[r] = None /\ ~d.native /\ Valid(d)
    /\ \A flaw \in (IF d.kind = "texture" THEN Flaws(d) ELSE {}) : Avoids(flaw, TRUE)
    /\ desc' = [desc EXCEPT ![r] = d]
    /\ held' = held \cup {r}
    /\ objects' = objects \cup Allocated(r, d)
    /\ UNCHANGED <<api, world, native, heapOf, tiles, inFlight>>

(* The memory cannot be allocated: CHECK_VK_FAIL returns without deleting the
   texture or buffer, whose object exists; D3D12 releases it. *)
FailCreate(r, d) ==
    /\ desc[r] = None /\ ~d.native /\ Valid(d) /\ d.kind # "accelStruct"
    /\ HasMemory(d)
    /\ Avoids("AllocationFails", api = "VULKAN")
    /\ desc' = [desc EXCEPT ![r] = d]
    /\ objects' = objects \cup (IF api = "VULKAN" THEN {<<"leaked", r>>} ELSE {})
    /\ UNCHANGED <<api, world, held, native, heapOf, tiles, inFlight>>

CreateHandleForNative(r, d) ==
    /\ desc[r] = None /\ d.native /\ r \in native
    /\ desc' = [desc EXCEPT ![r] = d]
    /\ held' = held \cup {r}
    /\ UNCHANGED <<api, world, native, heapOf, tiles, objects, inFlight>>

---------------------------------------------------------------------------
(* Binding and use.                                                         *)

(* bindTextureMemory, bindBufferMemory and bindAccelStructMemory of the
   validation layer; the sum is a 64-bit one. *)
Fits(d, h, offset) == (offset + d.size) % OffsetSize <= Heaps[h].capacity
ValidBinding(d, h, offset) ==
    /\ d.isVirtual
    /\ Fits(d, h, offset)
    /\ d.alignment # 0 => offset % d.alignment = 0
Bound(r) == IF api = "VULKAN" THEN heapOf[r] # None ELSE <<"object", r>> \in objects

(* D3D12 creates the placed resource now; what it refuses stays unbound. *)
Bind(r, h, offset) ==
    /\ {r, h} \subseteq held /\ ~Bound(r)
    /\ ValidBinding(desc[r], h, offset)
    /\ Avoids("OffsetWraps", offset + desc[r].size >= OffsetSize)
    /\ Avoids("OtherMemoryType", Heaps[h].type \notin desc[r].memoryTypes)
    /\ heapOf' = [heapOf EXCEPT ![r] = [heap |-> h, offset |-> offset]]
    /\ objects' = objects \cup {<<"object", r>>}
    /\ UNCHANGED <<api, world, held, native, desc, tiles, inFlight>>

(* updateTextureTileMappings; no heap unmaps.  The heap is not referenced. *)
UpdateTileMappings(r, h) ==
    /\ r \in held /\ h \in held \cup {None} /\ desc[r].isTiled
    /\ r \notin inFlight
    /\ tiles' = [tiles EXCEPT ![r] = h]
    /\ UNCHANGED <<api, world, held, native, desc, heapOf, objects, inFlight>>

Use(r) ==
    /\ r \in held
    /\ Avoids("UsesUnbound", desc[r].isVirtual /\ heapOf[r] = None)
    /\ inFlight' = inFlight \cup {r}
    /\ UNCHANGED <<api, world, held, native, desc, heapOf, tiles, objects>>

Next ==
    \/ \E h \in world.heaps : CreateHeap(h)
    \/ \E r \in DOMAIN world.descs : \E d \in world.descs[r] : Create(r, d) \/ FailCreate(r, d) \/ CreateHandleForNative(r, d)
    \/ \E r \in held \cap Resources :
         \/ \E h \in world.heaps, offset \in Offsets : Bind(r, h, offset)
         \/ \E h \in world.heaps \cup {None} : UpdateTileMappings(r, h)
         \/ Use(r)
    \/ \E r \in native : DestroyNative(r)
    \/ \E r \in inFlight : Finish(r)
    \/ \E x \in held : Release(x)

Spec == Init /\ [][Next]_vars

---------------------------------------------------------------------------
(* Properties.                                                              *)

Backed(r) ==
    LET d == desc[r] IN
    CASE d.native -> TRUE
      [] d.isVirtual ->
            /\ heapOf[r] # None
            /\ <<"memory", heapOf[r].heap>> \in objects
            /\ heapOf[r].offset + d.size <= Heaps[heapOf[r].heap].capacity
            /\ Heaps[heapOf[r].heap].type \in d.memoryTypes
      [] d.isTiled -> tiles[r] # None => <<"memory", tiles[r]>> \in objects
      [] OTHER -> HasMemory(d) => <<"memory", r>> \in objects

\* What the GPU uses is there: each resource in flight has its object, in
\* memory that is still allocated, of a type and size that hold it; nothing is
\* allocated that nobody could free; and textures have shapes their API takes.
ResourcesBacked ==
    /\ \A r \in inFlight :
         /\ HasObject(desc[r]) \/ desc[r].isVirtual => <<"object", r>> \in objects
         /\ Backed(r)
    /\ \A o \in objects : o[1] # "leaked"
    /\ \A r \in Resources : r \in Alive /\ desc[r].kind = "texture" => Accepted(api, desc[r])
=============================================================================
