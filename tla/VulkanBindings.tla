---------------------------- MODULE VulkanBindings ----------------------------
(***************************************************************************)
(* Bindings on Vulkan.  A layout becomes a descriptor set layout whose     *)
(* bindings are the slots shifted by an offset per class of registers; a   *)
(* binding set is one descriptor set, at the index of its layout in the    *)
(* pipeline or, where register spaces are descriptor sets, at the index    *)
(* that is its space.  Volatile constant buffers are dynamic: their        *)
(* offsets are given when the sets are bound.                              *)
(***************************************************************************)
EXTENDS Bindings

CONSTANT BindingOffsets     \* per class: VulkanBindingOffsets

Hole == 0

(* getRegisterOffsetForResourceType knows no sampler feedback. *)
RegisterOffset(type) == IF type = "SamplerFeedbackTexture_UAV" THEN 0 ELSE BindingOffsets[Class(type)]

DescriptorType(type) ==
    CASE type = "Texture_SRV" -> "SampledImage"
      [] type = "Texture_UAV" -> "StorageImage"
      [] type = "TypedBuffer_SRV" -> "UniformTexelBuffer"
      [] type = "TypedBuffer_UAV" -> "StorageTexelBuffer"
      [] type \in {"StructuredBuffer_SRV", "RawBuffer_SRV", "StructuredBuffer_UAV", "RawBuffer_UAV"} -> "StorageBuffer"
      [] type = "ConstantBuffer" -> "UniformBuffer"
      [] type = "VolatileConstantBuffer" -> "UniformBufferDynamic"
      [] type = "Sampler" -> "Sampler"
      [] type = "RayTracingAccelStruct" -> "AccelerationStructure"
      [] OTHER -> "Unknown"

(* The bindings of a descriptor set layout, in the order of the items; one
   per space for a bindless layout, and a single mutable one without. *)
WithDescriptors(layout) == SelectSeq(layout.items, LAMBDA item : item.type # "PushConstants")
LayoutBindings(layout) ==
    IF ~layout.bindless
    THEN [n \in Indices(WithDescriptors(layout)) |->
            LET item == WithDescriptors(layout)[n] IN
            [binding |-> RegisterOffset(item.type) + item.slot, count |-> item.size, type |-> DescriptorType(item.type)]]
    ELSE IF layout.mutable THEN <<[binding |-> 0, count |-> layout.capacity, type |-> "Mutable"]>>
    ELSE [j \in Indices(layout.spaces) |->
            [binding |-> j - 1, count |-> layout.capacity, type |-> DescriptorType(layout.spaces[j].type)]]

EmptyDescriptors(layout) ==
    [d \in UNION {{<<b.binding, e>> : e \in 0..(b.count - 1)} : b \in ToSet(LayoutBindings(layout))} |-> Null]

---------------------------------------------------------------------------
(* createBindingSet: null resources are left out, everything else is written
   as an update of its own; the last one counts. *)
Written(bindings) == SelectSeq(bindings, LAMBDA b : b.resource # Null)

WriteDescriptor(descriptors, b) ==
    [d \in DOMAIN descriptors |->
        IF d = <<RegisterOffset(b.type) + b.slot, b.element>> THEN b.resource ELSE descriptors[d]]

VolatileBuffers(bindings) ==
    LET volatiles == SelectSeq(Written(bindings), LAMBDA b : b.type = "VolatileConstantBuffer")
    IN  [n \in Indices(volatiles) |-> volatiles[n].resource]

VulkanBindingSet(layout, bindings) ==
    [descriptors |-> FoldLeft(WriteDescriptor, EmptyDescriptors(layout), Written(bindings)),
     volatiles   |-> VolatileBuffers(bindings)]

(* writeDescriptorTable: into the binding of every space of exactly this type;
   nothing at all for None. *)
TableBindings(layout, type) ==
    IF layout.mutable THEN {0} ELSE {j - 1 : j \in {x \in Indices(layout.spaces) : layout.spaces[x].type = type}}
VulkanWriteTable(layout, table, b) ==
    IF b.type = "None" THEN table
    ELSE [table EXCEPT !.descriptors = [d \in DOMAIN @ |->
            IF d[1] \in TableBindings(layout, b.type) /\ d[2] = b.slot THEN b.resource ELSE @[d]]]

---------------------------------------------------------------------------
(* createPipelineLayout: the layout at each descriptor set index, or a hole. *)

SpacesAreSets(layouts) ==
    /\ Regular(layouts) # {}
    /\ layouts[CHOOSE i \in Regular(layouts) : \A j \in Regular(layouts) : i <= j].spaceIsSet

RegularSets(layouts) == {layouts[i].space : i \in Regular(layouts)}
HighestSet(layouts) == CHOOSE n \in RegularSets(layouts) : \A m \in RegularSets(layouts) : m <= n

LayoutAtSpace(layouts, n) ==
    LET here == {i \in Regular(layouts) : layouts[i].space = n}
    IN  IF here = {} THEN Hole ELSE CHOOSE i \in here : TRUE

(* A mutant: the sets follow each other in the order of the spaces. *)
DescriptorSetLayoutsPacked(layouts) ==
    LET all == [i \in Indices(layouts) |-> i] IN
    IF SpacesAreSets(layouts)
    THEN SelectSeq([n \in 1..(HighestSet(layouts) + 1) |-> LayoutAtSpace(layouts, n - 1)], LAMBDA i : i # Hole)
         \o SelectSeq(all, LAMBDA i : layouts[i].bindless)
    ELSE all

DescriptorSetLayouts(layouts) ==
    LET all == [i \in Indices(layouts) |-> i] IN
    IF SpacesAreSets(layouts)
    THEN [n \in 1..(HighestSet(layouts) + 1) |-> LayoutAtSpace(layouts, n - 1)]
         \o SelectSeq(all, LAMBDA i : layouts[i].bindless)
    ELSE all

(* The push constants of the last layout that has some. *)
PushConstantsVisibility(layouts) ==
    LET with == {i \in Regular(layouts) : ItemsOf(layouts[i], "PushConstants") # {}} IN
    IF with = {} THEN {} ELSE layouts[CHOOSE i \in with : \A j \in with : j <= i].visibility

(* bindBindingSets: every set at its index; the dynamic offset of the n-th
   volatile buffer of a set, in the order of the set's items, becomes that of
   the n-th dynamic descriptor, in the order of the bindings. *)
DynamicBindings(layout) ==
    LET dynamic == {b.binding : b \in {x \in ToSet(LayoutBindings(layout)) : x.type = "UniformBufferDynamic"}}
    IN  SetToSortSeq(dynamic, LAMBDA a, b : a < b)

BoundDescriptors(layout, set) ==
    LET dynamic == DynamicBindings(layout) IN
    [d \in DOMAIN set.descriptors |->
        IF \E n \in Indices(dynamic) : dynamic[n] = d[1]
        THEN LET n == CHOOSE n \in Indices(dynamic) : dynamic[n] = d[1]
             IN  [buffer |-> set.descriptors[d],
                  offsetOf |-> IF n <= Len(set.volatiles) THEN set.volatiles[n] ELSE Null]
        ELSE [buffer |-> set.descriptors[d], offsetOf |-> set.descriptors[d]]]

BindBindingSets(layouts, sets) ==
    LET at == DescriptorSetLayouts(layouts) IN
    [n \in 0..(Len(at) - 1) |->
        IF at[n + 1] = Hole THEN << >> ELSE BoundDescriptors(layouts[at[n + 1]], sets[at[n + 1]])]
=============================================================================
