------------------------------ MODULE Bindings ------------------------------
(***************************************************************************)
(* Binding layouts, binding sets and descriptor tables as an application   *)
(* describes them, and what the validation layer lets through.             *)
(*                                                                         *)
(* A regular layout declares items, arrays of one type at a slot:          *)
(*   [bindless |-> FALSE, items, visibility, space, spaceIsSet]            *)
(* A bindless layout declares the spaces through which one table of        *)
(* descriptors is seen, each as resources of one type:                     *)
(*   [bindless |-> TRUE, spaces, visibility, mutable, capacity]            *)
(* A binding set binds [type, slot, element, resource] items.              *)
(***************************************************************************)
EXTENDS Naturals, Sequences, FiniteSets, SequencesExt

CONSTANTS
    Null,               \* no resource, and what an empty descriptor shows
    Supports,           \* Supports[r]: the types as which resource r can be bound
    MaxVolatile,        \* c_MaxVolatileConstantBuffersPerLayout
    MaxPushConstants    \* c_MaxPushConstantSize

SrvTypes == {"Texture_SRV", "TypedBuffer_SRV", "StructuredBuffer_SRV", "RawBuffer_SRV", "RayTracingAccelStruct"}
UavTypes == {"Texture_UAV", "TypedBuffer_UAV", "StructuredBuffer_UAV", "RawBuffer_UAV", "SamplerFeedbackTexture_UAV"}
CbTypes  == {"ConstantBuffer", "VolatileConstantBuffer", "PushConstants"}
TextureTypes == {"Texture_SRV", "Texture_UAV"}
TypedTypes   == {"TypedBuffer_SRV", "TypedBuffer_UAV"}

(* The registers of a type: t, u, b and s of HLSL. *)
Class(type) ==
    CASE type \in SrvTypes -> "SRV"
      [] type \in UavTypes -> "UAV"
      [] type \in CbTypes  -> "CB"
      [] type = "Sampler"  -> "Sampler"
      [] OTHER -> "Invalid"

Indices(s) == 1..Len(s)
ArraySize(item) == IF item.type = "PushConstants" THEN 1 ELSE item.size

(* What a layout declares: an element of one of its items. *)
Declared(layout) ==
    {<<i, e>> \in Indices(layout.items) \X (0..7) : e < ArraySize(layout.items[i])}

---------------------------------------------------------------------------
(* The summaries the validation layer compares.  A location is of a class,
   so neither the type within the class nor the registers an array covers
   are told apart. *)

Space(layout, api) == IF api = "D3D11" THEN 0 ELSE layout.space

Location(type, space, slot, element) == [class |-> Class(type), space |-> space, slot |-> slot, element |-> element]

LayoutLocation(layout, api, d) ==
    Location(layout.items[d[1]].type, Space(layout, api), layout.items[d[1]].slot, d[2])
LayoutLocations(layout, api) == {LayoutLocation(layout, api, d) : d \in Declared(layout)}

SetLocation(layout, api, b) == Location(b.type, Space(layout, api), b.slot, b.element)
SetLocations(layout, api, bindings) == {SetLocation(layout, api, bindings[n]) : n \in Indices(bindings)}

LayoutDuplicates(layout, api) == Cardinality(LayoutLocations(layout, api)) < Cardinality(Declared(layout))
SetDuplicates(layout, api, bindings) == Cardinality(SetLocations(layout, api, bindings)) < Len(bindings)

---------------------------------------------------------------------------
(* Layouts.                                                                 *)

ItemsOf(layout, type) == {i \in Indices(layout.items) : layout.items[i].type = type}

ValidItemSize(item) ==
    CASE item.type = "PushConstants" -> item.size > 0 /\ item.size <= MaxPushConstants /\ item.size % 4 = 0
      [] item.type = "VolatileConstantBuffer" -> item.size = 1
      [] OTHER -> item.size > 0

ValidBindingLayout(layout, api) ==
    /\ layout.visibility # {}
    /\ ~LayoutDuplicates(layout, api)
    /\ Cardinality(ItemsOf(layout, "VolatileConstantBuffer")) <= MaxVolatile
    /\ Cardinality(ItemsOf(layout, "PushConstants")) <= 1
    /\ \A i \in Indices(layout.items) :
           layout.items[i].type # "None" /\ ValidItemSize(layout.items[i])
    /\ layout.space # 0 /\ api = "VULKAN" => layout.spaceIsSet

ValidBindlessLayout(layout) ==
    /\ layout.visibility # {}
    /\ layout.spaces = <<>> <=> layout.mutable
    /\ layout.capacity > 0
    /\ \A j \in Indices(layout.spaces) :
           layout.spaces[j].type \in (SrvTypes \cup UavTypes \cup {"ConstantBuffer"}) \ {"SamplerFeedbackTexture_UAV"}

ValidLayout(layout, api) ==
    IF layout.bindless THEN ValidBindlessLayout(layout) ELSE ValidBindingLayout(layout, api)

---------------------------------------------------------------------------
(* Binding sets and tables.                                                 *)

(* A resource as what it can be bound.  Null textures, samplers and
   acceleration structures are refused, buffers only off Vulkan. *)
ValidResource(b, api) ==
    CASE b.type = "SamplerFeedbackTexture_UAV" -> TRUE
      [] b.type = "PushConstants" -> b.resource = Null
      [] b.type \in {"Sampler", "RayTracingAccelStruct"} -> b.resource # Null
      [] b.type \in TextureTypes -> b.resource # Null /\ b.type \in Supports[b.resource]
      [] OTHER -> IF b.resource = Null THEN b.type \in TypedTypes \/ api = "VULKAN"
                                       ELSE b.type \in Supports[b.resource]

ValidBindingSetItem(b, api) == Class(b.type) # "Invalid" /\ ValidResource(b, api)

ValidTableItem(b, layout, api) ==
    /\ layout.mutable => b.type \notin {"Sampler", "SamplerFeedbackTexture_UAV", "VolatileConstantBuffer",
                                        "PushConstants", "RayTracingAccelStruct"}
    /\ b.type = "None" \/ (b.type # "PushConstants" /\ ValidBindingSetItem(b, api))

(* createBindingSet: exactly what the layout declares is bound, once. *)
ValidBindingSet(layout, api, bindings) ==
    /\ ~layout.bindless
    /\ LayoutLocations(layout, api) = SetLocations(layout, api, bindings)
    /\ ~SetDuplicates(layout, api, bindings)
    /\ \A n \in Indices(bindings) : ValidBindingSetItem(bindings[n], api)

---------------------------------------------------------------------------
(* Pipelines: layouts used together, by shaders of some stages.             *)

Regular(layouts) == {i \in Indices(layouts) : ~layouts[i].bindless}

StageLocations(layout, api, stage) ==
    IF layout.bindless \/ stage \notin layout.visibility THEN {} ELSE LayoutLocations(layout, api)

SharedLocations(layouts, api, stage) ==
    \E i, j \in Regular(layouts) :
        i # j /\ StageLocations(layouts[i], api, stage) \cap StageLocations(layouts[j], api, stage) # {}

(* The range of slots of one class that a layout uses in a stage, from the
   slots of its items: the elements of an array do not widen it. *)
SlotsUsed(layout, api, stage, class) ==
    {l.slot : l \in {x \in StageLocations(layout, api, stage) : x.class = class}}
RangesMeet(s, t) == s \cap t # {}     \* a mutant
RangesOverlap(s, t) ==
    /\ s # {} /\ t # {}
    /\ \E a \in s : \E b \in t : a >= b
    /\ \E a \in s : \E b \in t : a <= b

OverlappingLayouts(layouts, api, stage) ==
    \E i, j \in Regular(layouts) : \E class \in {"SRV", "UAV", "CB", "Sampler"} :
        i # j /\ RangesOverlap(SlotsUsed(layouts[i], api, stage, class), SlotsUsed(layouts[j], api, stage, class))

SpacesConsistent(layouts, maxSpaces) ==
    /\ \A i, j \in Regular(layouts) : layouts[i].spaceIsSet = layouts[j].spaceIsSet
    /\ \A i \in Regular(layouts) : layouts[i].spaceIsSet =>
           /\ layouts[i].space < maxSpaces
           /\ \A j \in Regular(layouts) : layouts[i].space = layouts[j].space => i = j

(* validatePipelineBindingLayouts *)
ValidPipelineLayouts(layouts, api, stages, maxLayouts) ==
    /\ \A stage \in stages :
           /\ ~SharedLocations(layouts, api, stage)
           /\ api = "D3D11" => ~OverlappingLayouts(layouts, api, stage)
    /\ SpacesConsistent(layouts, maxLayouts)
    /\ Cardinality({i \in Regular(layouts) : ItemsOf(layouts[i], "PushConstants") # {}}) <= 1
=============================================================================
