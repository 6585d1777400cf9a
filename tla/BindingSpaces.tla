---------------------------- MODULE BindingSpaces ----------------------------
(***************************************************************************)
(* One application that creates layouts, a pipeline of them and a binding  *)
(* set or table for each, and sets a state with these, through the         *)
(* validation layer and on any API.                                        *)
(*                                                                         *)
(* The promise is that what is bound is found: a shader that reads the     *)
(* register of an item reads the resource the binding set gives for it,    *)
(* however the API arranges registers.  Avoided names what the validation  *)
(* layer lets through although it breaks the promise.                      *)
(***************************************************************************)
EXTENDS D3D12Bindings, VulkanBindings, D3D11Bindings

CONSTANTS
    Apis,
    Layouts,        \* the layouts an application may ask for
    StageSets,      \* the stages pipelines may have
    AllStages,
    Bindable,        \* Bindable[type]: what may be bound where the type is declared
    TableItems,     \* what may be written to a table
    Avoided,
    MaxLayouts      \* bound: layouts of a pipeline; c_MaxBindingLayouts

VARIABLES
    api,        \* the API of the device, chosen once
    layouts,    \* the layouts created, in the order of the pipeline
    stages,     \* the stages of the pipeline; {} before it is created
    given,      \* what the application bound: the items of each set, or slot -> item of each table
    native,     \* what the device made of it
    device,     \* what is bound to the device once the state is set; <<>> before
    pushed      \* push constants were set after the state

vars == <<api, layouts, stages, given, native, device, pushed>>

Pushed == "constants"

Init ==
    /\ api \in Apis
    /\ layouts = <<>> /\ stages = {} /\ given = <<>> /\ native = <<>> /\ device = <<>>
    /\ pushed = FALSE

---------------------------------------------------------------------------
(* What can be avoided.                                                     *)

Avoids(name, bad) == name \in Avoided => ~bad

Registers(layout, d) ==
    [class |-> Class(layout.items[d[1]].type), space |-> Space(layout, api), register |-> layout.items[d[1]].slot + d[2]]

(* An array reaches the register of another item. *)
ArraysOverlap(ls) ==
    \E i, j \in Regular(ls) : \E c \in Declared(ls[i]), d \in Declared(ls[j]) :
        /\ Registers(ls[i], c) = Registers(ls[j], d)
        /\ LayoutLocation(ls[i], api, c) # LayoutLocation(ls[j], api, d)
(* Vulkan: a slot is so high that it reaches the offset of another class. *)
SlotsTooHigh(ls) ==
    \E i \in Regular(ls) : \E m, n \in Indices(LayoutBindings(ls[i])) :
        m # n /\ LayoutBindings(ls[i])[m].binding = LayoutBindings(ls[i])[n].binding
(* D3D12: items of one register are told apart only by stages one of which is
   not in the pipeline, or that D3D12 cannot name together. *)
VisibilityShared(ls) ==
    \E i, j \in Regular(ls) : \E c \in Declared(ls[i]), d \in Declared(ls[j]) :
        /\ i # j /\ Registers(ls[i], c) = Registers(ls[j], d)
        /\ ShaderVisibility(ls[i], AllStages) \cap ShaderVisibility(ls[j], AllStages) # {}
Unsupported(ls) ==
    \E i \in Regular(ls) : ItemsOf(ls[i], "SamplerFeedbackTexture_UAV") # {} /\ api # "D3D12"

TypeOf(layout, b) ==
    LET at == {d \in Declared(layout) : LayoutLocation(layout, api, d) = SetLocation(layout, api, b)}
    IN  {layout.items[d[1]].type : d \in at}
(* A type of the class declared, but another one. *)
OtherType(layout, bindings) ==
    \E n \in Indices(bindings) : LET b == bindings[n] IN TypeOf(layout, b) # {b.type} /\
        (api = "VULKAN" \/ {b.type, "ConstantBuffer"} \subseteq {"ConstantBuffer", "VolatileConstantBuffer"})
(* Vulkan: volatile buffers in another order than that of their slots, or
   one left out. *)
VolatilesUnsorted(bindings) ==
    LET v == SelectSeq(bindings, LAMBDA b : b.type = "VolatileConstantBuffer") IN
    api = "VULKAN" /\ \E m, n \in Indices(v) : m < n /\ v[m].slot > v[n].slot
VolatileNull(bindings) ==
    api = "VULKAN" /\ \E n \in Indices(bindings) :
        bindings[n].type = "VolatileConstantBuffer" /\ bindings[n].resource = Null

---------------------------------------------------------------------------
(* The calls.                                                               *)

CreateLayout(layout) ==
    /\ stages = {} /\ Len(layouts) < MaxLayouts
    /\ api = "D3D11" => ~layout.bindless
    /\ ValidLayout(layout, api)
    /\ layouts' = Append(layouts, layout)
    /\ Avoids("OverlappingArrays", ArraysOverlap(layouts'))
    /\ Avoids("HighSlots", api = "VULKAN" /\ SlotsTooHigh(layouts'))
    /\ Avoids("SamplerFeedback", Unsupported(layouts'))
    /\ UNCHANGED <<api, stages, given, native, device, pushed>>

CreatePipeline(s) ==
    /\ stages = {} /\ layouts # <<>>
    /\ ValidPipelineLayouts(layouts, api, s, MaxLayouts)
    /\ Avoids("SharedVisibility", api = "D3D12" /\ VisibilityShared(layouts))
    /\ stages' = s
    /\ UNCHANGED <<api, layouts, given, native, device, pushed>>

(* The sets an application may ask for: every element bound, in the order of
   the layout or backwards, or one too few, too many or twice. *)
Elements(layout) == SetToSortSeq(Declared(layout), LAMBDA c, d : c[1] < d[1] \/ (c[1] = d[1] /\ c[2] < d[2]))
ItemsAt(layout, d) ==
    {[type |-> c.type, slot |-> layout.items[d[1]].slot, element |-> d[2], resource |-> c.resource] :
        c \in Bindable[layout.items[d[1]].type]}
WholeSets(layout) ==
    LET e == Elements(layout) IN
    {b \in [Indices(e) -> UNION {ItemsAt(layout, d) : d \in Declared(layout)}] :
        \A n \in Indices(e) : b[n] \in ItemsAt(layout, e[n])}
SetsAskedFor(layout) ==
    WholeSets(layout) \cup {Reverse(b) : b \in WholeSets(layout)}
        \cup UNION {{Tail(b), Append(b, b[1]), Append(Tail(b), [b[1] EXCEPT !.slot = @ + 1])} : b \in WholeSets(layout)}

NativeSet(layout, bindings) ==
    CASE api = "D3D12"  -> D3D12BindingSet(layout, bindings)
      [] api = "VULKAN" -> VulkanBindingSet(layout, bindings)
      [] api = "D3D11"  -> D3D11BindingSet(bindings, Pushed)

CreateBindingSet(bindings) ==
    LET layout == layouts[Len(given) + 1] IN
    /\ ValidBindingSet(layout, api, bindings)
    /\ Avoids("OtherType", OtherType(layout, bindings))
    /\ Avoids("UnsortedVolatiles", VolatilesUnsorted(bindings))
    /\ Avoids("NullVolatile", VolatileNull(bindings))
    /\ given' = Append(given, bindings)
    /\ native' = Append(native, NativeSet(layout, bindings))
    /\ UNCHANGED <<api, layouts, stages, device, pushed>>

(* A table, sized to its capacity; D3D12 keeps no descriptors per space. *)
CreateDescriptorTable ==
    LET layout == layouts[Len(given) + 1] IN
    /\ layout.bindless
    /\ given' = Append(given, [n \in 0..(layout.capacity - 1) |-> [type |-> "None", slot |-> n, resource |-> Null]])
    /\ native' = Append(native, IF api = "VULKAN"
            THEN [descriptors |-> EmptyDescriptors(layout), volatiles |-> <<>>]
            ELSE [n \in 0..(layout.capacity - 1) |-> Null])
    /\ UNCHANGED <<api, layouts, stages, device, pushed>>

WriteDescriptorTable(i, b) ==
    /\ layouts[i].bindless /\ device = <<>>
    /\ b.slot < layouts[i].capacity
    /\ ValidTableItem(b, layouts[i], api)
    /\ Avoids("ErasedTableSlots", api = "VULKAN" /\ b.type = "None")
    /\ given' = [given EXCEPT ![i][b.slot] = b]
    /\ native' = [native EXCEPT ![i] =
            IF api = "VULKAN" THEN VulkanWriteTable(layouts[i], @, b) ELSE D3D12WriteTable(@, b)]
    /\ UNCHANGED <<api, layouts, stages, device, pushed>>

SetState ==
    /\ device = <<>> /\ Len(given) = Len(layouts)
    /\ device' = CASE api = "D3D12"  -> D3D12RootArguments(layouts, native)
                   [] api = "VULKAN" -> BindBindingSets(layouts, native)
                   [] api = "D3D11"  -> D3D11BindSets(layouts, native, stages, AllStages)
    /\ UNCHANGED <<api, layouts, stages, given, native, pushed>>

SetPushConstants ==
    /\ device # <<>> /\ ~pushed
    /\ \E i \in Regular(layouts) : ItemsOf(layouts[i], "PushConstants") # {}
    /\ pushed' = TRUE
    /\ device' = IF api = "D3D12" THEN SetRootConstants(layouts, device, Pushed) ELSE device
    /\ UNCHANGED <<api, layouts, stages, given, native>>

Next ==
    \/ \E layout \in Layouts : CreateLayout(layout)
    \/ \E s \in StageSets : CreatePipeline(s)
    \/ /\ stages # {} /\ Len(given) < Len(layouts) /\ ~layouts[Len(given) + 1].bindless
       /\ \E bindings \in SetsAskedFor(layouts[Len(given) + 1]) : CreateBindingSet(bindings)
    \/ stages # {} /\ Len(given) < Len(layouts) /\ CreateDescriptorTable
    \/ \E i \in Indices(given) : \E b \in TableItems : WriteDescriptorTable(i, b)
    \/ stages # {} /\ SetState
    \/ SetPushConstants

Spec == Init /\ [][Next]_vars

---------------------------------------------------------------------------
(* Properties.                                                              *)

Ready == device # <<>>
SeenBy(stage) == {i \in Regular(layouts) : stage \in layouts[i].visibility}

(* What the application bound to an element it declared. *)
Bound(i, d) ==
    LET at == {n \in Indices(given[i]) :
                 SetLocation(layouts[i], api, given[i][n]) = LayoutLocation(layouts[i], api, d)}
        b == given[i][CHOOSE n \in at : TRUE]
    IN  IF b.type = "PushConstants" THEN Pushed ELSE b.resource
Item(i, d) == layouts[i].items[d[1]]
Expected(i, d) == Item(i, d).type = "PushConstants" => pushed

\* D3D12: a register declared in a pipeline belongs to one place of one root
\* parameter, whatever stages share it, so that the root signature can be
\* built; and what is bound at that place is what the set or the table gives
\* for the register.
D3D12ShowsBindings ==
    api = "D3D12" /\ stages # {} =>
        /\ \A stage \in AllStages : \A i \in Regular(layouts) : \A d \in Declared(layouts[i]) :
              LET r == Registers(layouts[i], d)
                  places == PlacesOf(layouts, AllStages, stage, r.class, r.space, r.register)
              IN  /\ Cardinality(places) <= 1
                  /\ Ready /\ stage \in stages /\ i \in SeenBy(stage) /\ Expected(i, d) =>
                        \E p \in places : device[p[1]][p[2]] = Bound(i, d)
        /\ Ready => \A i \in Indices(layouts) \ Regular(layouts) : \A j \in Indices(layouts[i].spaces) :
              \A n \in DOMAIN given[i] : \A stage \in stages \cap layouts[i].visibility :
                  LET s == layouts[i].spaces[j] IN
                  \E p \in PlacesOf(layouts, AllStages, stage, Class(s.type), s.slot, n) :
                      device[p[1]][p[2]] = given[i][n].resource

(* Where a shader compiled for Vulkan looks for a layout's resources. *)
DescriptorSetIndex(i) == IF layouts[i].spaceIsSet THEN layouts[i].space ELSE i - 1
TableSetIndex(i) ==
    LET at == DescriptorSetLayouts(layouts) IN (CHOOSE n \in Indices(at) : at[n] = i) - 1

\* Vulkan: a shader that looks for a register in the descriptor set of its
\* layout's index or space, at the binding shifted by the offset of its class,
\* finds the resource bound there and, where it is a volatile constant buffer,
\* the version of that buffer and not of another; a table shows through each
\* space what was last written with the type of the space.
VulkanShowsBindings ==
    api = "VULKAN" /\ Ready =>
        /\ \A stage \in stages : \A i \in SeenBy(stage) : \A d \in Declared(layouts[i]) :
              IF Item(i, d).type = "PushConstants" THEN stage \in PushConstantsVisibility(layouts)
              ELSE LET set == DescriptorSetIndex(i)
                       place == <<RegisterOffset(Item(i, d).type) + Item(i, d).slot, d[2]>>
                   IN  /\ set \in DOMAIN device
                       /\ place \in DOMAIN device[set]
                       /\ device[set][place] = [buffer |-> Bound(i, d), offsetOf |-> Bound(i, d)]
        /\ \A i \in Indices(layouts) \ Regular(layouts) : \A j \in Indices(layouts[i].spaces) :
              \A n \in DOMAIN given[i] :
                  given[i][n].type \in {layouts[i].spaces[j].type, "None"} =>
                      device[TableSetIndex(i)][<<j - 1, n>>].buffer = given[i][n].resource

\* D3D11: in each stage that sees a layout, the slot of every element holds
\* the view its set gives, although each set is bound as one range of slots
\* and a later one overwrites what its range covers.
D3D11ShowsBindings ==
    api = "D3D11" /\ Ready =>
        \A stage \in stages : \A i \in SeenBy(stage) : \A d \in Declared(layouts[i]) :
            LET class == Class(Item(i, d).type) IN
            class # "UAV" \/ stage = "CS" =>
                device[stage][class][Item(i, d).slot + d[2]] = Bound(i, d)
=============================================================================
