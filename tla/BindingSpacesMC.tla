--------------------------- MODULE BindingSpacesMC ---------------------------
(* Two scenarios.  In the first, layouts meet in registers, spaces, arrays and
   stages (BindingSpaces); Vulkan's offsets are scaled down with the slots.  In
   the second, two threads share a descriptor heap of D3D12 (DescriptorHeap). *)
EXTENDS DescriptorHeap, TLC

CONSTANTS
    s1, s2,
    Null, Supports, MaxVolatile, MaxPushConstants, BindingOffsets, ApiSlots,    \* BindingSpaces
    Apis, Layouts, StageSets, AllStages, Bindable, TableItems, SpacesAvoided, MaxLayouts

VARIABLES
    scenario,
    api, layouts, stages, given, native, device, pushed     \* BindingSpaces

Spaces == INSTANCE BindingSpaces WITH Avoided <- SpacesAvoided

ASSUME MCHeapAssumption == HeapAssumption

spacesVars == <<api, layouts, stages, given, native, device, pushed>>

MCInit ==
    /\ scenario \in {"spaces", "heap"}
    /\ Spaces!Init /\ (scenario = "heap" => api = "D3D12")
    /\ Init
MCNext ==
    \/ scenario = "spaces" /\ Spaces!Next /\ UNCHANGED <<scenario, vars>>
    \/ scenario = "heap" /\ Next /\ UNCHANGED <<scenario, spacesVars>>
MCSpec == MCInit /\ [][MCNext]_<<scenario, vars, spacesVars>>

\* What is bound is found by D3D12 shaders (BindingSpaces).
D3D12ShowsBindings == scenario = "spaces" => Spaces!D3D12ShowsBindings

\* What is bound is found by Vulkan shaders (BindingSpaces).
VulkanShowsBindings == scenario = "spaces" => Spaces!VulkanShowsBindings

\* What is bound is found by D3D11 shaders (BindingSpaces).
D3D11ShowsBindings == scenario = "spaces" => Spaces!D3D11ShowsBindings

MCContents == s1 :> <<"r1">> @@ s2 :> <<"r2", "r1">>
Symmetry == Permutations(Threads)

I(type, slot, n) == [type |-> type, slot |-> slot, size |-> n]
L(items, visibility, space, isSet) ==
    [bindless |-> FALSE, items |-> items, visibility |-> visibility, space |-> space, spaceIsSet |-> isSet]
B(spaces) ==
    [bindless |-> TRUE, spaces |-> spaces, visibility |-> {"VS", "PS"}, mutable |-> spaces = <<>>, capacity |-> 2]

All == {"VS", "PS"}
MCLayouts == {
    L(<<I("Texture_SRV", 0, 1), I("TypedBuffer_SRV", 1, 1), I("Sampler", 0, 1), I("ConstantBuffer", 0, 1)>>, All, 0, FALSE),
    L(<<I("VolatileConstantBuffer", 1, 1), I("PushConstants", 3, 8), I("VolatileConstantBuffer", 2, 1)>>, All, 0, FALSE),
    L(<<I("Texture_SRV", 2, 2), I("TypedBuffer_SRV", 4, 1)>>, {"PS"}, 0, FALSE),
    L(<<I("Texture_SRV", 0, 1), I("Texture_SRV", 5, 1)>>, {"PS"}, 0, FALSE),
    L(<<I("Texture_SRV", 0, 2), I("TypedBuffer_SRV", 1, 1)>>, All, 0, FALSE),
    L(<<I("VolatileConstantBuffer", 0, 1), I("Texture_SRV", 0, 1), I("Texture_UAV", 1, 1)>>, All, 1, TRUE),
    L(<<I("Sampler", 5, 1), I("PushConstants", 0, 4), I("ConstantBuffer", 1, 1)>>, {"PS"}, 3, TRUE),
    L(<<I("SamplerFeedbackTexture_UAV", 0, 1), I("Texture_UAV", 1, 1)>>, {"CS"}, 0, FALSE),
    L(<<I("Texture_UAV", 0, 1), I("Texture_UAV", 1, 1)>>, {"CS"}, 0, FALSE),
    L(<<I("Texture_SRV", 6, 1), I("Sampler", 0, 1)>>, {"CS"}, 0, FALSE),
    L(<<I("ConstantBuffer", 1, 1), I("PushConstants", 0, 4)>>, {"CS"}, 0, FALSE),
    B(<<I("Texture_SRV", 2, 1), I("TypedBuffer_SRV", 4, 1)>>),
    B(<<>>)}

C(type, resources) == {[type |-> type, resource |-> r] : r \in resources}
MCBindable == [
    Texture_SRV |-> C("Texture_SRV", {"tex1", "tex2"}),
    TypedBuffer_SRV |-> C("TypedBuffer_SRV", {"buf"}) \cup C("Texture_SRV", {"tex1"}),
    Texture_UAV |-> C("Texture_UAV", {"tex1", "tex2"}),
    SamplerFeedbackTexture_UAV |-> C("SamplerFeedbackTexture_UAV", {"fb"}),
    ConstantBuffer |-> C("ConstantBuffer", {"cb"}) \cup C("VolatileConstantBuffer", {"vcb1"}),
    VolatileConstantBuffer |-> C("VolatileConstantBuffer", {"vcb1", "vcb2", Null}),
    PushConstants |-> C("PushConstants", {Null}),
    Sampler |-> C("Sampler", {"smp"})]
MCSupports == [
    tex1 |-> {"Texture_SRV", "Texture_UAV"}, tex2 |-> {"Texture_SRV", "Texture_UAV"},
    buf |-> {"TypedBuffer_SRV"}, cb |-> {"ConstantBuffer"},
    vcb1 |-> {"VolatileConstantBuffer"}, vcb2 |-> {"VolatileConstantBuffer"}]
MCTableItems ==
    {[type |-> "Texture_SRV", slot |-> n, resource |-> "tex1"] : n \in 0..2}
    \cup {[type |-> "TypedBuffer_SRV", slot |-> 1, resource |-> "buf"], [type |-> "None", slot |-> 0, resource |-> Null],
          [type |-> "VolatileConstantBuffer", slot |-> 0, resource |-> "vcb1"]}
MCOffsets == [SRV |-> 0, Sampler |-> 6, CB |-> 12, UAV |-> 18]
=============================================================================
