--------------------------- MODULE CommandState ---------------------------
(***************************************************************************)
(* What every backend's command list keeps to avoid recording state it     *)
(* has recorded already: the state of the last setGraphicsState,           *)
(* setMeshletState, setComputeState or setRayTracingState, the version of  *)
(* the volatile constant buffer, and the flag that says that resources may *)
(* have left the states the bindings need.  Beside it stands what the      *)
(* command buffer recorded so far leaves bound on the GPU.                 *)
(*                                                                         *)
(* A list is one record; VulkanCommandState, D3D12CommandState and         *)
(* D3D11CommandState say what a set*State or a draw turns it into.         *)
(***************************************************************************)
EXTENDS Integers, Sequences, FiniteSets, TLC

CONSTANTS
    None,
    GraphicsPipelines, MeshletPipelines, ComputePipelines, ShaderTables,
    Framebuffers,
    BindingVectors,      \* BindingVectors[kind]: sequences of binding sets an application binds
    Values,              \* viewports, blend constants, stencil refs, buffers
    Resources,           \* textures, and Buffers among them
    Buffers,
    Reads,               \* Reads[set]: resources bound for reading
    Writes,              \* Writes[set]: resources bound as UAVs
    VolatileSets,        \* sets that hold the volatile constant buffer
    TargetTexture, IndirectBuffer,
    UsesBlend,           \* pipelines that use the blend constants
    UsesStencil,         \* pipelines with a dynamic stencil reference
    ScissorEnabled,      \* pipelines with rasterState.scissorEnable
    RootSignature,       \* RootSignature[pipeline]
    InputLayout          \* InputLayout[pipeline]: strides of the vertices

BindingSets == DOMAIN Reads
Kinds == {"graphics", "meshlet", "compute", "rays"}
Points == {"graphics", "compute", "rays"}

(* The point at which a kind of state is bound.  D3D12 and D3D11 know two. *)
VulkanPoint(k) == IF k = "meshlet" THEN "graphics" ELSE k
RootPoint(k)   == IF k \in {"graphics", "meshlet"} THEN "graphics" ELSE "compute"

---------------------------------------------------------------------------
(* States as the application passes them.                                   *)

NoState == [pipeline |-> None, framebuffer |-> None, bindings |-> <<>>, values |-> None, indirect |-> None]

GraphicsStates == [pipeline : GraphicsPipelines, framebuffer : Framebuffers, bindings : BindingVectors["graphics"],
                   values : Values, indirect : {IndirectBuffer}]
MeshletStates  == [pipeline : MeshletPipelines, framebuffer : Framebuffers, bindings : BindingVectors["meshlet"],
                   values : Values, indirect : {IndirectBuffer}]
ComputeStates  == [pipeline : ComputePipelines, framebuffer : {None}, bindings : BindingVectors["compute"],
                   values : {None}, indirect : {IndirectBuffer}]
RayTracingStates == [pipeline : ShaderTables, framebuffer : {None}, bindings : BindingVectors["rays"],
                     values : {None}, indirect : {None}]
StatesOf(k) == CASE k = "graphics" -> GraphicsStates
                 [] k = "meshlet"  -> MeshletStates
                 [] k = "compute"  -> ComputeStates
                 [] k = "rays"     -> RayTracingStates

SetsOf(b) == {b[i] : i \in DOMAIN b}
UavsOf(b) == UNION {Writes[x] : x \in SetsOf(b)}
HasVolatile(b) == SetsOf(b) \cap VolatileSets # {}

(* setResourceStatesForBindingSet; with the index or parameter buffers and
   the framebuffer, what a draw or a dispatch of state s needs. *)
SetNeeds(x) == {<<r, "srv">> : r \in Reads[x]} \cup {<<r, "uav">> : r \in Writes[x]}
IndirectNeeds(s) == IF s.indirect = None THEN {} ELSE {<<s.indirect, "indirect">>}
TargetNeeds(s) == IF s.framebuffer = None THEN {} ELSE {<<TargetTexture, "target">>}
Needs(s) ==
    (UNION {SetNeeds(x) : x \in SetsOf(s.bindings)}) \cup IndirectNeeds(s) \cup TargetNeeds(s)

(* What the application passes: at most c_MaxBindingLayouts sets, and every
   resource of a state is needed in one state. *)
ASSUME VectorsAssumption ==
    /\ Reads \in [BindingSets -> SUBSET Resources] /\ Writes \in [BindingSets -> SUBSET Resources]
    /\ \A k \in Kinds : \A b \in BindingVectors[k] : b \in Seq(BindingSets) /\ Len(b) <= 8
ASSUME NamesAssumption ==
    /\ None \notin GraphicsPipelines \cup MeshletPipelines \cup ComputePipelines \cup ShaderTables
    /\ None \notin Framebuffers \cup Values \cup Resources
    /\ {TargetTexture, IndirectBuffer} \cup Buffers \subseteq Resources
ASSUME NeedsAssumption ==
    \A k \in Kinds : \A s \in StatesOf(k) : \A m, n \in Needs(s) : m[1] = n[1] => m = n

---------------------------------------------------------------------------
(* The list.                                                                *)

(* What is bound of the volatile constant buffer: nothing, a version written
   over since, or the one written last. *)
Nothing  == 0
Outdated == 1
Latest   == 2
Outdate(bound) == [p \in Points |-> IF bound[p] = Nothing THEN Nothing ELSE Outdated]

EmptyList ==
    [ \* what the C++ object remembers
      last        |-> [k \in Kinds |-> NoState],
      valid       |-> {},
      dirty       |-> FALSE,
      anyVolatile |-> FALSE,
      version     |-> Nothing,
      addresses   |-> [p \in Points |-> Nothing],
      heap        |-> 0,
      \* what the state tracker knows, and whether it has barriers to record
      state       |-> [r \in Resources |-> "copy"],
      pending     |-> FALSE,
      uses        |-> {},     \* UAVs accessed under the state set last
      unordered   |-> {},     \* UAVs accessed under earlier states, no barrier since
      \* what the recorded commands leave bound
      pipeline    |-> [p \in Points |-> None],
      sets        |-> [p \in Points |-> <<>>],
      bound       |-> [p \in Points |-> Nothing],
      viewport    |-> None,
      scissor     |-> FALSE,
      blend       |-> None,
      stencil     |-> None,
      vertices    |-> None,
      strides     |-> None,
      target      |-> None,
      pass        |-> None ]

(* arrayDifferenceMask: ~0u, the mask of all indices, when the lengths differ. *)
AllSets == 1..32
Changed(new, old) ==
    IF Len(new) # Len(old) THEN AllSets ELSE {i \in DOMAIN new : new[i] # old[i]}

(* CommandListResourceStateTracker::requireTextureState, requireBufferState:
   StateTracking has the details.  A UAV required again gets a barrier. *)
Require(L, needs) ==
    LET moved   == {n \in needs : L.state[n[1]] # n[2]}
        ordered == {n[1] : n \in {m \in needs : m[2] = "uav"}}
    IN  [L EXCEPT !.state = [r \in Resources |-> IF \E n \in needs : n[1] = r
                                                 THEN (CHOOSE n \in needs : n[1] = r)[2]
                                                 ELSE @[r]],
                  !.pending = @ \/ moved # {} \/ ordered # {},
                  !.unordered = @ \ ({n[1] : n \in moved} \cup ordered)]

(* writeBuffer of the volatile buffer: what was bound before is outdated. *)
WriteVersion(L) ==
    [L EXCEPT !.version = Latest, !.bound = Outdate(@), !.addresses = Outdate(@)]

(* A draw or a dispatch accesses the UAVs bound for it. *)
Access(L, s) == [L EXCEPT !.uses = @ \cup UavsOf(s.bindings)]

(* The application sets a state: what was accessed before wants a barrier. *)
Superseded(L) == [L EXCEPT !.unordered = @ \cup L.uses, !.uses = {}]
=============================================================================
