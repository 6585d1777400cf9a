------------------------ MODULE CommandStatesProofs ------------------------
(***************************************************************************)
(* Theorems about CommandStates: on every backend, with any pipelines,     *)
(* bindings, values and resources, a draw or a dispatch finds what the     *)
(* state set last says, as long as the application makes none of the       *)
(* orders of calls that are named.                                         *)
(*                                                                         *)
(* One invariant says what the caches mean, in terms of the list alone:    *)
(* VulkanInv, D3D12Inv and D3D11Inv.  Each operator of a backend preserves *)
(* it, and the set*State ones establish what the next draw relies on:      *)
(* VulkanSet, D3D12Set and D3D11Set.                                       *)
(***************************************************************************)
EXTENDS CommandStates, TLAPS

(* Every order of calls that breaks the promise. *)
AllOrders == {"RepeatsUavs", "RepeatsMoved", "RaysInPass", "PipelineAlone", "MeshletAfterRays",
              "RaysRebind", "MeshletAfterCompute", "RaysAfterFailure", "ClearAfterGrow"}

-----------------------------------------------------------------------------
(* Types.                                                                   *)

Fields == {"last", "valid", "dirty", "anyVolatile", "version", "addresses", "heap", "state",
           "pending", "uses", "unordered", "pipeline", "sets", "bound", "viewport", "scissor",
           "blend", "stencil", "vertices", "strides", "target", "pass"}

Pipelines == GraphicsPipelines \cup MeshletPipelines \cup ComputePipelines \cup ShaderTables
CachedStates == [pipeline : Pipelines \cup {None}, framebuffer : Framebuffers \cup {None},
                 bindings : Seq(BindingSets), values : Values \cup {None},
                 indirect : {IndirectBuffer, None}]

\* A list as the operators expect it.
IsList(L) ==
    /\ DOMAIN L = Fields
    /\ L.last \in [Kinds -> CachedStates] /\ L.valid \in SUBSET Kinds
    /\ L.dirty \in BOOLEAN /\ L.anyVolatile \in BOOLEAN /\ L.pending \in BOOLEAN
    /\ L.version \in {Nothing, Latest}
    /\ DOMAIN L.addresses = Points /\ DOMAIN L.bound = Points
    /\ DOMAIN L.pipeline = Points /\ DOMAIN L.sets = Points
    /\ DOMAIN L.state = Resources

-----------------------------------------------------------------------------
(* What a list remembers is what is bound.                                  *)

Rasters == {"graphics", "meshlet"}

\* The values of a state, where its pipeline uses them.
ValuesSet(L, k, s) ==
    /\ L.viewport = s.values
    /\ s.pipeline \in UsesBlend => L.blend = s.values
    /\ s.pipeline \in UsesStencil => L.stencil = s.values
    /\ k = "graphics" => L.vertices = s.values

Bound(L, point, s) ==
    /\ L.pipeline[point] = s.pipeline
    /\ s.bindings # <<>> => L.sets[point] = s.bindings

\* The resources are as the state needs them, with no barrier left to record.
Ready(L, s) == \A n \in Needs(s) : L.state[n[1]] = n[2]
Prepared(L, s) ==
    /\ L.pending = FALSE /\ Ready(L, s)
    /\ UavsOf(s.bindings) \cap L.unordered = {}

\* Vulkan.
VulkanLatest(L, k) ==
    HasVolatile(L.last[k].bindings) =>
        /\ L.version = Latest
        /\ L.anyVolatile = FALSE => L.bound[VulkanPoint(k)] = Latest
VulkanRemembers(L) ==
    \A k \in Kinds : L.last[k].pipeline # None =>
        /\ k # "rays" => Bound(L, VulkanPoint(k), L.last[k])
        /\ k \in Rasters => ValuesSet(L, k, L.last[k])
        /\ k # "rays" \/ L.sets["rays"] = L.last[k].bindings => VulkanLatest(L, k)
VulkanForgets(L) ==
    /\ \A k \in Kinds : L.last[k].pipeline = None => L.last[k] = NoState
    /\ \A k, j \in Kinds : L.last[k].pipeline # None /\ L.last[j].pipeline # None => k = j
VulkanPass(L) ==
    /\ L.pass # None => \E k \in Rasters : L.last[k].framebuffer # None
    /\ \A k \in Rasters : L.last[k].framebuffer # None =>
         L.pass = L.last[k].framebuffer /\ L.state[TargetTexture] = "target"
VulkanInv(L) == VulkanRemembers(L) /\ VulkanForgets(L) /\ VulkanPass(L)

VulkanSet(L, k, s) ==
    /\ L.last[k] = s /\ L.pass = s.framebuffer
    /\ Bound(L, VulkanPoint(k), s) /\ VulkanLatest(L, k) /\ Prepared(L, s)

\* D3D12; a meshlet state stays valid by mistake when ray tracing is set up.
D3D12Knows(L, k) == k \in L.valid /\ (k = "meshlet" => "rays" \notin L.valid)
D3D12Latest(L, point, s) ==
    HasVolatile(s.bindings) =>
        /\ L.version = Latest /\ L.addresses[point] = L.bound[point]
        /\ L.bound[point] = Latest \/ (L.bound[point] = Outdated /\ L.anyVolatile = TRUE)
D3D12Remembers(L) == \A k \in Kinds : D3D12Knows(L, k) =>
    /\ Bound(L, RootPoint(k), L.last[k]) /\ D3D12Latest(L, RootPoint(k), L.last[k])
    /\ k \in Rasters =>
         /\ ValuesSet(L, k, L.last[k])
         /\ L.scissor = (L.last[k].pipeline \in ScissorEnabled)
         /\ k = "graphics" => L.strides = InputLayout[L.last[k].pipeline]
         /\ L.target = L.last[k].framebuffer
    /\ L.dirty = FALSE => Ready(L, L.last[k])
D3D12Inv(L) == D3D12Remembers(L) /\ (L.heap = 0 => L.valid = {})

D3D12Set(L, k, s) ==
    /\ L.last[k] = s /\ k \in L.valid
    /\ \A j \in L.valid : j = k \/ (k = "rays" /\ j = "meshlet")
    /\ Prepared(L, s)

\* D3D11.
Visible(k, s) == IF k = "graphics" THEN ShaderMask[s.pipeline] ELSE {"CS"}
InSlots(L, k, s) ==
    \A x \in SetsOf(s.bindings) : \A t \in Visibility[x] \cap Visible(k, s) : \A n \in Slots[x] :
        L.sets[k][t][n] = x
D3D11Remembers(L) == \A k \in L.valid :
    /\ k \in {"graphics", "compute"} /\ L.last[k] \in StatesOf(k) /\ InSlots(L, k, L.last[k])
    /\ L.pipeline[k] = L.last[k].pipeline
    /\ k = "graphics" =>
         /\ ValuesSet(L, k, L.last[k])
         /\ L.strides = InputLayout[L.last[k].pipeline] /\ L.target = L.last[k].framebuffer
AllSlots == UNION {Slots[x] : x \in DOMAIN Slots}
IsSlots(slots) == DOMAIN slots = Stages /\ \A t \in Stages : DOMAIN slots[t] = AllSlots
D3D11Inv(L) ==
    /\ D3D11Remembers(L) /\ \A p \in Points : L.bound[p] = L.version
    /\ \A p \in Points : IsSlots(L.sets[p])
D3D11Set(L, k, s) == L.last[k] = s /\ L.valid = {k}

-----------------------------------------------------------------------------
HoldsOn(b, L) ==
    /\ b = "vulkan" => VulkanInv(L)
    /\ b = "d3d12" => D3D12Inv(L)
    /\ b = "d3d11" => D3D11Inv(L)
SetOn(b, L, k, s) ==
    /\ b = "vulkan" => VulkanSet(L, k, s)
    /\ b = "d3d12" => D3D12Set(L, k, s)
    /\ b = "d3d11" => D3D11Set(L, k, s)

ListInv ==
    /\ backend \in {"vulkan", "d3d12", "d3d11"} /\ deviceHeap \in Nat \ {0}
    /\ IsList(list) /\ HoldsOn(backend, list)
RequestInv ==
    /\ drawn \in BOOLEAN /\ (drawn => request.kind # None)
    /\ request.kind # None =>
         /\ request.kind \in Kinds /\ request.state \in StatesOf(request.kind)
         /\ Supported(request.kind) /\ SetOn(backend, list, request.kind, request.state)
    /\ drawn /\ backend # "d3d11" => list.anyVolatile = FALSE
CommandStatesInv == ListInv /\ RequestInv

-----------------------------------------------------------------------------
(* Lists that differ in some fields.                                        *)

Same(R, L, changed) ==
    /\ "last" \notin changed => R.last = L.last
    /\ "valid" \notin changed => R.valid = L.valid
    /\ "dirty" \notin changed => R.dirty = L.dirty
    /\ "anyVolatile" \notin changed => R.anyVolatile = L.anyVolatile
    /\ "version" \notin changed => R.version = L.version
    /\ "addresses" \notin changed => R.addresses = L.addresses
    /\ "heap" \notin changed => R.heap = L.heap
    /\ "state" \notin changed => R.state = L.state
    /\ "pending" \notin changed => R.pending = L.pending
    /\ "uses" \notin changed => R.uses = L.uses
    /\ "unordered" \notin changed => R.unordered = L.unordered
    /\ "pipeline" \notin changed => R.pipeline = L.pipeline
    /\ "sets" \notin changed => R.sets = L.sets
    /\ "bound" \notin changed => R.bound = L.bound
    /\ "viewport" \notin changed => R.viewport = L.viewport
    /\ "scissor" \notin changed => R.scissor = L.scissor
    /\ "blend" \notin changed => R.blend = L.blend
    /\ "stencil" \notin changed => R.stencil = L.stencil
    /\ "vertices" \notin changed => R.vertices = L.vertices
    /\ "strides" \notin changed => R.strides = L.strides
    /\ "target" \notin changed => R.target = L.target
    /\ "pass" \notin changed => R.pass = L.pass

LEMMA InFramebufferFacts ==
  ASSUME NEW last \in [Kinds -> CachedStates], NEW f \in Framebuffers \cup {None},
         NEW new, new = InFramebuffer(last, f)
  PROVE  /\ new \in [Kinds -> CachedStates]
         /\ \A k \in Kinds : /\ new[k].pipeline = last[k].pipeline
                             /\ new[k].bindings = last[k].bindings
                             /\ new[k].values = last[k].values
                             /\ new[k].indirect = last[k].indirect
                             /\ new[k].framebuffer = IF k \in Rasters THEN f ELSE last[k].framebuffer
  BY DEF InFramebuffer, Kinds, CachedStates, Rasters

LEMMA EndFacts ==
  ASSUME NEW L, IsList(L), NEW R, R = EndRenderPass(L)
  PROVE  /\ IsList(R) /\ Same(R, L, {"pass", "last"})
         /\ \A k \in Kinds : /\ R.last[k].pipeline = L.last[k].pipeline
                             /\ R.last[k].bindings = L.last[k].bindings
                             /\ R.last[k].values = L.last[k].values
                             /\ R.last[k].indirect = L.last[k].indirect
                             /\ R.last[k].framebuffer = IF k \in Rasters THEN None ELSE L.last[k].framebuffer
         /\ R.pass = IF L.last["graphics"].framebuffer = None /\ L.last["meshlet"].framebuffer = None
                     THEN L.pass ELSE None
<1>1. CASE L.last["graphics"].framebuffer = None /\ L.last["meshlet"].framebuffer = None
  BY <1>1 DEF EndRenderPass, Same, Rasters
<1>2. CASE ~(L.last["graphics"].framebuffer = None /\ L.last["meshlet"].framebuffer = None)
  <2>1. PICK last : last = InFramebuffer(L.last, None)
    OBVIOUS
  <2>2. R = [L EXCEPT !.pass = None, !.last = last]
    BY <1>2, <2>1 DEF EndRenderPass
  <2>3. /\ last \in [Kinds -> CachedStates]
        /\ \A k \in Kinds : /\ last[k].pipeline = L.last[k].pipeline
                            /\ last[k].bindings = L.last[k].bindings
                            /\ last[k].values = L.last[k].values
                            /\ last[k].indirect = L.last[k].indirect
                            /\ last[k].framebuffer = IF k \in Rasters THEN None ELSE L.last[k].framebuffer
    BY <2>1, InFramebufferFacts DEF IsList
  <2>4. DOMAIN R = Fields /\ R.last = last /\ R.pass = None /\ Same(R, L, {"pass", "last"})
    BY <2>2 DEF IsList, Fields, Same
  <2>5. IsList(R)
    BY <2>3, <2>4 DEF IsList, Same
  <2> QED
    BY <1>2, <2>3, <2>4, <2>5
<1> QED
  BY <1>1, <1>2

-----------------------------------------------------------------------------
(* What a state needs, and requiring it.                                    *)

Assumptions == VectorsAssumption /\ NamesAssumption /\ NeedsAssumption

LEMMA StateFacts ==
  ASSUME Assumptions, NEW k \in Kinds, NEW s \in StatesOf(k)
  PROVE  /\ s \in CachedStates /\ s.pipeline # None /\ s.bindings \in BindingVectors[k]
         /\ s.bindings \in Seq(BindingSets) /\ Len(s.bindings) <= 8
         /\ k \in Rasters => s.framebuffer \in Framebuffers /\ s.framebuffer # None /\ s.values # None
         /\ k \notin Rasters => s.framebuffer = None
<1>1. /\ k = "graphics" => s \in GraphicsStates
      /\ k = "meshlet" => s \in MeshletStates
      /\ k = "compute" => s \in ComputeStates
      /\ k = "rays" => s \in RayTracingStates
  BY DEF StatesOf
<1>2. s.bindings \in BindingVectors[k]
  BY <1>1 DEF Kinds, GraphicsStates, MeshletStates, ComputeStates, RayTracingStates
<1>3. s.bindings \in Seq(BindingSets) /\ Len(s.bindings) <= 8
  BY <1>2 DEF Assumptions, VectorsAssumption
<1>4. CASE k = "graphics"
  BY <1>1, <1>2, <1>3, <1>4
     DEF GraphicsStates, CachedStates, Pipelines, Assumptions, NamesAssumption, Rasters
<1>5. CASE k = "meshlet"
  BY <1>1, <1>2, <1>3, <1>5
     DEF MeshletStates, CachedStates, Pipelines, Assumptions, NamesAssumption, Rasters
<1>6. CASE k = "compute"
  BY <1>1, <1>2, <1>3, <1>6
     DEF ComputeStates, CachedStates, Pipelines, Assumptions, NamesAssumption, Rasters
<1>7. CASE k = "rays"
  BY <1>1, <1>2, <1>3, <1>7
     DEF RayTracingStates, CachedStates, Pipelines, Assumptions, NamesAssumption, Rasters
<1> QED
  BY <1>4, <1>5, <1>6, <1>7 DEF Kinds

LEMMA NeedsFacts ==
  ASSUME Assumptions, NEW k \in Kinds, NEW s \in StatesOf(k)
  PROVE  /\ \A n \in Needs(s) : n[1] \in Resources
         /\ \A m, n \in Needs(s) : m[1] = n[1] => m = n
         /\ \A x \in SetsOf(s.bindings) : SetNeeds(x) \subseteq Needs(s)
         /\ IndirectNeeds(s) \subseteq Needs(s) /\ TargetNeeds(s) \subseteq Needs(s)
         /\ \A n \in Needs(s) : \/ \E x \in SetsOf(s.bindings) : n \in SetNeeds(x)
                               \/ n \in IndirectNeeds(s) \/ n \in TargetNeeds(s)
<1>1. \A x \in SetsOf(s.bindings) : x \in BindingSets
  BY StateFacts DEF SetsOf
<1>2. \A x \in BindingSets : \A n \in SetNeeds(x) : n[1] \in Resources
  BY DEF SetNeeds, Assumptions, VectorsAssumption
<1>3. \A n \in IndirectNeeds(s) : n[1] \in Resources
  <2>1. s.indirect \in {IndirectBuffer, None}
    BY StateFacts DEF CachedStates
  <2> QED
    BY <2>1 DEF IndirectNeeds, Assumptions, NamesAssumption
<1>4. \A n \in TargetNeeds(s) : n[1] \in Resources
  BY DEF TargetNeeds, Assumptions, NamesAssumption
<1>5. \A m, n \in Needs(s) : m[1] = n[1] => m = n
  BY DEF Assumptions, NeedsAssumption
<1>6. \A n : n \in Needs(s) <=> \/ \E x \in SetsOf(s.bindings) : n \in SetNeeds(x)
                               \/ n \in IndirectNeeds(s) \/ n \in TargetNeeds(s)
  BY DEF Needs
<1>7. \A n \in Needs(s) : n[1] \in Resources
  BY <1>1, <1>2, <1>3, <1>4, <1>6
<1>8. /\ \A x \in SetsOf(s.bindings) : SetNeeds(x) \subseteq Needs(s)
      /\ IndirectNeeds(s) \subseteq Needs(s) /\ TargetNeeds(s) \subseteq Needs(s)
  BY <1>6
<1>9. \A n \in Needs(s) : \/ \E x \in SetsOf(s.bindings) : n \in SetNeeds(x)
                          \/ n \in IndirectNeeds(s) \/ n \in TargetNeeds(s)
  BY <1>6
<1> QED
  BY <1>5, <1>7, <1>8, <1>9

\* What is required has the state it was required in; nothing else changes.
LEMMA RequireFacts ==
  ASSUME NEW L, IsList(L), NEW needs, NEW R, R = Require(L, needs),
         \A n \in needs : n[1] \in Resources,
         \A m, n \in needs : m[1] = n[1] => m = n
  PROVE  /\ IsList(R) /\ Same(R, L, {"state", "pending", "unordered"})
         /\ \A n \in needs : R.state[n[1]] = n[2]
         /\ \A r \in Resources : (\A n \in needs : n[1] # r) => R.state[r] = L.state[r]
         /\ \A u \in R.unordered : u \in L.unordered /\ <<u, "uav">> \notin needs
<1>1. PICK moved, ordered, state :
        /\ moved = {n \in needs : L.state[n[1]] # n[2]}
        /\ ordered = {n[1] : n \in {m \in needs : m[2] = "uav"}}
        /\ state = [r \in Resources |-> IF \E n \in needs : n[1] = r
                                       THEN (CHOOSE n \in needs : n[1] = r)[2] ELSE L.state[r]]
  OBVIOUS
<1>2. PICK pending, unordered :
        /\ pending = (L.pending \/ moved # {} \/ ordered # {})
        /\ unordered = L.unordered \ ({n[1] : n \in moved} \cup ordered)
  OBVIOUS
<1>3. R = [L EXCEPT !.state = state, !.pending = pending, !.unordered = unordered]
  BY <1>1, <1>2 DEF Require, IsList, Fields
<1>4. /\ DOMAIN R = Fields /\ R.state = state /\ R.pending = pending /\ R.unordered = unordered
      /\ Same(R, L, {"state", "pending", "unordered"})
  BY <1>3 DEF IsList, Fields, Same
<1>5. pending \in BOOLEAN
  BY <1>2
<1>6. IsList(R)
  BY <1>1, <1>4, <1>5 DEF IsList, Same
<1>7. \A n \in needs : state[n[1]] = n[2]
  BY <1>1
<1>8. \A r \in Resources : (\A n \in needs : n[1] # r) => state[r] = L.state[r]
  BY <1>1
<1>9. \A u \in unordered : u \in L.unordered /\ <<u, "uav">> \notin needs
  <2>1. ASSUME NEW u, <<u, "uav">> \in needs PROVE u \in ordered
    BY <1>1, <2>1
  <2> QED
    BY <1>2, <2>1
<1> QED
  BY <1>4, <1>6, <1>7, <1>8, <1>9

\* Of the needs of a state some are required, the others met already.
LEMMA RequireNeeds ==
  ASSUME Assumptions, NEW k \in Kinds, NEW s \in StatesOf(k), NEW L, IsList(L),
         NEW needs, needs \subseteq Needs(s), NEW R, R = Require(L, needs)
  PROVE  /\ IsList(R) /\ Same(R, L, {"state", "pending", "unordered"})
         /\ \A n \in Needs(s) : n \in needs \/ L.state[n[1]] = n[2] => R.state[n[1]] = n[2]
         /\ \A u \in R.unordered : u \in L.unordered /\ <<u, "uav">> \notin needs
<1>1. (\A n \in Needs(s) : n[1] \in Resources) /\ (\A m, n \in Needs(s) : m[1] = n[1] => m = n)
  BY NeedsFacts
<1>2. /\ IsList(R) /\ Same(R, L, {"state", "pending", "unordered"})
      /\ \A n \in needs : R.state[n[1]] = n[2]
      /\ \A r \in Resources : (\A n \in needs : n[1] # r) => R.state[r] = L.state[r]
      /\ \A u \in R.unordered : u \in L.unordered /\ <<u, "uav">> \notin needs
  BY <1>1, RequireFacts
<1>3. ASSUME NEW n \in Needs(s), n \in needs \/ L.state[n[1]] = n[2]
      PROVE  R.state[n[1]] = n[2]
  BY <1>1, <1>2, <1>3
<1> QED
  BY <1>2, <1>3

LEMMA UnchangedSame ==
  ASSUME NEW S, NEW new \in Seq(S), NEW old \in Seq(S)
  PROVE  /\ Changed(new, old) = {} => new = old
         /\ Changed(new, new) = {}
         /\ \A i \in DOMAIN new : i \notin Changed(new, old) /\ Len(new) <= 8 =>
              Len(new) = Len(old) /\ i \in DOMAIN old /\ new[i] = old[i]
<1>1. CASE Len(new) = Len(old)
  <2>1. Changed(new, old) = {i \in DOMAIN new : new[i] # old[i]}
    BY <1>1 DEF Changed
  <2>2. DOMAIN new = 1..Len(new) /\ DOMAIN old = 1..Len(new)
    BY <1>1
  <2> QED
    BY <1>1, <2>1, <2>2 DEF Changed
<1>2. CASE Len(new) # Len(old)
  <2>1. Changed(new, old) = AllSets /\ 1 \in AllSets
    BY <1>2 DEF Changed, AllSets
  <2>2. \A i \in DOMAIN new : Len(new) <= 8 => i \in AllSets
    <3>1. PICK n \in Nat : n = Len(new) /\ DOMAIN new = 1..n
      OBVIOUS
    <3>2. n <= 8 => \A i \in 1..n : i \in 1..32
      OBVIOUS
    <3> QED
      BY <3>1, <3>2 DEF AllSets
  <2> QED
    BY <2>1, <2>2 DEF Changed
<1> QED
  BY <1>1, <1>2

-----------------------------------------------------------------------------
(* Vulkan: the barriers of a state.                                         *)

LEMMA BarriersSame ==
  ASSUME Assumptions, NEW k \in Kinds, NEW s \in StatesOf(k), NEW L, IsList(L),
         NEW R, R = InsertResourceBarriers(L, k, s)
  PROVE  IsList(R) /\ Same(R, L, {"state", "pending", "unordered", "dirty"})
<1>1. PICK placed, indirect, target, needs :
        /\ placed = SetsToTransition(L, s.bindings, L.last[k].bindings)
        /\ indirect = IF L.dirty \/ s.indirect # L.last[k].indirect THEN IndirectNeeds(s) ELSE {}
        /\ target = IF L.dirty \/ s.framebuffer # L.last[k].framebuffer THEN TargetNeeds(s) ELSE {}
        /\ needs = (UNION {SetNeeds(x) : x \in placed}) \cup indirect \cup target
  OBVIOUS
<1>2. PICK required : required = Require(L, needs)
  OBVIOUS
<1>3. R = [required EXCEPT !.dirty = FALSE]
  BY <1>1, <1>2 DEF InsertResourceBarriers
<1>4. placed \subseteq SetsOf(s.bindings)
  BY <1>1 DEF SetsToTransition, SetsOf
<1>5. needs \subseteq Needs(s)
  BY <1>1, <1>4, NeedsFacts
<1>6. IsList(required) /\ Same(required, L, {"state", "pending", "unordered"})
  BY <1>2, <1>5, RequireNeeds
<1>7. DOMAIN R = Fields /\ R.dirty = FALSE /\ Same(R, required, {"dirty"})
  BY <1>3, <1>6 DEF IsList, Fields, Same
<1>8. IsList(R)
  BY <1>6, <1>7 DEF IsList, Same
<1>9. Same(R, L, {"state", "pending", "unordered", "dirty"})
  BY <1>6, <1>7 DEF Same
<1> QED
  BY <1>8, <1>9

LEMMA BarriersFacts ==
  ASSUME Assumptions, NEW k \in Kinds, NEW s \in StatesOf(k), NEW L, IsList(L),
         NEW changed, changed = Changed(s.bindings, L.last[k].bindings),
         L.dirty = FALSE =>
           /\ \A i \in DOMAIN s.bindings : i \notin changed /\ (changed = {} \/ Writes[s.bindings[i]] = {}) =>
                \A n \in SetNeeds(s.bindings[i]) : L.state[n[1]] = n[2]
           /\ L.last[k].indirect = s.indirect => \A n \in IndirectNeeds(s) : L.state[n[1]] = n[2]
           /\ L.last[k].framebuffer = s.framebuffer => \A n \in TargetNeeds(s) : L.state[n[1]] = n[2]
           /\ L.last[k].bindings = s.bindings => UavsOf(s.bindings) \cap L.unordered = {},
         NEW R, R = InsertResourceBarriers(L, k, s)
  PROVE  /\ IsList(R) /\ Same(R, L, {"state", "pending", "unordered", "dirty"})
         /\ Ready(R, s) /\ UavsOf(s.bindings) \cap R.unordered = {}
<1>1. /\ s.bindings \in Seq(BindingSets) /\ L.last[k].bindings \in Seq(BindingSets)
      /\ Len(s.bindings) <= 8
  BY StateFacts DEF IsList, CachedStates
<1>2. PICK placed, indirect, target, needs :
        /\ placed = SetsToTransition(L, s.bindings, L.last[k].bindings)
        /\ indirect = IF L.dirty \/ s.indirect # L.last[k].indirect THEN IndirectNeeds(s) ELSE {}
        /\ target = IF L.dirty \/ s.framebuffer # L.last[k].framebuffer THEN TargetNeeds(s) ELSE {}
        /\ needs = (UNION {SetNeeds(x) : x \in placed}) \cup indirect \cup target
  OBVIOUS
<1>3. PICK required : required = Require(L, needs)
  OBVIOUS
<1>4. R = [required EXCEPT !.dirty = FALSE]
  BY <1>2, <1>3 DEF InsertResourceBarriers
<1>5. /\ \A i \in DOMAIN s.bindings : s.bindings[i] \notin placed =>
           L.dirty = FALSE /\ i \notin changed /\ (changed = {} \/ Writes[s.bindings[i]] = {})
      /\ placed \subseteq SetsOf(s.bindings)
  <2>1. PICK mask : mask = IF L.dirty THEN AllSets ELSE changed
    OBVIOUS
  <2>2. placed = {s.bindings[i] : i \in {j \in DOMAIN s.bindings :
                                   j \in mask \/ (mask # {} /\ Writes[s.bindings[j]] # {})}}
    BY <1>2, <2>1 DEF SetsToTransition
  <2>3. \A i \in DOMAIN s.bindings : i \in AllSets
    <3>1. PICK n \in Nat : n = Len(s.bindings) /\ DOMAIN s.bindings = 1..n
      BY <1>1
    <3>2. n <= 8 => \A i \in 1..n : i \in 1..32
      OBVIOUS
    <3> QED
      BY <1>1, <3>1, <3>2 DEF AllSets
  <2>4. L.dirty \in BOOLEAN
    BY DEF IsList
  <2>5. L.dirty = FALSE => mask = changed
    BY <2>1
  <2>6. L.dirty # FALSE => mask = AllSets
    BY <2>1, <2>4
  <2>7. ASSUME NEW i \in DOMAIN s.bindings, s.bindings[i] \notin placed
        PROVE  i \notin mask /\ (mask = {} \/ Writes[s.bindings[i]] = {})
    BY <2>2, <2>7
  <2>8. placed \subseteq SetsOf(s.bindings)
    BY <2>2 DEF SetsOf
  <2> QED
    BY <2>3, <2>5, <2>6, <2>7, <2>8
<1>6. needs \subseteq Needs(s)
  <2>1. indirect \subseteq Needs(s) /\ target \subseteq Needs(s)
    BY <1>2, NeedsFacts
  <2>2. \A x \in placed : SetNeeds(x) \subseteq Needs(s)
    BY <1>5, NeedsFacts
  <2> QED
    BY <1>2, <2>1, <2>2
<1>7. /\ IsList(required) /\ Same(required, L, {"state", "pending", "unordered"})
      /\ \A n \in Needs(s) : n \in needs \/ L.state[n[1]] = n[2] => required.state[n[1]] = n[2]
      /\ \A u \in required.unordered : u \in L.unordered /\ <<u, "uav">> \notin needs
  BY <1>3, <1>6, RequireNeeds
<1>8. ASSUME NEW n \in Needs(s) PROVE n \in needs \/ L.state[n[1]] = n[2]
  <2>1. L.dirty \in BOOLEAN
    BY DEF IsList
  <2>2. CASE n \in IndirectNeeds(s)
    BY <1>2, <2>1, <2>2
  <2>3. CASE n \in TargetNeeds(s)
    BY <1>2, <2>1, <2>3
  <2>4. ASSUME NEW x \in SetsOf(s.bindings), n \in SetNeeds(x)
        PROVE  n \in needs \/ L.state[n[1]] = n[2]
    <3>1. PICK i \in DOMAIN s.bindings : x = s.bindings[i]
      BY DEF SetsOf
    <3>2. CASE x \in placed
      BY <1>2, <2>4, <3>2
    <3>3. CASE x \notin placed
      BY <1>5, <2>4, <3>1, <3>3
    <3> QED
      BY <3>2, <3>3
  <2> QED
    BY <2>2, <2>3, <2>4, NeedsFacts
<1>9. ASSUME NEW u \in UavsOf(s.bindings) PROVE u \notin required.unordered
  <2>1. PICK x \in SetsOf(s.bindings) : u \in Writes[x]
    BY DEF UavsOf
  <2>2. PICK i \in DOMAIN s.bindings : x = s.bindings[i]
    BY DEF SetsOf
  <2>3. CASE x \in placed
    <3>1. <<u, "uav">> \in SetNeeds(x)
      BY <2>1 DEF SetNeeds
    <3> QED
      BY <1>2, <1>7, <2>3, <3>1
  <2>4. CASE x \notin placed
    <3>1. L.dirty = FALSE /\ changed = {}
      BY <1>5, <2>1, <2>2, <2>4
    <3>2. L.last[k].bindings = s.bindings
      <4>1. ASSUME NEW new \in Seq(BindingSets), NEW old \in Seq(BindingSets), Changed(new, old) = {}
            PROVE  new = old
        BY <4>1, UnchangedSame
      <4> QED
        BY <1>1, <3>1, <4>1
    <3>3. u \notin L.unordered
      BY <3>1, <3>2
    <3> QED
      BY <1>7, <3>3
  <2> QED
    BY <2>3, <2>4
<1>10. /\ DOMAIN R = Fields /\ R.dirty = FALSE /\ Same(R, required, {"dirty"})
  BY <1>4, <1>7 DEF IsList, Fields, Same
<1>11. IsList(R)
  BY <1>7, <1>10 DEF IsList, Same
<1>12. Same(R, L, {"state", "pending", "unordered", "dirty"}) /\ R.state = required.state
       /\ R.unordered = required.unordered
  BY <1>7, <1>10 DEF Same
<1> QED
  BY <1>7, <1>8, <1>9, <1>11, <1>12 DEF Ready

-----------------------------------------------------------------------------
(* Vulkan: render passes, pipelines, binding sets and values.               *)

\* What the list remembers, framebuffers aside.
SameLast(R, L) == \A k \in Kinds :
    /\ R.last[k].pipeline = L.last[k].pipeline /\ R.last[k].bindings = L.last[k].bindings
    /\ R.last[k].values = L.last[k].values /\ R.last[k].indirect = L.last[k].indirect

LEMMA SameLastChain ==
  ASSUME NEW R, NEW M, NEW L, SameLast(R, M), SameLast(M, L) PROVE SameLast(R, L)
  BY DEF SameLast

LEMMA CommitFacts ==
  ASSUME NEW L, IsList(L), NEW R, R = CommitVulkanBarriers(L)
  PROVE  /\ IsList(R) /\ Same(R, L, {"pass", "last", "pending"}) /\ SameLast(R, L)
         /\ R.pending = FALSE
         /\ L.pending = FALSE => R = L
         /\ L.pending = TRUE => R.last = EndRenderPass(L).last /\ R.pass = EndRenderPass(L).pass
<1>1. L.pending \in BOOLEAN
  BY DEF IsList
<1>2. CASE L.pending = FALSE
  BY <1>2 DEF CommitVulkanBarriers, Same, SameLast
<1>3. CASE L.pending = TRUE
  <2>1. PICK ended : ended = EndRenderPass(L)
    OBVIOUS
  <2>2. IsList(ended) /\ Same(ended, L, {"pass", "last"}) /\ SameLast(ended, L)
    BY <2>1, EndFacts DEF SameLast
  <2>3. R = [ended EXCEPT !.pending = FALSE]
    BY <1>3, <2>1 DEF CommitVulkanBarriers
  <2>4. DOMAIN R = Fields /\ R.pending = FALSE /\ Same(R, ended, {"pending"})
    BY <2>2, <2>3 DEF IsList, Fields, Same
  <2>5. R.last = ended.last /\ R.pass = ended.pass
    BY <2>4 DEF Same
  <2>6. IsList(R)
    BY <2>2, <2>4 DEF IsList, Same
  <2>7. Same(R, L, {"pass", "last", "pending"})
    BY <2>2, <2>4 DEF Same
  <2>8. SameLast(R, L)
    BY <2>2, <2>5 DEF SameLast
  <2> QED
    BY <1>3, <2>1, <2>4, <2>5, <2>6, <2>7, <2>8
<1> QED
  BY <1>1, <1>2, <1>3

LEMMA BeginFacts ==
  ASSUME NEW L, IsList(L), NEW f \in Framebuffers, NEW R, R = BeginRenderPass(L, f)
  PROVE  IsList(R) /\ Same(R, L, {"pass", "last"}) /\ SameLast(R, L) /\ R.pass = f
<1>1. PICK ended : ended = EndRenderPass(L)
  OBVIOUS
<1>2. IsList(ended) /\ Same(ended, L, {"pass", "last"}) /\ SameLast(ended, L)
  BY <1>1, EndFacts DEF SameLast
<1>3. PICK last : last = InFramebuffer(ended.last, f)
  OBVIOUS
<1>4. last \in [Kinds -> CachedStates] /\ SameLast([last |-> last], ended)
  BY <1>2, <1>3, InFramebufferFacts DEF IsList, SameLast
<1>5. R = [ended EXCEPT !.pass = f, !.last = last]
  BY <1>1, <1>3 DEF BeginRenderPass
<1>6. DOMAIN R = Fields /\ R.pass = f /\ R.last = last /\ Same(R, ended, {"pass", "last"})
  BY <1>2, <1>5 DEF IsList, Fields, Same
<1>7. IsList(R)
  BY <1>2, <1>4, <1>6 DEF IsList, Same
<1>8. Same(R, L, {"pass", "last"})
  BY <1>2, <1>6 DEF Same
<1>9. SameLast(R, L)
  BY <1>2, <1>4, <1>6 DEF SameLast
<1> QED
  BY <1>6, <1>7, <1>8, <1>9

RendersTo(L, k) == L.last[k].framebuffer # None => L.pass = L.last[k].framebuffer

Rendering(L, f) == L.pending = FALSE /\ L.pass = f

EnterPass(L, k, f) ==
    LET ended == IF L.last[k].framebuffer # f \/ L.pending THEN EndRenderPass(L) ELSE L
        ready == CommitVulkanBarriers(ended)
    IN  IF ready.last[k].framebuffer = None THEN BeginRenderPass(ready, f) ELSE ready

\* Afterwards the framebuffer is being rendered to, and no barrier is left to record.
LEMMA PassFacts ==
  ASSUME NEW k \in Rasters, NEW f \in Framebuffers, None \notin Framebuffers, NEW L, IsList(L),
         RendersTo(L, k), NEW R, R = EnterPass(L, k, f)
  PROVE  /\ IsList(R) /\ Same(R, L, {"pass", "last", "pending"}) /\ SameLast(R, L)
         /\ Rendering(R, f)
<1> USE DEF Rendering
<1>1. PICK ended, ready :
        /\ ended = IF L.last[k].framebuffer # f \/ L.pending THEN EndRenderPass(L) ELSE L
        /\ ready = CommitVulkanBarriers(ended)
        /\ R = IF ready.last[k].framebuffer = None THEN BeginRenderPass(ready, f) ELSE ready
  BY DEF EnterPass
<1>2. k \in Kinds /\ L.pending \in BOOLEAN
  BY DEF IsList, Rasters, Kinds
<1>3. L.last[k].framebuffer # None => L.pass = L.last[k].framebuffer
  BY DEF RendersTo
<1>4. /\ IsList(ended) /\ Same(ended, L, {"pass", "last"}) /\ SameLast(ended, L)
      /\ \/ ended.last[k].framebuffer = None
         \/ L.pending = FALSE /\ ended = L /\ L.last[k].framebuffer = f
  <2>1. CASE L.last[k].framebuffer # f \/ L.pending
    <3>1. ended = EndRenderPass(L)
      BY <1>1, <2>1
    <3> QED
      BY <1>2, <3>1, EndFacts DEF SameLast
  <2>2. CASE ~(L.last[k].framebuffer # f \/ L.pending)
    BY <1>1, <1>2, <2>2 DEF Same, SameLast
  <2> QED
    BY <2>1, <2>2
<1>5. /\ IsList(ready) /\ Same(ready, ended, {"pass", "last", "pending"}) /\ SameLast(ready, ended)
      /\ ready.pending = FALSE
      /\ ended.pending = FALSE => ready = ended
      /\ ended.pending = TRUE => ready.last = EndRenderPass(ended).last
  BY <1>1, <1>4, CommitFacts
<1>6. \/ ready.last[k].framebuffer = None
      \/ ready.last[k].framebuffer # None /\ ready.pass = f
  <2>1. CASE L.pending = FALSE /\ ended = L /\ L.last[k].framebuffer = f
    BY <1>5, <1>3, <2>1
  <2>2. CASE ended.last[k].framebuffer = None /\ ended.pending = FALSE
    BY <1>5, <2>2
  <2>3. CASE ended.pending = TRUE
    BY <1>2, <1>4, <1>5, <2>3, EndFacts
  <2>4. ended.pending \in BOOLEAN
    BY <1>4 DEF IsList
  <2> QED
    BY <1>4, <2>1, <2>2, <2>3, <2>4
<1>7. CASE ready.last[k].framebuffer = None
  <2>1. R = BeginRenderPass(ready, f)
    BY <1>1, <1>7
  <2>2. IsList(R) /\ Same(R, ready, {"pass", "last"}) /\ SameLast(R, ready) /\ R.pass = f
    BY <1>5, <2>1, BeginFacts
  <2>3. Same(R, L, {"pass", "last", "pending"}) /\ R.pending = FALSE
    BY <1>4, <1>5, <2>2 DEF Same
  <2>4. SameLast(R, L)
    BY <1>4, <1>5, <2>2, SameLastChain
  <2> QED
    BY <2>2, <2>3, <2>4
<1>8. CASE ready.last[k].framebuffer # None
  <2>1. R = ready /\ R.pass = f
    BY <1>1, <1>6, <1>8
  <2>2. Same(R, L, {"pass", "last", "pending"})
    BY <1>4, <1>5, <2>1 DEF Same
  <2> QED
    BY <1>4, <1>5, <2>1, <2>2 DEF SameLast
<1> QED
  BY <1>7, <1>8

LEMMA PipelineFacts ==
  ASSUME NEW L, IsList(L), NEW k \in Kinds, NEW p, NEW R, R = BindPipeline(L, k, p)
  PROVE  /\ IsList(R) /\ Same(R, L, {"pipeline", "stencil", "blend"})
         /\ L.last[k].pipeline = p => R.pipeline = L.pipeline
         /\ L.last[k].pipeline # p => R.pipeline[VulkanPoint(k)] = p
         /\ \A point \in Points \ {VulkanPoint(k)} : R.pipeline[point] = L.pipeline[point]
         /\ p \in UsesStencil => R.stencil = L.stencil
         /\ p \in UsesBlend => R.blend = L.blend
         /\ k \notin Rasters => R.stencil = L.stencil /\ R.blend = L.blend
<1>1. CASE L.last[k].pipeline = p
  BY <1>1 DEF BindPipeline, Same
<1>2. CASE L.last[k].pipeline # p
  <2>1. PICK point, pipeline, stencil, blend :
          /\ point = VulkanPoint(k) /\ pipeline = [L.pipeline EXCEPT ![point] = p]
          /\ stencil = IF k \in {"graphics", "meshlet"} /\ p \notin UsesStencil THEN None ELSE L.stencil
          /\ blend = IF k \in {"graphics", "meshlet"} /\ p \notin UsesBlend THEN None ELSE L.blend
    OBVIOUS
  <2>2. R = [L EXCEPT !.pipeline = pipeline, !.stencil = stencil, !.blend = blend]
    BY <1>2, <2>1 DEF BindPipeline, IsList, Fields
  <2>3. /\ DOMAIN R = Fields /\ R.pipeline = pipeline /\ R.stencil = stencil /\ R.blend = blend
        /\ Same(R, L, {"pipeline", "stencil", "blend"})
    BY <2>2 DEF IsList, Fields, Same
  <2>4. point \in Points
    BY <2>1 DEF VulkanPoint, Kinds, Points
  <2>5. /\ DOMAIN pipeline = Points /\ pipeline[point] = p
        /\ \A q \in Points \ {point} : pipeline[q] = L.pipeline[q]
    BY <2>1, <2>4 DEF IsList
  <2>6. IsList(R)
    BY <2>3, <2>5 DEF IsList, Same
  <2> QED
    BY <1>2, <2>1, <2>3, <2>5, <2>6 DEF Rasters
<1> QED
  BY <1>1, <1>2

LEMMA BindFacts ==
  ASSUME NEW L, IsList(L), NEW point \in Points, NEW b, NEW R, R = BindBindingSets(L, point, b)
  PROVE  /\ IsList(R) /\ Same(R, L, {"sets", "bound"})
         /\ b # <<>> => R.sets[point] = b
         /\ b # <<>> /\ HasVolatile(b) => R.bound[point] = L.version
         /\ b # <<>> /\ ~HasVolatile(b) => R.bound[point] = L.bound[point]
         /\ b = <<>> => R = L
         /\ \A p \in Points \ {point} : R.sets[p] = L.sets[p] /\ R.bound[p] = L.bound[p]
<1>1. CASE b = <<>>
  BY <1>1 DEF BindBindingSets, Same
<1>2. CASE b # <<>>
  <2>1. PICK sets, word, bound :
          /\ sets = [L.sets EXCEPT ![point] = b]
          /\ word = IF HasVolatile(b) THEN L.version ELSE L.bound[point]
          /\ bound = [L.bound EXCEPT ![point] = word]
    OBVIOUS
  <2>2. R = [L EXCEPT !.sets = sets, !.bound = bound]
    <3>1. R = [L EXCEPT !.sets[point] = b, !.bound[point] = IF HasVolatile(b) THEN L.version ELSE @]
      BY <1>2 DEF BindBindingSets
    <3>2. CASE HasVolatile(b)
      <4>1. R = [L EXCEPT !.sets[point] = b, !.bound[point] = L.version]
        BY <3>1, <3>2
      <4> QED
        BY <2>1, <3>2, <4>1 DEF IsList, Fields
    <3>3. CASE ~HasVolatile(b)
      <4>1. R = [L EXCEPT !.sets[point] = b, !.bound[point] = @]
        BY <3>1, <3>3
      <4> QED
        BY <2>1, <3>3, <4>1 DEF IsList, Fields
    <3> QED
      BY <3>2, <3>3
  <2>3. DOMAIN R = Fields /\ R.sets = sets /\ R.bound = bound /\ Same(R, L, {"sets", "bound"})
    BY <2>2 DEF IsList, Fields, Same
  <2>4. IsList(R)
    BY <2>1, <2>3 DEF IsList, Same
  <2>5. /\ sets[point] = b /\ bound[point] = word
        /\ \A p \in Points \ {point} : sets[p] = L.sets[p] /\ bound[p] = L.bound[p]
    BY <2>1 DEF IsList
  <2> QED
    BY <1>2, <2>1, <2>3, <2>4, <2>5
<1> QED
  BY <1>1, <1>2

LEMMA PointFacts ==
  /\ \A k \in Kinds : VulkanPoint(k) \in Points /\ RootPoint(k) \in Points
  /\ \A k \in Kinds \ {"rays"} : VulkanPoint(k) # "rays"
  /\ Rasters \subseteq Kinds /\ Rasters \subseteq Kinds \ {"compute", "rays"}
  /\ VulkanPoint("compute") = "compute" /\ VulkanPoint("rays") = "rays"
  /\ "compute" \in Kinds /\ "rays" \in Kinds /\ "rays" \in Points
  BY DEF VulkanPoint, RootPoint, Kinds, Points, Rasters

LEMMA NoVolatile == ~HasVolatile(<<>>)
  BY DEF HasVolatile, SetsOf

\* Binding sets that are not bound again are bound already.
BoundAlready(L, k, s, cached) ==
    cached = s.bindings /\ s.bindings # <<>> /\ L.anyVolatile = FALSE =>
        /\ L.sets[VulkanPoint(k)] = s.bindings
        /\ HasVolatile(s.bindings) => L.bound[VulkanPoint(k)] = Latest

\* The binding sets are bound, with what was written last to the volatile buffer.
LEMMA BindIfFacts ==
  ASSUME NEW L, IsList(L), NEW k \in Kinds, NEW s, NEW cached,
         HasVolatile(s.bindings) => L.version = Latest,
         BoundAlready(L, k, s, cached),
         NEW R, R = BindIfChanged(L, k, s, cached)
  PROVE  /\ IsList(R) /\ Same(R, L, {"sets", "bound"})
         /\ s.bindings # <<>> => R.sets[VulkanPoint(k)] = s.bindings
         /\ HasVolatile(s.bindings) => R.bound[VulkanPoint(k)] = Latest
         /\ \A p \in Points \ {VulkanPoint(k)} : R.sets[p] = L.sets[p] /\ R.bound[p] = L.bound[p]
<1>1. L.anyVolatile \in BOOLEAN
  BY DEF IsList
<1>2. CASE cached # s.bindings \/ L.anyVolatile
  <2>1. R = BindBindingSets(L, VulkanPoint(k), s.bindings)
    BY <1>2 DEF BindIfChanged
  <2>2. VulkanPoint(k) \in Points
    BY PointFacts
  <2>3. CASE s.bindings = <<>>
    <3>1. R = L
      BY <2>1, <2>2, <2>3, BindFacts
    <3> QED
      BY <2>3, <3>1, NoVolatile DEF Same
  <2>4. CASE s.bindings # <<>>
    BY <2>1, <2>2, <2>4, BindFacts, NoVolatile
  <2> QED
    BY <2>3, <2>4
<1>3. CASE ~(cached # s.bindings \/ L.anyVolatile)
  <2>1. R = L
    BY <1>3 DEF BindIfChanged
  <2> QED
    BY <1>1, <1>3, <2>1, NoVolatile DEF Same, BoundAlready
<1> QED
  BY <1>2, <1>3

LEMMA DynamicFacts ==
  ASSUME NEW L, IsList(L), NEW k \in Rasters, NEW s, NEW new \in BOOLEAN,
         L.last[k].values = s.values =>
           /\ L.viewport = s.values /\ (k = "graphics" => L.vertices = s.values)
           /\ s.pipeline \in UsesStencil /\ ~new => L.stencil = s.values
           /\ s.pipeline \in UsesBlend /\ ~new => L.blend = s.values,
         NEW R, R = SetDynamicState(L, k, s, new)
  PROVE  /\ IsList(R) /\ Same(R, L, {"viewport", "vertices", "stencil", "blend"})
         /\ ValuesSet(R, k, s)
<1>1. PICK differ \in BOOLEAN : differ = (L.last[k].values # s.values)
  OBVIOUS
<1>2. PICK viewport, vertices, stencil, blend :
        /\ viewport = IF differ THEN s.values ELSE L.viewport
        /\ vertices = IF k = "graphics" /\ differ THEN s.values ELSE L.vertices
        /\ stencil = IF s.pipeline \in UsesStencil /\ (new \/ differ) THEN s.values ELSE L.stencil
        /\ blend = IF s.pipeline \in UsesBlend /\ (new \/ differ) THEN s.values ELSE L.blend
  OBVIOUS
<1>3. R = [L EXCEPT !.viewport = viewport, !.vertices = vertices, !.stencil = stencil, !.blend = blend]
  BY <1>1, <1>2 DEF SetDynamicState
<1>4. /\ DOMAIN R = Fields /\ R.viewport = viewport /\ R.vertices = vertices
      /\ R.stencil = stencil /\ R.blend = blend
      /\ Same(R, L, {"viewport", "vertices", "stencil", "blend"})
  BY <1>3 DEF IsList, Fields, Same
<1>5. IsList(R)
  BY <1>4 DEF IsList, Same
<1>6. /\ viewport = s.values /\ (k = "graphics" => vertices = s.values)
      /\ s.pipeline \in UsesStencil => stencil = s.values
      /\ s.pipeline \in UsesBlend => blend = s.values
  BY <1>1, <1>2
<1> QED
  BY <1>4, <1>5, <1>6 DEF ValuesSet

\* A state that was set up is remembered alone.
LEMMA RememberHolds ==
  ASSUME Assumptions, NEW k \in Kinds, NEW s \in StatesOf(k), NEW L, IsList(L),
         Bound(L, VulkanPoint(k), s), k \in Rasters => ValuesSet(L, k, s),
         HasVolatile(s.bindings) => L.version = Latest /\ L.bound[VulkanPoint(k)] = Latest,
         L.pass = s.framebuffer, Prepared(L, s),
         NEW R, R = Remember(L, k, s)
  PROVE  IsList(R) /\ VulkanInv(R) /\ VulkanSet(R, k, s) /\ R.anyVolatile = FALSE
<1>1. /\ s \in CachedStates /\ s.pipeline # None
      /\ k \in Rasters => s.framebuffer # None
      /\ k \notin Rasters => s.framebuffer = None
  BY StateFacts
<1>2. NoState \in CachedStates
  BY DEF NoState, CachedStates
<1>3. PICK last : last = [x \in Kinds |-> IF x = k THEN s ELSE NoState]
  OBVIOUS
<1>4. last \in [Kinds -> CachedStates] /\ last[k] = s /\ \A x \in Kinds \ {k} : last[x] = NoState
  BY <1>1, <1>2, <1>3
<1>5. R = [L EXCEPT !.last = last, !.anyVolatile = FALSE]
  BY <1>3 DEF Remember
<1>6. /\ DOMAIN R = Fields /\ R.last = last /\ R.anyVolatile = FALSE
      /\ Same(R, L, {"last", "anyVolatile"})
  BY <1>5 DEF IsList, Fields, Same
<1>7. IsList(R)
  BY <1>4, <1>6 DEF IsList, Same
<1>8. Bound(R, VulkanPoint(k), s) /\ Prepared(R, s) /\ (k \in Rasters => ValuesSet(R, k, s))
  BY <1>6 DEF Same, Bound, Prepared, Ready, ValuesSet
<1>9. VulkanLatest(R, k)
  BY <1>4, <1>6 DEF Same, VulkanLatest
<1>10. /\ NoState.pipeline = None /\ NoState.framebuffer = None
  BY DEF NoState
<1>11. VulkanRemembers(R) /\ VulkanForgets(R)
  BY <1>1, <1>4, <1>6, <1>8, <1>9, <1>10 DEF VulkanRemembers, VulkanForgets
<1>12. k \in Rasters => R.state[TargetTexture] = "target"
  <2> SUFFICES ASSUME k \in Rasters PROVE R.state[TargetTexture] = "target"
    OBVIOUS
  <2>1. <<TargetTexture, "target">> \in TargetNeeds(s)
    BY <1>1 DEF TargetNeeds
  <2>2. <<TargetTexture, "target">> \in Needs(s)
    BY <2>1, NeedsFacts
  <2> QED
    BY <1>8, <2>2 DEF Prepared, Ready
<1>13. R.pass = s.framebuffer
  BY <1>6 DEF Same
<1>14. VulkanPass(R)
  BY <1>1, <1>4, <1>6, <1>10, <1>12, <1>13, PointFacts DEF VulkanPass
<1> QED
  BY <1>4, <1>6, <1>7, <1>8, <1>9, <1>11, <1>13, <1>14 DEF VulkanInv, VulkanSet

-----------------------------------------------------------------------------
(* Vulkan: setting a state.                                                 *)

\* The orders of calls avoided, as far as barriers are concerned.
BarriersKept(L, k, s) == L.dirty = FALSE =>
    /\ \A i \in DOMAIN s.bindings :
         LET changed == Changed(s.bindings, L.last[k].bindings) IN
         i \notin changed /\ (changed = {} \/ Writes[s.bindings[i]] = {}) =>
            \A n \in SetNeeds(s.bindings[i]) : L.state[n[1]] = n[2]
    /\ L.last[k].indirect = s.indirect => \A n \in IndirectNeeds(s) : L.state[n[1]] = n[2]
    /\ L.last[k].bindings = s.bindings => UavsOf(s.bindings) \cap L.unordered = {}

LEMMA VulkanBarriers ==
  ASSUME Assumptions, NEW k \in Kinds, NEW s \in StatesOf(k), NEW L, IsList(L),
         BarriersKept(L, k, s),
         k \in Rasters /\ L.last[k].framebuffer = s.framebuffer => L.state[TargetTexture] = "target",
         NEW R, R = InsertResourceBarriers(L, k, s)
  PROVE  /\ IsList(R) /\ Same(R, L, {"state", "pending", "unordered", "dirty"})
         /\ Ready(R, s) /\ UavsOf(s.bindings) \cap R.unordered = {}
<1>1. L.last[k].framebuffer = s.framebuffer => \A n \in TargetNeeds(s) : L.state[n[1]] = n[2]
  BY StateFacts DEF TargetNeeds
<1> QED
  BY <1>1, BarriersFacts DEF BarriersKept

\* What the bindings are compared with: if they equal s's, which are not empty, they are those
\* remembered of k.
CachedFits(L, k, s, cached) ==
    cached = s.bindings /\ s.bindings # <<>> => cached = L.last[k].bindings

LEMMA RasterHolds ==
  ASSUME Assumptions, NEW k \in Rasters, NEW s \in StatesOf(k), NEW L, IsList(L), VulkanInv(L),
         BarriersKept(L, k, s), HasVolatile(s.bindings) => L.version = Latest,
         NEW cached, CachedFits(L, k, s, cached),
         NEW R, R = SetRasterState(L, k, s, cached)
  PROVE  IsList(R) /\ VulkanInv(R) /\ VulkanSet(R, k, s) /\ R.anyVolatile = FALSE
<1>1. /\ k \in Kinds /\ k # "rays" /\ VulkanPoint(k) \in Points
      /\ s.framebuffer \in Framebuffers /\ s.framebuffer # None /\ s.values # None
      /\ s.pipeline # None /\ None \notin Framebuffers
  BY PointFacts, StateFacts DEF Assumptions, NamesAssumption
<1>2. /\ L.last[k].pipeline = None => L.last[k] = NoState
      /\ L.last[k].framebuffer # None =>
           L.pass = L.last[k].framebuffer /\ L.state[TargetTexture] = "target"
  BY <1>1 DEF VulkanInv, VulkanForgets, VulkanPass
<1>3. NoState.values = None /\ NoState.bindings = <<>> /\ NoState.framebuffer = None
  BY DEF NoState
<1>4. L.last[k].pipeline # None =>
        /\ Bound(L, VulkanPoint(k), L.last[k]) /\ ValuesSet(L, k, L.last[k]) /\ VulkanLatest(L, k)
  BY <1>1 DEF VulkanInv, VulkanRemembers
<1>5. PICK required : required = InsertResourceBarriers(L, k, s)
  OBVIOUS
<1>6. PICK piped : piped = BindPipeline(required, k, s.pipeline)
  OBVIOUS
<1>7. PICK inPass : inPass = EnterPass(piped, k, s.framebuffer)
  OBVIOUS
<1>8. PICK boundTo : boundTo = BindIfChanged(inPass, k, s, cached)
  OBVIOUS
<1>9. PICK new \in BOOLEAN : new = (L.last[k].pipeline # s.pipeline)
  OBVIOUS
<1>10. PICK dynamic : dynamic = SetDynamicState(boundTo, k, s, new)
  OBVIOUS
<1>11. R = Remember(dynamic, k, s)
  BY <1>5, <1>6, <1>7, <1>8, <1>9, <1>10 DEF SetRasterState, EnterPass
<1>12. /\ IsList(required) /\ Same(required, L, {"state", "pending", "unordered", "dirty"})
       /\ Ready(required, s) /\ UavsOf(s.bindings) \cap required.unordered = {}
  BY <1>1, <1>2, <1>5, VulkanBarriers
<1>13. /\ IsList(piped) /\ Same(piped, required, {"pipeline", "stencil", "blend"})
       /\ required.last[k].pipeline = s.pipeline => piped.pipeline = required.pipeline
       /\ required.last[k].pipeline # s.pipeline => piped.pipeline[VulkanPoint(k)] = s.pipeline
       /\ s.pipeline \in UsesStencil => piped.stencil = required.stencil
       /\ s.pipeline \in UsesBlend => piped.blend = required.blend
  BY <1>1, <1>6, <1>12, PipelineFacts
<1>14. piped.last = L.last /\ piped.pass = L.pass
  BY <1>12, <1>13 DEF Same
<1>15. /\ IsList(inPass) /\ Same(inPass, piped, {"pass", "last", "pending"}) /\ SameLast(inPass, piped)
       /\ inPass.pending = FALSE /\ inPass.pass = s.framebuffer
  <2>1. RendersTo(piped, k)
    BY <1>2, <1>14 DEF RendersTo
  <2> QED
    <3>1. IsList(piped) /\ None \notin Framebuffers
      BY <1>1, <1>13
    <3>2. PICK f \in Framebuffers : f = s.framebuffer
      BY <1>1
    <3>3. inPass = EnterPass(piped, k, f)
      BY <1>7, <3>2
    <3>4. /\ IsList(inPass) /\ Same(inPass, piped, {"pass", "last", "pending"})
          /\ SameLast(inPass, piped) /\ Rendering(inPass, f)
      BY <2>1, <3>1, <3>3, PassFacts
    <3> QED
      BY <3>2, <3>4 DEF Rendering
<1>16. /\ inPass.anyVolatile = L.anyVolatile /\ inPass.version = L.version
       /\ inPass.sets = L.sets /\ inPass.bound = L.bound
  BY <1>12, <1>13, <1>15 DEF Same
<1>17. /\ IsList(boundTo) /\ Same(boundTo, inPass, {"sets", "bound"})
       /\ s.bindings # <<>> => boundTo.sets[VulkanPoint(k)] = s.bindings
       /\ HasVolatile(s.bindings) => boundTo.bound[VulkanPoint(k)] = Latest
  <2>1. BoundAlready(inPass, k, s, cached)
    BY <1>2, <1>3, <1>4, <1>16 DEF CachedFits, Bound, VulkanLatest, BoundAlready
  <2> QED
    <3>1. k \in Kinds /\ IsList(inPass) /\ (HasVolatile(s.bindings) => inPass.version = Latest)
      BY <1>1, <1>15, <1>16
    <3> QED
      BY <1>8, <2>1, <3>1, BindIfFacts
<1>18. boundTo.last[k].values = L.last[k].values
  BY <1>1, <1>14, <1>15, <1>17 DEF Same, SameLast
<1>19. /\ boundTo.viewport = L.viewport /\ boundTo.vertices = L.vertices
       /\ boundTo.stencil = piped.stencil /\ boundTo.blend = piped.blend
       /\ required.stencil = L.stencil /\ required.blend = L.blend
       /\ boundTo.pipeline = piped.pipeline /\ required.pipeline = L.pipeline
       /\ required.last = L.last
  BY <1>12, <1>13, <1>15, <1>17 DEF Same
<1>20. /\ IsList(dynamic) /\ Same(dynamic, boundTo, {"viewport", "vertices", "stencil", "blend"})
       /\ ValuesSet(dynamic, k, s)
  <2>1. ASSUME boundTo.last[k].values = s.values
        PROVE  /\ boundTo.viewport = s.values /\ (k = "graphics" => boundTo.vertices = s.values)
               /\ s.pipeline \in UsesStencil /\ ~new => boundTo.stencil = s.values
               /\ s.pipeline \in UsesBlend /\ ~new => boundTo.blend = s.values
    <3>1. ValuesSet(L, k, L.last[k]) /\ L.last[k].values = s.values
      BY <1>1, <1>2, <1>3, <1>4, <1>18, <2>1
    <3> QED
      BY <1>9, <1>13, <1>19, <3>1 DEF ValuesSet
  <2> QED
    BY <1>10, <1>17, <2>1, DynamicFacts
<1>21. Bound(dynamic, VulkanPoint(k), s)
  <2>1. dynamic.pipeline = piped.pipeline /\ dynamic.sets = boundTo.sets
    BY <1>19, <1>20 DEF Same
  <2>2. piped.pipeline[VulkanPoint(k)] = s.pipeline
    BY <1>1, <1>4, <1>13, <1>19 DEF Bound
  <2> QED
    BY <1>17, <2>1, <2>2 DEF Bound
<1>22. Prepared(dynamic, s)
  <2>1. dynamic.pending = FALSE /\ dynamic.state = required.state /\ dynamic.unordered = required.unordered
    BY <1>13, <1>15, <1>17, <1>20 DEF Same
  <2> QED
    BY <1>12, <2>1 DEF Prepared, Ready
<1>23. /\ dynamic.pass = s.framebuffer /\ dynamic.version = L.version
       /\ dynamic.bound = boundTo.bound
  BY <1>15, <1>16, <1>17, <1>20 DEF Same
<1> QED
  BY <1>1, <1>11, <1>17, <1>20, <1>21, <1>22, <1>23, RememberHolds

\* Without an active render pass barriers change nothing but themselves.
LEMMA NoPassStays ==
  ASSUME NEW L, IsList(L), L.pass = None, NEW R, R = CommitVulkanBarriers(L)
  PROVE  R.pass = None
<1>1. CASE L.pending = FALSE
  BY <1>1, CommitFacts
<1>2. CASE L.pending = TRUE
  <2>1. R.pass = EndRenderPass(L).pass
    BY <1>2, CommitFacts
  <2> QED
    BY <2>1, EndFacts
<1> QED
  BY <1>1, <1>2 DEF IsList

LEMMA NoPassEnds ==
  ASSUME NEW L, IsList(L), VulkanPass(L), NEW R, R = EndRenderPass(L)
  PROVE  R.pass = None /\ \A k \in Rasters : R.last[k].framebuffer = None
<1>1. L.pass # None => L.last["graphics"].framebuffer # None \/ L.last["meshlet"].framebuffer # None
  BY DEF VulkanPass, Rasters
<1>2. \A k \in Rasters : k \in Kinds
  BY PointFacts
<1> QED
  BY <1>1, <1>2, EndFacts

\* The pipeline remembered for a point is the one bound there.
PipedAlready(L, k, s) == L.last[k].pipeline = s.pipeline => L.pipeline[VulkanPoint(k)] = s.pipeline

DispatchState(L, k, s) ==
    LET required == InsertResourceBarriers(L, k, s)
        piped    == BindPipeline(required, k, s.pipeline)
        boundTo  == BindIfChanged(piped, k, s, L.last[k].bindings)
    IN  Remember(CommitVulkanBarriers(boundTo), k, s)

LEMMA DispatchHolds ==
  ASSUME Assumptions, NEW k \in {"compute", "rays"}, NEW s \in StatesOf(k), NEW L, IsList(L),
         L.pass = None, BarriersKept(L, k, s), HasVolatile(s.bindings) => L.version = Latest,
         PipedAlready(L, k, s), BoundAlready(L, k, s, L.last[k].bindings),
         NEW R, R = DispatchState(L, k, s)
  PROVE  IsList(R) /\ VulkanInv(R) /\ VulkanSet(R, k, s) /\ R.anyVolatile = FALSE
<1>1. k \in Kinds /\ k \notin Rasters /\ VulkanPoint(k) \in Points
  BY PointFacts DEF Rasters
<1>2. s.framebuffer = None
  BY <1>1, StateFacts
<1>3. PICK required : required = InsertResourceBarriers(L, k, s)
  OBVIOUS
<1>4. PICK piped : piped = BindPipeline(required, k, s.pipeline)
  OBVIOUS
<1>5. PICK boundTo : boundTo = BindIfChanged(piped, k, s, L.last[k].bindings)
  OBVIOUS
<1>6. PICK ready : ready = CommitVulkanBarriers(boundTo)
  OBVIOUS
<1>7. R = Remember(ready, k, s)
  BY <1>3, <1>4, <1>5, <1>6 DEF DispatchState
<1>8. /\ IsList(required) /\ Same(required, L, {"state", "pending", "unordered", "dirty"})
      /\ Ready(required, s) /\ UavsOf(s.bindings) \cap required.unordered = {}
  BY <1>1, <1>3, VulkanBarriers
<1>9. /\ IsList(piped) /\ Same(piped, required, {"pipeline", "stencil", "blend"})
      /\ required.last[k].pipeline = s.pipeline => piped.pipeline = required.pipeline
      /\ required.last[k].pipeline # s.pipeline => piped.pipeline[VulkanPoint(k)] = s.pipeline
  BY <1>1, <1>4, <1>8, PipelineFacts
<1>10. piped.pipeline[VulkanPoint(k)] = s.pipeline
  <2>1. required.last = L.last /\ required.pipeline = L.pipeline
    BY <1>8 DEF Same
  <2> QED
    BY <1>9, <2>1 DEF PipedAlready
<1>11. /\ piped.anyVolatile = L.anyVolatile /\ piped.version = L.version /\ piped.sets = L.sets
       /\ piped.bound = L.bound /\ piped.pass = L.pass
  BY <1>8, <1>9 DEF Same
<1>12. BoundAlready(piped, k, s, L.last[k].bindings)
  BY <1>11 DEF BoundAlready
<1>13. HasVolatile(s.bindings) => piped.version = Latest
  BY <1>11
<1>14. /\ IsList(boundTo) /\ Same(boundTo, piped, {"sets", "bound"})
       /\ s.bindings # <<>> => boundTo.sets[VulkanPoint(k)] = s.bindings
       /\ HasVolatile(s.bindings) => boundTo.bound[VulkanPoint(k)] = Latest
  BY <1>1, <1>5, <1>9, <1>12, <1>13, BindIfFacts
<1>15. boundTo.pass = None
  BY <1>11, <1>14 DEF Same
<1>16. /\ IsList(ready) /\ Same(ready, boundTo, {"pass", "last", "pending"})
       /\ ready.pending = FALSE
  BY <1>6, <1>14, CommitFacts
<1>17. ready.pass = s.framebuffer
  BY <1>2, <1>6, <1>14, <1>15, NoPassStays
<1>18. /\ ready.pipeline = piped.pipeline /\ ready.sets = boundTo.sets /\ ready.bound = boundTo.bound
       /\ ready.version = L.version
       /\ ready.state = required.state /\ ready.unordered = required.unordered
  BY <1>9, <1>11, <1>14, <1>16 DEF Same
<1>19. Bound(ready, VulkanPoint(k), s)
  BY <1>10, <1>14, <1>18 DEF Bound
<1>20. Prepared(ready, s)
  BY <1>8, <1>16, <1>18 DEF Prepared, Ready
<1> QED
  BY <1>1, <1>7, <1>14, <1>16, <1>17, <1>18, <1>19, <1>20, RememberHolds

LEMMA ComputeHolds ==
  ASSUME Assumptions, NEW s \in StatesOf("compute"), NEW L, IsList(L), VulkanInv(L),
         BarriersKept(L, "compute", s), HasVolatile(s.bindings) => L.version = Latest,
         NEW R, R = VulkanSetComputeState(L, s)
  PROVE  IsList(R) /\ VulkanInv(R) /\ VulkanSet(R, "compute", s) /\ R.anyVolatile = FALSE
<1>1. PICK ended : ended = EndRenderPass(L)
  OBVIOUS
<1>2. "compute" \in Kinds /\ "compute" # "rays" /\ VulkanPoint("compute") \in Points
  BY PointFacts
<1>3. /\ IsList(ended) /\ Same(ended, L, {"pass", "last"}) /\ SameLast(ended, L) /\ ended.pass = None
  BY <1>1, EndFacts, NoPassEnds DEF VulkanInv, SameLast
<1>4. /\ ended.last["compute"].pipeline = L.last["compute"].pipeline
      /\ ended.last["compute"].bindings = L.last["compute"].bindings
      /\ ended.last["compute"].indirect = L.last["compute"].indirect
      /\ ended.dirty = L.dirty /\ ended.state = L.state /\ ended.unordered = L.unordered
      /\ ended.version = L.version /\ ended.anyVolatile = L.anyVolatile /\ ended.sets = L.sets
      /\ ended.bound = L.bound /\ ended.pipeline = L.pipeline
  BY <1>2, <1>3 DEF Same, SameLast
<1>5. BarriersKept(ended, "compute", s)
  BY <1>4 DEF BarriersKept
<1>6. HasVolatile(s.bindings) => ended.version = Latest
  BY <1>4
<1>7. \/ L.last["compute"].pipeline = None /\ L.last["compute"].bindings = <<>>
      \/ Bound(L, VulkanPoint("compute"), L.last["compute"]) /\ VulkanLatest(L, "compute")
  BY <1>2 DEF VulkanInv, VulkanRemembers, VulkanForgets, NoState
<1>8. s.pipeline # None
  BY <1>2, StateFacts
<1>9. PipedAlready(ended, "compute", s)
  BY <1>4, <1>7, <1>8 DEF PipedAlready, Bound
<1>10. BoundAlready(ended, "compute", s, ended.last["compute"].bindings)
  BY <1>4, <1>7 DEF BoundAlready, Bound, VulkanLatest
<1>11. R = DispatchState(ended, "compute", s)
  BY <1>1, <1>4 DEF VulkanSetComputeState, DispatchState
<1> QED
  BY <1>3, <1>5, <1>6, <1>9, <1>10, <1>11, DispatchHolds

LEMMA RaysHolds ==
  ASSUME Assumptions, NEW s \in StatesOf("rays"), NEW L, IsList(L), VulkanInv(L), L.pass = None,
         BarriersKept(L, "rays", s), HasVolatile(s.bindings) => L.version = Latest,
         L.last["rays"].bindings \in {<<>>, L.sets["rays"]},
         L.last["rays"].pipeline \in {None, L.pipeline["rays"]},
         NEW R, R = VulkanSetRayTracingState(L, s)
  PROVE  IsList(R) /\ VulkanInv(R) /\ VulkanSet(R, "rays", s) /\ R.anyVolatile = FALSE
<1>1. "rays" \in Kinds /\ VulkanPoint("rays") = "rays"
  BY PointFacts
<1>2. s.pipeline # None
  BY <1>1, StateFacts
<1>3. PipedAlready(L, "rays", s)
  BY <1>1, <1>2 DEF PipedAlready
<1>4. L.last["rays"].bindings # <<>> =>
        L.sets["rays"] = L.last["rays"].bindings /\ VulkanLatest(L, "rays")
  BY <1>1 DEF VulkanInv, VulkanRemembers, VulkanForgets, NoState
<1>5. BoundAlready(L, "rays", s, L.last["rays"].bindings)
  BY <1>1, <1>4 DEF BoundAlready, VulkanLatest
<1>6. R = DispatchState(L, "rays", s)
  BY DEF VulkanSetRayTracingState, DispatchState
<1> QED
  BY <1>3, <1>5, <1>6, DispatchHolds

-----------------------------------------------------------------------------
(* Vulkan: everything else.                                                 *)

\* The values of the lists that no property of theirs depends on.
LEMMA VulkanRest ==
  ASSUME NEW L, IsList(L), VulkanInv(L), L.pass = None, NEW R,
         Same(R, L, {"state", "pending", "unordered", "uses", "dirty", "valid", "heap"})
  PROVE  VulkanInv(R)
<1>1. \A k \in Rasters : L.last[k].framebuffer = None
  BY DEF VulkanInv, VulkanPass
<1>2. /\ R.last = L.last /\ R.pass = L.pass /\ R.pipeline = L.pipeline /\ R.sets = L.sets
      /\ R.bound = L.bound /\ R.viewport = L.viewport /\ R.blend = L.blend /\ R.stencil = L.stencil
      /\ R.vertices = L.vertices /\ R.version = L.version /\ R.anyVolatile = L.anyVolatile
  BY DEF Same
<1>3. VulkanRemembers(R)
  BY <1>2 DEF VulkanInv, VulkanRemembers, Bound, ValuesSet, VulkanLatest
<1>4. VulkanForgets(R)
  BY <1>2 DEF VulkanInv, VulkanForgets
<1>5. VulkanPass(R)
  BY <1>1, <1>2 DEF VulkanPass
<1> QED
  BY <1>3, <1>4, <1>5 DEF VulkanInv

LEMMA IsNoState ==
  ASSUME NEW x \in CachedStates, x.pipeline = None, x.framebuffer = None, x.bindings = <<>>,
         x.values = None, x.indirect = None
  PROVE  x = NoState
  BY DEF CachedStates, NoState

LEMMA VulkanEnds ==
  ASSUME NEW L, IsList(L), VulkanInv(L), NEW R, R = EndRenderPass(L)
  PROVE  /\ IsList(R) /\ VulkanInv(R) /\ R.pass = None /\ Same(R, L, {"pass", "last"})
<1>1. /\ IsList(R) /\ Same(R, L, {"pass", "last"}) /\ SameLast(R, L) /\ R.pass = None
      /\ \A k \in Rasters : R.last[k].framebuffer = None
      /\ \A k \in Kinds \ Rasters : R.last[k].framebuffer = L.last[k].framebuffer
  BY EndFacts, NoPassEnds DEF VulkanInv, SameLast
<1>2. /\ R.pipeline = L.pipeline /\ R.sets = L.sets
      /\ R.bound = L.bound /\ R.viewport = L.viewport /\ R.blend = L.blend /\ R.stencil = L.stencil
      /\ R.vertices = L.vertices /\ R.version = L.version /\ R.anyVolatile = L.anyVolatile
  BY <1>1 DEF Same
<1>3. \A k \in Kinds : /\ R.last[k].pipeline = L.last[k].pipeline
                       /\ R.last[k].bindings = L.last[k].bindings
                       /\ R.last[k].values = L.last[k].values
                       /\ R.last[k].indirect = L.last[k].indirect
                       /\ R.last[k] \in CachedStates
  BY <1>1 DEF SameLast, IsList
<1>4. VulkanRemembers(R)
  BY <1>2, <1>3 DEF VulkanInv, VulkanRemembers, Bound, ValuesSet, VulkanLatest
<1>5. \A k \in Kinds : R.last[k].pipeline = None => R.last[k] = NoState
  <2> SUFFICES ASSUME NEW k \in Kinds, R.last[k].pipeline = None PROVE R.last[k] = NoState
    OBVIOUS
  <2>1. L.last[k] = NoState
    BY <1>3 DEF VulkanInv, VulkanForgets
  <2>2. R.last[k].framebuffer = None
    BY <1>1, <2>1 DEF NoState
  <2> QED
    BY <1>3, <2>1, <2>2, IsNoState DEF NoState
<1>6. VulkanForgets(R)
  BY <1>3, <1>5 DEF VulkanInv, VulkanForgets
<1>7. VulkanPass(R)
  BY <1>1 DEF VulkanPass
<1> QED
  BY <1>1, <1>4, <1>6, <1>7 DEF VulkanInv

LEMMA VulkanCommits ==
  ASSUME NEW L, IsList(L), VulkanInv(L), L.pass = None, NEW R, R = CommitVulkanBarriers(L)
  PROVE  IsList(R) /\ VulkanInv(R) /\ R.pass = None
<1>1. IsList(R) /\ Same(R, L, {"pass", "last", "pending"}) /\ R.pass = None
  BY CommitFacts, NoPassStays
<1>2. CASE L.pending = FALSE
  BY <1>1, <1>2, CommitFacts
<1>3. CASE L.pending = TRUE
  <2>1. PICK ended : ended = EndRenderPass(L)
    OBVIOUS
  <2>2. IsList(ended) /\ VulkanInv(ended) /\ ended.pass = None /\ Same(ended, L, {"pass", "last"})
    BY <2>1, VulkanEnds
  <2>3. R.last = ended.last /\ R.pass = ended.pass
    BY <1>3, <2>1, CommitFacts
  <2>4. Same(R, ended, {"state", "pending", "unordered", "uses", "dirty", "valid", "heap"})
    BY <1>1, <2>2, <2>3 DEF Same
  <2>5. VulkanInv(R)
    BY <2>2, <2>4, VulkanRest
  <2> QED
    BY <1>1, <2>5
<1> QED
  BY <1>2, <1>3 DEF IsList

\* A resource moved, and the barriers recorded, with no render pass active.
LEMMA VulkanMoves ==
  ASSUME NEW L, IsList(L), VulkanInv(L), L.pass = None, NEW needs,
         \A n \in needs : n[1] \in Resources, \A m, n \in needs : m[1] = n[1] => m = n,
         NEW M, M = Require(L, needs)
  PROVE  IsList(M) /\ VulkanInv(M) /\ M.pass = None
<1>1. IsList(M) /\ Same(M, L, {"state", "pending", "unordered"})
  BY RequireFacts
<1>2. Same(M, L, {"state", "pending", "unordered", "uses", "dirty", "valid", "heap"})
  BY <1>1 DEF Same
<1>3. VulkanInv(M)
  BY <1>2, VulkanRest
<1>4. M.pass = None
  BY <1>1 DEF Same
<1> QED
  BY <1>1, <1>3, <1>4

LEMMA VulkanWriteHolds ==
  ASSUME NEW L, IsList(L), VulkanInv(L), NEW r \in Resources, NEW R, R = VulkanWrite(L, r)
  PROVE  IsList(R) /\ VulkanInv(R)
<1>1. PICK ended : ended = EndRenderPass(L)
  OBVIOUS
<1>2. PICK moved : moved = Require(ended, {<<r, "copy">>})
  OBVIOUS
<1>3. PICK dirty : dirty = [moved EXCEPT !.dirty = TRUE]
  OBVIOUS
<1>4. R = CommitVulkanBarriers(dirty)
  BY <1>1, <1>2, <1>3 DEF VulkanWrite
<1>5. IsList(ended) /\ VulkanInv(ended) /\ ended.pass = None
  BY <1>1, VulkanEnds
<1>6. IsList(moved) /\ VulkanInv(moved) /\ moved.pass = None
  BY <1>2, <1>5, VulkanMoves
<1>7. DOMAIN dirty = Fields /\ dirty.dirty = TRUE /\ Same(dirty, moved, {"dirty"})
  BY <1>3, <1>6 DEF IsList, Fields, Same
<1>8. IsList(dirty)
  BY <1>6, <1>7 DEF IsList, Same
<1>9. dirty.pass = None /\ Same(dirty, moved, {"state", "pending", "unordered", "uses", "dirty", "valid", "heap"})
  BY <1>6, <1>7 DEF Same
<1>10. VulkanInv(dirty)
  BY <1>6, <1>9, VulkanRest
<1> QED
  BY <1>4, <1>8, <1>9, <1>10, VulkanCommits

LEMMA VulkanClearDepthHolds ==
  ASSUME NEW L, IsList(L), VulkanInv(L), NEW r \in Resources, NEW R, R = VulkanClearDepth(L, r)
  PROVE  IsList(R) /\ VulkanInv(R)
<1>1. PICK ended : ended = EndRenderPass(L)
  OBVIOUS
<1>2. PICK moved : moved = Require(ended, {<<r, "copy">>})
  OBVIOUS
<1>3. R = CommitVulkanBarriers(moved)
  BY <1>1, <1>2 DEF VulkanClearDepth
<1>4. IsList(ended) /\ VulkanInv(ended) /\ ended.pass = None
  BY <1>1, VulkanEnds
<1>5. IsList(moved) /\ VulkanInv(moved) /\ moved.pass = None
  BY <1>2, <1>4, VulkanMoves
<1> QED
  BY <1>3, <1>5, VulkanCommits

LEMMA NothingRemembered ==
  ASSUME NEW L, IsList(L), L.last = [k \in Kinds |-> NoState], L.pass = None
  PROVE  VulkanInv(L)
<1>1. \A k \in Kinds : L.last[k] = NoState /\ L.last[k].pipeline = None /\ L.last[k].framebuffer = None
  BY DEF NoState
<1>2. \A k \in Rasters : k \in Kinds
  BY PointFacts
<1> QED
  BY <1>1, <1>2 DEF VulkanInv, VulkanRemembers, VulkanForgets, VulkanPass

LEMMA NoStates == [k \in Kinds |-> NoState] \in [Kinds -> CachedStates]
  BY DEF NoState, CachedStates

LEMMA VulkanClearHolds ==
  ASSUME NEW L, IsList(L), VulkanInv(L), NEW R, R = VulkanClearState(L)
  PROVE  IsList(R) /\ VulkanInv(R) /\ R.last = [k \in Kinds |-> NoState] /\ DOMAIN R.state = Resources
<1>1. PICK ended : ended = EndRenderPass(L)
  OBVIOUS
<1>2. PICK last : last = [k \in Kinds |-> NoState]
  OBVIOUS
<1>3. R = [ended EXCEPT !.last = last, !.anyVolatile = FALSE]
  BY <1>1, <1>2 DEF VulkanClearState
<1>4. IsList(ended) /\ ended.pass = None
  BY <1>1, VulkanEnds
<1>5. /\ DOMAIN R = Fields /\ R.last = last /\ R.anyVolatile = FALSE /\ Same(R, ended, {"last", "anyVolatile"})
  BY <1>3, <1>4 DEF IsList, Fields, Same
<1>6. IsList(R)
  BY <1>2, <1>4, <1>5, NoStates DEF IsList, Same
<1>7. R.pass = None
  BY <1>4, <1>5 DEF Same
<1> QED
  BY <1>2, <1>5, <1>6, <1>7, NothingRemembered DEF IsList

LEMMA EmptyFacts ==
  /\ IsList(EmptyList) /\ EmptyList.last = [k \in Kinds |-> NoState] /\ EmptyList.pass = None
  /\ EmptyList.valid = {} /\ EmptyList.heap = 0 /\ EmptyList.anyVolatile = FALSE
<1>1. /\ DOMAIN EmptyList = Fields /\ EmptyList.last = [k \in Kinds |-> NoState]
      /\ EmptyList.valid = {} /\ EmptyList.dirty = FALSE /\ EmptyList.anyVolatile = FALSE
      /\ EmptyList.version = Nothing /\ EmptyList.addresses = [p \in Points |-> Nothing]
      /\ EmptyList.heap = 0 /\ EmptyList.state = [r \in Resources |-> "copy"]
      /\ EmptyList.pending = FALSE /\ EmptyList.pipeline = [p \in Points |-> None]
      /\ EmptyList.sets = [p \in Points |-> <<>>] /\ EmptyList.bound = [p \in Points |-> Nothing]
      /\ EmptyList.pass = None
  BY DEF EmptyList, Fields
<1>2. IsList(EmptyList)
  BY <1>1, NoStates DEF IsList
<1> QED
  BY <1>1, <1>2

LEMMA VulkanReopenHolds ==
  ASSUME NEW L, IsList(L), VulkanInv(L), NEW R, R = VulkanReopen(L)
  PROVE  IsList(R) /\ VulkanInv(R)
<1>1. PICK ended, needs : ended = EndRenderPass(L) /\ needs = {<<r, "copy">> : r \in Resources}
  OBVIOUS
<1>2. PICK moved : moved = Require(ended, needs)
  OBVIOUS
<1>3. PICK ready : ready = CommitVulkanBarriers(moved)
  OBVIOUS
<1>4. PICK closed : closed = VulkanClearState(ready)
  OBVIOUS
<1>5. IsList(ended) /\ VulkanInv(ended) /\ ended.pass = None
  BY <1>1, VulkanEnds
<1>6. (\A n \in needs : n[1] \in Resources) /\ (\A m, n \in needs : m[1] = n[1] => m = n)
  BY <1>1
<1>7. IsList(moved) /\ VulkanInv(moved) /\ moved.pass = None
  BY <1>2, <1>5, <1>6, VulkanMoves
<1>8. IsList(ready) /\ VulkanInv(ready)
  BY <1>3, <1>7, VulkanCommits
<1>9. IsList(closed) /\ closed.last = [k \in Kinds |-> NoState]
  BY <1>4, <1>8, VulkanClearHolds
<1>10. R = [EmptyList EXCEPT !.dirty = closed.dirty, !.last = closed.last,
                             !.anyVolatile = closed.anyVolatile, !.state = closed.state]
  BY <1>1, <1>2, <1>3, <1>4 DEF VulkanReopen
<1>11. /\ DOMAIN R = Fields /\ R.dirty = closed.dirty /\ R.last = closed.last
       /\ R.anyVolatile = closed.anyVolatile /\ R.state = closed.state
       /\ Same(R, EmptyList, {"dirty", "last", "anyVolatile", "state"})
  BY <1>10, EmptyFacts DEF IsList, Fields, Same
<1>12. IsList(R)
  BY <1>9, <1>11, EmptyFacts DEF IsList, Same
<1>13. R.pass = None
  BY <1>11, EmptyFacts DEF Same
<1> QED
  BY <1>9, <1>11, <1>12, <1>13, NothingRemembered

LEMMA WriteVersionFacts ==
  ASSUME NEW L, IsList(L), NEW R, R = WriteVersion(L)
  PROVE  /\ IsList(R) /\ Same(R, L, {"version", "bound", "addresses"}) /\ R.version = Latest
         /\ R.bound = Outdate(L.bound) /\ R.addresses = Outdate(L.addresses)
<1>1. PICK bound, addresses : bound = Outdate(L.bound) /\ addresses = Outdate(L.addresses)
  OBVIOUS
<1>2. R = [L EXCEPT !.version = Latest, !.bound = bound, !.addresses = addresses]
  BY <1>1 DEF WriteVersion, IsList, Fields
<1>3. /\ DOMAIN R = Fields /\ R.version = Latest /\ R.bound = bound /\ R.addresses = addresses
      /\ Same(R, L, {"version", "bound", "addresses"})
  BY <1>2 DEF IsList, Fields, Same
<1>4. DOMAIN bound = Points /\ DOMAIN addresses = Points
  BY <1>1 DEF Outdate
<1>5. IsList(R)
  BY <1>3, <1>4 DEF IsList, Same
<1> QED
  BY <1>1, <1>3, <1>5

LEMMA VulkanVolatileHolds ==
  ASSUME NEW L, IsList(L), VulkanInv(L), NEW R, R = VulkanWriteVolatile(L)
  PROVE  /\ IsList(R) /\ VulkanInv(R)
         /\ \A k \in Kinds, s \in CachedStates : VulkanSet(L, k, s) => VulkanSet(R, k, s)
<1>1. PICK written : written = WriteVersion(L)
  OBVIOUS
<1>2. R = [written EXCEPT !.anyVolatile = TRUE]
  BY <1>1 DEF VulkanWriteVolatile
<1>3. /\ IsList(written) /\ Same(written, L, {"version", "bound", "addresses"}) /\ written.version = Latest
  BY <1>1, WriteVersionFacts
<1>4. DOMAIN R = Fields /\ R.anyVolatile = TRUE /\ Same(R, written, {"anyVolatile"})
  BY <1>2, <1>3 DEF IsList, Fields, Same
<1>5. IsList(R)
  BY <1>3, <1>4 DEF IsList, Same
<1>6. /\ R.last = L.last /\ R.pass = L.pass /\ R.pipeline = L.pipeline /\ R.sets = L.sets
      /\ R.viewport = L.viewport /\ R.blend = L.blend /\ R.stencil = L.stencil
      /\ R.vertices = L.vertices /\ R.version = Latest /\ R.state = L.state
      /\ R.pending = L.pending /\ R.unordered = L.unordered
  BY <1>3, <1>4 DEF Same
<1>7. \A k \in Kinds : VulkanLatest(R, k)
  BY <1>4, <1>6 DEF VulkanLatest
<1>8. VulkanRemembers(R)
  BY <1>6, <1>7 DEF VulkanInv, VulkanRemembers, Bound, ValuesSet
<1>9. VulkanForgets(R) /\ VulkanPass(R)
  BY <1>6 DEF VulkanInv, VulkanForgets, VulkanPass
<1>10. \A k \in Kinds, s \in CachedStates : VulkanSet(L, k, s) => VulkanSet(R, k, s)
  BY <1>6, <1>7 DEF VulkanSet, Bound, Prepared, Ready
<1> QED
  BY <1>5, <1>8, <1>9, <1>10 DEF VulkanInv

LEMMA VulkanFailsHolds ==
  ASSUME Assumptions, NEW s \in StatesOf("rays"), NEW L, IsList(L), VulkanInv(L), L.pass = None,
         HasVolatile(s.bindings) => L.version = Latest,
         NEW R, R = VulkanRayTracingStateFails(L, s)
  PROVE  IsList(R) /\ VulkanInv(R)
<1>1. PICK required, piped : required = InsertResourceBarriers(L, "rays", s)
                             /\ piped = BindPipeline(required, "rays", s.pipeline)
  OBVIOUS
<1>2. R = BindIfChanged(piped, "rays", s, L.last["rays"].bindings)
  BY <1>1 DEF VulkanRayTracingStateFails
<1>3. "rays" \in Kinds /\ "rays" \notin Rasters /\ VulkanPoint("rays") = "rays" /\ "rays" \in Points
  BY PointFacts DEF Rasters
<1>4. IsList(required) /\ Same(required, L, {"state", "pending", "unordered", "dirty"})
  BY <1>1, <1>3, BarriersSame
<1>5. VulkanInv(required) /\ required.pass = None
  <2>1. required.pass = None /\ Same(required, L, {"state", "pending", "unordered", "uses", "dirty", "valid", "heap"})
    BY <1>4 DEF Same
  <2> QED
    BY <2>1, VulkanRest
<1>6. /\ IsList(piped) /\ Same(piped, required, {"pipeline", "stencil", "blend"})
      /\ \A point \in Points \ {"rays"} : piped.pipeline[point] = required.pipeline[point]
      /\ piped.stencil = required.stencil /\ piped.blend = required.blend
  BY <1>1, <1>3, <1>4, PipelineFacts
<1>7. piped.version = L.version /\ required.version = L.version
  BY <1>4, <1>6 DEF Same
<1>8. /\ IsList(R) /\ Same(R, piped, {"sets", "bound"})
      /\ \A p \in Points \ {"rays"} : R.sets[p] = piped.sets[p] /\ R.bound[p] = piped.bound[p]
      /\ \/ R.sets = piped.sets /\ R.bound = piped.bound
         \/ /\ R.sets["rays"] = s.bindings
            /\ HasVolatile(s.bindings) => R.bound["rays"] = piped.version
  <2>1. CASE R = piped
    BY <1>6, <2>1 DEF Same
  <2>2. CASE R = BindBindingSets(piped, "rays", s.bindings)
    BY <1>3, <1>6, <2>1, <2>2, BindFacts
  <2> QED
    BY <1>2, <1>3, <2>1, <2>2 DEF BindIfChanged
<1>9. /\ R.last = required.last /\ R.pass = required.pass /\ R.viewport = required.viewport
      /\ R.blend = required.blend /\ R.stencil = required.stencil /\ R.vertices = required.vertices
      /\ R.version = required.version /\ R.anyVolatile = required.anyVolatile
      /\ R.state = required.state /\ R.pipeline = piped.pipeline
      /\ piped.sets = required.sets /\ piped.bound = required.bound
  BY <1>6, <1>8 DEF Same
<1>10. \A k \in Kinds \ {"rays"} :
         /\ R.pipeline[VulkanPoint(k)] = required.pipeline[VulkanPoint(k)]
         /\ R.sets[VulkanPoint(k)] = required.sets[VulkanPoint(k)]
         /\ R.bound[VulkanPoint(k)] = required.bound[VulkanPoint(k)]
  BY <1>6, <1>8, <1>9, PointFacts
<1>11. ASSUME NEW k \in Kinds, k # "rays", R.last[k].pipeline # None
       PROVE  /\ Bound(R, VulkanPoint(k), R.last[k]) /\ (k \in Rasters => ValuesSet(R, k, R.last[k]))
              /\ VulkanLatest(R, k)
  BY <1>5, <1>9, <1>10, <1>11 DEF VulkanInv, VulkanRemembers, Bound, ValuesSet, VulkanLatest
<1>12. ASSUME R.last["rays"].pipeline # None, R.sets["rays"] = R.last["rays"].bindings
       PROVE  VulkanLatest(R, "rays")
  <2>1. CASE R.sets = piped.sets /\ R.bound = piped.bound
    BY <1>3, <1>5, <1>9, <1>12, <2>1 DEF VulkanInv, VulkanRemembers, VulkanLatest
  <2>2. CASE R.sets["rays"] = s.bindings /\ (HasVolatile(s.bindings) => R.bound["rays"] = piped.version)
    BY <1>3, <1>7, <1>9, <1>12, <2>2 DEF VulkanLatest
  <2> QED
    BY <1>8, <2>1, <2>2
<1>13. VulkanRemembers(R)
  BY <1>3, <1>11, <1>12 DEF VulkanRemembers
<1>14. VulkanForgets(R) /\ VulkanPass(R)
  BY <1>5, <1>9 DEF VulkanInv, VulkanForgets, VulkanPass
<1> QED
  BY <1>8, <1>13, <1>14 DEF VulkanInv

\* The draw binds what the state holds again when the volatile buffer has been written.
LEMMA VulkanRebinds ==
  ASSUME Assumptions, NEW k \in Kinds \ {"rays"}, NEW s \in StatesOf(k), NEW L, IsList(L),
         VulkanInv(L), VulkanSet(L, k, s), NEW R, R = UpdateVolatileBuffers(L, k)
  PROVE  IsList(R) /\ VulkanInv(R) /\ VulkanSet(R, k, s) /\ R.anyVolatile = FALSE
<1>1. CASE L.anyVolatile = FALSE
  BY <1>1 DEF UpdateVolatileBuffers
<1>2. CASE L.anyVolatile = TRUE
  <2>1. /\ s.pipeline # None /\ L.last[k] = s /\ VulkanPoint(k) \in Points
        /\ L.pass = s.framebuffer /\ Bound(L, VulkanPoint(k), s) /\ Prepared(L, s)
        /\ HasVolatile(s.bindings) => L.version = Latest
    BY StateFacts, PointFacts DEF VulkanSet, VulkanLatest
  <2>2. PICK boundTo : boundTo = BindBindingSets(L, VulkanPoint(k), s.bindings)
    OBVIOUS
  <2>3. R = [boundTo EXCEPT !.anyVolatile = FALSE]
    BY <1>2, <2>1, <2>2 DEF UpdateVolatileBuffers
  <2>4. /\ IsList(boundTo) /\ Same(boundTo, L, {"sets", "bound"})
        /\ s.bindings # <<>> => boundTo.sets[VulkanPoint(k)] = s.bindings
        /\ s.bindings # <<>> /\ HasVolatile(s.bindings) => boundTo.bound[VulkanPoint(k)] = L.version
    BY <2>1, <2>2, BindFacts
  <2>5. DOMAIN R = Fields /\ R.anyVolatile = FALSE /\ Same(R, boundTo, {"anyVolatile"})
    BY <2>3, <2>4 DEF IsList, Fields, Same
  <2>6. IsList(R)
    BY <2>4, <2>5 DEF IsList, Same
  <2>7. /\ R.last = L.last /\ R.pass = L.pass /\ R.pipeline = L.pipeline /\ R.sets = boundTo.sets
        /\ R.viewport = L.viewport /\ R.blend = L.blend /\ R.stencil = L.stencil
        /\ R.vertices = L.vertices /\ R.version = L.version /\ R.state = L.state
        /\ R.bound = boundTo.bound /\ R.pending = L.pending /\ R.unordered = L.unordered
    BY <2>4, <2>5 DEF Same
  <2>8. VulkanLatest(R, k)
    BY <2>1, <2>4, <2>7, NoVolatile DEF VulkanLatest
  <2>9. Bound(R, VulkanPoint(k), s)
    BY <2>1, <2>4, <2>7 DEF Bound
  <2>10. k \in Rasters => ValuesSet(R, k, s)
    BY <2>1, <2>7 DEF ValuesSet, VulkanInv, VulkanRemembers
  <2>11. VulkanSet(R, k, s)
    BY <2>1, <2>7, <2>8, <2>9 DEF VulkanSet, Prepared, Ready
  <2>12. VulkanForgets(R) /\ VulkanPass(R)
    BY <2>7 DEF VulkanInv, VulkanForgets, VulkanPass
  <2>13. VulkanRemembers(R)
    BY <2>1, <2>7, <2>8, <2>9, <2>10, <2>12 DEF VulkanRemembers, VulkanForgets
  <2> QED
    BY <2>5, <2>6, <2>11, <2>12, <2>13 DEF VulkanInv
<1> QED
  BY <1>1, <1>2 DEF IsList

LEMMA VulkanDrawHolds ==
  ASSUME Assumptions, NEW k \in Kinds, NEW s \in StatesOf(k), NEW L, IsList(L),
         VulkanInv(L), VulkanSet(L, k, s), k = "rays" => L.anyVolatile = FALSE,
         NEW R, R = IF k = "rays" THEN UpdateRayTracingVolatileBuffers(L) ELSE UpdateVolatileBuffers(L, k)
  PROVE  IsList(R) /\ VulkanInv(R) /\ VulkanSet(R, k, s) /\ R.anyVolatile = FALSE
<1>1. CASE k = "rays"
  BY <1>1 DEF UpdateRayTracingVolatileBuffers
<1>2. CASE k # "rays"
  BY <1>2, VulkanRebinds
<1> QED
  BY <1>1, <1>2

-----------------------------------------------------------------------------
(* Every backend: what a list counts of the accesses to UAVs.               *)

LEMMA SupersededFacts ==
  ASSUME NEW L, IsList(L), NEW R, R = Superseded(L)
  PROVE  /\ IsList(R) /\ Same(R, L, {"uses", "unordered"}) /\ R.unordered = L.unordered \cup L.uses
<1>1. PICK unordered : unordered = L.unordered \cup L.uses
  OBVIOUS
<1>2. R = [L EXCEPT !.unordered = unordered, !.uses = {}]
  BY <1>1 DEF Superseded, IsList, Fields
<1>3. /\ DOMAIN R = Fields /\ R.unordered = unordered /\ Same(R, L, {"uses", "unordered"})
  BY <1>2 DEF IsList, Fields, Same
<1>4. IsList(R)
  BY <1>3 DEF IsList, Same
<1> QED
  BY <1>1, <1>3, <1>4

LEMMA AccessFacts ==
  ASSUME NEW L, IsList(L), NEW s, NEW R, R = Access(L, s)
  PROVE  IsList(R) /\ Same(R, L, {"uses"})
<1>1. PICK uses : uses = L.uses \cup UavsOf(s.bindings)
  OBVIOUS
<1>2. R = [L EXCEPT !.uses = uses]
  BY <1>1 DEF Access, IsList, Fields
<1>3. DOMAIN R = Fields /\ Same(R, L, {"uses"})
  BY <1>2 DEF IsList, Fields, Same
<1> QED
  BY <1>3 DEF IsList, Same

LEMMA WithoutFacts ==
  ASSUME NEW L, IsList(L), NEW R, R = WithoutDrawValues(L)
  PROVE  /\ IsList(R)
         /\ Same(R, L, {"viewport", "scissor", "blend", "stencil", "vertices", "strides", "target"})
<1>1. /\ DOMAIN R = Fields
      /\ Same(R, L, {"viewport", "scissor", "blend", "stencil", "vertices", "strides", "target"})
  BY DEF WithoutDrawValues, IsList, Fields, Same
<1> QED
  BY <1>1 DEF IsList, Same

-----------------------------------------------------------------------------
(* D3D12: heaps, pipelines, binding sets.                                   *)

LEMMA HeapFacts ==
  ASSUME NEW L, IsList(L), NEW heap, NEW R, R = CommitDescriptorHeaps(L, heap)
  PROVE  /\ IsList(R) /\ Same(R, L, {"heap", "sets"}) /\ R.heap = heap
         /\ ~HeapsDiffer(L, heap) => R.sets = L.sets
<1>1. CASE HeapsDiffer(L, heap)
  <2>1. PICK sets : sets = [p \in Points |-> <<>>]
    OBVIOUS
  <2>2. R = [L EXCEPT !.heap = heap, !.sets = sets]
    BY <1>1, <2>1 DEF CommitDescriptorHeaps
  <2>3. DOMAIN R = Fields /\ R.heap = heap /\ R.sets = sets /\ Same(R, L, {"heap", "sets"})
    BY <2>2 DEF IsList, Fields, Same
  <2>4. IsList(R)
    BY <2>1, <2>3 DEF IsList, Same
  <2> QED
    BY <1>1, <2>3, <2>4
<1>2. CASE ~HeapsDiffer(L, heap)
  BY <1>2 DEF CommitDescriptorHeaps, HeapsDiffer, Same
<1> QED
  BY <1>1, <1>2

\* The pipeline remembered is the one bound.
RootedAlready(L, k, s) ==
    k \in L.valid /\ L.last[k].pipeline = s.pipeline => L.pipeline[RootPoint(k)] = s.pipeline

LEMMA RootFacts ==
  ASSUME NEW L, IsList(L), NEW k \in Kinds, NEW s, RootedAlready(L, k, s),
         NEW R, R = BindD3D12Pipeline(L, k, s)
  PROVE  /\ IsList(R) /\ Same(R, L, {"sets", "bound", "pipeline"})
         /\ R.pipeline[RootPoint(k)] = s.pipeline
         /\ ~NewRootSignature(L, k, s) => R.sets = L.sets /\ R.bound = L.bound
<1>1. PICK point \in Points : point = RootPoint(k)
  BY PointFacts
<1>2. PICK rooted : rooted = IF NewRootSignature(L, k, s)
                             THEN [L EXCEPT !.sets[point] = <<>>, !.bound[point] = Nothing] ELSE L
  OBVIOUS
<1>3. R = IF k \in L.valid /\ L.last[k].pipeline = s.pipeline THEN rooted
          ELSE [rooted EXCEPT !.pipeline = [p \in Points |-> s.pipeline]]
  BY <1>1, <1>2 DEF BindD3D12Pipeline
<1>4. /\ IsList(rooted) /\ Same(rooted, L, {"sets", "bound"})
      /\ ~NewRootSignature(L, k, s) => rooted.sets = L.sets /\ rooted.bound = L.bound
  <2>1. CASE NewRootSignature(L, k, s)
    <3>1. PICK sets, bound : sets = [L.sets EXCEPT ![point] = <<>>] /\ bound = [L.bound EXCEPT ![point] = Nothing]
      OBVIOUS
    <3>2. rooted = [L EXCEPT !.sets = sets, !.bound = bound]
      BY <1>2, <2>1, <3>1 DEF IsList, Fields
    <3>3. /\ DOMAIN rooted = Fields /\ rooted.sets = sets /\ rooted.bound = bound
          /\ Same(rooted, L, {"sets", "bound"})
      BY <3>2 DEF IsList, Fields, Same
    <3>4. IsList(rooted)
      BY <3>1, <3>3 DEF IsList, Same
    <3> QED
      BY <2>1, <3>3, <3>4
  <2>2. CASE ~NewRootSignature(L, k, s)
    BY <1>2, <2>2 DEF Same
  <2> QED
    BY <2>1, <2>2
<1>5. CASE k \in L.valid /\ L.last[k].pipeline = s.pipeline
  <2>1. R = rooted
    BY <1>3, <1>5
  <2>2. R.pipeline = L.pipeline /\ Same(R, L, {"sets", "bound", "pipeline"})
    BY <1>4, <2>1 DEF Same
  <2> QED
    BY <1>4, <1>5, <2>1, <2>2 DEF RootedAlready
<1>6. CASE ~(k \in L.valid /\ L.last[k].pipeline = s.pipeline)
  <2>1. PICK pipeline : pipeline = [p \in Points |-> s.pipeline]
    OBVIOUS
  <2>2. R = [rooted EXCEPT !.pipeline = pipeline]
    BY <1>3, <1>6, <2>1
  <2>3. DOMAIN R = Fields /\ R.pipeline = pipeline /\ Same(R, rooted, {"pipeline"})
    BY <1>4, <2>2 DEF IsList, Fields, Same
  <2>4. IsList(R)
    BY <1>4, <2>1, <2>3 DEF IsList, Same
  <2>5. Same(R, L, {"sets", "bound", "pipeline"}) /\ R.sets = rooted.sets /\ R.bound = rooted.bound
    BY <1>4, <2>3 DEF Same
  <2>6. R.pipeline[RootPoint(k)] = s.pipeline
    BY <1>1, <2>1, <2>3
  <2> QED
    BY <1>4, <2>4, <2>5, <2>6
<1> QED
  BY <1>5, <1>6

\* A binding set left out of the mask is the one bound before, in the same heap.
Unmasked(L, k, s, heap) == k \in L.valid /\ ~NewRootSignature(L, k, s) /\ ~HeapsDiffer(L, heap)

LEMMA MaskFacts ==
  ASSUME Assumptions, NEW k \in Kinds, NEW s \in StatesOf(k), NEW L, IsList(L), NEW heap,
         NEW mask, mask = BindingUpdateMask(L, k, s, heap)
  PROVE  /\ mask = {} => Unmasked(L, k, s, heap) /\ L.last[k].bindings = s.bindings
         /\ \A i \in DOMAIN s.bindings : i \notin mask =>
              /\ Unmasked(L, k, s, heap) /\ i \in DOMAIN L.last[k].bindings
              /\ L.last[k].bindings[i] = s.bindings[i]
<1>1. PICK new \in Seq(BindingSets), old \in Seq(BindingSets) :
        new = s.bindings /\ old = L.last[k].bindings /\ Len(new) <= 8
  BY StateFacts DEF IsList, CachedStates
<1>2. \A i \in DOMAIN new : i \in AllSets
  <2>1. PICK n \in Nat : n = Len(new) /\ DOMAIN new = 1..n
    OBVIOUS
  <2>2. n <= 8 => \A i \in 1..n : i \in 1..32
    OBVIOUS
  <2> QED
    BY <1>1, <2>1, <2>2 DEF AllSets
<1>3. AllSets # {}
  <2>1. 1 \in 1..32
    OBVIOUS
  <2> QED
    BY <2>1 DEF AllSets
<1>4. CASE NewRootSignature(L, k, s) \/ HeapsDiffer(L, heap)
  <2>1. mask = AllSets
    BY <1>4 DEF BindingUpdateMask
  <2> QED
    BY <1>1, <1>2, <1>3, <2>1
<1>5. CASE ~(NewRootSignature(L, k, s) \/ HeapsDiffer(L, heap))
  <2>1. mask = Changed(old, new) /\ Unmasked(L, k, s, heap)
    BY <1>1, <1>5 DEF BindingUpdateMask, Unmasked, NewRootSignature
  <2>2. Changed(old, new) = {} => old = new
    BY UnchangedSame
  <2>3. ASSUME NEW i \in DOMAIN new, i \notin Changed(old, new)
        PROVE  i \in DOMAIN old /\ old[i] = new[i]
    <3>1. Len(old) = Len(new)
      BY <1>2, <2>3 DEF Changed
    <3>2. DOMAIN old = DOMAIN new
      BY <3>1
    <3> QED
      BY <2>3, <3>1, <3>2 DEF Changed
  <2> QED
    BY <1>1, <2>1, <2>2, <2>3
<1> QED
  BY <1>4, <1>5

\* The orders of calls avoided, and the volatile buffer written before it is bound.
D3D12Kept(L, k, s) ==
    /\ k \in L.valid =>
         /\ k = "meshlet" => "rays" \notin L.valid
         /\ L.last[k].bindings = s.bindings =>
              /\ \A x \in SetsOf(s.bindings) : \A n \in SetNeeds(x) : L.state[n[1]] = n[2]
              /\ UavsOf(s.bindings) \cap L.unordered = {}
         /\ L.last[k].indirect = s.indirect => \A n \in IndirectNeeds(s) : L.state[n[1]] = n[2]
         /\ k \in Rasters /\ L.last[k].pipeline # s.pipeline => L.last[k].values # s.values
    /\ HasVolatile(s.bindings) => L.version = Latest

\* The list M that list L has become before its bindings are set.
BeforeBindings(M, L, k, s, heap) ==
    /\ IsList(M) /\ M.pipeline[RootPoint(k)] = s.pipeline
    /\ M.valid = L.valid /\ M.last = L.last /\ M.dirty = L.dirty /\ M.version = L.version
    /\ M.anyVolatile = L.anyVolatile /\ M.addresses = L.addresses
    /\ Unmasked(L, k, s, heap) => M.sets = L.sets /\ M.bound = L.bound
    /\ \A n \in Needs(s) : n \in TargetNeeds(s) \/ L.state[n[1]] = n[2] => M.state[n[1]] = n[2]
    /\ \A u \in M.unordered : u \in L.unordered

\* What is known of a state that is still valid.
LEMMA D3D12Known ==
  ASSUME NEW L, D3D12Inv(L), NEW k \in Kinds, NEW s, D3D12Kept(L, k, s), k \in L.valid
  PROVE  /\ Bound(L, RootPoint(k), L.last[k]) /\ D3D12Latest(L, RootPoint(k), L.last[k])
         /\ L.dirty = FALSE => Ready(L, L.last[k])
         /\ k \in Rasters =>
              /\ ValuesSet(L, k, L.last[k])
              /\ L.scissor = (L.last[k].pipeline \in ScissorEnabled)
              /\ k = "graphics" => L.strides = InputLayout[L.last[k].pipeline]
              /\ L.target = L.last[k].framebuffer
  BY DEF D3D12Inv, D3D12Remembers, D3D12Knows, D3D12Kept

\* The sets and the volatile buffer bound at a point.
BindTables(M, point, x, mask, needs) ==
    [Require(M, needs) EXCEPT
        !.sets[point] = [i \in DOMAIN x |-> IF i \in mask \/ i \notin DOMAIN @ THEN x[i] ELSE @[i]],
        !.bound[point] = IF HasVolatile(x) THEN M.version ELSE @,
        !.addresses[point] = IF HasVolatile(x) THEN M.version ELSE Nothing]

Unmoved(M, point, s, mask) ==
    \A i \in DOMAIN s.bindings : i \notin mask /\ i \in DOMAIN M.sets[point] =>
        M.sets[point][i] = s.bindings[i]
Tabled(R, M, point, s, needs) ==
    /\ IsList(R)
    /\ Same(R, M, {"state", "pending", "unordered", "sets", "bound", "addresses"})
    /\ R.sets[point] = s.bindings
    /\ HasVolatile(s.bindings) => R.bound[point] = M.version /\ R.addresses[point] = M.version
    /\ \A n \in Needs(s) : n \in needs \/ M.state[n[1]] = n[2] => R.state[n[1]] = n[2]
    /\ \A u \in R.unordered : u \in M.unordered /\ <<u, "uav">> \notin needs

LEMMA TablesFacts ==
  ASSUME Assumptions, NEW k \in Kinds, NEW s \in StatesOf(k), NEW M, IsList(M), NEW point \in Points,
         NEW mask, NEW needs, needs \subseteq Needs(s),
         Unmoved(M, point, s, mask), NEW R, R = BindTables(M, point, s.bindings, mask, needs)
  PROVE  Tabled(R, M, point, s, needs)
<1>1. PICK required : required = Require(M, needs)
  OBVIOUS
<1>2. /\ IsList(required) /\ Same(required, M, {"state", "pending", "unordered"})
      /\ \A n \in Needs(s) : n \in needs \/ M.state[n[1]] = n[2] => required.state[n[1]] = n[2]
      /\ \A u \in required.unordered : u \in M.unordered /\ <<u, "uav">> \notin needs
  BY <1>1, RequireNeeds
<1>3. PICK x \in Seq(BindingSets) : x = s.bindings
  BY StateFacts
<1>4. PICK table : table = [i \in DOMAIN x |-> IF i \in mask \/ i \notin DOMAIN M.sets[point]
                                              THEN x[i] ELSE M.sets[point][i]]
  OBVIOUS
<1>5. PICK n \in Nat : n = Len(x) /\ x \in [1..n -> BindingSets]
  OBVIOUS
<1>6. table = x
  <2>1. \A i \in DOMAIN x : table[i] = x[i]
    BY <1>3, <1>4 DEF Unmoved
  <2>2. DOMAIN table = DOMAIN x /\ table = [i \in DOMAIN x |-> table[i]]
    BY <1>4
  <2>3. x = [i \in DOMAIN x |-> x[i]]
    BY <1>5
  <2> QED
    BY <2>1, <2>2, <2>3
<1>7. PICK word, address :
        /\ word = IF HasVolatile(x) THEN M.version ELSE required.bound[point]
        /\ address = IF HasVolatile(x) THEN M.version ELSE Nothing
  OBVIOUS
<1>8. PICK sets, bound, addresses :
        /\ sets = [required.sets EXCEPT ![point] = table]
        /\ bound = [required.bound EXCEPT ![point] = word]
        /\ addresses = [required.addresses EXCEPT ![point] = address]
  OBVIOUS
<1>9. required.sets = M.sets
  BY <1>2 DEF Same
<1>10. R = [required EXCEPT !.sets = sets, !.bound = bound, !.addresses = addresses]
  <2>1. R = [required EXCEPT !.sets[point] = table, !.bound[point] = word, !.addresses[point] = address]
    BY <1>1, <1>3, <1>4, <1>7, <1>9, <1>2 DEF BindTables, IsList, Fields
  <2> QED
    BY <2>1, <1>8, <1>2 DEF IsList, Fields
<1>11. /\ DOMAIN R = Fields /\ R.sets = sets /\ R.bound = bound /\ R.addresses = addresses
       /\ Same(R, required, {"sets", "bound", "addresses"})
  BY <1>2, <1>10 DEF IsList, Fields, Same
<1>12. IsList(R)
  BY <1>2, <1>8, <1>11 DEF IsList, Same
<1>13. /\ Same(R, M, {"state", "pending", "unordered", "sets", "bound", "addresses"})
       /\ R.state = required.state /\ R.unordered = required.unordered
  BY <1>2, <1>11 DEF Same
<1>14. sets[point] = table /\ bound[point] = word /\ addresses[point] = address
  BY <1>2, <1>8 DEF IsList
<1> QED
  BY <1>2, <1>3, <1>6, <1>7, <1>11, <1>12, <1>13, <1>14 DEF Tabled

LEMMA BindingsFacts ==
  ASSUME Assumptions, NEW k \in Kinds, NEW s \in StatesOf(k), NEW L, IsList(L), D3D12Inv(L),
         D3D12Kept(L, k, s), NEW heap, NEW mask, mask = BindingUpdateMask(L, k, s, heap),
         NEW M, BeforeBindings(M, L, k, s, heap),
         \A n \in TargetNeeds(s) : M.state[n[1]] = n[2],
         NEW R, R = SetBindings(M, k, s, mask)
  PROVE  /\ IsList(R)
         /\ Same(R, M, {"state", "pending", "unordered", "sets", "bound", "addresses", "anyVolatile"})
         /\ Bound(R, RootPoint(k), s) /\ D3D12Latest(R, RootPoint(k), s)
         /\ Ready(R, s) /\ UavsOf(s.bindings) \cap R.unordered = {}
<1>1. PICK point \in Points : point = RootPoint(k)
  BY PointFacts
<1>2. PICK x \in Seq(BindingSets) : x = s.bindings
  BY StateFacts
<1> DEFINE placed0 == {s.bindings[i] : i \in {j \in DOMAIN s.bindings :
                          M.dirty \/ j \in mask \/ Writes[s.bindings[j]] # {}}}
           needs0 == UNION {SetNeeds(y) : y \in placed0}
           tables0 == IF mask = {} THEN M ELSE BindTables(M, RootPoint(k), s.bindings, mask, needs0)
           params0 == IF k \notin M.valid \/ M.last[k].indirect # s.indirect
                      THEN Require(tables0, IndirectNeeds(s)) ELSE tables0
<1>3. R = [params0 EXCEPT !.anyVolatile = IF DOMAIN s.bindings \subseteq mask THEN FALSE ELSE @]
  BY DEF SetBindings, BindTables
<1>4. PICK placed, needs, tables, params :
        placed = placed0 /\ needs = needs0 /\ tables = tables0 /\ params = params0
  OBVIOUS
<1>5. needs = UNION {SetNeeds(y) : y \in placed}
  BY <1>4
<1>6. /\ mask = {} => tables = M
      /\ mask # {} => tables = BindTables(M, point, s.bindings, mask, needs)
  BY <1>1, <1>4
<1>7. /\ k \notin M.valid \/ M.last[k].indirect # s.indirect => params = Require(tables, IndirectNeeds(s))
      /\ ~(k \notin M.valid \/ M.last[k].indirect # s.indirect) => params = tables
  BY <1>4
<1>8. PICK any : any = IF DOMAIN s.bindings \subseteq mask THEN FALSE ELSE params.anyVolatile
  OBVIOUS
<1>9. R = [params EXCEPT !.anyVolatile = any]
  BY <1>3, <1>4, <1>8
<1>10. \A i \in DOMAIN x : x[i] \notin placed => ~(M.dirty \/ i \in mask \/ Writes[x[i]] # {})
  BY <1>2, <1>4
<1>11. placed \subseteq SetsOf(s.bindings)
  BY <1>4 DEF SetsOf
<1> HIDE DEF placed0, needs0, tables0, params0
<1>12. /\ IsList(M) /\ M.pipeline[point] = s.pipeline
       /\ M.valid = L.valid /\ M.last = L.last /\ M.dirty = L.dirty /\ M.version = L.version
       /\ M.anyVolatile = L.anyVolatile /\ M.addresses = L.addresses
       /\ Unmasked(L, k, s, heap) => M.sets = L.sets /\ M.bound = L.bound
       /\ \A n \in Needs(s) : n \in TargetNeeds(s) \/ L.state[n[1]] = n[2] => M.state[n[1]] = n[2]
       /\ \A u \in M.unordered : u \in L.unordered
  BY <1>1 DEF BeforeBindings
<1>13. /\ mask = {} => Unmasked(L, k, s, heap) /\ L.last[k].bindings = x
       /\ \A i \in DOMAIN x : i \notin mask =>
            /\ Unmasked(L, k, s, heap) /\ i \in DOMAIN L.last[k].bindings
            /\ L.last[k].bindings[i] = x[i]
  BY <1>2, MaskFacts
<1>14. Unmasked(L, k, s, heap) =>
         /\ k \in L.valid /\ Bound(L, point, L.last[k]) /\ D3D12Latest(L, point, L.last[k])
         /\ L.dirty = FALSE => Ready(L, L.last[k])
  BY <1>1, D3D12Known DEF Unmasked
<1>15. needs \subseteq Needs(s)
  <2>1. \A y \in placed : SetNeeds(y) \subseteq Needs(s)
    BY <1>11, NeedsFacts
  <2> QED
    BY <1>5, <2>1
\* The sets bound.
<1>16. ASSUME NEW i \in DOMAIN x, i \notin mask
       PROVE  M.sets[point][i] = x[i]
  <2>1. L.last[k].bindings # <<>> /\ L.last[k].bindings[i] = x[i] /\ Unmasked(L, k, s, heap)
    BY <1>13, <1>16
  <2> QED
    BY <1>12, <1>14, <2>1 DEF Bound
<1>17. ASSUME mask # {}
       PROVE  /\ IsList(tables)
              /\ Same(tables, M, {"state", "pending", "unordered", "sets", "bound", "addresses"})
              /\ tables.sets[point] = x
              /\ HasVolatile(x) => tables.bound[point] = M.version /\ tables.addresses[point] = M.version
              /\ \A n \in Needs(s) : n \in needs \/ M.state[n[1]] = n[2] => tables.state[n[1]] = n[2]
              /\ \A u \in tables.unordered : u \in M.unordered /\ <<u, "uav">> \notin needs
  <2>1. tables = BindTables(M, point, s.bindings, mask, needs)
    BY <1>1, <1>6, <1>17
  <2>2. Unmoved(M, point, s, mask)
    BY <1>2, <1>16 DEF Unmoved
  <2>3. Tabled(tables, M, point, s, needs)
    BY <1>12, <1>15, <2>1, <2>2, TablesFacts
  <2> QED
    BY <1>2, <2>3 DEF Tabled
<1>18. /\ IsList(tables) /\ Same(tables, M, {"state", "pending", "unordered", "sets", "bound", "addresses"})
  <2>1. CASE mask = {}
    BY <1>6, <1>12, <2>1 DEF Same
  <2>2. CASE mask # {}
    BY <1>17, <2>2
  <2> QED
    BY <2>1, <2>2
<1>19. x # <<>> => tables.sets[point] = x
  BY <1>2, <1>6, <1>12, <1>13, <1>14, <1>17 DEF Bound
\* The resources of the sets.
<1>20. ASSUME NEW i \in DOMAIN x, x[i] \notin placed
       PROVE  /\ L.dirty = FALSE /\ i \notin mask /\ Writes[x[i]] = {}
  BY <1>12, <1>20, <1>10 DEF IsList
<1>21. ASSUME NEW i \in DOMAIN x, i \notin mask, L.dirty = FALSE, NEW n \in SetNeeds(x[i])
       PROVE  L.state[n[1]] = n[2]
  <2>1. /\ Unmasked(L, k, s, heap) /\ i \in DOMAIN L.last[k].bindings /\ L.last[k].bindings[i] = x[i]
    BY <1>13, <1>21
  <2>2. n \in Needs(L.last[k])
    BY <2>1 DEF Needs, SetsOf
  <2> QED
    BY <1>14, <1>21, <2>1, <2>2 DEF Ready
<1>22. ASSUME NEW i \in DOMAIN x, NEW n \in SetNeeds(x[i])
       PROVE  tables.state[n[1]] = n[2]
  <2>1. n \in Needs(s)
    BY <1>2, NeedsFacts DEF SetsOf
  <2>2. CASE mask = {}
    <3>1. L.state[n[1]] = n[2]
      BY <1>2, <1>13, <2>2 DEF D3D12Kept, Unmasked, SetsOf
    <3> QED
      BY <1>6, <1>12, <2>1, <2>2, <3>1
  <2>3. CASE mask # {} /\ x[i] \in placed
    <3>1. n \in needs
      BY <1>5, <2>3
    <3> QED
      BY <1>17, <2>1, <2>3, <3>1
  <2>4. CASE mask # {} /\ x[i] \notin placed
    <3>1. L.state[n[1]] = n[2]
      BY <1>20, <1>21, <2>4
    <3> QED
      BY <1>12, <1>17, <2>1, <2>4, <3>1
  <2> QED
    BY <2>2, <2>3, <2>4
<1>23. \A n \in Needs(s) : L.state[n[1]] = n[2] \/ n \in TargetNeeds(s) => tables.state[n[1]] = n[2]
  BY <1>6, <1>12, <1>17
<1>24. ASSUME NEW u \in UavsOf(x) PROVE u \notin tables.unordered
  <2>1. PICK y \in SetsOf(x) : u \in Writes[y]
    BY DEF UavsOf
  <2>2. PICK i \in DOMAIN x : y = x[i]
    BY DEF SetsOf
  <2>3. CASE mask = {}
    <3>1. u \notin L.unordered
      BY <1>2, <1>13, <2>3 DEF D3D12Kept, Unmasked
    <3> QED
      BY <1>6, <1>12, <2>3, <3>1
  <2>4. CASE mask # {}
    <3>1. x[i] \in placed
      BY <1>20, <2>1, <2>2
    <3>2. <<u, "uav">> \in SetNeeds(x[i])
      BY <2>1, <2>2 DEF SetNeeds
    <3>3. <<u, "uav">> \in needs
      BY <1>5, <3>1, <3>2
    <3> QED
      BY <1>17, <2>4, <3>3
  <2> QED
    BY <2>3, <2>4
\* The indirect buffer.
<1>25. /\ IsList(params) /\ Same(params, tables, {"state", "pending", "unordered"})
       /\ \A n \in Needs(s) : n \in IndirectNeeds(s) \/ tables.state[n[1]] = n[2] => params.state[n[1]] = n[2]
       /\ \A u \in params.unordered : u \in tables.unordered
  <2>1. CASE k \notin M.valid \/ M.last[k].indirect # s.indirect
    <3>1. PICK indirect : indirect = IndirectNeeds(s)
      OBVIOUS
    <3>2. indirect \subseteq Needs(s) /\ params = Require(tables, indirect)
      BY <1>7, <2>1, <3>1, NeedsFacts
    <3>3. /\ IsList(params) /\ Same(params, tables, {"state", "pending", "unordered"})
          /\ \A n \in Needs(s) : n \in indirect \/ tables.state[n[1]] = n[2] => params.state[n[1]] = n[2]
          /\ \A u \in params.unordered : u \in tables.unordered /\ <<u, "uav">> \notin indirect
      BY <1>18, <3>2, RequireNeeds
    <3> QED
      BY <3>1, <3>3
  <2>2. CASE ~(k \notin M.valid \/ M.last[k].indirect # s.indirect)
    <3>1. params = tables
      BY <1>7, <2>2
    <3>2. k \in L.valid /\ L.last[k].indirect = s.indirect
      BY <1>12, <2>2
    <3>3. \A n \in IndirectNeeds(s) : L.state[n[1]] = n[2]
      BY <3>2 DEF D3D12Kept
    <3>4. IndirectNeeds(s) \subseteq Needs(s)
      BY NeedsFacts
    <3>5. \A n \in IndirectNeeds(s) : tables.state[n[1]] = n[2]
      BY <1>23, <3>3, <3>4
    <3> QED
      BY <1>18, <3>1, <3>5 DEF Same
  <2> QED
    BY <2>1, <2>2
<1>26. ASSUME NEW n \in Needs(s) PROVE params.state[n[1]] = n[2]
  <2>1. CASE n \in TargetNeeds(s)
    BY <1>23, <1>25, <2>1
  <2>2. CASE n \in IndirectNeeds(s)
    BY <1>25, <2>2
  <2>3. ASSUME NEW y \in SetsOf(s.bindings), n \in SetNeeds(y)
        PROVE  params.state[n[1]] = n[2]
    <3>1. PICK i \in DOMAIN x : y = x[i]
      BY <1>2 DEF SetsOf
    <3> QED
      BY <1>22, <1>25, <2>3, <3>1
  <2> QED
    BY <2>1, <2>2, <2>3, NeedsFacts
<1>27. any \in BOOLEAN
  BY <1>8, <1>25 DEF IsList
<1>28. DOMAIN R = Fields /\ R.anyVolatile = any /\ Same(R, params, {"anyVolatile"})
  BY <1>9, <1>25 DEF IsList, Fields, Same
<1>29. IsList(R)
  BY <1>25, <1>27, <1>28 DEF IsList, Same
<1>30. Same(R, M, {"state", "pending", "unordered", "sets", "bound", "addresses", "anyVolatile"})
  BY <1>18, <1>25, <1>28 DEF Same
<1>31. /\ R.sets = tables.sets /\ R.bound = tables.bound /\ R.addresses = tables.addresses
       /\ R.pipeline = M.pipeline /\ R.version = M.version /\ R.state = params.state
       /\ R.unordered = params.unordered /\ params.anyVolatile = M.anyVolatile
  BY <1>18, <1>25, <1>28 DEF Same
<1>32. Bound(R, point, s)
  BY <1>2, <1>12, <1>19, <1>31 DEF Bound
<1>33. D3D12Latest(R, point, s)
  <2> SUFFICES ASSUME HasVolatile(x)
               PROVE  /\ R.version = Latest /\ R.addresses[point] = R.bound[point]
                      /\ R.bound[point] = Latest \/ (R.bound[point] = Outdated /\ R.anyVolatile = TRUE)
    BY <1>2 DEF D3D12Latest
  <2>1. R.version = Latest
    BY <1>2, <1>12, <1>31 DEF D3D12Kept
  <2>2. CASE mask # {}
    BY <1>17, <1>31, <2>1, <2>2
  <2>3. CASE mask = {}
    <3>1. tables = M /\ M.bound = L.bound /\ M.addresses = L.addresses
      BY <1>6, <1>12, <1>13, <2>3
    <3>2. D3D12Latest(L, point, L.last[k]) /\ L.last[k].bindings = x
      BY <1>13, <1>14, <2>3
    <3>3. any = L.anyVolatile
      <4>1. x # <<>>
        BY NoVolatile
      <4>2. PICK n \in Nat : n = Len(x) /\ DOMAIN x = 1..n /\ n # 0
        BY <4>1
      <4>3. 1 \in DOMAIN x
        BY <4>2
      <4> QED
        BY <1>2, <1>8, <1>12, <1>31, <2>3, <4>3
    <3> QED
      BY <1>28, <1>31, <2>1, <3>1, <3>2, <3>3 DEF D3D12Latest
  <2> QED
    BY <2>2, <2>3
<1> QED
  BY <1>1, <1>2, <1>24, <1>25, <1>26, <1>29, <1>30, <1>31, <1>32, <1>33 DEF Ready

\* The framebuffer is bound, and its texture a render target.
AimedAlready(L, k, s) == k \in L.valid /\ L.last[k].framebuffer = s.framebuffer =>
    /\ L.target = s.framebuffer
    /\ L.dirty = FALSE => \A n \in TargetNeeds(s) : L.state[n[1]] = n[2]
Aimed(R, L, s) ==
    /\ IsList(R) /\ Same(R, L, {"target", "state", "pending", "unordered"})
    /\ R.target = s.framebuffer /\ \A n \in TargetNeeds(s) : R.state[n[1]] = n[2]
    /\ \A n \in Needs(s) : n \in TargetNeeds(s) \/ L.state[n[1]] = n[2] => R.state[n[1]] = n[2]
    /\ \A u \in R.unordered : u \in L.unordered

LEMMA AimedFacts ==
  ASSUME Assumptions, NEW k \in Kinds, NEW s \in StatesOf(k), NEW L, IsList(L),
         AimedAlready(L, k, s), NEW R, R = SetTarget(L, k, s)
  PROVE  Aimed(R, L, s)
<1>1. PICK newTarget \in BOOLEAN : newTarget = (k \notin L.valid \/ L.last[k].framebuffer # s.framebuffer)
  OBVIOUS
<1>2. PICK boundTo : boundTo = IF newTarget THEN [L EXCEPT !.target = s.framebuffer] ELSE L
  OBVIOUS
<1>3. PICK needs : needs = TargetNeeds(s)
  OBVIOUS
<1>4. R = IF L.dirty \/ newTarget THEN Require(boundTo, needs) ELSE boundTo
  BY <1>1, <1>2, <1>3 DEF SetTarget
<1>5. IsList(boundTo) /\ Same(boundTo, L, {"target"}) /\ boundTo.target = s.framebuffer
  <2>1. CASE newTarget
    <3>1. boundTo = [L EXCEPT !.target = s.framebuffer]
      BY <1>2, <2>1
    <3>2. DOMAIN boundTo = Fields /\ boundTo.target = s.framebuffer /\ Same(boundTo, L, {"target"})
      BY <3>1 DEF IsList, Fields, Same
    <3> QED
      BY <3>2 DEF IsList, Same
  <2>2. CASE ~newTarget
    BY <1>1, <1>2, <2>2 DEF AimedAlready, Same
  <2> QED
    BY <2>1, <2>2
<1>6. needs \subseteq Needs(s)
  BY <1>3, NeedsFacts
<1>7. boundTo.state = L.state /\ boundTo.unordered = L.unordered
  BY <1>5 DEF Same
<1>8. CASE L.dirty \/ newTarget
  <2>1. R = Require(boundTo, needs)
    BY <1>4, <1>8
  <2>2. /\ IsList(R) /\ Same(R, boundTo, {"state", "pending", "unordered"})
        /\ \A n \in Needs(s) : n \in needs \/ boundTo.state[n[1]] = n[2] => R.state[n[1]] = n[2]
        /\ \A u \in R.unordered : u \in boundTo.unordered /\ <<u, "uav">> \notin needs
    BY <1>5, <1>6, <2>1, RequireNeeds
  <2>3. Same(R, L, {"target", "state", "pending", "unordered"}) /\ R.target = boundTo.target
    BY <1>5, <2>2 DEF Same
  <2> QED
    BY <1>3, <1>5, <1>6, <1>7, <2>2, <2>3 DEF Aimed
<1>9. CASE ~(L.dirty \/ newTarget)
  <2>1. R = boundTo
    BY <1>4, <1>9
  <2>2. L.dirty = FALSE
    BY <1>9 DEF IsList
  <2>3. \A n \in TargetNeeds(s) : R.state[n[1]] = n[2]
    BY <1>1, <1>7, <1>9, <2>1, <2>2 DEF AimedAlready
  <2>4. Same(R, L, {"target", "state", "pending", "unordered"})
    BY <1>5, <2>1 DEF Same
  <2> QED
    BY <1>5, <1>7, <2>1, <2>3, <2>4 DEF Aimed
<1> QED
  BY <1>8, <1>9

\* The values of the state are set, and what the command derives from its pipeline.
D3D12Valued(L, k, s) ==
    /\ ValuesSet(L, k, s) /\ L.scissor = (s.pipeline \in ScissorEnabled)
    /\ k = "graphics" => L.strides = InputLayout[s.pipeline]
ValuedAlready(L, k, s) == k \in L.valid /\ L.last[k].values = s.values =>
    L.last[k].pipeline = s.pipeline /\ D3D12Valued(L, k, s)
Valued(R, L, k, s) ==
    /\ IsList(R) /\ Same(R, L, {"viewport", "scissor", "blend", "stencil", "vertices", "strides"})
    /\ D3D12Valued(R, k, s)

LEMMA ValuedFacts ==
  ASSUME NEW L, IsList(L), NEW k \in Kinds, NEW s, ValuedAlready(L, k, s),
         NEW R, R = SetD3D12Values(L, k, s)
  PROVE  Valued(R, L, k, s)
<1>1. PICK piped \in BOOLEAN, differ \in BOOLEAN :
        /\ piped = (k \notin L.valid \/ L.last[k].pipeline # s.pipeline)
        /\ differ = (k \notin L.valid \/ L.last[k].values # s.values)
  OBVIOUS
<1>2. PICK viewport, scissor, blend, stencil, vertices, strides :
        /\ viewport = IF differ THEN s.values ELSE L.viewport
        /\ scissor = IF differ THEN s.pipeline \in ScissorEnabled ELSE L.scissor
        /\ blend = IF s.pipeline \in UsesBlend /\ differ THEN s.values ELSE L.blend
        /\ stencil = IF s.pipeline \in UsesStencil /\ (piped \/ differ) THEN s.values ELSE L.stencil
        /\ vertices = IF k = "graphics" /\ differ THEN s.values ELSE L.vertices
        /\ strides = IF k = "graphics" /\ differ THEN InputLayout[s.pipeline] ELSE L.strides
  OBVIOUS
<1>3. R = [L EXCEPT !.viewport = viewport, !.scissor = scissor, !.blend = blend, !.stencil = stencil,
                    !.vertices = vertices, !.strides = strides]
  BY <1>1, <1>2 DEF SetD3D12Values
<1>4. /\ DOMAIN R = Fields /\ R.viewport = viewport /\ R.scissor = scissor /\ R.blend = blend
      /\ R.stencil = stencil /\ R.vertices = vertices /\ R.strides = strides
      /\ Same(R, L, {"viewport", "scissor", "blend", "stencil", "vertices", "strides"})
  BY <1>3 DEF IsList, Fields, Same
<1>5. IsList(R)
  BY <1>4 DEF IsList, Same
<1>6. ~differ => D3D12Valued(L, k, s)
  BY <1>1 DEF ValuedAlready
<1>7. D3D12Valued(R, k, s)
  BY <1>2, <1>4, <1>6 DEF D3D12Valued, ValuesSet
<1> QED
  BY <1>4, <1>5, <1>7 DEF Valued

CommittedFacts(R, L) == IsList(R) /\ Same(R, L, {"pending"}) /\ R.pending = FALSE
LEMMA D3D12Commits ==
  ASSUME NEW L, IsList(L), NEW R, R = CommitBarriers(L)
  PROVE  CommittedFacts(R, L)
<1>1. DOMAIN R = Fields /\ R.pending = FALSE /\ Same(R, L, {"pending"})
  BY DEF CommitBarriers, IsList, Fields, Same
<1> QED
  BY <1>1 DEF IsList, Same, CommittedFacts

\* A state that was set up is valid, alone or beside the meshlet state.
RememberD3D12(L, k, s, kept) ==
    [L EXCEPT !.last = [Invalidated(@, kept) EXCEPT ![k] = s], !.valid = {k} \cup kept, !.dirty = FALSE]

LEMMA D3D12Remember ==
  ASSUME Assumptions, NEW k \in Kinds, NEW s \in StatesOf(k), NEW L, IsList(L), L.heap # 0,
         Bound(L, RootPoint(k), s), D3D12Latest(L, RootPoint(k), s), Prepared(L, s),
         k \in Rasters => D3D12Valued(L, k, s) /\ L.target = s.framebuffer,
         NEW kept, kept \subseteq {"meshlet"}, kept # {} => k = "rays",
         NEW R, R = RememberD3D12(L, k, s, kept)
  PROVE  IsList(R) /\ D3D12Inv(R) /\ D3D12Set(R, k, s)
<1>1. s \in CachedStates /\ NoState \in CachedStates
  BY StateFacts DEF NoState, CachedStates
<1>2. PICK last, valid : last = [Invalidated(L.last, kept) EXCEPT ![k] = s] /\ valid = {k} \cup kept
  OBVIOUS
<1>3. last \in [Kinds -> CachedStates] /\ last[k] = s
  <2>1. Invalidated(L.last, kept) \in [Kinds -> CachedStates]
    BY <1>1 DEF Invalidated, IsList
  <2> QED
    BY <1>1, <1>2, <2>1
<1>4. R = [L EXCEPT !.last = last, !.valid = valid, !.dirty = FALSE]
  BY <1>2 DEF RememberD3D12, IsList, Fields
<1>5. /\ DOMAIN R = Fields /\ R.last = last /\ R.valid = valid /\ R.dirty = FALSE
      /\ Same(R, L, {"last", "valid", "dirty"})
  BY <1>4 DEF IsList, Fields, Same
<1>6. valid \subseteq Kinds
  BY <1>2 DEF Kinds
<1>7. IsList(R)
  BY <1>3, <1>5, <1>6 DEF IsList, Same
<1>8. \A j \in Kinds : D3D12Knows(R, j) => j = k
  BY <1>2, <1>5 DEF D3D12Knows
<1>9. /\ R.pipeline = L.pipeline /\ R.sets = L.sets /\ R.bound = L.bound /\ R.addresses = L.addresses
      /\ R.viewport = L.viewport /\ R.blend = L.blend /\ R.stencil = L.stencil
      /\ R.vertices = L.vertices /\ R.scissor = L.scissor /\ R.strides = L.strides
      /\ R.target = L.target /\ R.version = L.version /\ R.anyVolatile = L.anyVolatile
      /\ R.state = L.state /\ R.pending = L.pending /\ R.unordered = L.unordered /\ R.heap = L.heap
  BY <1>5 DEF Same
<1>10. /\ Bound(R, RootPoint(k), s) /\ D3D12Latest(R, RootPoint(k), s) /\ Prepared(R, s)
       /\ k \in Rasters => D3D12Valued(R, k, s) /\ R.target = s.framebuffer
  BY <1>9 DEF Bound, D3D12Latest, Prepared, Ready, D3D12Valued, ValuesSet
<1>11. D3D12Remembers(R)
  BY <1>3, <1>5, <1>8, <1>10 DEF D3D12Remembers, D3D12Valued, Prepared
<1>12. D3D12Inv(R)
  BY <1>9, <1>11 DEF D3D12Inv
<1>13. D3D12Set(R, k, s)
  BY <1>2, <1>3, <1>5, <1>10 DEF D3D12Set
<1> QED
  BY <1>7, <1>12, <1>13

-----------------------------------------------------------------------------
(* D3D12: setting a state.                                                  *)

\* The heaps are committed and the pipeline bound.
Rooted(M, L, k, s, heap) ==
    /\ IsList(M) /\ Same(M, L, {"heap", "sets", "bound", "pipeline"}) /\ M.heap = heap
    /\ M.pipeline[RootPoint(k)] = s.pipeline
    /\ Unmasked(L, k, s, heap) => M.sets = L.sets /\ M.bound = L.bound

LEMMA RootedFacts ==
  ASSUME NEW k \in Kinds, NEW s, NEW L, IsList(L), D3D12Inv(L), D3D12Kept(L, k, s), NEW heap,
         NEW M, M = BindD3D12Pipeline(CommitDescriptorHeaps(L, heap), k, s)
  PROVE  Rooted(M, L, k, s, heap)
<1>1. PICK heaped : heaped = CommitDescriptorHeaps(L, heap)
  OBVIOUS
<1>2. /\ IsList(heaped) /\ Same(heaped, L, {"heap", "sets"}) /\ heaped.heap = heap
      /\ ~HeapsDiffer(L, heap) => heaped.sets = L.sets
  BY <1>1, HeapFacts
<1>3. /\ heaped.valid = L.valid /\ heaped.last = L.last /\ heaped.pipeline = L.pipeline
      /\ heaped.bound = L.bound
  BY <1>2 DEF Same
<1>4. NewRootSignature(heaped, k, s) = NewRootSignature(L, k, s)
  BY <1>3 DEF NewRootSignature
<1>5. RootedAlready(heaped, k, s)
  <2> SUFFICES ASSUME k \in L.valid, L.last[k].pipeline = s.pipeline
               PROVE  L.pipeline[RootPoint(k)] = s.pipeline
    BY <1>3 DEF RootedAlready
  <2>1. Bound(L, RootPoint(k), L.last[k])
    BY D3D12Known
  <2> QED
    BY <2>1 DEF Bound
<1>6. M = BindD3D12Pipeline(heaped, k, s)
  BY <1>1
<1>7. /\ IsList(M) /\ Same(M, heaped, {"sets", "bound", "pipeline"})
      /\ M.pipeline[RootPoint(k)] = s.pipeline
      /\ ~NewRootSignature(heaped, k, s) => M.sets = heaped.sets /\ M.bound = heaped.bound
  BY <1>2, <1>5, <1>6, RootFacts
<1>8. Same(M, L, {"heap", "sets", "bound", "pipeline"}) /\ M.heap = heap
  BY <1>2, <1>7 DEF Same
<1>9. Unmasked(L, k, s, heap) => M.sets = L.sets /\ M.bound = L.bound
  BY <1>2, <1>3, <1>4, <1>7 DEF Unmasked
<1> QED
  BY <1>7, <1>8, <1>9 DEF Rooted

LEMMA D3D12RasterHolds ==
  ASSUME Assumptions, NEW k \in Rasters, NEW s \in StatesOf(k), NEW L, IsList(L), D3D12Inv(L),
         D3D12Kept(L, k, s), NEW heap, heap # 0, NEW R, R = SetD3D12RasterState(L, k, s, heap)
  PROVE  IsList(R) /\ D3D12Inv(R) /\ D3D12Set(R, k, s)
<1>1. k \in Kinds
  BY PointFacts
<1>2. PICK mask : mask = BindingUpdateMask(L, k, s, heap)
  OBVIOUS
<1>3. PICK piped : piped = BindD3D12Pipeline(CommitDescriptorHeaps(L, heap), k, s)
  OBVIOUS
<1>4. PICK aimed : aimed = SetTarget(piped, k, s)
  OBVIOUS
<1>5. PICK boundTo : boundTo = SetBindings(aimed, k, s, mask)
  OBVIOUS
<1>6. PICK ready : ready = CommitBarriers(boundTo)
  OBVIOUS
<1>7. PICK valued : valued = SetD3D12Values(ready, k, s)
  OBVIOUS
<1>8. R = RememberD3D12(valued, k, s, {})
  <2>1. R = [valued EXCEPT !.last = [Invalidated(@, {}) EXCEPT ![k] = s], !.valid = {k}, !.dirty = FALSE]
    BY <1>2, <1>3, <1>4, <1>5, <1>6, <1>7 DEF SetD3D12RasterState
  <2>2. {k} = {k} \cup {}
    OBVIOUS
  <2> QED
    BY <2>1, <2>2 DEF RememberD3D12
<1>9. Rooted(piped, L, k, s, heap)
  BY <1>1, <1>3, RootedFacts
<1>10. /\ IsList(piped) /\ piped.heap = heap /\ piped.pipeline[RootPoint(k)] = s.pipeline
       /\ Unmasked(L, k, s, heap) => piped.sets = L.sets /\ piped.bound = L.bound
       /\ piped.valid = L.valid /\ piped.last = L.last /\ piped.dirty = L.dirty
       /\ piped.version = L.version /\ piped.anyVolatile = L.anyVolatile
       /\ piped.addresses = L.addresses /\ piped.state = L.state /\ piped.unordered = L.unordered
       /\ piped.viewport = L.viewport /\ piped.blend = L.blend /\ piped.stencil = L.stencil
       /\ piped.vertices = L.vertices /\ piped.scissor = L.scissor /\ piped.strides = L.strides
       /\ piped.target = L.target
  BY <1>9 DEF Rooted, Same
<1>11. k \in L.valid =>
         /\ L.target = L.last[k].framebuffer /\ (L.dirty = FALSE => Ready(L, L.last[k]))
         /\ D3D12Valued(L, k, L.last[k])
  BY <1>1, D3D12Known DEF D3D12Valued
<1>12. AimedAlready(piped, k, s)
  <2>1. ASSUME k \in L.valid, L.last[k].framebuffer = s.framebuffer, L.dirty = FALSE,
               NEW n \in TargetNeeds(s)
        PROVE  L.state[n[1]] = n[2]
    <3>1. n \in Needs(L.last[k])
      BY <2>1 DEF Needs, TargetNeeds
    <3> QED
      BY <1>11, <2>1, <3>1 DEF Ready
  <2> QED
    BY <1>10, <1>11, <2>1 DEF AimedAlready
<1>13. Aimed(aimed, piped, s)
  BY <1>1, <1>4, <1>10, <1>12, AimedFacts
<1>14. /\ IsList(aimed) /\ Same(aimed, piped, {"target", "state", "pending", "unordered"})
       /\ aimed.target = s.framebuffer /\ \A n \in TargetNeeds(s) : aimed.state[n[1]] = n[2]
       /\ \A n \in Needs(s) : n \in TargetNeeds(s) \/ piped.state[n[1]] = n[2] => aimed.state[n[1]] = n[2]
       /\ \A u \in aimed.unordered : u \in piped.unordered
  BY <1>13 DEF Aimed
<1>15. BeforeBindings(aimed, L, k, s, heap)
  BY <1>10, <1>14 DEF BeforeBindings, Same
<1>16. /\ IsList(boundTo)
       /\ Same(boundTo, aimed, {"state", "pending", "unordered", "sets", "bound", "addresses", "anyVolatile"})
       /\ Bound(boundTo, RootPoint(k), s) /\ D3D12Latest(boundTo, RootPoint(k), s)
       /\ Ready(boundTo, s) /\ UavsOf(s.bindings) \cap boundTo.unordered = {}
  BY <1>1, <1>2, <1>5, <1>14, <1>15, BindingsFacts
<1>17. IsList(ready) /\ Same(ready, boundTo, {"pending"}) /\ ready.pending = FALSE
  BY <1>6, <1>16, D3D12Commits DEF CommittedFacts
<1>18. /\ ready.valid = L.valid /\ ready.last = L.last /\ ready.heap = heap
       /\ ready.viewport = L.viewport /\ ready.blend = L.blend /\ ready.stencil = L.stencil
       /\ ready.vertices = L.vertices /\ ready.scissor = L.scissor /\ ready.strides = L.strides
       /\ ready.target = s.framebuffer
  BY <1>10, <1>14, <1>16, <1>17 DEF Same
<1>19. ValuedAlready(ready, k, s)
  <2> SUFFICES ASSUME k \in L.valid, L.last[k].values = s.values
               PROVE  L.last[k].pipeline = s.pipeline /\ D3D12Valued(ready, k, s)
    BY <1>18 DEF ValuedAlready
  <2>1. L.last[k].pipeline = s.pipeline
    BY DEF D3D12Kept
  <2> QED
    BY <1>11, <1>18, <2>1 DEF D3D12Valued, ValuesSet
<1>20. Valued(valued, ready, k, s)
  BY <1>1, <1>7, <1>17, <1>19, ValuedFacts
<1>21. /\ IsList(valued) /\ D3D12Valued(valued, k, s)
       /\ Same(valued, ready, {"viewport", "scissor", "blend", "stencil", "vertices", "strides"})
  BY <1>20 DEF Valued
<1>22. /\ valued.pipeline = boundTo.pipeline /\ valued.sets = boundTo.sets /\ valued.bound = boundTo.bound
       /\ valued.addresses = boundTo.addresses /\ valued.version = boundTo.version
       /\ valued.anyVolatile = boundTo.anyVolatile /\ valued.state = boundTo.state
       /\ valued.unordered = boundTo.unordered /\ valued.pending = FALSE
       /\ valued.target = s.framebuffer /\ valued.heap = heap
  BY <1>17, <1>18, <1>21 DEF Same
<1>23. /\ Bound(valued, RootPoint(k), s) /\ D3D12Latest(valued, RootPoint(k), s) /\ Prepared(valued, s)
  BY <1>16, <1>22 DEF Bound, D3D12Latest, Prepared, Ready
<1> QED
  BY <1>1, <1>8, <1>21, <1>22, <1>23, D3D12Remember

LEMMA D3D12ComputeHolds ==
  ASSUME Assumptions, NEW k \in {"compute", "rays"}, NEW s \in StatesOf(k), NEW L, IsList(L),
         D3D12Inv(L), D3D12Kept(L, k, s), NEW heap, heap # 0,
         NEW kept, kept \subseteq {"meshlet"}, kept # {} => k = "rays",
         NEW R, R = SetD3D12ComputeBindings(L, k, s, heap, kept)
  PROVE  IsList(R) /\ D3D12Inv(R) /\ D3D12Set(R, k, s)
<1>1. k \in Kinds /\ k \notin Rasters
  BY PointFacts
<1>2. PICK mask : mask = BindingUpdateMask(L, k, s, heap)
  OBVIOUS
<1>3. PICK piped : piped = BindD3D12Pipeline(CommitDescriptorHeaps(L, heap), k, s)
  OBVIOUS
<1>4. PICK boundTo : boundTo = SetBindings(piped, k, s, mask)
  OBVIOUS
<1>5. PICK ready : ready = CommitBarriers(boundTo)
  OBVIOUS
<1>6. R = RememberD3D12(ready, k, s, kept)
  BY <1>2, <1>3, <1>4, <1>5 DEF SetD3D12ComputeBindings, RememberD3D12
<1>7. Rooted(piped, L, k, s, heap)
  BY <1>1, <1>3, RootedFacts
<1>8. /\ IsList(piped) /\ piped.heap = heap /\ piped.pipeline[RootPoint(k)] = s.pipeline
      /\ Unmasked(L, k, s, heap) => piped.sets = L.sets /\ piped.bound = L.bound
      /\ piped.valid = L.valid /\ piped.last = L.last /\ piped.dirty = L.dirty
      /\ piped.version = L.version /\ piped.anyVolatile = L.anyVolatile
      /\ piped.addresses = L.addresses /\ piped.state = L.state /\ piped.unordered = L.unordered
  BY <1>7 DEF Rooted, Same
<1>9. TargetNeeds(s) = {}
  BY <1>1, StateFacts DEF TargetNeeds
<1>10. BeforeBindings(piped, L, k, s, heap)
  BY <1>8, <1>9 DEF BeforeBindings
<1>11. /\ IsList(boundTo)
       /\ Same(boundTo, piped, {"state", "pending", "unordered", "sets", "bound", "addresses", "anyVolatile"})
       /\ Bound(boundTo, RootPoint(k), s) /\ D3D12Latest(boundTo, RootPoint(k), s)
       /\ Ready(boundTo, s) /\ UavsOf(s.bindings) \cap boundTo.unordered = {}
  BY <1>1, <1>2, <1>4, <1>9, <1>10, BindingsFacts
<1>12. IsList(ready) /\ Same(ready, boundTo, {"pending"}) /\ ready.pending = FALSE
  BY <1>5, <1>11, D3D12Commits DEF CommittedFacts
<1>13. /\ ready.pipeline = boundTo.pipeline /\ ready.sets = boundTo.sets /\ ready.bound = boundTo.bound
       /\ ready.addresses = boundTo.addresses /\ ready.version = boundTo.version
       /\ ready.anyVolatile = boundTo.anyVolatile /\ ready.state = boundTo.state
       /\ ready.unordered = boundTo.unordered /\ ready.heap = heap
  BY <1>8, <1>11, <1>12 DEF Same
<1>14. /\ Bound(ready, RootPoint(k), s) /\ D3D12Latest(ready, RootPoint(k), s) /\ Prepared(ready, s)
  BY <1>11, <1>12, <1>13 DEF Bound, D3D12Latest, Prepared, Ready
<1> QED
  BY <1>1, <1>6, <1>12, <1>13, <1>14, D3D12Remember

-----------------------------------------------------------------------------
(* D3D12: everything else.                                                  *)

LEMMA D3D12Rest ==
  ASSUME NEW L, D3D12Inv(L), NEW R,
         \/ Same(R, L, {"pending", "unordered", "uses"})
         \/ Same(R, L, {"pending", "unordered", "uses", "state", "dirty"}) /\ R.dirty = TRUE
  PROVE  D3D12Inv(R)
<1>1. /\ R.last = L.last /\ R.valid = L.valid /\ R.pipeline = L.pipeline /\ R.sets = L.sets
      /\ R.bound = L.bound /\ R.addresses = L.addresses /\ R.viewport = L.viewport
      /\ R.blend = L.blend /\ R.stencil = L.stencil /\ R.vertices = L.vertices
      /\ R.scissor = L.scissor /\ R.strides = L.strides /\ R.target = L.target
      /\ R.version = L.version /\ R.anyVolatile = L.anyVolatile /\ R.heap = L.heap
  BY DEF Same
<1>2. (R.state = L.state /\ R.dirty = L.dirty) \/ R.dirty = TRUE
  BY DEF Same
<1>3. \A k \in Kinds : D3D12Knows(R, k) => D3D12Knows(L, k)
  BY <1>1 DEF D3D12Knows
<1>4. ASSUME NEW k \in Kinds, D3D12Knows(R, k)
      PROVE  /\ Bound(R, RootPoint(k), R.last[k]) /\ D3D12Latest(R, RootPoint(k), R.last[k])
             /\ k \in Rasters =>
                  /\ ValuesSet(R, k, R.last[k])
                  /\ R.scissor = (R.last[k].pipeline \in ScissorEnabled)
                  /\ k = "graphics" => R.strides = InputLayout[R.last[k].pipeline]
                  /\ R.target = R.last[k].framebuffer
             /\ R.dirty = FALSE => Ready(R, R.last[k])
  BY <1>1, <1>2, <1>3, <1>4 DEF D3D12Inv, D3D12Remembers, Bound, D3D12Latest, ValuesSet, Ready
<1>5. D3D12Remembers(R)
  BY <1>4 DEF D3D12Remembers
<1> QED
  BY <1>1, <1>5 DEF D3D12Inv

LEMMA NothingValid ==
  ASSUME NEW L, L.valid = {}
  PROVE  D3D12Inv(L)
  BY DEF D3D12Inv, D3D12Remembers, D3D12Knows

\* A resource is moved behind the list's back: the list is dirty.
Move(L, r, word) == CommitBarriers([Require(L, {<<r, word>>}) EXCEPT !.dirty = TRUE])
Moved(R, L) == IsList(R) /\ D3D12Inv(R) /\ R.valid = L.valid /\ R.heap = L.heap

LEMMA D3D12Moves ==
  ASSUME NEW L, IsList(L), D3D12Inv(L), NEW r \in Resources, NEW word, NEW R, R = Move(L, r, word)
  PROVE  Moved(R, L)
<1>1. PICK M : M = [Require(L, {<<r, word>>}) EXCEPT !.dirty = TRUE] /\ R = CommitBarriers(M)
  BY DEF Move
<1>2. PICK needs, moved : needs = {<<r, word>>} /\ moved = Require(L, needs)
  OBVIOUS
<1>3. (\A n \in needs : n[1] \in Resources) /\ (\A m, n \in needs : m[1] = n[1] => m = n)
  BY <1>2
<1>4. IsList(moved) /\ Same(moved, L, {"state", "pending", "unordered"})
  BY <1>2, <1>3, RequireFacts
<1>5. M = [moved EXCEPT !.dirty = TRUE]
  BY <1>1, <1>2
<1>6. DOMAIN M = Fields /\ M.dirty = TRUE /\ Same(M, moved, {"dirty"})
  BY <1>4, <1>5 DEF IsList, Fields, Same
<1>7. IsList(M)
  BY <1>4, <1>6 DEF IsList, Same
<1>8. IsList(R) /\ Same(R, M, {"pending"})
  BY <1>1, <1>7, D3D12Commits DEF CommittedFacts
<1>9. Same(M, L, {"pending", "unordered", "state", "dirty"})
  BY <1>4, <1>6 DEF Same
<1>10. Same(R, L, {"pending", "unordered", "uses", "state", "dirty"})
  BY <1>8, <1>9 DEF Same
<1>11. R.dirty = M.dirty /\ R.valid = L.valid /\ R.heap = L.heap
  BY <1>8, <1>9 DEF Same
<1>12. D3D12Inv(R)
  BY <1>6, <1>10, <1>11, D3D12Rest
<1> QED
  BY <1>8, <1>11, <1>12 DEF Moved

LEMMA D3D12WriteHolds ==
  ASSUME NEW L, IsList(L), D3D12Inv(L), NEW r \in Resources, NEW R, R = D3D12Write(L, r)
  PROVE  IsList(R) /\ D3D12Inv(R)
<1>1. R = Move(L, r, "copy")
  BY DEF D3D12Write, Move
<1>2. Moved(R, L)
  BY <1>1, D3D12Moves
<1> QED
  BY <1>2 DEF Moved

LEMMA D3D12ClearBufferHolds ==
  ASSUME NEW L, IsList(L), D3D12Inv(L), NEW r \in Resources, NEW heap, heap # 0,
         L.heap \in {0, heap}, NEW R, R = D3D12ClearBuffer(L, r, heap)
  PROVE  IsList(R) /\ D3D12Inv(R)
<1>1. PICK ready : ready = Move(L, r, "uav")
  OBVIOUS
<1>2. Moved(ready, L)
  BY <1>1, D3D12Moves
<1>3. IsList(ready) /\ D3D12Inv(ready) /\ ready.valid = L.valid /\ ready.heap = L.heap
  BY <1>2 DEF Moved
<1>4. R = CommitDescriptorHeaps(ready, heap)
  BY <1>1 DEF D3D12ClearBuffer, Move
<1>5. CASE L.heap = heap
  <2>1. R = ready
    BY <1>3, <1>4, <1>5 DEF CommitDescriptorHeaps, HeapsDiffer
  <2> QED
    BY <1>3, <2>1
<1>6. CASE L.heap = 0
  <2>1. IsList(R) /\ Same(R, ready, {"heap", "sets"})
    BY <1>3, <1>4, HeapFacts
  <2>2. R.valid = {}
    BY <1>3, <1>6, <2>1 DEF D3D12Inv, Same
  <2> QED
    BY <2>1, <2>2, NothingValid
<1> QED
  BY <1>5, <1>6

LEMMA CacheFacts ==
  ASSUME NEW L, IsList(L), NEW R, R = ClearStateCache(L)
  PROVE  IsList(R) /\ R.valid = {} /\ R.anyVolatile = FALSE
<1>1. PICK last, addresses : last = Invalidated(L.last, {}) /\ addresses = [p \in Points |-> Nothing]
  OBVIOUS
<1>2. R = [L EXCEPT !.anyVolatile = FALSE, !.valid = {}, !.last = last, !.heap = 0, !.addresses = addresses]
  BY <1>1 DEF ClearStateCache, IsList, Fields
<1>3. /\ DOMAIN R = Fields /\ R.anyVolatile = FALSE /\ R.valid = {} /\ R.last = last
      /\ R.addresses = addresses /\ Same(R, L, {"anyVolatile", "valid", "last", "heap", "addresses"})
  BY <1>2 DEF IsList, Fields, Same
<1>4. last \in [Kinds -> CachedStates]
  BY <1>1, NoStates DEF Invalidated, NoState, CachedStates
<1>5. IsList(R)
  BY <1>1, <1>3, <1>4 DEF IsList, Same
<1> QED
  BY <1>3, <1>5

LEMMA D3D12ClearHolds ==
  ASSUME NEW L, IsList(L), NEW heap, NEW R, R = D3D12ClearState(L, heap)
  PROVE  IsList(R) /\ D3D12Inv(R)
<1>1. PICK cache, pipeline, sets, bound :
        /\ cache = ClearStateCache(L)
        /\ pipeline = [p \in Points |-> None] /\ sets = [p \in Points |-> <<>>]
        /\ bound = [p \in Points |-> Nothing]
  OBVIOUS
<1>2. PICK cleared :
        cleared = [cache EXCEPT !.pipeline = pipeline, !.sets = sets, !.bound = bound,
                     !.viewport = None, !.scissor = FALSE, !.blend = None, !.stencil = None,
                     !.vertices = None, !.strides = None, !.target = None]
  OBVIOUS
<1>3. R = CommitDescriptorHeaps(cleared, heap)
  BY <1>1, <1>2 DEF D3D12ClearState
<1>4. IsList(cache) /\ cache.valid = {}
  BY <1>1, CacheFacts
<1>5. /\ DOMAIN cleared = Fields /\ cleared.pipeline = pipeline /\ cleared.sets = sets
      /\ cleared.bound = bound
      /\ Same(cleared, cache, {"pipeline", "sets", "bound", "viewport", "scissor", "blend", "stencil",
                              "vertices", "strides", "target"})
  BY <1>2, <1>4 DEF IsList, Fields, Same
<1>6. IsList(cleared) /\ cleared.valid = {}
  BY <1>1, <1>4, <1>5 DEF IsList, Same
<1>7. IsList(R) /\ Same(R, cleared, {"heap", "sets"})
  BY <1>3, <1>6, HeapFacts
<1>8. R.valid = {}
  BY <1>6, <1>7 DEF Same
<1> QED
  BY <1>7, <1>8, NothingValid

LEMMA D3D12ReopenHolds ==
  ASSUME NEW L, IsList(L), NEW R, R = D3D12Reopen(L)
  PROVE  IsList(R) /\ D3D12Inv(R)
<1>1. PICK needs : needs = {<<r, "copy">> : r \in Resources}
  OBVIOUS
<1>2. PICK moved, ready, closed :
        moved = Require(L, needs) /\ ready = CommitBarriers(moved) /\ closed = ClearStateCache(ready)
  OBVIOUS
<1>3. R = [EmptyList EXCEPT !.dirty = closed.dirty, !.last = closed.last]
  BY <1>1, <1>2 DEF D3D12Reopen
<1>4. (\A n \in needs : n[1] \in Resources) /\ (\A m, n \in needs : m[1] = n[1] => m = n)
  BY <1>1
<1>5. IsList(moved)
  BY <1>2, <1>4, RequireFacts
<1>6. IsList(ready)
  BY <1>2, <1>5, D3D12Commits DEF CommittedFacts
<1>7. IsList(closed)
  BY <1>2, <1>6, CacheFacts
<1>8. /\ DOMAIN R = Fields /\ R.dirty = closed.dirty /\ R.last = closed.last
      /\ Same(R, EmptyList, {"dirty", "last"})
  BY <1>3, EmptyFacts DEF IsList, Fields, Same
<1>9. IsList(R)
  BY <1>7, <1>8, EmptyFacts DEF IsList, Same
<1>10. R.valid = {}
  BY <1>8, EmptyFacts DEF Same
<1> QED
  BY <1>9, <1>10, NothingValid

LEMMA D3D12VolatileHolds ==
  ASSUME NEW L, IsList(L), D3D12Inv(L), NEW R, R = D3D12WriteVolatile(L)
  PROVE  /\ IsList(R) /\ D3D12Inv(R)
         /\ \A k \in Kinds, s \in CachedStates : D3D12Set(L, k, s) => D3D12Set(R, k, s)
<1>1. PICK written : written = WriteVersion(L)
  OBVIOUS
<1>2. R = [written EXCEPT !.anyVolatile = TRUE]
  BY <1>1 DEF D3D12WriteVolatile
<1>3. /\ IsList(written) /\ Same(written, L, {"version", "bound", "addresses"}) /\ written.version = Latest
      /\ written.bound = Outdate(L.bound) /\ written.addresses = Outdate(L.addresses)
  BY <1>1, WriteVersionFacts
<1>4. DOMAIN R = Fields /\ R.anyVolatile = TRUE /\ Same(R, written, {"anyVolatile"})
  BY <1>2, <1>3 DEF IsList, Fields, Same
<1>5. IsList(R)
  BY <1>3, <1>4 DEF IsList, Same
<1>6. /\ R.last = L.last /\ R.valid = L.valid /\ R.pipeline = L.pipeline /\ R.sets = L.sets
      /\ R.viewport = L.viewport /\ R.blend = L.blend /\ R.stencil = L.stencil
      /\ R.vertices = L.vertices /\ R.scissor = L.scissor /\ R.strides = L.strides
      /\ R.target = L.target /\ R.heap = L.heap /\ R.state = L.state /\ R.dirty = L.dirty
      /\ R.pending = L.pending /\ R.unordered = L.unordered
      /\ R.version = Latest /\ R.bound = Outdate(L.bound) /\ R.addresses = Outdate(L.addresses)
  BY <1>3, <1>4 DEF Same
<1>7. ASSUME NEW point \in Points, NEW s, D3D12Latest(L, point, s)
      PROVE  D3D12Latest(R, point, s)
  <2>1. /\ R.bound[point] = IF L.bound[point] = Nothing THEN Nothing ELSE Outdated
        /\ R.addresses[point] = IF L.addresses[point] = Nothing THEN Nothing ELSE Outdated
    BY <1>6 DEF Outdate
  <2>2. Latest # Nothing /\ Outdated # Nothing
    BY DEF Latest, Outdated, Nothing
  <2> QED
    BY <1>4, <1>6, <1>7, <2>1, <2>2 DEF D3D12Latest
<1>8. \A k \in Kinds : D3D12Knows(R, k) => D3D12Knows(L, k)
  BY <1>6 DEF D3D12Knows
<1>9. ASSUME NEW k \in Kinds, D3D12Knows(R, k)
      PROVE  /\ Bound(R, RootPoint(k), R.last[k]) /\ D3D12Latest(R, RootPoint(k), R.last[k])
             /\ k \in Rasters =>
                  /\ ValuesSet(R, k, R.last[k])
                  /\ R.scissor = (R.last[k].pipeline \in ScissorEnabled)
                  /\ k = "graphics" => R.strides = InputLayout[R.last[k].pipeline]
                  /\ R.target = R.last[k].framebuffer
             /\ R.dirty = FALSE => Ready(R, R.last[k])
  <2>1. /\ Bound(L, RootPoint(k), L.last[k]) /\ D3D12Latest(L, RootPoint(k), L.last[k])
        /\ k \in Rasters =>
             /\ ValuesSet(L, k, L.last[k])
             /\ L.scissor = (L.last[k].pipeline \in ScissorEnabled)
             /\ k = "graphics" => L.strides = InputLayout[L.last[k].pipeline]
             /\ L.target = L.last[k].framebuffer
        /\ L.dirty = FALSE => Ready(L, L.last[k])
    BY <1>8, <1>9 DEF D3D12Inv, D3D12Remembers
  <2>2. D3D12Latest(R, RootPoint(k), R.last[k])
    BY <1>6, <1>7, <2>1, PointFacts
  <2> QED
    BY <1>6, <2>1, <2>2 DEF Bound, ValuesSet, Ready
<1>10. D3D12Inv(R)
  BY <1>6, <1>9 DEF D3D12Inv, D3D12Remembers
<1>11. \A k \in Kinds, s \in CachedStates : D3D12Set(L, k, s) => D3D12Set(R, k, s)
  BY <1>6 DEF D3D12Set, Prepared, Ready
<1> QED
  BY <1>5, <1>10, <1>11

LEMMA D3D12DrawHolds ==
  ASSUME NEW k \in Kinds, NEW s, NEW L, IsList(L), D3D12Inv(L), D3D12Set(L, k, s),
         NEW R, R = PatchVolatileBuffers(L, RootPoint(k))
  PROVE  IsList(R) /\ D3D12Inv(R) /\ D3D12Set(R, k, s) /\ R.anyVolatile = FALSE
<1>1. CASE L.anyVolatile = FALSE
  BY <1>1 DEF PatchVolatileBuffers
<1>2. CASE L.anyVolatile = TRUE
  <2>1. PICK point \in Points : point = RootPoint(k)
    BY PointFacts
  <2>2. PICK word, address :
          /\ word = IF L.addresses[point] = Outdated THEN Latest ELSE L.bound[point]
          /\ address = IF L.addresses[point] = Outdated THEN Latest ELSE L.addresses[point]
    OBVIOUS
  <2>3. PICK bound, addresses :
          /\ bound = [L.bound EXCEPT ![point] = word]
          /\ addresses = [L.addresses EXCEPT ![point] = address]
    OBVIOUS
  <2>4. R = [L EXCEPT !.anyVolatile = FALSE, !.bound = bound, !.addresses = addresses]
    <3>1. R = [L EXCEPT !.anyVolatile = FALSE, !.bound[point] = word, !.addresses[point] = address]
      BY <1>2, <2>1, <2>2 DEF PatchVolatileBuffers, IsList, Fields
    <3> QED
      BY <2>3, <3>1 DEF IsList, Fields
  <2>5. /\ DOMAIN R = Fields /\ R.anyVolatile = FALSE /\ R.bound = bound /\ R.addresses = addresses
        /\ Same(R, L, {"anyVolatile", "bound", "addresses"})
    BY <2>4 DEF IsList, Fields, Same
  <2>6. IsList(R)
    BY <2>3, <2>5 DEF IsList, Same
  <2>7. bound[point] = word /\ addresses[point] = address
    BY <2>3 DEF IsList
  <2>8. /\ R.last = L.last /\ R.valid = L.valid /\ R.pipeline = L.pipeline /\ R.sets = L.sets
        /\ R.viewport = L.viewport /\ R.blend = L.blend /\ R.stencil = L.stencil
        /\ R.vertices = L.vertices /\ R.scissor = L.scissor /\ R.strides = L.strides
        /\ R.target = L.target /\ R.heap = L.heap /\ R.state = L.state /\ R.dirty = L.dirty
        /\ R.pending = L.pending /\ R.unordered = L.unordered /\ R.version = L.version
    BY <2>5 DEF Same
  <2>9. D3D12Set(R, k, s)
    BY <2>8 DEF D3D12Set, Prepared, Ready
  <2>10. \A j \in Kinds : D3D12Knows(R, j) => j = k /\ D3D12Knows(L, j)
    BY <2>8 DEF D3D12Set, D3D12Knows
  <2>11. ASSUME D3D12Knows(R, k)
         PROVE  /\ Bound(R, point, s) /\ D3D12Latest(R, point, s)
                /\ k \in Rasters =>
                     /\ ValuesSet(R, k, s)
                     /\ R.scissor = (s.pipeline \in ScissorEnabled)
                     /\ k = "graphics" => R.strides = InputLayout[s.pipeline]
                     /\ R.target = s.framebuffer
                /\ R.dirty = FALSE => Ready(R, s)
    <3>1. /\ Bound(L, point, s) /\ D3D12Latest(L, point, s)
          /\ k \in Rasters =>
               /\ ValuesSet(L, k, s)
               /\ L.scissor = (s.pipeline \in ScissorEnabled)
               /\ k = "graphics" => L.strides = InputLayout[s.pipeline]
               /\ L.target = s.framebuffer
          /\ L.dirty = FALSE => Ready(L, s)
      BY <2>1, <2>10, <2>11 DEF D3D12Inv, D3D12Remembers, D3D12Set
    <3>2. Latest # Outdated
      BY DEF Latest, Outdated
    <3>3. D3D12Latest(R, point, s)
      BY <2>2, <2>5, <2>7, <2>8, <3>1, <3>2 DEF D3D12Latest
    <3> QED
      BY <2>8, <3>1, <3>3 DEF Bound, ValuesSet, Ready
  <2>12. D3D12Remembers(R)
    BY <2>1, <2>8, <2>10, <2>11 DEF D3D12Remembers, D3D12Set
  <2> QED
    BY <2>5, <2>6, <2>8, <2>9, <2>12 DEF D3D12Inv
<1> QED
  BY <1>1, <1>2 DEF IsList

-----------------------------------------------------------------------------
(* D3D11: slots.                                                            *)

SlotsOf(x, n, t) == t \in Visibility[x] /\ n \in Slots[x]

LEMMA UnbindFacts ==
  ASSUME NEW slots, IsSlots(slots), NEW xs, NEW stages, NEW R, R = Unbind(slots, xs, stages)
  PROVE  /\ IsSlots(R)
         /\ \A t \in Stages : \A n \in AllSlots :
              (\A x \in xs : ~SlotsOf(x, n, t)) => R[t][n] = slots[t][n]
  BY DEF Unbind, IsSlots, SlotsOf

LEMMA SlotsBound ==
  ASSUME NEW slots, IsSlots(slots), NEW xs, NEW stages, NEW R, R = Bind(slots, xs, stages),
         NEW t \in Stages, NEW n \in AllSlots
  PROVE  /\ (\A x \in xs : ~SlotsOf(x, n, t)) => R[t][n] = slots[t][n]
         /\ \A x \in xs : t \in stages /\ SlotsOf(x, n, t) => R[t][n] \in xs /\ SlotsOf(R[t][n], n, t)
  BY DEF Bind, IsSlots, SlotsOf

LEMMA BindIsSlots ==
  ASSUME NEW slots, IsSlots(slots), NEW xs, NEW stages
  PROVE  IsSlots(Bind(slots, xs, stages))
  BY DEF Bind, IsSlots

LEMMA ApartSets ==
  ASSUME SlotsAssumption, NEW k \in Kinds, NEW b \in BindingVectors[k], NEW x \in SetsOf(b),
         NEW y \in SetsOf(b), NEW n, NEW t, SlotsOf(x, n, t), SlotsOf(y, n, t)
  PROVE  x = y
  BY DEF SlotsAssumption, SlotsOf

LEMMA SlotsKnown ==
  ASSUME Assumptions, SlotsAssumption, NEW k \in Kinds, NEW s \in StatesOf(k), NEW x \in SetsOf(s.bindings)
  PROVE  /\ \A t \in Visibility[x] : t \in Stages
         /\ \A n \in Slots[x] : n \in AllSlots
<1>1. x \in BindingSets
  BY StateFacts DEF SetsOf
<1> QED
  BY <1>1 DEF SlotsAssumption, Stages, AllSlots

\* Sets bound anew are in their slots, and those that stay where they are, too.
LEMMA GraphicsSlots ==
  ASSUME Assumptions, SlotsAssumption, NEW s \in StatesOf("graphics"), NEW L, IsList(L), D3D11Inv(L),
         NEW newTarget \in BOOLEAN, NEW slots,
         slots = BindGraphicsResourceSets(L, s, newTarget).sets["graphics"]
  PROVE  /\ IsSlots(slots)
         /\ \A x \in SetsOf(s.bindings) : \A t \in Visibility[x] \cap ShaderMask[s.pipeline] :
              \A n \in Slots[x] : slots[t][n] = x
<1> DEFINE old == SetsOf(L.last["graphics"].bindings)
           new == SetsOf(s.bindings)
           mask == ShaderMask[s.pipeline]
           kept == "graphics" \in L.valid /\ ShaderMask[L.last["graphics"].pipeline] = mask
<1>1. PICK masked, unbound, bind :
        /\ masked = (IF "graphics" \in L.valid THEN ShaderMask[L.last["graphics"].pipeline] ELSE {})
        /\ unbound = SetsToUnbind(L, s, newTarget) /\ bind = SetsToBind(L, s)
  OBVIOUS
<1>2. PICK freed : freed = Unbind(L.sets["graphics"], unbound, masked)
  OBVIOUS
<1>3. slots = Bind(freed, bind, mask)
  BY <1>1, <1>2 DEF BindGraphicsResourceSets, IsList, Fields, Points
<1>4. IsSlots(L.sets["graphics"])
  BY DEF D3D11Inv, Points
<1>5. /\ IsSlots(freed)
      /\ \A t \in Stages : \A n \in AllSlots :
           (\A x \in unbound : ~SlotsOf(x, n, t)) => freed[t][n] = L.sets["graphics"][t][n]
  BY <1>2, <1>4, UnbindFacts
<1>6. IsSlots(slots)
  BY <1>3, <1>5, BindIsSlots
<1>7. /\ bind \subseteq new
      /\ kept => bind = new \ old /\ unbound \subseteq old \ new
      /\ ~kept => bind = new
  BY <1>1 DEF SetsToBind, SetsToUnbind
<1>8. ASSUME NEW x \in new, NEW t \in Visibility[x] \cap mask, NEW n \in Slots[x]
      PROVE  slots[t][n] = x
  <2>1. t \in Stages /\ n \in AllSlots /\ SlotsOf(x, n, t) /\ "graphics" \in Kinds
    BY <1>8, SlotsKnown DEF SlotsOf, Kinds
  <2>2. \A y \in new : SlotsOf(y, n, t) => y = x
    BY <2>1, ApartSets, StateFacts
  <2>3. CASE x \in bind
    <3>1. slots[t][n] \in bind /\ SlotsOf(slots[t][n], n, t)
      BY <1>3, <1>5, <2>1, <2>3, SlotsBound
    <3> QED
      BY <1>7, <2>2, <3>1
  <2>4. CASE x \notin bind
    <3>1. kept /\ x \in old
      BY <1>7, <2>4
    <3>2. L.last["graphics"] \in StatesOf("graphics") /\ InSlots(L, "graphics", L.last["graphics"])
      BY <3>1 DEF D3D11Inv, D3D11Remembers
    <3>3. L.sets["graphics"][t][n] = x
      BY <3>1, <3>2 DEF InSlots, Visible
    <3>4. \A y \in old : SlotsOf(y, n, t) => y = x
      BY <2>1, <3>1, <3>2, ApartSets, StateFacts
    <3>5. freed[t][n] = x
      BY <1>5, <1>7, <2>1, <3>1, <3>3, <3>4
    <3>6. \A y \in bind : ~SlotsOf(y, n, t)
      BY <1>7, <2>2, <2>4
    <3> QED
      BY <1>3, <1>5, <2>1, <3>5, <3>6, SlotsBound
  <2> QED
    BY <2>3, <2>4
<1> QED
  BY <1>6, <1>8

\* A compute state binds all of its sets.
LEMMA ComputeSlots ==
  ASSUME Assumptions, SlotsAssumption, NEW s \in StatesOf("compute"), NEW L, IsList(L), D3D11Inv(L),
         NEW slots, slots = BindComputeResourceSets(L, s.bindings).sets["compute"]
  PROVE  /\ IsSlots(slots)
         /\ \A x \in SetsOf(s.bindings) : \A t \in Visibility[x] \cap {"CS"} :
              \A n \in Slots[x] : slots[t][n] = x
<1>1. PICK gone, kept :
        /\ gone = (IF "compute" \in L.valid THEN SetsOf(L.last["compute"].bindings) \ SetsOf(s.bindings) ELSE {})
        /\ kept = {x \in gone : Writes[x] = {} /\ \E y \in SetsOf(s.bindings) \ SetsOf(L.last["compute"].bindings) :
                                                    IsSupersetOf(y, x)}
  OBVIOUS
<1>2. PICK freed : freed = Unbind(L.sets["compute"], gone \ kept, {"CS"})
  OBVIOUS
<1>3. slots = Bind(freed, SetsOf(s.bindings), {"CS"})
  BY <1>1, <1>2 DEF BindComputeResourceSets, IsList, Fields, Points
<1>4. IsSlots(freed)
  BY <1>2, UnbindFacts DEF D3D11Inv, Points
<1>5. IsSlots(slots)
  BY <1>3, <1>4, BindIsSlots
<1>6. ASSUME NEW x \in SetsOf(s.bindings), NEW t \in Visibility[x] \cap {"CS"}, NEW n \in Slots[x]
      PROVE  slots[t][n] = x
  <2>1. t \in Stages /\ n \in AllSlots /\ SlotsOf(x, n, t) /\ "compute" \in Kinds
    BY <1>6, SlotsKnown DEF SlotsOf, Kinds
  <2>2. slots[t][n] \in SetsOf(s.bindings) /\ SlotsOf(slots[t][n], n, t)
    BY <1>3, <1>4, <2>1, SlotsBound
  <2> QED
    BY <2>1, <2>2, ApartSets, StateFacts
<1> QED
  BY <1>5, <1>6

-----------------------------------------------------------------------------
(* D3D11: setting a state.                                                  *)

LEMMA D3D11ClearHolds ==
  ASSUME NEW L, IsList(L), NEW R, R = D3D11ClearState(L)
  PROVE  IsList(R) /\ D3D11Inv(R) /\ R.valid = {} /\ R.version = L.version
<1>1. PICK sets, bound : sets = [p \in Points |-> EmptySlots] /\ bound = [p \in Points |-> L.version]
  OBVIOUS
<1>2. R = [EmptyList EXCEPT !.version = L.version, !.sets = sets, !.bound = bound]
  BY <1>1 DEF D3D11ClearState
<1>3. /\ DOMAIN R = Fields /\ R.version = L.version /\ R.sets = sets /\ R.bound = bound
      /\ Same(R, EmptyList, {"version", "sets", "bound"})
  BY <1>2, EmptyFacts DEF IsList, Fields, Same
<1>4. IsList(R)
  BY <1>1, <1>3, EmptyFacts DEF IsList, Same
<1>5. R.valid = {}
  BY <1>3, EmptyFacts DEF Same
<1>6. \A p \in Points : IsSlots(R.sets[p])
  BY <1>1, <1>3 DEF IsSlots, EmptySlots, AllSlots
<1>7. D3D11Inv(R)
  BY <1>1, <1>3, <1>5, <1>6 DEF D3D11Inv, D3D11Remembers
<1> QED
  BY <1>3, <1>4, <1>5, <1>7

\* A new pipeline comes with new values and new bindings.
D3D11Fresh(L, s) == "graphics" \in L.valid /\ L.last["graphics"].pipeline # s.pipeline =>
    L.last["graphics"].values # s.values /\ L.last["graphics"].bindings # s.bindings

\* What D3D11SetGraphicsState does once the context is clear of compute state,
\* and the binding sets are bound.
GraphicsPut(tabled, L, s, newTarget, piped, differ) ==
    [tabled EXCEPT
        !.target   = IF newTarget THEN s.framebuffer ELSE @,
        !.pipeline["graphics"] = s.pipeline,
        !.stencil  = IF piped \/ (s.pipeline \in UsesStencil /\ L.stencil # s.values) THEN s.values ELSE @,
        !.blend    = IF piped \/ (s.pipeline \in UsesBlend /\ differ) THEN s.values ELSE @,
        !.viewport = IF differ THEN s.values ELSE @,
        !.vertices = IF differ THEN s.values ELSE @,
        !.strides  = IF differ THEN InputLayout[s.pipeline] ELSE @,
        !.last["graphics"] = s,
        !.valid = {"graphics"}]
GraphicsFrom(L, s) ==
    LET stale     == "graphics" \notin L.valid
        newTarget == stale \/ L.last["graphics"].framebuffer # s.framebuffer
        piped     == stale \/ L.last["graphics"].pipeline # s.pipeline
        differ    == stale \/ L.last["graphics"].values # s.values
        tabled    == IF newTarget \/ L.last["graphics"].bindings # s.bindings
                     THEN BindGraphicsResourceSets(L, s, newTarget) ELSE L
    IN  GraphicsPut(tabled, L, s, newTarget, piped, differ)

LEMMA GraphicsFromHolds ==
  ASSUME Assumptions, SlotsAssumption, NEW s \in StatesOf("graphics"), NEW L, IsList(L), D3D11Inv(L),
         D3D11Fresh(L, s), NEW R, R = GraphicsFrom(L, s)
  PROVE  IsList(R) /\ D3D11Inv(R) /\ D3D11Set(R, "graphics", s)
<1>1. PICK stale, newTarget, piped, differ :
        /\ stale = ("graphics" \notin L.valid)
        /\ newTarget = (stale \/ L.last["graphics"].framebuffer # s.framebuffer)
        /\ piped = (stale \/ L.last["graphics"].pipeline # s.pipeline)
        /\ differ = (stale \/ L.last["graphics"].values # s.values)
  OBVIOUS
<1>2. /\ stale \in BOOLEAN /\ newTarget \in BOOLEAN /\ piped \in BOOLEAN /\ differ \in BOOLEAN
      /\ stale <=> "graphics" \notin L.valid
      /\ newTarget <=> stale \/ L.last["graphics"].framebuffer # s.framebuffer
      /\ piped <=> stale \/ L.last["graphics"].pipeline # s.pipeline
      /\ differ <=> stale \/ L.last["graphics"].values # s.values
  BY <1>1
<1>3. PICK slots : slots = (IF newTarget \/ L.last["graphics"].bindings # s.bindings
                            THEN BindGraphicsResourceSets(L, s, newTarget).sets["graphics"]
                            ELSE L.sets["graphics"])
  OBVIOUS
<1>4. PICK target, stencil, blend, viewport, vertices, strides :
        /\ target   = IF newTarget THEN s.framebuffer ELSE L.target
        /\ stencil  = IF piped \/ (s.pipeline \in UsesStencil /\ L.stencil # s.values) THEN s.values ELSE L.stencil
        /\ blend    = IF piped \/ (s.pipeline \in UsesBlend /\ differ) THEN s.values ELSE L.blend
        /\ viewport = IF differ THEN s.values ELSE L.viewport
        /\ vertices = IF differ THEN s.values ELSE L.vertices
        /\ strides  = IF differ THEN InputLayout[s.pipeline] ELSE L.strides
  OBVIOUS
<1>5. PICK pipeline, last :
        /\ pipeline = [L.pipeline EXCEPT !["graphics"] = s.pipeline]
        /\ last = [L.last EXCEPT !["graphics"] = s]
  OBVIOUS
<1>6. PICK tabled : tabled = (IF newTarget \/ L.last["graphics"].bindings # s.bindings
                              THEN BindGraphicsResourceSets(L, s, newTarget) ELSE L)
  OBVIOUS
<1>7. /\ DOMAIN tabled = Fields /\ Same(tabled, L, {"sets"}) /\ DOMAIN tabled.sets = Points
      /\ tabled.sets["graphics"] = slots
      /\ \A p \in Points \ {"graphics"} : tabled.sets[p] = L.sets[p]
  <2>1. CASE newTarget \/ L.last["graphics"].bindings # s.bindings
    <3>1. PICK put : tabled = [L EXCEPT !.sets["graphics"] = put]
      BY <1>6, <2>1 DEF BindGraphicsResourceSets
    <3>2. tabled.sets["graphics"] = slots
      BY <1>3, <1>6, <2>1
    <3> QED
      BY <3>1, <3>2 DEF IsList, Fields, Points, Same
  <2>2. CASE ~(newTarget \/ L.last["graphics"].bindings # s.bindings)
    BY <1>3, <1>6, <2>2 DEF IsList, Same
  <2> QED
    BY <2>1, <2>2
<1>8. R = GraphicsPut(tabled, L, s, newTarget, piped, differ)
  BY <1>1, <1>6 DEF GraphicsFrom
<1>9. /\ tabled.target = L.target /\ tabled.pipeline = L.pipeline /\ tabled.stencil = L.stencil
      /\ tabled.blend = L.blend /\ tabled.viewport = L.viewport /\ tabled.vertices = L.vertices
      /\ tabled.strides = L.strides /\ tabled.last = L.last
  BY <1>7 DEF Same
<1>10. /\ DOMAIN R = Fields /\ R.target = target /\ R.pipeline = pipeline /\ R.stencil = stencil
      /\ R.blend = blend /\ R.viewport = viewport /\ R.vertices = vertices /\ R.strides = strides
      /\ R.last = last /\ R.valid = {"graphics"}
      /\ Same(R, tabled, {"target", "pipeline", "stencil", "blend", "viewport", "vertices", "strides",
                          "last", "valid"})
  <2>1. /\ target   = IF newTarget THEN s.framebuffer ELSE tabled.target
        /\ stencil  = IF piped \/ (s.pipeline \in UsesStencil /\ L.stencil # s.values) THEN s.values
                      ELSE tabled.stencil
        /\ blend    = IF piped \/ (s.pipeline \in UsesBlend /\ differ) THEN s.values ELSE tabled.blend
        /\ viewport = IF differ THEN s.values ELSE tabled.viewport
        /\ vertices = IF differ THEN s.values ELSE tabled.vertices
        /\ strides  = IF differ THEN InputLayout[s.pipeline] ELSE tabled.strides
    BY <1>4, <1>9
  <2>2. R = [tabled EXCEPT !.target = target, !.pipeline["graphics"] = s.pipeline, !.stencil = stencil,
                           !.blend = blend, !.viewport = viewport, !.vertices = vertices,
                           !.strides = strides, !.last["graphics"] = s, !.valid = {"graphics"}]
    BY <1>8, <2>1, Zenon DEF GraphicsPut
  <2>3. /\ pipeline = [tabled.pipeline EXCEPT !["graphics"] = s.pipeline]
        /\ last = [tabled.last EXCEPT !["graphics"] = s]
    BY <1>5, <1>9
  <2>4. /\ DOMAIN R = Fields /\ R.target = target /\ R.stencil = stencil /\ R.blend = blend
        /\ R.viewport = viewport /\ R.vertices = vertices /\ R.strides = strides /\ R.valid = {"graphics"}
    BY <1>7, <2>2 DEF Fields
  <2>5. R.pipeline = pipeline /\ R.last = last
    BY <1>7, <2>2, <2>3 DEF Fields
  <2>6. Same(R, tabled, {"target", "pipeline", "stencil", "blend", "viewport", "vertices", "strides",
                         "last", "valid"})
    BY <1>7, <2>2 DEF Fields, Same
  <2> QED
    BY <2>4, <2>5, <2>6
<1>11. /\ R.sets = tabled.sets /\ R.bound = L.bound /\ R.version = L.version
       /\ Same(R, L, {"sets", "target", "pipeline", "stencil", "blend", "viewport", "vertices", "strides",
                      "last", "valid"})
  BY <1>7, <1>10 DEF Same
<1>12. s \in CachedStates
  BY StateFacts DEF Kinds
<1>13. last \in [Kinds -> CachedStates] /\ last["graphics"] = s /\ pipeline["graphics"] = s.pipeline
       /\ DOMAIN pipeline = Points /\ {"graphics"} \in SUBSET Kinds
  BY <1>5, <1>12 DEF IsList, Kinds, Points
<1>14. IsList(R)
  BY <1>7, <1>10, <1>11, <1>13 DEF IsList, Same
<1>15. /\ IsSlots(slots)
       /\ \A x \in SetsOf(s.bindings) : \A t \in Visibility[x] \cap ShaderMask[s.pipeline] :
              \A n \in Slots[x] : slots[t][n] = x
  <2>1. CASE newTarget \/ L.last["graphics"].bindings # s.bindings
    BY <1>2, <1>3, <2>1, GraphicsSlots
  <2>2. CASE ~(newTarget \/ L.last["graphics"].bindings # s.bindings)
    <3>1. "graphics" \in L.valid /\ L.last["graphics"].bindings = s.bindings
          /\ L.last["graphics"].pipeline = s.pipeline /\ slots = L.sets["graphics"]
      BY <1>2, <1>3, <2>2 DEF D3D11Fresh
    <3>2. IsSlots(L.sets["graphics"]) /\ InSlots(L, "graphics", L.last["graphics"])
      BY <3>1 DEF D3D11Inv, D3D11Remembers, Points
    <3> QED
      BY <3>1, <3>2 DEF InSlots, Visible
  <2> QED
    BY <2>1, <2>2
<1>16. InSlots(R, "graphics", s)
  BY <1>7, <1>11, <1>15 DEF InSlots, Visible
<1>17. ValuesSet(R, "graphics", s) /\ R.strides = InputLayout[s.pipeline] /\ R.target = s.framebuffer
  <2>1. ~stale => /\ ValuesSet(L, "graphics", L.last["graphics"])
                  /\ L.strides = InputLayout[L.last["graphics"].pipeline]
                  /\ L.target = L.last["graphics"].framebuffer
    BY <1>2 DEF D3D11Inv, D3D11Remembers
  <2>2. ~differ => ~piped
    BY <1>2 DEF D3D11Fresh
  <2>3. viewport = s.values /\ vertices = s.values /\ strides = InputLayout[s.pipeline]
    BY <1>2, <1>4, <2>1, <2>2 DEF ValuesSet
  <2>4. target = s.framebuffer
    BY <1>2, <1>4, <2>1
  <2>5. s.pipeline \in UsesBlend => blend = s.values
    BY <1>2, <1>4, <2>1, <2>2 DEF ValuesSet
  <2>6. s.pipeline \in UsesStencil => stencil = s.values
    BY <1>2, <1>4
  <2> QED
    BY <1>10, <2>3, <2>4, <2>5, <2>6 DEF ValuesSet
<1>18. \A p \in Points : IsSlots(R.sets[p])
  BY <1>7, <1>11, <1>15 DEF D3D11Inv
<1>19. R.last["graphics"] = s /\ R.pipeline["graphics"] = s.pipeline
  BY <1>10, <1>13
<1>20. D3D11Remembers(R)
  BY <1>10, <1>16, <1>17, <1>19 DEF D3D11Remembers
<1> QED
  BY <1>10, <1>11, <1>14, <1>18, <1>19, <1>20 DEF D3D11Inv, D3D11Set

LEMMA D3D11GraphicsHolds ==
  ASSUME Assumptions, SlotsAssumption, NEW s \in StatesOf("graphics"), NEW L, IsList(L), D3D11Inv(L),
         D3D11Fresh(L, s), NEW R, R = D3D11SetGraphicsState(L, s)
  PROVE  IsList(R) /\ D3D11Inv(R) /\ D3D11Set(R, "graphics", s)
<1>1. PICK from : from = IF "compute" \in L.valid THEN D3D11ClearState(L) ELSE L
  OBVIOUS
<1>2. R = GraphicsFrom(from, s)
  BY <1>1 DEF D3D11SetGraphicsState, GraphicsFrom, GraphicsPut
<1>3. IsList(from) /\ D3D11Inv(from) /\ D3D11Fresh(from, s)
  BY <1>1, D3D11ClearHolds DEF D3D11Fresh
<1> QED
  BY <1>2, <1>3, GraphicsFromHolds

\* What D3D11SetComputeState does once the context is clear of graphics state.
ComputeFrom(L, s) ==
    LET piped  == "compute" \notin L.valid \/ L.last["compute"].pipeline # s.pipeline
        tabled == IF piped \/ L.last["compute"].bindings # s.bindings
                  THEN BindComputeResourceSets(L, s.bindings) ELSE L
    IN  [tabled EXCEPT !.pipeline["compute"] = s.pipeline, !.last["compute"] = s, !.valid = {"compute"}]

LEMMA ComputeFromHolds ==
  ASSUME Assumptions, SlotsAssumption, NEW s \in StatesOf("compute"), NEW L, IsList(L), D3D11Inv(L),
         NEW R, R = ComputeFrom(L, s)
  PROVE  IsList(R) /\ D3D11Inv(R) /\ D3D11Set(R, "compute", s)
<1>1. PICK piped \in BOOLEAN : piped <=> "compute" \notin L.valid \/ L.last["compute"].pipeline # s.pipeline
  OBVIOUS
<1>2. PICK slots : slots = (IF piped \/ L.last["compute"].bindings # s.bindings
                            THEN BindComputeResourceSets(L, s.bindings).sets["compute"]
                            ELSE L.sets["compute"])
  OBVIOUS
<1>3. PICK pipeline, last :
        /\ pipeline = [L.pipeline EXCEPT !["compute"] = s.pipeline]
        /\ last = [L.last EXCEPT !["compute"] = s]
  OBVIOUS
<1>4. PICK tabled : tabled = (IF piped \/ L.last["compute"].bindings # s.bindings
                              THEN BindComputeResourceSets(L, s.bindings) ELSE L)
  OBVIOUS
<1>5. /\ DOMAIN tabled = Fields /\ Same(tabled, L, {"sets"}) /\ DOMAIN tabled.sets = Points
      /\ tabled.sets["compute"] = slots
      /\ \A p \in Points \ {"compute"} : tabled.sets[p] = L.sets[p]
  <2>1. CASE piped \/ L.last["compute"].bindings # s.bindings
    <3>1. PICK put : tabled = [L EXCEPT !.sets["compute"] = put]
      BY <1>4, <2>1 DEF BindComputeResourceSets
    <3>2. tabled.sets["compute"] = slots
      BY <1>2, <1>4, <2>1
    <3> QED
      BY <3>1, <3>2 DEF IsList, Fields, Points, Same
  <2>2. CASE ~(piped \/ L.last["compute"].bindings # s.bindings)
    BY <1>2, <1>4, <2>2 DEF IsList, Same
  <2> QED
    BY <2>1, <2>2
<1>6. R = [tabled EXCEPT !.pipeline["compute"] = s.pipeline, !.last["compute"] = s, !.valid = {"compute"}]
  BY <1>1, <1>4 DEF ComputeFrom
<1>7. tabled.pipeline = L.pipeline /\ tabled.last = L.last
  BY <1>5 DEF Same
<1>8. /\ DOMAIN R = Fields /\ R.pipeline = pipeline /\ R.last = last /\ R.valid = {"compute"}
      /\ Same(R, tabled, {"pipeline", "last", "valid"})
  BY <1>3, <1>5, <1>6, <1>7 DEF Fields, Same
<1>9. /\ R.sets = tabled.sets /\ R.bound = L.bound /\ R.version = L.version
      /\ Same(R, L, {"sets", "pipeline", "last", "valid"})
  BY <1>5, <1>8 DEF Same
<1>10. s \in CachedStates
  BY StateFacts DEF Kinds
<1>11. last \in [Kinds -> CachedStates] /\ last["compute"] = s /\ pipeline["compute"] = s.pipeline
       /\ DOMAIN pipeline = Points /\ {"compute"} \in SUBSET Kinds
  BY <1>3, <1>10 DEF IsList, Kinds, Points
<1>12. IsList(R)
  BY <1>5, <1>8, <1>9, <1>11 DEF IsList, Same
<1>13. /\ IsSlots(slots)
       /\ \A x \in SetsOf(s.bindings) : \A t \in Visibility[x] \cap {"CS"} :
              \A n \in Slots[x] : slots[t][n] = x
  <2>1. CASE piped \/ L.last["compute"].bindings # s.bindings
    BY <1>2, <2>1, ComputeSlots
  <2>2. CASE ~(piped \/ L.last["compute"].bindings # s.bindings)
    <3>1. "compute" \in L.valid /\ L.last["compute"].bindings = s.bindings /\ slots = L.sets["compute"]
      BY <1>1, <1>2, <2>2
    <3>2. IsSlots(L.sets["compute"]) /\ InSlots(L, "compute", L.last["compute"])
      BY <3>1 DEF D3D11Inv, D3D11Remembers, Points
    <3> QED
      BY <3>1, <3>2 DEF InSlots, Visible
  <2> QED
    BY <2>1, <2>2
<1>14. InSlots(R, "compute", s)
  BY <1>5, <1>9, <1>13 DEF InSlots, Visible
<1>15. \A p \in Points : IsSlots(R.sets[p])
  BY <1>5, <1>9, <1>13 DEF D3D11Inv
<1>16. R.last["compute"] = s /\ R.pipeline["compute"] = s.pipeline
  BY <1>8, <1>11
<1>17. D3D11Remembers(R)
  BY <1>8, <1>14, <1>16 DEF D3D11Remembers
<1> QED
  BY <1>8, <1>9, <1>12, <1>15, <1>16, <1>17 DEF D3D11Inv, D3D11Set

LEMMA D3D11ComputeHolds ==
  ASSUME Assumptions, SlotsAssumption, NEW s \in StatesOf("compute"), NEW L, IsList(L), D3D11Inv(L),
         NEW R, R = D3D11SetComputeState(L, s)
  PROVE  IsList(R) /\ D3D11Inv(R) /\ D3D11Set(R, "compute", s)
<1>1. PICK from : from = IF "graphics" \in L.valid THEN D3D11ClearState(L) ELSE L
  OBVIOUS
<1>2. R = ComputeFrom(from, s)
  BY <1>1 DEF D3D11SetComputeState, ComputeFrom
<1>3. IsList(from) /\ D3D11Inv(from)
  BY <1>1, D3D11ClearHolds
<1> QED
  BY <1>2, <1>3, ComputeFromHolds

-----------------------------------------------------------------------------
(* D3D11: everything else.                                                  *)

LEMMA D3D11VolatileHolds ==
  ASSUME NEW L, IsList(L), D3D11Inv(L), NEW R, R = D3D11WriteVolatile(L)
  PROVE  /\ IsList(R) /\ D3D11Inv(R)
         /\ \A k \in Kinds, s \in CachedStates : D3D11Set(L, k, s) => D3D11Set(R, k, s)
<1>1. PICK bound : bound = [p \in Points |-> Latest]
  OBVIOUS
<1>2. R = [L EXCEPT !.version = Latest, !.bound = bound]
  BY <1>1 DEF D3D11WriteVolatile
<1>3. DOMAIN R = Fields /\ R.version = Latest /\ R.bound = bound /\ Same(R, L, {"version", "bound"})
  BY <1>2 DEF IsList, Fields, Same
<1>4. IsList(R)
  BY <1>1, <1>3 DEF IsList, Same
<1>5. /\ R.last = L.last /\ R.valid = L.valid /\ R.pipeline = L.pipeline /\ R.sets = L.sets
      /\ R.viewport = L.viewport /\ R.blend = L.blend /\ R.stencil = L.stencil
      /\ R.vertices = L.vertices /\ R.strides = L.strides /\ R.target = L.target
  BY <1>3 DEF Same
<1>6. D3D11Remembers(R)
  BY <1>5 DEF D3D11Inv, D3D11Remembers, InSlots, ValuesSet
<1> QED
  BY <1>1, <1>3, <1>4, <1>5, <1>6 DEF D3D11Inv, D3D11Set

-----------------------------------------------------------------------------
(* Every backend: what is accessed does not matter to what is remembered,   *)
(* and what draws left bound does not while no draw is set up.              *)

LEMMA UsesHold ==
  ASSUME NEW b, NEW L, IsList(L), HoldsOn(b, L), NEW R, Same(R, L, {"uses", "unordered"})
  PROVE  HoldsOn(b, R)
<1>1. /\ R.last = L.last /\ R.valid = L.valid /\ R.dirty = L.dirty /\ R.anyVolatile = L.anyVolatile
      /\ R.version = L.version /\ R.addresses = L.addresses /\ R.heap = L.heap /\ R.state = L.state
      /\ R.pending = L.pending /\ R.pipeline = L.pipeline /\ R.sets = L.sets /\ R.bound = L.bound
      /\ R.viewport = L.viewport /\ R.scissor = L.scissor /\ R.blend = L.blend
      /\ R.stencil = L.stencil /\ R.vertices = L.vertices /\ R.strides = L.strides
      /\ R.target = L.target /\ R.pass = L.pass
  BY DEF Same
<1>2. VulkanInv(L) => VulkanInv(R)
  <2>1. VulkanRemembers(L) => VulkanRemembers(R)
    BY <1>1 DEF VulkanRemembers, Bound, ValuesSet, VulkanLatest
  <2>2. VulkanForgets(L) => VulkanForgets(R)
    BY <1>1 DEF VulkanForgets
  <2>3. VulkanPass(L) => VulkanPass(R)
    BY <1>1 DEF VulkanPass
  <2> QED
    BY <2>1, <2>2, <2>3 DEF VulkanInv
<1>3. D3D12Inv(L) => D3D12Inv(R)
  <2>1. Same(R, L, {"pending", "unordered", "uses"})
    BY DEF Same
  <2> QED
    BY <2>1, D3D12Rest
<1>4. D3D11Inv(L) => D3D11Inv(R)
  <2>1. D3D11Remembers(L) => D3D11Remembers(R)
    BY <1>1 DEF D3D11Remembers, InSlots, ValuesSet
  <2> QED
    BY <1>1, <2>1 DEF D3D11Inv
<1> QED
  BY <1>2, <1>3, <1>4 DEF HoldsOn

LEMMA UsesKeep ==
  ASSUME NEW b, NEW L, IsList(L), NEW k \in Kinds, NEW s, SetOn(b, L, k, s), NEW R, Same(R, L, {"uses"})
  PROVE  SetOn(b, R, k, s)
<1>1. /\ R.last = L.last /\ R.valid = L.valid /\ R.anyVolatile = L.anyVolatile
      /\ R.version = L.version /\ R.state = L.state /\ R.unordered = L.unordered
      /\ R.pending = L.pending /\ R.pipeline = L.pipeline /\ R.sets = L.sets /\ R.bound = L.bound
      /\ R.pass = L.pass
  BY DEF Same
<1>2. VulkanSet(L, k, s) => VulkanSet(R, k, s)
  BY <1>1 DEF VulkanSet, Bound, VulkanLatest, Prepared, Ready
<1>3. D3D12Set(L, k, s) => D3D12Set(R, k, s)
  BY <1>1 DEF D3D12Set, Prepared, Ready
<1>4. D3D11Set(L, k, s) => D3D11Set(R, k, s)
  BY <1>1 DEF D3D11Set
<1> QED
  BY <1>2, <1>3, <1>4 DEF SetOn

LEMMA WithoutHolds ==
  ASSUME Assumptions, NEW b, NEW L, IsList(L), HoldsOn(b, L), NEW k \in Kinds \ Rasters,
         NEW s \in StatesOf(k), SetOn(b, L, k, s), NEW R, R = WithoutDrawValues(L)
  PROVE  IsList(R) /\ HoldsOn(b, R) /\ SetOn(b, R, k, s)
<1>1. /\ IsList(R)
      /\ Same(R, L, {"viewport", "scissor", "blend", "stencil", "vertices", "strides", "target"})
  BY WithoutFacts
<1>2. /\ R.last = L.last /\ R.valid = L.valid /\ R.dirty = L.dirty /\ R.anyVolatile = L.anyVolatile
      /\ R.version = L.version /\ R.addresses = L.addresses /\ R.heap = L.heap /\ R.state = L.state
      /\ R.pending = L.pending /\ R.pipeline = L.pipeline /\ R.sets = L.sets /\ R.bound = L.bound
      /\ R.pass = L.pass /\ R.unordered = L.unordered
  BY <1>1 DEF Same
<1>3. s.pipeline # None
  BY StateFacts
<1>4. ASSUME VulkanInv(L), VulkanSet(L, k, s)
      PROVE  VulkanInv(R) /\ VulkanSet(R, k, s)
  <2>1. L.last[k].pipeline # None
    BY <1>3, <1>4 DEF VulkanSet
  <2>2. \A j \in Kinds : L.last[j].pipeline # None => j = k
    BY <1>4, <2>1 DEF VulkanInv, VulkanForgets
  <2>3. VulkanRemembers(R)
    BY <1>2, <1>4, <2>2 DEF VulkanInv, VulkanRemembers, Bound, VulkanLatest
  <2>4. VulkanForgets(R) /\ VulkanPass(R)
    BY <1>2, <1>4 DEF VulkanInv, VulkanForgets, VulkanPass
  <2>5. VulkanSet(R, k, s)
    BY <1>2, <1>4 DEF VulkanSet, Bound, VulkanLatest, Prepared, Ready
  <2> QED
    BY <2>3, <2>4, <2>5 DEF VulkanInv
<1>5. ASSUME D3D12Inv(L), D3D12Set(L, k, s)
      PROVE  D3D12Inv(R) /\ D3D12Set(R, k, s)
  <2>1. \A j \in Kinds : D3D12Knows(R, j) => D3D12Knows(L, j) /\ j \notin Rasters
    BY <1>2, <1>5 DEF D3D12Set, D3D12Knows, Rasters
  <2>2. D3D12Remembers(R)
    BY <1>2, <1>5, <2>1 DEF D3D12Inv, D3D12Remembers, Bound, D3D12Latest, Ready
  <2>3. D3D12Set(R, k, s)
    BY <1>2, <1>5 DEF D3D12Set, Prepared, Ready
  <2> QED
    BY <1>2, <1>5, <2>2, <2>3 DEF D3D12Inv
<1>6. ASSUME D3D11Inv(L), D3D11Set(L, k, s)
      PROVE  D3D11Inv(R) /\ D3D11Set(R, k, s)
  <2>1. "graphics" \notin R.valid
    BY <1>2, <1>6 DEF D3D11Set, Rasters
  <2>2. D3D11Remembers(R)
    BY <1>2, <1>6, <2>1 DEF D3D11Inv, D3D11Remembers, InSlots
  <2> QED
    BY <1>2, <1>6, <2>2 DEF D3D11Inv, D3D11Set
<1> QED
  BY <1>1, <1>4, <1>5, <1>6 DEF HoldsOn, SetOn

-----------------------------------------------------------------------------
(* Setting a state: what the orders of calls avoided give.                  *)

\* The guard of SetState(k), once every order is avoided.
MaySet(k, s) ==
    /\ Supported(k)
    /\ HasVolatile(s.bindings) => list.version = Latest
    /\ ~RepeatsUavs(k, s) /\ ~RepeatsMoved(k, s) /\ ~RaysInPass(k) /\ ~PipelineAlone(k, s)
    /\ ~MeshletAfterRays(k) /\ ~RaysAfterFailure(k) /\ ~MeshletAfterCompute(k, s)

\* What follows of it for the resources, whatever the backend.
Untouched(L, k, s) ==
    /\ L.last[k].bindings = s.bindings =>
         /\ UavsOf(s.bindings) \cap L.unordered = {}
         /\ \A x \in SetsOf(s.bindings) : \A n \in SetNeeds(x) : L.state[n[1]] = n[2]
    /\ L.last[k].indirect = s.indirect => \A n \in IndirectNeeds(s) : L.state[n[1]] = n[2]

LEMMA SupersededState ==
  ASSUME IsList(list), NEW L, L = Superseded(list)
  PROVE  /\ IsList(L) /\ L.last = list.last /\ L.valid = list.valid /\ L.dirty = list.dirty
         /\ L.version = list.version /\ L.state = list.state /\ L.pass = list.pass
         /\ L.sets = list.sets /\ L.pipeline = list.pipeline
         /\ L.unordered = list.uses \cup list.unordered
         /\ (HoldsOn(backend, list) => HoldsOn(backend, L))
<1>1. IsList(L) /\ Same(L, list, {"uses", "unordered"}) /\ L.unordered = list.unordered \cup list.uses
  BY SupersededFacts
<1>2. HoldsOn(backend, list) => HoldsOn(backend, L)
  BY <1>1, UsesHold
<1> QED
  BY <1>1, <1>2 DEF Same

LEMMA KeptUntouched ==
  ASSUME IsList(list), NEW k \in Kinds, NEW s, MaySet(k, s), Kept(k), NEW L, L = Superseded(list)
  PROVE  Untouched(L, k, s)
<1>1. L.last = list.last /\ L.state = list.state /\ L.unordered = list.uses \cup list.unordered
  BY SupersededState
<1>2. list.last[k].bindings = s.bindings => UavsOf(s.bindings) \cap L.unordered = {}
  BY <1>1 DEF MaySet, RepeatsUavs
<1>3. ASSUME list.last[k].bindings = s.bindings, NEW x \in SetsOf(s.bindings), NEW n \in SetNeeds(x)
      PROVE  L.state[n[1]] = n[2]
  <2>1. Changed(s.bindings, list.last[k].bindings) = {}
    BY <1>3 DEF Changed
  <2>2. x \in KeptSets(k, s)
    BY <2>1 DEF KeptSets, SetsOf
  <2> QED
    BY <1>1, <2>2 DEF MaySet, RepeatsMoved
<1>4. list.last[k].indirect = s.indirect => \A n \in IndirectNeeds(s) : L.state[n[1]] = n[2]
  BY <1>1 DEF MaySet, RepeatsMoved
<1> QED
  BY <1>1, <1>2, <1>3, <1>4 DEF Untouched

LEMMA VulkanKept ==
  ASSUME backend = "vulkan", IsList(list), NEW k \in Kinds, NEW s, MaySet(k, s),
         NEW L, L = Superseded(list)
  PROVE  BarriersKept(L, k, s)
<1>1. SUFFICES ASSUME list.dirty = FALSE PROVE BarriersKept(L, k, s)
  BY SupersededState DEF BarriersKept
<1>2. Kept(k) /\ Untouched(L, k, s)
  BY <1>1, KeptUntouched DEF Kept
<1>3. ASSUME NEW i \in DOMAIN s.bindings, i \notin Changed(s.bindings, L.last[k].bindings),
             Changed(s.bindings, L.last[k].bindings) = {} \/ Writes[s.bindings[i]] = {},
             NEW n \in SetNeeds(s.bindings[i])
      PROVE  L.state[n[1]] = n[2]
  <2>1. L.last = list.last /\ L.state = list.state
    BY SupersededState
  <2>2. s.bindings[i] \in KeptSets(k, s)
    BY <1>3, <2>1 DEF KeptSets
  <2> QED
    BY <1>2, <1>3, <2>1, <2>2 DEF MaySet, RepeatsMoved
<1> QED
  BY <1>2, <1>3 DEF BarriersKept, Untouched

LEMMA D3D12StaysKept ==
  ASSUME backend = "d3d12", IsList(list), NEW k \in Kinds, NEW s, MaySet(k, s),
         NEW L, L = Superseded(list)
  PROVE  D3D12Kept(L, k, s)
<1>1. L.last = list.last /\ L.valid = list.valid /\ L.version = list.version
  BY SupersededState
<1>2. HasVolatile(s.bindings) => L.version = Latest
  BY <1>1 DEF MaySet
<1>3. ASSUME k \in L.valid
      PROVE  /\ k = "meshlet" => "rays" \notin L.valid
             /\ Untouched(L, k, s)
             /\ k \in Rasters /\ L.last[k].pipeline # s.pipeline => L.last[k].values # s.values
  <2>1. Kept(k)
    BY <1>1, <1>3 DEF Kept
  <2>2. Untouched(L, k, s)
    BY <2>1, KeptUntouched
  <2>3. k = "meshlet" => "rays" \notin L.valid
    BY <1>1 DEF MaySet, MeshletAfterRays
  <2>4. k \in Rasters /\ L.last[k].pipeline # s.pipeline => L.last[k].values # s.values
    BY <1>1, <1>3 DEF MaySet, PipelineAlone, Rasters
  <2> QED
    BY <2>2, <2>3, <2>4
<1> QED
  BY <1>2, <1>3 DEF D3D12Kept, Untouched

LEMMA D3D11StaysFresh ==
  ASSUME backend = "d3d11", IsList(list), NEW s, MaySet("graphics", s), NEW L, L = Superseded(list)
  PROVE  D3D11Fresh(L, s)
  BY SupersededState DEF D3D11Fresh, MaySet, PipelineAlone

-----------------------------------------------------------------------------
(* Setting a state, on each backend.                                        *)

\* The list that SetState(k) leaves, before draw values are taken to be lost.
StateSet(k, L, s) ==
    CASE k = "graphics" -> SetGraphicsState(L, s)
      [] k = "meshlet"  -> SetMeshletState(L, s)
      [] k = "compute"  -> SetComputeState(L, s)
      [] k = "rays"     -> SetRayTracingState(L, s)

LEMMA VulkanStateSet ==
  ASSUME Assumptions, backend = "vulkan", IsList(list), VulkanInv(list), NEW k \in Kinds,
         NEW s \in StatesOf(k), MaySet(k, s), NEW L, L = Superseded(list), NEW R, R = StateSet(k, L, s)
  PROVE  IsList(R) /\ VulkanInv(R) /\ VulkanSet(R, k, s)
<1>1. /\ IsList(L) /\ VulkanInv(L) /\ BarriersKept(L, k, s)
      /\ L.last = list.last /\ L.pass = list.pass /\ L.sets = list.sets /\ L.pipeline = list.pipeline
      /\ HasVolatile(s.bindings) => L.version = Latest
  BY SupersededState, VulkanKept DEF HoldsOn, MaySet
<1>2. CASE k = "graphics"
  <2>1. PICK cached : cached = L.last[k].bindings
    OBVIOUS
  <2>2. R = SetRasterState(L, k, s, cached)
    BY <1>2, <2>1 DEF StateSet, SetGraphicsState, VulkanSetGraphicsState
  <2>3. CachedFits(L, k, s, cached)
    BY <2>1 DEF CachedFits
  <2>4. k \in Rasters /\ (HasVolatile(s.bindings) => L.version = Latest)
    BY <1>1, <1>2 DEF Rasters
  <2>5. IsList(L) /\ VulkanInv(L) /\ BarriersKept(L, k, s)
    BY <1>1
  <2> QED
    BY <2>2, <2>3, <2>4, <2>5, RasterHolds
<1>3. CASE k = "meshlet"
  <2>1. PICK cached : cached = L.last["compute"].bindings
    OBVIOUS
  <2>2. R = SetRasterState(L, k, s, cached)
    BY <1>3, <2>1 DEF StateSet, SetMeshletState, VulkanSetMeshletState
  <2>3. CachedFits(L, k, s, cached)
    BY <1>1, <1>3, <2>1 DEF MaySet, MeshletAfterCompute, CachedFits
  <2>4. k \in Rasters /\ (HasVolatile(s.bindings) => L.version = Latest)
    BY <1>1, <1>3 DEF Rasters
  <2>5. IsList(L) /\ VulkanInv(L) /\ BarriersKept(L, k, s)
    BY <1>1
  <2> QED
    BY <2>2, <2>3, <2>4, <2>5, RasterHolds
<1>4. CASE k = "compute"
  <2>1. R = VulkanSetComputeState(L, s)
    BY <1>4 DEF StateSet, SetComputeState
  <2> QED
    BY <1>1, <1>4, <2>1, ComputeHolds
<1>5. CASE k = "rays"
  <2>1. R = VulkanSetRayTracingState(L, s)
    BY <1>5 DEF StateSet, SetRayTracingState
  <2>2. /\ L.pass = None /\ L.last["rays"].bindings \in {<<>>, L.sets["rays"]}
        /\ L.last["rays"].pipeline \in {None, L.pipeline["rays"]}
    BY <1>1, <1>5 DEF MaySet, RaysInPass, RaysAfterFailure
  <2> QED
    BY <1>1, <1>5, <2>1, <2>2, RaysHolds
<1> QED
  BY <1>2, <1>3, <1>4, <1>5 DEF Kinds

LEMMA D3D12StateSet ==
  ASSUME Assumptions, backend = "d3d12", deviceHeap # 0, IsList(list), D3D12Inv(list), NEW k \in Kinds,
         NEW s \in StatesOf(k), MaySet(k, s), NEW L, L = Superseded(list), NEW R, R = StateSet(k, L, s)
  PROVE  IsList(R) /\ D3D12Inv(R) /\ D3D12Set(R, k, s)
<1>1. IsList(L) /\ D3D12Inv(L) /\ D3D12Kept(L, k, s)
  BY SupersededState, D3D12StaysKept DEF HoldsOn
<1>2. CASE k \in Rasters
  <2>1. R = SetD3D12RasterState(L, k, s, deviceHeap)
    BY <1>2 DEF StateSet, SetGraphicsState, SetMeshletState, D3D12SetGraphicsState,
                D3D12SetMeshletState, Rasters
  <2> QED
    BY <1>1, <1>2, <2>1, D3D12RasterHolds
<1>3. CASE k = "compute"
  <2>1. R = SetD3D12ComputeBindings(L, k, s, deviceHeap, {})
    BY <1>3 DEF StateSet, SetComputeState, D3D12SetComputeState
  <2> QED
    BY <1>1, <1>3, <2>1, D3D12ComputeHolds
<1>4. CASE k = "rays"
  <2>1. PICK kept : kept = L.valid \cap {"meshlet"}
    OBVIOUS
  <2>2. R = SetD3D12ComputeBindings(L, k, s, deviceHeap, kept)
    BY <1>4, <2>1 DEF StateSet, SetRayTracingState, D3D12SetRayTracingState
  <2> QED
    BY <1>1, <1>4, <2>1, <2>2, D3D12ComputeHolds
<1> QED
  BY <1>2, <1>3, <1>4 DEF Kinds, Rasters

LEMMA D3D11StateSet ==
  ASSUME Assumptions, SlotsAssumption, backend = "d3d11", IsList(list), D3D11Inv(list), NEW k \in Kinds,
         NEW s \in StatesOf(k), MaySet(k, s), NEW L, L = Superseded(list), NEW R, R = StateSet(k, L, s)
  PROVE  IsList(R) /\ D3D11Inv(R) /\ D3D11Set(R, k, s)
<1>1. IsList(L) /\ D3D11Inv(L)
  BY SupersededState DEF HoldsOn
<1>2. k \in {"graphics", "compute"}
  BY DEF MaySet, Supported
<1>3. CASE k = "graphics"
  <2>1. R = D3D11SetGraphicsState(L, s) /\ D3D11Fresh(L, s)
    BY <1>3, D3D11StaysFresh DEF StateSet, SetGraphicsState
  <2> QED
    BY <1>1, <1>3, <2>1, D3D11GraphicsHolds
<1>4. CASE k = "compute"
  <2>1. R = D3D11SetComputeState(L, s)
    BY <1>4 DEF StateSet, SetComputeState
  <2> QED
    BY <1>1, <1>4, <2>1, D3D11ComputeHolds
<1> QED
  BY <1>2, <1>3, <1>4

-----------------------------------------------------------------------------
(* The steps.                                                               *)

\* What every theorem supposes: the assumptions on the constants, the three
\* backends, and an application that makes none of the orders of calls named.
Promised == Assumptions /\ SlotsAssumption /\ Backends \subseteq {"vulkan", "d3d12", "d3d11"}
            /\ AllOrders \subseteq Avoided

\* A list that remembers the state set last, the other variables being kept.
LEMMA SetStateKeeps ==
  ASSUME Promised, CommandStatesInv, NEW k \in Kinds, SetState(k)
  PROVE  CommandStatesInv'
<1>1. PICK s \in StatesOf(k) :
        /\ Supported(k) /\ (HasVolatile(s.bindings) => list.version = Latest)
        /\ Avoids("RepeatsUavs", RepeatsUavs(k, s)) /\ Avoids("RepeatsMoved", RepeatsMoved(k, s))
        /\ Avoids("RaysInPass", RaysInPass(k)) /\ Avoids("PipelineAlone", PipelineAlone(k, s))
        /\ Avoids("MeshletAfterRays", MeshletAfterRays(k))
        /\ Avoids("RaysAfterFailure", RaysAfterFailure(k))
        /\ Avoids("MeshletAfterCompute", MeshletAfterCompute(k, s))
        /\ LET L == Superseded(list) IN
           list' = CASE k = "graphics" -> SetGraphicsState(L, s)
                     [] k = "meshlet"  -> SetMeshletState(L, s)
                     [] k = "compute"  -> WithoutDrawValues(SetComputeState(L, s))
                     [] k = "rays"     -> WithoutDrawValues(SetRayTracingState(L, s))
        /\ request' = [kind |-> k, state |-> s] /\ drawn' = FALSE
        /\ UNCHANGED <<backend, deviceHeap, overlap>>
  BY DEF SetState
<1>2. MaySet(k, s)
  BY <1>1 DEF Promised, AllOrders, Avoids, MaySet
<1>3. PICK L, R : L = Superseded(list) /\ R = StateSet(k, L, s)
  OBVIOUS
<1>4. list' = IF k \in Rasters THEN R ELSE WithoutDrawValues(R)
  BY <1>1, <1>3 DEF StateSet, Rasters, Kinds
<1>5. /\ backend \in {"vulkan", "d3d12", "d3d11"} /\ deviceHeap \in Nat \ {0}
      /\ IsList(list) /\ HoldsOn(backend, list)
  BY DEF CommandStatesInv, ListInv
<1>6. IsList(R) /\ HoldsOn(backend, R) /\ SetOn(backend, R, k, s)
  <2>1. CASE backend = "vulkan"
    BY <1>2, <1>3, <1>5, <2>1, VulkanStateSet DEF Promised, HoldsOn, SetOn
  <2>2. CASE backend = "d3d12"
    BY <1>2, <1>3, <1>5, <2>2, D3D12StateSet DEF Promised, HoldsOn, SetOn
  <2>3. CASE backend = "d3d11"
    BY <1>2, <1>3, <1>5, <2>3, D3D11StateSet DEF Promised, HoldsOn, SetOn
  <2> QED
    BY <1>5, <2>1, <2>2, <2>3
<1>7. IsList(list') /\ HoldsOn(backend, list') /\ SetOn(backend, list', k, s)
  <2>1. CASE k \in Rasters
    BY <1>4, <1>6, <2>1
  <2>2. CASE k \notin Rasters
    <3>1. PICK without : without = WithoutDrawValues(R)
      OBVIOUS
    <3>2. IsList(without) /\ HoldsOn(backend, without) /\ SetOn(backend, without, k, s)
      BY <1>6, <2>2, <3>1, WithoutHolds DEF Promised
    <3> QED
      BY <1>4, <2>2, <3>1, <3>2
  <2> QED
    BY <2>1, <2>2
<1>8. ListInv'
  BY <1>1, <1>5, <1>7 DEF ListInv
<1>9. request'.kind = k /\ request'.state = s
  BY <1>1
<1>10. RequestInv'
  BY <1>1, <1>7, <1>9 DEF RequestInv, Supported
<1> QED
  BY <1>8, <1>10 DEF CommandStatesInv

\* A step that voids the state set last, and leaves a list that holds.
LEMMA VoidKeeps ==
  ASSUME CommandStatesInv, IsList(list'), HoldsOn(backend, list'), request' = NoRequest,
         drawn' = FALSE, UNCHANGED <<backend, deviceHeap>>
  PROVE  CommandStatesInv'
<1>1. ListInv'
  BY DEF CommandStatesInv, ListInv
<1>2. request'.kind = None
  BY DEF NoRequest
<1>3. RequestInv'
  BY <1>2 DEF RequestInv
<1> QED
  BY <1>1, <1>3 DEF CommandStatesInv

LEMMA RayTracingStateFailsKeeps ==
  ASSUME Promised, CommandStatesInv, RayTracingStateFails
  PROVE  CommandStatesInv'
<1>1. PICK s \in RayTracingStates :
        /\ backend # "d3d11" /\ (HasVolatile(s.bindings) => list.version = Latest)
        /\ Avoids("RaysInPass", RaysInPass("rays"))
        /\ list' = IF backend = "vulkan" THEN VulkanRayTracingStateFails(Superseded(list), s) ELSE list
        /\ request' = NoRequest /\ drawn' = FALSE /\ UNCHANGED <<backend, deviceHeap, overlap>>
  BY DEF RayTracingStateFails
<1>2. IsList(list) /\ HoldsOn(backend, list) /\ s \in StatesOf("rays")
  BY DEF CommandStatesInv, ListInv, StatesOf
<1>3. IsList(list') /\ HoldsOn(backend, list')
  <2>1. CASE backend # "vulkan"
    BY <1>1, <1>2, <2>1
  <2>2. CASE backend = "vulkan"
    <3>1. PICK L, R : L = Superseded(list) /\ R = VulkanRayTracingStateFails(L, s)
      OBVIOUS
    <3>2. /\ IsList(L) /\ VulkanInv(L) /\ L.pass = list.pass
          /\ HasVolatile(s.bindings) => L.version = Latest
      BY <1>1, <1>2, <2>2, <3>1, SupersededState DEF HoldsOn
    <3>3. L.pass = None
      BY <1>1, <2>2, <3>2 DEF Promised, AllOrders, Avoids, RaysInPass
    <3>4. IsList(R) /\ VulkanInv(R)
      BY <1>2, <3>1, <3>2, <3>3, VulkanFailsHolds DEF Promised
    <3> QED
      BY <1>1, <2>2, <3>1, <3>4 DEF HoldsOn
  <2> QED
    BY <2>1, <2>2
<1> QED
  BY <1>1, <1>3, VoidKeeps

LEMMA DrawKeeps ==
  ASSUME Promised, CommandStatesInv, Draw
  PROVE  CommandStatesInv'
<1>1. PICK k, s : k = request.kind /\ s = request.state
  OBVIOUS
<1>2. /\ backend \in {"vulkan", "d3d12", "d3d11"} /\ deviceHeap \in Nat \ {0}
      /\ IsList(list) /\ HoldsOn(backend, list)
      /\ k \in Kinds /\ s \in StatesOf(k) /\ Supported(k) /\ SetOn(backend, list, k, s)
  BY <1>1 DEF CommandStatesInv, ListInv, RequestInv, Draw
<1>3. PICK R : R = Drawing(list)
  OBVIOUS
<1>4. IsList(R) /\ HoldsOn(backend, R) /\ SetOn(backend, R, k, s) /\ (backend # "d3d11" => R.anyVolatile = FALSE)
  <2>1. CASE backend = "vulkan"
    <3>1. R = IF k = "rays" THEN UpdateRayTracingVolatileBuffers(list) ELSE UpdateVolatileBuffers(list, k)
      BY <1>1, <1>2, <1>3, <2>1
         DEF Drawing, VulkanDraw, VulkanDispatchMesh, VulkanDispatch, VulkanDispatchRays, Kinds
    <3>2. k = "rays" => list.anyVolatile = FALSE
      BY <1>1, <1>2, <2>1 DEF Draw, Avoids, RaysRebind, Promised, AllOrders, IsList
    <3>3. VulkanInv(list) /\ VulkanSet(list, k, s)
      BY <1>2, <2>1 DEF HoldsOn, SetOn
    <3>4. IsList(R) /\ VulkanInv(R) /\ VulkanSet(R, k, s) /\ R.anyVolatile = FALSE
      BY <1>2, <3>1, <3>2, <3>3, VulkanDrawHolds DEF Promised
    <3> QED
      BY <2>1, <3>4 DEF HoldsOn, SetOn
  <2>2. CASE backend = "d3d12"
    <3>1. R = PatchVolatileBuffers(list, RootPoint(k))
      BY <1>1, <1>2, <1>3, <2>2
         DEF Drawing, D3D12Draw, D3D12DispatchMesh, D3D12Dispatch, D3D12DispatchRays, Kinds, RootPoint
    <3>2. D3D12Inv(list) /\ D3D12Set(list, k, s)
      BY <1>2, <2>2 DEF HoldsOn, SetOn
    <3>3. IsList(R) /\ D3D12Inv(R) /\ D3D12Set(R, k, s) /\ R.anyVolatile = FALSE
      BY <1>2, <3>1, <3>2, D3D12DrawHolds
    <3> QED
      BY <2>2, <3>3 DEF HoldsOn, SetOn
  <2>3. CASE backend = "d3d11"
    BY <1>2, <1>3, <2>3 DEF Drawing
  <2> QED
    BY <1>2, <2>1, <2>2, <2>3
<1>5. IsList(list') /\ Same(list', R, {"uses"})
  BY <1>3, <1>4, AccessFacts DEF Draw
<1>6. HoldsOn(backend, list') /\ SetOn(backend, list', k, s) /\ list'.anyVolatile = R.anyVolatile
  <2>1. PICK M : M = list'
    OBVIOUS
  <2>2. Same(M, R, {"uses"}) /\ Same(M, R, {"uses", "unordered"}) /\ M.anyVolatile = R.anyVolatile
    BY <1>5, <2>1 DEF Same
  <2>3. HoldsOn(backend, M) /\ SetOn(backend, M, k, s)
    BY <1>2, <1>4, <2>2, UsesHold, UsesKeep
  <2> QED
    BY <2>1, <2>2, <2>3
<1>7. UNCHANGED <<backend, deviceHeap, request>> /\ drawn' = TRUE /\ request.kind # None
  BY DEF Draw
<1>8. ListInv'
  BY <1>2, <1>5, <1>6, <1>7 DEF ListInv
<1>9. RequestInv'
  BY <1>1, <1>2, <1>4, <1>6, <1>7 DEF RequestInv, Supported
<1> QED
  BY <1>8, <1>9 DEF CommandStatesInv

LEMMA WriteVolatileKeeps ==
  ASSUME Promised, CommandStatesInv, WriteVolatile
  PROVE  CommandStatesInv'
<1>1. PICK R : R = list'
  OBVIOUS
<1>2. /\ backend \in {"vulkan", "d3d12", "d3d11"} /\ deviceHeap \in Nat \ {0}
      /\ IsList(list) /\ HoldsOn(backend, list)
  BY DEF CommandStatesInv, ListInv
<1>3. UNCHANGED <<backend, deviceHeap, request>> /\ drawn' = FALSE
  BY DEF WriteVolatile
<1>4. /\ IsList(R) /\ HoldsOn(backend, R)
      /\ \A k \in Kinds, s \in CachedStates : SetOn(backend, list, k, s) => SetOn(backend, R, k, s)
  <2>1. CASE backend = "vulkan"
    BY <1>1, <1>2, <2>1, VulkanVolatileHolds DEF WriteVolatile, HoldsOn, SetOn
  <2>2. CASE backend = "d3d12"
    BY <1>1, <1>2, <2>2, D3D12VolatileHolds DEF WriteVolatile, HoldsOn, SetOn
  <2>3. CASE backend = "d3d11"
    BY <1>1, <1>2, <2>3, D3D11VolatileHolds DEF WriteVolatile, HoldsOn, SetOn
  <2> QED
    BY <1>2, <2>1, <2>2, <2>3
<1>5. ListInv'
  BY <1>1, <1>2, <1>3, <1>4 DEF ListInv
<1>6. request.kind # None => SetOn(backend, R, request.kind, request.state)
  BY <1>4, StateFacts DEF CommandStatesInv, RequestInv, Promised
<1>7. RequestInv'
  BY <1>1, <1>3, <1>6 DEF CommandStatesInv, RequestInv, Supported
<1> QED
  BY <1>5, <1>7 DEF CommandStatesInv

LEMMA WriteKeeps ==
  ASSUME Promised, CommandStatesInv, Write
  PROVE  CommandStatesInv'
<1>1. PICK r \in Resources :
        /\ backend # "d3d11"
        /\ list' = IF backend = "vulkan" THEN VulkanWrite(list, r) ELSE D3D12Write(list, r)
        /\ request' = NoRequest /\ drawn' = FALSE /\ UNCHANGED <<backend, deviceHeap, overlap>>
  BY DEF Write
<1>2. PICK R : R = list'
  OBVIOUS
<1>3. backend \in {"vulkan", "d3d12", "d3d11"} /\ IsList(list) /\ HoldsOn(backend, list)
  BY DEF CommandStatesInv, ListInv
<1>4. IsList(R) /\ HoldsOn(backend, R)
  <2>1. CASE backend = "vulkan"
    BY <1>1, <1>2, <1>3, <2>1, VulkanWriteHolds DEF HoldsOn
  <2>2. CASE backend = "d3d12"
    BY <1>1, <1>2, <1>3, <2>2, D3D12WriteHolds DEF HoldsOn
  <2> QED
    BY <1>1, <1>3, <2>1, <2>2
<1> QED
  BY <1>1, <1>2, <1>4, VoidKeeps

LEMMA ClearBufferKeeps ==
  ASSUME Promised, CommandStatesInv, ClearBuffer
  PROVE  CommandStatesInv'
<1>1. PICK r \in Buffers :
        /\ backend = "d3d12" /\ Avoids("ClearAfterGrow", ClearAfterGrow)
        /\ list' = D3D12ClearBuffer(list, r, deviceHeap)
        /\ request' = NoRequest /\ drawn' = FALSE /\ UNCHANGED <<backend, deviceHeap, overlap>>
  BY DEF ClearBuffer
<1>2. PICK R : R = list'
  OBVIOUS
<1>3. deviceHeap # 0 /\ IsList(list) /\ HoldsOn(backend, list)
  BY DEF CommandStatesInv, ListInv
<1>4. r \in Resources
  BY DEF Promised, Assumptions, NamesAssumption
<1>5. list.heap \in {0, deviceHeap}
  BY <1>1 DEF Promised, AllOrders, Avoids, ClearAfterGrow
<1>6. IsList(R) /\ HoldsOn(backend, R)
  BY <1>1, <1>2, <1>3, <1>4, <1>5, D3D12ClearBufferHolds DEF HoldsOn
<1> QED
  BY <1>1, <1>2, <1>6, VoidKeeps

LEMMA ClearDepthKeeps ==
  ASSUME Promised, CommandStatesInv, ClearDepth
  PROVE  CommandStatesInv'
<1>1. /\ backend = "vulkan" /\ list' = VulkanClearDepth(list, TargetTexture)
      /\ request' = NoRequest /\ drawn' = FALSE /\ UNCHANGED <<backend, deviceHeap, overlap>>
  BY DEF ClearDepth
<1>2. PICK R : R = list'
  OBVIOUS
<1>3. IsList(list) /\ HoldsOn(backend, list) /\ TargetTexture \in Resources
  BY DEF CommandStatesInv, ListInv, Promised, Assumptions, NamesAssumption
<1>4. IsList(R) /\ HoldsOn(backend, R)
  BY <1>1, <1>2, <1>3, VulkanClearDepthHolds DEF HoldsOn
<1> QED
  BY <1>1, <1>2, <1>4, VoidKeeps

LEMMA ClearStateKeeps ==
  ASSUME Promised, CommandStatesInv, ClearState
  PROVE  CommandStatesInv'
<1>1. PICK R : R = list'
  OBVIOUS
<1>2. request' = NoRequest /\ drawn' = FALSE /\ UNCHANGED <<backend, deviceHeap, overlap>>
  BY DEF ClearState
<1>3. backend \in {"vulkan", "d3d12", "d3d11"} /\ IsList(list) /\ HoldsOn(backend, list)
  BY DEF CommandStatesInv, ListInv
<1>4. IsList(R) /\ HoldsOn(backend, R)
  <2>1. CASE backend = "vulkan"
    BY <1>1, <1>3, <2>1, VulkanClearHolds DEF ClearState, HoldsOn
  <2>2. CASE backend = "d3d12"
    BY <1>1, <1>3, <2>2, D3D12ClearHolds DEF ClearState, HoldsOn
  <2>3. CASE backend = "d3d11"
    BY <1>1, <1>3, <2>3, D3D11ClearHolds DEF ClearState, HoldsOn
  <2> QED
    BY <1>3, <2>1, <2>2, <2>3
<1> QED
  BY <1>1, <1>2, <1>4, VoidKeeps

LEMMA ReopenKeeps ==
  ASSUME Promised, CommandStatesInv, Reopen
  PROVE  CommandStatesInv'
<1>1. PICK R : R = list'
  OBVIOUS
<1>2. request' = NoRequest /\ drawn' = FALSE /\ UNCHANGED <<backend, deviceHeap>>
  BY DEF Reopen
<1>3. backend \in {"vulkan", "d3d12", "d3d11"} /\ IsList(list) /\ HoldsOn(backend, list)
  BY DEF CommandStatesInv, ListInv
<1>4. IsList(R) /\ HoldsOn(backend, R)
  <2>1. CASE backend = "vulkan"
    BY <1>1, <1>3, <2>1, VulkanReopenHolds DEF Reopen, HoldsOn
  <2>2. CASE backend = "d3d12"
    BY <1>1, <1>3, <2>2, D3D12ReopenHolds DEF Reopen, HoldsOn
  <2>3. CASE backend = "d3d11"
    BY <1>1, <1>3, <2>3, D3D11ClearHolds DEF Reopen, HoldsOn
  <2> QED
    BY <1>3, <2>1, <2>2, <2>3
<1> QED
  BY <1>1, <1>2, <1>4, VoidKeeps

\* Steps that leave the list alone.
LEMMA RestKeeps ==
  ASSUME Promised, CommandStatesInv, \/ GrowHeap
                                     \/ \E enable \in BOOLEAN : SetEnableUavBarriers(enable)
                                     \/ UNCHANGED vars
  PROVE  CommandStatesInv'
<1>1. /\ backend' = backend /\ list' = list /\ request' = request /\ deviceHeap' \in Nat \ {0}
      /\ drawn' = FALSE \/ drawn' = drawn
  BY DEF CommandStatesInv, ListInv, GrowHeap, SetEnableUavBarriers, vars
<1>2. ListInv'
  BY <1>1 DEF CommandStatesInv, ListInv
<1>3. /\ drawn \in BOOLEAN /\ (drawn => request.kind # None)
      /\ drawn /\ backend # "d3d11" => list.anyVolatile = FALSE
      /\ request.kind # None =>
           /\ request.kind \in Kinds /\ request.state \in StatesOf(request.kind)
           /\ Supported(request.kind) /\ SetOn(backend, list, request.kind, request.state)
  BY DEF CommandStatesInv, RequestInv
<1>4. /\ drawn' \in BOOLEAN /\ (drawn' => request'.kind # None)
      /\ drawn' /\ backend' # "d3d11" => list'.anyVolatile = FALSE
  <2>1. CASE drawn' = FALSE
    BY <2>1
  <2>2. CASE drawn' = drawn
    BY <1>1, <1>3, <2>2
  <2> QED
    BY <1>1, <2>1, <2>2
<1>5. request'.kind # None =>
         /\ request'.kind \in Kinds /\ request'.state \in StatesOf(request'.kind)
         /\ Supported(request.kind)' /\ SetOn(backend', list', request'.kind, request'.state)
  BY <1>1, <1>3 DEF Supported
<1>6. RequestInv'
  BY <1>4, <1>5 DEF RequestInv
<1> QED
  BY <1>2, <1>6 DEF CommandStatesInv

LEMMA InitHolds ==
  ASSUME Promised, Init
  PROVE  CommandStatesInv
<1>1. /\ backend \in {"vulkan", "d3d12", "d3d11"} /\ deviceHeap \in Nat \ {0}
      /\ list = IF backend = "d3d11" THEN D3D11ClearState(EmptyList) ELSE EmptyList
      /\ request.kind = None /\ drawn = FALSE
  BY DEF Init, Promised, NoRequest
<1>2. IsList(EmptyList) /\ VulkanInv(EmptyList) /\ D3D12Inv(EmptyList)
  BY EmptyFacts, NothingRemembered, NothingValid
<1>3. IsList(list) /\ HoldsOn(backend, list)
  BY <1>1, <1>2, D3D11ClearHolds DEF HoldsOn
<1> QED
  BY <1>1, <1>3 DEF CommandStatesInv, ListInv, RequestInv

LEMMA NextHolds ==
  ASSUME Promised, CommandStatesInv, [Next]_vars
  PROVE  CommandStatesInv'
<1>1. CASE \E k \in Kinds : SetState(k)
  BY <1>1, SetStateKeeps
<1>2. CASE RayTracingStateFails
  BY <1>2, RayTracingStateFailsKeeps
<1>3. CASE Draw
  BY <1>3, DrawKeeps
<1>4. CASE WriteVolatile
  BY <1>4, WriteVolatileKeeps
<1>5. CASE Write
  BY <1>5, WriteKeeps
<1>6. CASE ClearBuffer
  BY <1>6, ClearBufferKeeps
<1>7. CASE ClearDepth
  BY <1>7, ClearDepthKeeps
<1>8. CASE ClearState
  BY <1>8, ClearStateKeeps
<1>9. CASE Reopen
  BY <1>9, ReopenKeeps
<1>10. CASE GrowHeap \/ (\E enable \in BOOLEAN : SetEnableUavBarriers(enable)) \/ UNCHANGED vars
  BY <1>10, RestKeeps
<1> QED
  BY <1>1, <1>2, <1>3, <1>4, <1>5, <1>6, <1>7, <1>8, <1>9, <1>10 DEF Next

-----------------------------------------------------------------------------
(* What a draw or a dispatch finds.                                         *)

\* What is known when the last command was a draw or a dispatch.
LEMMA DrawnFacts ==
  ASSUME Promised, CommandStatesInv, drawn,
         NEW k, k = request.kind, NEW s, s = request.state, NEW L, L = list
  PROVE  /\ k \in Kinds /\ s \in StatesOf(k) /\ s.pipeline # None /\ IsList(L)
         /\ backend \in {"vulkan", "d3d12", "d3d11"} /\ (backend = "d3d11" => k \in {"graphics", "compute"})
         /\ backend # "d3d11" => L.anyVolatile = FALSE
         /\ backend = "vulkan" => VulkanInv(L) /\ VulkanSet(L, k, s)
         /\ backend = "d3d12" => D3D12Inv(L) /\ D3D12Set(L, k, s) /\ D3D12Knows(L, k)
         /\ backend = "d3d11" => D3D11Inv(L) /\ D3D11Set(L, k, s)
<1>1. /\ k \in Kinds /\ s \in StatesOf(k) /\ IsList(L) /\ Supported(k)
      /\ backend \in {"vulkan", "d3d12", "d3d11"}
      /\ HoldsOn(backend, L) /\ SetOn(backend, L, k, s) /\ (backend # "d3d11" => L.anyVolatile = FALSE)
  BY DEF CommandStatesInv, ListInv, RequestInv
<1>2. s.pipeline # None
  BY <1>1, StateFacts DEF Promised
<1>3. D3D12Set(L, k, s) => D3D12Knows(L, k)
  BY DEF D3D12Set, D3D12Knows
<1> QED
  BY <1>1, <1>2, <1>3 DEF HoldsOn, SetOn, Supported

LEMMA DrawnState ==
  ASSUME Promised, CommandStatesInv
  PROVE  DrawsWithState
<1>1. SUFFICES ASSUME drawn PROVE DrawsWithState
  BY DEF DrawsWithState, DrawsWithPipeline, DrawsWithValues
<1>2. PICK k, s, L : k = request.kind /\ s = request.state /\ L = list
  OBVIOUS
<1>3. /\ k \in Kinds /\ s.pipeline # None /\ backend \in {"vulkan", "d3d12", "d3d11"}
      /\ backend = "d3d11" => k \in {"graphics", "compute"}
      /\ backend = "vulkan" => VulkanInv(L) /\ VulkanSet(L, k, s)
      /\ backend = "d3d12" => D3D12Inv(L) /\ D3D12Set(L, k, s) /\ D3D12Knows(L, k)
      /\ backend = "d3d11" => D3D11Inv(L) /\ D3D11Set(L, k, s)
  BY <1>1, <1>2, DrawnFacts
<1>4. ASSUME backend = "vulkan"
      PROVE  L.pipeline[VulkanPoint(k)] = s.pipeline /\ (k \in Rasters => ValuesSet(L, k, s))
  BY <1>3, <1>4 DEF VulkanInv, VulkanSet, VulkanRemembers, Bound
<1>5. ASSUME backend = "d3d12"
      PROVE  /\ L.pipeline[RootPoint(k)] = s.pipeline
             /\ k \in Rasters =>
                  /\ ValuesSet(L, k, s) /\ L.scissor = (s.pipeline \in ScissorEnabled)
                  /\ k = "graphics" => L.strides = InputLayout[s.pipeline]
  BY <1>3, <1>5 DEF D3D12Inv, D3D12Set, D3D12Remembers, Bound
<1>6. ASSUME backend = "d3d11"
      PROVE  /\ L.pipeline[RootPoint(k)] = s.pipeline
             /\ k \in Rasters =>
                  /\ ValuesSet(L, k, s) /\ (k = "graphics" => L.strides = InputLayout[s.pipeline])
  <2>1. k \in L.valid /\ L.last[k] = s /\ RootPoint(k) = k /\ (k \in Rasters => k = "graphics")
    BY <1>3, <1>6 DEF D3D11Set, RootPoint, Rasters
  <2> QED
    BY <1>3, <1>6, <2>1 DEF D3D11Inv, D3D11Remembers
<1>7. DrawsWithPipeline
  BY <1>2, <1>3, <1>4, <1>5, <1>6 DEF DrawsWithPipeline, Point
<1>8. DrawsWithValues
  BY <1>2, <1>3, <1>4, <1>5, <1>6 DEF DrawsWithValues, Raster, Rasters, ValuesSet
<1> QED
  BY <1>7, <1>8 DEF DrawsWithState

LEMMA DrawnBindings ==
  ASSUME Promised, CommandStatesInv
  PROVE  DrawsWithBindings
<1>1. SUFFICES ASSUME drawn PROVE DrawsWithBindings
  BY DEF DrawsWithBindings
<1>2. PICK k, s, L : k = request.kind /\ s = request.state /\ L = list
  OBVIOUS
<1>3. /\ k \in Kinds /\ s \in StatesOf(k) /\ backend \in {"vulkan", "d3d12", "d3d11"}
      /\ backend = "d3d11" => k \in {"graphics", "compute"}
      /\ backend = "vulkan" => VulkanInv(L) /\ VulkanSet(L, k, s)
      /\ backend = "d3d12" => D3D12Inv(L) /\ D3D12Set(L, k, s) /\ D3D12Knows(L, k)
      /\ backend = "d3d11" => D3D11Inv(L) /\ D3D11Set(L, k, s)
  BY <1>1, <1>2, DrawnFacts
<1>4. CASE backend = "d3d11"
  <2>1. k \in L.valid /\ L.last[k] = s
    BY <1>3, <1>4 DEF D3D11Set
  <2>2. InSlots(L, k, s)
    BY <1>3, <1>4, <2>1 DEF D3D11Inv, D3D11Remembers
  <2>3. Point = k /\ (Raster <=> k = "graphics")
    BY <1>2, <1>3, <1>4 DEF Point, Raster, RootPoint
  <2> QED
    BY <1>2, <1>4, <2>2, <2>3 DEF DrawsWithBindings, InSlots, Visible
<1>5. CASE backend # "d3d11"
  <2>1. s.bindings # <<>> => L.sets[Point] = s.bindings
    <3>1. CASE backend = "vulkan"
      BY <1>2, <1>3, <3>1 DEF VulkanSet, Bound, Point
    <3>2. CASE backend = "d3d12"
      BY <1>2, <1>3, <3>2 DEF D3D12Inv, D3D12Set, D3D12Remembers, Bound, Point
    <3> QED
      BY <1>3, <1>5, <3>1, <3>2
  <2>2. s.bindings \in Seq(BindingSets)
    BY <1>3, StateFacts DEF Promised
  <2>3. CASE s.bindings = <<>>
    BY <1>2, <1>5, <2>3 DEF DrawsWithBindings
  <2>4. CASE s.bindings # <<>>
    BY <1>2, <1>5, <2>1, <2>4 DEF DrawsWithBindings
  <2> QED
    BY <2>3, <2>4
<1> QED
  BY <1>4, <1>5

LEMMA DrawnLatest ==
  ASSUME Promised, CommandStatesInv
  PROVE  DrawsWithLatestData
<1>1. SUFFICES ASSUME drawn, HasVolatile(request.state.bindings) PROVE list.bound[Point] = list.version
  BY DEF DrawsWithLatestData
<1>2. PICK k, s, L : k = request.kind /\ s = request.state /\ L = list
  OBVIOUS
<1>3. /\ k \in Kinds /\ backend \in {"vulkan", "d3d12", "d3d11"}
      /\ backend # "d3d11" => L.anyVolatile = FALSE
      /\ backend = "vulkan" => VulkanSet(L, k, s)
      /\ backend = "d3d12" => D3D12Inv(L) /\ D3D12Set(L, k, s) /\ D3D12Knows(L, k)
      /\ backend = "d3d11" => D3D11Inv(L)
  BY <1>1, <1>2, DrawnFacts
<1>4. CASE backend = "vulkan"
  BY <1>1, <1>2, <1>3, <1>4 DEF VulkanSet, VulkanLatest, Point
<1>5. CASE backend = "d3d12"
  BY <1>1, <1>2, <1>3, <1>5 DEF D3D12Inv, D3D12Set, D3D12Remembers, D3D12Latest, Point
<1>6. CASE backend = "d3d11"
  BY <1>2, <1>3, <1>6, PointFacts DEF D3D11Inv, Point
<1> QED
  BY <1>3, <1>4, <1>5, <1>6

LEMMA DrawnTarget ==
  ASSUME Promised, CommandStatesInv
  PROVE  DrawsIntoFramebuffer
<1>1. PassKnown
  <2>1. SUFFICES ASSUME backend = "vulkan"
                 PROVE  list.pass # None <=> \E k \in Rasters : list.last[k].framebuffer # None
    BY DEF PassKnown, Rasters
  <2>2. VulkanPass(list)
    BY <2>1 DEF CommandStatesInv, ListInv, HoldsOn, VulkanInv
  <2> QED
    BY <2>2 DEF VulkanPass
<1>2. ASSUME drawn
      PROVE  (IF backend = "vulkan" THEN list.pass ELSE IF Raster THEN list.target ELSE None)
                = request.state.framebuffer
  <2>1. PICK k, s, L : k = request.kind /\ s = request.state /\ L = list
    OBVIOUS
  <2>2. /\ k \in Kinds /\ s \in StatesOf(k) /\ backend \in {"vulkan", "d3d12", "d3d11"}
        /\ backend = "d3d11" => k \in {"graphics", "compute"}
        /\ backend = "vulkan" => VulkanSet(L, k, s)
        /\ backend = "d3d12" => D3D12Inv(L) /\ D3D12Set(L, k, s) /\ D3D12Knows(L, k)
        /\ backend = "d3d11" => D3D11Inv(L) /\ D3D11Set(L, k, s)
    BY <1>2, <2>1, DrawnFacts
  <2>3. (Raster <=> k \in Rasters) /\ (k \notin Rasters => s.framebuffer = None)
    BY <2>1, <2>2, StateFacts DEF Promised, Raster, Rasters
  <2>4. CASE backend = "vulkan"
    BY <2>1, <2>2, <2>4 DEF VulkanSet
  <2>5. CASE backend = "d3d12"
    <3>1. k \in Rasters => L.target = s.framebuffer
      BY <2>2, <2>5 DEF D3D12Inv, D3D12Set, D3D12Remembers
    <3> QED
      BY <2>1, <2>3, <2>5, <3>1
  <2>6. CASE backend = "d3d11"
    <3>1. k \in Rasters => L.target = s.framebuffer
      BY <2>2, <2>6 DEF D3D11Inv, D3D11Set, D3D11Remembers, Rasters
    <3> QED
      BY <2>1, <2>3, <2>6, <3>1
  <2> QED
    BY <2>2, <2>4, <2>5, <2>6
<1> QED
  BY <1>1, <1>2 DEF DrawsIntoFramebuffer

LEMMA DrawnPrepared ==
  ASSUME Promised, CommandStatesInv
  PROVE  DrawsOnReadyResources /\ DrawsAfterUavBarriers
<1>1. ASSUME drawn, backend # "d3d11" PROVE Prepared(list, request.state)
  BY <1>1, DrawnFacts DEF VulkanSet, D3D12Set
<1> QED
  BY <1>1 DEF DrawsOnReadyResources, DrawsAfterUavBarriers, Prepared, Ready

-----------------------------------------------------------------------------
(* The theorems.                                                            *)

\* A list remembers only what is bound, and the state set last is what it
\* remembers, on every backend and after any calls.
THEOREM CommandStatesInvariant == ASSUME Promised PROVE Spec => []CommandStatesInv
<1>1. Init => CommandStatesInv
  BY InitHolds
<1>2. CommandStatesInv /\ [Next]_vars => CommandStatesInv'
  BY NextHolds
<1> QED
  BY <1>1, <1>2, PTL DEF Spec

\* A draw or a dispatch has the pipeline and the values of the state set last,
\* whichever of them the caches left out (setGraphicsState, setMeshletState).
THEOREM DrawsSeeState == ASSUME Promised PROVE Spec => []DrawsWithState
<1>1. CommandStatesInv => DrawsWithState
  BY DrawnState
<1> QED
  BY <1>1, CommandStatesInvariant, PTL

\* A draw or a dispatch sees all binding sets of the state set last, in the
\* slots of all stages on D3D11, although only those that changed are bound
\* (bindBindingSets, setGraphicsBindings, prepareToBindGraphicsResourceSets).
THEOREM DrawsSeeBindings == ASSUME Promised PROVE Spec => []DrawsWithBindings
<1>1. CommandStatesInv => DrawsWithBindings
  BY DrawnBindings
<1> QED
  BY <1>1, CommandStatesInvariant, PTL

\* A draw or a dispatch sees the version of the volatile buffer written last,
\* whether it was written before the state was set or after
\* (updateGraphicsVolatileBuffers and its like).
THEOREM DrawsSeeLatestData == ASSUME Promised PROVE Spec => []DrawsWithLatestData
<1>1. CommandStatesInv => DrawsWithLatestData
  BY DrawnLatest
<1> QED
  BY <1>1, CommandStatesInvariant, PTL

\* A draw goes into the framebuffer of its state, and the Vulkan list knows at
\* all times whether a render pass is active (beginRenderPass, endRenderPass).
THEOREM DrawsReachFramebuffer == ASSUME Promised PROVE Spec => []DrawsIntoFramebuffer
<1>1. CommandStatesInv => DrawsIntoFramebuffer
  BY DrawnTarget
<1> QED
  BY <1>1, CommandStatesInvariant, PTL

\* A draw or a dispatch finds every resource in the state it needs, with no
\* barrier left to record, although unchanged sets are not required again
\* (setResourceStatesForBindingSet, insertGraphicsResourceBarriers).
THEOREM DrawsFindReadyResources == ASSUME Promised PROVE Spec => []DrawsOnReadyResources
<1>1. CommandStatesInv => DrawsOnReadyResources
  BY DrawnPrepared
<1> QED
  BY <1>1, CommandStatesInvariant, PTL

\* UAVs accessed under an earlier state have had a barrier before a draw or a
\* dispatch accesses them again.
THEOREM DrawsFollowUavBarriers == ASSUME Promised PROVE Spec => []DrawsAfterUavBarriers
<1>1. CommandStatesInv => DrawsAfterUavBarriers
  BY DrawnPrepared
<1> QED
  BY <1>1, CommandStatesInvariant, PTL
=============================================================================
