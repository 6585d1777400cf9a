------------------------ MODULE VulkanCommandState ------------------------
(***************************************************************************)
(* The caches of the Vulkan command list.  A null framebuffer in both      *)
(* m_CurrentGraphicsState and m_CurrentMeshletState means that no          *)
(* rendering is active; every set*State resets the three other kinds.      *)
(***************************************************************************)
EXTENDS CommandState

(* Mutant: only the graphics state forgets its framebuffer. *)
EndGraphicsRenderPass(L) == [L EXCEPT !.pass = None, !.last["graphics"].framebuffer = None]

InFramebuffer(last, f) == [last EXCEPT !["graphics"].framebuffer = f, !["meshlet"].framebuffer = f]

EndRenderPass(L) ==
    IF L.last["graphics"].framebuffer = None /\ L.last["meshlet"].framebuffer = None
    THEN L ELSE [L EXCEPT !.pass = None, !.last = InFramebuffer(@, None)]

BeginRenderPass(L, f) == [EndRenderPass(L) EXCEPT !.pass = f, !.last = InFramebuffer(@, f)]

(* Barriers cannot be recorded inside a render pass. *)
CommitVulkanBarriers(L) ==
    IF L.pending THEN [EndRenderPass(L) EXCEPT !.pending = FALSE] ELSE L

SetsToTransitionChanged(L, new, old) ==     \* mutant: unchanged UAVs are skipped
    {new[i] : i \in DOMAIN new \cap (IF L.dirty THEN AllSets ELSE Changed(new, old))}

(* insertResourceBarriersForBindingSets: sets of the same bindings are
   skipped unless dirty, UAVs included. *)
SetsToTransition(L, new, old) ==
    LET mask == IF L.dirty THEN AllSets ELSE Changed(new, old)
    IN  {new[i] : i \in {j \in DOMAIN new : j \in mask \/ (mask # {} /\ Writes[new[j]] # {})}}

(* insertGraphicsResourceBarriers and its like for the three other kinds. *)
InsertResourceBarriers(L, k, s) ==
    LET old == L.last[k]
        needs == (UNION {SetNeeds(x) : x \in SetsToTransition(L, s.bindings, old.bindings)})
                 \cup (IF L.dirty \/ s.indirect # old.indirect THEN IndirectNeeds(s) ELSE {})
                 \cup (IF L.dirty \/ s.framebuffer # old.framebuffer THEN TargetNeeds(s) ELSE {})
    IN  [Require(L, needs) EXCEPT !.dirty = FALSE]

BindPipeline(L, k, p) ==
    IF L.last[k].pipeline = p THEN L
    ELSE [L EXCEPT !.pipeline[VulkanPoint(k)] = p,
                   \* a pipeline with static values takes the dynamic ones away
                   !.stencil = IF k \in {"graphics", "meshlet"} /\ p \notin UsesStencil THEN None ELSE @,
                   !.blend   = IF k \in {"graphics", "meshlet"} /\ p \notin UsesBlend THEN None ELSE @]

BindBindingSets(L, point, b) ==
    IF b = <<>> THEN L
    ELSE [L EXCEPT !.sets[point] = b,
                   !.bound[point] = IF HasVolatile(b) THEN L.version ELSE @]

BindIfDifferent(L, k, s, cached) ==         \* mutant: new volatile data is missed
    IF cached # s.bindings THEN BindBindingSets(L, VulkanPoint(k), s.bindings) ELSE L

BindIfChanged(L, k, s, cached) ==
    IF cached # s.bindings \/ L.anyVolatile THEN BindBindingSets(L, VulkanPoint(k), s.bindings) ELSE L

(* Viewports and, for graphics, the vertex and index buffers follow the values
   passed; blend constants and stencil reference follow the pipeline, too. *)
SetDynamicState(L, k, s, newPipeline) ==
    LET differ == L.last[k].values # s.values
    IN  [L EXCEPT !.viewport = IF differ THEN s.values ELSE @,
                  !.vertices = IF k = "graphics" /\ differ THEN s.values ELSE @,
                  !.stencil  = IF s.pipeline \in UsesStencil /\ (newPipeline \/ differ) THEN s.values ELSE @,
                  !.blend    = IF s.pipeline \in UsesBlend /\ (newPipeline \/ differ) THEN s.values ELSE @]

RememberOnly(L, k, s) ==                    \* mutant: other kinds stay valid
    [L EXCEPT !.last[k] = s, !.anyVolatile = FALSE]

(* Every set*State ends by remembering its state and forgetting the others. *)
Remember(L, k, s) ==
    [L EXCEPT !.last = [x \in Kinds |-> IF x = k THEN s ELSE NoState], !.anyVolatile = FALSE]

(* The part setGraphicsState and setMeshletState share; they differ in the
   bindings they compare the new ones with. *)
SetRasterState(L, k, s, cached) ==
    LET required == InsertResourceBarriers(L, k, s)
        piped    == BindPipeline(required, k, s.pipeline)
        ended    == IF piped.last[k].framebuffer # s.framebuffer \/ piped.pending
                    THEN EndRenderPass(piped) ELSE piped
        ready    == CommitVulkanBarriers(ended)
        inPass   == IF ready.last[k].framebuffer = None THEN BeginRenderPass(ready, s.framebuffer) ELSE ready
        boundTo  == BindIfChanged(inPass, k, s, cached)
    IN  Remember(SetDynamicState(boundTo, k, s, L.last[k].pipeline # s.pipeline), k, s)

VulkanSetGraphicsState(L, s) == SetRasterState(L, "graphics", s, L.last["graphics"].bindings)

(* The comparison with the bindings of the compute state is the code's. *)
VulkanSetMeshletState(L, s) == SetRasterState(L, "meshlet", s, L.last["compute"].bindings)

VulkanSetComputeState(L, s) ==
    LET required == InsertResourceBarriers(EndRenderPass(L), "compute", s)
        piped    == BindPipeline(required, "compute", s.pipeline)
        boundTo  == BindIfChanged(piped, "compute", s, L.last["compute"].bindings)
    IN  Remember(CommitVulkanBarriers(boundTo), "compute", s)

(* setRayTracingState does not end the render pass by itself: only barriers
   that are pending do.  Every other kind is forgotten all the same. *)
VulkanSetRayTracingState(L, s) ==
    LET required == InsertResourceBarriers(L, "rays", s)
        piped    == BindPipeline(required, "rays", s.pipeline)
        boundTo  == BindIfChanged(piped, "rays", s, L.last["rays"].bindings)
    IN  Remember(CommitVulkanBarriers(boundTo), "rays", s)

(* ... and returns early, with nothing remembered and the barriers pending,
   when the shader table cannot be built. *)
VulkanRayTracingStateFails(L, s) ==
    LET required == InsertResourceBarriers(L, "rays", s)
        piped    == BindPipeline(required, "rays", s.pipeline)
    IN  BindIfChanged(piped, "rays", s, L.last["rays"].bindings)

(* updateGraphicsVolatileBuffers, updateMeshletVolatileBuffers and
   updateComputeVolatileBuffers rebind the sets of the state, ... *)
UpdateVolatileBuffers(L, k) ==
    IF ~L.anyVolatile \/ L.last[k].pipeline = None THEN L
    ELSE [BindBindingSets(L, VulkanPoint(k), L.last[k].bindings) EXCEPT !.anyVolatile = FALSE]

(* ... updateRayTracingVolatileBuffers those of the compute state. *)
UpdateRayTracingVolatileBuffers(L) ==
    IF ~L.anyVolatile \/ L.last["rays"].pipeline = None THEN L
    ELSE [BindBindingSets(L, "rays", L.last["compute"].bindings) EXCEPT !.anyVolatile = FALSE]

VulkanDraw(L)         == UpdateVolatileBuffers(L, "graphics")
VulkanDispatchMesh(L) == UpdateVolatileBuffers(L, "meshlet")
VulkanDispatch(L)     == UpdateVolatileBuffers(L, "compute")
VulkanDispatchRays(L) == UpdateRayTracingVolatileBuffers(L)

(* writeBuffer of the volatile buffer, and a write, copy or clear of another
   resource: it ends the render pass, and says that states have changed. *)
VulkanWriteVolatile(L) == [WriteVersion(L) EXCEPT !.anyVolatile = TRUE]

VulkanWrite(L, r) ==
    CommitVulkanBarriers([Require(EndRenderPass(L), {<<r, "copy">>}) EXCEPT !.dirty = TRUE])

(* clearDepthStencilTexture does not say so. *)
VulkanClearDepth(L, r) == CommitVulkanBarriers(Require(EndRenderPass(L), {<<r, "copy">>}))

VulkanClearState(L) ==
    [EndRenderPass(L) EXCEPT !.last = [k \in Kinds |-> NoState], !.anyVolatile = FALSE]

(* close() ends the pass, lets the tracker return resources to their initial
   states, and clears the caches; reopening starts a command buffer anew. *)
VulkanReopen(L) ==
    LET closed == VulkanClearState(CommitVulkanBarriers(Require(EndRenderPass(L),
                                                        {<<r, "copy">> : r \in Resources})))
    IN  [EmptyList EXCEPT !.dirty = closed.dirty, !.last = closed.last, !.anyVolatile = closed.anyVolatile,
                          !.state = closed.state]
=============================================================================
