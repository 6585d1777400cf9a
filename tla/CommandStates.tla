-------------------------- MODULE CommandStates --------------------------
(***************************************************************************)
(* One command list of any backend, recorded by an application that sets   *)
(* states of every kind, draws, writes the volatile constant buffer        *)
(* between setting and drawing, writes other resources, and starts over.   *)
(*                                                                         *)
(* The promise is that the caches are invisible: a draw sees the state     *)
(* that was set last, as if every call recorded everything.  Some orders   *)
(* of calls break it; Avoided names those the application stays away from. *)
(***************************************************************************)
EXTENDS VulkanCommandState, D3D12CommandState, D3D11CommandState

CONSTANTS
    Backends,
    Avoided,      \* orders of calls the application does not make
    MaxHeaps,     \* bound: times the descriptor heap is replaced
    MaxOverlap    \* bound: calls that switch UAV barriers off

VARIABLES
    backend,      \* the backend, chosen once
    list,         \* the command list: see CommandState
    deviceHeap,   \* D3D12: the shader-visible heap of the device
    overlap,      \* D3D11: m_NumUAVOverlapCommands
    request,      \* the kind and the state set last; None if it is void
    drawn         \* the last command was a draw or a dispatch

vars == <<backend, list, deviceHeap, overlap, request, drawn>>

NoRequest == [kind |-> None, state |-> NoState]

Init ==
    /\ backend \in Backends
    /\ list = IF backend = "d3d11" THEN D3D11ClearState(EmptyList) ELSE EmptyList
    /\ deviceHeap = 1
    /\ overlap = 0
    /\ request = NoRequest
    /\ drawn = FALSE

Supported(k) == backend = "d3d11" => k \in {"graphics", "compute"}

---------------------------------------------------------------------------
(* The orders of calls that can be avoided.                                 *)

Avoids(name, order) == name \in Avoided => ~order

(* The same bindings set again after the UAVs in them have been accessed, and
   sets kept where they are after a resource in them was moved to another state. *)
Kept(k) == IF backend = "vulkan" THEN ~list.dirty ELSE backend = "d3d12" /\ k \in list.valid
RepeatsUavs(k, s) ==
    /\ Kept(k)
    /\ list.last[k].bindings = s.bindings
    /\ UavsOf(s.bindings) \cap (list.uses \cup list.unordered) # {}
KeptSets(k, s) ==
    LET changed == Changed(s.bindings, list.last[k].bindings)
    IN  {s.bindings[i] : i \in {j \in DOMAIN s.bindings \ changed :
            changed = {} \/ (backend = "vulkan" /\ Writes[s.bindings[j]] = {})}}
RepeatsMoved(k, s) ==
    /\ Kept(k)
    /\ \/ \E x \in KeptSets(k, s) : \E n \in SetNeeds(x) : list.state[n[1]] # n[2]
       \/ list.last[k].indirect = s.indirect
          /\ \E n \in IndirectNeeds(s) : list.state[n[1]] # n[2]
(* Vulkan: ray tracing set up while rendering is active. *)
RaysInPass(k) == backend = "vulkan" /\ k = "rays" /\ list.pass # None
(* Vulkan: a meshlet state with the bindings of the compute state before it. *)
MeshletAfterCompute(k, s) ==
    /\ backend = "vulkan"
    /\ k = "meshlet"
    /\ s.bindings # <<>>
    /\ list.last["compute"].bindings = s.bindings
(* Vulkan: the ray tracing state before the one that failed. *)
RaysAfterFailure(k) ==
    /\ backend = "vulkan"
    /\ k = "rays"
    /\ \/ list.last["rays"].bindings \notin {<<>>, list.sets["rays"]}
       \/ list.last["rays"].pipeline \notin {None, list.pipeline["rays"]}
(* A pipeline set with the values, or with the bindings, of the one before. *)
PipelineAlone(k, s) ==
    LET old == list.last[k] IN
    /\ backend # "vulkan"
    /\ k \in list.valid \cap {"graphics", "meshlet"}
    /\ old.pipeline # s.pipeline
    /\ \/ old.values = s.values
       \/ backend = "d3d11" /\ old.bindings = s.bindings
(* D3D12: a meshlet state set again after ray tracing. *)
MeshletAfterRays(k) == backend = "d3d12" /\ k = "meshlet" /\ "rays" \in list.valid
(* D3D12: a clear through a descriptor after the heap was replaced. *)
ClearAfterGrow == backend = "d3d12" /\ list.heap \notin {0, deviceHeap}

---------------------------------------------------------------------------
(* Setting a state.                                                          *)

SetGraphicsState(L, s) ==
    CASE backend = "vulkan" -> VulkanSetGraphicsState(L, s)
      [] backend = "d3d12"  -> D3D12SetGraphicsState(L, s, deviceHeap)
      [] backend = "d3d11"  -> D3D11SetGraphicsState(L, s)
SetMeshletState(L, s) ==
    IF backend = "vulkan" THEN VulkanSetMeshletState(L, s) ELSE D3D12SetMeshletState(L, s, deviceHeap)
SetComputeState(L, s) ==
    CASE backend = "vulkan" -> VulkanSetComputeState(L, s)
      [] backend = "d3d12"  -> D3D12SetComputeState(L, s, deviceHeap)
      [] backend = "d3d11"  -> D3D11SetComputeState(L, s)
SetRayTracingState(L, s) ==
    IF backend = "vulkan" THEN VulkanSetRayTracingState(L, s) ELSE D3D12SetRayTracingState(L, s, deviceHeap)

(* No list relies on what draws left bound before a dispatch was set up, so it
   is taken to be lost. *)
WithoutDrawValues(L) ==
    [L EXCEPT !.viewport = None, !.scissor = FALSE, !.blend = None, !.stencil = None,
              !.vertices = None, !.strides = None, !.target = None]

SetState(k) ==
    \E s \in StatesOf(k) :
        /\ Supported(k)
        /\ HasVolatile(s.bindings) => list.version = Latest
        /\ Avoids("RepeatsUavs", RepeatsUavs(k, s))
        /\ Avoids("RepeatsMoved", RepeatsMoved(k, s))
        /\ Avoids("RaysInPass", RaysInPass(k))
        /\ Avoids("PipelineAlone", PipelineAlone(k, s))
        /\ Avoids("MeshletAfterRays", MeshletAfterRays(k))
        /\ Avoids("RaysAfterFailure", RaysAfterFailure(k))
        /\ Avoids("MeshletAfterCompute", MeshletAfterCompute(k, s))
        /\ LET L == Superseded(list) IN
           list' = CASE k = "graphics" -> SetGraphicsState(L, s)
                     [] k = "meshlet"  -> SetMeshletState(L, s)
                     [] k = "compute"  -> WithoutDrawValues(SetComputeState(L, s))
                     [] k = "rays"     -> WithoutDrawValues(SetRayTracingState(L, s))
        /\ request' = [kind |-> k, state |-> s]
        /\ drawn' = FALSE
        /\ UNCHANGED <<backend, deviceHeap, overlap>>

(* The shader table cannot be built: D3D12 returns before it does anything. *)
RayTracingStateFails ==
    \E s \in RayTracingStates :
        /\ backend # "d3d11"
        /\ HasVolatile(s.bindings) => list.version = Latest
        /\ Avoids("RaysInPass", RaysInPass("rays"))
        /\ list' = IF backend = "vulkan" THEN VulkanRayTracingStateFails(Superseded(list), s) ELSE list
        /\ request' = NoRequest
        /\ drawn' = FALSE
        /\ UNCHANGED <<backend, deviceHeap, overlap>>

---------------------------------------------------------------------------
(* Drawing.                                                                  *)

Drawing(L) ==
    CASE backend = "vulkan" /\ request.kind = "graphics" -> VulkanDraw(L)
      [] backend = "vulkan" /\ request.kind = "meshlet"  -> VulkanDispatchMesh(L)
      [] backend = "vulkan" /\ request.kind = "compute"  -> VulkanDispatch(L)
      [] backend = "vulkan" /\ request.kind = "rays"     -> VulkanDispatchRays(L)
      [] backend = "d3d12" /\ request.kind = "graphics"  -> D3D12Draw(L)
      [] backend = "d3d12" /\ request.kind = "meshlet"   -> D3D12DispatchMesh(L)
      [] backend = "d3d12" /\ request.kind = "compute"   -> D3D12Dispatch(L)
      [] backend = "d3d12" /\ request.kind = "rays"      -> D3D12DispatchRays(L)
      [] backend = "d3d11" -> L

(* Vulkan: volatile data written after setRayTracingState. *)
RaysRebind == backend = "vulkan" /\ request.kind = "rays" /\ list.anyVolatile

Draw ==
    /\ request.kind # None
    /\ Avoids("RaysRebind", RaysRebind)
    /\ list' = Access(Drawing(list), request.state)
    /\ drawn' = TRUE
    /\ UNCHANGED <<backend, deviceHeap, overlap, request>>

---------------------------------------------------------------------------
(* Everything else.                                                          *)

WriteVolatile ==
    /\ list' = CASE backend = "vulkan" -> VulkanWriteVolatile(list)
                 [] backend = "d3d12"  -> D3D12WriteVolatile(list)
                 [] backend = "d3d11"  -> D3D11WriteVolatile(list)
    /\ drawn' = FALSE
    /\ UNCHANGED <<backend, deviceHeap, overlap, request>>

(* Writes, copies and clears void the state set before. *)
Write ==
    \E r \in Resources :
        /\ backend # "d3d11"
        /\ list' = IF backend = "vulkan" THEN VulkanWrite(list, r) ELSE D3D12Write(list, r)
        /\ request' = NoRequest
        /\ drawn' = FALSE
        /\ UNCHANGED <<backend, deviceHeap, overlap>>

ClearBuffer ==
    \E r \in Buffers :
        /\ backend = "d3d12"
        /\ Avoids("ClearAfterGrow", ClearAfterGrow)
        /\ list' = D3D12ClearBuffer(list, r, deviceHeap)
        /\ request' = NoRequest
        /\ drawn' = FALSE
        /\ UNCHANGED <<backend, deviceHeap, overlap>>

ClearDepth ==
    \E r \in {TargetTexture} :
        /\ backend = "vulkan"
        /\ list' = VulkanClearDepth(list, r)
        /\ request' = NoRequest
        /\ drawn' = FALSE
        /\ UNCHANGED <<backend, deviceHeap, overlap>>

ClearState ==
    /\ list' = CASE backend = "vulkan" -> VulkanClearState(list)
                 [] backend = "d3d12"  -> D3D12ClearState(list, deviceHeap)
                 [] backend = "d3d11"  -> D3D11ClearState(list)
    /\ request' = NoRequest
    /\ drawn' = FALSE
    /\ UNCHANGED <<backend, deviceHeap, overlap>>

Reopen ==
    /\ list' = CASE backend = "vulkan" -> VulkanReopen(list)
                 [] backend = "d3d12"  -> D3D12Reopen(list)
                 [] backend = "d3d11"  -> D3D11ClearState(list)
    /\ overlap' = 0
    /\ request' = NoRequest
    /\ drawn' = FALSE
    /\ UNCHANGED <<backend, deviceHeap>>

(* Creating binding sets outgrows the descriptor heap: it is replaced. *)
GrowHeap ==
    /\ backend = "d3d12"
    /\ deviceHeap < MaxHeaps
    /\ deviceHeap' = deviceHeap + 1
    /\ drawn' = FALSE
    /\ UNCHANGED <<backend, list, overlap, request>>

SetEnableUavBarriers(enable) ==
    /\ backend = "d3d11"
    /\ enable \/ overlap < MaxOverlap
    /\ overlap' = IF enable THEN LeaveUAVOverlapSection(overlap) ELSE EnterUAVOverlapSection(overlap)
    /\ drawn' = FALSE
    /\ UNCHANGED <<backend, list, deviceHeap, request>>

Next ==
    \/ \E k \in Kinds : SetState(k)
    \/ RayTracingStateFails
    \/ Draw
    \/ WriteVolatile
    \/ Write
    \/ ClearBuffer
    \/ ClearDepth
    \/ ClearState
    \/ Reopen
    \/ GrowHeap
    \/ \E enable \in BOOLEAN : SetEnableUavBarriers(enable)

Spec == Init /\ [][Next]_vars

---------------------------------------------------------------------------
(* Properties.                                                               *)

Point == IF backend = "vulkan" THEN VulkanPoint(request.kind) ELSE RootPoint(request.kind)
Raster == request.kind \in {"graphics", "meshlet"}

\* A draw or a dispatch sees the binding sets of the state set last; on D3D11,
\* in every stage of the pipeline.
DrawsWithBindings ==
    drawn =>
        IF backend = "d3d11"
        THEN \A x \in SetsOf(request.state.bindings) :
                \A t \in Visibility[x] \cap (IF Raster THEN ShaderMask[request.state.pipeline] ELSE {"CS"}) :
                    \A n \in Slots[x] : list.sets[Point][t][n] = x
        ELSE \A i \in DOMAIN request.state.bindings :
                i \in DOMAIN list.sets[Point] /\ list.sets[Point][i] = request.state.bindings[i]

\* ... with the data written last to the volatile constant buffer, written
\* before or after the state was set.
DrawsWithLatestData ==
    drawn /\ HasVolatile(request.state.bindings) => list.bound[Point] = list.version

DrawsWithPipeline == drawn => list.pipeline[Point] = request.state.pipeline
DrawsWithValues ==
    LET s == request.state IN
    drawn /\ Raster =>
        /\ list.viewport = s.values
        /\ s.pipeline \in UsesBlend => list.blend = s.values
        /\ s.pipeline \in UsesStencil => list.stencil = s.values
        /\ request.kind = "graphics" => list.vertices = s.values
        /\ backend = "d3d12" => list.scissor = (s.pipeline \in ScissorEnabled)
        /\ backend # "vulkan" /\ request.kind = "graphics" => list.strides = InputLayout[s.pipeline]

\* ... with its pipeline and, where that uses them, the viewports, blend
\* constants, stencil reference and vertex buffers of that state.
DrawsWithState == DrawsWithPipeline /\ DrawsWithValues

\* ... into its framebuffer, which on Vulkan is being rendered to; compute and
\* ray tracing are dispatched outside of a render pass.  The list knows at all
\* times whether a pass is active: otherwise commands illegal inside one would
\* be recorded into it.
PassKnown ==
    backend = "vulkan" =>
        (list.pass # None <=> \E k \in {"graphics", "meshlet"} : list.last[k].framebuffer # None)
DrawsIntoFramebuffer ==
    /\ PassKnown
    /\ drawn => (IF backend = "vulkan" THEN list.pass ELSE IF Raster THEN list.target ELSE None)
                = request.state.framebuffer

\* ... with every resource in the state it needs, the barriers recorded.
DrawsOnReadyResources ==
    drawn /\ backend # "d3d11" => ~list.pending /\ \A n \in Needs(request.state) : list.state[n[1]] = n[2]

\* UAVs accessed under an earlier state are not accessed again before a
\* barrier: "at every setGraphicsState or similar call" (ProgrammingGuide.md).
DrawsAfterUavBarriers ==
    drawn /\ backend # "d3d11" => UavsOf(request.state.bindings) \cap list.unordered = {}
=============================================================================
