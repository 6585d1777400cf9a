------------------------ MODULE D3D12CommandState ------------------------
(***************************************************************************)
(* The caches of the D3D12 command list: m_Current*State with a flag each  *)
(* that says whether it is valid, the addresses of the volatile constant   *)
(* buffers bound, and the descriptor heaps set last.  The API has one      *)
(* pipeline for all kinds, and two sets of root arguments.                 *)
(***************************************************************************)
EXTENDS CommandState

(* A state is read only when its flag says that it is valid, so the one behind
   a cleared flag is forgotten here. *)
Invalidated(last, valid) == [k \in Kinds |-> IF k \in valid THEN last[k] ELSE NoState]

(* commitDescriptorHeaps: descriptor tables bound before point nowhere. *)
HeapsDiffer(L, deviceHeap) == L.heap # deviceHeap
CommitDescriptorHeaps(L, deviceHeap) ==
    IF HeapsDiffer(L, deviceHeap)
    THEN [L EXCEPT !.heap = deviceHeap, !.sets = [p \in Points |-> <<>>]]
    ELSE L

CommitBarriers(L) == [L EXCEPT !.pending = FALSE]

NewRootSignature(L, k, s) ==
    \/ k \notin L.valid
    \/ L.last[k].pipeline = None
    \/ RootSignature[L.last[k].pipeline] # RootSignature[s.pipeline]

BindingUpdateMaskInHeap(L, k, s, deviceHeap) ==     \* mutant: a new heap is missed
    IF NewRootSignature(L, k, s) THEN AllSets ELSE Changed(L.last[k].bindings, s.bindings)

(* Which binding sets a set*State considers changed. *)
BindingUpdateMask(L, k, s, deviceHeap) ==
    IF NewRootSignature(L, k, s) \/ HeapsDiffer(L, deviceHeap)
    THEN AllSets
    ELSE Changed(L.last[k].bindings, s.bindings)

(* bindGraphicsPipeline and its like.  A new root signature drops the root
   arguments bound before. *)
BindD3D12Pipeline(L, k, s) ==
    LET point == RootPoint(k)
        rooted == IF NewRootSignature(L, k, s)
                  THEN [L EXCEPT !.sets[point] = <<>>, !.bound[point] = Nothing] ELSE L
    IN  IF k \in L.valid /\ L.last[k].pipeline = s.pipeline THEN rooted
        ELSE [rooted EXCEPT !.pipeline = [p \in Points |-> s.pipeline]]

(* setGraphicsBindings and setComputeBindings.  Everything about the binding
   sets, resource states and UAV barriers included, is done only when some
   set changed; the indirect buffers only when they are new. *)
SetBindings(L, k, s, mask) ==
    LET point == RootPoint(k)
        x == s.bindings
        placed == {x[i] : i \in {j \in DOMAIN x : L.dirty \/ j \in mask \/ Writes[x[j]] # {}}}
        newIndirect == k \notin L.valid \/ L.last[k].indirect # s.indirect
        tables == IF mask = {} THEN L
                  ELSE [Require(L, UNION {SetNeeds(y) : y \in placed}) EXCEPT
                          !.sets[point] = [i \in DOMAIN x |-> IF i \in mask \/ i \notin DOMAIN @
                                                              THEN x[i] ELSE @[i]],
                          \* a volatile buffer is rebound when its address moved, too
                          !.bound[point] = IF HasVolatile(x) THEN L.version ELSE @,
                          !.addresses[point] = IF HasVolatile(x) THEN L.version ELSE Nothing]
        params == IF newIndirect THEN Require(tables, IndirectNeeds(s)) ELSE tables
    IN  [params EXCEPT !.anyVolatile = IF DOMAIN x \subseteq mask THEN FALSE ELSE @]

(* The values of a graphics or meshlet state that differ are set.  What the
   command derives from the pipeline as well, the scissor rectangles and the
   vertex strides, follows those values only. *)
SetD3D12Values(L, k, s) ==
    LET stale  == k \notin L.valid
        piped  == stale \/ L.last[k].pipeline # s.pipeline
        differ == stale \/ L.last[k].values # s.values
    IN  [L EXCEPT !.viewport = IF differ THEN s.values ELSE @,
                  !.scissor  = IF differ THEN s.pipeline \in ScissorEnabled ELSE @,
                  !.blend    = IF s.pipeline \in UsesBlend /\ differ THEN s.values ELSE @,
                  !.stencil  = IF s.pipeline \in UsesStencil /\ (piped \/ differ) THEN s.values ELSE @,
                  !.vertices = IF k = "graphics" /\ differ THEN s.values ELSE @,
                  !.strides  = IF k = "graphics" /\ differ THEN InputLayout[s.pipeline] ELSE @]

(* bindFramebuffer and setResourceStatesForFramebuffer. *)
SetTarget(L, k, s) ==
    LET newTarget == k \notin L.valid \/ L.last[k].framebuffer # s.framebuffer
        boundTo == IF newTarget THEN [L EXCEPT !.target = s.framebuffer] ELSE L
    IN  IF L.dirty \/ newTarget THEN Require(boundTo, TargetNeeds(s)) ELSE boundTo

(* setGraphicsState and setMeshletState. *)
SetD3D12RasterState(L, k, s, deviceHeap) ==
    LET mask   == BindingUpdateMask(L, k, s, deviceHeap)
        heaped == CommitDescriptorHeaps(L, deviceHeap)
        piped  == BindD3D12Pipeline(heaped, k, s)
        aimed  == SetTarget(piped, k, s)
        boundTo == SetBindings(aimed, k, s, mask)
    IN  [SetD3D12Values(CommitBarriers(boundTo), k, s) EXCEPT
            !.last = [Invalidated(@, {}) EXCEPT ![k] = s], !.valid = {k}, !.dirty = FALSE]

D3D12SetGraphicsState(L, s, deviceHeap) == SetD3D12RasterState(L, "graphics", s, deviceHeap)
D3D12SetMeshletState(L, s, deviceHeap) == SetD3D12RasterState(L, "meshlet", s, deviceHeap)

SetD3D12ComputeBindings(L, k, s, deviceHeap, kept) ==
    LET mask   == BindingUpdateMask(L, k, s, deviceHeap)
        heaped == CommitDescriptorHeaps(L, deviceHeap)
    IN  [CommitBarriers(SetBindings(BindD3D12Pipeline(heaped, k, s), k, s, mask)) EXCEPT
            !.last = [Invalidated(@, kept) EXCEPT ![k] = s], !.valid = {k} \cup kept, !.dirty = FALSE]

D3D12SetComputeState(L, s, deviceHeap) == SetD3D12ComputeBindings(L, "compute", s, deviceHeap, {})

(* setRayTracingState leaves m_CurrentMeshletStateValid alone. *)
D3D12SetRayTracingState(L, s, deviceHeap) ==
    SetD3D12ComputeBindings(L, "rays", s, deviceHeap, L.valid \cap {"meshlet"})

(* updateGraphicsVolatileBuffers and updateComputeVolatileBuffers patch the
   root views of the volatile buffers bound. *)
PatchVolatileBuffers(L, point) ==
    IF ~L.anyVolatile THEN L
    ELSE [L EXCEPT !.anyVolatile = FALSE,
                   !.bound[point] = IF L.addresses[point] = Outdated THEN Latest ELSE @,
                   !.addresses[point] = IF @ = Outdated THEN Latest ELSE @]

D3D12Draw(L)         == PatchVolatileBuffers(L, "graphics")
D3D12DispatchMesh(L) == PatchVolatileBuffers(L, "graphics")
D3D12Dispatch(L)     == PatchVolatileBuffers(L, "compute")
D3D12DispatchRays(L) == PatchVolatileBuffers(L, "compute")

D3D12WriteVolatile(L) == [WriteVersion(L) EXCEPT !.anyVolatile = TRUE]
D3D12WriteQuietly(L, r) == CommitBarriers(Require(L, {<<r, "copy">>}))      \* mutant: not dirty
D3D12Write(L, r) == CommitBarriers([Require(L, {<<r, "copy">>}) EXCEPT !.dirty = TRUE])

(* clearBufferUInt goes through a descriptor; the answer of
   commitDescriptorHeaps is not looked at. *)
D3D12ClearBuffer(L, r, deviceHeap) ==
    CommitDescriptorHeaps(CommitBarriers([Require(L, {<<r, "uav">>}) EXCEPT !.dirty = TRUE]), deviceHeap)

ClearStateCache(L) ==
    [L EXCEPT !.anyVolatile = FALSE, !.valid = {}, !.last = Invalidated(@, {}), !.heap = 0,
              !.addresses = [p \in Points |-> Nothing]]

D3D12ClearState(L, deviceHeap) ==
    CommitDescriptorHeaps([ClearStateCache(L) EXCEPT
        !.pipeline = [p \in Points |-> None], !.sets = [p \in Points |-> <<>>], !.bound = [p \in Points |-> Nothing],
        !.viewport = None, !.scissor = FALSE, !.blend = None, !.stencil = None,
        !.vertices = None, !.strides = None, !.target = None], deviceHeap)

(* close() and the next open(). *)
D3D12Reopen(L) ==
    LET closed == ClearStateCache(CommitBarriers(Require(L, {<<r, "copy">> : r \in Resources})))
    IN  [EmptyList EXCEPT !.dirty = closed.dirty, !.last = closed.last]
=============================================================================
