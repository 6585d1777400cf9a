------------------------ MODULE D3D11CommandState ------------------------
(***************************************************************************)
(* The caches of the D3D11 command list, which records into the immediate  *)
(* context.  Binding sets become resources in slots of each shader stage;  *)
(* sets no longer wanted are taken out of their slots, since a resource    *)
(* bound both for reading and writing is unbound by the API behind the     *)
(* application's back.  Switching between graphics and compute clears all. *)
(* Meshlets and ray tracing are not supported.                             *)
(***************************************************************************)
EXTENDS CommandState

CONSTANTS
    Slots,         \* Slots[set]: the slots between its minimum and maximum
    Visibility,    \* Visibility[set]: the stages that see it
    ShaderMask     \* ShaderMask[pipeline]: the stages it has

Stages == UNION {Visibility[x] : x \in DOMAIN Visibility}
EmptySlots == [t \in Stages |-> [n \in UNION {Slots[x] : x \in DOMAIN Slots} |-> None]]

IsSupersetOf(x, other) == Slots[other] \subseteq Slots[x]

(* Each set has slots and stages, and two sets of one vector share no slot. *)
ASSUME SlotsAssumption ==
    /\ DOMAIN Slots = BindingSets /\ DOMAIN Visibility = BindingSets
    /\ \A k \in Kinds : \A b \in BindingVectors[k] : \A x, y \in SetsOf(b) :
          x = y \/ Visibility[x] \cap Visibility[y] = {} \/ Slots[x] \cap Slots[y] = {}

(* ClearState of the context, and clearState of the list. *)
D3D11ClearState(L) ==
    [EmptyList EXCEPT !.version = L.version, !.sets = [p \in Points |-> EmptySlots],
                      !.bound = [p \in Points |-> L.version]]

Unbind(slots, xs, stages) ==
    [t \in Stages |-> [n \in DOMAIN slots[t] |->
        IF t \in stages /\ \E x \in xs : t \in Visibility[x] /\ n \in Slots[x] THEN None ELSE slots[t][n]]]

Bind(slots, xs, stages) ==
    [t \in Stages |-> [n \in DOMAIN slots[t] |->
        IF t \in stages /\ \E x \in xs : t \in Visibility[x] /\ n \in Slots[x]
        THEN CHOOSE x \in xs : t \in Visibility[x] /\ n \in Slots[x]
        ELSE slots[t][n]]]

(* prepareToBindGraphicsResourceSets: sets in both states stay where they are,
   and a set that is overwritten entirely need not be taken out first. *)
SetsToUnbind(L, s, newTarget) ==
    LET old  == SetsOf(L.last["graphics"].bindings)
        new  == SetsOf(s.bindings)
        gone == old \ new
        same == ShaderMask[L.last["graphics"].pipeline] = ShaderMask[s.pipeline]
    IN  CASE "graphics" \notin L.valid -> {}
          [] ~same -> old
          [] same /\ newTarget -> gone
          [] same /\ ~newTarget -> {x \in gone : ~\E y \in new \ old : IsSupersetOf(y, x)}

SetsToBind(L, s) ==
    LET old == SetsOf(L.last["graphics"].bindings)
    IN  IF "graphics" \in L.valid /\ ShaderMask[L.last["graphics"].pipeline] = ShaderMask[s.pipeline]
        THEN SetsOf(s.bindings) \ old ELSE SetsOf(s.bindings)

BindGraphicsResourceSets(L, s, newTarget) ==
    LET masked == IF "graphics" \in L.valid THEN ShaderMask[L.last["graphics"].pipeline] ELSE {}
    IN  [L EXCEPT !.sets["graphics"] =
            Bind(Unbind(@, SetsToUnbind(L, s, newTarget), masked), SetsToBind(L, s), ShaderMask[s.pipeline])]

(* bindComputeResourceSets binds all the new sets again; a set with UAVs is
   always taken out. *)
BindComputeResourceSets(L, b) ==
    LET gone == IF "compute" \in L.valid THEN SetsOf(L.last["compute"].bindings) \ SetsOf(b) ELSE {}
        kept == {x \in gone : Writes[x] = {} /\ \E y \in SetsOf(b) \ SetsOf(L.last["compute"].bindings) :
                                                    IsSupersetOf(y, x)}
    IN  [L EXCEPT !.sets["compute"] = Bind(Unbind(@, gone \ kept, {"CS"}), SetsOf(b), {"CS"})]

(* The bindings are looked at when they or the framebuffer change, the blend
   state and the stencil reference also when the pipeline does. *)
D3D11SetGraphicsState(L0, s) ==
    LET L == IF "compute" \in L0.valid THEN D3D11ClearState(L0) ELSE L0
        stale     == "graphics" \notin L.valid
        newTarget == stale \/ L.last["graphics"].framebuffer # s.framebuffer
        piped     == stale \/ L.last["graphics"].pipeline # s.pipeline
        differ    == stale \/ L.last["graphics"].values # s.values
        tabled    == IF newTarget \/ L.last["graphics"].bindings # s.bindings
                     THEN BindGraphicsResourceSets(L, s, newTarget) ELSE L
    IN  [tabled EXCEPT
            !.target   = IF newTarget THEN s.framebuffer ELSE @,
            !.pipeline["graphics"] = s.pipeline,
            !.stencil  = IF piped \/ (s.pipeline \in UsesStencil /\ L.stencil # s.values) THEN s.values ELSE @,
            !.blend    = IF piped \/ (s.pipeline \in UsesBlend /\ differ) THEN s.values ELSE @,
            !.viewport = IF differ THEN s.values ELSE @,
            !.vertices = IF differ THEN s.values ELSE @,
            !.strides  = IF differ THEN InputLayout[s.pipeline] ELSE @,
            !.last["graphics"] = s,
            !.valid = {"graphics"}]

D3D11SetComputeState(L0, s) ==
    LET L == IF "graphics" \in L0.valid THEN D3D11ClearState(L0) ELSE L0
        piped  == "compute" \notin L.valid \/ L.last["compute"].pipeline # s.pipeline
        tabled == IF piped \/ L.last["compute"].bindings # s.bindings
                  THEN BindComputeResourceSets(L, s.bindings) ELSE L
    IN  [tabled EXCEPT !.pipeline["compute"] = s.pipeline, !.last["compute"] = s, !.valid = {"compute"}]

(* A dynamic buffer keeps its place; shaders see its latest contents. *)
D3D11WriteVolatile(L) ==
    [L EXCEPT !.version = Latest, !.bound = [p \in Points |-> Latest]]

(* setEnableUavBarriersForTexture and -ForBuffer count the calls. *)
LeaveUAVOverlapSection(n) == IF n > 0 THEN n - 1 ELSE 0
EnterUAVOverlapSection(n) == n + 1
=============================================================================
