--------------------------- MODULE StateTracking ---------------------------
(***************************************************************************)
(* Resource state tracking and barrier placement of command lists that are *)
(* recorded concurrently and executed in any order                         *)
(* (src/common/state-tracking.cpp and the command list code that drives    *)
(* it).  A ResourceStates value is a set of state bits: {} is Unknown,     *)
(* `a & b` is intersection and `a | b` is union.                           *)
(*                                                                         *)
(* A command list is the work of one thread at a time and shares nothing   *)
(* with the others but permanentState and stateInitialized, so one         *)
(* ICommandList call is one step.  What a GAPI command buffer does to one  *)
(* texture subresource or buffer is the sequence of its barriers on it;    *)
(* the order of barriers on different resources is immaterial.             *)
(***************************************************************************)
EXTENDS Integers, Sequences, FiniteSets

CONSTANTS
    CommandLists,       \* the command lists of the device
    Textures, Buffers,  \* the resources, disjoint sets
    Subresources,       \* of each texture: mip + slice * mips, in loop order
    StateBits,          \* bits of the ResourceStates enum
    Common,             \* the Common bit
    UnorderedAccess,    \* the UnorderedAccess bit
    Usages,             \* the values the application requests, sets of bits
    InitialState,       \* [resource -> descRef.initialState]
    KeepInitialState,   \* resources created with keepInitialState
    UntrackedBuffers,   \* buffers with isVolatile or cpuAccess # None
    InitializedTextures, \* stateInitialized at creation: D3D12 all, Vulkan none
    Applications        \* the applications considered, see below

(***************************************************************************)
(* The library serves one application, chosen initially.  It restricts     *)
(* which calls are made, never what they do: `resources` are those it      *)
(* uses, `ops` bounds the recording calls per opening of a list, and       *)
(* `calls` names what it does beside using resources:                      *)
(*   "setState"   setTextureState / setBufferState left uncommitted        *)
(*   "uavToggle"  setEnableUavBarriersFor...                               *)
(*   "permanent"  setPermanent...State                                     *)
(*   "subset"     a list that made a resource permanent goes on to use it  *)
(*                in a compatible, smaller set of states                   *)
(*   "multiUse"   one draw uses a buffer in two ways                       *)
(*   "combinesLate"  of which the first needs no barrier, unlike the other *)
(*   "stacksUav"  setBufferState asks for UnorderedAccess again before the *)
(*                barrier of the first request is committed                *)
(*   "reopen"     a closed list is opened again without being executed     *)
(*   "concurrentFirstUse"  two lists use a texture nobody has used before  *)
(***************************************************************************)

Resources == Textures \cup Buffers
States    == SUBSET StateBits
Unknown   == {}

ASSUME StateTrackingAssumption ==
    /\ Textures \cap Buffers = {}
    /\ Subresources \in SUBSET Nat /\ IsFiniteSet(Subresources)
    /\ Subresources # {}
    /\ Common \in StateBits /\ UnorderedAccess \in StateBits
    /\ Usages \subseteq (States \ {Unknown})
    /\ InitialState \in [Resources -> States \ {Unknown}]
    /\ KeepInitialState \subseteq Resources
    /\ UntrackedBuffers \subseteq Buffers
    /\ InitializedTextures \subseteq Textures

ASSUME ApplicationsAssumption == \A a \in Applications : a.ops \in Nat

VARIABLES
    app,                \* the application
    permanentState,     \* [Resources -> States], shared by all lists
    stateInitialized,   \* [Textures -> BOOLEAN], shared by all lists
    phase,              \* [CommandLists -> {"initial", "open", "closed"}]
    tex,                \* [CommandLists -> [Textures -> what it holds on one]]
    buf,                \* [CommandLists -> [Buffers -> what it holds on one]]
    ops,                \* recording calls since the list was opened
    gpuTex, gpuBuf      \* the states the executed barriers left on the GPU

vars == <<app, permanentState, stateInitialized, phase, tex, buf, ops, gpuTex, gpuBuf>>

-----------------------------------------------------------------------------
(* What a command list holds on one texture or buffer.                      *)

Barrier == [before : States, after : States]

\* a GPU access recorded after `at` barriers of the command buffer
Use == [at : Nat, state : States]

\* `expanded` is !subresourceStates.empty(); a texture tracked as a whole has
\* the same `state` for all its subresources
TextureRec ==
    [tracked : BOOLEAN, expanded : BOOLEAN, state : [Subresources -> States],
     enableUavBarriers : BOOLEAN, firstUavBarrierPlaced : BOOLEAN,
     permanentTransition : BOOLEAN,
     permanent : States,                        \* m_PermanentTextureStates
     pending  : [Subresources -> Seq(Barrier)], \* m_TextureBarriers
     recorded : [Subresources -> Seq(Barrier)], \* in the command buffer
     uses     : [Subresources -> Seq(Use)]]

BufferRec ==
    [tracked : BOOLEAN, state : States,
     enableUavBarriers : BOOLEAN, firstUavBarrierPlaced : BOOLEAN,
     permanentTransition : BOOLEAN, permanent : States,
     pending : Seq(Barrier), recorded : Seq(Barrier), uses : Seq(Use)]

EmptyTexture ==
    [tracked |-> FALSE, expanded |-> FALSE,
     state |-> [s \in Subresources |-> Unknown],
     enableUavBarriers |-> TRUE, firstUavBarrierPlaced |-> FALSE,
     permanentTransition |-> FALSE, permanent |-> Unknown,
     pending  |-> [s \in Subresources |-> <<>>],
     recorded |-> [s \in Subresources |-> <<>>],
     uses     |-> [s \in Subresources |-> <<>>]]

EmptyBuffer ==
    [tracked |-> FALSE, state |-> Unknown,
     enableUavBarriers |-> TRUE, firstUavBarrierPlaced |-> FALSE,
     permanentTransition |-> FALSE, permanent |-> Unknown,
     pending |-> <<>>, recorded |-> <<>>, uses |-> <<>>]

-----------------------------------------------------------------------------
(* The tracker's operations on one resource.                                *)

\* mutants: the existing entry is not found, so a fresh one replaces it
TrackTextureAfresh(t, x) ==
    [x EXCEPT !.tracked = TRUE,
              !.state = [s \in Subresources |->
                  IF t \notin KeepInitialState THEN Unknown ELSE InitialState[t]]]

TrackBufferAfresh(b, x) ==
    [x EXCEPT !.tracked = TRUE,
              !.state = IF b \in KeepInitialState THEN InitialState[b] ELSE Unknown]

\* getTextureStateTracking(texture, true)
TrackTexture(t, x) ==
    IF x.tracked THEN x
    ELSE [x EXCEPT !.tracked = TRUE,
                   !.state = [s \in Subresources |->
                       IF t \notin KeepInitialState THEN Unknown
                       ELSE IF stateInitialized[t] THEN InitialState[t]
                       ELSE {Common}]]

\* getBufferStateTracking(buffer, true)
TrackBuffer(b, x) ==
    IF x.tracked THEN x
    ELSE [x EXCEPT !.tracked = TRUE,
                   !.state = IF b \in KeepInitialState
                             THEN InitialState[b] ELSE Unknown]

\* mutant: one UAV barrier per list is taken to be enough
UavBarrierDueOnce(x, st) == UnorderedAccess \in st /\ ~x.firstUavBarrierPlaced

\* may a require of state st place a barrier between two UAV accesses
UavBarrierDue(x, st) ==
    /\ UnorderedAccess \in st
    /\ x.enableUavBarriers \/ ~x.firstUavBarrierPlaced

\* subresources of S already in state st, of which only the first in loop
\* order may get a UAV barrier (anyUavBarrier)
UavSubresource(y, S, st) ==
    LET same == {s \in S : y.state[s] = st}
    IN  IF UavBarrierDue(y, st)
        THEN {s \in same : \A r \in same : s <= r} ELSE {}

\* the subresources a require of st on S puts a barrier on: of a texture
\* tracked as a whole, all or none; of an expanded one, those that change
\* state and at most one that does not
BarrierSubresources(y, S, st) ==
    IF S = Subresources /\ ~y.expanded
    THEN IF \/ \E s \in S : y.state[s] # st
            \/ UavBarrierDue(y, st)
         THEN S ELSE {}
    ELSE {s \in S : y.state[s] # st} \cup UavSubresource(y, S, st)

\* a UAV barrier that is not also a transition was placed
PlacesUavBarrier(y, S, st) ==
    \E s \in BarrierSubresources(y, S, st) : y.state[s] = st

\* requireTextureState
RequireTexture(t, x, S, st) ==
    IF permanentState[t] # Unknown THEN x
    ELSE LET y == TrackTexture(t, x)
             B == BarrierSubresources(y, S, st)
         IN  [y EXCEPT
               !.expanded = @ \/ S # Subresources,
               !.pending  = [s \in Subresources |->
                    IF s \in B
                    THEN Append(y.pending[s], [before |-> y.state[s], after |-> st])
                    ELSE y.pending[s]],
               !.state    = [s \in Subresources |->
                    IF s \in S THEN st ELSE y.state[s]],
               !.firstUavBarrierPlaced = @ \/ PlacesUavBarrier(y, S, st)]

\* requireBufferState: a transition while a barrier on the buffer is pending
\* widens the first pending one instead of placing another
RequireBuffer(b, x, st) ==
    IF b \in UntrackedBuffers \/ permanentState[b] # Unknown THEN x
    ELSE LET y == TrackBuffer(b, x)
             transition == y.state # st
             uav == UavBarrierDue(y, st)
             merged == y.pending[1].after \cup st
         IN  IF transition /\ y.pending # <<>>
             THEN [y EXCEPT !.pending[1].after = merged, !.state = merged]
             ELSE [y EXCEPT
                    !.pending = IF transition \/ uav
                                THEN Append(@, [before |-> y.state, after |-> st])
                                ELSE @,
                    !.firstUavBarrierPlaced = @ \/ (uav /\ ~transition),
                    !.state = st]

\* beginTrackingTextureState
BeginTexture(t, x, S, st) ==
    LET y == TrackTexture(t, x)
    IN  [y EXCEPT !.expanded = S # Subresources,
                  !.state = [s \in Subresources |-> IF s \in S THEN st ELSE y.state[s]]]

\* mutant: permanentTransition is not set, as in setPermanentBufferState
PermanentTextureUnmarked(t, x, st) ==
    [TrackTexture(t, RequireTexture(t, x, Subresources, st)) EXCEPT !.permanent = st]

\* setPermanentTextureState with AllSubresources, as the backends call it.
\* The first state pushed for a texture is the one that can take effect.
PermanentTexture(t, x, st) ==
    LET y == TrackTexture(t, RequireTexture(t, x, Subresources, st))
    IN  [y EXCEPT !.permanent = IF @ = Unknown THEN st ELSE @,
                  !.permanentTransition = TRUE]

\* setPermanentBufferState
PermanentBuffer(b, x, st) ==
    LET y == RequireBuffer(b, x, st)
    IN  [y EXCEPT !.permanent = IF @ = Unknown THEN st ELSE @]

\* mutant: only textures tracked as a whole are returned to initialState
KeepTextureWholeOnly(t, x) ==
    IF /\ x.tracked /\ ~x.expanded /\ t \in KeepInitialState
       /\ permanentState[t] = Unknown /\ ~x.permanentTransition
    THEN RequireTexture(t, x, Subresources, InitialState[t])
    ELSE x

\* keepTextureInitialStates, for one texture
KeepTexture(t, x) ==
    IF /\ x.tracked /\ t \in KeepInitialState
       /\ permanentState[t] = Unknown /\ ~x.permanentTransition
    THEN RequireTexture(t, x, Subresources, InitialState[t])
    ELSE x

\* keepBufferInitialStates, for one buffer
KeepBuffer(b, x) ==
    IF /\ x.tracked /\ b \in KeepInitialState
       /\ permanentState[b] = Unknown /\ ~x.permanentTransition
    THEN RequireBuffer(b, x, InitialState[b])
    ELSE x

\* mutant: the pending barriers are cleared without being recorded
CommitTextureLost(x) == [x EXCEPT !.pending = EmptyTexture.pending]

\* commitBarriers, for one texture and for one buffer
CommitTexture(x) ==
    [x EXCEPT !.recorded = [s \in Subresources |-> x.recorded[s] \o x.pending[s]],
              !.pending  = [s \in Subresources |-> <<>>]]

CommitBuffer(x) ==
    [x EXCEPT !.recorded = x.recorded \o x.pending, !.pending = <<>>]

\* mutant: the index of the last barrier instead of their number
AccessTextureAtLast(x, S, st) ==
    [x EXCEPT !.uses = [s \in Subresources |->
        IF s \in S THEN Append(x.uses[s], [at |-> Len(x.recorded[s]) - 1, state |-> st])
        ELSE x.uses[s]]]

\* a GPU access in state st appended to the command buffer
AccessTexture(x, S, st) ==
    [x EXCEPT !.uses = [s \in Subresources |->
        IF s \in S THEN Append(x.uses[s], [at |-> Len(x.recorded[s]), state |-> st])
        ELSE x.uses[s]]]

AccessBuffer(x, st) ==
    [x EXCEPT !.uses = Append(@, [at |-> Len(x.recorded), state |-> st])]

-----------------------------------------------------------------------------
(* What the application may ask for.                                        *)

DeferredPermanent(cl, r) == IF r \in Textures THEN tex[cl][r].permanent
                                             ELSE buf[cl][r].permanent
Tracks(cl, r) == IF r \in Textures THEN tex[cl][r].tracked ELSE buf[cl][r].tracked

Others(cl) == CommandLists \ {cl}

\* nobody else has a permanent transition of the resource under way, this list
\* does not contradict its own, and a permanent state is compatible
RespectsPermanent(cl, r, st) ==
    /\ \A c \in Others(cl) : DeferredPermanent(c, r) = Unknown
    /\ \/ DeferredPermanent(cl, r) \in {Unknown, st}
       \/ "subset" \in app.calls /\ st \subseteq DeferredPermanent(cl, r)
    /\ permanentState[r] # Unknown => st \subseteq permanentState[r]

\* the state a list needs on entry is known: keepInitialState, permanent, or
\* declared with beginTracking...
MayUseTexture(cl, t, S, st) ==
    /\ t \in app.resources /\ RespectsPermanent(cl, t, st)
    /\ \/ stateInitialized[t] \/ t \notin KeepInitialState
       \/ "concurrentFirstUse" \in app.calls
       \/ \A c \in Others(cl) : ~Tracks(c, t)
    /\ \/ t \in KeepInitialState
       \/ permanentState[t] # Unknown
       \/ \A s \in S : tex[cl][t].state[s] # Unknown

MayUseBuffer(cl, b, st) ==
    /\ b \in app.resources /\ RespectsPermanent(cl, b, st)
    /\ \/ b \in KeepInitialState
       \/ permanentState[b] # Unknown
       \/ buf[cl][b].state # Unknown

\* a second barrier would be pending behind the first, which alone is widened
StacksUav(cl, b, st) ==
    LET x == buf[cl][b]
    IN  x.pending # <<>> /\ x.state = st /\ UavBarrierDue(x, st)

\* the two states of a draw are combined if the first of them needs a barrier
Combines(cl, b, st1, st2) ==
    LET y == TrackBuffer(b, buf[cl][b])
    IN  y.state # st1 \/ UavBarrierDue(y, st1) \/ st1 = st2

\* a permanent state is for a static resource, set once, by a list nobody else
\* shares the resource with
MayMakePermanent(cl, r, st) ==
    /\ "permanent" \in app.calls /\ r \in app.resources
    /\ UnorderedAccess \notin st
    /\ permanentState[r] = Unknown /\ DeferredPermanent(cl, r) = Unknown
    /\ \A c \in Others(cl) : ~Tracks(c, r)

\* the application knows the state the GPU will have left a resource in only
\* if no other list is using it
MayDeclareState(cl, r) ==
    /\ r \in app.resources \ KeepInitialState /\ permanentState[r] = Unknown
    /\ \A c \in Others(cl) : ~Tracks(c, r)

\* The applications the tracker serves as it promises.  What they leave out it
\* accepts, and a barrier then leaves from a state the resource is not in, or a
\* resource is left in a state nobody expects: keepInitialState buffers whose
\* barriers are pending at close() or that are made permanent, recordings
\* dropped with transitions the tracker remembers, Vulkan textures first used
\* by two lists at once, and permanent states not kept to.
Disciplined(a) ==
    LET keptBuffers == a.resources \cap Buffers \cap KeepInitialState
        newTextures == (a.resources \cap Textures \cap KeepInitialState) \ InitializedTextures
    IN  /\ a.calls \cap {"subset", "combinesLate", "stacksUav", "concurrentFirstUse"} = {}
        /\ a.calls \cap {"setState", "permanent"} # {} => keptBuffers = {}
        /\ a.calls \cap {"reopen", "uavToggle"} # {}
             => newTextures = {} /\ "permanent" \notin a.calls
        /\ "reopen" \in a.calls => a.resources \subseteq KeepInitialState
        /\ "setState" \in a.calls /\ a.calls \cap {"permanent", "multiUse"} # {}
             => a.resources \cap Buffers = {}

-----------------------------------------------------------------------------
(* Actions: the calls of ICommandList and IDevice::executeCommandLists.     *)

\* one more recording call on an open list
Records(cl) ==
    /\ phase[cl] = "open" /\ ops[cl] < app.ops
    /\ ops' = [ops EXCEPT ![cl] = @ + 1]
    /\ UNCHANGED <<app, permanentState, stateInitialized, phase, gpuTex, gpuBuf>>

SetTexture(cl, t, x) == tex' = [tex EXCEPT ![cl][t] = x] /\ UNCHANGED buf
SetBuffer(cl, b, x)  == buf' = [buf EXCEPT ![cl][b] = x] /\ UNCHANGED tex

SetTextureState(cl, t, S, st) ==
    /\ "setState" \in app.calls /\ MayUseTexture(cl, t, S, st)
    /\ Records(cl)
    /\ SetTexture(cl, t, RequireTexture(t, tex[cl][t], S, st))

SetBufferState(cl, b, st) ==
    /\ "setState" \in app.calls /\ MayUseBuffer(cl, b, st)
    /\ "stacksUav" \in app.calls \/ ~StacksUav(cl, b, st)
    /\ Records(cl)
    /\ SetBuffer(cl, b, RequireBuffer(b, buf[cl][b], st))

SetPermanentTextureState(cl, t, st) ==
    /\ MayUseTexture(cl, t, Subresources, st)
    /\ MayMakePermanent(cl, t, st)
    /\ Records(cl)
    /\ SetTexture(cl, t, PermanentTexture(t, tex[cl][t], st))

SetPermanentBufferState(cl, b, st) ==
    /\ MayUseBuffer(cl, b, st)
    /\ MayMakePermanent(cl, b, st)
    /\ Records(cl)
    /\ SetBuffer(cl, b, PermanentBuffer(b, buf[cl][b], st))

SetEnableUavBarriersForTexture(cl, t, enable) ==
    /\ "uavToggle" \in app.calls /\ t \in app.resources
    /\ Records(cl)
    /\ SetTexture(cl, t, [TrackTexture(t, tex[cl][t]) EXCEPT
            !.enableUavBarriers = enable, !.firstUavBarrierPlaced = FALSE])

SetEnableUavBarriersForBuffer(cl, b, enable) ==
    /\ "uavToggle" \in app.calls /\ b \in app.resources
    /\ Records(cl)
    /\ SetBuffer(cl, b, [TrackBuffer(b, buf[cl][b]) EXCEPT
            !.enableUavBarriers = enable, !.firstUavBarrierPlaced = FALSE])

\* the state is declared before the first use
BeginTrackingTextureState(cl, t, S, st) ==
    /\ MayDeclareState(cl, t)
    /\ \A s \in S : /\ gpuTex[t][s] = st
                    /\ tex[cl][t].recorded[s] \o tex[cl][t].pending[s] = <<>>
    /\ Records(cl)
    /\ SetTexture(cl, t, BeginTexture(t, tex[cl][t], S, st))

BeginTrackingBufferState(cl, b, st) ==
    /\ MayDeclareState(cl, b)
    /\ gpuBuf[b] = st /\ buf[cl][b].recorded \o buf[cl][b].pending = <<>>
    /\ Records(cl)
    /\ SetBuffer(cl, b, [TrackBuffer(b, buf[cl][b]) EXCEPT !.state = st])

AnyPending(cl) ==
    \/ \E t \in Textures, s \in Subresources : tex[cl][t].pending[s] # <<>>
    \/ \E b \in Buffers : buf[cl][b].pending # <<>>

CommitBarriers(cl) ==
    /\ phase[cl] = "open" /\ AnyPending(cl)
    /\ tex' = [tex EXCEPT ![cl] = [t \in Textures |-> CommitTexture(tex[cl][t])]]
    /\ buf' = [buf EXCEPT ![cl] = [b \in Buffers |-> CommitBuffer(buf[cl][b])]]
    /\ UNCHANGED <<app, permanentState, stateInitialized, phase, ops, gpuTex, gpuBuf>>

\* a copy, clear, write or draw with automatic barriers: require, commit, access
UseTexture(cl, t, S, st) ==
    /\ MayUseTexture(cl, t, S, st)
    /\ Records(cl)
    /\ tex' = [tex EXCEPT ![cl] = [u \in Textures |->
            IF u = t
            THEN AccessTexture(CommitTexture(RequireTexture(t, tex[cl][t], S, st)), S, st)
            ELSE CommitTexture(tex[cl][u])]]
    /\ buf' = [buf EXCEPT ![cl] = [b \in Buffers |-> CommitBuffer(buf[cl][b])]]

UseBuffer(cl, b, st) ==
    /\ MayUseBuffer(cl, b, st)
    /\ Records(cl)
    /\ buf' = [buf EXCEPT ![cl] = [c \in Buffers |->
            IF c = b
            THEN AccessBuffer(CommitBuffer(RequireBuffer(b, buf[cl][b], st)), st)
            ELSE CommitBuffer(buf[cl][c])]]
    /\ tex' = [tex EXCEPT ![cl] = [t \in Textures |-> CommitTexture(tex[cl][t])]]

\* one draw that uses a buffer in two ways, say as index and as vertex buffer
UseBufferTwice(cl, b, st1, st2) ==
    /\ "multiUse" \in app.calls
    /\ MayUseBuffer(cl, b, st1) /\ MayUseBuffer(cl, b, st2)
    /\ "combinesLate" \in app.calls \/ Combines(cl, b, st1, st2)
    /\ Records(cl)
    /\ LET x == RequireBuffer(b, RequireBuffer(b, buf[cl][b], st1), st2)
       IN  buf' = [buf EXCEPT ![cl] = [c \in Buffers |->
               IF c = b THEN AccessBuffer(CommitBuffer(x), st1 \cup st2)
               ELSE CommitBuffer(buf[cl][c])]]
    /\ tex' = [tex EXCEPT ![cl] = [t \in Textures |-> CommitTexture(tex[cl][t])]]

\* open() takes an empty command buffer; it leaves the tracker as it is
Open(cl) ==
    /\ \/ phase[cl] = "initial"
       \/ phase[cl] = "closed" /\ "reopen" \in app.calls
    /\ phase' = [phase EXCEPT ![cl] = "open"]
    /\ ops' = [ops EXCEPT ![cl] = 0]
    /\ tex' = [tex EXCEPT ![cl] = [t \in Textures |->
            [tex[cl][t] EXCEPT !.recorded = EmptyTexture.recorded,
                               !.uses = EmptyTexture.uses]]]
    /\ buf' = [buf EXCEPT ![cl] = [b \in Buffers |->
            [buf[cl][b] EXCEPT !.recorded = <<>>, !.uses = <<>>]]]
    /\ UNCHANGED <<app, permanentState, stateInitialized, gpuTex, gpuBuf>>

\* mutant: the barriers are committed before the initial states are restored
CloseCommitsFirst(cl) ==
    /\ phase[cl] = "open"
    /\ phase' = [phase EXCEPT ![cl] = "closed"]
    /\ tex' = [tex EXCEPT ![cl] = [t \in Textures |->
                    KeepTexture(t, CommitTexture(tex[cl][t]))]]
    /\ buf' = [buf EXCEPT ![cl] = [b \in Buffers |->
                    KeepBuffer(b, CommitBuffer(buf[cl][b]))]]
    /\ UNCHANGED <<app, permanentState, stateInitialized, ops, gpuTex, gpuBuf>>

Close(cl) ==
    /\ phase[cl] = "open"
    /\ phase' = [phase EXCEPT ![cl] = "closed"]
    /\ tex' = [tex EXCEPT ![cl] = [t \in Textures |->
                    CommitTexture(KeepTexture(t, tex[cl][t]))]]
    /\ buf' = [buf EXCEPT ![cl] = [b \in Buffers |->
                    CommitBuffer(KeepBuffer(b, buf[cl][b]))]]
    /\ UNCHANGED <<app, permanentState, stateInitialized, ops, gpuTex, gpuBuf>>

\* what the barriers of a command buffer make of a state
AfterBarriers(seq, st) == IF seq = <<>> THEN st ELSE seq[Len(seq)].after

\* a permanent state is never switched
NewPermanent(old, deferred) == IF old = Unknown THEN deferred ELSE old

\* executeCommandLists: the GPU runs the lists of a queue in submission order;
\* commandListSubmitted publishes the permanent states and forgets the rest
Execute(cl) ==
    /\ phase[cl] = "closed"
    /\ phase' = [phase EXCEPT ![cl] = "initial"]
    /\ gpuTex' = [t \in Textures |-> [s \in Subresources |->
                    AfterBarriers(tex[cl][t].recorded[s], gpuTex[t][s])]]
    /\ gpuBuf' = [b \in Buffers |-> AfterBarriers(buf[cl][b].recorded, gpuBuf[b])]
    /\ permanentState' = [r \in Resources |->
                    NewPermanent(permanentState[r], DeferredPermanent(cl, r))]
    /\ stateInitialized' = [t \in Textures |->
                    stateInitialized[t] \/ (tex[cl][t].tracked /\ t \in KeepInitialState)]
    /\ tex' = [tex EXCEPT ![cl] = [t \in Textures |-> EmptyTexture]]
    /\ buf' = [buf EXCEPT ![cl] = [b \in Buffers |-> EmptyBuffer]]
    /\ UNCHANGED <<app, ops>>

Init ==
    /\ app \in Applications
    /\ permanentState = [r \in Resources |-> Unknown]
    /\ stateInitialized = [t \in Textures |-> t \in InitializedTextures]
    /\ phase = [cl \in CommandLists |-> "initial"]
    /\ tex = [cl \in CommandLists |-> [t \in Textures |-> EmptyTexture]]
    /\ buf = [cl \in CommandLists |-> [b \in Buffers |-> EmptyBuffer]]
    /\ ops = [cl \in CommandLists |-> 0]
    /\ gpuTex = [t \in Textures |-> [s \in Subresources |->
                    IF t \in InitializedTextures THEN InitialState[t] ELSE {Common}]]
    /\ gpuBuf = [b \in Buffers |-> InitialState[b]]

SubresourceSets == (SUBSET Subresources) \ {{}}

TextureCall(cl) == \E t \in Textures :
    \/ \E st \in Usages : SetPermanentTextureState(cl, t, st)
    \/ \E enable \in BOOLEAN : SetEnableUavBarriersForTexture(cl, t, enable)
    \/ \E S \in SubresourceSets, st \in Usages :
        SetTextureState(cl, t, S, st) \/ UseTexture(cl, t, S, st)
    \/ \E S \in SubresourceSets, st \in States \ {Unknown} :
        BeginTrackingTextureState(cl, t, S, st)

BufferCall(cl) == \E b \in Buffers :
    \/ \E enable \in BOOLEAN : SetEnableUavBarriersForBuffer(cl, b, enable)
    \/ \E st \in States \ {Unknown} : BeginTrackingBufferState(cl, b, st)
    \/ \E st \in Usages :
        \/ SetBufferState(cl, b, st)
        \/ SetPermanentBufferState(cl, b, st)
        \/ UseBuffer(cl, b, st)
        \/ \E st2 \in Usages : UseBufferTwice(cl, b, st, st2)

Next == \E cl \in CommandLists :
    \/ Open(cl) \/ Close(cl) \/ Execute(cl) \/ CommitBarriers(cl)
    \/ TextureCall(cl) \/ BufferCall(cl)

Spec == Init /\ [][Next]_vars

-----------------------------------------------------------------------------
(* Properties.                                                              *)

TypeOK ==
    /\ app \in Applications
    /\ permanentState \in [Resources -> States]
    /\ stateInitialized \in [Textures -> BOOLEAN]
    /\ phase \in [CommandLists -> {"initial", "open", "closed"}]
    /\ tex \in [CommandLists -> [Textures -> TextureRec]]
    /\ buf \in [CommandLists -> [Buffers -> BufferRec]]
    /\ ops \in [CommandLists -> 0..app.ops]
    /\ gpuTex \in [Textures -> [Subresources -> States]]
    /\ gpuBuf \in [Buffers -> States]

TextureBarriers(cl, t, s) == tex[cl][t].recorded[s] \o tex[cl][t].pending[s]
BufferBarriers(cl, b)     == buf[cl][b].recorded \o buf[cl][b].pending

\* The barriers a list places on a subresource form a chain, each leaving from
\* the state the one before it arrived at, and the chain ends in the state the
\* tracker believes the subresource is in.
Chain(seq) == \A i \in 1..(Len(seq) - 1) : seq[i + 1].before = seq[i].after

Linked(x) == \A s \in Subresources :
    LET seq == x.recorded[s] \o x.pending[s]
    IN  /\ Chain(seq)
        /\ seq # <<>> => x.tracked /\ seq[Len(seq)].after = x.state[s]

BarriersFollowTracker == \A cl \in CommandLists, t \in Textures : Linked(tex[cl][t])

\* A command list that is not being recorded owes the GPU no barrier: what was
\* pending at close(), the return to initialState included, is in the command
\* buffer.
CommittedUnlessOpen == \A cl \in CommandLists : phase[cl] # "open" => ~AnyPending(cl)

\* the state a recorded list expects a subresource or buffer to enter it in
EntryState(seq, rec, tracked, permanent) ==
    IF seq # <<>> THEN seq[1].before
    ELSE IF permanent # Unknown THEN permanent
    ELSE IF rec.tracked THEN tracked ELSE Unknown

StateAt(seq, n, entry) == IF n = 0 THEN entry ELSE seq[n].after

TextureAccessesCovered ==
    \A cl \in CommandLists, t \in Textures, s \in Subresources :
        LET x   == tex[cl][t]
            seq == TextureBarriers(cl, t, s)
        IN  \A i \in DOMAIN x.uses[s] :
              x.uses[s][i].state \subseteq
                StateAt(seq, x.uses[s][i].at,
                        EntryState(seq, x, x.state[s], permanentState[t]))

BufferAccessesCovered ==
    \A cl \in CommandLists, b \in Buffers \ UntrackedBuffers :
        LET x == buf[cl][b]
        IN  \A i \in DOMAIN x.uses :
              x.uses[i].state \subseteq
                StateAt(BufferBarriers(cl, b), x.uses[i].at,
                        EntryState(BufferBarriers(cl, b), x, x.state, permanentState[b]))

\* Every GPU access recorded with automatic barriers finds its resource in a
\* state with all the bits the access needs.
AccessesCovered == TextureAccessesCovered /\ BufferAccessesCovered

Ordered(uses) == \A i \in 1..(Len(uses) - 1) :
    UnorderedAccess \in uses[i].state \cap uses[i + 1].state
        => uses[i].at < uses[i + 1].at

TextureUavOrdered ==
    "uavToggle" \notin app.calls =>
        \A cl \in CommandLists, t \in Textures, s \in Subresources :
            (\A r \in Subresources : s <= r) => Ordered(tex[cl][t].uses[s])

BufferUavOrdered ==
    "uavToggle" \notin app.calls =>
        \A cl \in CommandLists, b \in Buffers \ UntrackedBuffers :
            Ordered(buf[cl][b].uses)

\* Between two successive unordered accesses of a list to the same buffer, or to
\* the first subresource of a texture, there is a barrier on it, unless the
\* application has disabled UAV barriers.
UavOrdered == TextureUavOrdered /\ BufferUavOrdered

EntryHolds(recorded, uses, gpu) ==
    /\ recorded # <<>> => recorded[1].before = gpu
    /\ \A i \in DOMAIN uses : uses[i].at = 0 => uses[i].state \subseteq gpu

Executes(cl) == phase[cl] = "closed" /\ phase'[cl] = "initial"

TexturesHold(cl) == \A t \in Textures, s \in Subresources :
    EntryHolds(tex[cl][t].recorded[s], tex[cl][t].uses[s], gpuTex[t][s])

BuffersHold(cl) == \A b \in Buffers \ UntrackedBuffers :
    EntryHolds(buf[cl][b].recorded, buf[cl][b].uses, gpuBuf[b])

\* When a list is executed, the first barrier of each resource in it leaves from
\* the state the lists executed so far have left the resource in, and an access
\* before any barrier finds its bits: lists recorded concurrently may be
\* executed in any order.
EntersAsExpected ==
    [][\A cl \in CommandLists : Executes(cl) => TexturesHold(cl) /\ BuffersHold(cl)]_vars

\* Between command lists, a keepInitialState resource without a permanent state
\* is in its initialState.
KeptTexturesInInitialState == \A t \in Textures \cap KeepInitialState :
    permanentState[t] = Unknown /\ stateInitialized[t]
        => \A s \in Subresources : gpuTex[t][s] = InitialState[t]

\* The same of buffers, which have no stateInitialized: executed in any order,
\* the lists leave each in its initialState.
KeptBuffersInInitialState == \A b \in Buffers \cap KeepInitialState :
    permanentState[b] = Unknown => gpuBuf[b] = InitialState[b]

\* Strengthening of KeptTexturesInInitialState: a closed list leaves the texture
\* in initialState unless it makes it permanent.
KeptTextureInv == \A t \in Textures \cap KeepInitialState :
    /\ stateInitialized[t]
    /\ permanentState[t] = Unknown => \A s \in Subresources : gpuTex[t][s] = InitialState[t]
    /\ \A cl \in CommandLists :
        /\ tex[cl][t].permanentTransition => tex[cl][t].permanent # Unknown
        /\ (/\ phase[cl] = "closed" /\ permanentState[t] = Unknown
            /\ tex[cl][t].tracked /\ tex[cl][t].permanent = Unknown)
              => \A s \in Subresources : tex[cl][t].state[s] = InitialState[t]

\* A resource with a permanent state is in that state: every later list relies
\* on it and places no barrier.
PermanentInState ==
    /\ \A t \in Textures : permanentState[t] # Unknown =>
        \A s \in Subresources : gpuTex[t][s] = permanentState[t]
    /\ \A b \in Buffers \ UntrackedBuffers :
        permanentState[b] # Unknown => gpuBuf[b] = permanentState[b]
=============================================================================
