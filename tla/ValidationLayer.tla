-------------------------- MODULE ValidationLayer --------------------------
(***************************************************************************)
(* The validation layer's command lists                                    *)
(* (src/validation/validation-commandlist.cpp, executeCommandLists in      *)
(* validation-device.cpp) in front of those of a backend.  A wrapper       *)
(* forwards a call or drops it with an error; the backend is what the      *)
(* forwarded calls make of it.  Every list is recorded by a thread of its  *)
(* own.  The count of open immediate lists is shared: open() and close()   *)
(* change it in one step and the list in another.                          *)
(***************************************************************************)
EXTENDS Integers, Sequences, FiniteSets

CONSTANTS
    Lists,
    Immediate,      \* the lists with enableImmediateExecution
    QueueType,      \* [Lists -> {"graphics", "compute", "copy"}]
    PushSizes       \* the sizes of push constants pipelines expect, 0: none

ASSUME ValidationLayerAssumption ==
    /\ Immediate \subseteq Lists /\ IsFiniteSet(Immediate)
    /\ QueueType \in [Lists -> {"graphics", "compute", "copy"}]
    /\ PushSizes \subseteq Nat

VARIABLES
    m_State,        \* [Lists -> {"initial", "open", "closed"}]
    stateSet,       \* [Lists -> the kinds of state that are set]
    pipelinePushConstantSize,   \* [Lists -> PushSizes]
    pushConstantsSet,           \* [Lists -> BOOLEAN]
    numOpenImmediate,           \* m_NumOpenImmediateCommandLists
    step,           \* [Lists -> {"none", "opening", "refusing", "closing"}]
    phase,          \* [Lists -> the backend list's {"initial", "open", "closed"}]
    bound,          \* [Lists -> the state the backend list was given last]
    misused         \* the expectations that the call forwarded last disappoints

wrapperVars == <<m_State, stateSet, pipelinePushConstantSize, pushConstantsSet>>
backendVars == <<phase, bound>>
vars == <<wrapperVars, numOpenImmediate, step, backendVars, misused>>

Kinds == {"graphics", "compute", "meshlet", "raytracing"}

\* nothing is bound after open() and clearState()
Unbound == [kind |-> "none", size |-> 0, pushed |-> FALSE]

-----------------------------------------------------------------------------
(* What a backend list, which checks nothing, takes for granted: every call    *)
(* comes in its phase, a draw or dispatch of a kind finds the state of this    *)
(* kind and the push constants its pipeline expects.                           *)
Expects(l, call) ==
    [phase         |-> IF call = "open" THEN phase[l] # "open" ELSE phase[l] = "open",
     state         |-> call \in Kinds => bound[l].kind = call,
     pushConstants |-> call \in Kinds /\ bound[l].size # 0 => bound[l].pushed]

Forward(l, call) ==
    misused' = {<<call, rule>> : rule \in {r \in DOMAIN Expects(l, call) : ~Expects(l, call)[r]}}

-----------------------------------------------------------------------------
\* requireType: a compute queue has no graphics, a copy queue has neither
Rank(queueType) == CASE queueType = "graphics" -> 0
                     [] queueType = "compute" -> 1
                     [] queueType = "copy" -> 2

RequireType(l, queueType) == Rank(QueueType[l]) <= Rank(queueType)

TypeFor(kind) == IF kind \in {"graphics", "meshlet"} THEN "graphics" ELSE "compute"

\* the other calls of the list's thread wait for the one in progress
Ready(l) == step[l] = "none"

RequireOpenState(l) == Ready(l) /\ m_State[l] = "open"

MayOpen(l) == m_State[l] = "initial" \/ (m_State[l] = "closed" /\ l \notin Immediate)

\* open() of an immediate list counts it first, which fails if another is open
BeginOpen(l) ==
    /\ Ready(l) /\ MayOpen(l) /\ l \in Immediate
    /\ numOpenImmediate' = numOpenImmediate + 1
    /\ step' = [step EXCEPT ![l] = IF numOpenImmediate' > 1 THEN "refusing" ELSE "opening"]
    /\ UNCHANGED <<wrapperVars, backendVars>> /\ misused' = {}

\* mutant: the count is not put back
UncountedNot == numOpenImmediate

Uncounted == numOpenImmediate - 1

RefuseOpen(l) ==
    /\ step[l] = "refusing"
    /\ numOpenImmediate' = Uncounted
    /\ step' = [step EXCEPT ![l] = "none"]
    /\ UNCHANGED <<wrapperVars, backendVars>> /\ misused' = {}

\* m_CommandList->open().  The ray tracing flag and that of push constants stay.
Open(l) ==
    /\ IF l \in Immediate THEN step[l] = "opening" ELSE Ready(l) /\ MayOpen(l)
    /\ Forward(l, "open")
    /\ phase' = [phase EXCEPT ![l] = "open"]
    /\ bound' = [bound EXCEPT ![l] = Unbound]
    /\ m_State' = [m_State EXCEPT ![l] = "open"]
    /\ stateSet' = [stateSet EXCEPT ![l] = @ \cap {"raytracing"}]
    /\ step' = [step EXCEPT ![l] = "none"]
    /\ UNCHANGED <<pipelinePushConstantSize, pushConstantsSet, numOpenImmediate>>

BeginClose(l) ==
    /\ RequireOpenState(l) /\ l \in Immediate
    /\ numOpenImmediate' = numOpenImmediate - 1
    /\ step' = [step EXCEPT ![l] = "closing"]
    /\ UNCHANGED <<wrapperVars, backendVars>> /\ misused' = {}

AfterClose(l) == stateSet[l] \cap {"raytracing"}

Close(l) ==
    /\ IF l \in Immediate THEN step[l] = "closing" ELSE RequireOpenState(l)
    /\ Forward(l, "close")
    /\ phase' = [phase EXCEPT ![l] = "closed"]
    /\ bound' = [bound EXCEPT ![l] = Unbound]
    /\ m_State' = [m_State EXCEPT ![l] = "closed"]
    /\ stateSet' = [stateSet EXCEPT ![l] = AfterClose(l)]
    /\ step' = [step EXCEPT ![l] = "none"]
    /\ UNCHANGED <<pipelinePushConstantSize, pushConstantsSet, numOpenImmediate>>

-----------------------------------------------------------------------------
\* the flags after set*State: setRayTracingState sets that of meshlets, too
Set(l, kind) == IF kind = "raytracing" THEN {"meshlet", "raytracing"} ELSE {kind}

\* a state with valid arguments, the pipeline expecting push constants of a size
SetState(l, kind, size) ==
    /\ RequireOpenState(l) /\ RequireType(l, TypeFor(kind))
    /\ Forward(l, "setState")
    /\ pipelinePushConstantSize' = [pipelinePushConstantSize EXCEPT ![l] = size]
    /\ stateSet' = [stateSet EXCEPT ![l] = Set(l, kind)]
    /\ pushConstantsSet' = [pushConstantsSet EXCEPT ![l] = FALSE]
    /\ bound' = [bound EXCEPT ![l] = [kind |-> kind, size |-> size, pushed |-> FALSE]]
    /\ UNCHANGED <<m_State, numOpenImmediate, step, phase>>

SetGraphicsState(l, size)   == SetState(l, "graphics", size)
SetComputeState(l, size)    == SetState(l, "compute", size)
SetMeshletState(l, size)    == SetState(l, "meshlet", size)
SetRayTracingState(l, size) == SetState(l, "raytracing", size)

\* with the size the pipeline expects; another one is refused
SetPushConstants(l) ==
    /\ RequireOpenState(l) /\ stateSet[l] # {}
    /\ Forward(l, "setPushConstants")
    /\ pushConstantsSet' = [pushConstantsSet EXCEPT ![l] = TRUE]
    /\ bound' = [bound EXCEPT ![l].pushed = (@ \/ pipelinePushConstantSize[l] = bound[l].size)]
    /\ UNCHANGED <<m_State, stateSet, pipelinePushConstantSize, numOpenImmediate, step, phase>>

\* mutant: push constants are taken as set
ValidatePushConstantsNot(l) == TRUE

ValidatePushConstants(l) == pipelinePushConstantSize[l] # 0 => pushConstantsSet[l]

ForwardUnlessStateless(l, kind) ==
    /\ RequireOpenState(l) /\ RequireType(l, TypeFor(kind))
    /\ kind \in stateSet[l] /\ ValidatePushConstants(l)
    /\ Forward(l, kind)
    /\ UNCHANGED <<wrapperVars, numOpenImmediate, step, backendVars>>

\* with the indexed and indirect ones
Draw(l)         == ForwardUnlessStateless(l, "graphics")
Dispatch(l)     == ForwardUnlessStateless(l, "compute")
DispatchMesh(l) == ForwardUnlessStateless(l, "meshlet")
DispatchRays(l) == ForwardUnlessStateless(l, "raytracing")

\* the commands that need no state
Command(l, queueType) ==
    /\ RequireOpenState(l) /\ RequireType(l, queueType)
    /\ Forward(l, "command")
    /\ UNCHANGED <<wrapperVars, numOpenImmediate, step, backendVars>>

\* resolveTexture, clearDepthStencilTexture
GraphicsCommand(l) == Command(l, "graphics")

\* builds and copies of acceleration structures, clears
ComputeCommand(l) == Command(l, "compute")

\* copies, writes, timer queries, markers, barriers
AnyQueueCommand(l) == Command(l, "copy")

ClearState(l) ==
    /\ RequireOpenState(l)
    /\ Forward(l, "clearState")
    /\ stateSet' = [stateSet EXCEPT ![l] = {}]
    /\ pushConstantsSet' = [pushConstantsSet EXCEPT ![l] = FALSE]
    /\ bound' = [bound EXCEPT ![l] = Unbound]
    /\ UNCHANGED <<m_State, pipelinePushConstantSize, numOpenImmediate, step, phase>>

-----------------------------------------------------------------------------
\* requireExecuteState
MayExecute(l) == m_State[l] = "closed"

\* the nth list of a batch is of the queue's type, closed and was not reset before
Passes(ls, executionQueue, n) ==
    /\ QueueType[ls[n]] = executionQueue
    /\ MayExecute(ls[n]) /\ \A i \in 1..(n - 1) : ls[i] # ls[n]

\* the lists that are checked before one is refused
Accepted(ls, executionQueue) ==
    CHOOSE n \in 0..Len(ls) : /\ \A i \in 1..n : Passes(ls, executionQueue, i)
                              /\ n < Len(ls) => ~Passes(ls, executionQueue, n + 1)

\* Device::executeCommandLists for one or two lists.  The lists are checked, and
\* their states reset, in order; the first one that is refused ends the call.
ExecuteCommandLists(ls, executionQueue) ==
    LET n     == Accepted(ls, executionQueue)
        reset == {ls[i] : i \in 1..n}
    IN  /\ \A i \in DOMAIN ls : Ready(ls[i])
        /\ m_State' = [l \in Lists |-> IF l \in reset THEN "initial" ELSE m_State[l]]
        /\ IF n = Len(ls)
           THEN /\ misused' = {<<"execute", "phase">> : l \in {k \in reset : phase[k] # "closed"}}
                /\ phase' = [l \in Lists |-> IF l \in reset THEN "initial" ELSE phase[l]]
           ELSE misused' = {} /\ UNCHANGED phase
        /\ UNCHANGED <<stateSet, pipelinePushConstantSize, pushConstantsSet,
                       numOpenImmediate, step, bound>>

Batches == {<<l>> : l \in Lists} \cup (Lists \X Lists)

-----------------------------------------------------------------------------
Init ==
    /\ m_State = [l \in Lists |-> "initial"] /\ stateSet = [l \in Lists |-> {}]
    /\ pipelinePushConstantSize = [l \in Lists |-> 0]
    /\ pushConstantsSet = [l \in Lists |-> FALSE]
    /\ numOpenImmediate = 0 /\ step = [l \in Lists |-> "none"]
    /\ phase = [l \in Lists |-> "initial"] /\ bound = [l \in Lists |-> Unbound]
    /\ misused = {}

Record(l) ==
    \/ \E size \in PushSizes : \/ SetGraphicsState(l, size) \/ SetComputeState(l, size)
                              \/ SetMeshletState(l, size) \/ SetRayTracingState(l, size)
    \/ SetPushConstants(l) \/ ClearState(l)
    \/ Draw(l) \/ Dispatch(l) \/ DispatchMesh(l) \/ DispatchRays(l)
    \/ GraphicsCommand(l) \/ ComputeCommand(l) \/ AnyQueueCommand(l)

Next ==
    \/ \E l \in Lists : \/ BeginOpen(l) \/ RefuseOpen(l) \/ Open(l)
                        \/ BeginClose(l) \/ Close(l) \/ Record(l)
    \/ \E ls \in Batches, q \in {QueueType[l] : l \in Lists} : ExecuteCommandLists(ls, q)

Spec == Init /\ [][Next]_vars

-----------------------------------------------------------------------------
(* Properties.                                                              *)

TypeOK ==
    /\ m_State \in [Lists -> {"initial", "open", "closed"}]
    /\ stateSet \in [Lists -> SUBSET Kinds]
    /\ pipelinePushConstantSize \in [Lists -> PushSizes \cup {0}]
    /\ pushConstantsSet \in [Lists -> BOOLEAN]
    /\ numOpenImmediate \in 0..Cardinality(Immediate)
    /\ step \in [Lists -> {"none", "opening", "refusing", "closing"}]
    /\ phase \in [Lists -> {"initial", "open", "closed"}]
    /\ misused \subseteq ({"open", "close", "execute", "setState", "setPushConstants", "command",
                     "clearState"} \cup Kinds) \X {"phase", "state", "pushConstants"}
    /\ bound \in [Lists -> [kind : Kinds \cup {"none"}, size : PushSizes \cup {0},
                            pushed : BOOLEAN]]

\* What a backend list takes for granted holds of every call it is forwarded: a
\* command comes while the list is open, open() while it is not, and a list is
\* executed when it is closed and not executed yet; draws and dispatches find the
\* state of their kind, set in the same recording and not replaced since, and the
\* push constants its pipeline expects.  Not so dispatchMesh and dispatchRays,
\* whose flags setRayTracingState sets and open() and close() do not reset.
ForwardedAsExpected == \A m \in misused :
    m[1] \in {"meshlet", "raytracing"} /\ m[2] # "phase"

\* No error is lost in the count: whenever no list is being opened or closed, it is
\* the number of immediate lists that are open, and that is one at most.
OpenImmediateCounted == (\A l \in Lists : step[l] = "none") =>
    /\ numOpenImmediate = Cardinality({l \in Immediate : m_State[l] = "open"})
    /\ numOpenImmediate <= 1
=============================================================================
