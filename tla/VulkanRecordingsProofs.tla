----------------------- MODULE VulkanRecordingsProofs -----------------------
(***************************************************************************)
(* Theorems about VulkanRecordingsMC: those about ValidationLayer, which   *)
(* it extends, and what is proved of the Vulkan queue, upload managers and *)
(* volatile buffers, of the instances the run explores.                    *)
(***************************************************************************)
EXTENDS VulkanRecordingsMC, FiniteSetTheorems, TLAPS

-----------------------------------------------------------------------------
(* The validation layer.                                                    *)

\* The types of what calls read; that the count is in range follows at the end.
ValidationTypes ==
    /\ m_State \in [Lists -> {"initial", "open", "closed"}]
    /\ stateSet \in [Lists -> SUBSET Kinds]
    /\ pipelinePushConstantSize \in [Lists -> PushSizes \cup {0}]
    /\ pushConstantsSet \in [Lists -> BOOLEAN]
    /\ numOpenImmediate \in Int
    /\ step \in [Lists -> {"none", "opening", "refusing", "closing"}]
    /\ phase \in [Lists -> {"initial", "open", "closed"}]
    /\ bound \in [Lists -> [kind : Kinds \cup {"none"}, size : PushSizes \cup {0},
                            pushed : BOOLEAN]]

\* The wrapper knows the phase of its backend list, except that one it takes to be
\* executed may still be closed, as a batch was refused for another list.
WrapperKnows == \A l \in Lists :
    /\ m_State[l] = "open" <=> phase[l] = "open"
    /\ m_State[l] = "closed" => phase[l] = "closed"
    /\ step[l] # "none" => l \in Immediate
    /\ step[l] \in {"opening", "refusing"} => m_State[l] = "initial"
    /\ step[l] = "closing" => m_State[l] = "open"

\* A flag of graphics or compute tells what the backend list was given last.
FlagsTell == \A l \in Lists : \A kind \in stateSet[l] \cap {"graphics", "compute"} :
    /\ bound[l].kind = kind /\ bound[l].size = pipelinePushConstantSize[l]
    /\ pushConstantsSet[l] => bound[l].pushed

\* the immediate lists the count is about
CountedLists == {l \in Immediate :
    step[l] \in {"opening", "refusing"} \/ (m_State[l] = "open" /\ step[l] = "none")}

\* Of the lists that are counted one is open or will be; the others put the count back.
CountRight ==
    /\ numOpenImmediate = Cardinality(CountedLists)
    /\ \A l, k \in CountedLists : step[l] # "refusing" /\ step[k] # "refusing" => l = k

ValidationInv ==
    ValidationTypes /\ WrapperKnows /\ FlagsTell /\ CountRight /\ ForwardedAsExpected

\* Counting one list more, or less.
LEMMA CountFacts ==
  ASSUME ValidationLayerAssumption
  PROVE  /\ IsFiniteSet(CountedLists) /\ Cardinality(CountedLists) \in 0..Cardinality(Immediate)
         /\ \A l \in Immediate : l \notin CountedLists /\ CountedLists' = CountedLists \cup {l} =>
              Cardinality(CountedLists') = Cardinality(CountedLists) + 1
         /\ \A l \in CountedLists : CountedLists' = CountedLists \ {l} =>
              Cardinality(CountedLists') = Cardinality(CountedLists) - 1
<1>1. IsFiniteSet(Immediate) /\ CountedLists \in SUBSET Immediate
  BY DEF ValidationLayerAssumption, CountedLists
<1>2. IsFiniteSet(CountedLists) /\ Cardinality(CountedLists) <= Cardinality(Immediate)
  BY <1>1, FS_Subset
<1>3. Cardinality(CountedLists) \in Nat /\ Cardinality(Immediate) \in Nat
  BY <1>1, <1>2, FS_CardinalityType
<1>4. Cardinality(CountedLists) \in 0..Cardinality(Immediate)
  BY <1>2, <1>3
<1>5. ASSUME NEW l \in Immediate, l \notin CountedLists, CountedLists' = CountedLists \cup {l}
      PROVE  Cardinality(CountedLists') = Cardinality(CountedLists) + 1
  BY <1>2, <1>5, FS_AddElement
<1>6. ASSUME NEW l \in CountedLists, CountedLists' = CountedLists \ {l}
      PROVE  Cardinality(CountedLists') = Cardinality(CountedLists) - 1
  BY <1>2, <1>6, FS_RemoveElement
<1> QED
  BY <1>2, <1>4, <1>5, <1>6

\* A step that opens or closes nothing keeps the count.
LEMMA CountStays ==
  ASSUME CountRight, UNCHANGED <<numOpenImmediate, step>>,
         \A l \in Immediate : m_State'[l] = "open" <=> m_State[l] = "open"
  PROVE  CountRight'
<1>1. CountedLists' = CountedLists
  BY DEF CountedLists
<1> QED
  BY <1>1 DEF CountRight

-----------------------------------------------------------------------------
(* One lemma for each group of calls.                                       *)

\* open() of an immediate list is counted; another one that is open makes it fail.
LEMMA BeginOpenKeeps ==
  ASSUME ValidationLayerAssumption, ValidationInv, NEW l \in Lists, BeginOpen(l)
  PROVE  ValidationInv'
<1>1. /\ l \in Immediate /\ step[l] = "none" /\ m_State[l] = "initial"
      /\ numOpenImmediate' = numOpenImmediate + 1
      /\ step' = [step EXCEPT ![l] = IF numOpenImmediate' > 1 THEN "refusing" ELSE "opening"]
      /\ UNCHANGED <<wrapperVars, backendVars>> /\ misused' = {}
  BY DEF BeginOpen, Ready, MayOpen
<1>2. l \notin CountedLists /\ CountedLists' = CountedLists \cup {l}
  BY <1>1 DEF ValidationInv, ValidationTypes, CountedLists, wrapperVars, backendVars
<1>3. Cardinality(CountedLists) = numOpenImmediate /\ numOpenImmediate \in Nat
  BY CountFacts DEF ValidationInv, CountRight
<1>4. numOpenImmediate' = Cardinality(CountedLists')
  BY <1>1, <1>2, <1>3, CountFacts
<1>5. numOpenImmediate' <= 1 => CountedLists = {}
  BY <1>1, <1>3, CountFacts, FS_EmptySet
<1>6. CountRight'
  <2>1. CASE numOpenImmediate' > 1
    BY <1>1, <1>2, <1>4, <2>1 DEF CountRight, ValidationInv, ValidationTypes, CountedLists
  <2>2. CASE ~(numOpenImmediate' > 1)
    <3>1. CountedLists' = {l}
      BY <1>1, <1>2, <1>3, <1>5, <2>2
    <3> QED
      BY <1>4, <3>1 DEF CountRight
  <2> QED
    BY <2>1, <2>2
<1>7. ValidationTypes'
  BY <1>1 DEF ValidationInv, ValidationTypes, wrapperVars, backendVars
<1>8. WrapperKnows' /\ FlagsTell' /\ ForwardedAsExpected'
  BY <1>1 DEF ValidationInv, ValidationTypes, WrapperKnows, FlagsTell, ForwardedAsExpected, wrapperVars,
              backendVars
<1> QED
  BY <1>6, <1>7, <1>8 DEF ValidationInv

\* A refused open() puts the count back.
LEMMA RefuseOpenKeeps ==
  ASSUME ValidationLayerAssumption, ValidationInv, NEW l \in Lists, RefuseOpen(l)
  PROVE  ValidationInv'
<1>1. /\ step[l] = "refusing" /\ numOpenImmediate' = numOpenImmediate - 1
      /\ step' = [step EXCEPT ![l] = "none"]
      /\ UNCHANGED <<wrapperVars, backendVars>> /\ misused' = {}
  BY DEF RefuseOpen, Uncounted
<1>2. l \in Immediate /\ m_State[l] = "initial"
  BY <1>1 DEF ValidationInv, WrapperKnows
<1>3. l \in CountedLists /\ CountedLists' = CountedLists \ {l}
  BY <1>1, <1>2 DEF ValidationInv, ValidationTypes, CountedLists, wrapperVars, backendVars
<1>4. numOpenImmediate' = Cardinality(CountedLists')
  BY <1>1, <1>3, CountFacts DEF ValidationInv, CountRight
<1>5. CountRight'
  BY <1>1, <1>3, <1>4 DEF CountRight, ValidationInv, ValidationTypes, CountedLists
<1>6. ValidationTypes'
  BY <1>1 DEF ValidationInv, ValidationTypes, wrapperVars, backendVars
<1>7. WrapperKnows' /\ FlagsTell' /\ ForwardedAsExpected'
  BY <1>1 DEF ValidationInv, ValidationTypes, WrapperKnows, FlagsTell, ForwardedAsExpected, wrapperVars,
              backendVars
<1> QED
  BY <1>5, <1>6, <1>7 DEF ValidationInv

\* What a call disappoints is what its phase, state or push constants do.
LEMMA ForwardFacts ==
  ASSUME NEW l \in Lists, NEW sent, Forward(l, sent), Expects(l, sent).phase,
         sent \in {"meshlet", "raytracing"} \/ (Expects(l, sent).state /\ Expects(l, sent).pushConstants)
  PROVE  ForwardedAsExpected'
<1>1. DOMAIN Expects(l, sent) = {"phase", "state", "pushConstants"}
  BY DEF Expects
<1>2. \A m \in misused' : /\ m[1] = sent /\ m[2] \in {"state", "pushConstants"}
                          /\ sent \in {"meshlet", "raytracing"}
  BY <1>1 DEF Forward
<1> QED
  BY <1>2 DEF ForwardedAsExpected

\* open() reaches a backend list that is not open and forgets what was bound.
LEMMA OpenKeeps ==
  ASSUME ValidationLayerAssumption, ValidationInv, NEW l \in Lists, Open(l)
  PROVE  ValidationInv'
<1>1. /\ Forward(l, "open")
      /\ phase' = [phase EXCEPT ![l] = "open"] /\ bound' = [bound EXCEPT ![l] = Unbound]
      /\ m_State' = [m_State EXCEPT ![l] = "open"]
      /\ stateSet' = [stateSet EXCEPT ![l] = @ \cap {"raytracing"}]
      /\ step' = [step EXCEPT ![l] = "none"]
      /\ UNCHANGED <<pipelinePushConstantSize, pushConstantsSet, numOpenImmediate>>
  BY DEF Open
<1>2. /\ l \in Immediate => step[l] = "opening"
      /\ l \notin Immediate => step[l] = "none"
      /\ m_State[l] # "open"
  BY DEF Open, Ready, MayOpen, ValidationInv, WrapperKnows
<1>3. ForwardedAsExpected'
  <2>1. phase[l] # "open"
    BY <1>2 DEF ValidationInv, WrapperKnows
  <2> QED
    BY <1>1, <2>1, ForwardFacts DEF Expects, Kinds
<1>4. CountedLists' = CountedLists
  BY <1>1, <1>2 DEF ValidationInv, ValidationTypes, CountedLists
<1>5. CountRight'
  BY <1>1, <1>2, <1>4 DEF CountRight, ValidationInv, ValidationTypes, CountedLists
<1>6. ValidationTypes'
  BY <1>1 DEF ValidationInv, ValidationTypes, Unbound
<1>7. WrapperKnows' /\ FlagsTell'
  BY <1>1, <1>2 DEF ValidationInv, ValidationTypes, WrapperKnows, FlagsTell
<1> QED
  BY <1>3, <1>5, <1>6, <1>7 DEF ValidationInv

\* close() of an immediate list is no longer counted.
LEMMA BeginCloseKeeps ==
  ASSUME ValidationLayerAssumption, ValidationInv, NEW l \in Lists, BeginClose(l)
  PROVE  ValidationInv'
<1>1. /\ l \in Immediate /\ step[l] = "none" /\ m_State[l] = "open"
      /\ numOpenImmediate' = numOpenImmediate - 1 /\ step' = [step EXCEPT ![l] = "closing"]
      /\ UNCHANGED <<wrapperVars, backendVars>> /\ misused' = {}
  BY DEF BeginClose, RequireOpenState, Ready
<1>2. l \in CountedLists /\ CountedLists' = CountedLists \ {l}
  BY <1>1 DEF ValidationInv, ValidationTypes, CountedLists, wrapperVars, backendVars
<1>3. numOpenImmediate' = Cardinality(CountedLists')
  BY <1>1, <1>2, CountFacts DEF ValidationInv, CountRight
<1>4. CountRight'
  BY <1>1, <1>2, <1>3 DEF CountRight, ValidationInv, ValidationTypes, CountedLists
<1>5. ValidationTypes'
  BY <1>1 DEF ValidationInv, ValidationTypes, wrapperVars, backendVars
<1>6. WrapperKnows' /\ FlagsTell' /\ ForwardedAsExpected'
  BY <1>1 DEF ValidationInv, ValidationTypes, WrapperKnows, FlagsTell, ForwardedAsExpected, wrapperVars,
              backendVars
<1> QED
  BY <1>4, <1>5, <1>6 DEF ValidationInv

\* close() reaches a backend list that is open.
LEMMA CloseKeeps ==
  ASSUME ValidationLayerAssumption, ValidationInv, NEW l \in Lists, Close(l)
  PROVE  ValidationInv'
<1>1. /\ Forward(l, "close")
      /\ phase' = [phase EXCEPT ![l] = "closed"] /\ bound' = [bound EXCEPT ![l] = Unbound]
      /\ m_State' = [m_State EXCEPT ![l] = "closed"]
      /\ stateSet' = [stateSet EXCEPT ![l] = stateSet[l] \cap {"raytracing"}]
      /\ step' = [step EXCEPT ![l] = "none"]
      /\ UNCHANGED <<pipelinePushConstantSize, pushConstantsSet, numOpenImmediate>>
  BY DEF Close, AfterClose
<1>2. /\ l \in Immediate => step[l] = "closing"
      /\ l \notin Immediate => step[l] = "none"
      /\ m_State[l] = "open"
  BY DEF Close, RequireOpenState, Ready, ValidationInv, WrapperKnows
<1>3. ForwardedAsExpected'
  <2>1. phase[l] = "open"
    BY <1>2 DEF ValidationInv, WrapperKnows
  <2> QED
    BY <1>1, <2>1, ForwardFacts DEF Expects, Kinds
<1>4. CountedLists' = CountedLists
  BY <1>1, <1>2 DEF ValidationInv, ValidationTypes, CountedLists
<1>5. CountRight'
  BY <1>1, <1>2, <1>4 DEF CountRight, ValidationInv, ValidationTypes, CountedLists
<1>6. ValidationTypes'
  BY <1>1 DEF ValidationInv, ValidationTypes, Unbound
<1>7. WrapperKnows' /\ FlagsTell'
  BY <1>1, <1>2 DEF ValidationInv, ValidationTypes, WrapperKnows, FlagsTell
<1> QED
  BY <1>3, <1>5, <1>6, <1>7 DEF ValidationInv

\* A state replaces what was set, and the push constants.
LEMMA SetStateKeeps ==
  ASSUME ValidationLayerAssumption, ValidationInv,
         NEW l \in Lists, NEW kind \in Kinds, NEW size \in PushSizes, SetState(l, kind, size)
  PROVE  ValidationInv'
<1>1. /\ m_State[l] = "open" /\ Forward(l, "setState")
      /\ pipelinePushConstantSize' = [pipelinePushConstantSize EXCEPT ![l] = size]
      /\ stateSet' = [stateSet EXCEPT ![l] = Set(l, kind)]
      /\ pushConstantsSet' = [pushConstantsSet EXCEPT ![l] = FALSE]
      /\ bound' = [bound EXCEPT ![l] = [kind |-> kind, size |-> size, pushed |-> FALSE]]
      /\ UNCHANGED <<m_State, numOpenImmediate, step, phase>>
  BY DEF SetState, RequireOpenState
<1>2. ForwardedAsExpected'
  <2>1. phase[l] = "open"
    BY <1>1 DEF ValidationInv, WrapperKnows
  <2> QED
    BY <1>1, <2>1, ForwardFacts DEF Expects, Kinds
<1>3. CountRight'
  BY <1>1, CountStays DEF ValidationInv
<1>4. Set(l, kind) \in SUBSET Kinds /\ Set(l, kind) \cap {"graphics", "compute"} \subseteq {kind}
  BY DEF Set, Kinds
<1>5. ValidationTypes'
  BY <1>1, <1>4 DEF ValidationInv, ValidationTypes
<1>6. WrapperKnows' /\ FlagsTell'
  BY <1>1, <1>4 DEF ValidationInv, ValidationTypes, WrapperKnows, FlagsTell
<1> QED
  BY <1>2, <1>3, <1>5, <1>6 DEF ValidationInv

\* Push constants have the size of the pipeline set last.
LEMMA SetPushConstantsKeeps ==
  ASSUME ValidationLayerAssumption, ValidationInv, NEW l \in Lists, SetPushConstants(l)
  PROVE  ValidationInv'
<1>1. /\ m_State[l] = "open" /\ Forward(l, "setPushConstants")
      /\ pushConstantsSet' = [pushConstantsSet EXCEPT ![l] = TRUE]
      /\ bound' = [bound EXCEPT ![l].pushed = (@ \/ pipelinePushConstantSize[l] = bound[l].size)]
      /\ UNCHANGED <<m_State, stateSet, pipelinePushConstantSize, numOpenImmediate, step, phase>>
  BY DEF SetPushConstants, RequireOpenState
<1>2. ForwardedAsExpected'
  <2>1. phase[l] = "open"
    BY <1>1 DEF ValidationInv, WrapperKnows
  <2> QED
    BY <1>1, <2>1, ForwardFacts DEF Expects, Kinds
<1>3. CountRight'
  BY <1>1, CountStays DEF ValidationInv
<1>4. ValidationTypes'
  BY <1>1, ZenonT(40) DEF ValidationInv, ValidationTypes
<1>5. /\ \A k \in Lists : bound'[k].kind = bound[k].kind /\ bound'[k].size = bound[k].size
      /\ \A k \in Lists : k # l => bound'[k] = bound[k] /\ pushConstantsSet'[k] = pushConstantsSet[k]
      /\ bound'[l].pushed = (bound[l].pushed \/ pipelinePushConstantSize[l] = bound[l].size)
  BY <1>1 DEF ValidationInv, ValidationTypes
<1>6. FlagsTell'
  <2> SUFFICES ASSUME NEW k \in Lists, NEW kind \in stateSet[k] \cap {"graphics", "compute"}
               PROVE  /\ bound'[k].kind = kind /\ bound'[k].size = pipelinePushConstantSize[k]
                      /\ pushConstantsSet'[k] => bound'[k].pushed
    BY <1>1 DEF FlagsTell
  <2>1. /\ bound[k].kind = kind /\ bound[k].size = pipelinePushConstantSize[k]
        /\ pushConstantsSet[k] => bound[k].pushed
    BY DEF ValidationInv, FlagsTell
  <2>2. bound'[k].kind = kind /\ bound'[k].size = pipelinePushConstantSize[k]
    BY <1>5, <2>1
  <2>3. CASE k = l
    <3>1. bound'[l].pushed
      BY <1>5, <2>1, <2>3, Zenon
    <3> QED
      BY <2>2, <2>3, <3>1
  <2>4. CASE k # l
    <3>1. bound'[k] = bound[k] /\ pushConstantsSet'[k] = pushConstantsSet[k]
      BY <1>5, <2>4
    <3> QED
      BY <2>1, <2>2, <3>1
  <2> QED
    BY <2>3, <2>4
<1>7. WrapperKnows'
  BY <1>1 DEF ValidationInv, WrapperKnows
<1> QED
  BY <1>2, <1>3, <1>4, <1>6, <1>7 DEF ValidationInv

\* Draws and dispatches find what the flags tell.
LEMMA ForwardUnlessStatelessKeeps ==
  ASSUME ValidationLayerAssumption, ValidationInv,
         NEW l \in Lists, NEW kind \in Kinds, ForwardUnlessStateless(l, kind)
  PROVE  ValidationInv'
<1>1. /\ m_State[l] = "open" /\ kind \in stateSet[l]
      /\ pipelinePushConstantSize[l] # 0 => pushConstantsSet[l]
      /\ Forward(l, kind) /\ UNCHANGED <<wrapperVars, numOpenImmediate, step, backendVars>>
  BY DEF ForwardUnlessStateless, RequireOpenState, ValidatePushConstants
<1>2. ForwardedAsExpected'
  <2>1. phase[l] = "open"
    BY <1>1 DEF ValidationInv, WrapperKnows
  <2>2. kind \in {"graphics", "compute"} =>
            bound[l].kind = kind /\ (bound[l].size # 0 => bound[l].pushed)
    BY <1>1 DEF ValidationInv, FlagsTell
  <2>3. Expects(l, kind).phase
    BY <2>1 DEF Expects, Kinds
  <2>4. \/ kind \in {"meshlet", "raytracing"}
        \/ Expects(l, kind).state /\ Expects(l, kind).pushConstants
    BY <2>2 DEF Expects, Kinds
  <2> QED
    BY <1>1, <2>3, <2>4, ForwardFacts
<1>3. CountRight'
  BY <1>1, CountStays DEF ValidationInv, wrapperVars
<1>4. ValidationTypes' /\ WrapperKnows' /\ FlagsTell'
  BY <1>1 DEF ValidationInv, ValidationTypes, WrapperKnows, FlagsTell, wrapperVars, backendVars
<1> QED
  BY <1>2, <1>3, <1>4 DEF ValidationInv

\* The other commands need an open list only.
LEMMA CommandKeeps ==
  ASSUME ValidationLayerAssumption, ValidationInv,
         NEW l \in Lists, NEW queueType, Command(l, queueType)
  PROVE  ValidationInv'
<1>1. /\ m_State[l] = "open" /\ Forward(l, "command")
      /\ UNCHANGED <<wrapperVars, numOpenImmediate, step, backendVars>>
  BY DEF Command, RequireOpenState
<1>2. ForwardedAsExpected'
  <2>1. phase[l] = "open"
    BY <1>1 DEF ValidationInv, WrapperKnows
  <2> QED
    BY <1>1, <2>1, ForwardFacts DEF Expects, Kinds
<1>3. CountRight'
  BY <1>1, CountStays DEF ValidationInv, wrapperVars
<1>4. ValidationTypes' /\ WrapperKnows' /\ FlagsTell'
  BY <1>1 DEF ValidationInv, ValidationTypes, WrapperKnows, FlagsTell, wrapperVars, backendVars
<1> QED
  BY <1>2, <1>3, <1>4 DEF ValidationInv

\* clearState() clears the flags as well.
LEMMA ClearStateKeeps ==
  ASSUME ValidationLayerAssumption, ValidationInv, NEW l \in Lists, ClearState(l)
  PROVE  ValidationInv'
<1>1. /\ m_State[l] = "open" /\ Forward(l, "clearState")
      /\ stateSet' = [stateSet EXCEPT ![l] = {}]
      /\ pushConstantsSet' = [pushConstantsSet EXCEPT ![l] = FALSE]
      /\ bound' = [bound EXCEPT ![l] = Unbound]
      /\ UNCHANGED <<m_State, pipelinePushConstantSize, numOpenImmediate, step, phase>>
  BY DEF ClearState, RequireOpenState
<1>2. ForwardedAsExpected'
  <2>1. phase[l] = "open"
    BY <1>1 DEF ValidationInv, WrapperKnows
  <2> QED
    BY <1>1, <2>1, ForwardFacts DEF Expects, Kinds
<1>3. CountRight'
  BY <1>1, CountStays DEF ValidationInv
<1>4. ValidationTypes'
  BY <1>1 DEF ValidationInv, ValidationTypes, Unbound
<1>5. WrapperKnows' /\ FlagsTell'
  BY <1>1 DEF ValidationInv, ValidationTypes, WrapperKnows, FlagsTell
<1> QED
  BY <1>2, <1>3, <1>4, <1>5 DEF ValidationInv

\* A call executes its lists only if each of them is closed.
LEMMA ExecuteKeeps ==
  ASSUME ValidationLayerAssumption, ValidationInv,
         NEW ls \in Batches, NEW q, ExecuteCommandLists(ls, q)
  PROVE  ValidationInv'
<1>1. PICK n, R : n = Accepted(ls, q) /\ R = {ls[i] : i \in 1..n}
  OBVIOUS
<1>2. /\ \A i \in DOMAIN ls : Ready(ls[i])
      /\ m_State' = [l \in Lists |-> IF l \in R THEN "initial" ELSE m_State[l]]
      /\ IF n = Len(ls)
         THEN /\ misused' = {<<"execute", "phase">> : l \in {k \in R : phase[k] # "closed"}}
              /\ phase' = [l \in Lists |-> IF l \in R THEN "initial" ELSE phase[l]]
         ELSE misused' = {} /\ UNCHANGED phase
      /\ UNCHANGED <<stateSet, pipelinePushConstantSize, pushConstantsSet, numOpenImmediate, step, bound>>
  BY <1>1 DEF ExecuteCommandLists
<1>3. Len(ls) \in 1..2 /\ DOMAIN ls = 1..Len(ls)
  BY DEF Batches
<1>4. n \in 0..Len(ls) /\ \A i \in 1..n : Passes(ls, q, i)
  <2> DEFINE most(k) == (\A i \in 1..k : Passes(ls, q, i)) /\ (k < Len(ls) => ~Passes(ls, q, k + 1))
  <2>1. \E k \in 0..Len(ls) : most(k)
    <3>1. CASE ~Passes(ls, q, 1)
      <4>1. most(0)
        BY <3>1
      <4> QED
        BY <1>3, <4>1
    <3>2. CASE Passes(ls, q, 1) /\ (Len(ls) = 1 \/ ~Passes(ls, q, 2))
      <4>1. most(1)
        BY <1>3, <3>2
      <4> QED
        BY <1>3, <4>1
    <3>3. CASE Passes(ls, q, 1) /\ Len(ls) = 2 /\ Passes(ls, q, 2)
      <4>1. most(2)
        BY <3>3
      <4> QED
        BY <1>3, <3>3, <4>1
    <3> QED
      BY <1>3, <3>1, <3>2, <3>3
  <2> QED
    BY <1>1, <2>1 DEF Accepted
<1>5. \A l \in R : m_State[l] = "closed" /\ step[l] = "none" /\ phase[l] = "closed"
  <2> SUFFICES ASSUME NEW i \in 1..n
               PROVE  m_State[ls[i]] = "closed" /\ step[ls[i]] = "none" /\ phase[ls[i]] = "closed"
    BY <1>1
  <2>1. i \in DOMAIN ls /\ ls[i] \in Lists
    BY <1>3, <1>4 DEF Batches
  <2>2. m_State[ls[i]] = "closed" /\ step[ls[i]] = "none"
    BY <1>2, <1>4, <2>1 DEF Passes, MayExecute, Ready
  <2> QED
    BY <2>1, <2>2 DEF ValidationInv, WrapperKnows
<1>6. /\ m_State' = [l \in Lists |-> IF l \in R THEN "initial" ELSE m_State[l]]
      /\ misused' = {}
      /\ \/ phase' = [l \in Lists |-> IF l \in R THEN "initial" ELSE phase[l]]
         \/ UNCHANGED phase
      /\ UNCHANGED <<stateSet, pipelinePushConstantSize, pushConstantsSet, numOpenImmediate, step, bound>>
  <2>1. {<<"execute", "phase">> : l \in {k \in R : phase[k] # "closed"}} = {}
    BY <1>5
  <2> QED
    BY <1>2, <2>1
<1>7. CountRight'
  BY <1>5, <1>6, CountStays DEF ValidationInv, ValidationTypes, ValidationLayerAssumption
<1>8. ValidationTypes'
  BY <1>6 DEF ValidationInv, ValidationTypes
<1>9. WrapperKnows' /\ FlagsTell' /\ ForwardedAsExpected'
  BY <1>5, <1>6 DEF ValidationInv, ValidationTypes, WrapperKnows, FlagsTell, ForwardedAsExpected
<1> QED
  BY <1>7, <1>8, <1>9 DEF ValidationInv

LEMMA ValidationInit == ASSUME ValidationLayerAssumption, Init PROVE ValidationInv
<1>1. ValidationTypes /\ WrapperKnows /\ FlagsTell /\ ForwardedAsExpected
  BY DEF Init, ValidationTypes, WrapperKnows, FlagsTell, ForwardedAsExpected, Unbound
<1>2. CountedLists = {}
  BY DEF Init, CountedLists, ValidationLayerAssumption
<1>3. CountRight
  BY <1>2, FS_EmptySet DEF Init, CountRight
<1> QED
  BY <1>1, <1>3 DEF ValidationInv

\* Every step keeps the invariant.
LEMMA ValidationNext ==
  ASSUME ValidationLayerAssumption, ValidationInv, Next
  PROVE  ValidationInv'
<1>1. ASSUME NEW l \in Lists, Record(l) PROVE ValidationInv'
  <2>1. ASSUME NEW size \in PushSizes,
               \/ SetGraphicsState(l, size) \/ SetComputeState(l, size)
               \/ SetMeshletState(l, size) \/ SetRayTracingState(l, size)
        PROVE  ValidationInv'
    BY <2>1, SetStateKeeps
       DEF SetGraphicsState, SetComputeState, SetMeshletState, SetRayTracingState, Kinds
  <2>2. CASE Draw(l) \/ Dispatch(l) \/ DispatchMesh(l) \/ DispatchRays(l)
    BY <2>2, ForwardUnlessStatelessKeeps DEF Draw, Dispatch, DispatchMesh, DispatchRays, Kinds
  <2>3. CASE GraphicsCommand(l) \/ ComputeCommand(l) \/ AnyQueueCommand(l)
    BY <2>3, CommandKeeps DEF GraphicsCommand, ComputeCommand, AnyQueueCommand
  <2> QED
    BY <1>1, <2>1, <2>2, <2>3, SetPushConstantsKeeps, ClearStateKeeps DEF Record
<1>2. ASSUME NEW l \in Lists,
             \/ BeginOpen(l) \/ RefuseOpen(l) \/ Open(l) \/ BeginClose(l) \/ Close(l)
      PROVE  ValidationInv'
  BY <1>2, BeginOpenKeeps, RefuseOpenKeeps, OpenKeeps, BeginCloseKeeps, CloseKeeps
<1> QED
  BY <1>1, <1>2, ExecuteKeeps DEF Next

\* When nothing is being opened or closed the lists that are counted are those open.
LEMMA InvariantCounts ==
  ASSUME ValidationLayerAssumption, ValidationInv
  PROVE  OpenImmediateCounted
<1> SUFFICES ASSUME \A l \in Lists : step[l] = "none"
             PROVE  /\ numOpenImmediate = Cardinality({l \in Immediate : m_State[l] = "open"})
                    /\ numOpenImmediate <= 1
  BY DEF OpenImmediateCounted
<1>1. CountedLists = {l \in Immediate : m_State[l] = "open"}
  BY DEF CountedLists, ValidationLayerAssumption
<1>2. \A l, k \in CountedLists : l = k
  BY DEF ValidationInv, CountRight, CountedLists, ValidationLayerAssumption
<1>3. CASE CountedLists = {}
  <2>1. Cardinality(CountedLists) = 0
    BY <1>3, FS_EmptySet
  <2> QED
    BY <1>1, <2>1 DEF ValidationInv, CountRight
<1>4. CASE CountedLists # {}
  <2>1. PICK l \in CountedLists : CountedLists = {l}
    BY <1>2, <1>4
  <2>2. Cardinality(CountedLists) = 1
    BY <2>1, FS_Singleton
  <2> QED
    BY <1>1, <2>2 DEF ValidationInv, CountRight
<1> QED
  BY <1>3, <1>4

-----------------------------------------------------------------------------
(* The run's executions of the validation layer.                            *)

\* Every expectation that is disappointed is one of a call.
Misuses == ({"open", "close", "execute", "setState", "setPushConstants", "command", "clearState"}
            \cup Kinds) \X {"phase", "state", "pushConstants"}

LEMMA MisusedTyped ==
  ASSUME Next
  PROVE  misused' \subseteq Misuses
<1> DEFINE Forwarded == {"open", "close", "setState", "setPushConstants", "command", "clearState"}
                        \cup Kinds
<1>1. ASSUME NEW l \in Lists, NEW c \in Forwarded, Forward(l, c)
      PROVE  misused' \subseteq Misuses
  <2>1. DOMAIN Expects(l, c) = {"phase", "state", "pushConstants"}
    BY DEF Expects
  <2> QED
    BY <1>1, <2>1 DEF Forward, Misuses
<1>2. ASSUME NEW l \in Lists, Record(l) PROVE misused' \subseteq Misuses
  BY <1>1, <1>2
     DEF Record, SetGraphicsState, SetComputeState, SetMeshletState, SetRayTracingState, SetState,
         SetPushConstants, ClearState, Draw, Dispatch, DispatchMesh, DispatchRays,
         ForwardUnlessStateless, GraphicsCommand, ComputeCommand, AnyQueueCommand, Command, Kinds
<1>3. ASSUME NEW l \in Lists,
             BeginOpen(l) \/ RefuseOpen(l) \/ Open(l) \/ BeginClose(l) \/ Close(l)
      PROVE  misused' \subseteq Misuses
  BY <1>1, <1>3 DEF BeginOpen, RefuseOpen, Open, BeginClose, Close
<1>4. ASSUME NEW ls, NEW q, ExecuteCommandLists(ls, q) PROVE misused' \subseteq Misuses
  BY <1>4 DEF ExecuteCommandLists, Misuses
<1> QED
  BY <1>2, <1>3, <1>4 DEF Next

ValidationPart == part = "validation" => ValidationInv /\ misused \subseteq Misuses

\* Steps of the other parts leave it alone.
LEMMA ValidationInvariant ==
  ASSUME ValidationLayerAssumption
  PROVE  MCSpec => []ValidationPart
<1> DEFINE mcVars == <<part, phase, numberVars, queueVars, recordingVars, uploadVars,
                       versionVars, validationVars>>
<1>1. MCInit => ValidationPart
  BY ValidationInit DEF MCInit, ValidationPart, Init
<1>2. ValidationPart /\ [MCNext]_mcVars => ValidationPart'
  <2> SUFFICES ASSUME ValidationInv, misused \subseteq Misuses, [MCNext]_mcVars,
                      part = "validation", part' = "validation"
               PROVE  ValidationInv' /\ misused' \subseteq Misuses
    BY DEF ValidationPart, MCNext
  <2>1. CASE Next
    BY <2>1, ValidationNext, MisusedTyped
  <2>2. CASE UNCHANGED mcVars
    BY <2>2 DEF ValidationInv, ValidationTypes, WrapperKnows, FlagsTell, CountRight, CountedLists,
                ForwardedAsExpected, validationVars, wrapperVars
  <2> QED
    BY <2>1, <2>2 DEF MCNext
<1> QED
  BY <1>1, <1>2, PTL DEF MCSpec

\* A backend list gets no call it cannot take: one of the wrong phase, or a draw or
\* dispatch without the state and the push constants it needs.
THEOREM OnlyExpectedCalls ==
  ASSUME ValidationLayerAssumption
  PROVE  MCSpec => []CallsForwardedAsExpected
<1>1. ValidationPart => CallsForwardedAsExpected
  BY DEF ValidationPart, ValidationInv, CallsForwardedAsExpected
<1> QED
  BY <1>1, ValidationInvariant, PTL

\* The count of open immediate lists is right, and one at most, whenever no list is
\* being opened or closed, however the threads interleave and whatever is refused.
THEOREM ImmediateListsStayCounted ==
  ASSUME ValidationLayerAssumption
  PROVE  MCSpec => []ImmediateListsCounted
<1>1. ValidationPart => ImmediateListsCounted
  BY InvariantCounts DEF ValidationPart, ImmediateListsCounted
<1> QED
  BY <1>1, ValidationInvariant, PTL

-----------------------------------------------------------------------------
(* The waits for the Vulkan queue.                                          *)

\* The theorems about VulkanQueue, of the instance the run explores.
W == INSTANCE VulkanQueueProofs WITH
    Queues <- {q1, q2}, Threads <- {t1, t2}, Lists <- {l1, l2}, Resources <- {l1, l2, s1},
    Staging <- {s1}, Events <- {e1}, Trackers <- {dev, own}, DeviceTrackers <- {dev, own},
    QueueOf <- [x \in {l1, l2, dev, own} |-> IF x \in {l1, dev} THEN q1 ELSE q2],
    TrackerOf <- [l \in {l1, l2} |-> IF l = l1 THEN dev ELSE own],
    Executors <- [l \in {l1, l2} |-> {t1}],
    Collectors <- [tr \in {dev, own} |-> {}],
    SharedStaging <- FALSE, Calls <- {"copy"},
    MaxRecordings <- [q \in {q1, q2} |-> IF q = q1 THEN 2 ELSE 1]

\* What these constants have to satisfy.
WaitsAssumption == Waits!VulkanQueueAssumption /\ Waits!NoneAssumption

LEMMA WaitsConstants ==
  ASSUME WaitsAssumption
  PROVE  W!VulkanQueueAssumption /\ W!NoneAssumption /\ W!OneThreadPerTracker
<1>1. W!VulkanQueueAssumption
  BY DEF WaitsAssumption, Waits!VulkanQueueAssumption, W!VulkanQueueAssumption
<1>2. W!NoneAssumption
  BY DEF WaitsAssumption, Waits!NoneAssumption, W!NoneAssumption, Waits!CommandBuffers, W!CommandBuffers
<1>3. W!OneThreadPerTracker
  BY DEF W!OneThreadPerTracker, WaitsAssumption, Waits!VulkanQueueAssumption
<1> QED
  BY <1>1, <1>2, <1>3

\* Both are instances of the same actions.
LEMMA SameInit == Waits!Init => W!Init
  BY DEF Waits!Init, W!Init, Waits!CommandBuffers, W!CommandBuffers, Waits!NoBuffer, W!NoBuffer,
         Waits!Idle, W!Idle, Waits!Never, W!Never

LEMMA SameNext == Waits!Next => W!Next
<1>1. /\ Waits!CommandBuffers = W!CommandBuffers /\ Waits!NoBuffer = W!NoBuffer
      /\ Waits!Idle = W!Idle /\ Waits!Never = W!Never /\ Waits!Batches = W!Batches
      /\ Waits!mapped = W!mapped
  BY DEF Waits!CommandBuffers, W!CommandBuffers, Waits!NoBuffer, W!NoBuffer, Waits!Idle, W!Idle,
         Waits!Never, W!Never, Waits!Batches, W!Batches, Waits!mapped, W!mapped
<1>2. \A seq : Waits!Elements(seq) = W!Elements(seq)
  BY DEF Waits!Elements, W!Elements
<1>3. ASSUME NEW l \in {l1, l2}, Waits!Open(l) PROVE W!Open(l)
  <2>1. \A q : Waits!NewCommandBuffer(q) = W!NewCommandBuffer(q) /\ Waits!RemainingPool(q) = W!RemainingPool(q)
    BY DEF Waits!NewCommandBuffer, W!NewCommandBuffer, Waits!RemainingPool, W!RemainingPool
  <2>2. Waits!OpenedRefs(l) = W!OpenedRefs(l) /\ Waits!hostVars = W!hostVars /\ Waits!gpuVars = W!gpuVars
    BY DEF Waits!OpenedRefs, W!OpenedRefs, Waits!hostVars, W!hostVars, Waits!gpuVars, W!gpuVars
  <2> QED
    BY <1>1, <1>3, <2>1, <2>2 DEF Waits!Open, W!Open, Waits!hostVars, W!hostVars, Waits!gpuVars, W!gpuVars
<1>4. \A l \in {l1, l2} : Waits!Close(l) => W!Close(l)
  BY DEF Waits!Close, W!Close, Waits!queueVars, W!queueVars, Waits!hostVars, W!hostVars,
         Waits!gpuVars, W!gpuVars
<1>5. \A l \in {l1, l2}, r \in {l1, l2, s1} :
        /\ Waits!Copy(l, r) => W!Copy(l, r)
        /\ Waits!Bind(l, r) => W!Bind(l, r)
        /\ Waits!Clear(l, r) => W!Clear(l, r)
  BY DEF Waits!Copy, W!Copy, Waits!Bind, W!Bind, Waits!Clear, W!Clear, Waits!Accesses, W!Accesses,
         Waits!queueVars, W!queueVars, Waits!hostVars, W!hostVars, Waits!gpuVars, W!gpuVars
<1>6. \A t, ls, q, used : Waits!MayExecute(t, ls, q, used) => W!MayExecute(t, ls, q, used)
  BY <1>1, <1>2 DEF Waits!MayExecute, W!MayExecute
<1>7. \A ls : Waits!PushAll(ls) = W!PushAll(ls)
  BY DEF Waits!PushAll, W!PushAll, Waits!Push, W!Push
<1>8. ASSUME NEW t \in {t1, t2}, NEW ls \in Waits!Batches, Waits!Submit(t, ls) PROVE W!Submit(t, ls)
  <2>1. \A q, id : Waits!LastUse(q, id) = W!LastUse(q, id)
    BY DEF Waits!LastUse, W!LastUse
  <2>2. Waits!Elements(ls) = W!Elements(ls) /\ Waits!PushAll(ls) = W!PushAll(ls)
    BY <1>2, <1>7
  <2> QED
    BY <1>1, <1>6, <1>8, <2>1, <2>2 DEF Waits!Submit, W!Submit
<1>9. \A t \in {t1, t2} : Waits!Executed(t) => W!Executed(t)
  BY <1>1 DEF Waits!Executed, W!Executed, Waits!Detached, W!Detached, Waits!queueVars, W!queueVars,
         Waits!hostVars, W!hostVars, Waits!gpuVars, W!gpuVars
<1>10. \A q \in {q1, q2} : Waits!Complete(q) => W!Complete(q)
  BY DEF Waits!Complete, W!Complete, Waits!queueVars, W!queueVars, Waits!listVars, W!listVars,
         Waits!hostVars, W!hostVars
<1>11. /\ \A t, q, x : Waits!ReadCounter(t, q, x) => W!ReadCounter(t, q, x)
       /\ \A t, q : Waits!BeingStored(t, q) = W!BeingStored(t, q)
       /\ \A q, f : Waits!StoreFinished(q, f) => W!StoreFinished(q, f)
       /\ \A tr, f, n : Waits!FinishedPrefix(tr, f, n) => W!FinishedPrefix(tr, f, n)
       /\ \A tr, n : Waits!Collectable(tr, n) = W!Collectable(tr, n)
  BY DEF Waits!ReadCounter, W!ReadCounter, Waits!BeingStored, W!BeingStored, Waits!StoreFinished,
         W!StoreFinished, Waits!FinishedPrefix, W!FinishedPrefix, Waits!Collectable, W!Collectable
<1>12. \A tr, n : Waits!Collect(tr, n) => W!Collect(tr, n)
  BY <1>1, <1>2, <1>11 DEF Waits!Collect, W!Collect, Waits!Released, W!Released
<1>13. \A t \in {t1, t2}, tr \in {dev, own} :
        /\ Waits!DeviceCollect(t, tr) => W!DeviceCollect(t, tr)
        /\ Waits!TrackerCollect(t, tr) => W!TrackerCollect(t, tr)
  BY <1>1, <1>11, <1>12 DEF Waits!DeviceCollect, W!DeviceCollect, Waits!TrackerCollect,
         W!TrackerCollect, Waits!queueVars, W!queueVars, Waits!listVars, W!listVars,
         Waits!hostVars, W!hostVars, Waits!gpuVars, W!gpuVars
<1>14. \A t \in {t1, t2} : Waits!TrackerRelease(t) => W!TrackerRelease(t)
  BY <1>1, <1>11, <1>12 DEF Waits!TrackerRelease, W!TrackerRelease, Waits!listVars, W!listVars,
         Waits!hostVars, W!hostVars, Waits!gpuVars, W!gpuVars
<1>15. \A t \in {t1, t2} : Waits!ReturnCommandBuffersToPool(t) => W!ReturnCommandBuffersToPool(t)
  BY <1>1 DEF Waits!ReturnCommandBuffersToPool, W!ReturnCommandBuffersToPool, Waits!listVars,
         W!listVars, Waits!hostVars, W!hostVars, Waits!gpuVars, W!gpuVars
<1>16. \A e \in {e1} :
        /\ \A q \in {q1, q2} : Waits!SetEventQuery(e, q) => W!SetEventQuery(e, q)
        /\ Waits!ResetEventQuery(e) => W!ResetEventQuery(e)
  BY <1>1 DEF Waits!SetEventQuery, W!SetEventQuery, Waits!ResetEventQuery, W!ResetEventQuery,
         Waits!queueVars, W!queueVars, Waits!listVars, W!listVars, Waits!gpuVars, W!gpuVars
<1>17. /\ \A x, f : Waits!Reached(x, f) <=> W!Reached(x, f)
       /\ \A x : Waits!Answer(x) => W!Answer(x)
  BY DEF Waits!Reached, W!Reached, Waits!Answer, W!Answer
<1>18. \A t \in {t1, t2}, x \in {s1} \cup {e1} : Waits!Ask(t, x) => W!Ask(t, x)
  BY <1>1, <1>11, <1>17 DEF Waits!Ask, W!Ask, Waits!queueVars, W!queueVars, Waits!listVars,
         W!listVars, Waits!gpuVars, W!gpuVars
<1>19. \A t \in {t1, t2} :
        /\ Waits!Updated(t) => W!Updated(t)
        /\ Waits!WaitedSemaphores(t) => W!WaitedSemaphores(t)
  BY <1>1, <1>11, <1>17 DEF Waits!Updated, W!Updated, Waits!WaitedSemaphores, W!WaitedSemaphores,
         Waits!queueVars, W!queueVars, Waits!listVars, W!listVars, Waits!gpuVars, W!gpuVars
<1>20. \A b \in {s1} : Waits!UnmapBuffer(b) => W!UnmapBuffer(b)
  BY <1>1 DEF Waits!UnmapBuffer, W!UnmapBuffer, Waits!queueVars, W!queueVars, Waits!listVars,
         W!listVars, Waits!gpuVars, W!gpuVars
<1>21. \A r \in {l1, l2, s1} : Waits!ReleaseHandle(r) => W!ReleaseHandle(r)
  BY <1>1, <1>2 DEF Waits!ReleaseHandle, W!ReleaseHandle, Waits!Arguments, W!Arguments,
         Waits!queueVars, W!queueVars, Waits!listVars, W!listVars, Waits!gpuVars, W!gpuVars
<1> QED
  BY <1>1, <1>3, <1>4, <1>5, <1>8, <1>9, <1>10, <1>13, <1>14, <1>15, <1>16, <1>18, <1>19, <1>20, <1>21
     DEF Waits!Next, W!Next, Waits!Record, W!Record, Waits!Continue, W!Continue,
            Waits!RunGarbageCollection, W!RunGarbageCollection

WaitsPart == part = "waits" => W!QueueInv /\ W!AnswersInv

\* Steps of the other parts leave the queue alone.
LEMMA WaitsInvariant ==
  ASSUME WaitsAssumption
  PROVE  MCSpec => []WaitsPart
<1> DEFINE mcVars == <<part, phase, numberVars, queueVars, recordingVars, uploadVars,
                       versionVars, validationVars>>
<1>1. MCInit => WaitsPart
  <2> SUFFICES ASSUME Waits!Init PROVE W!QueueInv /\ W!AnswersInv
    BY DEF MCInit, WaitsPart
  <2>1. W!Init
    BY SameInit
  <2>2. W!QueueInv
    BY <2>1, WaitsConstants, W!InitHolds
  <2>3. W!AnswersInv
    BY <2>1, WaitsConstants, W!AnswersInit
  <2> QED
    BY <2>2, <2>3
<1>2. WaitsPart /\ [MCNext]_mcVars => WaitsPart'
  <2> SUFFICES ASSUME W!QueueInv, W!AnswersInv, [MCNext]_mcVars, part = "waits", part' = "waits"
               PROVE  W!QueueInv' /\ W!AnswersInv'
    BY DEF WaitsPart, MCNext
  <2>1. [W!Next]_(W!vars)
    <3>1. CASE Waits!Next
      BY <3>1, SameNext
    <3>2. CASE UNCHANGED mcVars
      BY <3>2 DEF W!vars, W!queueVars, W!listVars, W!hostVars, W!gpuVars, numberVars, queueVars
    <3> QED
      BY <3>1, <3>2 DEF MCNext
  <2>2. W!QueueInv'
    BY <2>1, WaitsConstants, W!QueueInvNext
  <2>3. "bind" \notin {"copy"}
    OBVIOUS
  <2>4. W!AnswersInv'
    BY <2>1, <2>2, <2>3, WaitsConstants, W!AnswersNext
  <2> QED
    BY <2>2, <2>4
<1> QED
  BY <1>1, <1>2, PTL DEF MCSpec

\* What mapBuffer, a poll or a wait returned stays true: the GPU is done with the
\* mapped buffer and with what was submitted before the event.
THEOREM WaitsStayFinal ==
  ASSUME WaitsAssumption
  PROVE  MCSpec => []WaitsFinal
<1>1. WaitsPart => WaitsFinal
  <2> SUFFICES ASSUME W!QueueInv, W!AnswersInv PROVE Waits!AnswersFinal
    BY DEF WaitsPart, WaitsFinal
  <2>1. W!AnswersFinal
    BY WaitsConstants, W!InvariantAnswers DEF W!QueueInv
  <2> QED
    BY <2>1 DEF W!AnswersFinal, W!MappedBuffersIdle, W!EventsNotEarly, W!Unfinished, W!mapped,
                Waits!AnswersFinal, Waits!MappedBuffersIdle, Waits!EventsNotEarly, Waits!Unfinished,
                Waits!mapped
<1> QED
  BY <1>1, WaitsInvariant, PTL

-----------------------------------------------------------------------------
(* The upload manager.                                                      *)

\* The theorems about UploadManager, of the instance the run explores.
U == INSTANCE UploadManagerProofs WITH
    Queues <- {q1}, Lists <- {l1, l2}, QueueOf <- [l \in {l1, l2} |-> q1], MaxRecordings <- 3,
    DefaultChunkSize <- 3, SizeAlignment <- 2, MemoryLimit <- 4, ReusesAtLimit <- TRUE,
    Requests <- {[size |-> 1, alignment |-> 2], [size |-> 2, alignment |-> 1],
                 [size |-> 5, alignment |-> 1]},
    MaxAllocations <- [l \in {l1, l2} |-> IF l = l1 THEN 4 ELSE 0]

UploadsConstants == Uploads!UploadManagerAssumption /\ Uploads!RecordingsAssumption

LEMMA UploadsConstantsMeant ==
  ASSUME UploadsConstants
  PROVE  U!UploadsAssumption
<1>1. Uploads!Available = U!Available
  BY DEF Uploads!Available, U!Available
<1>2. Uploads!Chunk = U!Chunk
  BY <1>1 DEF Uploads!Chunk, U!Chunk
<1>3. U!UploadManagerAssumption
  BY <1>2 DEF UploadsConstants, Uploads!UploadManagerAssumption, U!UploadManagerAssumption
<1>4. U!RecordingsAssumption
  BY DEF UploadsConstants, Uploads!RecordingsAssumption, U!RecordingsAssumption
<1> QED
  BY <1>3, <1>4 DEF U!UploadsAssumption

\* Both are instances of the same actions.
LEMMA SameUploadsInit == Uploads!Init => U!Init
  BY DEF Uploads!Init, U!Init, Uploads!RecordingsInit, U!RecordingsInit

LEMMA SameUploadsNext == Uploads!Next => U!Next
<1>1. /\ \A l : Uploads!PendingVersion(l) = U!PendingVersion(l)
      /\ \A l : Uploads!SubmittedVersion(l) = U!SubmittedVersion(l)
      /\ Uploads!Available = U!Available
  BY DEF Uploads!PendingVersion, U!PendingVersion, Uploads!SubmittedVersion, U!SubmittedVersion,
         Uploads!MakeVersion, U!MakeVersion, Uploads!Available, U!Available
<1>2. \A l \in {l1, l2} : /\ Uploads!Open(l) => U!Open(l)
                          /\ Uploads!Close(l) => U!Close(l)
                          /\ Uploads!Executed(l) => U!Executed(l)
  BY DEF Uploads!Open, U!Open, Uploads!Close, U!Close, Uploads!Executed, U!Executed
<1>3. \A q : \A S : Uploads!Submit(q, S) => U!Submit(q, S)
  BY DEF Uploads!Submit, U!Submit
<1>4. \A q : /\ Uploads!Complete(q) => U!Complete(q)
             /\ Uploads!UpdateLastFinishedID(q) => U!UpdateLastFinishedID(q)
  BY DEF Uploads!Complete, U!Complete, Uploads!UpdateLastFinishedID, U!UpdateLastFinishedID
<1>5. \A l, chunks : Uploads!Retire(l, chunks) = U!Retire(l, chunks)
  BY DEF Uploads!Retire, U!Retire
<1>6. \A l : Uploads!SubmittedChunks(l) = U!SubmittedChunks(l)
  BY <1>1, <1>5 DEF Uploads!SubmittedChunks, U!SubmittedChunks
<1>7. \A l \in {l1, l2} : Uploads!ExecutedChunks(l) => U!ExecutedChunks(l)
  BY <1>2, <1>6 DEF Uploads!ExecutedChunks, U!ExecutedChunks
<1>8. \A l, chunk, lo, hi : Uploads!Allocate(l, chunk, lo, hi) <=> U!Allocate(l, chunk, lo, hi)
  BY DEF Uploads!Allocate, U!Allocate, Uploads!Use, U!Use
<1>9. /\ \A chunk, r : Uploads!AlignedOffset(chunk, r) = U!AlignedOffset(chunk, r)
      /\ \A chunk, r : Uploads!Fits(chunk, r) <=> U!Fits(chunk, r)
      /\ \A l, r : Uploads!NeedsChunk(l, r) <=> U!NeedsChunk(l, r)
  BY DEF Uploads!AlignedOffset, U!AlignedOffset, Uploads!Fits, U!Fits, Uploads!NeedsChunk,
         U!NeedsChunk, Uploads!Align, U!Align
<1>10. /\ \A chunk, n : Uploads!Reclaim(chunk, n) = U!Reclaim(chunk, n)
       /\ \A l, chunk, r : Uploads!Fresh(l, chunk, r) = U!Fresh(l, chunk, r)
  BY <1>1 DEF Uploads!Reclaim, U!Reclaim, Uploads!Fresh, U!Fresh
<1>11. \A chunk, r, n : Uploads!Suitable(chunk, r, n) <=> U!Suitable(chunk, r, n)
  BY <1>1, <1>10 DEF Uploads!Suitable, U!Suitable
<1>12. /\ \A l, r, f, n : Uploads!Found(l, r, f, n) <=> U!Found(l, r, f, n)
       /\ \A l, r, f : Uploads!NothingFound(l, r, f) <=> U!NothingFound(l, r, f)
       /\ \A l, f, n : Uploads!Searched(l, f, n) = U!Searched(l, f, n)
  BY <1>10, <1>11 DEF Uploads!Found, U!Found, Uploads!NothingFound, U!NothingFound,
                      Uploads!Searched, U!Searched
<1>13. \A l, f : Uploads!AfterSearch(l, f) = U!AfterSearch(l, f)
  BY <1>5, <1>12 DEF Uploads!AfterSearch, U!AfterSearch
<1>14. /\ \A r : Uploads!SizeToAllocate(r) = U!SizeToAllocate(r)
       /\ \A r : Uploads!OverLimit(r) <=> U!OverLimit(r)
  BY DEF Uploads!SizeToAllocate, U!SizeToAllocate, Uploads!OverLimit, U!OverLimit, Uploads!Align,
         U!Align, Uploads!AllocatedMemory, U!AllocatedMemory
<1>15. \A s, i : Uploads!RemoveAt(s, i) = U!RemoveAt(s, i)
  BY DEF Uploads!RemoveAt, U!RemoveAt
<1>16. \A chunks, r : Uploads!BestChunks(chunks, r) = U!BestChunks(chunks, r)
  <2>1. \A a, b : Uploads!Better(a, b) <=> U!Better(a, b)
    BY DEF Uploads!Better, U!Better
  <2> QED
    BY <1>14, <2>1 DEF Uploads!BestChunks, U!BestChunks
<1>17. ASSUME NEW l \in {l1, l2}, NEW r, Uploads!AllocateFromCurrent(l, r)
       PROVE  U!AllocateFromCurrent(l, r)
  BY <1>8, <1>9, <1>17 DEF Uploads!AllocateFromCurrent, U!AllocateFromCurrent
<1>18. ASSUME NEW l \in {l1, l2}, NEW r, NEW f, Uploads!AllocateFromPool(l, r, f)
       PROVE  U!AllocateFromPool(l, r, f)
  BY <1>5, <1>8, <1>9, <1>10, <1>12, <1>15, <1>18 DEF Uploads!AllocateFromPool, U!AllocateFromPool
<1>19. ASSUME NEW l \in {l1, l2}, NEW r, NEW f, Uploads!AllocateNewChunk(l, r, f)
       PROVE  U!AllocateNewChunk(l, r, f)
  BY <1>1, <1>8, <1>9, <1>10, <1>12, <1>13, <1>14, <1>19
     DEF Uploads!AllocateNewChunk, U!AllocateNewChunk
<1>20. ASSUME NEW l \in {l1, l2}, NEW r, NEW f, Uploads!AllocateAtLimit(l, r, f)
       PROVE  U!AllocateAtLimit(l, r, f)
  BY <1>8, <1>9, <1>10, <1>12, <1>13, <1>14, <1>15, <1>16, <1>20
     DEF Uploads!AllocateAtLimit, U!AllocateAtLimit, Uploads!recordingVars, U!recordingVars
<1>21. ASSUME NEW l \in {l1, l2}, NEW r, Uploads!SuballocateBuffer(l, r)
       PROVE  U!SuballocateBuffer(l, r)
  BY <1>17, <1>18, <1>19, <1>20, <1>21 DEF Uploads!SuballocateBuffer, U!SuballocateBuffer
<1> QED
  BY <1>2, <1>3, <1>4, <1>7, <1>21 DEF Uploads!Next, U!Next

UploadsPart == part = "uploads" => U!UploadsInv

\* Steps of the other parts leave the upload manager alone.
LEMMA UploadsInvariant ==
  ASSUME UploadsConstants
  PROVE  MCSpec => []UploadsPart
<1> DEFINE mcVars == <<part, phase, numberVars, queueVars, recordingVars, uploadVars,
                       versionVars, validationVars>>
<1>1. MCInit => UploadsPart
  <2> SUFFICES ASSUME Uploads!Init PROVE U!UploadsInv
    BY DEF MCInit, UploadsPart
  <2> QED
    BY SameUploadsInit, UploadsConstantsMeant, U!UploadsInitHolds
<1>2. UploadsPart /\ [MCNext]_mcVars => UploadsPart'
  <2> SUFFICES ASSUME U!UploadsInv, [MCNext]_mcVars, part = "uploads", part' = "uploads"
               PROVE  U!UploadsInv'
    BY DEF UploadsPart, MCNext
  <2>1. [U!Next]_(U!vars)
    <3>1. CASE Uploads!Next
      BY <3>1, SameUploadsNext
    <3>2. CASE UNCHANGED mcVars
      BY <3>2 DEF U!vars, U!recordingVars, numberVars, recordingVars, uploadVars
    <3> QED
      BY <3>1, <3>2 DEF MCNext
  <2> QED
    BY <2>1, UploadsConstantsMeant, U!UploadsStep
<1> QED
  BY <1>1, <1>2, PTL DEF MCSpec

LEMMA UploadsMeant ==
  ASSUME UploadsConstants, U!UploadsInv
  PROVE  Uploads!TypeOK /\ Uploads!AllocationsDisjoint /\ Uploads!ExecutedChunksSubmitted
<1>1. U!TypeOK /\ U!AllocationsDisjoint /\ U!ExecutedChunksSubmitted
  BY UploadsConstantsMeant, U!UploadsInvImplies
<1>2. \A s : Uploads!ToSet(s) = U!ToSet(s)
  BY DEF Uploads!ToSet, U!ToSet
<1>3. /\ \A l : Uploads!Chunks(l) = U!Chunks(l)
      /\ Uploads!InUse = U!InUse /\ Uploads!Available = U!Available
  BY <1>2 DEF Uploads!Chunks, U!Chunks, Uploads!InUse, U!InUse, Uploads!Available, U!Available
<1>4. Uploads!Chunk = U!Chunk
  BY <1>3 DEF Uploads!Chunk, U!Chunk
<1>5. Uploads!RecordingsTypeOK
  BY <1>1 DEF U!TypeOK, Uploads!RecordingsTypeOK, U!RecordingsTypeOK
<1>6. Uploads!TypeOK
  BY <1>1, <1>3, <1>4, <1>5 DEF Uploads!TypeOK, U!TypeOK
<1>7. Uploads!AllocationsDisjoint
  BY <1>1, <1>3 DEF Uploads!AllocationsDisjoint, U!AllocationsDisjoint
<1>8. Uploads!ExecutedChunksSubmitted
  BY <1>1, <1>3 DEF Uploads!ExecutedChunksSubmitted, U!ExecutedChunksSubmitted
<1> QED
  BY <1>6, <1>7, <1>8

\* Memory that is still in use is given to nobody else, and lies within its chunk.
THEOREM UploadsStayDisjoint ==
  ASSUME UploadsConstants
  PROVE  MCSpec => []UploadsDisjoint
<1>1. UploadsPart => UploadsDisjoint
  BY UploadsMeant DEF UploadsPart, UploadsDisjoint
<1> QED
  BY <1>1, UploadsInvariant, PTL

\* Every chunk an executed recording used waits for a submission.
THEOREM UploadChunksWaitForSubmissions ==
  ASSUME UploadsConstants
  PROVE  MCSpec => []UploadChunksSubmitted
<1>1. UploadsPart => UploadChunksSubmitted
  BY UploadsMeant DEF UploadsPart, UploadChunksSubmitted
<1> QED
  BY <1>1, UploadsInvariant, PTL

-----------------------------------------------------------------------------
(* Volatile buffers.                                                        *)

\* The theorems about VolatileBuffers, of the instance the run explores.
V == INSTANCE VolatileBuffersProofs WITH
    Queues <- {q1, q2}, Lists <- {l1, l2},
    QueueOf <- [l \in {l1, l2} |-> IF l = l1 THEN q1 ELSE q2], MaxRecordings <- 2,
    Buffers <- {b1}, maxVersions <- [b \in {b1} |-> 2], MaxWrites <- 2

VersionsConstants == Versions!VolatileBuffersAssumption /\ Versions!RecordingsAssumption

LEMMA VersionsConstantsMeant ==
  ASSUME VersionsConstants
  PROVE  V!VolatilesAssumption
<1>1. V!VolatileBuffersAssumption
  BY DEF VersionsConstants, Versions!VolatileBuffersAssumption, V!VolatileBuffersAssumption,
         Versions!VolatileBufferState, V!VolatileBufferState
<1>2. V!RecordingsAssumption
  BY DEF VersionsConstants, Versions!RecordingsAssumption, V!RecordingsAssumption
<1> QED
  BY <1>1, <1>2 DEF V!VolatilesAssumption

\* Both are instances of the same actions.
LEMMA SameVersionsInit == Versions!Init => V!Init
  BY DEF Versions!Init, V!Init, Versions!RecordingsInit, V!RecordingsInit, Versions!Versions,
         V!Versions, Versions!Available, V!Available, Versions!Junk, V!Junk

LEMMA SameVersionsNext == Versions!Next => V!Next
<1>1. /\ \A l : Versions!PendingVersion(l) = V!PendingVersion(l)
      /\ \A l : Versions!SubmittedVersion(l) = V!SubmittedVersion(l)
      /\ Versions!Available = V!Available
  BY DEF Versions!PendingVersion, V!PendingVersion, Versions!SubmittedVersion,
         V!SubmittedVersion, Versions!MakeVersion, V!MakeVersion, Versions!Available, V!Available
<1>2. \A l \in {l1, l2} : /\ Versions!Open(l) => V!Open(l)
                          /\ Versions!Close(l) => V!Close(l)
                          /\ Versions!Executed(l) => V!Executed(l)
  BY DEF Versions!Open, V!Open, Versions!Close, V!Close, Versions!Executed, V!Executed
<1>3. \A q : \A S : Versions!Submit(q, S) => V!Submit(q, S)
  BY DEF Versions!Submit, V!Submit
<1>4. \A q : /\ Versions!Complete(q) => V!Complete(q)
             /\ Versions!UpdateLastFinishedID(q) => V!UpdateLastFinishedID(q)
  BY DEF Versions!Complete, V!Complete, Versions!UpdateLastFinishedID, V!UpdateLastFinishedID
<1>5. /\ \A b : Versions!Versions(b) = V!Versions(b)
      /\ \A l, b : Versions!WrittenRange(l, b) = V!WrittenRange(l, b)
      /\ \A s : Versions!SearchedVersion(s) = V!SearchedVersion(s)
      /\ \A l, word : Versions!Finished(l, word) <=> V!Finished(l, word)
      /\ Versions!recordingVars = V!recordingVars /\ Versions!bufferVars = V!bufferVars
  BY <1>1 DEF Versions!Versions, V!Versions, Versions!WrittenRange, V!WrittenRange,
              Versions!SearchedVersion, V!SearchedVersion, Versions!Finished, V!Finished,
              Versions!recordingVars, V!recordingVars, Versions!bufferVars, V!bufferVars
<1>6. \A l \in {l1, l2} : Versions!OpenRecording(l) => V!OpenRecording(l)
  BY <1>2 DEF Versions!OpenRecording, V!OpenRecording
<1>7. ASSUME NEW l \in {l1, l2}, Versions!CloseRecording(l) PROVE V!CloseRecording(l)
  <2>1. Versions!Flushed(l) = V!Flushed(l)
    BY <1>5 DEF Versions!Flushed, V!Flushed
  <2> QED
    BY <1>2, <1>7, <2>1 DEF Versions!CloseRecording, V!CloseRecording
<1>8. ASSUME NEW l \in {l1, l2}, Versions!ExecutedRecording(l) PROVE V!ExecutedRecording(l)
  <2>1. Versions!Submitted(l) = V!Submitted(l)
    BY <1>1, <1>5 DEF Versions!Submitted, V!Submitted
  <2> QED
    BY <1>2, <1>8, <2>1 DEF Versions!ExecutedRecording, V!ExecutedRecording
<1>9. ASSUME NEW l \in {l1, l2}, Versions!SearchStep(l) PROVE V!SearchStep(l)
  BY <1>5, <1>9 DEF Versions!SearchStep, V!SearchStep, Versions!recordingVars, V!recordingVars
<1>10. ASSUME NEW l \in {l1, l2}, Versions!ClaimVersion(l) PROVE V!ClaimVersion(l)
  BY <1>1, <1>5, <1>10
     DEF Versions!ClaimVersion, V!ClaimVersion, Versions!UnchangedSince, V!UnchangedSince,
         Versions!NextStart, V!NextStart, Versions!Least, V!Least, Versions!Greatest, V!Greatest,
         Versions!Data, V!Data, Versions!recordingVars, V!recordingVars
<1>11. \A l \in {l1, l2} : Versions!RetrySearch(l) => V!RetrySearch(l)
  BY DEF Versions!RetrySearch, V!RetrySearch, Versions!recordingVars, V!recordingVars
<1>12. \A l \in {l1, l2}, b \in {b1} : Versions!BeginWrite(l, b) => V!BeginWrite(l, b)
  BY DEF Versions!BeginWrite, V!BeginWrite, Versions!recordingVars, V!recordingVars
<1>13. \A l \in {l1, l2}, b \in {b1} : Versions!Bind(l, b) => V!Bind(l, b)
  BY DEF Versions!Bind, V!Bind, Versions!Use, V!Use, Versions!bufferVars, V!bufferVars
<1> QED
  BY <1>3, <1>4, <1>5, <1>6, <1>7, <1>8, <1>9, <1>10, <1>11, <1>12, <1>13
     DEF Versions!Next, V!Next, Versions!bufferVars, V!bufferVars

VersionsPart == part = "versions" => V!VolatilesInv

\* Steps of the other parts leave the buffers alone.
LEMMA VersionsInvariant ==
  ASSUME VersionsConstants
  PROVE  MCSpec => []VersionsPart
<1> DEFINE mcVars == <<part, phase, numberVars, queueVars, recordingVars, uploadVars,
                       versionVars, validationVars>>
<1>1. MCInit => VersionsPart
  <2> SUFFICES ASSUME Versions!Init PROVE V!VolatilesInv
    BY DEF MCInit, VersionsPart
  <2> QED
    BY SameVersionsInit, VersionsConstantsMeant, V!VolatilesInitHolds
<1>2. VersionsPart /\ [MCNext]_mcVars => VersionsPart'
  <2> SUFFICES ASSUME V!VolatilesInv, [MCNext]_mcVars, part = "versions", part' = "versions"
               PROVE  V!VolatilesInv'
    BY DEF VersionsPart, MCNext
  <2>1. [V!Next]_(V!vars)
    <3>1. CASE Versions!Next
      BY <3>1, SameVersionsNext
    <3>2. CASE UNCHANGED mcVars
      BY <3>2 DEF V!vars, V!recordingVars, V!bufferVars, numberVars, recordingVars, versionVars
    <3> QED
      BY <3>1, <3>2 DEF MCNext
  <2> QED
    BY <2>1, VersionsConstantsMeant, V!VolatilesStep
<1> QED
  BY <1>1, <1>2, PTL DEF MCSpec

LEMMA VersionsMeant ==
  ASSUME VersionsConstants, V!VolatilesInv
  PROVE  /\ Versions!TypeOK /\ Versions!BoundVersionsKept
         /\ Versions!SubmittedVersionsFlushed /\ Versions!ExecutedVersionsSubmitted
<1>1. /\ V!TypeOK /\ V!BoundVersionsKept
      /\ V!SubmittedVersionsFlushed /\ V!ExecutedVersionsSubmitted
  BY VersionsConstantsMeant, V!VolatilesInvImplies
<1>2. /\ \A b : Versions!Versions(b) = V!Versions(b)
      /\ \A l, b : Versions!WrittenRange(l, b) = V!WrittenRange(l, b)
      /\ Versions!InUse = V!InUse /\ Versions!Word = V!Word
  BY DEF Versions!Versions, V!Versions, Versions!WrittenRange, V!WrittenRange, Versions!InUse,
         V!InUse, Versions!Word, V!Word, Versions!Available, V!Available
<1>3. Versions!RecordingsTypeOK
  BY <1>1 DEF V!TypeOK, Versions!RecordingsTypeOK, V!RecordingsTypeOK
<1>4. Versions!TypeOK
  BY <1>1, <1>2, <1>3 DEF Versions!TypeOK, V!TypeOK
<1>5. Versions!BoundVersionsKept /\ Versions!SubmittedVersionsFlushed
  BY <1>1, <1>2 DEF Versions!BoundVersionsKept, V!BoundVersionsKept,
                    Versions!SubmittedVersionsFlushed, V!SubmittedVersionsFlushed
<1>6. Versions!ExecutedVersionsSubmitted
  BY <1>1, <1>2 DEF Versions!ExecutedVersionsSubmitted, V!ExecutedVersionsSubmitted
<1> QED
  BY <1>4, <1>5, <1>6

\* A version in use is not written, and comes back when its submission is finished.
THEOREM VolatileVersionsStay ==
  ASSUME VersionsConstants
  PROVE  MCSpec => []VolatileVersionsKept
<1>1. VersionsPart => VolatileVersionsKept
  BY VersionsMeant DEF VersionsPart, VolatileVersionsKept
<1> QED
  BY <1>1, VersionsInvariant, PTL

\* The GPU sees what was written to every version a submission uses.
THEOREM VolatileVersionsSeen ==
  ASSUME VersionsConstants
  PROVE  MCSpec => []VolatileVersionsFlushed
<1>1. VersionsPart => VolatileVersionsFlushed
  BY VersionsMeant DEF VersionsPart, VolatileVersionsFlushed
<1> QED
  BY <1>1, VersionsInvariant, PTL

-----------------------------------------------------------------------------
(* The types of all four.                                                   *)

\* Every part keeps its types; the count of open lists stays in its range.
THEOREM PartsTyped ==
  ASSUME ValidationLayerAssumption, WaitsAssumption, UploadsConstants, VersionsConstants
  PROVE  MCSpec => []TypesOK
<1>1. ValidationPart => (part = "validation" => TypeOK)
  <2> SUFFICES ASSUME ValidationInv, misused \subseteq Misuses PROVE TypeOK
    BY DEF ValidationPart
  <2>1. numOpenImmediate \in 0..Cardinality(Immediate)
    BY CountFacts DEF ValidationInv, CountRight
  <2> QED
    BY <2>1 DEF ValidationInv, ValidationTypes, TypeOK, Misuses
<1>2. WaitsPart => (part = "waits" => Waits!TypeOK)
  <2> SUFFICES ASSUME W!QueueInv PROVE Waits!TypeOK
    BY DEF WaitsPart
  <2>1. W!TypeOK
    BY DEF W!QueueInv, W!Types
  <2> QED
    BY <2>1 DEF W!TypeOK, Waits!TypeOK, W!CommandBuffers, Waits!CommandBuffers
<1>3. UploadsPart => (part = "uploads" => Uploads!TypeOK)
  BY UploadsMeant DEF UploadsPart
<1>4. VersionsPart => (part = "versions" => Versions!TypeOK)
  BY VersionsMeant DEF VersionsPart
<1>5. ValidationPart /\ WaitsPart /\ UploadsPart /\ VersionsPart => TypesOK
  BY <1>1, <1>2, <1>3, <1>4 DEF TypesOK
<1> QED
  BY <1>5, ValidationInvariant, WaitsInvariant, UploadsInvariant, VersionsInvariant, PTL
=============================================================================
