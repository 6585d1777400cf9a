------------------------------ MODULE QueuesMC ------------------------------
(* The queues of both backends are explored by one run, each from its own initial
   states, and shown to implement the same ResourceLifetime.  Variables of the
   other backend stay Unused. *)
EXTENDS D3D12QueueMC

CONSTANTS Unused, q2, r1, dev, own

VARIABLES
    backend,
    lastRecordingID, lastSubmittedID, lastFinishedID, commandBuffersPool, cmd,
    currentCmdBuf, openedAs, accesses, completed, job   \* VulkanQueue

\* D3D12: a list on each of two queues, each executed and collected by a thread of
\* its own; one resource of the kinds that are waited for
MCQueueBy1And2 == (l1 :> q1) @@ (l2 :> q2) @@ (tr1 :> q1) @@ (tr2 :> q2)
MCWorlds == {{l1, l2, s1}, {l1, tq, e1}}
MCTwoAndOne == (q1 :> 2) @@ (q2 :> 1)

\* Vulkan: the lists on one queue, l1 tracked by the device, l2 by a tracker of the
\* application's; each is executed and collected by a thread of its own
Vulkan == INSTANCE VulkanQueue WITH
    Resources <- Lists \cup {r1}, Staging <- {}, Events <- {},
    Trackers <- {dev, own}, DeviceTrackers <- {dev},
    QueueOf <- [x \in Lists \cup {dev, own} |-> q1],
    TrackerOf <- [l \in Lists |-> IF l = l1 THEN dev ELSE own],
    Executors <- [l \in Lists |-> IF l = l1 THEN {t1} ELSE {t2}],
    Collectors <- [tr \in {dev, own} |-> IF tr = dev THEN {t1} ELSE {t2}],
    SharedStaging <- FALSE, Calls <- {"copy"},
    MaxRecordings <- [q \in Queues |-> IF q = q1 THEN 3 ELSE 1]

ASSUME QueuesAssumption == Vulkan!VulkanQueueAssumption /\ Vulkan!NoneAssumption /\ dev # own

sharedVars == <<inFlight, phase, call, held, use, answered>>
vulkanVars == <<lastRecordingID, lastSubmittedID, lastFinishedID, commandBuffersPool,
                cmd, currentCmdBuf, openedAs, accesses, completed, job>>
d3d12Vars == <<queueVars, pool, active, submittedAs, refs, fenceEvent, gpuVars, before>>

MCInit ==
    \/ /\ backend = "vulkan" /\ Vulkan!Init
       /\ lastSubmittedInstance = Unused /\ lastCompletedInstance = Unused
       /\ recordingInstance = Unused /\ pool = Unused /\ active = Unused /\ submittedAs = Unused
       /\ refs = Unused /\ fenceEvent = Unused /\ gpu = Unused /\ fence = Unused
       /\ before = Unused /\ submittedOps = Unused /\ executedOps = Unused
    \/ /\ backend = "d3d12" /\ Init
       /\ lastRecordingID = Unused /\ lastSubmittedID = Unused /\ lastFinishedID = Unused
       /\ commandBuffersPool = Unused /\ cmd = Unused /\ currentCmdBuf = Unused
       /\ openedAs = Unused /\ accesses = Unused /\ completed = Unused /\ job = Unused

MCNext ==
    \/ backend = "vulkan" /\ Vulkan!Next /\ UNCHANGED <<backend, d3d12Vars>>
    \/ backend = "d3d12" /\ Next /\ UNCHANGED <<backend, vulkanVars>>

MCSpec == MCInit /\ [][MCNext]_<<backend, sharedVars, vulkanVars, d3d12Vars>>

\* TypeOK of both modules.
TypesOK == IF backend = "vulkan" THEN Vulkan!TypeOK ELSE TypeOK

\* CommandBuffersExclusive of VulkanQueue, AllocatorsIdle of D3D12Queue: what a list
\* records into is not executing any more, and no other list's.
RecordsIntoIdleBuffers ==
    IF backend = "vulkan" THEN Vulkan!CommandBuffersExclusive ELSE AllocatorsIdle

\* ExecutedFindsSubmission of VulkanQueue: executed() finds the submission and the
\* recording of its list.
ExecutedFindsRecording == backend = "vulkan" => Vulkan!ExecutedFindsSubmission

\* AnswersFinal of D3D12Queue: maps, polls and timers return what stays true.
AnswersStayTrue == backend = "d3d12" => AnswersFinal

Lifetimes == INSTANCE ResourceLifetime WITH
    Resources <- Resources \cup {r1},
    recording <- IF backend = "vulkan" THEN Vulkan!Recording ELSE Recording,
    executing <- IF backend = "vulkan" THEN Vulkan!Executing ELSE Executing,
    alive <- IF backend = "vulkan" THEN Vulkan!Alive ELSE Alive

\* The queues of both backends keep what resource lifetimes promise: nothing is
\* destroyed that the application, a recording or the GPU still uses.
QueuesImplementLifetime == Lifetimes!Spec
=============================================================================
