------------------------- MODULE VulkanRecordingsMC -------------------------
(* Four parts of what happens around the recording of command lists, which share
   no state, are explored by one run, each from its own initial states: the
   validation layer, waits for a queue, upload managers and volatile buffers.
   Variables of the others stay Unused. *)
EXTENDS ValidationLayer, TLC

CONSTANTS
    Unused, Parts, None,
    i1, i2, d1,                     \* lists of the validation layer
    q1, q2, t1, t2, l1, l2,         \* queues, threads and lists of the others
    s1, e1, dev, own, b1            \* a staging buffer, an event, trackers, a volatile buffer

VARIABLES
    part,
    lastRecordingID, lastSubmittedID, lastFinishedID, completed,   \* VulkanQueue, Recordings
    commandBuffersPool, inFlight, cmd, currentCmdBuf, openedAs,
    accesses, call, held, use, answered, job,      \* VulkanQueue
    recordingID, submissionID, executedAs, uses, work,      \* Recordings
    current, pool, created, allocated,     \* UploadManager
    versionTracking, versionSearchStart, hostData, deviceData, state, writes, search \* VolatileBuffers

\* two immediate lists and a deferred one, on a compute queue
MCQueueType == [l \in Lists |-> IF l = d1 THEN "compute" ELSE "graphics"]
Symmetry == Permutations(Immediate)

---------------------------------------------------------------------------
\* a list on each of two queues, executed by one thread and waited for by two
Waits == INSTANCE VulkanQueue WITH
    Queues <- {q1, q2}, Threads <- {t1, t2}, Lists <- {l1, l2}, Resources <- {l1, l2, s1},
    Staging <- {s1}, Events <- {e1}, Trackers <- {dev, own}, DeviceTrackers <- {dev, own},
    QueueOf <- [x \in {l1, l2, dev, own} |-> IF x \in {l1, dev} THEN q1 ELSE q2],
    TrackerOf <- [l \in {l1, l2} |-> IF l = l1 THEN dev ELSE own],
    Executors <- [l \in {l1, l2} |-> {t1}],
    Collectors <- [tr \in {dev, own} |-> {}],
    SharedStaging <- FALSE, Calls <- {"copy"},
    MaxRecordings <- [q \in {q1, q2} |-> IF q = q1 THEN 2 ELSE 1]

---------------------------------------------------------------------------
\* l1 allocates, a byte at an even offset, two anywhere, and more than a chunk
\* usually has; l2 only takes recording and submission IDs of the same queue
Uploads == INSTANCE UploadManager WITH
    Queues <- {q1}, Lists <- {l1, l2}, QueueOf <- [l \in {l1, l2} |-> q1], MaxRecordings <- 3,
    DefaultChunkSize <- 3, SizeAlignment <- 2, MemoryLimit <- 4, ReusesAtLimit <- TRUE,
    Requests <- {[size |-> 1, alignment |-> 2], [size |-> 2, alignment |-> 1],
                 [size |-> 5, alignment |-> 1]},
    MaxAllocations <- [l \in {l1, l2} |-> IF l = l1 THEN 4 ELSE 0]

---------------------------------------------------------------------------
\* a list on each of two queues writes the same buffer of two versions
Versions == INSTANCE VolatileBuffers WITH
    Queues <- {q1, q2}, Lists <- {l1, l2},
    QueueOf <- [l \in {l1, l2} |-> IF l = l1 THEN q1 ELSE q2], MaxRecordings <- 2,
    Buffers <- {b1}, maxVersions <- [b \in {b1} |-> 2], MaxWrites <- 2

---------------------------------------------------------------------------
ASSUME Waits!VulkanQueueAssumption /\ Waits!NoneAssumption
ASSUME Uploads!UploadManagerAssumption /\ Uploads!RecordingsAssumption
ASSUME Versions!VolatileBuffersAssumption /\ Versions!RecordingsAssumption

numberVars == <<lastRecordingID, lastSubmittedID, lastFinishedID, completed>>
queueVars == <<commandBuffersPool, inFlight, cmd, currentCmdBuf, openedAs, accesses, call, held,
              use, answered, job>>
recordingVars == <<recordingID, submissionID, executedAs, uses, work>>
uploadVars == <<current, pool, created, allocated>>
versionVars == <<versionTracking, versionSearchStart, hostData, deviceData, state, writes, search>>
validationVars == <<wrapperVars, numOpenImmediate, step, bound, misused>>

MCInit ==
    /\ part \in Parts
    /\ \/ /\ part = "validation" /\ Init
          /\ lastRecordingID = Unused /\ lastSubmittedID = Unused /\ lastFinishedID = Unused
          /\ commandBuffersPool = Unused /\ inFlight = Unused /\ cmd = Unused
          /\ currentCmdBuf = Unused /\ openedAs = Unused /\ accesses = Unused /\ call = Unused
          /\ held = Unused /\ use = Unused /\ answered = Unused /\ completed = Unused
          /\ job = Unused /\ recordingID = Unused /\ submissionID = Unused /\ executedAs = Unused
          /\ uses = Unused /\ work = Unused /\ current = Unused /\ pool = Unused
          /\ created = Unused /\ allocated = Unused /\ versionTracking = Unused
          /\ versionSearchStart = Unused /\ hostData = Unused /\ deviceData = Unused
          /\ state = Unused /\ writes = Unused /\ search = Unused
       \/ /\ part = "waits" /\ Waits!Init
          /\ recordingID = Unused /\ submissionID = Unused /\ executedAs = Unused
          /\ uses = Unused /\ work = Unused /\ current = Unused /\ pool = Unused
          /\ created = Unused /\ allocated = Unused /\ versionTracking = Unused
          /\ versionSearchStart = Unused /\ hostData = Unused /\ deviceData = Unused
          /\ state = Unused /\ writes = Unused /\ search = Unused /\ m_State = Unused
          /\ stateSet = Unused /\ pipelinePushConstantSize = Unused /\ pushConstantsSet = Unused
          /\ numOpenImmediate = Unused /\ step = Unused /\ bound = Unused /\ misused = Unused
       \/ /\ part = "uploads" /\ Uploads!Init
          /\ commandBuffersPool = Unused /\ inFlight = Unused /\ cmd = Unused
          /\ currentCmdBuf = Unused /\ openedAs = Unused /\ accesses = Unused /\ call = Unused
          /\ held = Unused /\ use = Unused /\ answered = Unused /\ job = Unused
          /\ versionTracking = Unused /\ versionSearchStart = Unused /\ hostData = Unused
          /\ deviceData = Unused /\ state = Unused /\ writes = Unused /\ search = Unused
          /\ m_State = Unused /\ stateSet = Unused /\ pipelinePushConstantSize = Unused
          /\ pushConstantsSet = Unused /\ numOpenImmediate = Unused /\ step = Unused
          /\ bound = Unused /\ misused = Unused
       \/ /\ part = "versions" /\ Versions!Init
          /\ commandBuffersPool = Unused /\ inFlight = Unused /\ cmd = Unused
          /\ currentCmdBuf = Unused /\ openedAs = Unused /\ accesses = Unused /\ call = Unused
          /\ held = Unused /\ use = Unused /\ answered = Unused /\ job = Unused
          /\ current = Unused /\ pool = Unused /\ created = Unused /\ allocated = Unused
          /\ m_State = Unused /\ stateSet = Unused /\ pipelinePushConstantSize = Unused
          /\ pushConstantsSet = Unused /\ numOpenImmediate = Unused /\ step = Unused
          /\ bound = Unused /\ misused = Unused

MCNext ==
    \/ /\ part = "validation" /\ Next
       /\ UNCHANGED <<part, numberVars, queueVars, recordingVars, uploadVars, versionVars>>
    \/ /\ part = "waits" /\ Waits!Next
       /\ UNCHANGED <<part, recordingVars, uploadVars, versionVars, validationVars>>
    \/ /\ part = "uploads" /\ Uploads!Next
       /\ UNCHANGED <<part, queueVars, versionVars, validationVars>>
    \/ /\ part = "versions" /\ Versions!Next
       /\ UNCHANGED <<part, queueVars, uploadVars, validationVars>>

MCSpec == MCInit /\ [][MCNext]_<<part, phase, numberVars, queueVars, recordingVars, uploadVars,
                                versionVars, validationVars>>

---------------------------------------------------------------------------
\* TypeOK of the four modules.
TypesOK ==
    /\ part = "validation" => TypeOK
    /\ part = "waits" => Waits!TypeOK
    /\ part = "uploads" => Uploads!TypeOK
    /\ part = "versions" => Versions!TypeOK

\* ForwardedAsExpected of ValidationLayer: the backend gets no call it cannot take.
CallsForwardedAsExpected == part = "validation" => ForwardedAsExpected

\* OpenImmediateCounted of ValidationLayer: the count of open immediate lists is
\* right whenever no list is being opened or closed.
ImmediateListsCounted == part = "validation" => OpenImmediateCounted

\* AnswersFinal of VulkanQueue: what is mapped or reported as reached is finished.
WaitsFinal == part = "waits" => Waits!AnswersFinal

\* AllocationsDisjoint of UploadManager: memory in use is given to nobody else.
UploadsDisjoint == part = "uploads" => Uploads!AllocationsDisjoint

\* ExecutedChunksSubmitted of UploadManager: an executed recording leaves no chunk
\* pending, which would be lost.
UploadChunksSubmitted == part = "uploads" => Uploads!ExecutedChunksSubmitted

\* MemoryWithinLimit of UploadManager: "Maximum total memory size used for all AS
\* build scratch buffers owned by this command list." (include/cutie/cutie.h)
ScratchWithinLimit == part = "uploads" => Uploads!MemoryWithinLimit

\* BoundVersionsKept and ExecutedVersionsSubmitted of VolatileBuffers: a version in
\* use is not written, and comes back when its submission is finished.
VolatileVersionsKept ==
    part = "versions" => Versions!BoundVersionsKept /\ Versions!ExecutedVersionsSubmitted

\* SubmittedVersionsFlushed of VolatileBuffers: the GPU sees what was written.
VolatileVersionsFlushed == part = "versions" => Versions!SubmittedVersionsFlushed
=============================================================================
