---------------------------- MODULE VulkanQueue ----------------------------
(***************************************************************************)
(* Command buffers of the Vulkan backend, from CommandList::open() to      *)
(* garbage collection (src/vulkan/vulkan-queue.cpp, the parts of           *)
(* vulkan-commandlist.cpp, vulkan-queries.cpp and vulkan-buffer.cpp that   *)
(* use it).  A queue numbers recordings and submissions, the GPU reports   *)
(* the last finished submission on a timeline semaphore, and a lifetime    *)
(* tracker keeps submitted command buffers, with references to all they    *)
(* use, until then.                                                        *)
(*                                                                         *)
(* Queue::m_Mutex makes getOrCreateCommandBuffer, submit,                  *)
(* Queue::runGarbageCollection and returnCommandBuffersToPool one step     *)
(* each.  What runs without it is cut where another thread can interfere:  *)
(* executeCommandLists between submit() and each executed(), a lifetime    *)
(* tracker's garbage collection, and updateLastFinishedID, which polling,  *)
(* waiting and mapBuffer call too.                                         *)
(***************************************************************************)
EXTENDS Integers, Sequences, FiniteSets

CONSTANTS
    Queues, Threads,
    Resources,      \* everything reference counted, command lists included
    Lists,          \* the command lists, a subset of Resources
    Staging,        \* the buffers with cpuAccess, a subset of Resources
    Events,         \* event queries
    Trackers,       \* lifetime trackers: the device's own and the application's
    DeviceTrackers, \* the ones Queue::runGarbageCollection collects
    QueueOf,        \* [Lists \cup Trackers -> Queues]
    TrackerOf,      \* [Lists -> Trackers]
    Executors,      \* [Lists -> threads that execute it]
    Collectors,     \* [Trackers -> threads that run its garbage collection]
    SharedStaging,  \* whether two queues may use a staging buffer at once
    Calls,          \* the kinds of command the application records, see Record
    None,           \* no command buffer
    MaxRecordings   \* bound: [Queues -> open() calls]

ASSUME VulkanQueueAssumption ==
    /\ Lists \subseteq Resources /\ Staging \subseteq Resources \ Lists
    /\ DeviceTrackers \subseteq Trackers
    /\ Trackers \cap (Staging \cup Events) = {} /\ Staging \cap Events = {}
    /\ QueueOf \in [Lists \cup Trackers -> Queues]
    /\ TrackerOf \in [Lists -> Trackers]
    /\ \A l \in Lists : QueueOf[TrackerOf[l]] = QueueOf[l]
    /\ Executors \in [Lists -> SUBSET Threads]
    /\ Collectors \in [Trackers -> SUBSET Threads]
    /\ SharedStaging \in BOOLEAN /\ Calls \subseteq {"copy", "bind", "clear"}
    /\ MaxRecordings \in [Queues -> Nat \ {0}]

\* Command buffers by queue and the recording they are created for; None is no pair.
CommandBuffers == UNION {{q} \X (1..MaxRecordings[q]) : q \in Queues}

ASSUME NoneAssumption == None \notin Queues \cup CommandBuffers

VARIABLES
    lastRecordingID, lastSubmittedID, lastFinishedID,  \* [Queues -> Nat]
    commandBuffersPool,     \* [Queues -> Seq(CommandBuffers)]
    inFlight,               \* [Trackers -> Seq(CommandBuffers)]
    cmd,                    \* [CommandBuffers -> TrackedCommandBuffer]
    currentCmdBuf,          \* [Lists -> CommandBuffers \cup {None}]
    phase,                  \* [Lists -> {"idle", "open", "closed", "submitted"}]
    openedAs,               \* [Lists -> the recordingID its open() was given]
    accesses,               \* [Lists -> what its recorded commands access]
    call,                   \* [Threads -> the call in progress]
    held,                   \* the resources the application has a handle of
    use,                    \* [Staging \cup Events -> the submission to wait for]
    answered,               \* buffers mapped, events reported as reached
    completed,              \* [Queues -> value of the GPU's timeline semaphore]
    job                     \* [Queues -> Seq of what the submissions execute]

queueVars == <<lastRecordingID, lastSubmittedID, lastFinishedID, commandBuffersPool>>
listVars  == <<currentCmdBuf, phase, openedAs, accesses>>
hostVars  == <<held, use, answered>>
gpuVars   == <<completed, job>>
vars == <<queueVars, inFlight, cmd, listVars, call, hostVars, gpuVars>>

-----------------------------------------------------------------------------
NoBuffer == [recordingID |-> 0, submissionID |-> 0, refs |-> {}, staging |-> {}]
Idle     == [op |-> "none"]
Never    == [queue |-> None, id |-> 0]

Elements(seq) == {seq[i] : i \in DOMAIN seq}

\* A resource is destroyed when its last reference is: the application's, or
\* one held by a command buffer.
Alive == held \cup UNION {cmd[c].refs \cup cmd[c].staging : c \in CommandBuffers}

\* the submissions the GPU has yet to finish
Unfinished(q) == (completed[q] + 1)..Len(job[q])

mapped == answered \cap Staging

\* createCommandBuffer
NewCommandBuffer(q) == <<q, lastRecordingID[q] + 1>>

-----------------------------------------------------------------------------
(* Recording.                                                               *)

\* "prevent deletion of e.g. UploadManager"
OpenedRefs(l) == {l}

\* mutant: the command buffer stays in the pool
RemainingPoolAll(q) == commandBuffersPool[q]

\* pop_front, when there is one
RemainingPool(q) == SubSeq(commandBuffersPool[q], 2, Len(commandBuffersPool[q]))

\* CommandList::open() with getOrCreateCommandBuffer().  A list that is opened
\* again before it was executed drops its command buffer, which is destroyed.
Open(l) ==
    LET q  == QueueOf[l]
        id == lastRecordingID[q] + 1
        c  == IF commandBuffersPool[q] = <<>>
              THEN NewCommandBuffer(q) ELSE Head(commandBuffersPool[q])
    IN  /\ l \in held /\ phase[l] \in {"idle", "closed"}
        /\ id <= MaxRecordings[q]
        /\ lastRecordingID' = [lastRecordingID EXCEPT ![q] = id]
        /\ commandBuffersPool' = [commandBuffersPool EXCEPT ![q] = RemainingPool(q)]
        /\ cmd' = [b \in CommandBuffers |->
                IF b = c THEN [cmd[c] EXCEPT !.recordingID = id, !.refs = @ \cup OpenedRefs(l)]
                ELSE IF b = currentCmdBuf[l] THEN NoBuffer ELSE cmd[b]]
        /\ currentCmdBuf' = [currentCmdBuf EXCEPT ![l] = c]
        /\ phase' = [phase EXCEPT ![l] = "open"]
        /\ openedAs' = [openedAs EXCEPT ![l] = id]
        /\ accesses' = [accesses EXCEPT ![l] = {l}]
        /\ UNCHANGED <<lastSubmittedID, lastFinishedID, inFlight, call, hostVars, gpuVars>>

\* What a command may record the use of, each resource once: it is bounded by
\* the resources there are.
Accesses(l, r) ==
    /\ phase[l] = "open" /\ r \in held \ (Lists \cup accesses[l])
    /\ accesses' = [accesses EXCEPT ![l] = @ \cup {r}]
    /\ UNCHANGED <<queueVars, inFlight, currentCmdBuf, phase, openedAs, call,
                   hostVars, gpuVars>>

\* copies and writes push a staging buffer to referencedStagingBuffers, anything
\* else to referencedResources
Copy(l, r) ==
    /\ "copy" \in Calls /\ Accesses(l, r)
    /\ cmd' = IF r \in Staging
              THEN [cmd EXCEPT ![currentCmdBuf[l]].staging = @ \cup {r}]
              ELSE [cmd EXCEPT ![currentCmdBuf[l]].refs = @ \cup {r}]

\* the state a draw or dispatch is given: pipelines, bindings, framebuffer and
\* buffers, pushed to referencedResources whatever their cpuAccess
Bind(l, r) ==
    /\ "bind" \in Calls /\ Accesses(l, r)
    /\ cmd' = [cmd EXCEPT ![currentCmdBuf[l]].refs = @ \cup {r}]

\* clearTexture, clearDepthStencilTexture and resolveTexture push nothing
Clear(l, r) ==
    /\ "clear" \in Calls /\ Accesses(l, r) /\ r \notin Staging
    /\ UNCHANGED cmd

Close(l) ==
    /\ phase[l] = "open"
    /\ phase' = [phase EXCEPT ![l] = "closed"]
    /\ UNCHANGED <<queueVars, inFlight, cmd, currentCmdBuf, openedAs, accesses, call,
                   hostVars, gpuVars>>

-----------------------------------------------------------------------------
(* Device::executeCommandLists.                                             *)

\* the lists of one call, in order
Batches == {<<l>> : l \in Lists} \cup {ls \in Lists \X Lists : ls[1] # ls[2]}

\* the application executes closed lists it has handles of, on the queue they
\* are for, and leaves alone what it has mapped or is about to map and, unless
\* SharedStaging, the staging buffers another queue still uses
MayExecute(t, ls, q, used) ==
    /\ call[t] = Idle
    /\ \A l \in Elements(ls) : /\ phase[l] = "closed" /\ l \in held
                               /\ t \in Executors[l] /\ QueueOf[l] = q
    /\ used \cap mapped = {}
    /\ \A u \in Threads : call[u].op \in {"update", "wait"} => call[u].for \notin used
    /\ SharedStaging \/ \A b \in used \cap Staging :
         use[b].queue \notin {None, q} => use[b].id <= completed[use[b].queue]

\* mutant: the buffer is remembered under the submission before this one
LastUsePrevious(q, id) == [queue |-> q, id |-> id - 1]

\* lastUseQueue and lastUseCommandListID
LastUse(q, id) == [queue |-> q, id |-> id]

\* the list's command buffer goes to its tracker
Push(flight, l) == [flight EXCEPT ![TrackerOf[l]] = Append(@, currentCmdBuf[l])]

\* ... for the lists of a batch in turn
PushAll(ls) ==
    IF Len(ls) = 1 THEN Push(inFlight, ls[1]) ELSE Push(Push(inFlight, ls[1]), ls[2])

\* Queue::submit
Submit(t, ls) ==
    LET q    == QueueOf[ls[1]]
        id   == lastSubmittedID[q] + 1
        cmds == {currentCmdBuf[l] : l \in Elements(ls)}
        used == UNION {accesses[l] : l \in Elements(ls)}
    IN  /\ MayExecute(t, ls, q, used)
        /\ lastSubmittedID' = [lastSubmittedID EXCEPT ![q] = id]
        /\ cmd' = [c \in CommandBuffers |->
                IF c \in cmds THEN [cmd[c] EXCEPT !.submissionID = id] ELSE cmd[c]]
        /\ inFlight' = PushAll(ls)
        /\ use' = [x \in DOMAIN use |-> 
                IF \E c \in cmds : x \in cmd[c].staging
                THEN LastUse(q, id) ELSE use[x]]
        /\ job' = [job EXCEPT ![q] = Append(@, [used |-> used, cmds |-> cmds])]
        /\ phase' = [l \in Lists |-> IF l \in Elements(ls) THEN "submitted" ELSE phase[l]]
        /\ call' = [call EXCEPT ![t] = [op |-> "execute", todo |-> ls, id |-> id]]
        /\ UNCHANGED <<lastRecordingID, lastFinishedID, commandBuffersPool,
                       currentCmdBuf, openedAs, accesses, held, answered, completed>>

\* mutant: m_CurrentCmdBuf is not reset
DetachedNot(l) == currentCmdBuf

Detached(l) == [currentCmdBuf EXCEPT ![l] = None]

\* CommandList::executed, for the next list of the call
Executed(t) ==
    /\ call[t].op = "execute"
    /\ LET todo == call[t].todo
           l    == Head(todo)
       IN  /\ currentCmdBuf' = Detached(l)
           /\ phase' = [phase EXCEPT ![l] = "idle"]
           /\ call' = [call EXCEPT ![t] = IF Len(todo) = 1 THEN Idle
                                          ELSE [call[t] EXCEPT !.todo = Tail(todo)]]
    /\ UNCHANGED <<queueVars, inFlight, cmd, openedAs, accesses, hostVars, gpuVars>>

\* the GPU finishes the submissions of a queue in order
Complete(q) ==
    /\ completed[q] < Len(job[q])
    /\ completed' = [completed EXCEPT ![q] = @ + 1]
    /\ UNCHANGED <<queueVars, inFlight, cmd, listVars, call, hostVars, job>>

-----------------------------------------------------------------------------
(* updateLastFinishedID reads the semaphore, stores the value in            *)
(* m_LastFinishedID and returns that member.  Threads without the lock do   *)
(* the same, so it may return what another one is about to store.           *)

ReadCounter(t, q, x) == call' = [call EXCEPT ![t] =
    [op |-> "update", queue |-> q, value |-> completed[q], for |-> x]]

BeingStored(t, q) == {call[u].value :
    u \in {v \in Threads \ {t} : call[v].op = "update" /\ call[v].queue = q}}

StoreFinished(q, finished) == lastFinishedID' = [lastFinishedID EXCEPT ![q] = finished]

-----------------------------------------------------------------------------
(* Garbage collection.                                                      *)

\* the first n command buffers of the tracker are finished, the next one is not
FinishedPrefix(tr, finished, n) ==
    /\ \A i \in 1..n : cmd[inFlight[tr][i]].submissionID <= finished
    /\ n < Len(inFlight[tr]) => cmd[inFlight[tr][n + 1]].submissionID > finished

\* mutant: the references survive the return to the pool
ReleasedKeepsRefs(c) == [cmd[c] EXCEPT !.submissionID = 0]

\* referencedResources and referencedStagingBuffers are cleared
Released(c) == [cmd[c] EXCEPT !.submissionID = 0, !.refs = {}, !.staging = {}]

Collectable(tr, n) == SubSeq(inFlight[tr], 1, n)

\* CommandListLifetimeTracker::runGarbageCollection up to the erase
Collect(tr, n) ==
    /\ cmd' = [c \in CommandBuffers |->
            IF c \in Elements(Collectable(tr, n)) THEN Released(c) ELSE cmd[c]]
    /\ inFlight' = [inFlight EXCEPT ![tr] = SubSeq(@, n + 1, Len(@))]

\* Queue::runGarbageCollection, which holds the lock throughout
DeviceCollect(t, tr) ==
    /\ call[t] = Idle /\ tr \in DeviceTrackers /\ t \in Collectors[tr]
    /\ \E finished \in {completed[QueueOf[tr]]} \cup BeingStored(t, QueueOf[tr]),
          n \in 0..Len(inFlight[tr]) :
        /\ StoreFinished(QueueOf[tr], finished)
        /\ FinishedPrefix(tr, finished, n) /\ Collect(tr, n)
        /\ commandBuffersPool' = [commandBuffersPool EXCEPT
                ![QueueOf[tr]] = @ \o Collectable(tr, n)]
    /\ UNCHANGED <<lastRecordingID, lastSubmittedID, listVars, call, hostVars, gpuVars>>

\* An application's tracker is collected without the lock, but for the return of
\* the command buffers to the pool.
TrackerCollect(t, tr) ==
    /\ call[t] = Idle /\ tr \in Trackers \ DeviceTrackers /\ t \in Collectors[tr]
    /\ ReadCounter(t, QueueOf[tr], tr)
    /\ UNCHANGED <<queueVars, inFlight, cmd, listVars, hostVars, gpuVars>>

TrackerRelease(t) ==
    /\ call[t].op = "update" /\ call[t].for \in Trackers
    /\ LET tr == call[t].for
       IN  \E finished \in {call[t].value} \cup BeingStored(t, call[t].queue),
             n \in 0..Len(inFlight[tr]) :
             /\ StoreFinished(call[t].queue, finished)
             /\ FinishedPrefix(tr, finished, n) /\ Collect(tr, n)
             /\ call' = [call EXCEPT ![t] =
                    IF n = 0 THEN Idle
                    ELSE [op |-> "return", queue |-> QueueOf[tr],
                          released |-> Collectable(tr, n)]]
    /\ UNCHANGED <<lastRecordingID, lastSubmittedID, commandBuffersPool, listVars,
                   hostVars, gpuVars>>

ReturnCommandBuffersToPool(t) ==
    /\ call[t].op = "return"
    /\ commandBuffersPool' = [commandBuffersPool EXCEPT
            ![call[t].queue] = @ \o call[t].released]
    /\ call' = [call EXCEPT ![t] = Idle]
    /\ UNCHANGED <<lastRecordingID, lastSubmittedID, lastFinishedID, inFlight, cmd,
                   listVars, hostVars, gpuVars>>

-----------------------------------------------------------------------------
(* Waiting for the GPU: mapBuffer for the last submission that used a       *)
(* staging buffer, pollEventQuery and waitEventQuery for the last one       *)
(* before setEventQuery.                                                    *)

Reached(x, finished) == finished >= use[x].id

SetEventQuery(e, q) ==
    /\ use[e].id = 0
    /\ use' = [use EXCEPT ![e] = [queue |-> q, id |-> lastSubmittedID[q]]]
    /\ UNCHANGED <<queueVars, inFlight, cmd, listVars, call, held, answered, gpuVars>>

ResetEventQuery(e) ==
    /\ use[e] # Never
    /\ \A t \in Threads : call[t].op \in {"update", "wait"} => call[t].for # e
    /\ use' = [use EXCEPT ![e] = Never]
    /\ answered' = answered \ {e}
    /\ UNCHANGED <<queueVars, inFlight, cmd, listVars, call, held, gpuVars>>

\* the call returns: the buffer is mapped, the event reported as reached
Answer(x) == answered' = answered \cup {x}

\* pollCommandList: m_LastFinishedID may be enough, else the semaphore is read
Ask(t, x) ==
    /\ call[t] = Idle /\ x \notin answered
    /\ x \in Staging => x \in held
    /\ x \in Events => use[x].id # 0
    /\ LET q == use[x].queue
       IN  IF use[x].id = 0 \/ Reached(x, lastFinishedID[q])
           THEN Answer(x) /\ UNCHANGED call
           ELSE ReadCounter(t, q, x) /\ UNCHANGED answered
    /\ UNCHANGED <<queueVars, inFlight, cmd, listVars, held, use, gpuVars>>

\* a poll gives up where a wait, which mapBuffer is, goes on to waitSemaphores
Updated(t) ==
    /\ call[t].op = "update" /\ call[t].for \notin Trackers
    /\ LET x == call[t].for
       IN  \E finished \in {call[t].value} \cup BeingStored(t, call[t].queue) :
             /\ StoreFinished(call[t].queue, finished)
             /\ IF Reached(x, finished)
                THEN Answer(x) /\ call' = [call EXCEPT ![t] = Idle]
                ELSE /\ UNCHANGED answered
                     /\ \/ call' = [call EXCEPT ![t] = [op |-> "wait", for |-> x]]
                        \/ x \in Events /\ call' = [call EXCEPT ![t] = Idle]
    /\ UNCHANGED <<lastRecordingID, lastSubmittedID, commandBuffersPool, inFlight, cmd,
                   listVars, held, use, gpuVars>>

WaitedSemaphores(t) ==
    /\ call[t].op = "wait"
    /\ Reached(call[t].for, completed[use[call[t].for].queue])
    /\ Answer(call[t].for)
    /\ call' = [call EXCEPT ![t] = Idle]
    /\ UNCHANGED <<queueVars, inFlight, cmd, listVars, held, use, gpuVars>>

UnmapBuffer(b) ==
    /\ b \in mapped
    /\ answered' = answered \ {b}
    /\ UNCHANGED <<queueVars, inFlight, cmd, listVars, call, held, use, gpuVars>>

\* what a call in progress was given
Arguments(t) == IF call[t].op = "execute" THEN Elements(call[t].todo)
                ELSE IF call[t].op \in {"update", "wait"} THEN {call[t].for} ELSE {}

\* the application drops its last handle of a resource
ReleaseHandle(r) ==
    /\ r \in held \ mapped
    /\ \A t \in Threads : r \notin Arguments(t)
    /\ held' = held \ {r}
    /\ UNCHANGED <<queueVars, inFlight, cmd, listVars, call, use, answered, gpuVars>>

-----------------------------------------------------------------------------
Init ==
    /\ lastRecordingID = [q \in Queues |-> 0]
    /\ lastSubmittedID = [q \in Queues |-> 0]
    /\ lastFinishedID = [q \in Queues |-> 0]
    /\ commandBuffersPool = [q \in Queues |-> <<>>]
    /\ inFlight = [tr \in Trackers |-> <<>>]
    /\ cmd = [c \in CommandBuffers |-> NoBuffer]
    /\ currentCmdBuf = [l \in Lists |-> None]
    /\ phase = [l \in Lists |-> "idle"]
    /\ openedAs = [l \in Lists |-> 0]
    /\ accesses = [l \in Lists |-> {}]
    /\ call = [t \in Threads |-> Idle]
    /\ held = Resources
    /\ use = [x \in Staging \cup Events |-> Never]
    /\ answered = {}
    /\ completed = [q \in Queues |-> 0]
    /\ job = [q \in Queues |-> <<>>]

Record(l) == \/ Open(l) \/ Close(l)
             \/ \E r \in Resources : Copy(l, r) \/ Bind(l, r) \/ Clear(l, r)

\* a thread goes on with the call it is in
Continue(t) == \/ Executed(t) \/ TrackerRelease(t) \/ ReturnCommandBuffersToPool(t)
               \/ Updated(t) \/ WaitedSemaphores(t)

RunGarbageCollection(tr) == \E t \in Threads : DeviceCollect(t, tr) \/ TrackerCollect(t, tr)

Next ==
    \/ \E l \in Lists : Record(l)
    \/ \E t \in Threads : Continue(t) \/ (\E ls \in Batches : Submit(t, ls))
                                     \/ (\E x \in Staging \cup Events : Ask(t, x))
    \/ \E tr \in Trackers : RunGarbageCollection(tr)
    \/ \E q \in Queues : Complete(q) \/ (\E e \in Events : SetEventQuery(e, q))
    \/ \E e \in Events : ResetEventQuery(e)
    \/ \E b \in Staging : UnmapBuffer(b)
    \/ \E r \in Resources : ReleaseHandle(r)

Spec == Init /\ [][Next]_vars

\* The GPU makes progress, a call once begun goes on, and every tracker's garbage
\* is collected over and over ("at least once per frame").
Fairness ==
    /\ \A q \in Queues : WF_vars(Complete(q))
    /\ \A t \in Threads : WF_vars(Continue(t))
    /\ \A tr \in Trackers : SF_vars(RunGarbageCollection(tr))

FairSpec == Spec /\ Fairness

-----------------------------------------------------------------------------
(* Properties.                                                              *)

TypeOK ==
    /\ \A q \in Queues : lastRecordingID[q] \in 0..MaxRecordings[q]
    /\ lastSubmittedID \in [Queues -> Nat] /\ lastFinishedID \in [Queues -> Nat]
    /\ commandBuffersPool \in [Queues -> Seq(CommandBuffers)]
    /\ inFlight \in [Trackers -> Seq(CommandBuffers)]
    /\ cmd \in [CommandBuffers ->
                [recordingID : Nat, submissionID : Nat,
                 refs : SUBSET Resources, staging : SUBSET Staging]]
    /\ currentCmdBuf \in [Lists -> CommandBuffers \cup {None}]
    /\ phase \in [Lists -> {"idle", "open", "closed", "submitted"}]
    /\ \A l \in Lists : currentCmdBuf[l] = None <=> phase[l] = "idle"
    /\ openedAs \in [Lists -> Nat] /\ accesses \in [Lists -> SUBSET Resources]
    /\ \A t \in Threads : call[t].op \in {"none", "execute", "update", "wait", "return"}
    /\ held \subseteq Resources
    /\ use \in [Staging \cup Events -> [queue : Queues \cup {None}, id : Nat]]
    /\ answered \subseteq Staging \cup Events
    /\ completed \in [Queues -> Nat]
    /\ job \in [Queues -> Seq([used : SUBSET Resources, cmds : SUBSET CommandBuffers])]

\* Nothing the GPU may still access, and nothing a list has recorded the use of,
\* has been destroyed.
NothingDestroyedInUse ==
    /\ \A q \in Queues : \A i \in Unfinished(q) : job[q][i].used \subseteq Alive
    /\ \A l \in Lists : phase[l] # "idle" => accesses[l] \subseteq Alive

\* A command buffer the GPU has not finished is neither in the pool nor being
\* recorded, and no two lists record into the same one.
CommandBuffersExclusive ==
    /\ \A q \in Queues : \A i \in Unfinished(q) : \A c \in job[q][i].cmds :
        /\ \A p \in Queues : c \notin Elements(commandBuffersPool[p])
        /\ \A l \in Lists : phase[l] \in {"open", "closed"} => currentCmdBuf[l] # c
    /\ \A l \in Lists, k \in Lists :
        l # k /\ currentCmdBuf[l] # None => currentCmdBuf[l] # currentCmdBuf[k]

\* executed() finds in the list's command buffer the submission it is told of
\* (its assertion) and the recording the list was opened as, by which volatile
\* buffers and upload chunks are found.
ExecutedFindsSubmission == \A t \in Threads : call[t].op = "execute" =>
    \A l \in Elements(call[t].todo) :
        /\ cmd[currentCmdBuf[l]].submissionID = call[t].id
        /\ cmd[currentCmdBuf[l]].recordingID = openedAs[l]

\* A mapped buffer is not accessed by the GPU.
MappedBuffersIdle == \A q \in Queues : \A i \in Unfinished(q) :
    job[q][i].used \cap mapped = {}

\* An event is reported only when all that was submitted before setEventQuery is
\* finished, though m_LastFinishedID is written without the lock and may go back.
EventsNotEarly == \A e \in answered \cap Events : completed[use[e].queue] >= use[e].id

\* What mapBuffer, a poll or a wait has returned stays true: the GPU is done with
\* mapped buffers and with all that was submitted before a reported event.
AnswersFinal == MappedBuffersIdle /\ EventsNotEarly

\* What ResourceLifetime promises; QueuesMC shows that the queue implements it.
Recording == [l \in Lists |-> IF phase[l] \in {"open", "closed"} THEN accesses[l] ELSE {}]
Executing == [q \in Queues |->
    [i \in 1..(Len(job[q]) - completed[q]) |-> job[q][completed[q] + i].used]]

Lifetime == INSTANCE ResourceLifetime WITH
    recording <- Recording, executing <- Executing, alive <- Alive

\* Whatever the application, the recordings and the GPU are done with is destroyed:
\* garbage collection forgets no command buffer and no reference.
GarbageCollected == Lifetime!Reclaimed
============================================================================
