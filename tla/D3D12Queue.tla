----------------------------- MODULE D3D12Queue -----------------------------
(***************************************************************************)
(* Command lists of the D3D12 backend from open() to garbage collection    *)
(* (d3d12-commandlist.cpp, d3d12-device.cpp, d3d12-queries.cpp and the     *)
(* maps of buffers and staging textures).  A list has a pool of internal   *)
(* lists with their allocators; a queue signals its fence after each       *)
(* submission; a lifetime tracker keeps what the lists reference until     *)
(* then; and whoever waits does so for one event of the device.            *)
(*                                                                         *)
(* The backend has no lock, so executeCommandLists and waits are cut where *)
(* another thread can interfere.                                           *)
(***************************************************************************)
EXTENDS Naturals, Sequences, FiniteSets, SequencesExt

CONSTANTS
    Queues, Threads,
    Resources,      \* everything reference counted, command lists included
    Lists, Staging, Timers, Events, \* subsets of Resources
    Worlds,         \* sets of the resources that exist
    Trackers, QueueOf,          \* lifetime trackers; [Lists \cup Trackers -> Queues]
    TrackerOf,      \* [Lists -> Trackers]
    ThreadOf,       \* [Lists \cup Trackers -> Threads]: who executes or collects it
    Waiters,        \* threads that map and poll
    None,
    MaxOpens,       \* bound: [Queues -> open() calls]
    Avoided         \* what applications avoid

ASSUME D3D12QueueAssumption ==
    /\ Lists \subseteq Resources /\ Staging \subseteq Resources
    /\ Timers \subseteq Resources /\ Events \subseteq Resources
    /\ Lists \cap (Staging \cup Timers \cup Events) = {}
    /\ Events \cap (Staging \cup Timers) = {}
    /\ \A world \in Worlds : world \subseteq Resources
    /\ QueueOf \in [Lists \cup Trackers -> Queues] /\ TrackerOf \in [Lists -> Trackers]
    /\ \A l \in Lists : QueueOf[TrackerOf[l]] = QueueOf[l]
    /\ ThreadOf \in [Lists \cup Trackers -> Threads]
    /\ MaxOpens \in [Queues -> Nat]
    /\ None \notin Queues /\ None \notin Lists \X Nat

VARIABLES
    lastSubmittedInstance, lastCompletedInstance, recordingInstance,    \* of each queue
    pool,           \* list -> m_CommandListPool
    active,         \* list -> m_ActiveCommandList
    submittedAs,    \* internal list -> its lastSubmittedInstance
    phase,          \* list -> "idle", "open", "closed", "submitted"
    refs,           \* list -> what its m_Instance references
    inFlight,       \* tracker -> m_CommandListsInFlight, oldest first: [instance, refs]
    call,           \* thread -> the call it is in
    held,           \* resources the application has handles of
    use,            \* staging resource or query -> the queue and fence value to wait for
    answered,       \* what is mapped, or reported or read as finished
    fenceEvent,     \* m_FenceEvent: [set, on]
    gpu,            \* queue -> operations it has not executed
    fence,          \* queue -> value of its fence
    before,         \* event -> submissions that were over when it was set
    submittedOps, executedOps   \* queue -> submissions given to the GPU, and executed by it

queueVars == <<lastSubmittedInstance, lastCompletedInstance, recordingInstance>>
listVars == <<pool, active, submittedAs, phase, refs>>
hostVars == <<held, use, answered>>
gpuVars == <<gpu, fence, submittedOps, executedOps>>
vars == <<queueVars, listVars, inFlight, call, hostVars, fenceEvent, gpuVars, before>>

(* Avoided: executing lists on one queue in two threads at once
   (SubmitsConcurrently), waiting in two threads at once (WaitsConcurrently),
   giving up a list whose commands are recorded or executing (ReleasesLists), and
   one staging resource or query on two queues at once (SharesQueues). *)
Avoids(name, bad) == name \in Avoided => ~bad

InternalLists == UNION {{l} \X (1..MaxOpens[QueueOf[l]]) : l \in Lists}
Idle == [op |-> "none"]
Never == [queue |-> None, value |-> 0]
Waitable == Staging \cup Timers \cup Events

IsSubmission(op) == op.kind = "lists"
Pending(q) == {op \in ToSet(gpu[q]) : IsSubmission(op)}
Busy(t, ops) == call[t].op \in ops

Alive ==
    held \cup (UNION {refs[l] : l \in Lists})
         \cup (UNION {UNION {i.refs : i \in ToSet(inFlight[tr])} : tr \in Trackers})

Init ==
    /\ lastSubmittedInstance = [q \in Queues |-> 0]
    /\ lastCompletedInstance = [q \in Queues |-> 0]
    /\ recordingInstance = [q \in Queues |-> 1]
    /\ pool = [l \in Lists |-> <<>>] /\ active = [l \in Lists |-> None]
    /\ submittedAs = [c \in InternalLists |-> 0]
    /\ phase = [l \in Lists |-> "idle"] /\ refs = [l \in Lists |-> {}]
    /\ inFlight = [tr \in Trackers |-> <<>>]
    /\ call = [t \in Threads |-> Idle]
    /\ held \in Worlds /\ answered = {}
    /\ use = [x \in Waitable |-> Never]
    /\ fenceEvent = [set |-> FALSE, on |-> {}]
    /\ gpu = [q \in Queues |-> <<>>]
    /\ fence = [q \in Queues |-> 0]
    /\ submittedOps = [q \in Queues |-> 0] /\ executedOps = [q \in Queues |-> 0]
    /\ before = [e \in Events |-> {}]

-----------------------------------------------------------------------------
(* Recording.                                                               *)

\* updateLastCompletedInstance
Completed(q) == IF lastCompletedInstance[q] < lastSubmittedInstance[q] THEN fence[q] ELSE lastCompletedInstance[q]

\* The oldest internal list of the pool, when the GPU has finished it.
ReusableAlways(l) == pool[l] # <<>>                         \* a mutant
Reusable(l) == pool[l] # <<>> /\ submittedAs[Head(pool[l])] <= Completed(QueueOf[l])

\* createInternalCommandList
FreshNumber(l) == CHOOSE n \in 1..MaxOpens[QueueOf[l]] :
    <<l, n>> \notin ToSet(pool[l]) /\ \A q \in Queues : \A op \in Pending(q) : <<l, n>> \notin op.cmds

\* A list may be opened again without having been executed.
Open(l) ==
    LET q == QueueOf[l]
        reused == Reusable(l)
    IN  /\ l \in held /\ phase[l] \in {"idle", "closed"}
        /\ recordingInstance[q] <= MaxOpens[q]
        /\ active' = [active EXCEPT ![l] = IF reused THEN Head(pool[l]) ELSE <<l, FreshNumber(l)>>]
        /\ pool' = IF reused THEN [pool EXCEPT ![l] = Tail(@)] ELSE pool
        /\ lastCompletedInstance' = [lastCompletedInstance EXCEPT ![q] = Completed(q)]
        /\ recordingInstance' = [recordingInstance EXCEPT ![q] = @ + 1]
        /\ refs' = [refs EXCEPT ![l] = {}]
        /\ phase' = [phase EXCEPT ![l] = "open"]
    /\ UNCHANGED <<lastSubmittedInstance, submittedAs, inFlight, call, hostVars, fenceEvent, gpuVars, before>>

\* What a list uses.  The instance references what commands name, and not the
\* list itself, which owns the scratch memory and instance data of its builds.
UsedBy(l) == {l} \cup refs[l]

\* Copies, writes, bindings and timer queries.
Record(l, r) ==
    /\ phase[l] = "open" /\ r \in held \ (Lists \cup Events \cup refs[l])
    /\ refs' = [refs EXCEPT ![l] = @ \cup {r}]
    /\ UNCHANGED <<queueVars, pool, active, submittedAs, phase, inFlight, call, hostVars, fenceEvent, gpuVars, before>>

Close(l) ==
    /\ phase[l] = "open"
    /\ phase' = [phase EXCEPT ![l] = "closed"]
    /\ UNCHANGED <<queueVars, pool, active, submittedAs, refs, inFlight, call, hostVars, fenceEvent, gpuVars, before>>

-----------------------------------------------------------------------------
(* executeCommandLists: the lists go to the queue, a number is taken, the   *)
(* fence is signalled, and each list is told.                               *)

\* What other queues have yet to execute, or threads yet to report as executed.
UsedElsewhere(q) ==
    (UNION {UNION {op.used : op \in Pending(p)} : p \in Queues \ {q}})
    \cup (UNION {refs[l] : l \in {k \in Lists : phase[k] = "submitted" /\ QueueOf[k] # q}})

Batches == {<<l>> : l \in Lists} \cup {ls \in Lists \X Lists : ls[1] # ls[2]}

ExecuteCommandLists(t, ls) ==
    LET q == QueueOf[ls[1]]
        all == ToSet(ls)
        used == UNION {UsedBy(l) : l \in all}
        index == submittedOps[q] + 1
    IN  /\ call[t] = Idle
        /\ \A l \in all : phase[l] = "closed" /\ l \in held /\ ThreadOf[l] = t /\ QueueOf[l] = q
        /\ used \cap answered \cap Staging = {}
        /\ \A u \in Threads : Busy(u, {"wait"}) => call[u].for \notin used
        /\ Avoids("SubmitsConcurrently", \E u \in Threads : Busy(u, {"count", "signal"}) /\ call[u].queue = q)
        /\ Avoids("SharesQueues", used \cap Waitable \cap UsedElsewhere(q) # {})
        /\ gpu' = [gpu EXCEPT ![q] = Append(@,
                [kind |-> "lists", index |-> index, used |-> used, cmds |-> {active[l] : l \in all}])]
        /\ submittedOps' = [submittedOps EXCEPT ![q] = index]
        /\ phase' = [l \in Lists |-> IF l \in all THEN "submitted" ELSE phase[l]]
        /\ answered' = answered \ (used \cap Timers)
        /\ call' = [call EXCEPT ![t] =
                [op |-> "count", queue |-> q, todo |-> ls, index |-> index]]
    /\ UNCHANGED <<queueVars, pool, active, submittedAs, refs, inFlight, held, use, fenceEvent, fence, executedOps, before>>

\* ++lastSubmittedInstance
Count(t) ==
    /\ Busy(t, {"count"})
    /\ LET q == call[t].queue IN
        /\ lastSubmittedInstance' = [lastSubmittedInstance EXCEPT ![q] = @ + 1]
        /\ call' = [call EXCEPT ![t] =
                [op |-> "signal", queue |-> q, todo |-> @.todo, index |-> @.index, value |-> lastSubmittedInstance[q] + 1]]
    /\ UNCHANGED <<lastCompletedInstance, recordingInstance, listVars, inFlight, hostVars, fenceEvent, gpuVars, before>>

\* The value is read again before it is signalled.
Signal(t) ==
    /\ Busy(t, {"signal"})
    /\ LET q == call[t].queue IN
       \E value \in {call[t].value, lastSubmittedInstance[q]} :
            gpu' = [gpu EXCEPT ![q] = Append(@, [kind |-> "signal", value |-> value])]
    /\ call' = [call EXCEPT ![t].op = "executed"]
    /\ UNCHANGED <<queueVars, listVars, inFlight, hostVars, fenceEvent, fence, submittedOps, executedOps, before>>

LastUsePrevious(q) == [queue |-> q, value |-> lastSubmittedInstance[q] - 1]     \* a mutant
LastUse(q) == [queue |-> q, value |-> lastSubmittedInstance[q]]

\* CommandList::executed, for the next list of the call
Executed(t) ==
    /\ Busy(t, {"executed"})
    /\ LET q == call[t].queue
           l == Head(call[t].todo)
           instance == lastSubmittedInstance[q]
       IN  /\ submittedAs' = [submittedAs EXCEPT ![active[l]] = instance]
           /\ pool' = [pool EXCEPT ![l] = Append(@, active[l])]
           /\ active' = [active EXCEPT ![l] = None]
           /\ phase' = [phase EXCEPT ![l] = "idle"]
           /\ refs' = [refs EXCEPT ![l] = {}]
           /\ inFlight' = [inFlight EXCEPT ![TrackerOf[l]] = Append(@, [instance |-> instance, refs |-> refs[l]])]
           /\ use' = [x \in Waitable |-> IF x \in refs[l] THEN LastUse(q) ELSE use[x]]
    /\ call' = [call EXCEPT ![t] =
            IF Len(call[t].todo) = 1 THEN Idle ELSE [call[t] EXCEPT !.todo = Tail(call[t].todo)]]
    /\ UNCHANGED <<queueVars, held, answered, fenceEvent, gpuVars, before>>

\* queueWaitForCommandList
QueueWaitForCommandList(q, p) ==
    /\ q # p /\ lastSubmittedInstance[p] > 0
    /\ \A op \in ToSet(gpu[q]) : op.kind # "wait"
    /\ gpu' = [gpu EXCEPT ![q] = Append(@, [kind |-> "wait", queue |-> p, value |-> lastSubmittedInstance[p]])]
    /\ UNCHANGED <<queueVars, listVars, inFlight, call, hostVars, fenceEvent, fence, submittedOps, executedOps, before>>

-----------------------------------------------------------------------------
(* Garbage collection.                                                      *)

FirstUnfinishedEarly(tr, completed) == SelectInSeq(inFlight[tr], LAMBDA i : i.instance > completed + 1)    \* a mutant
FirstUnfinished(tr, completed) == SelectInSeq(inFlight[tr], LAMBDA i : i.instance > completed)

\* runGarbageCollection of a tracker
RunGarbageCollection(tr) ==
    LET q == QueueOf[tr]
        unfinished == FirstUnfinished(tr, Completed(q))
    IN  /\ call[ThreadOf[tr]] = Idle
        /\ inFlight[tr] # <<>>
        /\ lastCompletedInstance' = [lastCompletedInstance EXCEPT ![q] = Completed(q)]
        /\ inFlight' = [inFlight EXCEPT ![tr] = IF unfinished = 0 THEN <<>> ELSE SubSeq(@, unfinished, Len(@))]
        /\ UNCHANGED <<lastSubmittedInstance, recordingInstance, listVars, call, hostVars, fenceEvent, gpuVars, before>>

-----------------------------------------------------------------------------
(* Waiting: mapBuffer, mapStagingTexture, waitEventQuery, getTimerQueryTime *)
(* and the polls.                                                           *)

Reached(x) == use[x] # Never => fence[use[x].queue] >= use[x].value

SetEventQuery(e, q) ==
    /\ e \in held /\ use[e] = Never
    /\ use' = [use EXCEPT ![e] = LastUse(q)]
    /\ before' = [before EXCEPT ![e] = (1..submittedOps[q])
            \ {call[t].index : t \in {u \in Threads : Busy(u, {"count", "signal", "executed"}) /\ call[u].queue = q}}]
    /\ UNCHANGED <<queueVars, listVars, inFlight, call, held, answered, fenceEvent, gpuVars>>

ResetEventQuery(e) ==
    /\ e \in held /\ use[e] # Never /\ \A t \in Threads : Busy(t, {"wait"}) => call[t].for # e
    /\ use' = [use EXCEPT ![e] = Never]
    /\ answered' = answered \ {e}
    /\ UNCHANGED <<queueVars, listVars, inFlight, call, held, fenceEvent, gpuVars, before>>

\* Queries are started by setEventQuery or executed(); a map needs no start.
Asks(t, x) ==
    /\ call[t] = Idle /\ t \in Waiters /\ x \in held \ answered
    /\ x \in Staging \/ use[x] # Never
    /\ \A l \in Lists : phase[l] = "submitted" => x \notin refs[l]

\* The call returns: the resource is mapped, the query reported or read.
Answer(t, x) ==
    /\ Asks(t, x) /\ Reached(x)
    /\ answered' = answered \cup {x}
    /\ UNCHANGED <<queueVars, listVars, inFlight, call, held, use, fenceEvent, gpuVars, before>>

\* WaitForFence: the event is reset and set when the fence gets there.
WaitForFence(t, x) ==
    /\ Asks(t, x) /\ ~Reached(x)
    /\ Avoids("WaitsConcurrently", \E u \in Threads : Busy(u, {"wait"}))
    /\ fenceEvent' = [set |-> FALSE, on |-> fenceEvent.on \cup {use[x]}]
    /\ call' = [call EXCEPT ![t] = [op |-> "wait", for |-> x]]
    /\ UNCHANGED <<queueVars, listVars, inFlight, hostVars, gpuVars, before>>

\* WaitForSingleObject returns and resets the event.
Woken(t) ==
    /\ Busy(t, {"wait"}) /\ fenceEvent.set
    /\ fenceEvent' = [fenceEvent EXCEPT !.set = FALSE]
    /\ answered' = answered \cup {call[t].for}
    /\ call' = [call EXCEPT ![t] = Idle]
    /\ UNCHANGED <<queueVars, listVars, inFlight, held, use, gpuVars, before>>

Unmap(b) ==
    /\ b \in answered \cap Staging
    /\ answered' = answered \ {b}
    /\ UNCHANGED <<queueVars, listVars, inFlight, call, held, use, fenceEvent, gpuVars, before>>

Arguments(t) ==
    IF Busy(t, {"count", "signal", "executed"}) THEN ToSet(call[t].todo)
    ELSE IF Busy(t, {"wait"}) THEN {call[t].for} ELSE {}

ReleaseHandle(r) ==
    /\ r \in held \ (answered \cap Staging)
    /\ \A t \in Threads : r \notin Arguments(t)
    /\ Avoids("ReleasesLists", r \in Lists /\ (phase[r] # "idle" \/ \E q \in Queues : \E op \in Pending(q) : r \in op.used))
    /\ held' = held \ {r}
    /\ UNCHANGED <<queueVars, listVars, inFlight, call, use, answered, fenceEvent, gpuVars, before>>

-----------------------------------------------------------------------------
(* The GPU.  A fence takes the value signalled, whatever it was.            *)

Reaches(on, values) == {w \in on : values[w.queue] >= w.value}

ExecuteOperation(q) ==
    LET op == Head(gpu[q]) IN
    /\ gpu[q] # <<>>
    /\ op.kind = "wait" => fence[op.queue] >= op.value
    /\ gpu' = [gpu EXCEPT ![q] = Tail(@)]
    /\ fence' = IF op.kind = "signal" THEN [fence EXCEPT ![q] = op.value] ELSE fence
    /\ fenceEvent' = [set |-> fenceEvent.set \/ Reaches(fenceEvent.on, fence') # {},
                      on |-> fenceEvent.on \ Reaches(fenceEvent.on, fence')]
    /\ executedOps' = IF IsSubmission(op) THEN [executedOps EXCEPT ![q] = @ + 1] ELSE executedOps
    /\ UNCHANGED <<queueVars, listVars, inFlight, call, hostVars, submittedOps, before>>

Continue(t) == Count(t) \/ Signal(t) \/ Executed(t) \/ Woken(t)

Next ==
    \/ \E l \in Lists : Open(l) \/ Close(l) \/ \E r \in Resources : Record(l, r)
    \/ \E t \in Threads :
         \/ Continue(t)
         \/ \E ls \in Batches : ExecuteCommandLists(t, ls)
         \/ \E x \in Waitable : Answer(t, x) \/ WaitForFence(t, x)
    \/ \E tr \in Trackers : RunGarbageCollection(tr)
    \/ \E q \in Queues :
         \/ ExecuteOperation(q)
         \/ \E p \in Queues : QueueWaitForCommandList(q, p)
         \/ \E e \in Events : SetEventQuery(e, q)
    \/ \E e \in Events : ResetEventQuery(e)
    \/ \E b \in Staging : Unmap(b)
    \/ \E r \in Resources : ReleaseHandle(r)

Spec == Init /\ [][Next]_vars

\* The GPU makes progress, a call once begun goes on, and the application runs
\* garbage collection "at least once per frame".
Fairness ==
    /\ \A q \in Queues : WF_vars(ExecuteOperation(q))
    /\ \A t \in Threads : WF_vars(Continue(t))
    /\ \A tr \in Trackers : SF_vars(RunGarbageCollection(tr))

FairSpec == Spec /\ Fairness

-----------------------------------------------------------------------------
(* Properties.                                                              *)

TypeOK ==
    /\ lastSubmittedInstance \in [Queues -> Nat] /\ lastCompletedInstance \in [Queues -> Nat]
    /\ \A q \in Queues : recordingInstance[q] \in 1..(MaxOpens[q] + 1)
    /\ pool \in [Lists -> Seq(InternalLists)] /\ active \in [Lists -> InternalLists \cup {None}]
    /\ submittedAs \in [InternalLists -> Nat]
    /\ phase \in [Lists -> {"idle", "open", "closed", "submitted"}]
    /\ \A l \in Lists : active[l] = None <=> phase[l] = "idle"
    /\ refs \in [Lists -> SUBSET Resources]
    /\ inFlight \in [Trackers -> Seq([instance : Nat, refs : SUBSET Resources])]
    /\ \A t \in Threads : call[t].op \in {"none", "count", "signal", "executed", "wait"}
    /\ held \subseteq Resources /\ answered \subseteq Waitable
    /\ use \in [Waitable -> [queue : Queues \cup {None}, value : Nat]]
    /\ fenceEvent.set \in BOOLEAN /\ fence \in [Queues -> Nat]
    /\ submittedOps \in [Queues -> Nat] /\ executedOps \in [Queues -> Nat]

\* An internal list is recorded again, and its allocator reset, only when the
\* GPU has executed all it held.
AllocatorsIdle ==
    \A l \in Lists : phase[l] \in {"open", "closed"} =>
        \A q \in Queues : \A op \in Pending(q) : active[l] \notin op.cmds

\* What a map, a poll or a timer returns is final: the GPU uses no buffer that is
\* mapped and no timer that was read, and an event is reported only when all
\* submissions that were over when it was set are executed.
AnswersFinal ==
    /\ \A q \in Queues : \A op \in Pending(q) : op.used \cap answered \cap (Staging \cup Timers) = {}
    /\ \A e \in answered \cap Events : before[e] \subseteq 1..executedOps[use[e].queue]

\* What ResourceLifetime promises; QueuesMC shows that the queue implements it.
Recording == [l \in Lists |-> IF phase[l] \in {"open", "closed"} THEN UsedBy(l) ELSE {}]
Submission(q, n) == CHOOSE op \in Pending(q) : op.index = n
Executing == [q \in Queues |-> [i \in 1..(submittedOps[q] - executedOps[q]) |->
    Submission(q, executedOps[q] + i).used]]

Lifetime == INSTANCE ResourceLifetime WITH
    recording <- Recording, executing <- Executing, alive <- Alive

\* Trackers hold "internal command lists and their referenced resources" only
\* "until work has finished execution on the GPU": all garbage is collected.
GarbageCollected == Lifetime!Reclaimed
=============================================================================
