----------------------------- MODULE Recordings -----------------------------
(***************************************************************************)
(* The numbers by which memory shared with the GPU is tracked              *)
(* (src/common/versioning.h): a recording has an ID from open(), another   *)
(* one from the submission it is executed in, and the queue reports the    *)
(* last submission that is finished.  This is as much of the life of a     *)
(* command list as both backends share, without what they keep for it; it  *)
(* is the part UploadManager and VolatileBuffers are built on.             *)
(***************************************************************************)
EXTENDS Integers, Sequences

CONSTANTS
    Queues,
    Lists,
    QueueOf,        \* [Lists -> Queues]
    MaxRecordings   \* bound: open() calls per queue

RecordingsAssumption ==
    /\ QueueOf \in [Lists -> Queues]
    /\ MaxRecordings \in Nat \ {0}

VARIABLES
    lastRecordingID, lastSubmittedID,  \* [Queues -> Nat]
    lastFinishedID,     \* [Queues -> what the host knows to be finished]
    completed,          \* [Queues -> what the GPU has finished]
    phase,              \* [Lists -> {"idle", "open", "closed", "submitted"}]
    recordingID,        \* [Lists -> open()'s ID, 0 once executed]
    submissionID,       \* [Lists -> the ID executed() will be told, or 0]
    executedAs,         \* [Lists -> the recordingIDs executed() has seen]
    uses,               \* [Lists -> the memory the recording uses]
    work                \* [Queues -> Seq of the memory each submission still uses]

recordingVars == <<lastRecordingID, lastSubmittedID, lastFinishedID, completed, phase,
                   recordingID, submissionID, executedAs, uses, work>>

-----------------------------------------------------------------------------
\* Version words.  The queue is the one of the list the word is made for.
MakeVersion(id, q, submitted) == [instance |-> id, queue |-> q, submitted |-> submitted]
Available == [instance |-> 0, queue |-> 0, submitted |-> FALSE]

PendingVersion(l)   == MakeVersion(recordingID[l], QueueOf[l], FALSE)
SubmittedVersion(l) == MakeVersion(submissionID[l], QueueOf[l], TRUE)

\* what somebody may still read or write: a recording or an unfinished submission
InUse == UNION ({uses[l] : l \in Lists}
                \cup {UNION {work[q][i] : i \in DOMAIN work[q]} : q \in Queues})

-----------------------------------------------------------------------------
\* A list that is opened again before it was executed abandons its recording.
Open(l) ==
    LET id == lastRecordingID[QueueOf[l]] + 1
    IN  /\ phase[l] \in {"idle", "closed"} /\ id <= MaxRecordings
        /\ lastRecordingID' = [lastRecordingID EXCEPT ![QueueOf[l]] = id]
        /\ recordingID' = [recordingID EXCEPT ![l] = id]
        /\ phase' = [phase EXCEPT ![l] = "open"]
        /\ uses' = [uses EXCEPT ![l] = {}]
        /\ UNCHANGED <<lastSubmittedID, lastFinishedID, completed, submissionID,
                       executedAs, work>>

\* A command records the use of some memory.
Use(l, memory) ==
    /\ phase[l] = "open"
    /\ uses' = [uses EXCEPT ![l] = @ \cup memory]
    /\ UNCHANGED <<lastRecordingID, lastSubmittedID, lastFinishedID, completed, phase,
                   recordingID, submissionID, executedAs, work>>

Close(l) ==
    /\ phase[l] = "open"
    /\ phase' = [phase EXCEPT ![l] = "closed"]
    /\ UNCHANGED <<lastRecordingID, lastSubmittedID, lastFinishedID, completed,
                   recordingID, submissionID, executedAs, uses, work>>

\* executeCommandLists up to the executed() calls, for a set of lists of a queue
Submit(q, S) ==
    /\ \A l \in S : phase[l] = "closed" /\ QueueOf[l] = q
    /\ lastSubmittedID' = [lastSubmittedID EXCEPT ![q] = @ + 1]
    /\ work' = [work EXCEPT ![q] = Append(@, UNION {uses[l] : l \in S})]
    /\ submissionID' = [l \in Lists |->
            IF l \in S THEN lastSubmittedID[q] + 1 ELSE submissionID[l]]
    /\ phase' = [l \in Lists |-> IF l \in S THEN "submitted" ELSE phase[l]]
    /\ uses' = [l \in Lists |-> IF l \in S THEN {} ELSE uses[l]]
    /\ UNCHANGED <<lastRecordingID, lastFinishedID, completed, recordingID, executedAs>>

\* CommandList::executed, when the GPU may be done already
Executed(l) ==
    /\ phase[l] = "submitted"
    /\ phase' = [phase EXCEPT ![l] = "idle"]
    /\ executedAs' = [executedAs EXCEPT ![l] = @ \cup {recordingID[l]}]
    /\ recordingID' = [recordingID EXCEPT ![l] = 0]
    /\ submissionID' = [submissionID EXCEPT ![l] = 0]
    /\ UNCHANGED <<lastRecordingID, lastSubmittedID, lastFinishedID, completed, uses, work>>

\* the GPU finishes the submissions of a queue in order
Complete(q) ==
    /\ completed[q] < Len(work[q])
    /\ completed' = [completed EXCEPT ![q] = @ + 1]
    /\ work' = [work EXCEPT ![q][completed[q] + 1] = {}]
    /\ UNCHANGED <<lastRecordingID, lastSubmittedID, lastFinishedID, phase, recordingID,
                   submissionID, executedAs, uses>>

\* updateLastFinishedID, updateLastCompletedInstance
UpdateLastFinishedID(q) ==
    /\ lastFinishedID' = [lastFinishedID EXCEPT ![q] = completed[q]]
    /\ UNCHANGED <<lastRecordingID, lastSubmittedID, completed, phase, recordingID,
                   submissionID, executedAs, uses, work>>

RecordingsInit ==
    /\ lastRecordingID = [q \in Queues |-> 0] /\ lastSubmittedID = [q \in Queues |-> 0]
    /\ lastFinishedID = [q \in Queues |-> 0] /\ completed = [q \in Queues |-> 0]
    /\ phase = [l \in Lists |-> "idle"]
    /\ recordingID = [l \in Lists |-> 0] /\ submissionID = [l \in Lists |-> 0]
    /\ executedAs = [l \in Lists |-> {}] /\ uses = [l \in Lists |-> {}]
    /\ work = [q \in Queues |-> <<>>]

RecordingsTypeOK ==
    /\ lastRecordingID \in [Queues -> 0..MaxRecordings]
    /\ lastSubmittedID \in [Queues -> Nat]
    /\ lastFinishedID \in [Queues -> Nat] /\ completed \in [Queues -> Nat]
    /\ \A q \in Queues : /\ lastFinishedID[q] <= completed[q]
                         /\ completed[q] <= Len(work[q]) /\ Len(work[q]) = lastSubmittedID[q]
    /\ phase \in [Lists -> {"idle", "open", "closed", "submitted"}]
    /\ recordingID \in [Lists -> 0..MaxRecordings] /\ submissionID \in [Lists -> Nat]
    /\ executedAs \in [Lists -> SUBSET (1..MaxRecordings)]
-----------------------------------------------------------------------------
(* What the numbers and the memory in use have to do with each other. *)

\* The memory of a recording has the list as a field.
MemoryTypes(Memory) ==
    /\ uses \in [Lists -> SUBSET Memory]
    /\ work \in [Queues -> Seq(SUBSET Memory)]

\* A recording has an ID until it is executed, which no other of the queue has or had.
RecordingsNumbered == \A l \in Lists :
    /\ recordingID[l] = 0 <=> phase[l] = "idle"
    /\ recordingID[l] <= lastRecordingID[QueueOf[l]]
    /\ \A id \in executedAs[l] : id <= lastRecordingID[QueueOf[l]]
    /\ \A k \in Lists : QueueOf[k] = QueueOf[l] /\ recordingID[k] # 0 =>
         /\ recordingID[k] \notin executedAs[l]
         /\ k # l => recordingID[k] # recordingID[l]

\* A recording uses its own memory, until it is submitted.
UsesOwned == \A l \in Lists :
    /\ phase[l] \notin {"open", "closed"} => uses[l] = {}
    /\ \A u \in uses[l] : u.list = l

\* What a submission still uses is not finished, belongs to a list of the queue, and
\* was not submitted after what executed() of the list has yet to be told.
WorkOwned == \A q \in Queues : \A i \in DOMAIN work[q] :
    /\ i <= completed[q] => work[q][i] = {}
    /\ \A u \in work[q][i] :
         /\ u.list \in Lists /\ QueueOf[u.list] = q
         /\ phase[u.list] = "submitted" => i <= submissionID[u.list]

SubmissionsNumbered == \A l \in Lists :
    phase[l] = "submitted" => submissionID[l] \in 1..lastSubmittedID[QueueOf[l]]

RecordingsInv(Memory) ==
    /\ RecordingsTypeOK /\ MemoryTypes(Memory)
    /\ RecordingsNumbered /\ UsesOwned /\ WorkOwned /\ SubmissionsNumbered
=============================================================================
