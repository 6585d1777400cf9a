-------------------------- MODULE VolatileBuffers --------------------------
(***************************************************************************)
(* Volatile constant buffers of the Vulkan backend                         *)
(* (src/vulkan/vulkan-buffer.cpp).  A buffer has several versions; every   *)
(* write takes one that no pending recording and no unfinished submission  *)
(* uses.  Lists are recorded by threads of their own, so the search for a  *)
(* version interferes with those of other lists: it loads one tracking     *)
(* word after the other and claims a version by compare-and-exchange.      *)
(* Mapped memory is not coherent: the GPU sees what close() flushed.       *)
(***************************************************************************)
EXTENDS Recordings

CONSTANTS
    Buffers,
    maxVersions,    \* [Buffers -> Nat]
    None,
    MaxWrites       \* bound: writes per recording

VolatileBufferState == [latest : Nat, min : Nat, max : Nat, written : BOOLEAN]

VolatileBuffersAssumption ==
    /\ maxVersions \in [Buffers -> Nat \ {0}]
    /\ MaxWrites \in Nat /\ None \notin VolatileBufferState

VARIABLES
    versionTracking,    \* [Buffers -> Seq of version words]
    versionSearchStart, \* [Buffers -> a version]
    hostData,           \* [Buffers -> Seq of what was written last]
    deviceData,         \* [Buffers -> Seq of what the GPU sees]
    state,              \* [Lists -> [Buffers -> VolatileBufferState or None]]
    writes,             \* [Lists -> number of writes of the recording]
    search              \* [Lists -> the search in progress or None]

bufferVars == <<versionTracking, versionSearchStart, hostData, deviceData, state, writes,
                search>>
vars == <<recordingVars, bufferVars>>

Versions(b) == 1..maxVersions[b]

\* the n-th write of a recording; Junk is what nobody wrote
Data(l, n) == <<l, recordingID[l], n>>
Junk == <<>>

Least(a, b)    == IF a < b THEN a ELSE b
Greatest(a, b) == IF a > b THEN a ELSE b

-----------------------------------------------------------------------------
(* writeVolatileBuffer.                                                     *)

\* the state is created if need be, completion values and the start are read
BeginWrite(l, b) ==
    /\ phase[l] = "open" /\ search[l] = None /\ writes[l] < MaxWrites
    /\ state' = [state EXCEPT ![l][b] = IF @ # None THEN @ ELSE
            [latest |-> 1, min |-> maxVersions[b] + 1, max |-> 0, written |-> FALSE]]
    /\ search' = [search EXCEPT ![l] =
            [buffer |-> b, finished |-> lastFinishedID, start |-> versionSearchStart[b],
             index |-> 0, found |-> None]]
    /\ writes' = [writes EXCEPT ![l] = @ + 1]
    /\ UNCHANGED <<recordingVars, versionTracking, versionSearchStart, hostData, deviceData>>

SearchedVersion(s) ==
    LET version == s.start + s.index
    IN  IF version > maxVersions[s.buffer] THEN version - maxVersions[s.buffer] ELSE version

\* "unused (0) or submitted and already finished"
Finished(l, word) ==
    \/ word = Available
    \/ word.submitted /\ word.instance <= search[l].finished[word.queue]

\* One tracking word is loaded.  After the last of them the write is given up with
\* an error: "maxVersions ... is insufficient".
SearchStep(l) ==
    /\ search[l] # None /\ search[l].found = None
    /\ LET s    == search[l]
           word == versionTracking[s.buffer][SearchedVersion(s)]
       IN  search' = [search EXCEPT ![l] =
                IF Finished(l, word) THEN [s EXCEPT !.found = word]
                ELSE IF s.index + 1 < maxVersions[s.buffer] THEN [s EXCEPT !.index = @ + 1]
                ELSE None]
    /\ UNCHANGED <<recordingVars, versionTracking, versionSearchStart, hostData, deviceData,
                   state, writes>>

NextStart(b, v) == IF v + 1 <= maxVersions[b] THEN v + 1 ELSE 1

\* mutant: the word is stored without a comparison
UnchangedSinceStore(b, version, word) == TRUE

\* the comparison of compare_exchange_weak
UnchangedSince(b, version, word) == versionTracking[b][version] = word

\* the version becomes this list's, and the data is copied
ClaimVersion(l) ==
    LET s == search[l]
        b == s.buffer
        v == SearchedVersion(s)
    IN  /\ search[l] # None /\ search[l].found # None
        /\ UnchangedSince(b, v, s.found)
        /\ versionTracking' = [versionTracking EXCEPT ![b][v] = PendingVersion(l)]
        /\ versionSearchStart' = [versionSearchStart EXCEPT ![b] = NextStart(b, v)]
        /\ state' = [state EXCEPT ![l][b] =
                [latest |-> v, min |-> Least(v, @.min), max |-> Greatest(v, @.max),
                 written |-> TRUE]]
        /\ hostData' = [hostData EXCEPT ![b][v] = Data(l, writes[l])]
        /\ search' = [search EXCEPT ![l] = None]
        /\ UNCHANGED <<recordingVars, deviceData, writes>>

\* another thread was faster, or the weak exchange failed for no reason: the search
\* starts over with the completion values and the start it has
RetrySearch(l) ==
    /\ search[l] # None /\ search[l].found # None
    /\ search' = [search EXCEPT ![l] = [@ EXCEPT !.index = 0, !.found = None]]
    /\ UNCHANGED <<recordingVars, versionTracking, versionSearchStart, hostData, deviceData,
                   state, writes>>

-----------------------------------------------------------------------------
\* bindBindingSets gives the GPU the offset of the latest version.  The buffer must
\* have been written in this recording.
Bind(l, b) ==
    /\ search[l] = None /\ state[l][b] # None /\ state[l][b].written
    /\ LET v == state[l][b].latest
       IN  Use(l, {[buffer |-> b, version |-> v, data |-> hostData[b][v], list |-> l]})
    /\ UNCHANGED bufferVars

\* the versions from the least to the greatest one the list has written
WrittenRange(l, b) == IF state[l][b] = None THEN {} ELSE state[l][b].min..state[l][b].max

\* mutant: the last version of the range is not flushed
FlushedShort(l) == [b \in Buffers |-> [v \in Versions(b) |->
    IF v + 1 \in WrittenRange(l, b) THEN hostData[b][v] ELSE deviceData[b][v]]]

\* flushVolatileBufferWrites
Flushed(l) == [b \in Buffers |-> [v \in Versions(b) |->
    IF v \in WrittenRange(l, b) THEN hostData[b][v] ELSE deviceData[b][v]]]

OpenRecording(l) ==
    /\ Open(l)
    /\ writes' = [writes EXCEPT ![l] = 0]
    /\ state' = [state EXCEPT ![l] = [b \in Buffers |->
            IF @[b] = None THEN None ELSE [@[b] EXCEPT !.written = FALSE]]]
    /\ UNCHANGED <<versionTracking, versionSearchStart, hostData, deviceData, search>>

CloseRecording(l) ==
    /\ search[l] = None /\ Close(l)
    /\ deviceData' = Flushed(l)
    /\ UNCHANGED <<versionTracking, versionSearchStart, hostData, state, writes, search>>

\* submitVolatileBuffers
Submitted(l) == [b \in Buffers |-> [v \in Versions(b) |->
    IF v \in WrittenRange(l, b) /\ versionTracking[b][v] = PendingVersion(l)
    THEN SubmittedVersion(l) ELSE versionTracking[b][v]]]

ExecutedRecording(l) ==
    /\ Executed(l)
    /\ versionTracking' = Submitted(l)
    /\ state' = [state EXCEPT ![l] = [b \in Buffers |-> None]]
    /\ UNCHANGED <<versionSearchStart, hostData, deviceData, writes, search>>

-----------------------------------------------------------------------------
Init ==
    /\ RecordingsInit
    /\ versionTracking = [b \in Buffers |-> [v \in Versions(b) |-> Available]]
    /\ versionSearchStart = [b \in Buffers |-> 1]
    /\ hostData = [b \in Buffers |-> [v \in Versions(b) |-> Junk]]
    /\ deviceData = [b \in Buffers |-> [v \in Versions(b) |-> Junk]]
    /\ state = [l \in Lists |-> [b \in Buffers |-> None]]
    /\ writes = [l \in Lists |-> 0] /\ search = [l \in Lists |-> None]

Next ==
    \/ \E l \in Lists :
        \/ OpenRecording(l) \/ CloseRecording(l) \/ ExecutedRecording(l)
        \/ SearchStep(l) \/ ClaimVersion(l) \/ RetrySearch(l)
        \/ \E b \in Buffers : BeginWrite(l, b) \/ Bind(l, b)
    \/ /\ \E q \in Queues : \/ \E S \in (SUBSET Lists) \ {{}} : Submit(q, S)
                            \/ Complete(q) \/ UpdateLastFinishedID(q)
       /\ UNCHANGED bufferVars

Spec == Init /\ [][Next]_vars

-----------------------------------------------------------------------------
(* Properties.                                                              *)

Word == {Available} \cup [instance : Nat \ {0}, queue : Queues, submitted : BOOLEAN]

TypeOK ==
    /\ RecordingsTypeOK
    /\ \A b \in Buffers : /\ versionTracking[b] \in [Versions(b) -> Word]
                          /\ versionSearchStart[b] \in Versions(b)
    /\ \A l \in Lists : /\ writes[l] \in 0..MaxWrites
                        /\ search[l] # None => phase[l] = "open"
    /\ \A l \in Lists, b \in Buffers : state[l][b] # None =>
        /\ state[l][b].latest \in Versions(b) /\ WrittenRange(l, b) \subseteq Versions(b)

\* What a recording has bound stays as it was written until the submission is
\* finished, whatever other lists write to the same buffer at the same time.
BoundVersionsKept ==
    \A u \in InUse : hostData[u.buffer][u.version] = u.data

\* The GPU sees what was written: the ranges flushed cover every version bound.
SubmittedVersionsFlushed == \A q \in Queues : \A i \in DOMAIN work[q] : \A u \in work[q][i] :
    deviceData[u.buffer][u.version] = u.data

\* No version is left pending by a recording that has been executed: it would never
\* be available again.
ExecutedVersionsSubmitted == \A b \in Buffers : \A v \in Versions(b) : \A l \in Lists :
    LET word == versionTracking[b][v]
    IN  word.queue = QueueOf[l] /\ ~word.submitted => word.instance \notin executedAs[l]
=============================================================================
