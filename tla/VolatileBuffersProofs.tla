------------------------ MODULE VolatileBuffersProofs ------------------------
(***************************************************************************)
(* Theorems about VolatileBuffers, for any queues, lists, buffers and      *)
(* numbers of versions: whatever the searches of other lists do meanwhile. *)
(***************************************************************************)
EXTENDS VolatileBuffers, SequenceTheorems, TLAPS

-----------------------------------------------------------------------------
(* The numbers of recordings and submissions, and whose the memory in use is. *)

\* What is in use.
LEMMA InUseFacts ==
  ASSUME NEW u
  PROVE  u \in InUse <=> \/ \E l \in Lists : u \in uses[l]
                         \/ \E q \in Queues : \E i \in DOMAIN work[q] : u \in work[q][i]
<1>1. PICK a, b : /\ a = {uses[l] : l \in Lists}
                  /\ b = {UNION {work[q][i] : i \in DOMAIN work[q]} : q \in Queues}
  OBVIOUS
<1>2. u \in InUse <=> (\E x \in a : u \in x) \/ (\E x \in b : u \in x)
  BY <1>1 DEF InUse
<1>3. (\E x \in a : u \in x) <=> \E l \in Lists : u \in uses[l]
  BY <1>1
<1>4. (\E x \in b : u \in x) <=> \E q \in Queues : u \in UNION {work[q][i] : i \in DOMAIN work[q]}
  BY <1>1
<1>5. \A q : u \in UNION {work[q][i] : i \in DOMAIN work[q]} <=> \E i \in DOMAIN work[q] : u \in work[q][i]
  OBVIOUS
<1> QED
  BY <1>2, <1>3, <1>4, <1>5

LEMMA RecordingsInitHolds ==
  ASSUME RecordingsAssumption, NEW Memory, RecordingsInit
  PROVE  RecordingsInv(Memory)
<1>1. RecordingsTypeOK
  BY DEF RecordingsAssumption, RecordingsInit, RecordingsTypeOK
<1>2. MemoryTypes(Memory) /\ RecordingsNumbered /\ UsesOwned /\ SubmissionsNumbered
  BY DEF RecordingsInit, MemoryTypes, RecordingsNumbered, UsesOwned, SubmissionsNumbered,
         RecordingsAssumption
<1>3. WorkOwned
  BY DEF RecordingsInit, WorkOwned
<1> QED
  BY <1>1, <1>2, <1>3 DEF RecordingsInv

\* A recording begins with a new ID and uses nothing.
LEMMA OpenNumbered ==
  ASSUME RecordingsAssumption, NEW Memory, RecordingsInv(Memory), NEW l \in Lists, Open(l)
  PROVE  RecordingsInv(Memory)'
<1>1. PICK q, id : q = QueueOf[l] /\ id = lastRecordingID[q] + 1
  OBVIOUS
<1>2. /\ phase[l] \in {"idle", "closed"} /\ id <= MaxRecordings
      /\ lastRecordingID' = [lastRecordingID EXCEPT ![q] = id]
      /\ recordingID' = [recordingID EXCEPT ![l] = id]
      /\ phase' = [phase EXCEPT ![l] = "open"]
      /\ uses' = [uses EXCEPT ![l] = {}]
      /\ UNCHANGED <<lastSubmittedID, lastFinishedID, completed, submissionID, executedAs, work>>
  BY <1>1 DEF Open
<1>3. q \in Queues /\ lastRecordingID[q] \in Nat /\ MaxRecordings \in Nat /\ id \in 1..MaxRecordings
  BY <1>1, <1>2 DEF RecordingsAssumption, RecordingsInv, RecordingsTypeOK
<1>4. RecordingsTypeOK'
  BY <1>2, <1>3 DEF RecordingsInv, RecordingsTypeOK
<1>5. MemoryTypes(Memory)' /\ UsesOwned' /\ SubmissionsNumbered'
  BY <1>2 DEF RecordingsInv, RecordingsTypeOK, MemoryTypes, UsesOwned, SubmissionsNumbered
<1>6. RecordingsNumbered'
  <2>1. ASSUME NEW k \in Lists
        PROVE  /\ recordingID'[k] = IF k = l THEN id ELSE recordingID[k]
               /\ phase'[k] = IF k = l THEN "open" ELSE phase[k]
               /\ recordingID[k] \in Nat /\ executedAs[k] \subseteq Nat
               /\ lastRecordingID[QueueOf[k]] \in Nat
               /\ lastRecordingID'[QueueOf[k]] = IF QueueOf[k] = q THEN id ELSE lastRecordingID[QueueOf[k]]
    BY <1>2, <1>3, SMTT(30) DEF RecordingsInv, RecordingsTypeOK, RecordingsAssumption
  <2>2. \A k \in Lists : QueueOf[k] = q => recordingID[k] < id /\ \A i \in executedAs[k] : i < id
    BY <1>1, <1>3, <2>1 DEF RecordingsInv, RecordingsNumbered
  <2> QED
    BY <1>1, <1>2, <1>3, <2>1, <2>2 DEF RecordingsInv, RecordingsNumbered
<1>7. WorkOwned'
  BY <1>2 DEF RecordingsInv, RecordingsTypeOK, WorkOwned
<1> QED
  BY <1>4, <1>5, <1>6, <1>7 DEF RecordingsInv

\* A command uses memory of its own list.
LEMMA UseNumbered ==
  ASSUME RecordingsAssumption, NEW Memory, RecordingsInv(Memory), NEW l \in Lists,
         NEW memory \in SUBSET Memory, \A u \in memory : u.list = l, Use(l, memory)
  PROVE  RecordingsInv(Memory)'
<1>1. /\ phase[l] = "open" /\ uses' = [uses EXCEPT ![l] = @ \cup memory]
      /\ UNCHANGED <<lastRecordingID, lastSubmittedID, lastFinishedID, completed, phase,
                     recordingID, submissionID, executedAs, work>>
  BY DEF Use
<1>2. RecordingsTypeOK' /\ RecordingsNumbered' /\ SubmissionsNumbered' /\ WorkOwned'
  BY <1>1 DEF RecordingsInv, RecordingsTypeOK, RecordingsNumbered, SubmissionsNumbered, WorkOwned
<1>3. MemoryTypes(Memory)' /\ UsesOwned'
  BY <1>1 DEF RecordingsInv, MemoryTypes, UsesOwned
<1> QED
  BY <1>2, <1>3 DEF RecordingsInv

LEMMA CloseNumbered ==
  ASSUME RecordingsAssumption, NEW Memory, RecordingsInv(Memory), NEW l \in Lists, Close(l)
  PROVE  RecordingsInv(Memory)'
<1>1. /\ phase[l] = "open" /\ phase' = [phase EXCEPT ![l] = "closed"]
      /\ UNCHANGED <<lastRecordingID, lastSubmittedID, lastFinishedID, completed,
                     recordingID, submissionID, executedAs, uses, work>>
  BY DEF Close
<1>2. RecordingsTypeOK' /\ MemoryTypes(Memory)'
  BY <1>1 DEF RecordingsInv, RecordingsTypeOK, MemoryTypes
<1>3. RecordingsNumbered' /\ SubmissionsNumbered' /\ UsesOwned' /\ WorkOwned'
  BY <1>1 DEF RecordingsInv, RecordingsTypeOK, RecordingsNumbered, SubmissionsNumbered, WorkOwned, UsesOwned
<1> QED
  BY <1>2, <1>3 DEF RecordingsInv

\* What the lists used is the submission's.
LEMMA SubmitNumbered ==
  ASSUME RecordingsAssumption, NEW Memory, RecordingsInv(Memory),
         NEW q \in Queues, NEW S \in SUBSET Lists, Submit(q, S)
  PROVE  RecordingsInv(Memory)'
<1>1. PICK used : used = UNION {uses[l] : l \in S}
  OBVIOUS
<1>2. /\ \A l \in S : phase[l] = "closed" /\ QueueOf[l] = q
      /\ lastSubmittedID' = [lastSubmittedID EXCEPT ![q] = @ + 1]
      /\ work' = [work EXCEPT ![q] = Append(@, used)]
      /\ submissionID' = [l \in Lists |->
              IF l \in S THEN lastSubmittedID[q] + 1 ELSE submissionID[l]]
      /\ phase' = [l \in Lists |-> IF l \in S THEN "submitted" ELSE phase[l]]
      /\ uses' = [l \in Lists |-> IF l \in S THEN {} ELSE uses[l]]
      /\ UNCHANGED <<lastRecordingID, lastFinishedID, completed, recordingID, executedAs>>
  BY <1>1 DEF Submit
<1>3. /\ used \in SUBSET Memory
      /\ \A u \in used : u.list \in S
  BY <1>1 DEF RecordingsInv, MemoryTypes, UsesOwned
<1>4. PICK w : w = work[q]
  OBVIOUS
<1>5. /\ w \in Seq(SUBSET Memory) /\ Len(w) = lastSubmittedID[q] /\ Len(w) \in Nat
      /\ completed[q] \in Nat /\ completed[q] <= Len(w)
  BY <1>4 DEF RecordingsInv, MemoryTypes, RecordingsTypeOK
<1>6. /\ Append(w, used) \in Seq(SUBSET Memory) /\ Len(Append(w, used)) = Len(w) + 1
      /\ DOMAIN Append(w, used) = 1..(Len(w) + 1) /\ DOMAIN w = 1..Len(w)
      /\ \A i \in 1..Len(w) : Append(w, used)[i] = w[i]
      /\ Append(w, used)[Len(w) + 1] = used
  BY <1>3, <1>5
<1>7. work'[q] = Append(w, used) /\ \A p \in Queues : p # q => work'[p] = work[p]
  BY <1>2, <1>4 DEF RecordingsInv, MemoryTypes
<1>8. MemoryTypes(Memory)'
  BY <1>2, <1>4, <1>6 DEF RecordingsInv, MemoryTypes
<1>9. RecordingsTypeOK'
  <2>1. lastSubmittedID' \in [Queues -> Nat] /\ lastSubmittedID'[q] = Len(w) + 1
        /\ \A p \in Queues : p # q => lastSubmittedID'[p] = lastSubmittedID[p]
    BY <1>2, <1>5 DEF RecordingsInv, RecordingsTypeOK
  <2>2. \A p \in Queues : /\ lastFinishedID'[p] <= completed'[p]
                          /\ completed'[p] <= Len(work'[p]) /\ Len(work'[p]) = lastSubmittedID'[p]
    <3> SUFFICES ASSUME NEW p \in Queues
                 PROVE  /\ lastFinishedID[p] <= completed[p]
                        /\ completed[p] <= Len(work'[p]) /\ Len(work'[p]) = lastSubmittedID'[p]
      BY <1>2
    <3>1. lastFinishedID[p] <= completed[p] /\ completed[p] <= Len(work[p])
          /\ Len(work[p]) = lastSubmittedID[p]
      BY DEF RecordingsInv, RecordingsTypeOK
    <3>2. CASE p = q
      BY <1>5, <1>6, <1>7, <2>1, <3>1, <3>2
    <3>3. CASE p # q
      BY <1>7, <2>1, <3>1, <3>3
    <3> QED
      BY <3>2, <3>3
  <2> QED
    BY <1>2, <1>5, <2>1, <2>2 DEF RecordingsInv, RecordingsTypeOK
<1>10. RecordingsNumbered' /\ UsesOwned'
  BY <1>2 DEF RecordingsInv, RecordingsTypeOK, MemoryTypes, RecordingsNumbered, UsesOwned
<1>11. SubmissionsNumbered'
  <2> SUFFICES ASSUME NEW l \in Lists, phase'[l] = "submitted"
               PROVE  submissionID'[l] \in 1..lastSubmittedID'[QueueOf[l]]
    BY DEF SubmissionsNumbered
  <2>1. QueueOf[l] \in Queues /\ lastSubmittedID[QueueOf[l]] \in Nat
    BY DEF RecordingsAssumption, RecordingsInv, RecordingsTypeOK
  <2>2. lastSubmittedID'[QueueOf[l]] = IF QueueOf[l] = q THEN lastSubmittedID[q] + 1
                                      ELSE lastSubmittedID[QueueOf[l]]
    BY <1>2, <2>1 DEF RecordingsInv, RecordingsTypeOK
  <2>3. CASE l \in S
    BY <1>2, <2>1, <2>2, <2>3
  <2>4. CASE l \notin S
    <3>1. phase[l] = "submitted" /\ submissionID'[l] = submissionID[l]
      BY <1>2, <2>4
    <3> QED
      BY <2>1, <2>2, <3>1 DEF RecordingsInv, SubmissionsNumbered
  <2> QED
    BY <2>3, <2>4
<1>12. WorkOwned'
  <2> SUFFICES ASSUME NEW p \in Queues, NEW i \in DOMAIN work'[p]
               PROVE  /\ i <= completed[p] => work'[p][i] = {}
                      /\ \A u \in work'[p][i] :
                           /\ u.list \in Lists /\ QueueOf[u.list] = p
                           /\ phase'[u.list] = "submitted" => i <= submissionID'[u.list]
    BY <1>2 DEF WorkOwned
  <2>1. CASE p = q /\ i = Len(w) + 1
    <3>1. work'[p][i] = used /\ ~(i <= completed[p])
      BY <1>5, <1>6, <1>7, <2>1
    <3>2. ASSUME NEW u \in used PROVE u.list \in Lists /\ QueueOf[u.list] = p /\ submissionID'[u.list] = i
      BY <1>2, <1>3, <1>5, <2>1
    <3>3. i \in Nat
      BY <1>5, <2>1
    <3> QED
      BY <3>1, <3>2, <3>3
  <2>2. CASE ~(p = q /\ i = Len(w) + 1)
    <3>1. i \in DOMAIN work[p] /\ work'[p][i] = work[p][i]
      <4>1. CASE p = q
        <5>1. i \in 1..(Len(w) + 1) /\ i # Len(w) + 1 /\ work'[p] = Append(w, used) /\ work[p] = w
          BY <1>4, <1>6, <1>7, <2>2, <4>1
        <5>2. i \in 1..Len(w)
          BY <1>5, <5>1
        <5> QED
          BY <1>6, <5>1, <5>2
      <4>2. CASE p # q
        BY <1>7, <4>2
      <4> QED
        BY <4>1, <4>2
    <3>2. i \in Nat /\ i <= lastSubmittedID[p]
      BY <3>1 DEF RecordingsInv, MemoryTypes, RecordingsTypeOK
    <3>3. ASSUME NEW u \in work[p][i], phase'[u.list] = "submitted" PROVE i <= submissionID'[u.list]
      <4>1. u.list \in Lists /\ QueueOf[u.list] = p
        BY <3>1 DEF RecordingsInv, WorkOwned
      <4>2. CASE u.list \in S
        <5>1. p = q /\ submissionID'[u.list] = lastSubmittedID[q] + 1
          BY <1>2, <4>1, <4>2
        <5> QED
          BY <1>5, <3>2, <5>1
      <4>3. CASE u.list \notin S
        <5>1. phase[u.list] = "submitted" /\ submissionID'[u.list] = submissionID[u.list]
          BY <1>2, <3>3, <4>1, <4>3
        <5> QED
          BY <3>1, <5>1 DEF RecordingsInv, WorkOwned
      <4> QED
        BY <4>2, <4>3
    <3> QED
      BY <3>1, <3>3 DEF RecordingsInv, WorkOwned
  <2> QED
    BY <2>1, <2>2
<1> QED
  BY <1>8, <1>9, <1>10, <1>11, <1>12 DEF RecordingsInv

\* An executed recording's ID is not used again.
LEMMA ExecutedNumbered ==
  ASSUME RecordingsAssumption, NEW Memory, RecordingsInv(Memory), NEW l \in Lists, Executed(l)
  PROVE  RecordingsInv(Memory)'
<1>1. /\ phase[l] = "submitted" /\ phase' = [phase EXCEPT ![l] = "idle"]
      /\ executedAs' = [executedAs EXCEPT ![l] = @ \cup {recordingID[l]}]
      /\ recordingID' = [recordingID EXCEPT ![l] = 0]
      /\ submissionID' = [submissionID EXCEPT ![l] = 0]
      /\ UNCHANGED <<lastRecordingID, lastSubmittedID, lastFinishedID, completed, uses, work>>
  BY DEF Executed
<1>2. recordingID[l] \in 1..MaxRecordings /\ MaxRecordings \in Nat
  BY <1>1 DEF RecordingsInv, RecordingsTypeOK, RecordingsNumbered, RecordingsAssumption
<1>3. RecordingsTypeOK' /\ MemoryTypes(Memory)'
  BY <1>1, <1>2 DEF RecordingsInv, RecordingsTypeOK, MemoryTypes
<1>4. RecordingsNumbered'
  <2>1. ASSUME NEW k \in Lists
        PROVE  /\ recordingID'[k] = IF k = l THEN 0 ELSE recordingID[k]
               /\ phase'[k] = IF k = l THEN "idle" ELSE phase[k]
               /\ executedAs'[k] = IF k = l THEN executedAs[l] \cup {recordingID[l]} ELSE executedAs[k]
               /\ recordingID[k] \in Nat /\ lastRecordingID[QueueOf[k]] \in Nat
    BY <1>1 DEF RecordingsInv, RecordingsTypeOK, RecordingsAssumption
  <2> QED
    BY <1>1, <2>1 DEF RecordingsInv, RecordingsNumbered
<1>5. SubmissionsNumbered' /\ UsesOwned' /\ WorkOwned'
  BY <1>1 DEF RecordingsInv, RecordingsTypeOK, SubmissionsNumbered, WorkOwned, UsesOwned
<1> QED
  BY <1>3, <1>4, <1>5 DEF RecordingsInv

\* What the GPU has finished uses nothing.
LEMMA CompleteNumbered ==
  ASSUME RecordingsAssumption, NEW Memory, RecordingsInv(Memory), NEW q \in Queues, Complete(q)
  PROVE  /\ RecordingsInv(Memory)'
         /\ \A p \in Queues : DOMAIN work'[p] = DOMAIN work[p]
         /\ \A p \in Queues : \A i \in DOMAIN work[p] : work'[p][i] \subseteq work[p][i]
<1>1. PICK w, n : w = work[q] /\ n = completed[q] + 1
  OBVIOUS
<1>2. /\ completed[q] < Len(w)
      /\ completed' = [completed EXCEPT ![q] = n]
      /\ work' = [work EXCEPT ![q] = [w EXCEPT ![n] = {}]]
      /\ UNCHANGED <<lastRecordingID, lastSubmittedID, lastFinishedID, phase, recordingID,
                     submissionID, executedAs, uses>>
  BY <1>1 DEF Complete
<1>3. /\ w \in Seq(SUBSET Memory) /\ completed[q] \in Nat /\ Len(w) \in Nat /\ n \in 1..Len(w)
      /\ lastFinishedID[q] \in Nat /\ lastFinishedID[q] <= completed[q]
  BY <1>1, <1>2 DEF RecordingsInv, RecordingsTypeOK, MemoryTypes
<1>4. PICK v : v = [w EXCEPT ![n] = {}]
  OBVIOUS
<1>5. /\ v \in Seq(SUBSET Memory) /\ Len(v) = Len(w) /\ DOMAIN v = DOMAIN w /\ DOMAIN w = 1..Len(w)
      /\ \A i \in DOMAIN w : v[i] = IF i = n THEN {} ELSE w[i]
  BY <1>3, <1>4
<1>6. work'[q] = v /\ \A p \in Queues : p # q => work'[p] = work[p]
  BY <1>2, <1>4 DEF RecordingsInv, MemoryTypes
<1>7. completed'[q] = n /\ \A p \in Queues : p # q => completed'[p] = completed[p]
  BY <1>2 DEF RecordingsInv, RecordingsTypeOK
<1>8. MemoryTypes(Memory)'
  BY <1>2, <1>4, <1>5 DEF RecordingsInv, MemoryTypes
<1>9. RecordingsTypeOK'
  <2>1. \A p \in Queues : /\ lastFinishedID'[p] <= completed'[p]
                          /\ completed'[p] <= Len(work'[p]) /\ Len(work'[p]) = lastSubmittedID'[p]
    <3> SUFFICES ASSUME NEW p \in Queues
                 PROVE  /\ lastFinishedID[p] <= completed'[p]
                        /\ completed'[p] <= Len(work'[p]) /\ Len(work'[p]) = lastSubmittedID[p]
      BY <1>2
    <3>1. CASE p = q
      BY <1>1, <1>3, <1>5, <1>6, <1>7, <3>1 DEF RecordingsInv, RecordingsTypeOK
    <3>2. CASE p # q
      BY <1>6, <1>7, <3>2 DEF RecordingsInv, RecordingsTypeOK
    <3> QED
      BY <3>1, <3>2
  <2> QED
    BY <1>2, <1>3, <2>1 DEF RecordingsInv, RecordingsTypeOK
<1>10. RecordingsNumbered' /\ UsesOwned' /\ SubmissionsNumbered'
  BY <1>2 DEF RecordingsInv, RecordingsNumbered, UsesOwned, SubmissionsNumbered
<1>11. ASSUME NEW p \in Queues
       PROVE  /\ DOMAIN work'[p] = DOMAIN work[p]
              /\ \A i \in DOMAIN work[p] :
                   /\ work'[p][i] \subseteq work[p][i]
                   /\ i <= completed'[p] /\ ~(i <= completed[p]) => work'[p][i] = {}
  <2>1. CASE p = q
    BY <1>1, <1>3, <1>5, <1>6, <1>7, <2>1, SMTT(30)
  <2>2. CASE p # q
    BY <1>6, <1>7, <2>2
  <2> QED
    BY <2>1, <2>2
<1>12. WorkOwned'
  BY <1>2, <1>11 DEF RecordingsInv, WorkOwned
<1> QED
  BY <1>8, <1>9, <1>10, <1>11, <1>12 DEF RecordingsInv

LEMMA UpdateNumbered ==
  ASSUME RecordingsAssumption, NEW Memory, RecordingsInv(Memory),
         NEW q \in Queues, UpdateLastFinishedID(q)
  PROVE  RecordingsInv(Memory)'
<1>1. /\ lastFinishedID' = [lastFinishedID EXCEPT ![q] = completed[q]]
      /\ UNCHANGED <<lastRecordingID, lastSubmittedID, completed, phase, recordingID,
                     submissionID, executedAs, uses, work>>
  BY DEF UpdateLastFinishedID
<1>2. RecordingsTypeOK'
  BY <1>1 DEF RecordingsInv, RecordingsTypeOK
<1>3. MemoryTypes(Memory)' /\ RecordingsNumbered' /\ UsesOwned' /\ SubmissionsNumbered' /\ WorkOwned'
  BY <1>1 DEF RecordingsInv, MemoryTypes, RecordingsNumbered, UsesOwned, SubmissionsNumbered, WorkOwned
<1> QED
  BY <1>2, <1>3 DEF RecordingsInv

LEMMA StutterNumbered ==
  ASSUME NEW Memory, RecordingsInv(Memory), UNCHANGED recordingVars
  PROVE  RecordingsInv(Memory)'
  BY DEF recordingVars, RecordingsInv, RecordingsTypeOK, MemoryTypes, RecordingsNumbered, UsesOwned,
         SubmissionsNumbered, WorkOwned

-----------------------------------------------------------------------------
(* The invariant.                                                           *)

VolatilesAssumption == RecordingsAssumption /\ VolatileBuffersAssumption

DataSet == {Junk} \cup (Lists \X Nat \X Nat)

Memory == [buffer : Buffers, version : Nat, data : DataSet, list : Lists]

BufferTypes ==
    /\ DOMAIN versionTracking = Buffers /\ DOMAIN hostData = Buffers
    /\ versionSearchStart \in [Buffers -> Nat]
    /\ \A b \in Buffers : /\ versionTracking[b] \in [Versions(b) -> Word]
                          /\ hostData[b] \in [Versions(b) -> DataSet]
                          /\ versionSearchStart[b] \in Versions(b)

StateTypes ==
    /\ state \in [Lists -> [Buffers -> VolatileBufferState \cup {None}]]
    /\ writes \in [Lists -> 0..MaxWrites]
    /\ \A l \in Lists, b \in Buffers : state[l][b] # None =>
        /\ state[l][b].latest \in Versions(b)
        /\ 1 <= state[l][b].min /\ state[l][b].max <= maxVersions[b]

\* A word waits for a recording of its queue that was not executed yet; the recording
\* whose version it is has it in its range.
WordsOwned == \A b \in Buffers : \A v \in Versions(b) :
    /\ versionTracking[b][v] # Available /\ ~versionTracking[b][v].submitted =>
        /\ versionTracking[b][v].instance <= lastRecordingID[versionTracking[b][v].queue]
        /\ \A l \in Lists : versionTracking[b][v].queue = QueueOf[l] =>
             versionTracking[b][v].instance \notin executedAs[l]
    /\ \A l \in Lists : phase[l] # "idle" /\ versionTracking[b][v] = PendingVersion(l) =>
         v \in WrittenRange(l, b)

\* What is bound is in a version.
Bound(u) == u.buffer \in Buffers /\ u.version \in Versions(u.buffer)

\* What a recording has bound is its own, and flushed once that is closed.
UsesKept == \A l \in Lists : \A u \in uses[l] :
    /\ Bound(u) /\ hostData[u.buffer][u.version] = u.data
    /\ versionTracking[u.buffer][u.version] = PendingVersion(l)
    /\ phase[l] = "closed" => deviceData[u.buffer][u.version] = u.data

\* The word waits for the recording, or for submission i of queue q or a later one.
WaitsFor(word, l, q, i) ==
    \/ phase[l] = "submitted" /\ word = PendingVersion(l)
    \/ word # Available /\ word.submitted /\ word.queue = q /\ i <= word.instance

WorkKept == \A q \in Queues : \A i \in DOMAIN work[q] : \A u \in work[q][i] :
    /\ Bound(u) /\ hostData[u.buffer][u.version] = u.data
    /\ deviceData[u.buffer][u.version] = u.data
    /\ WaitsFor(versionTracking[u.buffer][u.version], u.list, q, i)

\* A buffer that was written in an open recording has a version of it.
LatestOwned == \A l \in Lists, b \in Buffers :
    phase[l] = "open" /\ state[l][b] # None /\ state[l][b].written =>
        versionTracking[b][state[l][b].latest] = PendingVersion(l)

\* A word that may be taken, by the completion values of a search.
Free(word, finished) ==
    word = Available \/ (word.submitted /\ word.instance <= finished[word.queue])

\* A search knows of nothing that is not finished, and has found nothing that is in use.
SearchOK(s, done) ==
    /\ s \in [buffer : Buffers, finished : [Queues -> Nat], start : Nat, index : Nat,
              found : Word \cup {None}]
    /\ s.start \in Versions(s.buffer) /\ s.index < maxVersions[s.buffer]
    /\ \A q \in Queues : s.finished[q] <= done[q]
    /\ s.found # None => Free(s.found, s.finished)

SearchesOK ==
    /\ DOMAIN search = Lists
    /\ \A l \in Lists : search[l] # None =>
         phase[l] = "open" /\ SearchOK(search[l], completed) /\ state[l][search[l].buffer] # None

VolatilesInv ==
    /\ RecordingsInv(Memory) /\ BufferTypes /\ StateTypes /\ WordsOwned
    /\ UsesKept /\ WorkKept /\ LatestOwned /\ SearchesOK

-----------------------------------------------------------------------------
(* Facts about words.                                                       *)

\* The word of an open recording is nobody else's, and not free.
LEMMA PendingFacts ==
  ASSUME VolatilesAssumption, RecordingsInv(Memory), NEW l \in Lists, phase[l] # "idle"
  PROVE  /\ PendingVersion(l) \in Word /\ PendingVersion(l) # Available
         /\ PendingVersion(l).submitted = FALSE /\ PendingVersion(l).instance = recordingID[l]
         /\ PendingVersion(l).queue = QueueOf[l] /\ recordingID[l] \in Nat \ {0}
         /\ \A finished : ~Free(PendingVersion(l), finished)
         /\ \A k \in Lists : k # l => PendingVersion(k) # PendingVersion(l)
<1>1. PICK v, id, q : v = PendingVersion(l) /\ id = recordingID[l] /\ q = QueueOf[l]
  OBVIOUS
<1>2. id \in Nat \ {0} /\ q \in Queues
  BY <1>1 DEF VolatilesAssumption, RecordingsAssumption, RecordingsInv, RecordingsTypeOK,
              RecordingsNumbered
<1>3. v = [instance |-> id, queue |-> q, submitted |-> FALSE]
  BY <1>1 DEF PendingVersion, MakeVersion
<1>4. v \in Word /\ v # Available /\ v.submitted = FALSE /\ v.instance = id /\ v.queue = q
  BY <1>2, <1>3 DEF Word, Available
<1>5. \A finished : ~Free(v, finished)
  BY <1>4 DEF Free
<1>6. ASSUME NEW k \in Lists, k # l, PendingVersion(k) = v PROVE FALSE
  <2>1. recordingID[k] = id /\ QueueOf[k] = q
    BY <1>3, <1>6 DEF PendingVersion, MakeVersion
  <2>2. recordingID[k] # recordingID[l]
    BY <1>1, <1>2, <1>6, <2>1 DEF RecordingsInv, RecordingsNumbered
  <2> QED
    BY <1>1, <2>1, <2>2
<1> QED
  BY <1>1, <1>2, <1>4, <1>5, <1>6

\* What is free is not in use.
LEMMA FreeUnused ==
  ASSUME VolatilesAssumption, VolatilesInv, NEW word \in Word, NEW finished,
         \A q \in Queues : finished[q] \in Nat /\ finished[q] <= completed[q],
         Free(word, finished)
  PROVE  /\ \A l \in Lists : phase[l] # "idle" => word # PendingVersion(l)
         /\ \A l \in Lists, q \in Queues : \A i \in DOMAIN work[q] :
              work[q][i] # {} => ~WaitsFor(word, l, q, i)
<1>1. \A l \in Lists : phase[l] # "idle" => word # PendingVersion(l)
  BY PendingFacts DEF VolatilesInv
<1>2. ASSUME NEW l \in Lists, NEW q \in Queues, NEW i \in DOMAIN work[q], work[q][i] # {},
             WaitsFor(word, l, q, i)
      PROVE  FALSE
  <2>1. word # Available /\ word.submitted /\ word.queue = q /\ i <= word.instance
    BY <1>1, <1>2 DEF WaitsFor
  <2>2. word.instance \in Nat /\ word.instance <= finished[q]
    BY <2>1 DEF Free, Word
  <2>3. /\ i \in Nat /\ finished[q] \in Nat /\ completed[q] \in Nat /\ finished[q] <= completed[q]
        /\ (i <= completed[q] => work[q][i] = {})
    BY DEF VolatilesInv, RecordingsInv, RecordingsTypeOK, MemoryTypes, WorkOwned
  <2> QED
    BY <1>2, <2>1, <2>2, <2>3
<1> QED
  BY <1>1, <1>2

-----------------------------------------------------------------------------
(* A search.                                                                *)

\* Nothing about versions changes, and a state only becomes one with an empty range.
LEMMA BeginWriteHolds ==
  ASSUME VolatilesAssumption, VolatilesInv, NEW l \in Lists, NEW b \in Buffers, BeginWrite(l, b)
  PROVE  VolatilesInv'
<1>1. PICK new, s : /\ new = [latest |-> 1, min |-> maxVersions[b] + 1, max |-> 0, written |-> FALSE]
                    /\ s = [buffer |-> b, finished |-> lastFinishedID, start |-> versionSearchStart[b],
                            index |-> 0, found |-> None]
  OBVIOUS
<1>2. /\ phase[l] = "open" /\ search[l] = None /\ writes[l] < MaxWrites
      /\ state' = [state EXCEPT ![l][b] = IF @ # None THEN @ ELSE new]
      /\ search' = [search EXCEPT ![l] = s]
      /\ writes' = [writes EXCEPT ![l] = @ + 1]
      /\ UNCHANGED <<recordingVars, versionTracking, versionSearchStart, hostData, deviceData>>
  BY <1>1 DEF BeginWrite
<1>3. /\ maxVersions[b] \in Nat \ {0} /\ Versions(b) = 1..maxVersions[b] /\ MaxWrites \in Nat
      /\ state \in [Lists -> [Buffers -> VolatileBufferState \cup {None}]]
      /\ None \notin VolatileBufferState
  BY DEF VolatilesAssumption, VolatileBuffersAssumption, VolatilesInv, StateTypes, Versions
<1>4. /\ new \in VolatileBufferState /\ new # None /\ new.latest = 1 /\ new.max = 0
      /\ new.min = maxVersions[b] + 1 /\ new.written = FALSE
  <2>1. PICK n : n = maxVersions[b] + 1
    OBVIOUS
  <2>2. n \in Nat /\ new = [latest |-> 1, min |-> n, max |-> 0, written |-> FALSE]
    BY <1>1, <1>3, <2>1
  <2>3. new \in VolatileBufferState
    BY <2>2 DEF VolatileBufferState
  <2> QED
    BY <1>3, <2>1, <2>2, <2>3
<1>5. ASSUME NEW k \in Lists, NEW c \in Buffers
      PROVE  state'[k][c] = IF k = l /\ c = b /\ state[l][b] = None THEN new ELSE state[k][c]
  <2>1. CASE k = l /\ c = b
    BY <1>2, <1>3, <2>1
  <2>2. CASE k = l /\ c # b
    BY <1>2, <1>3, <2>2
  <2>3. CASE k # l
    BY <1>2, <1>3, <2>3
  <2> QED
    BY <2>1, <2>2, <2>3
<1>6. RecordingsInv(Memory)' /\ UNCHANGED <<lastRecordingID, completed, phase, recordingID,
                                            executedAs, uses, work>>
  BY <1>2, StutterNumbered DEF VolatilesInv, recordingVars
<1>7. BufferTypes'
  BY <1>2 DEF VolatilesInv, BufferTypes
<1>8. StateTypes'
  <2>1. state' \in [Lists -> [Buffers -> VolatileBufferState \cup {None}]]
    <3>1. (IF state[l][b] # None THEN state[l][b] ELSE new) \in VolatileBufferState \cup {None}
      BY <1>3, <1>4
    <3> QED
      BY <1>2, <1>3, <3>1
  <2>2. writes' \in [Lists -> 0..MaxWrites]
    BY <1>2, <1>3 DEF VolatilesInv, StateTypes
  <2>3. ASSUME NEW k \in Lists, NEW c \in Buffers, state'[k][c] # None
        PROVE  /\ state'[k][c].latest \in Versions(c)
               /\ 1 <= state'[k][c].min /\ state'[k][c].max <= maxVersions[c]
    <3>1. CASE k = l /\ c = b /\ state[l][b] = None
      BY <1>3, <1>4, <1>5, <3>1
    <3>2. CASE ~(k = l /\ c = b /\ state[l][b] = None)
      BY <1>5, <2>3, <3>2 DEF VolatilesInv, StateTypes
    <3> QED
      BY <3>1, <3>2
  <2> QED
    BY <2>1, <2>2, <2>3 DEF StateTypes
<1>9. \A k \in Lists, c \in Buffers :
        /\ WrittenRange(k, c) \subseteq WrittenRange(k, c)'
        /\ PendingVersion(k)' = PendingVersion(k)
  BY <1>5, <1>6 DEF WrittenRange, PendingVersion, MakeVersion
<1>10. WordsOwned'
  BY <1>2, <1>6, <1>9 DEF VolatilesInv, WordsOwned
<1>11. UsesKept' /\ WorkKept'
  BY <1>2, <1>6, ZenonT(40) DEF VolatilesInv, UsesKept, WorkKept, WaitsFor, PendingVersion, Bound
<1>12. LatestOwned'
  BY <1>2, <1>4, <1>5, <1>6, <1>9 DEF VolatilesInv, LatestOwned
<1>13. SearchesOK'
  <2>1. /\ s.buffer = b /\ s.finished = lastFinishedID /\ s.start = versionSearchStart[b]
        /\ s.index = 0 /\ s.found = None
    BY <1>1
  <2>2. /\ lastFinishedID \in [Queues -> Nat]
        /\ \A q \in Queues : lastFinishedID[q] <= completed[q]
    BY DEF VolatilesInv, RecordingsInv, RecordingsTypeOK
  <2>3. versionSearchStart[b] \in Versions(b) /\ versionSearchStart[b] \in Nat
    BY DEF VolatilesInv, BufferTypes
  <2>4. SearchOK(s, completed)
    <3>1. s \in [buffer : Buffers, finished : [Queues -> Nat], start : Nat, index : Nat,
                 found : Word \cup {None}]
      BY <1>1, <2>2, <2>3
    <3> QED
      BY <1>3, <2>1, <2>2, <2>3, <3>1 DEF SearchOK
  <2>5. ASSUME NEW k \in Lists, search'[k] # None
        PROVE  /\ phase[k] = "open" /\ SearchOK(search'[k], completed)
               /\ state'[k][search'[k].buffer] # None
    <3>1. CASE k = l
      <4>1. search'[k] = s
        BY <1>2, <3>1 DEF VolatilesInv, SearchesOK
      <4>2. state'[l][b] # None
        BY <1>4, <1>5
      <4> QED
        BY <1>2, <2>1, <2>4, <3>1, <4>1, <4>2
    <3>2. CASE k # l
      <4>1. search'[k] = search[k]
        BY <1>2, <3>2 DEF VolatilesInv, SearchesOK
      <4>2. phase[k] = "open" /\ SearchOK(search[k], completed) /\ state[k][search[k].buffer] # None
        BY <2>5, <4>1 DEF VolatilesInv, SearchesOK
      <4>3. search[k].buffer \in Buffers
        BY <4>2 DEF SearchOK
      <4>4. state'[k][search[k].buffer] # None
        BY <1>5, <3>2, <4>2, <4>3
      <4> QED
        BY <4>1, <4>2, <4>4
    <3> QED
      BY <3>1, <3>2
  <2> QED
    BY <1>2, <1>6, <2>5 DEF VolatilesInv, SearchesOK
<1> QED
  BY <1>6, <1>7, <1>8, <1>10, <1>11, <1>12, <1>13 DEF VolatilesInv

\* Only the search of a list changes.
LEMMA SearchOnly ==
  ASSUME VolatilesAssumption, VolatilesInv, NEW l \in Lists, NEW s,
         search' = [search EXCEPT ![l] = s],
         s # None => phase[l] = "open" /\ SearchOK(s, completed) /\ state[l][s.buffer] # None,
         UNCHANGED <<recordingVars, versionTracking, versionSearchStart, hostData, deviceData,
                     state, writes>>
  PROVE  VolatilesInv'
<1>1. RecordingsInv(Memory)' /\ UNCHANGED <<lastRecordingID, completed, phase, recordingID,
                                            executedAs, uses, work>>
  BY StutterNumbered DEF VolatilesInv, recordingVars
<1>2. BufferTypes' /\ StateTypes'
  BY DEF VolatilesInv, BufferTypes, StateTypes
<1>3. WordsOwned' /\ LatestOwned'
  BY <1>1 DEF VolatilesInv, WordsOwned, LatestOwned, WrittenRange, PendingVersion
<1>4. UsesKept' /\ WorkKept'
  BY <1>1, ZenonT(40) DEF VolatilesInv, UsesKept, WorkKept, WaitsFor, PendingVersion, Bound
<1>5. SearchesOK'
  BY <1>1 DEF VolatilesInv, SearchesOK
<1> QED
  BY <1>1, <1>2, <1>3, <1>4, <1>5 DEF VolatilesInv

\* A search looks at versions of its buffer.
LEMMA SearchedFacts ==
  ASSUME VolatilesAssumption, VolatilesInv, NEW s, SearchOK(s, completed)
  PROVE  /\ s.buffer \in Buffers /\ SearchedVersion(s) \in Versions(s.buffer)
         /\ versionTracking[s.buffer][SearchedVersion(s)] \in Word
<1>1. /\ s.buffer \in Buffers /\ s.start \in Nat /\ s.index \in Nat /\ s.index < maxVersions[s.buffer]
      /\ s.start \in Versions(s.buffer)
  BY DEF SearchOK
<1>2. PICK m : m = maxVersions[s.buffer]
  OBVIOUS
<1>3. m \in Nat \ {0} /\ Versions(s.buffer) = 1..m
  BY <1>1, <1>2 DEF VolatilesAssumption, VolatileBuffersAssumption, Versions
<1>4. SearchedVersion(s) \in Versions(s.buffer)
  BY <1>1, <1>2, <1>3 DEF SearchedVersion
<1> QED
  BY <1>1, <1>4 DEF VolatilesInv, BufferTypes

LEMMA SearchStepHolds ==
  ASSUME VolatilesAssumption, VolatilesInv, NEW l \in Lists, SearchStep(l)
  PROVE  VolatilesInv'
<1>1. PICK s : s = search[l]
  OBVIOUS
<1>2. PICK word : word = versionTracking[s.buffer][SearchedVersion(s)]
  OBVIOUS
<1>3. PICK t : t = IF Finished(l, word) THEN [s EXCEPT !.found = word]
                   ELSE IF s.index + 1 < maxVersions[s.buffer] THEN [s EXCEPT !.index = @ + 1]
                   ELSE None
  OBVIOUS
<1>4. /\ s # None /\ s.found = None /\ search' = [search EXCEPT ![l] = t]
      /\ UNCHANGED <<recordingVars, versionTracking, versionSearchStart, hostData, deviceData,
                     state, writes>>
  BY <1>1, <1>2, <1>3 DEF SearchStep
<1>5. phase[l] = "open" /\ SearchOK(s, completed) /\ state[l][s.buffer] # None
  BY <1>1, <1>4 DEF VolatilesInv, SearchesOK
<1>6. word \in Word
  BY <1>2, <1>5, SearchedFacts
<1>7. CASE Finished(l, word)
  <2>1. t = [s EXCEPT !.found = word]
    BY <1>3, <1>7
  <2>2. /\ t \in [buffer : Buffers, finished : [Queues -> Nat], start : Nat, index : Nat,
                  found : Word \cup {None}]
        /\ t.buffer = s.buffer /\ t.finished = s.finished /\ t.start = s.start /\ t.index = s.index
        /\ t.found = word
    BY <1>5, <1>6, <2>1 DEF SearchOK
  <2>3. Free(word, s.finished)
    BY <1>1, <1>7 DEF Finished, Free
  <2>4. SearchOK(t, completed)
    BY <1>5, <2>2, <2>3 DEF SearchOK
  <2> QED
    BY <1>4, <1>5, <2>2, <2>4, SearchOnly
<1>8. CASE ~Finished(l, word) /\ s.index + 1 < maxVersions[s.buffer]
  <2>1. t = [s EXCEPT !.index = @ + 1]
    BY <1>3, <1>8
  <2>2. /\ t \in [buffer : Buffers, finished : [Queues -> Nat], start : Nat, index : Nat,
                  found : Word \cup {None}]
        /\ t.buffer = s.buffer /\ t.finished = s.finished /\ t.start = s.start
        /\ t.index = s.index + 1 /\ t.found = None
    BY <1>4, <1>5, <2>1 DEF SearchOK
  <2>3. SearchOK(t, completed)
    BY <1>5, <1>8, <2>2 DEF SearchOK
  <2> QED
    BY <1>4, <1>5, <2>2, <2>3, SearchOnly
<1>9. CASE ~Finished(l, word) /\ ~(s.index + 1 < maxVersions[s.buffer])
  BY <1>3, <1>4, <1>9, SearchOnly
<1> QED
  BY <1>7, <1>8, <1>9

LEMMA RetrySearchHolds ==
  ASSUME VolatilesAssumption, VolatilesInv, NEW l \in Lists, RetrySearch(l)
  PROVE  VolatilesInv'
<1>1. PICK s, t : s = search[l] /\ t = [s EXCEPT !.index = 0, !.found = None]
  OBVIOUS
<1>2. /\ s # None /\ search' = [search EXCEPT ![l] = t]
      /\ UNCHANGED <<recordingVars, versionTracking, versionSearchStart, hostData, deviceData,
                     state, writes>>
  BY <1>1 DEF RetrySearch
<1>3. phase[l] = "open" /\ SearchOK(s, completed) /\ state[l][s.buffer] # None
  BY <1>1, <1>2 DEF VolatilesInv, SearchesOK
<1>4. /\ t \in [buffer : Buffers, finished : [Queues -> Nat], start : Nat, index : Nat,
                found : Word \cup {None}]
      /\ t.buffer = s.buffer /\ t.finished = s.finished /\ t.start = s.start /\ t.index = 0
      /\ t.found = None
  BY <1>1, <1>3 DEF SearchOK
<1>5. maxVersions[s.buffer] > 0
  BY <1>3 DEF SearchOK, VolatilesAssumption, VolatileBuffersAssumption
<1>6. SearchOK(t, completed)
  BY <1>3, <1>4, <1>5 DEF SearchOK
<1> QED
  BY <1>2, <1>3, <1>4, <1>6, SearchOnly

\* The exchange succeeds only if the word is still the one found to be free: then no
\* recording and no unfinished submission uses the version.
LEMMA ClaimVersionHolds ==
  ASSUME VolatilesAssumption, VolatilesInv, NEW l \in Lists, ClaimVersion(l)
  PROVE  VolatilesInv'
<1>1. PICK s, b, v, f : s = search[l] /\ b = s.buffer /\ v = SearchedVersion(s) /\ f = s.found
  OBVIOUS
<1>2. PICK old, p, d, n : /\ old = state[l][b] /\ p = PendingVersion(l)
                          /\ d = Data(l, writes[l]) /\ n = NextStart(b, v)
  OBVIOUS
<1>3. PICK new : new = [latest |-> v, min |-> Least(v, old.min), max |-> Greatest(v, old.max),
                        written |-> TRUE]
  OBVIOUS
<1>4. /\ s # None /\ f # None /\ versionTracking[b][v] = f
      /\ versionTracking' = [versionTracking EXCEPT ![b][v] = p]
      /\ versionSearchStart' = [versionSearchStart EXCEPT ![b] = n]
      /\ state' = [state EXCEPT ![l][b] = new]
      /\ hostData' = [hostData EXCEPT ![b][v] = d]
      /\ search' = [search EXCEPT ![l] = None]
      /\ UNCHANGED <<recordingVars, deviceData, writes>>
  BY <1>1, <1>2, <1>3 DEF ClaimVersion, UnchangedSince
<1>5. phase[l] = "open" /\ SearchOK(s, completed) /\ old # None
  BY <1>1, <1>2, <1>4 DEF VolatilesInv, SearchesOK
<1>6. b \in Buffers /\ v \in Versions(b) /\ Versions(b) = 1..maxVersions[b] /\ maxVersions[b] \in Nat \ {0}
  BY <1>1, <1>5, SearchedFacts
     DEF SearchOK, Versions, VolatilesAssumption, VolatileBuffersAssumption
<1>7. f \in Word /\ Free(f, s.finished) /\ \A q \in Queues : s.finished[q] \in Nat /\ s.finished[q] <= completed[q]
  BY <1>1, <1>4, <1>5 DEF SearchOK
<1>8. /\ \A k \in Lists : phase[k] # "idle" => f # PendingVersion(k)
      /\ \A k \in Lists, q \in Queues : \A i \in DOMAIN work[q] :
           work[q][i] # {} => ~WaitsFor(f, k, q, i)
  BY <1>7, FreeUnused
<1>9. /\ p \in Word /\ p # Available /\ p.submitted = FALSE /\ p.instance = recordingID[l]
      /\ p.queue = QueueOf[l] /\ \A k \in Lists : k # l => PendingVersion(k) # p
  BY <1>2, <1>5, PendingFacts DEF VolatilesInv
<1>10. /\ state \in [Lists -> [Buffers -> VolatileBufferState \cup {None}]]
       /\ None \notin VolatileBufferState
  BY DEF VolatilesAssumption, VolatileBuffersAssumption, VolatilesInv, StateTypes
<1>11. old \in VolatileBufferState /\ 1 <= old.min /\ old.max <= maxVersions[b]
  BY <1>2, <1>5, <1>6, <1>10 DEF VolatilesInv, StateTypes
<1>12. /\ new \in VolatileBufferState /\ new # None /\ new.latest = v /\ new.written = TRUE
       /\ new.min = Least(v, old.min) /\ new.max = Greatest(v, old.max)
  <2>1. PICK lo, hi : lo = Least(v, old.min) /\ hi = Greatest(v, old.max)
    OBVIOUS
  <2>2. old.min \in Nat /\ old.max \in Nat /\ v \in Nat
    BY <1>6, <1>11 DEF VolatileBufferState
  <2>3. lo \in Nat /\ hi \in Nat
    BY <2>1, <2>2 DEF Least, Greatest
  <2>4. new = [latest |-> v, min |-> lo, max |-> hi, written |-> TRUE]
    BY <1>3, <2>1
  <2>5. new \in VolatileBufferState
    BY <2>2, <2>3, <2>4 DEF VolatileBufferState
  <2> QED
    BY <1>10, <2>1, <2>4, <2>5
<1>13. /\ new.min <= v /\ v <= new.max /\ new.min <= old.min /\ old.max <= new.max
       /\ 1 <= new.min /\ new.max <= maxVersions[b]
  <2>1. old.min \in Nat /\ old.max \in Nat /\ v \in Nat /\ 1 <= v /\ v <= maxVersions[b]
    BY <1>6, <1>11 DEF VolatileBufferState
  <2> QED
    BY <1>6, <1>11, <1>12, <2>1 DEF Least, Greatest
<1>14. RecordingsInv(Memory)' /\ UNCHANGED <<lastRecordingID, completed, phase, recordingID,
                                             executedAs, uses, work>>
  BY <1>4, StutterNumbered DEF VolatilesInv, recordingVars
<1>15. ASSUME NEW c \in Buffers, NEW w \in Versions(c)
       PROVE  /\ versionTracking'[c][w] = IF c = b /\ w = v THEN p ELSE versionTracking[c][w]
              /\ hostData'[c][w] = IF c = b /\ w = v THEN d ELSE hostData[c][w]
  <2>1. /\ DOMAIN versionTracking = Buffers /\ DOMAIN hostData = Buffers
        /\ versionTracking[c] \in [Versions(c) -> Word] /\ hostData[c] \in [Versions(c) -> DataSet]
    BY DEF VolatilesInv, BufferTypes
  <2>2. CASE c = b
    BY <1>4, <1>6, <2>1, <2>2
  <2>3. CASE c # b
    BY <1>4, <2>1, <2>3
  <2> QED
    BY <2>2, <2>3
<1>16. ASSUME NEW k \in Lists, NEW c \in Buffers
       PROVE  state'[k][c] = IF k = l /\ c = b THEN new ELSE state[k][c]
  <2>1. CASE k = l /\ c = b
    BY <1>4, <1>10, <2>1
  <2>2. CASE k = l /\ c # b
    BY <1>4, <1>10, <2>2
  <2>3. CASE k # l
    BY <1>4, <1>10, <2>3
  <2> QED
    BY <2>1, <2>2, <2>3
<1>17. d \in DataSet
  <2>1. recordingID[l] \in Nat /\ writes[l] \in Nat
    BY DEF VolatilesInv, RecordingsInv, RecordingsTypeOK, StateTypes, VolatilesAssumption,
           VolatileBuffersAssumption, RecordingsAssumption
  <2> QED
    BY <1>2, <2>1 DEF DataSet, Data
<1>18. BufferTypes'
  <2>1. DOMAIN versionTracking' = Buffers /\ DOMAIN hostData' = Buffers
    BY <1>4 DEF VolatilesInv, BufferTypes
  <2>2. n \in Versions(b) /\ n \in Nat
    BY <1>2, <1>6 DEF NextStart
  <2>3. versionSearchStart' \in [Buffers -> Nat] /\ \A c \in Buffers : versionSearchStart'[c] \in Versions(c)
    BY <1>4, <2>2 DEF VolatilesInv, BufferTypes
  <2>4. ASSUME NEW c \in Buffers
        PROVE  versionTracking'[c] \in [Versions(c) -> Word] /\ hostData'[c] \in [Versions(c) -> DataSet]
    <3>1. /\ DOMAIN versionTracking = Buffers /\ DOMAIN hostData = Buffers
          /\ versionTracking[c] \in [Versions(c) -> Word] /\ hostData[c] \in [Versions(c) -> DataSet]
      BY DEF VolatilesInv, BufferTypes
    <3>2. CASE c = b
      BY <1>4, <1>9, <1>17, <3>1, <3>2
    <3>3. CASE c # b
      BY <1>4, <3>1, <3>3
    <3> QED
      BY <3>2, <3>3
  <2> QED
    BY <2>1, <2>3, <2>4 DEF BufferTypes
<1>19. StateTypes'
  <2>1. state' \in [Lists -> [Buffers -> VolatileBufferState \cup {None}]]
    BY <1>4, <1>10, <1>12
  <2>2. writes' \in [Lists -> 0..MaxWrites]
    BY <1>4 DEF VolatilesInv, StateTypes
  <2>3. ASSUME NEW k \in Lists, NEW c \in Buffers, state'[k][c] # None
        PROVE  /\ state'[k][c].latest \in Versions(c)
               /\ 1 <= state'[k][c].min /\ state'[k][c].max <= maxVersions[c]
    <3>1. CASE k = l /\ c = b
      BY <1>6, <1>12, <1>13, <1>16, <3>1
    <3>2. CASE ~(k = l /\ c = b)
      BY <1>16, <2>3, <3>2 DEF VolatilesInv, StateTypes
    <3> QED
      BY <3>1, <3>2
  <2> QED
    BY <2>1, <2>2, <2>3 DEF StateTypes
<1>20. \A k \in Lists : PendingVersion(k)' = PendingVersion(k)
  BY <1>14 DEF PendingVersion, MakeVersion
<1>21. ASSUME NEW k \in Lists, NEW c \in Buffers PROVE WrittenRange(k, c) \subseteq WrittenRange(k, c)'
  <2>1. CASE k = l /\ c = b
    <3>1. old.min \in Nat /\ old.max \in Nat /\ new.min \in Nat /\ new.max \in Nat
      BY <1>11, <1>12 DEF VolatileBufferState
    <3>2. old.min..old.max \subseteq new.min..new.max
      BY <1>13, <3>1
    <3> QED
      BY <1>2, <1>5, <1>12, <1>16, <2>1, <3>2 DEF WrittenRange
  <2>2. CASE ~(k = l /\ c = b)
    BY <1>16, <2>2 DEF WrittenRange
  <2> QED
    BY <2>1, <2>2
<1>22. WordsOwned'
  <2>1. ASSUME NEW c \in Buffers, NEW w \in Versions(c)
        PROVE  /\ versionTracking'[c][w] # Available /\ ~versionTracking'[c][w].submitted =>
                   /\ versionTracking'[c][w].instance <= lastRecordingID[versionTracking'[c][w].queue]
                   /\ \A k \in Lists : versionTracking'[c][w].queue = QueueOf[k] =>
                        versionTracking'[c][w].instance \notin executedAs[k]
               /\ \A k \in Lists : phase[k] # "idle" /\ versionTracking'[c][w] = PendingVersion(k) =>
                    w \in WrittenRange(k, c)'
    <3>1. CASE c = b /\ w = v
      <4>1. versionTracking'[c][w] = p
        BY <1>15, <3>1
      <4>2. recordingID[l] # 0
        BY <1>5 DEF VolatilesInv, RecordingsInv, RecordingsNumbered
      <4>3. /\ recordingID[l] <= lastRecordingID[QueueOf[l]]
            /\ \A k \in Lists : QueueOf[l] = QueueOf[k] => recordingID[l] \notin executedAs[k]
        BY <4>2 DEF VolatilesInv, RecordingsInv, RecordingsNumbered
      <4>4. v \in WrittenRange(l, b)'
        <5>1. new.min \in Nat /\ new.max \in Nat /\ v \in Nat
          BY <1>6, <1>12 DEF VolatileBufferState
        <5> QED
          BY <1>12, <1>13, <1>16, <1>6, <5>1 DEF WrittenRange
      <4> QED
        BY <1>9, <3>1, <4>1, <4>3, <4>4
    <3>2. CASE ~(c = b /\ w = v)
      <4>1. versionTracking'[c][w] = versionTracking[c][w]
        BY <1>15, <3>2
      <4> QED
        BY <1>21, <4>1 DEF VolatilesInv, WordsOwned
    <3> QED
      BY <3>1, <3>2
  <2> QED
    BY <1>14, <1>20, <2>1 DEF WordsOwned
<1>23. UsesKept'
  <2> SUFFICES ASSUME NEW k \in Lists, NEW u \in uses[k]
               PROVE  /\ Bound(u) /\ hostData'[u.buffer][u.version] = u.data
                      /\ versionTracking'[u.buffer][u.version] = PendingVersion(k)
                      /\ phase[k] = "closed" => deviceData[u.buffer][u.version] = u.data
    BY <1>4, <1>14, <1>20 DEF UsesKept, Bound
  <2>1. /\ Bound(u) /\ hostData[u.buffer][u.version] = u.data
        /\ versionTracking[u.buffer][u.version] = PendingVersion(k)
        /\ phase[k] = "closed" => deviceData[u.buffer][u.version] = u.data
    BY DEF VolatilesInv, UsesKept
  <2>2. phase[k] # "idle"
    BY DEF VolatilesInv, RecordingsInv, UsesOwned
  <2>3. ~(u.buffer = b /\ u.version = v)
    BY <1>4, <1>8, <2>1, <2>2
  <2> QED
    BY <1>15, <2>1, <2>3 DEF Bound
<1>24. WorkKept'
  <2> SUFFICES ASSUME NEW q \in Queues, NEW i \in DOMAIN work[q], NEW u \in work[q][i]
               PROVE  /\ Bound(u) /\ hostData'[u.buffer][u.version] = u.data
                      /\ deviceData[u.buffer][u.version] = u.data
                      /\ WaitsFor(versionTracking'[u.buffer][u.version], u.list, q, i)
    <3>1. \A word, k, q, i : WaitsFor(word, k, q, i)' <=> WaitsFor(word, k, q, i)
      BY <1>14 DEF WaitsFor, PendingVersion
    <3> QED
      BY <1>4, <1>14, <3>1 DEF WorkKept, Bound
  <2>1. /\ Bound(u) /\ hostData[u.buffer][u.version] = u.data
        /\ deviceData[u.buffer][u.version] = u.data
        /\ WaitsFor(versionTracking[u.buffer][u.version], u.list, q, i) /\ u.list \in Lists
    BY DEF VolatilesInv, WorkKept, RecordingsInv, WorkOwned
  <2>2. ~(u.buffer = b /\ u.version = v)
    BY <1>4, <1>8, <2>1
  <2> QED
    BY <1>15, <2>1, <2>2 DEF Bound
<1>25. LatestOwned'
  <2> SUFFICES ASSUME NEW k \in Lists, NEW c \in Buffers,
                      phase[k] = "open", state'[k][c] # None, state'[k][c].written
               PROVE  versionTracking'[c][state'[k][c].latest] = PendingVersion(k)
    BY <1>14, <1>20 DEF LatestOwned
  <2>1. CASE k = l /\ c = b
    BY <1>2, <1>6, <1>12, <1>15, <1>16, <2>1
  <2>2. CASE ~(k = l /\ c = b)
    <3>1. state'[k][c] = state[k][c]
      BY <1>16, <2>2
    <3>2. /\ versionTracking[c][state[k][c].latest] = PendingVersion(k)
          /\ state[k][c].latest \in Versions(c)
      BY <3>1 DEF VolatilesInv, LatestOwned, StateTypes
    <3>3. ~(c = b /\ state[k][c].latest = v)
      BY <1>4, <1>8, <3>2
    <3> QED
      BY <1>15, <3>1, <3>2, <3>3
  <2> QED
    BY <2>1, <2>2
<1>26. SearchesOK'
  <2> SUFFICES ASSUME NEW k \in Lists, search'[k] # None
               PROVE  /\ phase[k] = "open" /\ SearchOK(search'[k], completed)
                      /\ state'[k][search'[k].buffer] # None
    BY <1>4, <1>14 DEF VolatilesInv, SearchesOK
  <2>1. k # l /\ search'[k] = search[k]
    BY <1>4 DEF VolatilesInv, SearchesOK
  <2>2. phase[k] = "open" /\ SearchOK(search[k], completed) /\ state[k][search[k].buffer] # None
    BY <2>1 DEF VolatilesInv, SearchesOK
  <2>3. search[k].buffer \in Buffers
    BY <2>2 DEF SearchOK
  <2> QED
    BY <1>16, <2>1, <2>2, <2>3
<1> QED
  BY <1>14, <1>18, <1>19, <1>22, <1>23, <1>24, <1>25, <1>26 DEF VolatilesInv

-----------------------------------------------------------------------------
(* The other commands of a list.                                            *)

\* The latest version is the recording's own.
LEMMA BindHolds ==
  ASSUME VolatilesAssumption, VolatilesInv, NEW l \in Lists, NEW b \in Buffers, Bind(l, b)
  PROVE  VolatilesInv'
<1>1. PICK v, d : v = state[l][b].latest /\ d = hostData[b][v]
  OBVIOUS
<1>2. PICK new : new = [buffer |-> b, version |-> v, data |-> d, list |-> l]
  OBVIOUS
<1>3. /\ state[l][b] # None /\ state[l][b].written /\ Use(l, {new}) /\ UNCHANGED bufferVars
  BY <1>1, <1>2 DEF Bind
<1>4. /\ phase[l] = "open" /\ uses' = [uses EXCEPT ![l] = @ \cup {new}]
      /\ UNCHANGED <<lastRecordingID, lastSubmittedID, lastFinishedID, completed, phase,
                     recordingID, submissionID, executedAs, work>>
  BY <1>3 DEF Use
<1>5. v \in Versions(b) /\ v \in Nat /\ d \in DataSet /\ versionTracking[b][v] = PendingVersion(l)
  <2>1. v \in Versions(b) /\ versionTracking[b][v] = PendingVersion(l)
    BY <1>1, <1>3, <1>4 DEF VolatilesInv, StateTypes, LatestOwned
  <2>2. v \in Nat
    BY <2>1 DEF Versions, VolatilesAssumption, VolatileBuffersAssumption
  <2>3. d \in DataSet
    BY <1>1, <2>1 DEF VolatilesInv, BufferTypes
  <2> QED
    BY <2>1, <2>2, <2>3
<1>6. new \in Memory /\ new.list = l /\ new.buffer = b /\ new.version = v /\ new.data = d
  BY <1>2, <1>5 DEF Memory
<1>7. RecordingsInv(Memory)'
  BY <1>3, <1>6, UseNumbered DEF VolatilesAssumption, VolatilesInv
<1>8. UNCHANGED <<versionTracking, versionSearchStart, hostData, deviceData, state, writes, search>>
  BY <1>3 DEF bufferVars
<1>9. BufferTypes' /\ StateTypes'
  BY <1>8 DEF VolatilesInv, BufferTypes, StateTypes
<1>10. WordsOwned' /\ LatestOwned' /\ SearchesOK'
  BY <1>4, <1>8 DEF VolatilesInv, WordsOwned, LatestOwned, SearchesOK, WrittenRange, PendingVersion
<1>11. UsesKept'
  <2> SUFFICES ASSUME NEW k \in Lists, NEW u \in uses'[k]
               PROVE  /\ Bound(u) /\ hostData[u.buffer][u.version] = u.data
                      /\ versionTracking[u.buffer][u.version] = PendingVersion(k)
                      /\ phase[k] = "closed" => deviceData[u.buffer][u.version] = u.data
    BY <1>4, <1>8 DEF UsesKept, Bound, PendingVersion
  <2>1. CASE u \in uses[k]
    BY <2>1 DEF VolatilesInv, UsesKept
  <2>2. CASE u \notin uses[k]
    <3>1. k = l /\ u = new
      BY <1>4, <2>2 DEF VolatilesInv, RecordingsInv, MemoryTypes
    <3> QED
      BY <1>1, <1>4, <1>5, <1>6, <3>1 DEF Bound
  <2> QED
    BY <2>1, <2>2
<1>12. WorkKept'
  BY <1>4, <1>8, ZenonT(40) DEF VolatilesInv, WorkKept, WaitsFor, PendingVersion, Bound
<1> QED
  BY <1>7, <1>9, <1>10, <1>11, <1>12 DEF VolatilesInv

\* No word waits for the new recording yet, and the states are written anew.
LEMMA OpenRecordingHolds ==
  ASSUME VolatilesAssumption, VolatilesInv, NEW l \in Lists, OpenRecording(l)
  PROVE  VolatilesInv'
<1>1. PICK q, id : q = QueueOf[l] /\ id = lastRecordingID[q] + 1
  OBVIOUS
<1>2. /\ Open(l) /\ phase[l] \in {"idle", "closed"}
      /\ lastRecordingID' = [lastRecordingID EXCEPT ![q] = id]
      /\ recordingID' = [recordingID EXCEPT ![l] = id]
      /\ phase' = [phase EXCEPT ![l] = "open"]
      /\ uses' = [uses EXCEPT ![l] = {}]
      /\ UNCHANGED <<lastSubmittedID, lastFinishedID, completed, submissionID, executedAs, work>>
      /\ writes' = [writes EXCEPT ![l] = 0]
      /\ state' = [state EXCEPT ![l] = [b \in Buffers |->
            IF @[b] = None THEN None ELSE [@[b] EXCEPT !.written = FALSE]]]
      /\ UNCHANGED <<versionTracking, versionSearchStart, hostData, deviceData, search>>
  BY <1>1 DEF OpenRecording, Open
<1>3. /\ phase \in [Lists -> {"idle", "open", "closed", "submitted"}]
      /\ lastRecordingID \in [Queues -> Nat] /\ q \in Queues /\ id \in Nat \ {0}
      /\ recordingID \in [Lists -> Nat] /\ uses \in [Lists -> SUBSET Memory]
  BY <1>1 DEF VolatilesInv, RecordingsInv, RecordingsTypeOK, MemoryTypes, VolatilesAssumption,
              RecordingsAssumption
<1>4. /\ state \in [Lists -> [Buffers -> VolatileBufferState \cup {None}]]
      /\ None \notin VolatileBufferState /\ MaxWrites \in Nat
  BY DEF VolatilesAssumption, VolatileBuffersAssumption, VolatilesInv, StateTypes
<1>5. RecordingsInv(Memory)'
  BY <1>2, OpenNumbered DEF VolatilesAssumption, VolatilesInv
<1>6. ASSUME NEW c \in Buffers
      PROVE  /\ state[l][c] = None => state'[l][c] = None
             /\ state[l][c] # None => /\ state'[l][c] \in VolatileBufferState
                                      /\ state'[l][c].latest = state[l][c].latest
                                      /\ state'[l][c].min = state[l][c].min
                                      /\ state'[l][c].max = state[l][c].max
                                      /\ state'[l][c].written = FALSE
  <2>1. state'[l][c] = IF state[l][c] = None THEN None ELSE [state[l][c] EXCEPT !.written = FALSE]
    BY <1>2, <1>4
  <2>2. CASE state[l][c] = None
    BY <2>1, <2>2
  <2>3. CASE state[l][c] # None
    <3>1. PICK x : x = state[l][c]
      OBVIOUS
    <3>2. x \in VolatileBufferState /\ state'[l][c] = [x EXCEPT !.written = FALSE]
      BY <1>4, <2>1, <2>3, <3>1
    <3> QED
      BY <2>3, <3>1, <3>2 DEF VolatileBufferState
  <2> QED
    BY <2>2, <2>3
<1>7. \A k \in Lists : k # l => /\ state'[k] = state[k] /\ phase'[k] = phase[k] /\ uses'[k] = uses[k]
                                /\ PendingVersion(k)' = PendingVersion(k)
  BY <1>2, <1>3, <1>4 DEF PendingVersion, MakeVersion
<1>8. phase'[l] = "open" /\ uses'[l] = {} /\ recordingID'[l] = id
  BY <1>2, <1>3
<1>9. BufferTypes'
  BY <1>2 DEF VolatilesInv, BufferTypes
<1>10. StateTypes'
  <2>1. state' \in [Lists -> [Buffers -> VolatileBufferState \cup {None}]]
    <3>1. PICK t : t = [b \in Buffers |->
                        IF state[l][b] = None THEN None ELSE [state[l][b] EXCEPT !.written = FALSE]]
      OBVIOUS
    <3>2. state' = [state EXCEPT ![l] = t]
      BY <1>2, <3>1
    <3>3. \A c \in Buffers : t[c] \in VolatileBufferState \cup {None}
      BY <1>4, <1>6, <3>2
    <3>4. t \in [Buffers -> VolatileBufferState \cup {None}]
      BY <3>1, <3>3
    <3> QED
      BY <1>4, <3>2, <3>4
  <2>2. writes' \in [Lists -> 0..MaxWrites]
    BY <1>2, <1>4 DEF VolatilesInv, StateTypes
  <2>3. ASSUME NEW k \in Lists, NEW c \in Buffers, state'[k][c] # None
        PROVE  /\ state'[k][c].latest \in Versions(c)
               /\ 1 <= state'[k][c].min /\ state'[k][c].max <= maxVersions[c]
    <3>1. CASE k = l
      BY <1>6, <2>3, <3>1 DEF VolatilesInv, StateTypes
    <3>2. CASE k # l
      BY <1>7, <2>3, <3>2 DEF VolatilesInv, StateTypes
    <3> QED
      BY <3>1, <3>2
  <2> QED
    BY <2>1, <2>2, <2>3 DEF StateTypes
<1>11. WordsOwned'
  <2> SUFFICES ASSUME NEW c \in Buffers, NEW w \in Versions(c)
        PROVE  /\ versionTracking[c][w] # Available /\ ~versionTracking[c][w].submitted =>
                   /\ versionTracking[c][w].instance <= lastRecordingID'[versionTracking[c][w].queue]
                   /\ \A k \in Lists : versionTracking[c][w].queue = QueueOf[k] =>
                        versionTracking[c][w].instance \notin executedAs[k]
               /\ \A k \in Lists : phase'[k] # "idle" /\ versionTracking[c][w] = PendingVersion(k)' =>
                    w \in WrittenRange(k, c)'
    BY <1>2 DEF WordsOwned
  <2>1. PICK word : word = versionTracking[c][w]
    OBVIOUS
  <2>2. word \in Word
    BY <2>1 DEF VolatilesInv, BufferTypes
  <2>3. ASSUME word # Available, ~word.submitted
        PROVE  /\ word.instance <= lastRecordingID[word.queue]
               /\ word.instance <= lastRecordingID'[word.queue]
               /\ \A k \in Lists : word.queue = QueueOf[k] => word.instance \notin executedAs[k]
    <3>1. /\ word.instance <= lastRecordingID[word.queue]
          /\ \A k \in Lists : word.queue = QueueOf[k] => word.instance \notin executedAs[k]
      BY <2>1, <2>3 DEF VolatilesInv, WordsOwned
    <3>2. word.queue \in Queues /\ word.instance \in Nat
      BY <2>2, <2>3 DEF Word
    <3>3. lastRecordingID[word.queue] <= lastRecordingID'[word.queue]
      BY <1>1, <1>2, <1>3, <3>2
    <3> QED
      BY <1>2, <1>3, <3>1, <3>2, <3>3
  <2>4. ASSUME NEW k \in Lists, phase'[k] # "idle", word = PendingVersion(k)'
        PROVE  w \in WrittenRange(k, c)'
    <3>1. CASE k = l
      <4>1. word = [instance |-> id, queue |-> q, submitted |-> FALSE]
        BY <1>1, <1>8, <2>4, <3>1 DEF PendingVersion, MakeVersion
      <4>2. word # Available /\ ~word.submitted /\ word.instance = id /\ word.queue = q
        BY <1>3, <4>1 DEF Available
      <4>3. id <= lastRecordingID[q]
        BY <2>3, <4>2
      <4> QED
        BY <1>1, <1>3, <4>3
    <3>2. CASE k # l
      BY <1>7, <2>1, <2>4, <3>2 DEF VolatilesInv, WordsOwned, WrittenRange
    <3> QED
      BY <3>1, <3>2
  <2> QED
    BY <2>1, <2>3, <2>4
<1>12. UsesKept'
  <2> SUFFICES ASSUME NEW k \in Lists, NEW u \in uses'[k]
               PROVE  /\ Bound(u) /\ hostData[u.buffer][u.version] = u.data
                      /\ versionTracking[u.buffer][u.version] = PendingVersion(k)'
                      /\ phase'[k] = "closed" => deviceData[u.buffer][u.version] = u.data
    BY <1>2 DEF UsesKept, Bound
  <2>1. k # l
    BY <1>8
  <2> QED
    BY <1>7, <2>1 DEF VolatilesInv, UsesKept
<1>13. WorkKept'
  <2>1. ASSUME NEW word, NEW k \in Lists, NEW p, NEW i, WaitsFor(word, k, p, i)
        PROVE  WaitsFor(word, k, p, i)'
    <3>1. CASE k = l
      BY <1>2, <2>1, <3>1 DEF WaitsFor
    <3>2. CASE k # l
      BY <1>7, <2>1, <3>2 DEF WaitsFor
    <3> QED
      BY <3>1, <3>2
  <2>2. \A p \in Queues : \A i \in DOMAIN work[p] : \A u \in work[p][i] : u.list \in Lists
    BY DEF VolatilesInv, RecordingsInv, WorkOwned
  <2> QED
    BY <1>2, <2>1, <2>2 DEF VolatilesInv, WorkKept, Bound
<1>14. LatestOwned'
  <2> SUFFICES ASSUME NEW k \in Lists, NEW c \in Buffers,
                      phase'[k] = "open", state'[k][c] # None, state'[k][c].written
               PROVE  versionTracking[c][state'[k][c].latest] = PendingVersion(k)'
    BY <1>2 DEF LatestOwned
  <2>1. k # l
    BY <1>6
  <2> QED
    BY <1>7, <2>1 DEF VolatilesInv, LatestOwned
<1>15. SearchesOK'
  <2> SUFFICES ASSUME NEW k \in Lists, search[k] # None
               PROVE  /\ phase'[k] = "open" /\ SearchOK(search[k], completed)
                      /\ state'[k][search[k].buffer] # None
    BY <1>2 DEF VolatilesInv, SearchesOK
  <2>1. phase[k] = "open" /\ SearchOK(search[k], completed) /\ state[k][search[k].buffer] # None
    BY DEF VolatilesInv, SearchesOK
  <2> QED
    BY <1>2, <1>7, <2>1
<1> QED
  BY <1>5, <1>9, <1>10, <1>11, <1>12, <1>13, <1>14, <1>15 DEF VolatilesInv

\* What the recording has bound lies in the ranges that are flushed.
LEMMA CloseRecordingHolds ==
  ASSUME VolatilesAssumption, VolatilesInv, NEW l \in Lists, CloseRecording(l)
  PROVE  VolatilesInv'
<1>1. /\ search[l] = None /\ Close(l) /\ phase[l] = "open"
      /\ phase' = [phase EXCEPT ![l] = "closed"] /\ deviceData' = Flushed(l)
      /\ UNCHANGED <<lastRecordingID, lastSubmittedID, lastFinishedID, completed,
                     recordingID, submissionID, executedAs, uses, work>>
      /\ UNCHANGED <<versionTracking, versionSearchStart, hostData, state, writes, search>>
  BY DEF CloseRecording, Close
<1>2. phase \in [Lists -> {"idle", "open", "closed", "submitted"}]
  BY DEF VolatilesInv, RecordingsInv, RecordingsTypeOK
<1>3. RecordingsInv(Memory)'
  BY <1>1, CloseNumbered DEF VolatilesAssumption, VolatilesInv
<1>4. BufferTypes' /\ StateTypes'
  BY <1>1 DEF VolatilesInv, BufferTypes, StateTypes
<1>5. /\ phase'[l] = "closed" /\ \A k \in Lists : k # l => phase'[k] = phase[k]
      /\ \A k : PendingVersion(k)' = PendingVersion(k)
      /\ \A k, c : WrittenRange(k, c)' = WrittenRange(k, c)
  BY <1>1, <1>2 DEF PendingVersion, WrittenRange
<1>6. ASSUME NEW u, Bound(u), hostData[u.buffer][u.version] = u.data
      PROVE  /\ deviceData[u.buffer][u.version] = u.data => deviceData'[u.buffer][u.version] = u.data
             /\ u.version \in WrittenRange(l, u.buffer) => deviceData'[u.buffer][u.version] = u.data
  BY <1>1, <1>6 DEF Bound, Flushed
<1>7. WordsOwned'
  BY <1>1, <1>5 DEF VolatilesInv, WordsOwned
<1>8. UsesKept'
  <2> SUFFICES ASSUME NEW k \in Lists, NEW u \in uses[k]
               PROVE  /\ Bound(u) /\ hostData[u.buffer][u.version] = u.data
                      /\ versionTracking[u.buffer][u.version] = PendingVersion(k)
                      /\ phase'[k] = "closed" => deviceData'[u.buffer][u.version] = u.data
    BY <1>1, <1>5 DEF UsesKept, Bound
  <2>1. /\ Bound(u) /\ hostData[u.buffer][u.version] = u.data
        /\ versionTracking[u.buffer][u.version] = PendingVersion(k)
        /\ phase[k] = "closed" => deviceData[u.buffer][u.version] = u.data
    BY DEF VolatilesInv, UsesKept
  <2>2. k = l => u.version \in WrittenRange(l, u.buffer)
    BY <1>1, <2>1 DEF VolatilesInv, WordsOwned, Bound
  <2> QED
    BY <1>5, <1>6, <2>1, <2>2
<1>9. WorkKept'
  <2>1. \A word, k, q, i : WaitsFor(word, k, q, i) /\ k \in Lists => WaitsFor(word, k, q, i)'
    BY <1>1, <1>5 DEF WaitsFor
  <2>2. \A p \in Queues : \A i \in DOMAIN work[p] : \A u \in work[p][i] : u.list \in Lists
    BY DEF VolatilesInv, RecordingsInv, WorkOwned
  <2> SUFFICES ASSUME NEW q \in Queues, NEW i \in DOMAIN work[q], NEW u \in work[q][i]
               PROVE  /\ Bound(u) /\ hostData[u.buffer][u.version] = u.data
                      /\ deviceData'[u.buffer][u.version] = u.data
                      /\ WaitsFor(versionTracking[u.buffer][u.version], u.list, q, i)
    BY <1>1, <2>1, <2>2 DEF WorkKept, Bound
  <2> QED
    BY <1>6 DEF VolatilesInv, WorkKept
<1>10. LatestOwned' /\ SearchesOK'
  BY <1>1, <1>5 DEF VolatilesInv, LatestOwned, SearchesOK
<1> QED
  BY <1>3, <1>4, <1>7, <1>8, <1>9, <1>10 DEF VolatilesInv

\* Every word of the recording lies in its ranges, and waits for its submission then.
LEMMA ExecutedRecordingHolds ==
  ASSUME VolatilesAssumption, VolatilesInv, NEW l \in Lists, ExecutedRecording(l)
  PROVE  VolatilesInv'
<1>1. PICK p, w, id, sub, q : /\ p = PendingVersion(l) /\ w = SubmittedVersion(l)
                              /\ id = recordingID[l] /\ sub = submissionID[l] /\ q = QueueOf[l]
  OBVIOUS
<1>2. /\ Executed(l) /\ phase[l] = "submitted" /\ phase' = [phase EXCEPT ![l] = "idle"]
      /\ executedAs' = [executedAs EXCEPT ![l] = @ \cup {id}]
      /\ recordingID' = [recordingID EXCEPT ![l] = 0]
      /\ submissionID' = [submissionID EXCEPT ![l] = 0]
      /\ UNCHANGED <<lastRecordingID, lastSubmittedID, lastFinishedID, completed, uses, work>>
      /\ versionTracking' = Submitted(l)
      /\ state' = [state EXCEPT ![l] = [b \in Buffers |-> None]]
      /\ UNCHANGED <<versionSearchStart, hostData, deviceData, writes, search>>
  BY <1>1 DEF ExecutedRecording, Executed
<1>3. /\ phase \in [Lists -> {"idle", "open", "closed", "submitted"}] /\ q \in Queues
      /\ sub \in Nat \ {0} /\ recordingID \in [Lists -> Nat]
      /\ executedAs \in [Lists -> SUBSET (1..MaxRecordings)]
      /\ state \in [Lists -> [Buffers -> VolatileBufferState \cup {None}]]
  BY <1>1, <1>2 DEF VolatilesInv, RecordingsInv, RecordingsTypeOK, StateTypes, VolatilesAssumption,
                    RecordingsAssumption, SubmissionsNumbered
<1>4. w = [instance |-> sub, queue |-> q, submitted |-> TRUE]
  BY <1>1 DEF SubmittedVersion, MakeVersion
<1>5. w \in Word /\ w # Available /\ w.submitted = TRUE /\ w.queue = q /\ w.instance = sub
  BY <1>3, <1>4 DEF Word, Available
<1>6. /\ p # Available /\ p.submitted = FALSE /\ p.instance = id /\ p.queue = q
      /\ p = [instance |-> id, queue |-> q, submitted |-> FALSE]
      /\ \A k \in Lists : k # l => PendingVersion(k) # p
  BY <1>1, <1>2, PendingFacts DEF VolatilesInv, PendingVersion, MakeVersion
<1>7. RecordingsInv(Memory)'
  BY <1>2, ExecutedNumbered DEF VolatilesAssumption, VolatilesInv
<1>8. ASSUME NEW b \in Buffers, NEW v \in Versions(b)
      PROVE  /\ versionTracking'[b][v] = IF versionTracking[b][v] = p THEN w ELSE versionTracking[b][v]
             /\ versionTracking[b][v] \in Word
  <2>1. versionTracking[b][v] = p => v \in WrittenRange(l, b)
    BY <1>1, <1>2 DEF VolatilesInv, WordsOwned
  <2>2. versionTracking'[b][v] = IF v \in WrittenRange(l, b) /\ versionTracking[b][v] = p
                                 THEN w ELSE versionTracking[b][v]
    BY <1>1, <1>2 DEF Submitted
  <2> QED
    BY <2>1, <2>2 DEF VolatilesInv, BufferTypes
<1>9. /\ phase'[l] = "idle"
      /\ \A k \in Lists : k # l => /\ phase'[k] = phase[k] /\ executedAs'[k] = executedAs[k]
                                   /\ PendingVersion(k)' = PendingVersion(k)
                                   /\ state'[k] = state[k]
      /\ executedAs'[l] = executedAs[l] \cup {id}
  BY <1>2, <1>3 DEF PendingVersion
<1>10. BufferTypes'
  <2>1. DOMAIN versionTracking' = Buffers
    BY <1>2 DEF Submitted
  <2>2. ASSUME NEW b \in Buffers PROVE versionTracking'[b] \in [Versions(b) -> Word]
    <3>1. versionTracking'[b] = [v \in Versions(b) |-> versionTracking'[b][v]]
      BY <1>2 DEF Submitted
    <3>2. \A v \in Versions(b) : versionTracking'[b][v] \in Word
      BY <1>5, <1>8
    <3> QED
      BY <3>1, <3>2
  <2> QED
    BY <1>2, <2>1, <2>2 DEF VolatilesInv, BufferTypes
<1>11. StateTypes'
  <2>1. /\ state' \in [Lists -> [Buffers -> VolatileBufferState \cup {None}]]
        /\ \A b \in Buffers : state'[l][b] = None
    BY <1>2, <1>3
  <2> QED
    BY <1>2, <1>9, <2>1 DEF VolatilesInv, StateTypes
<1>12. WordsOwned'
  <2> SUFFICES ASSUME NEW b \in Buffers, NEW v \in Versions(b)
        PROVE  /\ versionTracking'[b][v] # Available /\ ~versionTracking'[b][v].submitted =>
                   /\ versionTracking'[b][v].instance <= lastRecordingID[versionTracking'[b][v].queue]
                   /\ \A k \in Lists : versionTracking'[b][v].queue = QueueOf[k] =>
                        versionTracking'[b][v].instance \notin executedAs'[k]
               /\ \A k \in Lists : phase'[k] # "idle" /\ versionTracking'[b][v] = PendingVersion(k)' =>
                    v \in WrittenRange(k, b)'
    BY <1>2 DEF WordsOwned
  <2>1. PICK x, y : x = versionTracking[b][v] /\ y = versionTracking'[b][v]
    OBVIOUS
  <2>2. y = (IF x = p THEN w ELSE x) /\ x \in Word
    BY <1>8, <2>1
  <2>3. ASSUME y # Available, ~y.submitted
        PROVE  /\ y.instance <= lastRecordingID[y.queue]
               /\ \A k \in Lists : y.queue = QueueOf[k] => y.instance \notin executedAs'[k]
    <3>1. y = x /\ x # p
      BY <1>5, <2>2, <2>3
    <3>2. /\ x.instance <= lastRecordingID[x.queue]
          /\ \A k \in Lists : x.queue = QueueOf[k] => x.instance \notin executedAs[k]
      BY <2>1, <2>3, <3>1 DEF VolatilesInv, WordsOwned
    <3>3. x.queue = q => x.instance # id
      <4>1. x \in [instance : Nat \ {0}, queue : Queues, submitted : BOOLEAN]
        BY <2>2, <2>3, <3>1 DEF Word
      <4>2. x.submitted = FALSE
        BY <2>3, <3>1, <4>1
      <4>3. x = [instance |-> x.instance, queue |-> x.queue, submitted |-> FALSE]
        BY <4>1, <4>2
      <4> QED
        BY <1>6, <3>1, <4>3
    <3> QED
      BY <1>1, <1>9, <3>1, <3>2, <3>3
  <2>4. ASSUME NEW k \in Lists, phase'[k] # "idle", y = PendingVersion(k)'
        PROVE  v \in WrittenRange(k, b)'
    <3>1. k # l /\ y = PendingVersion(k) /\ phase[k] # "idle"
      BY <1>9, <2>4
    <3>2. y.submitted = FALSE
      BY <3>1 DEF PendingVersion, MakeVersion
    <3>3. x = y
      BY <1>5, <2>2, <3>2
    <3>4. v \in WrittenRange(k, b)
      BY <2>1, <3>1, <3>3 DEF VolatilesInv, WordsOwned
    <3> QED
      BY <1>9, <3>1, <3>4 DEF WrittenRange
  <2> QED
    BY <2>1, <2>3, <2>4
<1>13. UsesKept'
  <2> SUFFICES ASSUME NEW k \in Lists, NEW u \in uses[k]
               PROVE  /\ Bound(u) /\ hostData[u.buffer][u.version] = u.data
                      /\ versionTracking'[u.buffer][u.version] = PendingVersion(k)'
                      /\ phase'[k] = "closed" => deviceData[u.buffer][u.version] = u.data
    BY <1>2 DEF UsesKept, Bound
  <2>1. k # l
    BY <1>2 DEF VolatilesInv, RecordingsInv, UsesOwned
  <2>2. /\ Bound(u) /\ hostData[u.buffer][u.version] = u.data
        /\ versionTracking[u.buffer][u.version] = PendingVersion(k)
        /\ phase[k] = "closed" => deviceData[u.buffer][u.version] = u.data
    BY DEF VolatilesInv, UsesKept
  <2> QED
    BY <1>6, <1>8, <1>9, <2>1, <2>2 DEF Bound
<1>14. WorkKept'
  <2> SUFFICES ASSUME NEW r \in Queues, NEW i \in DOMAIN work[r], NEW u \in work[r][i]
               PROVE  /\ Bound(u) /\ hostData[u.buffer][u.version] = u.data
                      /\ deviceData[u.buffer][u.version] = u.data
                      /\ \/ /\ phase'[u.list] = "submitted"
                            /\ versionTracking'[u.buffer][u.version] = PendingVersion(u.list)'
                         \/ /\ versionTracking'[u.buffer][u.version] # Available
                            /\ versionTracking'[u.buffer][u.version].submitted
                            /\ versionTracking'[u.buffer][u.version].queue = r
                            /\ i <= versionTracking'[u.buffer][u.version].instance
    BY <1>2 DEF WorkKept, Bound, WaitsFor
  <2>1. PICK x, k : x = versionTracking[u.buffer][u.version] /\ k = u.list
    OBVIOUS
  <2>2. /\ Bound(u) /\ hostData[u.buffer][u.version] = u.data
        /\ deviceData[u.buffer][u.version] = u.data /\ WaitsFor(x, k, r, i)
        /\ k \in Lists /\ QueueOf[k] = r /\ (phase[k] = "submitted" => i <= submissionID[k])
    BY <2>1 DEF VolatilesInv, WorkKept, RecordingsInv, WorkOwned
  <2>3. versionTracking'[u.buffer][u.version] = IF x = p THEN w ELSE x
    BY <1>8, <2>1, <2>2 DEF Bound
  <2>4. CASE x = p
    <3>1. k = l
      BY <1>6, <2>2, <2>4 DEF WaitsFor
    <3> QED
      BY <1>1, <1>2, <1>5, <2>2, <2>3, <2>4, <3>1
  <2>5. CASE x # p
    <3>1. CASE phase[k] = "submitted" /\ x = PendingVersion(k)
      <4>1. k # l
        BY <1>1, <2>5, <3>1
      <4> QED
        BY <1>9, <2>1, <2>2, <2>3, <2>5, <3>1, <4>1
    <3>2. CASE x # Available /\ x.submitted /\ x.queue = r /\ i <= x.instance
      BY <2>2, <2>3, <2>5, <3>2
    <3> QED
      BY <2>2, <3>1, <3>2 DEF WaitsFor
  <2> QED
    BY <2>4, <2>5
<1>15. LatestOwned'
  <2> SUFFICES ASSUME NEW k \in Lists, NEW c \in Buffers,
                      phase'[k] = "open", state'[k][c] # None, state'[k][c].written
               PROVE  versionTracking'[c][state'[k][c].latest] = PendingVersion(k)'
    BY <1>2 DEF LatestOwned
  <2>1. k # l
    BY <1>9
  <2>2. versionTracking[c][state[k][c].latest] = PendingVersion(k) /\ state[k][c].latest \in Versions(c)
    BY <1>9, <2>1 DEF VolatilesInv, LatestOwned, StateTypes
  <2> QED
    BY <1>6, <1>8, <1>9, <2>1, <2>2
<1>16. SearchesOK'
  <2> SUFFICES ASSUME NEW k \in Lists, search[k] # None
               PROVE  /\ phase'[k] = "open" /\ SearchOK(search[k], completed)
                      /\ state'[k][search[k].buffer] # None
    BY <1>2 DEF VolatilesInv, SearchesOK
  <2>1. phase[k] = "open" /\ SearchOK(search[k], completed) /\ state[k][search[k].buffer] # None
    BY DEF VolatilesInv, SearchesOK
  <2> QED
    BY <1>2, <1>9, <2>1
<1> QED
  BY <1>7, <1>10, <1>11, <1>12, <1>13, <1>14, <1>15, <1>16 DEF VolatilesInv

-----------------------------------------------------------------------------
(* The steps.                                                               *)

\* What is bound goes over to the submission.
LEMMA SubmitHolds ==
  ASSUME VolatilesAssumption, VolatilesInv, NEW q \in Queues, NEW S \in SUBSET Lists, Submit(q, S),
         UNCHANGED bufferVars
  PROVE  VolatilesInv'
<1>1. PICK used, x : used = UNION {uses[l] : l \in S} /\ x = work[q]
  OBVIOUS
<1>2. /\ \A l \in S : phase[l] = "closed" /\ QueueOf[l] = q
      /\ work' = [work EXCEPT ![q] = Append(x, used)]
      /\ phase' = [l \in Lists |-> IF l \in S THEN "submitted" ELSE phase[l]]
      /\ uses' = [l \in Lists |-> IF l \in S THEN {} ELSE uses[l]]
      /\ UNCHANGED <<lastRecordingID, lastFinishedID, completed, recordingID, executedAs>>
  BY <1>1 DEF Submit
<1>3. RecordingsInv(Memory)'
  BY SubmitNumbered DEF VolatilesAssumption, VolatilesInv
<1>4. UNCHANGED <<versionTracking, versionSearchStart, hostData, deviceData, state, writes, search>>
  BY DEF bufferVars
<1>5. /\ \A k : PendingVersion(k)' = PendingVersion(k)
      /\ \A k, c : WrittenRange(k, c)' = WrittenRange(k, c)
  BY <1>2, <1>4 DEF PendingVersion, WrittenRange
<1>6. \A k \in Lists : /\ phase'[k] = IF k \in S THEN "submitted" ELSE phase[k]
                       /\ uses'[k] = IF k \in S THEN {} ELSE uses[k]
  BY <1>2
<1>7. BufferTypes' /\ StateTypes'
  BY <1>4 DEF VolatilesInv, BufferTypes, StateTypes
<1>8. WordsOwned'
  <2>1. \A k \in Lists : phase'[k] # "idle" => phase[k] # "idle"
    BY <1>2, <1>6
  <2> QED
    BY <1>2, <1>4, <1>5, <2>1 DEF VolatilesInv, WordsOwned
<1>9. UsesKept'
  BY <1>2, <1>4, <1>5, <1>6 DEF VolatilesInv, UsesKept, Bound
<1>10. WorkKept'
  <2>1. \A word, k, r, i : WaitsFor(word, k, r, i) /\ k \in Lists => WaitsFor(word, k, r, i)'
    BY <1>5, <1>6 DEF WaitsFor
  <2> SUFFICES ASSUME NEW r \in Queues, NEW i \in DOMAIN work'[r], NEW u \in work'[r][i]
               PROVE  /\ Bound(u) /\ hostData[u.buffer][u.version] = u.data
                      /\ deviceData[u.buffer][u.version] = u.data /\ u.list \in Lists
                      /\ \/ WaitsFor(versionTracking[u.buffer][u.version], u.list, r, i)
                         \/ /\ phase'[u.list] = "submitted"
                            /\ versionTracking[u.buffer][u.version] = PendingVersion(u.list)
    <3>1. \A word, k, r, i :
              phase'[k] = "submitted" /\ word = PendingVersion(k) => WaitsFor(word, k, r, i)'
      BY <1>5 DEF WaitsFor
    <3>2. \A u : Bound(u)' <=> Bound(u)
      BY DEF Bound
    <3> QED
      BY <1>4, <2>1, <3>1, <3>2 DEF WorkKept
  <2>2. work \in [Queues -> Seq(SUBSET Memory)]
    BY DEF VolatilesInv, RecordingsInv, MemoryTypes
  <2>3. CASE i \in DOMAIN work[r] /\ u \in work[r][i]
    BY <2>3 DEF VolatilesInv, WorkKept, RecordingsInv, WorkOwned
  <2>4. CASE ~(i \in DOMAIN work[r] /\ u \in work[r][i])
    <3>1. u \in used
      <4>1. r = q
        BY <1>2, <2>2, <2>4
      <4>2. PICK y : y = work'[r]
        OBVIOUS
      <4>3. y = Append(x, used) /\ x \in Seq(SUBSET Memory) /\ x = work[r]
        BY <1>1, <1>2, <2>2, <4>1, <4>2
      <4>4. /\ i \in 1..(Len(x) + 1) /\ DOMAIN x = 1..Len(x) /\ Len(x) \in Nat
            /\ y[i] = IF i <= Len(x) THEN x[i] ELSE used
        BY <4>2, <4>3
      <4> QED
        BY <2>4, <4>2, <4>3, <4>4
    <3>2. PICK k \in S : u \in uses[k]
      BY <1>1, <3>1
    <3>3. k \in Lists /\ phase[k] = "closed" /\ phase'[k] = "submitted" /\ u.list = k
      BY <1>2, <1>6, <3>2 DEF VolatilesInv, RecordingsInv, UsesOwned
    <3> QED
      BY <3>2, <3>3 DEF VolatilesInv, UsesKept
  <2> QED
    BY <2>3, <2>4
<1>11. LatestOwned'
  BY <1>2, <1>4, <1>5, <1>6 DEF VolatilesInv, LatestOwned
<1>12. SearchesOK'
  <2>1. \A k \in Lists : phase[k] = "open" => phase'[k] = "open"
    BY <1>2, <1>6
  <2> QED
    BY <1>2, <1>4, <2>1 DEF VolatilesInv, SearchesOK
<1> QED
  BY <1>3, <1>7, <1>8, <1>9, <1>10, <1>11, <1>12 DEF VolatilesInv

\* The queue finishes something, or tells.
LEMMA QueueStep ==
  ASSUME VolatilesAssumption, VolatilesInv, RecordingsInv(Memory)', UNCHANGED bufferVars,
         UNCHANGED <<lastRecordingID, phase, recordingID, executedAs, uses>>,
         \A q \in Queues : completed'[q] \in Nat /\ completed[q] <= completed'[q],
         \A p \in Queues : DOMAIN work'[p] = DOMAIN work[p],
         \A p \in Queues : \A i \in DOMAIN work[p] : work'[p][i] \subseteq work[p][i]
  PROVE  VolatilesInv'
<1>1. UNCHANGED <<versionTracking, versionSearchStart, hostData, deviceData, state, writes, search>>
  BY DEF bufferVars
<1>2. BufferTypes' /\ StateTypes'
  BY <1>1 DEF VolatilesInv, BufferTypes, StateTypes
<1>3. WordsOwned' /\ LatestOwned'
  BY <1>1 DEF VolatilesInv, WordsOwned, LatestOwned, WrittenRange, PendingVersion
<1>4. UsesKept'
  BY <1>1 DEF VolatilesInv, UsesKept, PendingVersion, Bound
<1>5. WorkKept'
  <2>1. \A word, k, q, i : WaitsFor(word, k, q, i)' <=> WaitsFor(word, k, q, i)
    BY DEF WaitsFor, PendingVersion
  <2> SUFFICES ASSUME NEW q \in Queues, NEW i \in DOMAIN work[q], NEW u \in work[q][i]
               PROVE  /\ Bound(u) /\ hostData[u.buffer][u.version] = u.data
                      /\ deviceData[u.buffer][u.version] = u.data
                      /\ WaitsFor(versionTracking[u.buffer][u.version], u.list, q, i)
    BY <1>1, <2>1 DEF WorkKept, Bound
  <2> QED
    BY DEF VolatilesInv, WorkKept
<1>6. SearchesOK'
  <2>1. ASSUME NEW s, SearchOK(s, completed) PROVE SearchOK(s, completed')
    <3>1. \A q \in Queues : s.finished[q] \in Nat /\ completed[q] \in Nat /\ s.finished[q] <= completed[q]
      BY <2>1 DEF SearchOK, VolatilesInv, RecordingsInv, RecordingsTypeOK
    <3>2. \A q \in Queues : s.finished[q] <= completed'[q]
      BY <3>1
    <3> QED
      BY <2>1, <3>2 DEF SearchOK
  <2> QED
    BY <1>1, <2>1 DEF VolatilesInv, SearchesOK
<1> QED
  BY <1>2, <1>3, <1>4, <1>5, <1>6 DEF VolatilesInv

LEMMA CompleteHolds ==
  ASSUME VolatilesAssumption, VolatilesInv, NEW q \in Queues, Complete(q), UNCHANGED bufferVars
  PROVE  VolatilesInv'
<1>1. /\ RecordingsInv(Memory)' /\ \A p \in Queues : DOMAIN work'[p] = DOMAIN work[p]
      /\ \A p \in Queues : \A i \in DOMAIN work[p] : work'[p][i] \subseteq work[p][i]
  BY CompleteNumbered DEF VolatilesAssumption, VolatilesInv
<1>2. UNCHANGED <<lastRecordingID, phase, recordingID, executedAs, uses>>
  BY DEF Complete
<1>3. completed \in [Queues -> Nat] /\ completed' = [completed EXCEPT ![q] = @ + 1]
  BY DEF Complete, VolatilesInv, RecordingsInv, RecordingsTypeOK
<1>4. \A p \in Queues : completed'[p] \in Nat /\ completed[p] <= completed'[p]
  BY <1>3
<1> QED
  BY <1>1, <1>2, <1>4, QueueStep

LEMMA UpdateHolds ==
  ASSUME VolatilesAssumption, VolatilesInv, NEW q \in Queues, UpdateLastFinishedID(q),
         UNCHANGED bufferVars
  PROVE  VolatilesInv'
<1>1. RecordingsInv(Memory)'
  BY UpdateNumbered DEF VolatilesAssumption, VolatilesInv
<1>2. UNCHANGED <<lastRecordingID, phase, recordingID, executedAs, uses, completed, work>>
  BY DEF UpdateLastFinishedID
<1>3. \A p \in Queues : completed'[p] \in Nat /\ completed[p] <= completed'[p]
  BY <1>2 DEF VolatilesInv, RecordingsInv, RecordingsTypeOK
<1> QED
  BY <1>1, <1>2, <1>3, QueueStep

LEMMA VolatilesInitHolds ==
  ASSUME VolatilesAssumption, Init
  PROVE  VolatilesInv
<1>1. RecordingsInv(Memory)
  BY RecordingsInitHolds DEF VolatilesAssumption, Init
<1>2. \A b \in Buffers : maxVersions[b] \in Nat \ {0} /\ Versions(b) = 1..maxVersions[b]
  BY DEF VolatilesAssumption, VolatileBuffersAssumption, Versions
<1>3. BufferTypes
  BY <1>2 DEF Init, BufferTypes, Word, DataSet
<1>4. StateTypes
  BY DEF Init, StateTypes, VolatilesAssumption, VolatileBuffersAssumption
<1>5. WordsOwned
  <2>1. \A l \in Lists : phase[l] = "idle"
    BY DEF Init, RecordingsInit
  <2>2. \A b \in Buffers : \A v \in Versions(b) : versionTracking[b][v] = Available
    BY DEF Init
  <2> QED
    BY <2>1, <2>2 DEF WordsOwned
<1>6. UsesKept /\ WorkKept
  BY DEF Init, RecordingsInit, UsesKept, WorkKept
<1>7. LatestOwned /\ SearchesOK
  BY DEF Init, RecordingsInit, LatestOwned, SearchesOK
<1> QED
  BY <1>1, <1>3, <1>4, <1>5, <1>6, <1>7 DEF VolatilesInv

LEMMA VolatilesStep ==
  ASSUME VolatilesAssumption, VolatilesInv, [Next]_vars
  PROVE  VolatilesInv'
<1>1. CASE \E l \in Lists : OpenRecording(l)
  BY <1>1, OpenRecordingHolds
<1>2. CASE \E l \in Lists : CloseRecording(l)
  BY <1>2, CloseRecordingHolds
<1>3. CASE \E l \in Lists : ExecutedRecording(l)
  BY <1>3, ExecutedRecordingHolds
<1>4. CASE \E l \in Lists : SearchStep(l)
  BY <1>4, SearchStepHolds
<1>5. CASE \E l \in Lists : ClaimVersion(l)
  BY <1>5, ClaimVersionHolds
<1>6. CASE \E l \in Lists : RetrySearch(l)
  BY <1>6, RetrySearchHolds
<1>7. CASE \E l \in Lists, b \in Buffers : BeginWrite(l, b)
  BY <1>7, BeginWriteHolds
<1>8. CASE \E l \in Lists, b \in Buffers : Bind(l, b)
  BY <1>8, BindHolds
<1>9. CASE \E q \in Queues : \E S \in (SUBSET Lists) \ {{}} : Submit(q, S) /\ UNCHANGED bufferVars
  BY <1>9, SubmitHolds
<1>10. CASE \E q \in Queues : Complete(q) /\ UNCHANGED bufferVars
  BY <1>10, CompleteHolds
<1>11. CASE \E q \in Queues : UpdateLastFinishedID(q) /\ UNCHANGED bufferVars
  BY <1>11, UpdateHolds
<1>12. CASE UNCHANGED vars
  <2>1. RecordingsInv(Memory)' /\ UNCHANGED bufferVars
        /\ UNCHANGED <<lastRecordingID, phase, recordingID, executedAs, uses, completed, work>>
    BY <1>12, StutterNumbered DEF vars, recordingVars, VolatilesInv
  <2>2. \A q \in Queues : completed'[q] \in Nat /\ completed[q] <= completed'[q]
    BY <2>1 DEF VolatilesInv, RecordingsInv, RecordingsTypeOK
  <2> QED
    BY <2>1, <2>2, QueueStep
<1> QED
  BY <1>1, <1>2, <1>3, <1>4, <1>5, <1>6, <1>7, <1>8, <1>9, <1>10, <1>11, <1>12 DEF Next

\* What the invariant says of a state.
LEMMA VolatilesInvImplies ==
  ASSUME VolatilesAssumption, VolatilesInv
  PROVE  /\ TypeOK /\ BoundVersionsKept
         /\ SubmittedVersionsFlushed /\ ExecutedVersionsSubmitted
<1>1. TypeOK
  <2>1. \A l \in Lists, b \in Buffers : state[l][b] # None =>
          state[l][b].latest \in Versions(b) /\ WrittenRange(l, b) \subseteq Versions(b)
    <3> SUFFICES ASSUME NEW l \in Lists, NEW b \in Buffers, state[l][b] # None
                 PROVE  state[l][b].latest \in Versions(b) /\ WrittenRange(l, b) \subseteq Versions(b)
      OBVIOUS
    <3>1. PICK x : x = state[l][b]
      OBVIOUS
    <3>2. /\ x \in VolatileBufferState /\ x.latest \in Versions(b) /\ 1 <= x.min /\ x.max <= maxVersions[b]
          /\ Versions(b) = 1..maxVersions[b] /\ maxVersions[b] \in Nat
      BY <3>1 DEF VolatilesInv, StateTypes, Versions, VolatilesAssumption, VolatileBuffersAssumption
    <3>3. x.min \in Nat /\ x.max \in Nat
      BY <3>2 DEF VolatileBufferState
    <3>4. x.min..x.max \subseteq Versions(b)
      BY <3>2, <3>3
    <3> QED
      BY <3>1, <3>2, <3>4 DEF WrittenRange
  <2>2. \A l \in Lists : /\ writes[l] \in 0..MaxWrites
                         /\ search[l] # None => phase[l] = "open"
    BY DEF VolatilesInv, StateTypes, SearchesOK
  <2>3. \A b \in Buffers : /\ versionTracking[b] \in [Versions(b) -> Word]
                           /\ versionSearchStart[b] \in Versions(b)
    BY DEF VolatilesInv, BufferTypes
  <2>4. RecordingsTypeOK
    BY DEF VolatilesInv, RecordingsInv
  <2> QED
    BY <2>1, <2>2, <2>3, <2>4 DEF TypeOK
<1>2. BoundVersionsKept
  <2> SUFFICES ASSUME NEW u \in InUse PROVE hostData[u.buffer][u.version] = u.data
    BY DEF BoundVersionsKept
  <2>1. \/ \E l \in Lists : u \in uses[l]
        \/ \E q \in Queues : \E i \in DOMAIN work[q] : u \in work[q][i]
    BY InUseFacts
  <2> QED
    BY <2>1 DEF VolatilesInv, UsesKept, WorkKept
<1>3. SubmittedVersionsFlushed
  BY DEF VolatilesInv, WorkKept, SubmittedVersionsFlushed
<1>4. ExecutedVersionsSubmitted
  <2> SUFFICES ASSUME NEW b \in Buffers, NEW v \in Versions(b), NEW l \in Lists, NEW word,
                      word = versionTracking[b][v], word.queue = QueueOf[l], ~word.submitted
               PROVE  word.instance \notin executedAs[l]
    BY DEF ExecutedVersionsSubmitted
  <2>1. CASE word = Available
    BY <2>1 DEF Available, VolatilesInv, RecordingsInv, RecordingsTypeOK
  <2>2. CASE word # Available
    BY <2>2 DEF VolatilesInv, WordsOwned
  <2> QED
    BY <2>1, <2>2
<1> QED
  BY <1>1, <1>2, <1>3, <1>4

\* The invariant holds always.
LEMMA VolatilesInvariant ==
  ASSUME VolatilesAssumption
  PROVE  Spec => []VolatilesInv
<1>1. Init => VolatilesInv
  BY VolatilesInitHolds
<1>2. VolatilesInv /\ [Next]_vars => VolatilesInv'
  BY VolatilesStep
<1> QED
  BY <1>1, <1>2, PTL DEF Spec

\* What a command list has bound stays as it was written until its submission is
\* finished, however the searches of any number of lists for versions interleave.
THEOREM BoundVersionsStay ==
  ASSUME VolatilesAssumption
  PROVE  Spec => []BoundVersionsKept
<1>1. VolatilesInv => BoundVersionsKept
  BY VolatilesInvImplies
<1> QED
  BY <1>1, VolatilesInvariant, PTL

\* The GPU sees every version an unfinished submission reads as it was written.
THEOREM SubmittedVersionsAreFlushed ==
  ASSUME VolatilesAssumption
  PROVE  Spec => []SubmittedVersionsFlushed
<1>1. VolatilesInv => SubmittedVersionsFlushed
  BY VolatilesInvImplies
<1> QED
  BY <1>1, VolatilesInvariant, PTL

\* submitVolatileBuffers leaves no version waiting for a recording that was executed.
THEOREM ExecutedVersionsAreSubmitted ==
  ASSUME VolatilesAssumption
  PROVE  Spec => []ExecutedVersionsSubmitted
<1>1. VolatilesInv => ExecutedVersionsSubmitted
  BY VolatilesInvImplies
<1> QED
  BY <1>1, VolatilesInvariant, PTL
=============================================================================
