------------------------ MODULE UploadManagerProofs ------------------------
(***************************************************************************)
(* Theorems about UploadManager, for any lists, sizes and requests, with   *)
(* and without a limit.                                                    *)
(***************************************************************************)
EXTENDS UploadManager, SequenceTheorems, TLAPS

-----------------------------------------------------------------------------
(* The numbers of recordings and submissions, and whose the memory in use is. *)

\* What is in use.
LEMMA InUseFacts ==
  ASSUME NEW u
  PROVE  u \in InUse <=> \/ \E l \in Lists : u \in uses[l]
                         \/ \E q \in Queues : \E i \in DOMAIN work[q] : u \in work[q][i]
<1>1. PICK a, b : /\ a = {uses[l] : l \in Lists}
                  /\ b = {UNION {work[q][i] : i \in DOMAIN work[q]} : q \in Queues}
  OBVIOUS
<1>2. u \in InUse <=> (\E x \in a : u \in x) \/ (\E x \in b : u \in x)
  BY <1>1 DEF InUse
<1>3. (\E x \in a : u \in x) <=> \E l \in Lists : u \in uses[l]
  BY <1>1
<1>4. (\E x \in b : u \in x) <=> \E q \in Queues : u \in UNION {work[q][i] : i \in DOMAIN work[q]}
  BY <1>1
<1>5. \A q : u \in UNION {work[q][i] : i \in DOMAIN work[q]} <=> \E i \in DOMAIN work[q] : u \in work[q][i]
  OBVIOUS
<1> QED
  BY <1>2, <1>3, <1>4, <1>5

LEMMA RecordingsInitHolds ==
  ASSUME RecordingsAssumption, NEW Memory, RecordingsInit
  PROVE  RecordingsInv(Memory)
<1>1. RecordingsTypeOK
  BY DEF RecordingsAssumption, RecordingsInit, RecordingsTypeOK
<1>2. MemoryTypes(Memory) /\ RecordingsNumbered /\ UsesOwned /\ SubmissionsNumbered
  BY DEF RecordingsInit, MemoryTypes, RecordingsNumbered, UsesOwned, SubmissionsNumbered,
         RecordingsAssumption
<1>3. WorkOwned
  BY DEF RecordingsInit, WorkOwned
<1> QED
  BY <1>1, <1>2, <1>3 DEF RecordingsInv

\* A recording begins with a new ID and uses nothing.
LEMMA OpenNumbered ==
  ASSUME RecordingsAssumption, NEW Memory, RecordingsInv(Memory), NEW l \in Lists, Open(l)
  PROVE  RecordingsInv(Memory)'
<1>1. PICK q, id : q = QueueOf[l] /\ id = lastRecordingID[q] + 1
  OBVIOUS
<1>2. /\ phase[l] \in {"idle", "closed"} /\ id <= MaxRecordings
      /\ lastRecordingID' = [lastRecordingID EXCEPT ![q] = id]
      /\ recordingID' = [recordingID EXCEPT ![l] = id]
      /\ phase' = [phase EXCEPT ![l] = "open"]
      /\ uses' = [uses EXCEPT ![l] = {}]
      /\ UNCHANGED <<lastSubmittedID, lastFinishedID, completed, submissionID, executedAs, work>>
  BY <1>1 DEF Open
<1>3. q \in Queues /\ lastRecordingID[q] \in Nat /\ MaxRecordings \in Nat /\ id \in 1..MaxRecordings
  BY <1>1, <1>2 DEF RecordingsAssumption, RecordingsInv, RecordingsTypeOK
<1>4. RecordingsTypeOK'
  BY <1>2, <1>3 DEF RecordingsInv, RecordingsTypeOK
<1>5. MemoryTypes(Memory)' /\ UsesOwned' /\ SubmissionsNumbered'
  BY <1>2 DEF RecordingsInv, RecordingsTypeOK, MemoryTypes, UsesOwned, SubmissionsNumbered
<1>6. RecordingsNumbered'
  <2>1. ASSUME NEW k \in Lists
        PROVE  /\ recordingID'[k] = IF k = l THEN id ELSE recordingID[k]
               /\ phase'[k] = IF k = l THEN "open" ELSE phase[k]
               /\ recordingID[k] \in Nat /\ executedAs[k] \subseteq Nat
               /\ lastRecordingID[QueueOf[k]] \in Nat
               /\ lastRecordingID'[QueueOf[k]] = IF QueueOf[k] = q THEN id ELSE lastRecordingID[QueueOf[k]]
    BY <1>2, <1>3, SMTT(30) DEF RecordingsInv, RecordingsTypeOK, RecordingsAssumption
  <2>2. \A k \in Lists : QueueOf[k] = q => recordingID[k] < id /\ \A i \in executedAs[k] : i < id
    BY <1>1, <1>3, <2>1 DEF RecordingsInv, RecordingsNumbered
  <2> QED
    BY <1>1, <1>2, <1>3, <2>1, <2>2 DEF RecordingsInv, RecordingsNumbered
<1>7. WorkOwned'
  BY <1>2 DEF RecordingsInv, RecordingsTypeOK, WorkOwned
<1> QED
  BY <1>4, <1>5, <1>6, <1>7 DEF RecordingsInv

\* A command uses memory of its own list.
LEMMA UseNumbered ==
  ASSUME RecordingsAssumption, NEW Memory, RecordingsInv(Memory), NEW l \in Lists,
         NEW memory \in SUBSET Memory, \A u \in memory : u.list = l, Use(l, memory)
  PROVE  RecordingsInv(Memory)'
<1>1. /\ phase[l] = "open" /\ uses' = [uses EXCEPT ![l] = @ \cup memory]
      /\ UNCHANGED <<lastRecordingID, lastSubmittedID, lastFinishedID, completed, phase,
                     recordingID, submissionID, executedAs, work>>
  BY DEF Use
<1>2. RecordingsTypeOK' /\ RecordingsNumbered' /\ SubmissionsNumbered' /\ WorkOwned'
  BY <1>1 DEF RecordingsInv, RecordingsTypeOK, RecordingsNumbered, SubmissionsNumbered, WorkOwned
<1>3. MemoryTypes(Memory)' /\ UsesOwned'
  BY <1>1 DEF RecordingsInv, MemoryTypes, UsesOwned
<1> QED
  BY <1>2, <1>3 DEF RecordingsInv

LEMMA CloseNumbered ==
  ASSUME RecordingsAssumption, NEW Memory, RecordingsInv(Memory), NEW l \in Lists, Close(l)
  PROVE  RecordingsInv(Memory)'
<1>1. /\ phase[l] = "open" /\ phase' = [phase EXCEPT ![l] = "closed"]
      /\ UNCHANGED <<lastRecordingID, lastSubmittedID, lastFinishedID, completed,
                     recordingID, submissionID, executedAs, uses, work>>
  BY DEF Close
<1>2. RecordingsTypeOK' /\ MemoryTypes(Memory)'
  BY <1>1 DEF RecordingsInv, RecordingsTypeOK, MemoryTypes
<1>3. RecordingsNumbered' /\ SubmissionsNumbered' /\ UsesOwned' /\ WorkOwned'
  BY <1>1 DEF RecordingsInv, RecordingsTypeOK, RecordingsNumbered, SubmissionsNumbered, WorkOwned, UsesOwned
<1> QED
  BY <1>2, <1>3 DEF RecordingsInv

\* What the lists used is the submission's.
LEMMA SubmitNumbered ==
  ASSUME RecordingsAssumption, NEW Memory, RecordingsInv(Memory),
         NEW q \in Queues, NEW S \in SUBSET Lists, Submit(q, S)
  PROVE  RecordingsInv(Memory)'
<1>1. PICK used : used = UNION {uses[l] : l \in S}
  OBVIOUS
<1>2. /\ \A l \in S : phase[l] = "closed" /\ QueueOf[l] = q
      /\ lastSubmittedID' = [lastSubmittedID EXCEPT ![q] = @ + 1]
      /\ work' = [work EXCEPT ![q] = Append(@, used)]
      /\ submissionID' = [l \in Lists |->
              IF l \in S THEN lastSubmittedID[q] + 1 ELSE submissionID[l]]
      /\ phase' = [l \in Lists |-> IF l \in S THEN "submitted" ELSE phase[l]]
      /\ uses' = [l \in Lists |-> IF l \in S THEN {} ELSE uses[l]]
      /\ UNCHANGED <<lastRecordingID, lastFinishedID, completed, recordingID, executedAs>>
  BY <1>1 DEF Submit
<1>3. /\ used \in SUBSET Memory
      /\ \A u \in used : u.list \in S
  BY <1>1 DEF RecordingsInv, MemoryTypes, UsesOwned
<1>4. PICK w : w = work[q]
  OBVIOUS
<1>5. /\ w \in Seq(SUBSET Memory) /\ Len(w) = lastSubmittedID[q] /\ Len(w) \in Nat
      /\ completed[q] \in Nat /\ completed[q] <= Len(w)
  BY <1>4 DEF RecordingsInv, MemoryTypes, RecordingsTypeOK
<1>6. /\ Append(w, used) \in Seq(SUBSET Memory) /\ Len(Append(w, used)) = Len(w) + 1
      /\ DOMAIN Append(w, used) = 1..(Len(w) + 1) /\ DOMAIN w = 1..Len(w)
      /\ \A i \in 1..Len(w) : Append(w, used)[i] = w[i]
      /\ Append(w, used)[Len(w) + 1] = used
  BY <1>3, <1>5
<1>7. work'[q] = Append(w, used) /\ \A p \in Queues : p # q => work'[p] = work[p]
  BY <1>2, <1>4 DEF RecordingsInv, MemoryTypes
<1>8. MemoryTypes(Memory)'
  BY <1>2, <1>4, <1>6 DEF RecordingsInv, MemoryTypes
<1>9. RecordingsTypeOK'
  <2>1. lastSubmittedID' \in [Queues -> Nat] /\ lastSubmittedID'[q] = Len(w) + 1
        /\ \A p \in Queues : p # q => lastSubmittedID'[p] = lastSubmittedID[p]
    BY <1>2, <1>5 DEF RecordingsInv, RecordingsTypeOK
  <2>2. \A p \in Queues : /\ lastFinishedID'[p] <= completed'[p]
                          /\ completed'[p] <= Len(work'[p]) /\ Len(work'[p]) = lastSubmittedID'[p]
    <3> SUFFICES ASSUME NEW p \in Queues
                 PROVE  /\ lastFinishedID[p] <= completed[p]
                        /\ completed[p] <= Len(work'[p]) /\ Len(work'[p]) = lastSubmittedID'[p]
      BY <1>2
    <3>1. lastFinishedID[p] <= completed[p] /\ completed[p] <= Len(work[p])
          /\ Len(work[p]) = lastSubmittedID[p]
      BY DEF RecordingsInv, RecordingsTypeOK
    <3>2. CASE p = q
      BY <1>5, <1>6, <1>7, <2>1, <3>1, <3>2
    <3>3. CASE p # q
      BY <1>7, <2>1, <3>1, <3>3
    <3> QED
      BY <3>2, <3>3
  <2> QED
    BY <1>2, <1>5, <2>1, <2>2 DEF RecordingsInv, RecordingsTypeOK
<1>10. RecordingsNumbered' /\ UsesOwned'
  BY <1>2 DEF RecordingsInv, RecordingsTypeOK, MemoryTypes, RecordingsNumbered, UsesOwned
<1>11. SubmissionsNumbered'
  <2> SUFFICES ASSUME NEW l \in Lists, phase'[l] = "submitted"
               PROVE  submissionID'[l] \in 1..lastSubmittedID'[QueueOf[l]]
    BY DEF SubmissionsNumbered
  <2>1. QueueOf[l] \in Queues /\ lastSubmittedID[QueueOf[l]] \in Nat
    BY DEF RecordingsAssumption, RecordingsInv, RecordingsTypeOK
  <2>2. lastSubmittedID'[QueueOf[l]] = IF QueueOf[l] = q THEN lastSubmittedID[q] + 1
                                      ELSE lastSubmittedID[QueueOf[l]]
    BY <1>2, <2>1 DEF RecordingsInv, RecordingsTypeOK
  <2>3. CASE l \in S
    BY <1>2, <2>1, <2>2, <2>3
  <2>4. CASE l \notin S
    <3>1. phase[l] = "submitted" /\ submissionID'[l] = submissionID[l]
      BY <1>2, <2>4
    <3> QED
      BY <2>1, <2>2, <3>1 DEF RecordingsInv, SubmissionsNumbered
  <2> QED
    BY <2>3, <2>4
<1>12. WorkOwned'
  <2> SUFFICES ASSUME NEW p \in Queues, NEW i \in DOMAIN work'[p]
               PROVE  /\ i <= completed[p] => work'[p][i] = {}
                      /\ \A u \in work'[p][i] :
                           /\ u.list \in Lists /\ QueueOf[u.list] = p
                           /\ phase'[u.list] = "submitted" => i <= submissionID'[u.list]
    BY <1>2 DEF WorkOwned
  <2>1. CASE p = q /\ i = Len(w) + 1
    <3>1. work'[p][i] = used /\ ~(i <= completed[p])
      BY <1>5, <1>6, <1>7, <2>1
    <3>2. ASSUME NEW u \in used PROVE u.list \in Lists /\ QueueOf[u.list] = p /\ submissionID'[u.list] = i
      BY <1>2, <1>3, <1>5, <2>1
    <3>3. i \in Nat
      BY <1>5, <2>1
    <3> QED
      BY <3>1, <3>2, <3>3
  <2>2. CASE ~(p = q /\ i = Len(w) + 1)
    <3>1. i \in DOMAIN work[p] /\ work'[p][i] = work[p][i]
      <4>1. CASE p = q
        <5>1. i \in 1..(Len(w) + 1) /\ i # Len(w) + 1 /\ work'[p] = Append(w, used) /\ work[p] = w
          BY <1>4, <1>6, <1>7, <2>2, <4>1
        <5>2. i \in 1..Len(w)
          BY <1>5, <5>1
        <5> QED
          BY <1>6, <5>1, <5>2
      <4>2. CASE p # q
        BY <1>7, <4>2
      <4> QED
        BY <4>1, <4>2
    <3>2. i \in Nat /\ i <= lastSubmittedID[p]
      BY <3>1 DEF RecordingsInv, MemoryTypes, RecordingsTypeOK
    <3>3. ASSUME NEW u \in work[p][i], phase'[u.list] = "submitted" PROVE i <= submissionID'[u.list]
      <4>1. u.list \in Lists /\ QueueOf[u.list] = p
        BY <3>1 DEF RecordingsInv, WorkOwned
      <4>2. CASE u.list \in S
        <5>1. p = q /\ submissionID'[u.list] = lastSubmittedID[q] + 1
          BY <1>2, <4>1, <4>2
        <5> QED
          BY <1>5, <3>2, <5>1
      <4>3. CASE u.list \notin S
        <5>1. phase[u.list] = "submitted" /\ submissionID'[u.list] = submissionID[u.list]
          BY <1>2, <3>3, <4>1, <4>3
        <5> QED
          BY <3>1, <5>1 DEF RecordingsInv, WorkOwned
      <4> QED
        BY <4>2, <4>3
    <3> QED
      BY <3>1, <3>3 DEF RecordingsInv, WorkOwned
  <2> QED
    BY <2>1, <2>2
<1> QED
  BY <1>8, <1>9, <1>10, <1>11, <1>12 DEF RecordingsInv

\* An executed recording's ID is not used again.
LEMMA ExecutedNumbered ==
  ASSUME RecordingsAssumption, NEW Memory, RecordingsInv(Memory), NEW l \in Lists, Executed(l)
  PROVE  RecordingsInv(Memory)'
<1>1. /\ phase[l] = "submitted" /\ phase' = [phase EXCEPT ![l] = "idle"]
      /\ executedAs' = [executedAs EXCEPT ![l] = @ \cup {recordingID[l]}]
      /\ recordingID' = [recordingID EXCEPT ![l] = 0]
      /\ submissionID' = [submissionID EXCEPT ![l] = 0]
      /\ UNCHANGED <<lastRecordingID, lastSubmittedID, lastFinishedID, completed, uses, work>>
  BY DEF Executed
<1>2. recordingID[l] \in 1..MaxRecordings /\ MaxRecordings \in Nat
  BY <1>1 DEF RecordingsInv, RecordingsTypeOK, RecordingsNumbered, RecordingsAssumption
<1>3. RecordingsTypeOK' /\ MemoryTypes(Memory)'
  BY <1>1, <1>2 DEF RecordingsInv, RecordingsTypeOK, MemoryTypes
<1>4. RecordingsNumbered'
  <2>1. ASSUME NEW k \in Lists
        PROVE  /\ recordingID'[k] = IF k = l THEN 0 ELSE recordingID[k]
               /\ phase'[k] = IF k = l THEN "idle" ELSE phase[k]
               /\ executedAs'[k] = IF k = l THEN executedAs[l] \cup {recordingID[l]} ELSE executedAs[k]
               /\ recordingID[k] \in Nat /\ lastRecordingID[QueueOf[k]] \in Nat
    BY <1>1 DEF RecordingsInv, RecordingsTypeOK, RecordingsAssumption
  <2> QED
    BY <1>1, <2>1 DEF RecordingsInv, RecordingsNumbered
<1>5. SubmissionsNumbered' /\ UsesOwned' /\ WorkOwned'
  BY <1>1 DEF RecordingsInv, RecordingsTypeOK, SubmissionsNumbered, WorkOwned, UsesOwned
<1> QED
  BY <1>3, <1>4, <1>5 DEF RecordingsInv

\* What the GPU has finished uses nothing.
LEMMA CompleteNumbered ==
  ASSUME RecordingsAssumption, NEW Memory, RecordingsInv(Memory), NEW q \in Queues, Complete(q)
  PROVE  /\ RecordingsInv(Memory)'
         /\ \A p \in Queues : DOMAIN work'[p] = DOMAIN work[p]
         /\ \A p \in Queues : \A i \in DOMAIN work[p] : work'[p][i] \subseteq work[p][i]
<1>1. PICK w, n : w = work[q] /\ n = completed[q] + 1
  OBVIOUS
<1>2. /\ completed[q] < Len(w)
      /\ completed' = [completed EXCEPT ![q] = n]
      /\ work' = [work EXCEPT ![q] = [w EXCEPT ![n] = {}]]
      /\ UNCHANGED <<lastRecordingID, lastSubmittedID, lastFinishedID, phase, recordingID,
                     submissionID, executedAs, uses>>
  BY <1>1 DEF Complete
<1>3. /\ w \in Seq(SUBSET Memory) /\ completed[q] \in Nat /\ Len(w) \in Nat /\ n \in 1..Len(w)
      /\ lastFinishedID[q] \in Nat /\ lastFinishedID[q] <= completed[q]
  BY <1>1, <1>2 DEF RecordingsInv, RecordingsTypeOK, MemoryTypes
<1>4. PICK v : v = [w EXCEPT ![n] = {}]
  OBVIOUS
<1>5. /\ v \in Seq(SUBSET Memory) /\ Len(v) = Len(w) /\ DOMAIN v = DOMAIN w /\ DOMAIN w = 1..Len(w)
      /\ \A i \in DOMAIN w : v[i] = IF i = n THEN {} ELSE w[i]
  BY <1>3, <1>4
<1>6. work'[q] = v /\ \A p \in Queues : p # q => work'[p] = work[p]
  BY <1>2, <1>4 DEF RecordingsInv, MemoryTypes
<1>7. completed'[q] = n /\ \A p \in Queues : p # q => completed'[p] = completed[p]
  BY <1>2 DEF RecordingsInv, RecordingsTypeOK
<1>8. MemoryTypes(Memory)'
  BY <1>2, <1>4, <1>5 DEF RecordingsInv, MemoryTypes
<1>9. RecordingsTypeOK'
  <2>1. \A p \in Queues : /\ lastFinishedID'[p] <= completed'[p]
                          /\ completed'[p] <= Len(work'[p]) /\ Len(work'[p]) = lastSubmittedID'[p]
    <3> SUFFICES ASSUME NEW p \in Queues
                 PROVE  /\ lastFinishedID[p] <= completed'[p]
                        /\ completed'[p] <= Len(work'[p]) /\ Len(work'[p]) = lastSubmittedID[p]
      BY <1>2
    <3>1. CASE p = q
      BY <1>1, <1>3, <1>5, <1>6, <1>7, <3>1 DEF RecordingsInv, RecordingsTypeOK
    <3>2. CASE p # q
      BY <1>6, <1>7, <3>2 DEF RecordingsInv, RecordingsTypeOK
    <3> QED
      BY <3>1, <3>2
  <2> QED
    BY <1>2, <1>3, <2>1 DEF RecordingsInv, RecordingsTypeOK
<1>10. RecordingsNumbered' /\ UsesOwned' /\ SubmissionsNumbered'
  BY <1>2 DEF RecordingsInv, RecordingsNumbered, UsesOwned, SubmissionsNumbered
<1>11. ASSUME NEW p \in Queues
       PROVE  /\ DOMAIN work'[p] = DOMAIN work[p]
              /\ \A i \in DOMAIN work[p] :
                   /\ work'[p][i] \subseteq work[p][i]
                   /\ i <= completed'[p] /\ ~(i <= completed[p]) => work'[p][i] = {}
  <2>1. CASE p = q
    BY <1>1, <1>3, <1>5, <1>6, <1>7, <2>1, SMTT(30)
  <2>2. CASE p # q
    BY <1>6, <1>7, <2>2
  <2> QED
    BY <2>1, <2>2
<1>12. WorkOwned'
  BY <1>2, <1>11 DEF RecordingsInv, WorkOwned
<1> QED
  BY <1>8, <1>9, <1>10, <1>11, <1>12 DEF RecordingsInv

LEMMA UpdateNumbered ==
  ASSUME RecordingsAssumption, NEW Memory, RecordingsInv(Memory),
         NEW q \in Queues, UpdateLastFinishedID(q)
  PROVE  RecordingsInv(Memory)'
<1>1. /\ lastFinishedID' = [lastFinishedID EXCEPT ![q] = completed[q]]
      /\ UNCHANGED <<lastRecordingID, lastSubmittedID, completed, phase, recordingID,
                     submissionID, executedAs, uses, work>>
  BY DEF UpdateLastFinishedID
<1>2. RecordingsTypeOK'
  BY <1>1 DEF RecordingsInv, RecordingsTypeOK
<1>3. MemoryTypes(Memory)' /\ RecordingsNumbered' /\ UsesOwned' /\ SubmissionsNumbered' /\ WorkOwned'
  BY <1>1 DEF RecordingsInv, MemoryTypes, RecordingsNumbered, UsesOwned, SubmissionsNumbered, WorkOwned
<1> QED
  BY <1>2, <1>3 DEF RecordingsInv

LEMMA StutterNumbered ==
  ASSUME NEW Memory, RecordingsInv(Memory), UNCHANGED recordingVars
  PROVE  RecordingsInv(Memory)'
  BY DEF recordingVars, RecordingsInv, RecordingsTypeOK, MemoryTypes, RecordingsNumbered, UsesOwned,
         SubmissionsNumbered, WorkOwned

-----------------------------------------------------------------------------
(* Arithmetic and sequences.                                                *)

\* An aligned offset is not before the unaligned one.
LEMMA AlignFacts ==
  ASSUME NEW n \in Nat, NEW a \in Nat \ {0}
  PROVE  Align(n, a) \in Nat /\ n <= Align(n, a)
<1>1. PICK m : m = n + a - 1
  OBVIOUS
<1>2. m \in Nat /\ m \div a \in Nat /\ m % a \in 0..(a - 1)
  BY <1>1
<1>3. m = a * (m \div a) + (m % a)
  BY <1>1
<1>4. (m \div a) * a = a * (m \div a) /\ (m \div a) * a \in Nat
  BY <1>2
<1>5. PICK k : k = (m \div a) * a
  OBVIOUS
<1>6. k \in Nat /\ m = k + (m % a)
  BY <1>3, <1>4, <1>5
<1>7. n <= k
  BY <1>1, <1>2, <1>6
<1> QED
  BY <1>1, <1>5, <1>6, <1>7 DEF Align

\* No two chunks of a sequence are the same.
IdsApart(chunks) == \A i, j \in DOMAIN chunks : chunks[i].id = chunks[j].id => i = j

LEMMA AppendApart ==
  ASSUME NEW s \in Seq(Chunk), IdsApart(s), NEW c \in Chunk, \A i \in DOMAIN s : s[i].id # c.id
  PROVE  /\ Append(s, c) \in Seq(Chunk) /\ IdsApart(Append(s, c))
         /\ ToSet(Append(s, c)) = ToSet(s) \cup {c}
<1>1. PICK t : t = Append(s, c)
  OBVIOUS
<1>2. /\ Len(s) \in Nat /\ DOMAIN s = 1..Len(s) /\ t \in Seq(Chunk) /\ DOMAIN t = 1..(Len(s) + 1)
      /\ t[Len(s) + 1] = c /\ \A i \in 1..Len(s) : t[i] = s[i]
  BY <1>1
<1>3. IdsApart(t)
  BY <1>2 DEF IdsApart
<1>4. ToSet(t) = ToSet(s) \cup {c}
  BY <1>2 DEF ToSet
<1> QED
  BY <1>1, <1>2, <1>3, <1>4

LEMMA RemoveApart ==
  ASSUME NEW s \in Seq(Chunk), IdsApart(s), NEW n \in DOMAIN s
  PROVE  /\ RemoveAt(s, n) \in Seq(Chunk) /\ IdsApart(RemoveAt(s, n))
         /\ ToSet(RemoveAt(s, n)) = ToSet(s) \ {s[n]}
<1>1. PICK a, b : a = SubSeq(s, 1, n - 1) /\ b = SubSeq(s, n + 1, Len(s))
  OBVIOUS
<1>2. Len(s) \in Nat /\ DOMAIN s = 1..Len(s) /\ n \in 1..Len(s)
  OBVIOUS
<1>3. /\ a \in Seq(Chunk) /\ Len(a) = n - 1 /\ \A i \in 1..(n - 1) : a[i] = s[i]
  BY <1>1, <1>2
<1>4. /\ b \in Seq(Chunk) /\ Len(b) = Len(s) - n /\ \A i \in 1..(Len(s) - n) : b[i] = s[n + i]
  BY <1>1, <1>2
<1>5. PICK t : t = RemoveAt(s, n)
  OBVIOUS
<1>6. t = a \o b
  BY <1>1, <1>5 DEF RemoveAt
<1>7. /\ t \in Seq(Chunk) /\ Len(t) = Len(s) - 1 /\ DOMAIN t = 1..(Len(s) - 1)
      /\ \A i \in 1..(Len(s) - 1) : t[i] = IF i < n THEN s[i] ELSE s[i + 1]
  <2>1. /\ t \in Seq(Chunk) /\ Len(t) = Len(a) + Len(b)
        /\ \A i \in 1..Len(a) : t[i] = a[i]
        /\ \A i \in (Len(a) + 1)..(Len(a) + Len(b)) : t[i] = b[i - Len(a)]
    BY <1>3, <1>4, <1>6, ConcatProperties, SMTT(30)
  <2>2. Len(a) = n - 1 /\ Len(t) = Len(s) - 1
    BY <1>2, <1>3, <1>4, <2>1
  <2>3. ASSUME NEW i \in 1..(Len(s) - 1), i < n PROVE t[i] = s[i]
    BY <1>2, <1>3, <2>1, <2>2, <2>3
  <2>4. ASSUME NEW i \in 1..(Len(s) - 1), ~(i < n) PROVE t[i] = s[i + 1]
    <3>1. i - Len(a) \in 1..(Len(s) - n) /\ i \in (Len(a) + 1)..(Len(a) + Len(b))
      BY <1>2, <1>4, <2>2, <2>4
    <3>2. t[i] = s[n + (i - Len(a))]
      BY <1>4, <2>1, <3>1
    <3>3. n + (i - Len(a)) = i + 1
      BY <1>2, <2>2
    <3> QED
      BY <3>2, <3>3
  <2> QED
    BY <2>1, <2>2, <2>3, <2>4
<1>8. IdsApart(t)
  <2> SUFFICES ASSUME NEW i \in 1..(Len(s) - 1), NEW j \in 1..(Len(s) - 1), t[i].id = t[j].id
               PROVE  i = j
    BY <1>7 DEF IdsApart
  <2>1. PICK k \in DOMAIN s : t[i] = s[k] /\ k = IF i < n THEN i ELSE i + 1
    BY <1>2, <1>7
  <2>2. PICK m \in DOMAIN s : t[j] = s[m] /\ m = IF j < n THEN j ELSE j + 1
    BY <1>2, <1>7
  <2>3. k = m
    BY <2>1, <2>2 DEF IdsApart
  <2> QED
    BY <1>2, <2>1, <2>2, <2>3
<1>9. ToSet(t) \subseteq ToSet(s) \ {s[n]}
  <2> SUFFICES ASSUME NEW i \in 1..(Len(s) - 1) PROVE t[i] \in ToSet(s) /\ t[i] # s[n]
    BY <1>7 DEF ToSet
  <2>1. CASE i < n
    BY <1>2, <1>7, <2>1 DEF IdsApart, ToSet
  <2>2. CASE ~(i < n)
    BY <1>2, <1>7, <2>2 DEF IdsApart, ToSet
  <2> QED
    BY <2>1, <2>2
<1>10. ToSet(s) \ {s[n]} \subseteq ToSet(t)
  <2> SUFFICES ASSUME NEW i \in 1..Len(s), i # n PROVE s[i] \in ToSet(t)
    BY <1>2 DEF ToSet
  <2>1. CASE i < n
    <3>1. i \in 1..(Len(s) - 1) /\ t[i] = s[i]
      BY <1>2, <1>7, <2>1
    <3> QED
      BY <1>7, <3>1 DEF ToSet
  <2>2. CASE ~(i < n)
    <3>1. i - 1 \in 1..(Len(s) - 1) /\ t[i - 1] = s[i]
      BY <1>2, <1>7, <2>2
    <3> QED
      BY <1>7, <3>1 DEF ToSet
  <2> QED
    BY <2>1, <2>2
<1> QED
  BY <1>5, <1>7, <1>8, <1>9, <1>10
-----------------------------------------------------------------------------
(* The chunks of a list: its pool p and its current chunk c, of n made for a *)
(* list of queue q of which the recordings in "ended" were executed.        *)

\* A recording not yet executed has the chunk.
Pending(chunk) == chunk.version # Available /\ ~chunk.version.submitted

\* An unfinished submission i of the queue may have the chunk.
Retained(chunk, i) ==
    chunk.version # Available /\ (chunk.version.submitted => i <= chunk.version.instance)

ChunkOK(chunk, n, q, ended) ==
    /\ chunk.id <= n /\ chunk.writePointer <= chunk.size
    /\ MemoryLimit > 0 => chunk.size <= MemoryLimit
    /\ chunk.version # Available => chunk.version.queue = q
    /\ Pending(chunk) => chunk.version.instance \notin ended

PoolOK(p, c, n, q, ended) ==
    /\ p \in Seq(Chunk) /\ IdsApart(p)
    /\ \A i \in DOMAIN p : ChunkOK(p[i], n, q, ended)
    /\ c # None => /\ c \in Chunk /\ ChunkOK(c, n, q, ended) /\ Pending(c)
                   /\ \A i \in DOMAIN p : p[i].id # c.id

ChunksOf(p, c) == ToSet(p) \cup ({c} \ {None})

\* The memory u lies within what is used up of a chunk of a recording,
HeldOpen(chunks, u) == \E chunk \in chunks :
    chunk.id = u.chunk /\ u.hi <= chunk.writePointer /\ Pending(chunk)

\* or of one that waits for submission i.
Held(chunks, u, i) == \E chunk \in chunks :
    chunk.id = u.chunk /\ u.hi <= chunk.writePointer /\ Retained(chunk, i)

\* A chunk has its ID for itself.
LEMMA OneChunkPerId ==
  ASSUME NEW p, NEW c, NEW n, NEW q, NEW ended, PoolOK(p, c, n, q, ended),
         NEW a \in ChunksOf(p, c), NEW b \in ChunksOf(p, c), a.id = b.id
  PROVE  a = b
  BY DEF PoolOK, ChunksOf, ToSet, IdsApart

\* The current chunk goes to the end of the pool.
LEMMA RetireKeeps ==
  ASSUME UploadManagerAssumption, NEW l \in Lists, NEW p, NEW n, NEW q, NEW ended,
         PoolOK(p, current[l], n, q, ended)
  PROVE  /\ PoolOK(Retire(l, p), None, n, q, ended)
         /\ ChunksOf(Retire(l, p), None) = ChunksOf(p, current[l])
<1>1. PICK c : c = current[l]
  OBVIOUS
<1>2. CASE c = None
  BY <1>1, <1>2 DEF Retire
<1>3. CASE c # None
  <2>1. PICK t : t = Append(p, c)
    OBVIOUS
  <2>2. p \in Seq(Chunk) /\ IdsApart(p) /\ c \in Chunk /\ \A i \in DOMAIN p : p[i].id # c.id
    BY <1>1, <1>3 DEF PoolOK
  <2>3. t \in Seq(Chunk) /\ IdsApart(t) /\ ToSet(t) = ToSet(p) \cup {c}
    BY <2>1, <2>2, AppendApart
  <2>4. \A i \in DOMAIN t : t[i] \in ToSet(p) \cup {c}
    BY <2>3 DEF ToSet
  <2>5. \A d \in ToSet(p) \cup {c} : ChunkOK(d, n, q, ended)
    BY <1>1, <1>3 DEF PoolOK, ToSet
  <2>6. PoolOK(t, None, n, q, ended)
    BY <2>3, <2>4, <2>5 DEF PoolOK
  <2>7. ChunksOf(t, None) = ChunksOf(p, c)
    BY <1>3, <2>3 DEF ChunksOf
  <2>8. Retire(l, p) = t
    BY <1>1, <1>3, <2>1 DEF Retire
  <2> QED
    BY <1>1, <2>6, <2>7, <2>8
<1> QED
  BY <1>2, <1>3

\* A chunk can be taken out of the pool.
LEMMA RemoveKeeps ==
  ASSUME NEW p, NEW c, NEW n, NEW q, NEW ended, PoolOK(p, c, n, q, ended), NEW k \in DOMAIN p
  PROVE  /\ PoolOK(RemoveAt(p, k), c, n, q, ended)
         /\ ChunksOf(RemoveAt(p, k), c) = ChunksOf(p, c) \ {p[k]}
         /\ \A d \in ChunksOf(RemoveAt(p, k), c) : d.id # p[k].id
<1>1. PICK t : t = RemoveAt(p, k)
  OBVIOUS
<1>2. t \in Seq(Chunk) /\ IdsApart(t) /\ ToSet(t) = ToSet(p) \ {p[k]}
  BY <1>1, RemoveApart DEF PoolOK
<1>3. \A i \in DOMAIN t : t[i] \in ToSet(p)
  BY <1>2 DEF ToSet
<1>4. PoolOK(t, c, n, q, ended)
  BY <1>2, <1>3 DEF PoolOK, ToSet
<1>5. p[k] \in ToSet(p) /\ (c # None => p[k] # c)
  BY DEF PoolOK, ToSet
<1>6. ChunksOf(t, c) = ChunksOf(p, c) \ {p[k]}
  <2>1. PICK e, pk : e = {c} \ {None} /\ pk = p[k]
    OBVIOUS
  <2>2. pk \notin e
    BY <1>5, <2>1
  <2>3. (ToSet(p) \ {pk}) \cup e = (ToSet(p) \cup e) \ {pk}
    BY <2>2
  <2> QED
    BY <1>2, <2>1, <2>3 DEF ChunksOf
<1>7. \A d \in ChunksOf(p, c) : d.id = p[k].id => d = p[k]
  BY <1>5, OneChunkPerId DEF ChunksOf, ToSet
<1> QED
  BY <1>1, <1>4, <1>6, <1>7

\* What a search reclaims is finished: what is not finished keeps its chunk.
LEMMA ReclaimFacts ==
  ASSUME NEW chunk \in Chunk, NEW finished \in Nat
  PROVE  /\ Reclaim(chunk, finished) \in Chunk
         /\ Reclaim(chunk, finished).id = chunk.id
         /\ Reclaim(chunk, finished).size = chunk.size
         /\ Reclaim(chunk, finished).writePointer = chunk.writePointer
         /\ Reclaim(chunk, finished).version \in {chunk.version, Available}
         /\ Pending(chunk) => Reclaim(chunk, finished) = chunk
         /\ \A i \in Nat : Retained(chunk, i) /\ finished < i => Reclaim(chunk, finished) = chunk
<1>1. CASE ~(chunk.version.submitted /\ chunk.version.instance <= finished)
  BY <1>1 DEF Reclaim
<1>2. CASE chunk.version.submitted /\ chunk.version.instance <= finished
  <2>1. PICK d : d = [chunk EXCEPT !.version = Available]
    OBVIOUS
  <2>2. d = Reclaim(chunk, finished)
    BY <1>2, <2>1 DEF Reclaim
  <2>3. /\ d \in Chunk /\ d.id = chunk.id /\ d.size = chunk.size
        /\ d.writePointer = chunk.writePointer /\ d.version = Available
    BY <2>1 DEF Chunk
  <2>4. ~Pending(chunk)
    BY <1>2 DEF Pending
  <2>5. ASSUME NEW i \in Nat, Retained(chunk, i), finished < i PROVE FALSE
    <3>1. i <= chunk.version.instance /\ chunk.version # Available
      BY <1>2, <2>5 DEF Retained
    <3>2. chunk.version.instance \in Nat
      BY <3>1 DEF Chunk
    <3> QED
      BY <1>2, <2>5, <3>1, <3>2
  <2> QED
    BY <2>2, <2>3, <2>4, <2>5
<1> QED
  BY <1>1, <1>2

LEMMA SearchKeeps ==
  ASSUME UploadManagerAssumption, NEW l \in Lists, NEW c, NEW n, NEW q, NEW ended,
         PoolOK(pool[l], c, n, q, ended), NEW finished \in Nat, NEW k \in Nat,
         NEW s, s = Searched(l, finished, k)
  PROVE  /\ PoolOK(s, c, n, q, ended) /\ DOMAIN s = DOMAIN pool[l]
         /\ k \in DOMAIN s => s[k] = Reclaim(pool[l][k], finished)
         /\ \A u : HeldOpen(ChunksOf(pool[l], c), u) => HeldOpen(ChunksOf(s, c), u)
         /\ \A u : \A i \in Nat :
              finished < i /\ Held(ChunksOf(pool[l], c), u, i) => Held(ChunksOf(s, c), u, i)
<1>1. PICK p : p = pool[l]
  OBVIOUS
<1>2. /\ p \in Seq(Chunk) /\ DOMAIN s = DOMAIN p /\ DOMAIN p = 1..Len(p) /\ Len(p) \in Nat
      /\ \A i \in DOMAIN p : s[i] = IF i <= k THEN Reclaim(p[i], finished) ELSE p[i]
      /\ s = [i \in 1..Len(p) |-> s[i]]
  BY <1>1 DEF Searched, PoolOK
<1>3. ASSUME NEW i \in DOMAIN p
      PROVE  /\ p[i] \in Chunk /\ s[i] \in Chunk /\ s[i].id = p[i].id /\ s[i].size = p[i].size
             /\ s[i].writePointer = p[i].writePointer
             /\ s[i].version \in {p[i].version, Available}
             /\ Pending(p[i]) => s[i] = p[i]
             /\ \A m \in Nat : Retained(p[i], m) /\ finished < m => s[i] = p[i]
  <2>1. p[i] \in Chunk
    BY <1>2
  <2>2. CASE i <= k
    <3>1. s[i] = Reclaim(p[i], finished)
      BY <1>2, <2>2
    <3> QED
      BY <2>1, <3>1, ReclaimFacts
  <2>3. CASE ~(i <= k)
    <3>1. s[i] = p[i]
      BY <1>2, <2>3
    <3> QED
      BY <2>1, <3>1
  <2> QED
    BY <2>2, <2>3
<1>4. s \in Seq(Chunk)
  BY <1>2, <1>3
<1>5. ASSUME NEW i \in DOMAIN p PROVE ChunkOK(s[i], n, q, ended)
  <2>1. ChunkOK(p[i], n, q, ended)
    BY <1>1 DEF PoolOK
  <2>2. s[i].version = Available => ~Pending(s[i])
    BY DEF Pending
  <2>3. s[i].version = p[i].version => (Pending(s[i]) <=> Pending(p[i]))
    BY DEF Pending
  <2> QED
    BY <1>3, <2>1, <2>2, <2>3 DEF ChunkOK
<1>6. PoolOK(s, c, n, q, ended)
  <2>1. IdsApart(s)
    <3>1. IdsApart(p) /\ DOMAIN s = DOMAIN p
      BY <1>1, <1>2 DEF PoolOK
    <3>2. \A i \in DOMAIN p : s[i].id = p[i].id
      BY <1>3
    <3> QED
      BY <3>1, <3>2 DEF IdsApart
  <2>2. \A i \in DOMAIN s : ChunkOK(s[i], n, q, ended)
    BY <1>2, <1>5
  <2>3. c # None => /\ c \in Chunk /\ ChunkOK(c, n, q, ended) /\ Pending(c)
                    /\ \A i \in DOMAIN p : p[i].id # c.id
    BY <1>1 DEF PoolOK
  <2>4. c # None => \A i \in DOMAIN s : s[i].id # c.id
    BY <1>2, <1>3, <2>3
  <2> QED
    BY <1>4, <2>1, <2>2, <2>3, <2>4 DEF PoolOK
<1>7. \A d \in ChunksOf(p, c) : d \in ChunksOf(s, c) \/ \E i \in DOMAIN p : d = p[i]
  BY DEF ChunksOf, ToSet
<1>8. \A i \in DOMAIN p : s[i] \in ChunksOf(s, c)
  BY <1>2 DEF ChunksOf, ToSet
<1>9. \A u : HeldOpen(ChunksOf(p, c), u) => HeldOpen(ChunksOf(s, c), u)
  BY <1>3, <1>7, <1>8 DEF HeldOpen
<1>10. \A u : \A i \in Nat :
         finished < i /\ Held(ChunksOf(p, c), u, i) => Held(ChunksOf(s, c), u, i)
  BY <1>3, <1>7, <1>8 DEF Held
<1>11. k \in DOMAIN s => s[k] = Reclaim(p[k], finished)
  BY <1>2
<1> QED
  BY <1>1, <1>2, <1>6, <1>9, <1>10, <1>11

\* Nobody uses an available chunk.
LEMMA AvailableUnused ==
  ASSUME NEW p, NEW c, NEW n, NEW q, NEW ended, PoolOK(p, c, n, q, ended),
         NEW d \in ChunksOf(p, c), d.version = Available, NEW u
  PROVE  /\ HeldOpen(ChunksOf(p, c), u) => HeldOpen(ChunksOf(p, c) \ {d}, u) /\ u.chunk # d.id
         /\ \A i : Held(ChunksOf(p, c), u, i) => Held(ChunksOf(p, c) \ {d}, u, i) /\ u.chunk # d.id
<1>1. \A e \in ChunksOf(p, c) : e.id = d.id => e = d
  BY OneChunkPerId
<1>2. ~Pending(d) /\ \A i : ~Retained(d, i)
  BY DEF Pending, Retained
<1>3. HeldOpen(ChunksOf(p, c), u) => HeldOpen(ChunksOf(p, c) \ {d}, u) /\ u.chunk # d.id
  BY <1>1, <1>2 DEF HeldOpen
<1>4. \A i : Held(ChunksOf(p, c), u, i) => Held(ChunksOf(p, c) \ {d}, u, i) /\ u.chunk # d.id
  BY <1>1, <1>2 DEF Held
<1> QED
  BY <1>3, <1>4

\* More chunks hold no less.
LEMMA MoreHeld ==
  ASSUME NEW a, NEW b, a \subseteq b, NEW u
  PROVE  /\ HeldOpen(a, u) => HeldOpen(b, u)
         /\ \A i : Held(a, u, i) => Held(b, u, i)
  BY DEF HeldOpen, Held

\* A chunk of another ID becomes current.
LEMMA RenewKeeps ==
  ASSUME UploadManagerAssumption, NEW l \in Lists, NEW p, NEW n, NEW q, NEW ended,
         PoolOK(p, current[l], n, q, ended),
         NEW c \in Chunk, ChunkOK(c, n, q, ended), Pending(c),
         \A d \in ChunksOf(p, current[l]) : d.id # c.id
  PROVE  /\ PoolOK(Retire(l, p), c, n, q, ended)
         /\ ChunksOf(Retire(l, p), c) = ChunksOf(p, current[l]) \cup {c}
<1>1. PICK t : t = Retire(l, p)
  OBVIOUS
<1>2. PoolOK(t, None, n, q, ended) /\ ChunksOf(t, None) = ChunksOf(p, current[l])
  BY <1>1, RetireKeeps
<1>3. \A i \in DOMAIN t : t[i] \in ChunksOf(t, None)
  BY DEF ChunksOf, ToSet
<1>4. PoolOK(t, c, n, q, ended)
  BY <1>2, <1>3 DEF PoolOK
<1>5. ChunksOf(t, c) = ChunksOf(t, None) \cup {c}
  BY DEF ChunksOf, UploadManagerAssumption
<1> QED
  BY <1>1, <1>2, <1>4, <1>5

\* More IDs may be in use.
LEMMA MoreIds ==
  ASSUME NEW p, NEW c, NEW n \in Nat, NEW m \in Nat, n <= m, NEW q, NEW ended,
         PoolOK(p, c, n, q, ended)
  PROVE  PoolOK(p, c, m, q, ended)
<1>1. ASSUME NEW d \in Chunk, ChunkOK(d, n, q, ended) PROVE ChunkOK(d, m, q, ended)
  <2>1. d.id \in Nat
    BY DEF Chunk
  <2> QED
    BY <1>1, <2>1 DEF ChunkOK
<1>2. \A i \in DOMAIN p : p[i] \in Chunk
  BY DEF PoolOK
<1> QED
  BY <1>1, <1>2 DEF PoolOK

-----------------------------------------------------------------------------
(* The invariant.                                                           *)

Memory == [list : Lists, chunk : Nat, lo : Nat, hi : Nat, n : Nat]

PoolTypes ==
    /\ current \in [Lists -> Chunk \cup {None}] /\ pool \in [Lists -> Seq(Chunk)]
    /\ created \in [Lists -> Nat] /\ allocated \in [Lists -> Nat]

PoolsOK == \A l \in Lists :
    PoolOK(pool[l], current[l], created[l], QueueOf[l], executedAs[l])

\* What a recording uses is in chunks of recordings,
UsesHeld == \A l \in Lists : \A u \in uses[l] :
    /\ u.chunk \in 1..created[l] /\ u.n \in 1..allocated[l]
    /\ HeldOpen(ChunksOf(pool[l], current[l]), u)

\* what a submission still uses, in chunks that do not come back before it is finished.
WorkHeld == \A q \in Queues : \A i \in DOMAIN work[q] : \A u \in work[q][i] :
    /\ u.chunk \in 1..created[u.list]
    /\ Held(ChunksOf(pool[u.list], current[u.list]), u, i)

InUseApart == \A a, b \in InUse :
    a # b /\ a.list = b.list /\ a.chunk = b.chunk => a.hi <= b.lo \/ b.hi <= a.lo

UploadsInv ==
    RecordingsInv(Memory) /\ PoolTypes /\ PoolsOK /\ UsesHeld /\ WorkHeld /\ InUseApart

UploadsAssumption == RecordingsAssumption /\ UploadManagerAssumption

\* What is in use is held.
LEMMA InUseHeld ==
  ASSUME UploadsAssumption, UploadsInv, NEW u \in InUse
  PROVE  /\ u.list \in Lists /\ u.chunk \in 1..created[u.list]
         /\ \/ HeldOpen(ChunksOf(pool[u.list], current[u.list]), u)
            \/ \E i \in Nat : Held(ChunksOf(pool[u.list], current[u.list]), u, i)
<1>1. CASE \E l \in Lists : u \in uses[l]
  <2>1. PICK l \in Lists : u \in uses[l]
    BY <1>1
  <2>2. u.list = l
    BY <2>1 DEF UploadsInv, RecordingsInv, UsesOwned
  <2> QED
    BY <2>1, <2>2 DEF UploadsInv, UsesHeld
<1>2. CASE \E q \in Queues : \E i \in DOMAIN work[q] : u \in work[q][i]
  <2>0. PICK q \in Queues : \E i \in DOMAIN work[q] : u \in work[q][i]
    BY <1>2
  <2>1. PICK i \in DOMAIN work[q] : u \in work[q][i]
    BY <2>0
  <2>2. u.list \in Lists
    BY <2>1 DEF UploadsInv, RecordingsInv, WorkOwned
  <2>3. i \in Nat
    BY <2>1 DEF UploadsInv, RecordingsInv, MemoryTypes
  <2> QED
    BY <2>1, <2>2, <2>3 DEF UploadsInv, WorkHeld
<1> QED
  BY <1>1, <1>2, InUseFacts

\* An allocation keeps the invariant when what was held stays held, and what is in use
\* of the chunk lies before what is given out.
LEMMA AllocationStep ==
  ASSUME UploadsAssumption, UploadsInv, NEW l \in Lists, NEW c \in Chunk,
         NEW lo \in Nat, NEW hi \in Nat, NEW p, NEW m \in Nat,
         Allocate(l, c, lo, hi), pool' = [pool EXCEPT ![l] = p],
         created' = [created EXCEPT ![l] = m], created[l] <= m,
         PoolOK(p, c, m, QueueOf[l], executedAs[l]), Pending(c), hi <= c.writePointer,
         \A u \in uses[l] : HeldOpen(ChunksOf(pool[l], current[l]), u) => HeldOpen(ChunksOf(p, c), u),
         \A i \in DOMAIN work[QueueOf[l]] : \A u \in work[QueueOf[l]][i] :
            u.list = l => Held(ChunksOf(p, c), u, i),
         \A u \in InUse : u.list = l /\ u.chunk = c.id => u.hi <= lo
  PROVE  UploadsInv'
<1>1. PICK new : new = [list |-> l, chunk |-> c.id, lo |-> lo, hi |-> hi, n |-> allocated[l] + 1]
  OBVIOUS
<1>2. /\ Use(l, {new})
      /\ current' = [current EXCEPT ![l] = c] /\ allocated' = [allocated EXCEPT ![l] = @ + 1]
  BY <1>1 DEF Allocate
<1>3. /\ uses' = [uses EXCEPT ![l] = @ \cup {new}]
      /\ UNCHANGED <<lastRecordingID, lastSubmittedID, lastFinishedID, completed, phase,
                     recordingID, submissionID, executedAs, work>>
  BY <1>2 DEF Use
<1>4. /\ c.id \in Nat \ {0} /\ allocated[l] \in Nat /\ created[l] \in Nat
      /\ new \in Memory /\ new.list = l /\ new.chunk = c.id /\ new.lo = lo /\ new.hi = hi
      /\ new.n = allocated[l] + 1 /\ c # None /\ c.id <= m
  <2>1. c.id \in Nat \ {0} /\ allocated[l] \in Nat /\ created[l] \in Nat
    BY DEF Chunk, UploadsInv, PoolTypes
  <2>2. c # None
    BY DEF UploadsAssumption, UploadManagerAssumption
  <2>3. c.id <= m
    BY <2>2 DEF PoolOK, ChunkOK
  <2> QED
    BY <1>1, <2>1, <2>2, <2>3 DEF Memory
<1>5. RecordingsInv(Memory)'
  BY <1>2, <1>4, UseNumbered DEF UploadsAssumption, UploadsInv
<1>6. PoolTypes'
  <2>1. p \in Seq(Chunk)
    BY DEF PoolOK
  <2> QED
    BY <1>2, <2>1 DEF UploadsInv, PoolTypes
<1>7. ASSUME NEW k \in Lists
      PROVE  /\ current'[k] = IF k = l THEN c ELSE current[k]
             /\ pool'[k] = IF k = l THEN p ELSE pool[k]
             /\ created'[k] = IF k = l THEN m ELSE created[k]
             /\ allocated'[k] = IF k = l THEN allocated[l] + 1 ELSE allocated[k]
             /\ uses'[k] = IF k = l THEN uses[l] \cup {new} ELSE uses[k]
  BY <1>2, <1>3 DEF UploadsInv, PoolTypes, RecordingsInv, MemoryTypes
<1>8. PoolsOK'
  BY <1>3, <1>7 DEF UploadsInv, PoolsOK
<1>9. UsesHeld'
  <2> SUFFICES ASSUME NEW k \in Lists, NEW u \in uses'[k]
               PROVE  /\ u.chunk \in 1..created'[k] /\ u.n \in 1..allocated'[k]
                      /\ HeldOpen(ChunksOf(pool'[k], current'[k]), u)
    BY DEF UsesHeld
  <2>1. CASE k # l
    BY <1>7, <2>1 DEF UploadsInv, UsesHeld
  <2>2. CASE k = l /\ u \in uses[l]
    BY <1>4, <1>7, <2>2 DEF UploadsInv, UsesHeld
  <2>3. CASE k = l /\ u = new
    <3>1. HeldOpen(ChunksOf(p, c), new)
      BY <1>4 DEF HeldOpen, ChunksOf
    <3> QED
      BY <1>4, <1>7, <2>3, <3>1
  <2> QED
    BY <1>7, <2>1, <2>2, <2>3
<1>10. WorkHeld'
  <2> SUFFICES ASSUME NEW q \in Queues, NEW i \in DOMAIN work[q], NEW u \in work[q][i]
               PROVE  /\ u.chunk \in 1..created'[u.list]
                      /\ Held(ChunksOf(pool'[u.list], current'[u.list]), u, i)
    BY <1>3 DEF WorkHeld
  <2>1. /\ u.list \in Lists /\ QueueOf[u.list] = q /\ u.chunk \in 1..created[u.list]
        /\ Held(ChunksOf(pool[u.list], current[u.list]), u, i)
    BY DEF UploadsInv, RecordingsInv, WorkOwned, WorkHeld
  <2>2. CASE u.list # l
    BY <1>7, <2>1, <2>2
  <2>3. CASE u.list = l
    BY <1>4, <1>7, <2>1, <2>3
  <2> QED
    BY <2>2, <2>3
<1>11. \A u \in InUse' : u \in InUse \/ u = new
  <2>1. RecordingsAssumption /\ RecordingsInv(Memory)
    BY DEF UploadsAssumption, UploadsInv
  <2> SUFFICES ASSUME NEW u, u \in InUse', u # new PROVE u \in InUse
    OBVIOUS
  <2>2. \/ \E k \in Lists : u \in uses'[k]
        \/ \E q \in Queues : \E i \in DOMAIN work[q] : u \in work[q][i]
    BY <1>3 DEF InUse
  <2>3. \/ \E k \in Lists : u \in uses[k]
        \/ \E q \in Queues : \E i \in DOMAIN work[q] : u \in work[q][i]
    BY <1>7, <2>2
  <2> QED
    BY <2>3, InUseFacts
<1>12. InUseApart'
  <2> SUFFICES ASSUME NEW a, NEW b, a \in InUse', b \in InUse', a # b, a.list = b.list, a.chunk = b.chunk
               PROVE  a.hi <= b.lo \/ b.hi <= a.lo
    BY DEF InUseApart
  <2>1. CASE a \in InUse /\ b \in InUse
    BY <2>1 DEF UploadsInv, InUseApart
  <2>2. CASE a = new \/ b = new
    BY <1>4, <1>11, <2>2
  <2> QED
    BY <1>11, <2>1, <2>2
<1> QED
  BY <1>5, <1>6, <1>8, <1>9, <1>10, <1>12 DEF UploadsInv

\* The version of an open recording is not one of an executed recording.
LEMMA OpenVersion ==
  ASSUME UploadsAssumption, UploadsInv, NEW l \in Lists, phase[l] = "open"
  PROVE  /\ PendingVersion(l) \in [instance : Nat \ {0}, queue : Queues, submitted : BOOLEAN]
         /\ PendingVersion(l).instance \notin executedAs[l] /\ PendingVersion(l).queue = QueueOf[l]
         /\ PendingVersion(l).submitted = FALSE /\ PendingVersion(l) # Available
<1>1. PICK id : id = recordingID[l]
  OBVIOUS
<1>2. id \in Nat \ {0} /\ id \notin executedAs[l] /\ QueueOf[l] \in Queues
  BY <1>1 DEF UploadsAssumption, RecordingsAssumption, UploadsInv, RecordingsInv, RecordingsTypeOK,
              RecordingsNumbered
<1> QED
  BY <1>1, <1>2 DEF PendingVersion, MakeVersion, Available

\* A chunk large enough becomes the recording's.
LEMMA FreshChunk ==
  ASSUME UploadsAssumption, UploadsInv, NEW l \in Lists, phase[l] = "open",
         NEW d \in Chunk, NEW r \in Requests, r.size <= d.size, NEW m \in Nat, d.id <= m,
         MemoryLimit > 0 => d.size <= MemoryLimit
  PROVE  /\ Fresh(l, d, r) \in Chunk /\ Fresh(l, d, r).id = d.id
         /\ Fresh(l, d, r).writePointer = r.size /\ Pending(Fresh(l, d, r))
         /\ ChunkOK(Fresh(l, d, r), m, QueueOf[l], executedAs[l])
<1>1. PICK v, f : v = PendingVersion(l) /\ f = Fresh(l, d, r)
  OBVIOUS
<1>2. /\ v \in [instance : Nat \ {0}, queue : Queues, submitted : BOOLEAN]
      /\ v.instance \notin executedAs[l] /\ v.queue = QueueOf[l] /\ v.submitted = FALSE /\ v # Available
  BY <1>1, OpenVersion
<1>3. r.size \in Nat
  BY DEF UploadsAssumption, UploadManagerAssumption
<1>4. f = [d EXCEPT !.version = v, !.writePointer = r.size]
  BY <1>1 DEF Fresh
<1>5. f \in Chunk /\ f.id = d.id /\ f.size = d.size /\ f.writePointer = r.size /\ f.version = v
  BY <1>2, <1>3, <1>4 DEF Chunk
<1>6. Pending(f)
  BY <1>2, <1>5 DEF Pending
<1>7. ChunkOK(f, m, QueueOf[l], executedAs[l])
  BY <1>2, <1>5 DEF ChunkOK
<1> QED
  BY <1>1, <1>5, <1>6, <1>7

\* A submission that still uses something is later than any the search may take for finished.
LEMMA WorkUnfinished ==
  ASSUME UploadsAssumption, UploadsInv, NEW l \in Lists,
         NEW finished \in {lastFinishedID[QueueOf[l]], completed[QueueOf[l]]}
  PROVE  /\ finished \in Nat
         /\ \A i \in DOMAIN work[QueueOf[l]] : i \in Nat /\ (work[QueueOf[l]][i] # {} => finished < i)
<1>1. PICK q : q = QueueOf[l]
  OBVIOUS
<1>2. /\ q \in Queues /\ lastFinishedID[q] \in Nat /\ completed[q] \in Nat
      /\ lastFinishedID[q] <= completed[q]
      /\ \A i \in DOMAIN work[q] : i \in Nat /\ (i <= completed[q] => work[q][i] = {})
  BY <1>1 DEF UploadsAssumption, RecordingsAssumption, UploadsInv, RecordingsInv, RecordingsTypeOK,
              MemoryTypes, WorkOwned
<1> QED
  BY <1>1, <1>2

LEMMA AllocateFromCurrentHolds ==
  ASSUME UploadsAssumption, UploadsInv, NEW l \in Lists, NEW r \in Requests, AllocateFromCurrent(l, r)
  PROVE  UploadsInv'
<1>1. PICK c, lo, d, q : /\ c = current[l] /\ lo = AlignedOffset(c, r) /\ q = QueueOf[l]
                         /\ d = [c EXCEPT !.writePointer = lo + r.size]
  OBVIOUS
<1>2. /\ c # None /\ Fits(c, r) /\ Allocate(l, d, lo, lo + r.size) /\ UNCHANGED <<pool, created>>
  BY <1>1 DEF AllocateFromCurrent
<1>3. /\ r.size \in Nat /\ r.alignment \in Nat \ {0}
  BY DEF UploadsAssumption, UploadManagerAssumption
<1>4. PoolOK(pool[l], c, created[l], q, executedAs[l]) /\ created[l] \in Nat
  BY <1>1 DEF UploadsInv, PoolsOK, PoolTypes
<1>5. c \in Chunk /\ ChunkOK(c, created[l], q, executedAs[l]) /\ Pending(c)
  BY <1>2, <1>4 DEF PoolOK
<1>6. c.writePointer \in Nat /\ c.size \in Nat
  BY <1>5 DEF Chunk
<1>7. lo \in Nat /\ c.writePointer <= lo /\ lo + r.size \in Nat
  BY <1>1, <1>3, <1>6, AlignFacts DEF AlignedOffset
<1>8. lo + r.size <= c.size
  BY <1>1, <1>2 DEF Fits
<1>9. /\ d \in Chunk /\ d.id = c.id /\ d.size = c.size /\ d.version = c.version
      /\ d.writePointer = lo + r.size
  BY <1>1, <1>5, <1>7 DEF Chunk
<1>10. ChunkOK(d, created[l], q, executedAs[l]) /\ Pending(d)
  BY <1>5, <1>8, <1>9 DEF ChunkOK, Pending
<1>11. PoolOK(pool[l], d, created[l], q, executedAs[l])
  BY <1>2, <1>4, <1>9, <1>10 DEF PoolOK
<1>12. pool' = [pool EXCEPT ![l] = pool[l]] /\ created' = [created EXCEPT ![l] = created[l]]
  BY <1>2 DEF UploadsInv, PoolTypes
<1>13. /\ c \in ChunksOf(pool[l], c) /\ d \in ChunksOf(pool[l], d)
       /\ \A e \in ChunksOf(pool[l], c) : e = c \/ e \in ChunksOf(pool[l], d)
  <2>1. d # None
    BY <1>9 DEF UploadsAssumption, UploadManagerAssumption
  <2> QED
    BY <1>2, <2>1 DEF ChunksOf
<1>14. \A i : Retained(c, i) => Retained(d, i)
  BY <1>9 DEF Retained
<1>15. ASSUME NEW u, u.hi <= c.writePointer, u.hi \in Nat PROVE u.hi <= d.writePointer
  BY <1>3, <1>6, <1>7, <1>9, <1>15
<1>16. ASSUME NEW u, u.hi \in Nat
       PROVE  /\ HeldOpen(ChunksOf(pool[l], c), u) => HeldOpen(ChunksOf(pool[l], d), u)
              /\ \A i : Held(ChunksOf(pool[l], c), u, i) => Held(ChunksOf(pool[l], d), u, i)
  <2>1. HeldOpen(ChunksOf(pool[l], c), u) => HeldOpen(ChunksOf(pool[l], d), u)
    BY <1>9, <1>10, <1>13, <1>15, <1>16 DEF HeldOpen
  <2>2. \A i : Held(ChunksOf(pool[l], c), u, i) => Held(ChunksOf(pool[l], d), u, i)
    BY <1>9, <1>13, <1>14, <1>15, <1>16 DEF Held
  <2> QED
    BY <2>1, <2>2
<1>17. \A u \in uses[l] : HeldOpen(ChunksOf(pool[l], c), u) => HeldOpen(ChunksOf(pool[l], d), u)
  <2>1. \A u \in uses[l] : u.hi \in Nat
    BY DEF UploadsInv, RecordingsInv, MemoryTypes, Memory
  <2> QED
    BY <1>16, <2>1
<1>18. \A i \in DOMAIN work[q] : \A u \in work[q][i] :
         u.list = l => Held(ChunksOf(pool[l], d), u, i)
  <2>1. q \in Queues
    BY <1>1 DEF UploadsAssumption, RecordingsAssumption
  <2>2. \A i \in DOMAIN work[q] : \A u \in work[q][i] :
          u.hi \in Nat /\ Held(ChunksOf(pool[u.list], current[u.list]), u, i)
    <3>1. \A i \in DOMAIN work[q] : work[q][i] \subseteq Memory
      BY <2>1 DEF UploadsInv, RecordingsInv, MemoryTypes
    <3> QED
      BY <2>1, <3>1 DEF UploadsInv, WorkHeld, Memory
  <2> QED
    BY <1>1, <1>16, <2>2
<1>19. ASSUME NEW u \in InUse, u.list = l, u.chunk = d.id PROVE u.hi <= lo
  <2>1. \E e \in ChunksOf(pool[l], c) : e.id = u.chunk /\ u.hi <= e.writePointer
    BY <1>1, <1>19, InUseHeld DEF HeldOpen, Held
  <2>2. u.hi <= c.writePointer
    BY <1>4, <1>9, <1>13, <1>19, <2>1, OneChunkPerId
  <2>3. u.hi \in Nat
    <3>1. u \in Memory
      <4>1. RecordingsInv(Memory)
        BY DEF UploadsInv
      <4>2. \/ \E k \in Lists : u \in uses[k]
            \/ \E p \in Queues : \E i \in DOMAIN work[p] : u \in work[p][i]
        BY InUseFacts
      <4> QED
        BY <4>1, <4>2 DEF RecordingsInv, MemoryTypes
    <3> QED
      BY <3>1 DEF Memory
  <2> QED
    BY <1>6, <1>7, <2>2, <2>3
<1>20. PICK hi, p, m : hi = lo + r.size /\ p = pool[l] /\ m = created[l]
  OBVIOUS
<1>21. /\ lo \in Nat /\ hi \in Nat /\ m \in Nat /\ d \in Chunk /\ Allocate(l, d, lo, hi)
       /\ pool' = [pool EXCEPT ![l] = p] /\ created' = [created EXCEPT ![l] = m] /\ created[l] <= m
       /\ PoolOK(p, d, m, QueueOf[l], executedAs[l]) /\ Pending(d) /\ hi <= d.writePointer
  <2>1. lo \in Nat /\ hi \in Nat /\ m \in Nat /\ created[l] <= m
    BY <1>4, <1>7, <1>20
  <2>2. d \in Chunk /\ Allocate(l, d, lo, hi) /\ Pending(d)
    BY <1>2, <1>9, <1>10, <1>20
  <2>3. pool' = [pool EXCEPT ![l] = p] /\ created' = [created EXCEPT ![l] = m]
    BY <1>12, <1>20
  <2>4. PoolOK(p, d, m, QueueOf[l], executedAs[l])
    BY <1>1, <1>11, <1>20
  <2>5. hi <= d.writePointer
    BY <1>7, <1>9, <1>20
  <2> QED
    BY <2>1, <2>2, <2>3, <2>4, <2>5
<1>22. /\ \A u \in uses[l] : HeldOpen(ChunksOf(pool[l], current[l]), u) => HeldOpen(ChunksOf(p, d), u)
       /\ \A i \in DOMAIN work[QueueOf[l]] : \A u \in work[QueueOf[l]][i] :
            u.list = l => Held(ChunksOf(p, d), u, i)
       /\ \A u \in InUse : u.list = l /\ u.chunk = d.id => u.hi <= lo
  BY <1>1, <1>17, <1>18, <1>19, <1>20
<1> QED
  BY <1>21, <1>22, AllocationStep

\* A chunk of which nothing is in use becomes current, and is given out from its start.
LEMMA FreshStep ==
  ASSUME UploadsAssumption, UploadsInv, NEW l \in Lists, NEW r \in Requests, NEW p,
         NEW d \in Chunk, NEW m \in Nat, created[l] <= m, d.id <= m, r.size <= d.size,
         MemoryLimit > 0 => d.size <= MemoryLimit,
         PoolOK(p, current[l], m, QueueOf[l], executedAs[l]),
         \A e \in ChunksOf(p, current[l]) : e.id # d.id,
         \A u \in uses[l] : HeldOpen(ChunksOf(p, current[l]), u),
         \A i \in DOMAIN work[QueueOf[l]] : \A u \in work[QueueOf[l]][i] :
            u.list = l => Held(ChunksOf(p, current[l]), u, i),
         Allocate(l, Fresh(l, d, r), 0, r.size),
         pool' = [pool EXCEPT ![l] = Retire(l, p)], created' = [created EXCEPT ![l] = m]
  PROVE  UploadsInv'
<1>1. PICK c, t, hi, q : c = Fresh(l, d, r) /\ t = Retire(l, p) /\ hi = r.size /\ q = QueueOf[l]
  OBVIOUS
<1>2. phase[l] = "open"
  BY DEF Allocate, Use
<1>3. /\ c \in Chunk /\ c.id = d.id /\ c.writePointer = hi /\ Pending(c)
      /\ ChunkOK(c, m, QueueOf[l], executedAs[l])
  BY <1>1, <1>2, FreshChunk
<1>4. UploadManagerAssumption /\ hi \in Nat
  BY <1>1 DEF UploadsAssumption, UploadManagerAssumption
<1>5. /\ PoolOK(t, c, m, QueueOf[l], executedAs[l])
      /\ ChunksOf(t, c) = ChunksOf(p, current[l]) \cup {c}
  BY <1>1, <1>3, <1>4, RenewKeeps
<1>6. /\ \A u \in uses[l] : HeldOpen(ChunksOf(t, c), u)
      /\ \A i \in DOMAIN work[QueueOf[l]] : \A u \in work[QueueOf[l]][i] :
            u.list = l => Held(ChunksOf(t, c), u, i)
  <2>1. PICK a, b : a = ChunksOf(p, current[l]) /\ b = ChunksOf(t, c)
    OBVIOUS
  <2>2. a \subseteq b
    BY <1>5, <2>1
  <2> QED
    BY <2>1, <2>2, MoreHeld
<1>7. ASSUME NEW u \in InUse, u.list = l, u.chunk = c.id PROVE FALSE
  <2>1. RecordingsAssumption /\ RecordingsInv(Memory)
    BY DEF UploadsAssumption, UploadsInv
  <2>2. \/ \E k \in Lists : u \in uses[k]
        \/ \E k \in Queues : \E i \in DOMAIN work[k] : u \in work[k][i]
    BY InUseFacts
  <2>3. CASE \E k \in Lists : u \in uses[k]
    <3>1. u \in uses[l]
      BY <1>7, <2>1, <2>3 DEF RecordingsInv, UsesOwned
    <3> QED
      BY <1>3, <1>7, <3>1 DEF HeldOpen
  <2>4. CASE \E k \in Queues : \E i \in DOMAIN work[k] : u \in work[k][i]
    <3>1. \E i \in DOMAIN work[q] : u \in work[q][i]
      BY <1>1, <1>7, <2>1, <2>4 DEF RecordingsInv, WorkOwned
    <3> QED
      BY <1>1, <1>3, <1>7, <3>1 DEF Held
  <2> QED
    BY <2>2, <2>3, <2>4
<1>8. PICK lo : lo = 0
  OBVIOUS
<1>9. /\ lo \in Nat /\ hi \in Nat /\ m \in Nat /\ c \in Chunk /\ Allocate(l, c, lo, hi)
      /\ pool' = [pool EXCEPT ![l] = t] /\ created' = [created EXCEPT ![l] = m] /\ created[l] <= m
      /\ PoolOK(t, c, m, QueueOf[l], executedAs[l]) /\ Pending(c) /\ hi <= c.writePointer
  <2>1. lo \in Nat /\ hi \in Nat /\ m \in Nat /\ c \in Chunk /\ Allocate(l, c, lo, hi)
    BY <1>1, <1>3, <1>4, <1>8
  <2>2. pool' = [pool EXCEPT ![l] = t] /\ created' = [created EXCEPT ![l] = m] /\ created[l] <= m
    BY <1>1
  <2>3. hi <= c.writePointer
    BY <1>3, <1>4
  <2> QED
    BY <1>3, <1>5, <2>1, <2>2, <2>3
<1>10. /\ \A u \in uses[l] : HeldOpen(ChunksOf(pool[l], current[l]), u) => HeldOpen(ChunksOf(t, c), u)
       /\ \A i \in DOMAIN work[QueueOf[l]] : \A u \in work[QueueOf[l]][i] :
            u.list = l => Held(ChunksOf(t, c), u, i)
       /\ \A u \in InUse : u.list = l /\ u.chunk = c.id => u.hi <= lo
  BY <1>6, <1>7
<1> QED
  BY <1>9, <1>10, AllocationStep

\* What a search leaves behind.
LEMMA SearchHolds ==
  ASSUME UploadsAssumption, UploadsInv, NEW l \in Lists,
         NEW finished \in {lastFinishedID[QueueOf[l]], completed[QueueOf[l]]}, NEW k \in Nat,
         NEW s, s = Searched(l, finished, k)
  PROVE  /\ PoolOK(s, current[l], created[l], QueueOf[l], executedAs[l])
         /\ DOMAIN s = DOMAIN pool[l]
         /\ k \in DOMAIN s => s[k] = Reclaim(pool[l][k], finished)
         /\ \A u \in uses[l] : HeldOpen(ChunksOf(s, current[l]), u)
         /\ \A i \in DOMAIN work[QueueOf[l]] : \A u \in work[QueueOf[l]][i] :
              u.list = l => Held(ChunksOf(s, current[l]), u, i)
<1>1. PICK q : q = QueueOf[l]
  OBVIOUS
<1>2. UploadManagerAssumption /\ q \in Queues
  BY <1>1 DEF UploadsAssumption, RecordingsAssumption
<1>3. PoolOK(pool[l], current[l], created[l], QueueOf[l], executedAs[l])
  BY DEF UploadsInv, PoolsOK
<1>4. /\ finished \in Nat
      /\ \A i \in DOMAIN work[QueueOf[l]] : i \in Nat /\ (work[QueueOf[l]][i] # {} => finished < i)
  BY WorkUnfinished
<1>5. /\ PoolOK(s, current[l], created[l], QueueOf[l], executedAs[l]) /\ DOMAIN s = DOMAIN pool[l]
      /\ k \in DOMAIN s => s[k] = Reclaim(pool[l][k], finished)
      /\ \A u : HeldOpen(ChunksOf(pool[l], current[l]), u) => HeldOpen(ChunksOf(s, current[l]), u)
      /\ \A u : \A i \in Nat : finished < i /\ Held(ChunksOf(pool[l], current[l]), u, i)
           => Held(ChunksOf(s, current[l]), u, i)
  <2>1. PICK c, n, e : c = current[l] /\ n = created[l] /\ e = executedAs[l]
    OBVIOUS
  <2>2. PoolOK(pool[l], c, n, q, e)
    BY <1>1, <1>3, <2>1
  <2>3. /\ PoolOK(s, c, n, q, e) /\ DOMAIN s = DOMAIN pool[l]
        /\ k \in DOMAIN s => s[k] = Reclaim(pool[l][k], finished)
        /\ \A u : HeldOpen(ChunksOf(pool[l], c), u) => HeldOpen(ChunksOf(s, c), u)
        /\ \A u : \A i \in Nat : finished < i /\ Held(ChunksOf(pool[l], c), u, i)
             => Held(ChunksOf(s, c), u, i)
    <3>1. UploadManagerAssumption /\ finished \in Nat /\ s = Searched(l, finished, k)
      BY <1>2, <1>4
    <3>2. PoolOK(s, c, n, q, e) /\ DOMAIN s = DOMAIN pool[l]
      BY <2>2, <3>1, SearchKeeps
    <3>3. k \in DOMAIN s => s[k] = Reclaim(pool[l][k], finished)
      BY <2>2, <3>1, SearchKeeps
    <3>4. \A u : HeldOpen(ChunksOf(pool[l], c), u) => HeldOpen(ChunksOf(s, c), u)
      BY <2>2, <3>1, SearchKeeps
    <3>5. \A u : \A i \in Nat : finished < i /\ Held(ChunksOf(pool[l], c), u, i)
            => Held(ChunksOf(s, c), u, i)
      BY <2>2, <3>1, SearchKeeps
    <3> QED
      BY <3>2, <3>3, <3>4, <3>5
  <2> QED
    BY <1>1, <2>1, <2>3
<1>6. \A u \in uses[l] : HeldOpen(ChunksOf(s, current[l]), u)
  BY <1>5 DEF UploadsInv, UsesHeld
<1>7. \A i \in DOMAIN work[q] : \A u \in work[q][i] :
        u.list = l => Held(ChunksOf(s, current[l]), u, i)
  BY <1>1, <1>2, <1>4, <1>5 DEF UploadsInv, WorkHeld
<1> QED
  BY <1>1, <1>5, <1>6, <1>7

LEMMA AllocateFromPoolHolds ==
  ASSUME UploadsAssumption, UploadsInv, NEW l \in Lists, NEW r \in Requests,
         NEW finished \in {lastFinishedID[QueueOf[l]], completed[QueueOf[l]]},
         AllocateFromPool(l, r, finished)
  PROVE  UploadsInv'
<1>1. PICK n \in DOMAIN pool[l] :
        /\ Found(l, r, finished, n)
        /\ Allocate(l, Fresh(l, pool[l][n], r), 0, r.size)
        /\ pool' = [pool EXCEPT ![l] = Retire(l, RemoveAt(Searched(l, finished, n), n))]
  BY DEF AllocateFromPool
<1>2. PICK c, m, q, e : c = current[l] /\ m = created[l] /\ q = QueueOf[l] /\ e = executedAs[l]
  OBVIOUS
<1>3. PICK d, s : d = pool[l][n] /\ s = Searched(l, finished, n)
  OBVIOUS
<1>4. PICK p, f : p = RemoveAt(s, n) /\ f = s[n]
  OBVIOUS
<1>5. PoolOK(pool[l], c, m, q, e) /\ m \in Nat
  BY <1>2 DEF UploadsInv, PoolsOK, PoolTypes
<1>6. d \in Chunk /\ ChunkOK(d, m, q, e) /\ n \in Nat
  BY <1>3, <1>5 DEF PoolOK
<1>7. finished \in Nat
  BY WorkUnfinished
<1>8. PoolOK(s, c, m, q, e) /\ DOMAIN s = DOMAIN pool[l] /\ f = Reclaim(d, finished)
  BY <1>1, <1>2, <1>3, <1>4, <1>6, SearchHolds
<1>9. /\ \A u \in uses[l] : HeldOpen(ChunksOf(s, c), u)
      /\ \A i \in DOMAIN work[q] : \A u \in work[q][i] :
           u.list = l => Held(ChunksOf(s, c), u, i)
  BY <1>2, <1>3, <1>6, SearchHolds
<1>10. f.version = Available /\ d.size >= r.size /\ f.id = d.id
  BY <1>1, <1>3, <1>6, <1>7, <1>8, ReclaimFacts DEF Found, Suitable
<1>11. /\ PoolOK(p, c, m, q, e) /\ ChunksOf(p, c) = ChunksOf(s, c) \ {f}
       /\ \A g \in ChunksOf(p, c) : g.id # f.id
  <2>1. PoolOK(s, c, m, q, e) /\ n \in DOMAIN s
    BY <1>1, <1>8
  <2>2. PoolOK(RemoveAt(s, n), c, m, q, e)
    BY <2>1, RemoveKeeps
  <2>3. ChunksOf(RemoveAt(s, n), c) = ChunksOf(s, c) \ {s[n]}
    BY <2>1, RemoveKeeps
  <2>4. \A g \in ChunksOf(RemoveAt(s, n), c) : g.id # s[n].id
    BY <2>1, RemoveKeeps
  <2> QED
    BY <1>4, <2>2, <2>3, <2>4
<1>12. f \in ChunksOf(s, c)
  BY <1>1, <1>4, <1>8 DEF ChunksOf, ToSet
<1>13. \A u \in uses[l] : HeldOpen(ChunksOf(p, c), u)
  BY <1>8, <1>9, <1>10, <1>11, <1>12, AvailableUnused
<1>14. \A i \in DOMAIN work[q] : \A u \in work[q][i] :
         u.list = l => Held(ChunksOf(p, c), u, i)
  BY <1>8, <1>9, <1>10, <1>11, <1>12, AvailableUnused
<1>15. created' = [created EXCEPT ![l] = m]
  BY <1>2 DEF AllocateFromPool, UploadsInv, PoolTypes
<1>16. /\ m \in Nat /\ created[l] <= m /\ d \in Chunk /\ d.id <= m
       /\ MemoryLimit > 0 => d.size <= MemoryLimit
  BY <1>2, <1>5, <1>6 DEF ChunkOK
<1>17. r.size <= d.size
  BY <1>6, <1>10 DEF Chunk, UploadsAssumption, UploadManagerAssumption
<1>18. /\ PoolOK(p, current[l], m, QueueOf[l], executedAs[l])
       /\ \A g \in ChunksOf(p, current[l]) : g.id # d.id
       /\ \A u \in uses[l] : HeldOpen(ChunksOf(p, current[l]), u)
       /\ \A i \in DOMAIN work[QueueOf[l]] : \A u \in work[QueueOf[l]][i] :
            u.list = l => Held(ChunksOf(p, current[l]), u, i)
  BY <1>2, <1>10, <1>11, <1>13, <1>14
<1>19. /\ Allocate(l, Fresh(l, d, r), 0, r.size) /\ pool' = [pool EXCEPT ![l] = Retire(l, p)]
  BY <1>1, <1>3, <1>4
<1> QED
  BY <1>15, <1>16, <1>17, <1>18, <1>19, FreshStep

\* An aligned size is large enough.
LEMMA SizeFacts ==
  ASSUME UploadsAssumption, NEW r \in Requests
  PROVE  SizeToAllocate(r) \in Nat /\ r.size \in Nat /\ r.size <= SizeToAllocate(r)
<1>1. PICK n : n = IF r.size > DefaultChunkSize THEN r.size ELSE DefaultChunkSize
  OBVIOUS
<1>2. n \in Nat /\ r.size \in Nat /\ r.size <= n /\ SizeAlignment \in Nat \ {0}
  BY <1>1 DEF UploadsAssumption, UploadManagerAssumption
<1>3. Align(n, SizeAlignment) \in Nat /\ n <= Align(n, SizeAlignment)
  BY <1>2, AlignFacts
<1>4. SizeToAllocate(r) = Align(n, SizeAlignment)
  BY <1>1 DEF SizeToAllocate
<1> QED
  BY <1>2, <1>3, <1>4

LEMMA AllocateNewChunkHolds ==
  ASSUME UploadsAssumption, UploadsInv, NEW l \in Lists, NEW r \in Requests,
         NEW finished \in {lastFinishedID[QueueOf[l]], completed[QueueOf[l]]},
         AllocateNewChunk(l, r, finished)
  PROVE  UploadsInv'
<1>1. PICK d, s, k : /\ d = [id |-> created[l] + 1, size |-> SizeToAllocate(r),
                             version |-> Available, writePointer |-> 0]
                     /\ k = Len(pool[l]) /\ s = Searched(l, finished, k)
  OBVIOUS
<1>2. /\ ~OverLimit(r) /\ Allocate(l, Fresh(l, d, r), 0, r.size)
      /\ created' = [created EXCEPT ![l] = @ + 1]
      /\ pool' = [pool EXCEPT ![l] = Retire(l, s)]
  BY <1>1 DEF AllocateNewChunk, AfterSearch
<1>3. PICK c, m, q, e : c = current[l] /\ m = created[l] + 1 /\ q = QueueOf[l] /\ e = executedAs[l]
  OBVIOUS
<1>4. created[l] \in Nat /\ k \in Nat
  BY <1>1 DEF UploadsInv, PoolTypes
<1>5. SizeToAllocate(r) \in Nat /\ r.size \in Nat /\ r.size <= SizeToAllocate(r)
  BY SizeFacts
<1>6. d \in Chunk /\ d.id = m /\ d.size = SizeToAllocate(r)
  BY <1>1, <1>3, <1>4, <1>5 DEF Chunk
<1>7. MemoryLimit > 0 => d.size <= MemoryLimit
  BY <1>2, <1>5, <1>6 DEF OverLimit, AllocatedMemory, UploadsAssumption, UploadManagerAssumption
<1>8. PoolOK(s, c, created[l], q, e)
  BY <1>1, <1>3, <1>4, SearchHolds
<1>9. /\ \A u \in uses[l] : HeldOpen(ChunksOf(s, c), u)
      /\ \A i \in DOMAIN work[q] : \A u \in work[q][i] :
           u.list = l => Held(ChunksOf(s, c), u, i)
  BY <1>1, <1>3, <1>4, SearchHolds
<1>10. m \in Nat /\ created[l] <= m
  BY <1>3, <1>4
<1>11. PoolOK(s, c, m, q, e)
  BY <1>4, <1>8, <1>10, MoreIds
<1>12. \A g \in ChunksOf(s, c) : g.id # d.id
  <2>1. \A g \in ChunksOf(s, c) : g \in Chunk /\ g.id <= created[l]
    BY <1>8 DEF PoolOK, ChunkOK, ChunksOf, ToSet
  <2> QED
    BY <1>3, <1>4, <1>6, <2>1
<1>13. /\ PoolOK(s, current[l], m, QueueOf[l], executedAs[l])
       /\ \A g \in ChunksOf(s, current[l]) : g.id # d.id
       /\ \A u \in uses[l] : HeldOpen(ChunksOf(s, current[l]), u)
       /\ \A i \in DOMAIN work[QueueOf[l]] : \A u \in work[QueueOf[l]][i] :
            u.list = l => Held(ChunksOf(s, current[l]), u, i)
  BY <1>3, <1>9, <1>11, <1>12
<1>14. created' = [created EXCEPT ![l] = m] /\ d.id <= m /\ r.size <= d.size
  BY <1>2, <1>3, <1>5, <1>6, <1>10
<1> QED
  BY <1>2, <1>6, <1>7, <1>10, <1>13, <1>14, FreshStep

\* The pools change and nothing is given out: what is held must stay held.
LEMMA PoolStep ==
  ASSUME UploadsAssumption, UploadsInv, NEW l \in Lists, NEW p, NEW c \in Chunk \cup {None},
         RecordingsInv(Memory)', UNCHANGED <<uses, work, created>>,
         pool' = [pool EXCEPT ![l] = p], current' = [current EXCEPT ![l] = c],
         \/ UNCHANGED allocated
         \/ allocated' = [allocated EXCEPT ![l] = @ + 1],
         PoolOK(p, c, created[l], QueueOf[l], executedAs'[l]),
         \A k \in Lists : k # l => executedAs'[k] = executedAs[k],
         \A u \in uses[l] : HeldOpen(ChunksOf(p, c), u),
         \A i \in DOMAIN work[QueueOf[l]] : \A u \in work[QueueOf[l]][i] :
            u.list = l => Held(ChunksOf(p, c), u, i)
  PROVE  UploadsInv'
<1>0. allocated' \in [Lists -> Nat] /\ \A k \in Lists : allocated[k] \in Nat /\ allocated[k] <= allocated'[k]
  <2>1. allocated \in [Lists -> Nat]
    BY DEF UploadsInv, PoolTypes
  <2>2. CASE UNCHANGED allocated
    BY <2>1, <2>2
  <2>3. CASE allocated' = [allocated EXCEPT ![l] = @ + 1]
    BY <2>1, <2>3
  <2> QED
    BY <2>2, <2>3
<1>1. /\ p \in Seq(Chunk) /\ current \in [Lists -> Chunk \cup {None}]
      /\ pool \in [Lists -> Seq(Chunk)] /\ created \in [Lists -> Nat]
  BY DEF PoolOK, UploadsInv, PoolTypes
<1>2. PoolTypes'
  <2>1. current' \in [Lists -> Chunk \cup {None}] /\ pool' \in [Lists -> Seq(Chunk)]
    BY <1>1
  <2> QED
    BY <1>1, <1>0, <2>1 DEF PoolTypes
<1>3. ASSUME NEW k \in Lists
      PROVE  /\ current'[k] = IF k = l THEN c ELSE current[k]
             /\ pool'[k] = IF k = l THEN p ELSE pool[k]
             /\ allocated[k] \in Nat /\ allocated'[k] \in Nat /\ allocated[k] <= allocated'[k]
             /\ uses'[k] = uses[k] /\ created'[k] = created[k]
  <2>1. current'[k] = IF k = l THEN c ELSE current[k]
    BY <1>1
  <2>2. pool'[k] = IF k = l THEN p ELSE pool[k]
    BY <1>1
  <2> QED
    BY <1>0, <2>1, <2>2
<1>4. PoolsOK'
  BY <1>3 DEF UploadsInv, PoolsOK
<1>5. UsesHeld'
  <2> SUFFICES ASSUME NEW k \in Lists, NEW u \in uses[k]
               PROVE  /\ u.chunk \in 1..created[k] /\ u.n \in 1..allocated'[k]
                      /\ HeldOpen(ChunksOf(pool'[k], current'[k]), u)
    BY <1>3 DEF UsesHeld
  <2>1. u.chunk \in 1..created[k] /\ u.n \in 1..allocated[k] /\ HeldOpen(ChunksOf(pool[k], current[k]), u)
    BY DEF UploadsInv, UsesHeld
  <2>2. u.n \in 1..allocated'[k]
    BY <1>3, <2>1
  <2> QED
    BY <1>3, <2>1, <2>2
<1>6. WorkHeld'
  <2> SUFFICES ASSUME NEW q \in Queues, NEW i \in DOMAIN work[q], NEW u \in work[q][i]
               PROVE  /\ u.chunk \in 1..created[u.list]
                      /\ Held(ChunksOf(pool'[u.list], current'[u.list]), u, i)
    BY DEF WorkHeld
  <2>1. /\ u.list \in Lists /\ QueueOf[u.list] = q /\ u.chunk \in 1..created[u.list]
        /\ Held(ChunksOf(pool[u.list], current[u.list]), u, i)
    BY DEF UploadsInv, RecordingsInv, WorkOwned, WorkHeld
  <2> QED
    BY <1>3, <2>1
<1>7. InUseApart'
  BY DEF UploadsInv, InUseApart, InUse
<1> QED
  BY <1>2, <1>4, <1>5, <1>6, <1>7 DEF UploadsInv

\* At the limit no chunk is large enough to be reused: each was made within it.
LEMMA AllocateAtLimitHolds ==
  ASSUME UploadsAssumption, UploadsInv, NEW l \in Lists, NEW r \in Requests,
         NEW finished \in {lastFinishedID[QueueOf[l]], completed[QueueOf[l]]},
         AllocateAtLimit(l, r, finished)
  PROVE  UploadsInv'
<1>1. PICK s, k, p, best : /\ k = Len(pool[l]) /\ s = Searched(l, finished, k) /\ p = Retire(l, s)
                           /\ best = IF ReusesAtLimit THEN BestChunks(p, r) ELSE {}
  OBVIOUS
<1>2. /\ OverLimit(r) /\ UNCHANGED created
      /\ IF best = {}
         THEN /\ pool' = [pool EXCEPT ![l] = p]
              /\ current' = [current EXCEPT ![l] = None]
              /\ allocated' = [allocated EXCEPT ![l] = @ + 1]
              /\ phase[l] = "open" /\ UNCHANGED recordingVars
         ELSE \E i \in best :
              /\ Allocate(l, Fresh(l, p[i], r), 0, r.size)
              /\ pool' = [pool EXCEPT ![l] = RemoveAt(p, i)]
  BY <1>1 DEF AllocateAtLimit, AfterSearch
<1>3. PICK c, m, q, e : c = current[l] /\ m = created[l] /\ q = QueueOf[l] /\ e = executedAs[l]
  OBVIOUS
<1>4. k \in Nat /\ UploadManagerAssumption
  BY <1>1 DEF UploadsInv, PoolTypes, UploadsAssumption
<1>5. PoolOK(s, c, m, q, e)
  BY <1>1, <1>3, <1>4, SearchHolds
<1>6. /\ \A u \in uses[l] : HeldOpen(ChunksOf(s, c), u)
      /\ \A i \in DOMAIN work[q] : \A u \in work[q][i] :
           u.list = l => Held(ChunksOf(s, c), u, i)
  BY <1>1, <1>3, <1>4, SearchHolds
<1>7. PoolOK(p, None, m, q, e) /\ ChunksOf(p, None) = ChunksOf(s, c)
  BY <1>1, <1>3, <1>4, <1>5, RetireKeeps
<1>8. MemoryLimit \in Nat /\ MemoryLimit > 0 /\ SizeToAllocate(r) > MemoryLimit /\ SizeToAllocate(r) \in Nat
  BY <1>2, <1>4, SizeFacts DEF OverLimit, AllocatedMemory, UploadManagerAssumption
<1>9. ASSUME NEW i \in DOMAIN p PROVE ~(p[i].size >= SizeToAllocate(r))
  <2>1. p[i] \in Chunk /\ ChunkOK(p[i], m, q, e)
    BY <1>7 DEF PoolOK
  <2>2. p[i].size \in Nat /\ p[i].size <= MemoryLimit
    BY <1>8, <2>1 DEF Chunk, ChunkOK
  <2> QED
    BY <1>8, <2>2
<1>10. best = {}
  BY <1>1, <1>9 DEF BestChunks
<1>11. /\ pool' = [pool EXCEPT ![l] = p] /\ current' = [current EXCEPT ![l] = None]
       /\ allocated' = [allocated EXCEPT ![l] = @ + 1] /\ UNCHANGED recordingVars
  BY <1>2, <1>10
<1>12. RecordingsInv(Memory)'
  BY <1>11, StutterNumbered DEF UploadsInv
<1>13. UNCHANGED <<uses, work, created, executedAs>>
  BY <1>2, <1>11 DEF recordingVars
<1>14. PICK none : none = None
  OBVIOUS
<1>15. /\ PoolOK(p, none, created[l], QueueOf[l], executedAs'[l])
       /\ \A u \in uses[l] : HeldOpen(ChunksOf(p, none), u)
       /\ \A i \in DOMAIN work[QueueOf[l]] : \A u \in work[QueueOf[l]][i] :
            u.list = l => Held(ChunksOf(p, none), u, i)
  BY <1>3, <1>6, <1>7, <1>13, <1>14
<1>16. /\ none \in Chunk \cup {None} /\ current' = [current EXCEPT ![l] = none]
       /\ \A k2 \in Lists : k2 # l => executedAs'[k2] = executedAs[k2]
  BY <1>11, <1>13, <1>14
<1> QED
  BY <1>11, <1>12, <1>13, <1>15, <1>16, PoolStep

\* executed() is told the submission: chunks of the recording then wait for that.
LEMMA ExecutedChunksHolds ==
  ASSUME UploadsAssumption, UploadsInv, NEW l \in Lists, ExecutedChunks(l)
  PROVE  UploadsInv'
<1>1. PICK p, s, v, w, id, sub : /\ p = Retire(l, pool[l]) /\ s = SubmittedChunks(l)
                                 /\ v = PendingVersion(l) /\ w = SubmittedVersion(l)
                                 /\ id = recordingID[l] /\ sub = submissionID[l]
  OBVIOUS
<1>2. PICK m, q, e, f : /\ m = created[l] /\ q = QueueOf[l] /\ e = executedAs[l]
                        /\ f = executedAs'[l]
  OBVIOUS
<1>3. /\ Executed(l) /\ phase[l] = "submitted"
      /\ executedAs' = [executedAs EXCEPT ![l] = @ \cup {id}]
      /\ pool' = [pool EXCEPT ![l] = s] /\ current' = [current EXCEPT ![l] = None]
      /\ UNCHANGED <<uses, work, created, allocated>>
  BY <1>1 DEF ExecutedChunks, Executed
<1>4. f = e \cup {id}
  BY <1>2, <1>3 DEF UploadsInv, RecordingsInv, RecordingsTypeOK
<1>5. sub \in Nat \ {0} /\ q \in Queues /\ id \in Nat
  BY <1>1, <1>2, <1>3 DEF UploadsAssumption, RecordingsAssumption, UploadsInv, RecordingsInv,
                          RecordingsTypeOK, SubmissionsNumbered
<1>6. /\ v = [instance |-> id, queue |-> q, submitted |-> FALSE]
      /\ w = [instance |-> sub, queue |-> q, submitted |-> TRUE]
  BY <1>1, <1>2 DEF PendingVersion, SubmittedVersion, MakeVersion
<1>7. PoolOK(p, None, m, q, e) /\ ChunksOf(p, None) = ChunksOf(pool[l], current[l])
  <2>1. PoolOK(pool[l], current[l], m, q, e) /\ UploadManagerAssumption
    BY <1>2 DEF UploadsInv, PoolsOK, UploadsAssumption
  <2> QED
    BY <1>1, <2>1, RetireKeeps
<1>8. /\ p \in Seq(Chunk) /\ DOMAIN p = 1..Len(p) /\ Len(p) \in Nat /\ IdsApart(p)
      /\ \A i \in DOMAIN p : p[i] \in Chunk /\ ChunkOK(p[i], m, q, e)
  BY <1>7 DEF PoolOK
<1>9. /\ DOMAIN s = DOMAIN p /\ s = [i \in 1..Len(p) |-> s[i]]
      /\ \A i \in DOMAIN p : s[i] = IF p[i].version = v THEN [p[i] EXCEPT !.version = w] ELSE p[i]
  BY <1>1, <1>8 DEF SubmittedChunks
<1>10. w # Available /\ w.instance = sub /\ w.queue = q /\ w.submitted = TRUE
  BY <1>5, <1>6 DEF Available
<1>11. ASSUME NEW i \in DOMAIN p
       PROVE  /\ s[i] \in Chunk /\ s[i].id = p[i].id /\ s[i].writePointer = p[i].writePointer
              /\ ChunkOK(s[i], m, q, f)
              /\ \A j \in Nat : Retained(p[i], j) /\ j <= sub => Retained(s[i], j)
  <2>1. p[i] \in Chunk /\ ChunkOK(p[i], m, q, e)
    BY <1>8
  <2>2. CASE p[i].version = v
    <3>1. s[i] = [p[i] EXCEPT !.version = w]
      BY <1>9, <2>2
    <3>2. w \in [instance : Nat \ {0}, queue : Queues, submitted : BOOLEAN]
      BY <1>5, <1>6
    <3>3. /\ s[i] \in Chunk /\ s[i].id = p[i].id /\ s[i].writePointer = p[i].writePointer
          /\ s[i].size = p[i].size /\ s[i].version = w
      BY <2>1, <3>1, <3>2 DEF Chunk
    <3>4. ChunkOK(s[i], m, q, f)
      BY <1>10, <2>1, <3>3 DEF ChunkOK, Pending
    <3>5. \A j \in Nat : j <= sub => Retained(s[i], j)
      BY <1>10, <3>3 DEF Retained
    <3> QED
      BY <3>3, <3>4, <3>5
  <2>3. CASE p[i].version # v
    <3>1. s[i] = p[i]
      BY <1>9, <2>3
    <3>2. Pending(p[i]) => p[i].version.instance # id
      <4>1. SUFFICES ASSUME Pending(p[i]), p[i].version.instance = id PROVE FALSE
        OBVIOUS
      <4>2. PICK x : x = p[i].version
        OBVIOUS
      <4>3. x \in [instance : Nat \ {0}, queue : Queues, submitted : BOOLEAN] /\ x.queue = q
        BY <2>1, <4>1, <4>2 DEF Chunk, ChunkOK, Pending
      <4>4. x.submitted = FALSE /\ x.instance = id
        BY <4>1, <4>2, <4>3 DEF Pending
      <4>5. x = [instance |-> id, queue |-> q, submitted |-> FALSE]
        BY <4>3, <4>4
      <4> QED
        BY <1>6, <2>3, <4>2, <4>5
    <3>3. ChunkOK(p[i], m, q, f)
      BY <1>4, <2>1, <3>2 DEF ChunkOK
    <3> QED
      BY <2>1, <3>1, <3>3
  <2> QED
    BY <2>2, <2>3
<1>12. PoolOK(s, None, m, q, f)
  <2>1. s \in Seq(Chunk)
    BY <1>8, <1>9, <1>11
  <2>2. IdsApart(s)
    BY <1>8, <1>9, <1>11 DEF IdsApart
  <2>3. \A i \in DOMAIN s : ChunkOK(s[i], m, q, f)
    BY <1>9, <1>11
  <2> QED
    BY <2>1, <2>2, <2>3 DEF PoolOK
<1>13. \A u \in uses[l] : HeldOpen(ChunksOf(s, None), u)
  BY <1>3 DEF UploadsInv, RecordingsInv, UsesOwned
<1>14. ASSUME NEW i \in DOMAIN work[q], NEW u \in work[q][i], u.list = l
       PROVE  Held(ChunksOf(s, None), u, i)
  <2>1. i <= sub /\ Held(ChunksOf(pool[l], current[l]), u, i)
    BY <1>1, <1>3, <1>5, <1>14 DEF UploadsInv, RecordingsInv, WorkOwned, WorkHeld
  <2>2. PICK d \in ChunksOf(p, None) : d.id = u.chunk /\ u.hi <= d.writePointer /\ Retained(d, i)
    BY <1>7, <2>1 DEF Held
  <2>3. PICK j \in DOMAIN p : d = p[j]
    BY DEF ChunksOf, ToSet
  <2>4. s[j] \in ChunksOf(s, None)
    BY <1>9 DEF ChunksOf, ToSet
  <2>5. i \in Nat
    BY <1>5 DEF UploadsInv, RecordingsInv, MemoryTypes
  <2> QED
    BY <1>11, <2>1, <2>2, <2>3, <2>4, <2>5 DEF Held
<1>15. RecordingsInv(Memory)'
  BY <1>3, ExecutedNumbered DEF UploadsAssumption, UploadsInv
<1>16. PICK none : none = None
  OBVIOUS
<1>17. /\ PoolOK(s, none, created[l], QueueOf[l], executedAs'[l])
       /\ \A u \in uses[l] : HeldOpen(ChunksOf(s, none), u)
       /\ \A i \in DOMAIN work[QueueOf[l]] : \A u \in work[QueueOf[l]][i] :
            u.list = l => Held(ChunksOf(s, none), u, i)
  BY <1>2, <1>12, <1>13, <1>14, <1>16
<1>18. /\ none \in Chunk \cup {None} /\ current' = [current EXCEPT ![l] = none]
       /\ \A k2 \in Lists : k2 # l => executedAs'[k2] = executedAs[k2]
  <2>1. \A k2 \in Lists : k2 # l => executedAs'[k2] = executedAs[k2]
    BY <1>3 DEF UploadsInv, RecordingsInv, RecordingsTypeOK
  <2> QED
    BY <1>3, <1>16, <2>1
<1> QED
  BY <1>3, <1>15, <1>17, <1>18, PoolStep

\* What is used may go over to a submission, or end.
LEMMA OutsideStep ==
  ASSUME UploadsAssumption, UploadsInv, RecordingsInv(Memory)',
         UNCHANGED <<current, pool, created, allocated, executedAs>>,
         \A l \in Lists : uses'[l] \subseteq uses[l],
         \A q \in Queues : \A i \in DOMAIN work'[q] : \A u \in work'[q][i] :
            \/ i \in DOMAIN work[q] /\ u \in work[q][i]
            \/ \E l \in Lists : u \in uses[l]
  PROVE  UploadsInv'
<1>1. RecordingsAssumption /\ RecordingsInv(Memory) /\ RecordingsInv(Memory)'
  BY DEF UploadsAssumption, UploadsInv
<1>2. PoolTypes' /\ PoolsOK'
  BY DEF UploadsInv, PoolTypes, PoolsOK
<1>3. UsesHeld'
  BY DEF UploadsInv, UsesHeld
<1>4. ASSUME NEW l \in Lists, NEW u \in uses[l]
      PROVE  /\ u.list = l /\ u.chunk \in 1..created[l]
             /\ \A i : Held(ChunksOf(pool[l], current[l]), u, i)
  <2>1. u.list = l /\ u.chunk \in 1..created[l] /\ HeldOpen(ChunksOf(pool[l], current[l]), u)
    BY DEF UploadsInv, RecordingsInv, UsesOwned, UsesHeld
  <2> QED
    BY <2>1 DEF HeldOpen, Held, Pending, Retained
<1>5. WorkHeld'
  <2> SUFFICES ASSUME NEW q \in Queues, NEW i \in DOMAIN work'[q], NEW u \in work'[q][i]
               PROVE  /\ u.chunk \in 1..created[u.list]
                      /\ Held(ChunksOf(pool[u.list], current[u.list]), u, i)
    BY DEF WorkHeld
  <2>1. CASE i \in DOMAIN work[q] /\ u \in work[q][i]
    BY <2>1 DEF UploadsInv, WorkHeld
  <2>2. CASE \E l \in Lists : u \in uses[l]
    BY <1>4, <2>2
  <2> QED
    BY <2>1, <2>2
<1>6. ASSUME NEW u, u \in InUse' PROVE u \in InUse
  <2>1. \/ \E l \in Lists : u \in uses'[l]
        \/ \E q \in Queues : \E i \in DOMAIN work'[q] : u \in work'[q][i]
    BY <1>6 DEF InUse
  <2>2. \/ \E l \in Lists : u \in uses[l]
        \/ \E q \in Queues : \E i \in DOMAIN work[q] : u \in work[q][i]
    BY <2>1
  <2> QED
    BY <2>2, InUseFacts
<1>7. InUseApart'
  BY <1>6 DEF UploadsInv, InUseApart
<1> QED
  BY <1>1, <1>2, <1>3, <1>5, <1>7 DEF UploadsInv

-----------------------------------------------------------------------------
(* The steps.                                                               *)

LEMMA OpenHolds ==
  ASSUME UploadsAssumption, UploadsInv, NEW l \in Lists, Open(l),
         UNCHANGED <<current, pool, created, allocated>>
  PROVE  UploadsInv'
<1>1. RecordingsInv(Memory)'
  BY OpenNumbered DEF UploadsAssumption, UploadsInv
<1>2. uses' = [uses EXCEPT ![l] = {}] /\ UNCHANGED <<work, executedAs>>
  BY DEF Open
<1>3. \A k \in Lists : uses'[k] \subseteq uses[k]
  BY <1>2 DEF UploadsInv, RecordingsInv, MemoryTypes
<1> QED
  BY <1>1, <1>2, <1>3, OutsideStep

LEMMA CloseHolds ==
  ASSUME UploadsAssumption, UploadsInv, NEW l \in Lists, Close(l),
         UNCHANGED <<current, pool, created, allocated>>
  PROVE  UploadsInv'
<1>1. RecordingsInv(Memory)'
  BY CloseNumbered DEF UploadsAssumption, UploadsInv
<1>2. UNCHANGED <<uses, work, executedAs>>
  BY DEF Close
<1> QED
  BY <1>1, <1>2, OutsideStep

LEMMA SubmitHolds ==
  ASSUME UploadsAssumption, UploadsInv, NEW q \in Queues, NEW S \in SUBSET Lists, Submit(q, S),
         UNCHANGED <<current, pool, created, allocated>>
  PROVE  UploadsInv'
<1>1. RecordingsInv(Memory)'
  BY SubmitNumbered DEF UploadsAssumption, UploadsInv
<1>2. PICK used, w : used = UNION {uses[l] : l \in S} /\ w = work[q]
  OBVIOUS
<1>3. /\ uses' = [l \in Lists |-> IF l \in S THEN {} ELSE uses[l]]
      /\ work' = [work EXCEPT ![q] = Append(w, used)] /\ UNCHANGED executedAs
  BY <1>2 DEF Submit
<1>4. work \in [Queues -> Seq(SUBSET Memory)]
  BY DEF UploadsInv, RecordingsInv, MemoryTypes
<1>5. \A l \in Lists : uses'[l] \subseteq uses[l]
  BY <1>3
<1>6. ASSUME NEW p \in Queues, NEW i \in DOMAIN work'[p], NEW u \in work'[p][i]
      PROVE  \/ i \in DOMAIN work[p] /\ u \in work[p][i]
             \/ \E l \in Lists : u \in uses[l]
  <2>1. CASE p # q
    BY <1>3, <1>4, <2>1
  <2>2. CASE p = q
    <3>1. work'[p] = Append(w, used) /\ w \in Seq(SUBSET Memory) /\ w = work[p]
      BY <1>2, <1>3, <1>4, <2>2
    <3>2. PICK x : x = work'[p]
      OBVIOUS
    <3>3. i \in 1..(Len(w) + 1) /\ DOMAIN w = 1..Len(w) /\ Len(w) \in Nat /\ x[i] = IF i <= Len(w) THEN w[i] ELSE used
      BY <3>1, <3>2
    <3>4. CASE i <= Len(w)
      BY <3>1, <3>2, <3>3, <3>4
    <3>5. CASE ~(i <= Len(w))
      <4>1. u \in used
        BY <3>2, <3>3, <3>5
      <4> QED
        BY <1>2, <4>1
    <3> QED
      BY <3>4, <3>5
  <2> QED
    BY <2>1, <2>2
<1> QED
  BY <1>1, <1>3, <1>5, <1>6, OutsideStep

LEMMA CompleteHolds ==
  ASSUME UploadsAssumption, UploadsInv, NEW q \in Queues, Complete(q),
         UNCHANGED <<current, pool, created, allocated>>
  PROVE  UploadsInv'
<1>1. /\ RecordingsInv(Memory)' /\ \A p \in Queues : DOMAIN work'[p] = DOMAIN work[p]
      /\ \A p \in Queues : \A i \in DOMAIN work[p] : work'[p][i] \subseteq work[p][i]
  BY CompleteNumbered DEF UploadsAssumption, UploadsInv
<1>2. UNCHANGED <<uses, executedAs>>
  BY DEF Complete
<1>3. \A p \in Queues : \A i \in DOMAIN work'[p] : \A u \in work'[p][i] :
        i \in DOMAIN work[p] /\ u \in work[p][i]
  BY <1>1
<1> QED
  BY <1>1, <1>2, <1>3, OutsideStep

LEMMA UpdateHolds ==
  ASSUME UploadsAssumption, UploadsInv, NEW q \in Queues, UpdateLastFinishedID(q),
         UNCHANGED <<current, pool, created, allocated>>
  PROVE  UploadsInv'
<1>1. RecordingsInv(Memory)'
  BY UpdateNumbered DEF UploadsAssumption, UploadsInv
<1>2. UNCHANGED <<uses, work, executedAs>>
  BY DEF UpdateLastFinishedID
<1> QED
  BY <1>1, <1>2, OutsideStep

LEMMA SuballocateHolds ==
  ASSUME UploadsAssumption, UploadsInv, NEW l \in Lists, NEW r \in Requests, SuballocateBuffer(l, r)
  PROVE  UploadsInv'
<1>1. CASE AllocateFromCurrent(l, r)
  BY <1>1, AllocateFromCurrentHolds
<1>2. ASSUME NEW finished \in {lastFinishedID[QueueOf[l]], completed[QueueOf[l]]},
             \/ AllocateFromPool(l, r, finished)
             \/ AllocateNewChunk(l, r, finished)
             \/ AllocateAtLimit(l, r, finished)
      PROVE  UploadsInv'
  <2>1. CASE AllocateFromPool(l, r, finished)
    BY <2>1, AllocateFromPoolHolds
  <2>2. CASE AllocateNewChunk(l, r, finished)
    BY <2>2, AllocateNewChunkHolds
  <2>3. CASE AllocateAtLimit(l, r, finished)
    BY <2>3, AllocateAtLimitHolds
  <2> QED
    BY <1>2, <2>1, <2>2, <2>3
<1> QED
  BY <1>1, <1>2 DEF SuballocateBuffer

LEMMA UploadsInitHolds ==
  ASSUME UploadsAssumption, Init
  PROVE  UploadsInv
<1>1. RecordingsInv(Memory)
  BY RecordingsInitHolds DEF UploadsAssumption, Init
<1>2. PoolTypes
  BY DEF Init, PoolTypes
<1>3. PoolsOK
  <2> SUFFICES ASSUME NEW l \in Lists
               PROVE  PoolOK(<<>>, None, 0, QueueOf[l], executedAs[l])
    BY DEF Init, PoolsOK
  <2>1. <<>> \in Seq(Chunk) /\ DOMAIN <<>> = {}
    OBVIOUS
  <2> QED
    BY <2>1 DEF PoolOK, IdsApart
<1>4. UsesHeld /\ WorkHeld
  BY DEF Init, RecordingsInit, UsesHeld, WorkHeld
<1>5. InUseApart
  <2>1. \A u : u \notin InUse
    BY DEF Init, RecordingsInit, InUse
  <2> QED
    BY <2>1 DEF InUseApart
<1> QED
  BY <1>1, <1>2, <1>3, <1>4, <1>5 DEF UploadsInv

LEMMA UploadsStep ==
  ASSUME UploadsAssumption, UploadsInv, [Next]_vars
  PROVE  UploadsInv'
<1>1. CASE \E l \in Lists : Open(l) /\ UNCHANGED <<current, pool, created, allocated>>
  BY <1>1, OpenHolds
<1>2. CASE \E l \in Lists : Close(l) /\ UNCHANGED <<current, pool, created, allocated>>
  BY <1>2, CloseHolds
<1>3. CASE \E l \in Lists : \E r \in Requests : SuballocateBuffer(l, r)
  BY <1>3, SuballocateHolds
<1>4. CASE \E l \in Lists : ExecutedChunks(l)
  BY <1>4, ExecutedChunksHolds
<1>5. CASE \E q \in Queues : \E S \in (SUBSET Lists) \ {{}} :
             Submit(q, S) /\ UNCHANGED <<current, pool, created, allocated>>
  BY <1>5, SubmitHolds
<1>6. CASE \E q \in Queues : Complete(q) /\ UNCHANGED <<current, pool, created, allocated>>
  BY <1>6, CompleteHolds
<1>7. CASE \E q \in Queues : UpdateLastFinishedID(q) /\ UNCHANGED <<current, pool, created, allocated>>
  BY <1>7, UpdateHolds
<1>8. CASE UNCHANGED vars
  <2>1. RecordingsInv(Memory)' /\ UNCHANGED <<current, pool, created, allocated, executedAs, uses, work>>
    BY <1>8, StutterNumbered DEF vars, recordingVars, UploadsInv
  <2> QED
    BY <2>1, OutsideStep
<1> QED
  BY <1>1, <1>2, <1>3, <1>4, <1>5, <1>6, <1>7, <1>8 DEF Next

\* What the invariant says of a state.
LEMMA UploadsInvImplies ==
  ASSUME UploadsAssumption, UploadsInv
  PROVE  TypeOK /\ AllocationsDisjoint /\ ExecutedChunksSubmitted
<1>1. \A l \in Lists : ChunksOf(pool[l], current[l]) = Chunks(l)
  BY DEF ChunksOf, Chunks
<1>2. \A l \in Lists : \A chunk \in Chunks(l) :
        chunk \in Chunk /\ ChunkOK(chunk, created[l], QueueOf[l], executedAs[l])
  <2> SUFFICES ASSUME NEW l \in Lists, NEW chunk \in ChunksOf(pool[l], current[l])
               PROVE  chunk \in Chunk /\ ChunkOK(chunk, created[l], QueueOf[l], executedAs[l])
    BY <1>1
  <2>1. PoolOK(pool[l], current[l], created[l], QueueOf[l], executedAs[l])
    BY DEF UploadsInv, PoolsOK
  <2> QED
    BY <2>1 DEF PoolOK, ChunksOf, ToSet
<1>3. TypeOK
  <2>1. RecordingsTypeOK /\ PoolTypes
    BY DEF UploadsInv, RecordingsInv
  <2>2. \A l \in Lists : \A chunk \in Chunks(l) : chunk.writePointer <= chunk.size
    BY <1>2 DEF ChunkOK
  <2>3. ASSUME NEW l \in Lists, NEW u \in uses[l]
        PROVE  u \in [list : {l}, chunk : 1..created[l], lo : Nat, hi : Nat, n : 1..allocated[l]]
    <3>1. u \in Memory /\ u.list = l /\ u.chunk \in 1..created[l] /\ u.n \in 1..allocated[l]
      BY DEF UploadsInv, RecordingsInv, MemoryTypes, UsesOwned, UsesHeld
    <3> QED
      BY <3>1 DEF Memory
  <2> QED
    BY <2>1, <2>2, <2>3 DEF TypeOK, PoolTypes
<1>4. AllocationsDisjoint
  <2>1. \A a \in InUse : \A b \in InUse :
          a # b /\ a.list = b.list /\ a.chunk = b.chunk => a.hi <= b.lo \/ b.hi <= a.lo
    BY DEF UploadsInv, InUseApart
  <2>2. ASSUME NEW a \in InUse PROVE \E chunk \in Chunks(a.list) : chunk.id = a.chunk /\ a.hi <= chunk.size
    <3>1. a.list \in Lists /\ \E chunk \in Chunks(a.list) : chunk.id = a.chunk /\ a.hi <= chunk.writePointer
      BY <1>1, InUseHeld DEF HeldOpen, Held
    <3>2. a.hi \in Nat
      <4>1. RecordingsInv(Memory)
        BY DEF UploadsInv
      <4>2. \/ \E k \in Lists : a \in uses[k]
            \/ \E p \in Queues : \E i \in DOMAIN work[p] : a \in work[p][i]
        BY InUseFacts
      <4>3. a \in Memory
        BY <4>1, <4>2 DEF RecordingsInv, MemoryTypes
      <4> QED
        BY <4>3 DEF Memory
    <3>3. \A chunk \in Chunks(a.list) : /\ chunk.writePointer \in Nat /\ chunk.size \in Nat
                                       /\ chunk.writePointer <= chunk.size
      BY <1>2, <3>1 DEF Chunk, ChunkOK
    <3> QED
      BY <3>1, <3>2, <3>3
  <2> QED
    BY <2>1, <2>2 DEF AllocationsDisjoint
<1>5. ExecutedChunksSubmitted
  BY <1>2 DEF ExecutedChunksSubmitted, ChunkOK, Pending
<1> QED
  BY <1>3, <1>4, <1>5

\* The invariant holds always.
LEMMA UploadsInvariant ==
  ASSUME UploadsAssumption
  PROVE  Spec => []UploadsInv
<1>1. Init => UploadsInv
  BY UploadsInitHolds
<1>2. UploadsInv /\ [Next]_vars => UploadsInv'
  BY UploadsStep
<1> QED
  BY <1>1, <1>2, PTL DEF Spec

\* Memory handed out by suballocateBuffer that a recording or an unfinished submission
\* uses is handed out to nobody else and lies within its chunk, whatever the sizes, the
\* alignments and the limit, and although recordings are abandoned and chunks renewed.
THEOREM UploadsAreDisjoint ==
  ASSUME UploadsAssumption
  PROVE  Spec => []AllocationsDisjoint
<1>1. UploadsInv => AllocationsDisjoint
  BY UploadsInvImplies
<1> QED
  BY <1>1, UploadsInvariant, PTL

\* submitChunks leaves no chunk waiting for a recording that was executed, so each comes
\* back with the submission it is used in.
THEOREM ExecutedChunksWaitForSubmissions ==
  ASSUME UploadsAssumption
  PROVE  Spec => []ExecutedChunksSubmitted
<1>1. UploadsInv => ExecutedChunksSubmitted
  BY UploadsInvImplies
<1> QED
  BY <1>1, UploadsInvariant, PTL
=============================================================================
