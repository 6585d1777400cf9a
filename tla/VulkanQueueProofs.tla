------------------------- MODULE VulkanQueueProofs -------------------------
(***************************************************************************)
(* Theorems about VulkanQueue, for any queues, threads, lists, trackers    *)
(* and numbers of recordings.                                              *)
(***************************************************************************)
EXTENDS VulkanQueue, SequenceTheorems, TLAPS

\* Whoever executes a list collects its tracker: a tracker collected between
\* submit() and executed() resets the submissionID that executed() asserts.
OneThreadPerTracker ==
    \A l \in Lists : \A t \in Executors[l], u \in Collectors[TrackerOf[l]] : t = u

-----------------------------------------------------------------------------
(* Sequences of command buffers and of lists.                               *)

Distinct(seq) == \A i, j \in DOMAIN seq : seq[i] = seq[j] => i = j

\* A sequence of distinct elements is cut into two that have none in common.
LEMMA CutFacts ==
  ASSUME NEW S, NEW s \in Seq(S), NEW n \in 0..Len(s)
  PROVE  /\ SubSeq(s, 1, n) \in Seq(S) /\ SubSeq(s, n + 1, Len(s)) \in Seq(S)
         /\ Len(SubSeq(s, 1, n)) = n /\ Len(SubSeq(s, n + 1, Len(s))) = Len(s) - n
         /\ \A i \in 1..n : SubSeq(s, 1, n)[i] = s[i]
         /\ \A i \in 1..(Len(s) - n) : SubSeq(s, n + 1, Len(s))[i] = s[n + i]
  OBVIOUS

LEMMA CutApart ==
  ASSUME NEW S, NEW s \in Seq(S), Distinct(s), NEW n \in 0..Len(s)
  PROVE  /\ Distinct(SubSeq(s, 1, n)) /\ Distinct(SubSeq(s, n + 1, Len(s)))
         /\ Elements(SubSeq(s, 1, n)) \subseteq Elements(s)
         /\ Elements(SubSeq(s, n + 1, Len(s))) = Elements(s) \ Elements(SubSeq(s, 1, n))
<1> DEFINE a == SubSeq(s, 1, n)
           b == SubSeq(s, n + 1, Len(s))
<1>1. DOMAIN a = 1..n /\ DOMAIN b = 1..(Len(s) - n) /\ DOMAIN s = 1..Len(s)
  BY CutFacts
<1>2. /\ \A i \in 1..n : a[i] = s[i]
      /\ \A i \in 1..(Len(s) - n) : b[i] = s[n + i]
  BY CutFacts
<1>3. Len(s) \in Nat
  OBVIOUS
<1> HIDE DEF a, b
<1>4. Distinct(a) /\ Distinct(b)
  <2>1. \A i, j \in 1..Len(s) : s[i] = s[j] => i = j
    BY <1>1 DEF Distinct
  <2>2. \A i, j \in 1..n : a[i] = a[j] => i = j
    BY <1>2, <1>3, <2>1
  <2>3. ASSUME NEW i \in 1..(Len(s) - n), NEW j \in 1..(Len(s) - n), b[i] = b[j] PROVE i = j
    <3>1. n + i \in 1..Len(s) /\ n + j \in 1..Len(s) /\ s[n + i] = s[n + j]
      BY <1>2, <1>3, <2>3
    <3> QED
      BY <1>3, <2>1, <3>1
  <2> QED
    BY <1>1, <2>2, <2>3 DEF Distinct
<1>5. Elements(a) \subseteq Elements(s)
  BY <1>1, <1>2, <1>3 DEF Elements
<1>6. Elements(b) \subseteq Elements(s) \ Elements(a)
  BY <1>1, <1>2, <1>3, SMTT(30) DEF Elements, Distinct
<1>7. ASSUME NEW x \in Elements(s) \ Elements(a) PROVE x \in Elements(b)
  <2>1. PICK i \in 1..Len(s) : x = s[i]
    BY <1>1 DEF Elements
  <2>2. i > n
    BY <1>1, <1>2, <1>3, <2>1 DEF Elements
  <2>3. i - n \in 1..(Len(s) - n) /\ b[i - n] = x
    BY <1>2, <1>3, <2>1, <2>2
  <2> QED
    BY <1>1, <2>3 DEF Elements
<1> QED
  BY <1>4, <1>5, <1>6, <1>7 DEF a, b

\* Sequences of distinct elements that have none in common can be joined.
LEMMA JoinApart ==
  ASSUME NEW S, NEW s \in Seq(S), NEW r \in Seq(S)
  PROVE  /\ s \o r \in Seq(S) /\ Elements(s \o r) = Elements(s) \cup Elements(r)
         /\ Distinct(s) /\ Distinct(r) /\ Elements(s) \cap Elements(r) = {} => Distinct(s \o r)
<1>1. s \o r \in Seq(S) /\ Len(s \o r) = Len(s) + Len(r)
      /\ \A i \in 1..(Len(s) + Len(r)) : (s \o r)[i] = IF i <= Len(s) THEN s[i] ELSE r[i - Len(s)]
  OBVIOUS
<1>2. DOMAIN s = 1..Len(s) /\ DOMAIN r = 1..Len(r) /\ DOMAIN (s \o r) = 1..(Len(s) + Len(r))
      /\ Len(s) \in Nat /\ Len(r) \in Nat
  BY <1>1
<1> DEFINE sr == s \o r
<1>3. \A i \in 1..(Len(s) + Len(r)) : sr[i] = IF i <= Len(s) THEN s[i] ELSE r[i - Len(s)]
  BY <1>1
<1>4. DOMAIN sr = 1..(Len(s) + Len(r))
  BY <1>2
<1> HIDE DEF sr
<1>5. ASSUME NEW x \in Elements(sr) PROVE x \in Elements(s) \cup Elements(r)
  <2>1. PICK i \in 1..(Len(s) + Len(r)) : x = sr[i]
    BY <1>4 DEF Elements
  <2>2. CASE i <= Len(s)
    BY <1>2, <1>3, <2>1, <2>2 DEF Elements
  <2>3. CASE ~(i <= Len(s))
    <3>1. i - Len(s) \in 1..Len(r) /\ x = r[i - Len(s)]
      BY <1>2, <1>3, <2>1, <2>3
    <3> QED
      BY <1>2, <3>1 DEF Elements
  <2> QED
    BY <2>2, <2>3
<1>6. Elements(s) \subseteq Elements(sr)
  BY <1>2, <1>3, <1>4 DEF Elements
<1>7. ASSUME NEW x \in Elements(r) PROVE x \in Elements(sr)
  <2>1. PICK i \in 1..Len(r) : x = r[i]
    BY <1>2 DEF Elements
  <2>2. Len(s) + i \in 1..(Len(s) + Len(r)) /\ sr[Len(s) + i] = x
    BY <1>2, <1>3, <2>1
  <2> QED
    BY <1>4, <2>2 DEF Elements
<1>8. ASSUME Distinct(s), Distinct(r), Elements(s) \cap Elements(r) = {},
             NEW i \in 1..(Len(s) + Len(r)), NEW j \in 1..(Len(s) + Len(r)), sr[i] = sr[j]
      PROVE  i = j
  <2>1. \A x \in 1..Len(s), y \in 1..Len(r) : s[x] # r[y]
    BY <1>2, <1>8 DEF Elements
  <2>2. i <= Len(s) <=> j <= Len(s)
    BY <1>2, <1>3, <1>8, <2>1
  <2>3. CASE i <= Len(s)
    BY <1>2, <1>3, <1>8, <2>2, <2>3 DEF Distinct
  <2>4. CASE ~(i <= Len(s))
    <3>1. i - Len(s) \in 1..Len(r) /\ j - Len(s) \in 1..Len(r) /\ r[i - Len(s)] = r[j - Len(s)]
      BY <1>2, <1>3, <1>8, <2>2, <2>4
    <3> QED
      BY <1>2, <1>8, <3>1 DEF Distinct
  <2> QED
    BY <2>3, <2>4
<1> QED
  BY <1>1, <1>4, <1>5, <1>6, <1>7, <1>8 DEF sr, Distinct

\* An element a sequence does not have can be appended.
LEMMA AppendApart ==
  ASSUME NEW S, NEW s \in Seq(S), NEW c \in S
  PROVE  /\ Append(s, c) \in Seq(S) /\ Elements(Append(s, c)) = Elements(s) \cup {c}
         /\ Distinct(s) /\ c \notin Elements(s) => Distinct(Append(s, c))
<1>1. <<c>> \in Seq(S) /\ Elements(<<c>>) = {c} /\ Distinct(<<c>>)
  BY DEF Elements, Distinct
<1>2. Append(s, c) = s \o <<c>>
  OBVIOUS
<1>3. /\ s \o <<c>> \in Seq(S) /\ Elements(s \o <<c>>) = Elements(s) \cup Elements(<<c>>)
      /\ Distinct(s) /\ Distinct(<<c>>) /\ Elements(s) \cap Elements(<<c>>) = {} => Distinct(s \o <<c>>)
  BY <1>1, JoinApart
<1> QED
  BY <1>1, <1>2, <1>3

\* Without its head, a sequence of distinct elements has one element less.
LEMMA TailApart ==
  ASSUME NEW S, NEW s \in Seq(S), s # <<>>
  PROVE  /\ Head(s) \in S /\ Head(s) \in Elements(s) /\ Tail(s) \in Seq(S)
         /\ Len(Tail(s)) = Len(s) - 1 /\ Tail(s) = SubSeq(s, 2, Len(s))
         /\ Distinct(s) => Distinct(Tail(s)) /\ Elements(Tail(s)) = Elements(s) \ {Head(s)}
<1>1. Head(s) \in S /\ Head(s) \in Elements(s) /\ Tail(s) \in Seq(S) /\ Len(Tail(s)) = Len(s) - 1
      /\ Tail(s) = SubSeq(s, 2, Len(s)) /\ Len(s) \in Nat \ {0} /\ Head(s) = s[1]
  BY DEF Elements
<1>2. Len(SubSeq(s, 1, 1)) = 1 /\ SubSeq(s, 1, 1)[1] = Head(s) /\ DOMAIN SubSeq(s, 1, 1) = 1..1
  BY <1>1
<1>3. Elements(SubSeq(s, 1, 1)) = {Head(s)}
  BY <1>2 DEF Elements
<1>4. Distinct(s) => /\ Distinct(SubSeq(s, 1 + 1, Len(s)))
                     /\ Elements(SubSeq(s, 1 + 1, Len(s))) = Elements(s) \ Elements(SubSeq(s, 1, 1))
  BY <1>1, CutApart
<1>5. 1 + 1 = 2
  OBVIOUS
<1> QED
  BY <1>1, <1>3, <1>4, <1>5

\* The empty sequence has no elements.
LEMMA EmptyFacts == Elements(<<>>) = {} /\ Distinct(<<>>)
  BY DEF Elements, Distinct

-----------------------------------------------------------------------------
(* Where a command buffer is: in the pool of a queue, in flight in a        *)
(* tracker, current in a list that is recorded or closed, or in the hands   *)
(* of a thread about to return it.                                          *)

Recorded == {"open", "closed"}

Places == ({"pool"} \X Queues) \cup ({"flight"} \X Trackers)
          \cup ({"list"} \X Lists) \cup ({"return"} \X Threads)

Current(l) == IF phase[l] \in Recorded THEN {currentCmdBuf[l]} ELSE {}
Returned(t) == IF call[t].op = "return" THEN Elements(call[t].released) ELSE {}

Contents == [p \in Places |->
    IF p[1] = "pool" THEN Elements(commandBuffersPool[p[2]])
    ELSE IF p[1] = "flight" THEN Elements(inFlight[p[2]])
    ELSE IF p[1] = "list" THEN Current(p[2]) ELSE Returned(p[2])]

\* the lists a thread has submitted and not told of it
Todo(t) == IF call[t].op = "execute" THEN Elements(call[t].todo) ELSE {}

-----------------------------------------------------------------------------
(* The inductive invariant.                                                 *)

CallsTyped == \A t \in Threads :
    /\ call[t].op = "execute" =>
         /\ call[t].todo \in Seq(Lists) /\ call[t].todo # <<>> /\ Distinct(call[t].todo)
         /\ call[t].id \in Nat
    /\ call[t].op = "update" =>
         /\ call[t].queue \in Queues /\ call[t].value \in Nat
         /\ call[t].for \in Trackers \cup Staging \cup Events
    /\ call[t].op = "wait" => call[t].for \in Staging \cup Events
    /\ call[t].op = "return" =>
         /\ call[t].queue \in Queues
         /\ call[t].released \in Seq(CommandBuffers) /\ Distinct(call[t].released)

Types == /\ TypeOK /\ lastRecordingID \in [Queues -> Nat]
         /\ DOMAIN call = Threads /\ CallsTyped
         /\ \A x \in Staging \cup Events : use[x].id # 0 => use[x].queue \in Queues

\* What the host takes to be finished is, and nothing is that was not submitted.
Numbers ==
    /\ \A q \in Queues : /\ lastSubmittedID[q] = Len(job[q]) /\ completed[q] <= Len(job[q])
                         /\ lastFinishedID[q] <= completed[q]
    /\ \A t \in Threads : call[t].op = "update" => call[t].value <= completed[call[t].queue]

\* A command buffer is in one place, and has been created for a recording begun.
Apart(f) == \A p, r \in Places : p # r => f[p] \cap f[r] = {}
Created(f) == \A p \in Places : \A c \in f[p] :
    c \in CommandBuffers /\ c[2] <= lastRecordingID[c[1]]

PlacesOK ==
    /\ Apart(Contents) /\ Created(Contents)
    /\ \A q \in Queues : Distinct(commandBuffersPool[q])
    /\ \A tr \in Trackers : Distinct(inFlight[tr])

\* A submitted list waits for one thread's executed(), with its command buffer in
\* flight in a tracker only that thread collects.
TodoOK ==
    /\ \A t, u \in Threads : t # u => Todo(t) \cap Todo(u) = {}
    /\ \A t \in Threads : \A l \in Todo(t) :
         /\ phase[l] = "submitted" /\ t \in Executors[l]
         /\ currentCmdBuf[l] \in Elements(inFlight[TrackerOf[l]])
         /\ cmd[currentCmdBuf[l]].submissionID = call[t].id
    /\ \A l \in Lists : phase[l] = "submitted" => \E t \in Threads : l \in Todo(t)

CollectsOwn == \A t \in Threads : call[t].op = "update" /\ call[t].for \in Trackers =>
    t \in Collectors[call[t].for] /\ call[t].queue = QueueOf[call[t].for]

BuffersApart == \A l, k \in Lists :
    l # k /\ currentCmdBuf[l] # None => currentCmdBuf[l] # currentCmdBuf[k]

RecordingsOK == \A l \in Lists :
    phase[l] # "idle" => cmd[currentCmdBuf[l]].recordingID = openedAs[l]

\* What the GPU has not finished is in flight in a tracker of that queue, under the
\* ID of its submission.
JobsInFlight == \A q \in Queues : \A i \in Unfinished(q) : \A c \in job[q][i].cmds :
    /\ cmd[c].submissionID = i
    /\ \E tr \in Trackers : QueueOf[tr] = q /\ c \in Elements(inFlight[tr])

QueueInv == /\ Types /\ Numbers /\ PlacesOK /\ TodoOK /\ CollectsOwn
            /\ BuffersApart /\ RecordingsOK /\ JobsInFlight

-----------------------------------------------------------------------------
(* Facts about the model's operators.                                       *)

\* A command buffer is a pair of a queue and a number.
LEMMA CommandBufferFacts ==
  ASSUME VulkanQueueAssumption, NoneAssumption
  PROVE  /\ \A q \in Queues : \A i \in 1..MaxRecordings[q] : <<q, i>> \in CommandBuffers
         /\ \A c \in CommandBuffers : /\ c[1] \in Queues /\ c[2] \in 1..MaxRecordings[c[1]]
                                      /\ c[2] \in Nat /\ c # None
<1>1. \A q \in Queues : MaxRecordings[q] \in Nat
  BY VulkanQueueAssumption DEF VulkanQueueAssumption
<1>2. ASSUME NEW q \in Queues, NEW i \in 1..MaxRecordings[q] PROVE <<q, i>> \in CommandBuffers
  BY DEF CommandBuffers
<1>3. ASSUME NEW c \in CommandBuffers
      PROVE  c[1] \in Queues /\ c[2] \in 1..MaxRecordings[c[1]] /\ c[2] \in Nat
  <2>1. PICK q \in Queues : c \in {q} \X (1..MaxRecordings[q])
    BY DEF CommandBuffers
  <2> QED
    BY <1>1, <2>1
<1> QED
  BY <1>2, <1>3 DEF NoneAssumption

\* One or two different lists are submitted at once.
LEMMA BatchFacts ==
  ASSUME NEW ls \in Batches
  PROVE  /\ ls \in Seq(Lists) /\ ls # <<>> /\ Distinct(ls) /\ ls[1] \in Lists
         /\ \/ Len(ls) = 1 /\ Elements(ls) = {ls[1]}
            \/ Len(ls) = 2 /\ ls[2] \in Lists /\ ls[1] # ls[2] /\ Elements(ls) = {ls[1], ls[2]}
<1>1. CASE \E l \in Lists : ls = <<l>>
  BY <1>1 DEF Elements, Distinct
<1>2. CASE ls \in Lists \X Lists /\ ls[1] # ls[2]
  <2>1. PICK a \in Lists, b \in Lists : ls = <<a, b>>
    BY <1>2
  <2>2. Elements(ls) = {a, b}
    BY <2>1 DEF Elements
  <2>3. Distinct(ls)
    BY <1>2, <2>1 DEF Distinct
  <2> QED
    BY <1>2, <2>1, <2>2, <2>3
<1> QED
  BY <1>1, <1>2 DEF Batches

ContentsAt ==
    /\ \A q \in Queues : /\ <<"pool", q>> \in Places
                         /\ Contents[<<"pool", q>>] = Elements(commandBuffersPool[q])
    /\ \A tr \in Trackers : /\ <<"flight", tr>> \in Places
                            /\ Contents[<<"flight", tr>>] = Elements(inFlight[tr])
    /\ \A l \in Lists : <<"list", l>> \in Places /\ Contents[<<"list", l>>] = Current(l)
    /\ \A t \in Threads : <<"return", t>> \in Places /\ Contents[<<"return", t>>] = Returned(t)

\* What each place holds, before and after a step.
LEMMA ContentsFacts == ContentsAt /\ ContentsAt'
<1>1. /\ \A q \in Queues : <<"pool", q>> \in Places
      /\ \A tr \in Trackers : <<"flight", tr>> \in Places
      /\ \A l \in Lists : <<"list", l>> \in Places
      /\ \A t \in Threads : <<"return", t>> \in Places
  BY DEF Places
<1>2. ContentsAt
  BY <1>1 DEF ContentsAt, Contents
<1>3. ContentsAt'
  BY <1>1 DEF ContentsAt, Contents
<1> QED
  BY <1>2, <1>3

\* There are places of four kinds.
LEMMA PlaceCases ==
  ASSUME NEW p \in Places
  PROVE  \/ \E q \in Queues : p = <<"pool", q>>
         \/ \E tr \in Trackers : p = <<"flight", tr>>
         \/ \E l \in Lists : p = <<"list", l>>
         \/ \E t \in Threads : p = <<"return", t>>
  BY DEF Places

\* Different places have nothing in common.
LEMMA ApartFacts ==
  ASSUME Apart(Contents)
  PROVE  /\ \A q \in Queues, tr \in Trackers :
              Elements(commandBuffersPool[q]) \cap Elements(inFlight[tr]) = {}
         /\ \A q \in Queues, l \in Lists : Elements(commandBuffersPool[q]) \cap Current(l) = {}
         /\ \A q \in Queues, t \in Threads : Elements(commandBuffersPool[q]) \cap Returned(t) = {}
         /\ \A tr \in Trackers, ur \in Trackers :
              tr # ur => Elements(inFlight[tr]) \cap Elements(inFlight[ur]) = {}
         /\ \A tr \in Trackers, l \in Lists : Elements(inFlight[tr]) \cap Current(l) = {}
<1>1. ContentsAt
  BY ContentsFacts
<1>2. \A p, r \in Places : p # r => Contents[p] \cap Contents[r] = {}
  BY DEF Apart
<1>3. \A q \in Queues, tr \in Trackers : <<"pool", q>> # <<"flight", tr>>
  OBVIOUS
<1>4. \A q \in Queues, tr \in Trackers : Elements(commandBuffersPool[q]) \cap Elements(inFlight[tr]) = {}
  BY <1>1, <1>2, <1>3 DEF ContentsAt
<1>5. \A q \in Queues, l \in Lists : Elements(commandBuffersPool[q]) \cap Current(l) = {}
  <2>1. \A q \in Queues, l \in Lists : <<"pool", q>> # <<"list", l>>
    OBVIOUS
  <2> QED
    BY <1>1, <1>2, <2>1 DEF ContentsAt
<1>6. \A q \in Queues, t \in Threads : Elements(commandBuffersPool[q]) \cap Returned(t) = {}
  <2>1. \A q \in Queues, t \in Threads : <<"pool", q>> # <<"return", t>>
    OBVIOUS
  <2> QED
    BY <1>1, <1>2, <2>1 DEF ContentsAt
<1>7. \A tr \in Trackers, ur \in Trackers :
        tr # ur => Elements(inFlight[tr]) \cap Elements(inFlight[ur]) = {}
  <2>1. \A tr \in Trackers, ur \in Trackers : tr # ur => <<"flight", tr>> # <<"flight", ur>>
    OBVIOUS
  <2> QED
    BY <1>1, <1>2, <2>1 DEF ContentsAt
<1>8. \A tr \in Trackers, l \in Lists : Elements(inFlight[tr]) \cap Current(l) = {}
  <2>1. \A tr \in Trackers, l \in Lists : <<"flight", tr>> # <<"list", l>>
    OBVIOUS
  <2> QED
    BY <1>1, <1>2, <2>1 DEF ContentsAt
<1> QED
  BY <1>4, <1>5, <1>6, <1>7, <1>8

\* Places stay apart when what changes its place has one it goes to.
Moved(M, m) ==
    /\ \A p \in Places : \A c \in Contents'[p] : IF c \in M THEN m[c] = p ELSE c \in Contents[p]
    /\ \A c \in M : c \in CommandBuffers /\ c[2] <= lastRecordingID'[c[1]]
    /\ \A c \in CommandBuffers : c[2] <= lastRecordingID[c[1]] => c[2] <= lastRecordingID'[c[1]]

\* Then what has moved is where it was sent, and all else where it was.
LEMMA ContentsMoved ==
  ASSUME Apart(Contents), Created(Contents), NEW M, NEW m, Moved(M, m)
  PROVE  Apart(Contents)' /\ Created(Contents)'
<1>1. ASSUME NEW p \in Places, NEW r \in Places, p # r PROVE Contents'[p] \cap Contents'[r] = {}
  BY <1>1 DEF Apart, Moved
<1>2. ASSUME NEW p \in Places, NEW c \in Contents'[p]
      PROVE  c \in CommandBuffers /\ c[2] <= lastRecordingID'[c[1]]
  BY <1>2 DEF Created, Moved
<1>3. Apart(Contents)'
  BY <1>1 DEF Apart
<1>4. Created(Contents)'
  BY <1>2 DEF Created
<1> QED
  BY <1>3, <1>4

-----------------------------------------------------------------------------
(* QueueInv holds initially and is kept by every step.                      *)

\* What the types say of calls in progress and of jobs.
LEMMA TypeFacts ==
  ASSUME Types
  PROVE  /\ \A t \in Threads : Todo(t) \subseteq Lists
         /\ \A t \in Threads : \A l \in Todo(t) : call[t].op = "execute"
         /\ \A q \in Queues : \A i \in Unfinished(q) :
              /\ i \in 1..Len(job[q]) /\ i > completed[q]
              /\ job[q][i] \in [used : SUBSET Resources, cmds : SUBSET CommandBuffers]
              /\ job[q][i].cmds \subseteq CommandBuffers /\ job[q][i].used \subseteq Resources
<1>1. ASSUME NEW t \in Threads, NEW l \in Todo(t) PROVE l \in Lists /\ call[t].op = "execute"
  <2>1. call[t].op = "execute" /\ l \in Elements(call[t].todo)
    BY DEF Todo
  <2>2. call[t].todo \in Seq(Lists)
    BY <2>1 DEF Types, CallsTyped
  <2> QED
    BY <2>1, <2>2 DEF Elements
<1>2. ASSUME NEW q \in Queues, NEW i \in Unfinished(q)
      PROVE  /\ i \in 1..Len(job[q]) /\ i > completed[q]
             /\ job[q][i] \in [used : SUBSET Resources, cmds : SUBSET CommandBuffers]
             /\ job[q][i].cmds \subseteq CommandBuffers /\ job[q][i].used \subseteq Resources
  <2> DEFINE Jobs == [used : SUBSET Resources, cmds : SUBSET CommandBuffers]
  <2>1. job[q] \in Seq(Jobs) /\ completed[q] \in Nat
    BY DEF Types, TypeOK
  <2>2. i \in 1..Len(job[q]) /\ i > completed[q]
    BY <2>1 DEF Unfinished
  <2>3. job[q][i] \in Jobs
    <3> HIDE DEF Jobs
    <3> QED
      BY <2>1, <2>2
  <2> QED
    BY <2>2, <2>3
<1> QED
  BY <1>1, <1>2

\* The invariant holds initially, when all is empty.
LEMMA InitHolds ==
  ASSUME VulkanQueueAssumption, NoneAssumption, Init
  PROVE  QueueInv
<1>1. MaxRecordings \in [Queues -> Nat \ {0}]
  BY DEF VulkanQueueAssumption
<1>2. TypeOK
  <2>1. \A q \in Queues : 0 \in 0..MaxRecordings[q]
    BY <1>1
  <2>2. cmd \in [CommandBuffers -> [recordingID : Nat, submissionID : Nat,
                                    refs : SUBSET Resources, staging : SUBSET Staging]]
    BY DEF Init, NoBuffer
  <2>3. use \in [Staging \cup Events -> [queue : Queues \cup {None}, id : Nat]]
    BY DEF Init, Never
  <2> QED
    BY <2>1, <2>2, <2>3 DEF Init, TypeOK, Idle
<1>3. Types
  BY <1>2 DEF Init, Types, CallsTyped, Idle, Never
<1>4. Numbers
  BY DEF Init, Numbers, Idle
<1>5. PlacesOK
  <2>1. ASSUME NEW p \in Places PROVE Contents[p] = {}
    <3>1. ContentsAt
      BY ContentsFacts
    <3>2. /\ \A q \in Queues : Elements(commandBuffersPool[q]) = {}
          /\ \A tr \in Trackers : Elements(inFlight[tr]) = {}
          /\ \A l \in Lists : Current(l) = {}
          /\ \A t \in Threads : Returned(t) = {}
      BY EmptyFacts DEF Init, Current, Returned, Recorded, Idle
    <3> QED
      BY <3>1, <3>2, PlaceCases DEF ContentsAt
  <2> QED
    BY <2>1, EmptyFacts DEF Init, PlacesOK, Apart, Created
<1>6. TodoOK
  BY DEF Init, TodoOK, Todo, Idle
<1>7. CollectsOwn /\ BuffersApart /\ RecordingsOK
  BY DEF Init, CollectsOwn, BuffersApart, RecordingsOK, Idle
<1>8. JobsInFlight
  <2>1. \A q \in Queues : Unfinished(q) = {}
    BY DEF Init, Unfinished
  <2> QED
    BY <2>1 DEF JobsInFlight
<1> QED
  BY <1>3, <1>4, <1>5, <1>6, <1>7, <1>8 DEF QueueInv

\* A step after which every command buffer is where it was, under the same IDs, and
\* no call of executeCommandLists or of a collection goes on.
SameCalls(ops) == \A t \in Threads :
    call[t].op \in ops \/ call'[t].op \in ops => call'[t] = call[t]

Quiet ==
    /\ lastRecordingID' = lastRecordingID /\ commandBuffersPool' = commandBuffersPool
    /\ inFlight' = inFlight /\ currentCmdBuf' = currentCmdBuf
    /\ openedAs' = openedAs /\ job' = job
    /\ \A c \in CommandBuffers : /\ cmd'[c].recordingID = cmd[c].recordingID
                                 /\ cmd'[c].submissionID = cmd[c].submissionID
    /\ \A l \in Lists : /\ phase'[l] \in Recorded <=> phase[l] \in Recorded
                        /\ phase'[l] = "submitted" <=> phase[l] = "submitted"
                        /\ phase'[l] = "idle" <=> phase[l] = "idle"
    /\ \A q \in Queues : completed[q] <= completed'[q]
    /\ SameCalls({"execute", "return"})

\* Such a step keeps the invariant.
LEMMA QuietKeeps ==
  ASSUME VulkanQueueAssumption, NoneAssumption, QueueInv, Quiet, Types', Numbers', CollectsOwn'
  PROVE  QueueInv'
<1>0. Types /\ Numbers /\ PlacesOK /\ TodoOK /\ BuffersApart /\ RecordingsOK /\ JobsInFlight
  BY DEF QueueInv
<1>1. /\ \A t \in Threads : Todo(t)' = Todo(t) /\ Returned(t)' = Returned(t)
      /\ \A l \in Lists : Current(l)' = Current(l)
  BY DEF Quiet, SameCalls, Todo, Returned, Current
<1>2. PlacesOK'
  <2>1. \A p \in Places : Contents'[p] = Contents[p]
    BY <1>1, ContentsFacts, PlaceCases DEF Quiet, ContentsAt
  <2>2. Apart(Contents)' /\ Created(Contents)'
    BY <1>0, <2>1 DEF PlacesOK, Apart, Created, Quiet
  <2> QED
    BY <1>0, <2>2 DEF PlacesOK, Quiet
<1>3. \A l \in Lists : phase[l] # "idle" => currentCmdBuf[l] \in CommandBuffers
  BY <1>0 DEF Types, TypeOK
<1>4. TodoOK'
  <2>1. \A t, u \in Threads : t # u => Todo(t)' \cap Todo(u)' = {}
    BY <1>0, <1>1 DEF TodoOK
  <2>2. ASSUME NEW t \in Threads, NEW l \in Todo(t)'
        PROVE  /\ phase'[l] = "submitted" /\ t \in Executors[l]
               /\ currentCmdBuf'[l] \in Elements(inFlight'[TrackerOf[l]])
               /\ cmd'[currentCmdBuf'[l]].submissionID = call'[t].id
    <3>1. l \in Todo(t) /\ call[t].op = "execute" /\ l \in Lists
      BY <1>0, <1>1, <2>2, TypeFacts
    <3>2. call'[t] = call[t]
      BY <3>1 DEF Quiet, SameCalls
    <3> QED
      BY <1>0, <1>3, <3>1, <3>2 DEF Quiet, TodoOK
  <2>3. \A l \in Lists : phase'[l] = "submitted" => \E t \in Threads : l \in Todo(t)'
    BY <1>0, <1>1 DEF TodoOK, Quiet
  <2> QED
    BY <2>1, <2>2, <2>3 DEF TodoOK
<1>5. BuffersApart' /\ RecordingsOK'
  BY <1>0, <1>3 DEF BuffersApart, RecordingsOK, Quiet
<1>6. JobsInFlight'
  <2>1. ASSUME NEW q \in Queues, NEW i \in Unfinished(q)', NEW c \in job'[q][i].cmds
        PROVE  /\ cmd'[c].submissionID = i
               /\ \E tr \in Trackers : QueueOf[tr] = q /\ c \in Elements(inFlight'[tr])
    <3>1. i \in Unfinished(q)
      BY <1>0, <2>1 DEF Unfinished, Quiet, Types, TypeOK
    <3>2. c \in job[q][i].cmds /\ c \in CommandBuffers
      BY <1>0, <2>1, <3>1, TypeFacts DEF Quiet
    <3> QED
      BY <1>0, <3>1, <3>2 DEF JobsInFlight, Quiet
  <2> QED
    BY <2>1 DEF JobsInFlight
<1> QED
  BY <1>2, <1>4, <1>5, <1>6 DEF QueueInv

\* What is recorded keeps the IDs of the list's command buffer.
LEMMA AccessKeeps ==
  ASSUME VulkanQueueAssumption, NoneAssumption, QueueInv,
         NEW l \in Lists, NEW r \in Resources, Copy(l, r) \/ Bind(l, r) \/ Clear(l, r)
  PROVE  QueueInv'
<1>0. Types /\ Numbers /\ CollectsOwn
  BY DEF QueueInv
<1>1. Accesses(l, r)
  BY DEF Copy, Bind, Clear
<1>2. currentCmdBuf[l] \in CommandBuffers
  BY <1>0, <1>1 DEF Accesses, Types, TypeOK
<1>3. \/ cmd' = cmd
      \/ r \in Staging /\ cmd' = [cmd EXCEPT ![currentCmdBuf[l]].staging = @ \cup {r}]
      \/ cmd' = [cmd EXCEPT ![currentCmdBuf[l]].refs = @ \cup {r}]
  BY DEF Copy, Bind, Clear
<1> DEFINE Tracked == [recordingID : Nat, submissionID : Nat,
                       refs : SUBSET Resources, staging : SUBSET Staging]
           old == cmd[currentCmdBuf[l]]
<1>4. cmd \in [CommandBuffers -> Tracked] /\ cmd' \in [CommandBuffers -> Tracked]
  <2>1. cmd \in [CommandBuffers -> Tracked]
    BY <1>0 DEF Types, TypeOK
  <2>2. old \in Tracked
    BY <1>2, <2>1
  <2>3. /\ [old EXCEPT !.refs = @ \cup {r}] \in Tracked
        /\ r \in Staging => [old EXCEPT !.staging = @ \cup {r}] \in Tracked
    BY <2>2
  <2> QED
    BY <1>2, <1>3, <2>1, <2>3
<1>5. \A c \in CommandBuffers : /\ cmd'[c].recordingID = cmd[c].recordingID
                                /\ cmd'[c].submissionID = cmd[c].submissionID
  BY <1>2, <1>3, <1>4, SMTT(30)
<1>6. Types'
  <2>1. accesses' \in [Lists -> SUBSET Resources]
    BY <1>0, <1>1, SMTT(30) DEF Accesses, Types, TypeOK
  <2> QED
    BY <1>0, <1>1, <1>4, <2>1
    DEF Accesses, Types, TypeOK, CallsTyped, queueVars, hostVars, gpuVars
<1>7. Numbers' /\ CollectsOwn'
  BY <1>0, <1>1 DEF Accesses, Numbers, CollectsOwn, queueVars, hostVars, gpuVars
<1>8. Quiet
  BY <1>0, <1>1, <1>5
  DEF Accesses, Quiet, SameCalls, Types, TypeOK, queueVars, hostVars, gpuVars
<1> QED
  BY <1>6, <1>7, <1>8, QuietKeeps

\* close() leaves the command buffer with its list.
LEMMA CloseKeeps ==
  ASSUME VulkanQueueAssumption, NoneAssumption, QueueInv, NEW l \in Lists, Close(l)
  PROVE  QueueInv'
<1>0. Types /\ Numbers /\ CollectsOwn
  BY DEF QueueInv
<1>1. phase \in [Lists -> {"idle", "open", "closed", "submitted"}]
  BY <1>0 DEF Types, TypeOK
<1>2. \A k \in Lists : phase'[k] = IF k = l THEN "closed" ELSE phase[k]
  BY <1>1 DEF Close
<1>3. phase' \in [Lists -> {"idle", "open", "closed", "submitted"}]
  BY <1>1 DEF Close
<1>4. Types'
  BY <1>0, <1>2, <1>3, ZenonT(40) DEF Close, Types, TypeOK, CallsTyped, queueVars, hostVars, gpuVars
<1>5. Numbers' /\ CollectsOwn'
  BY <1>0 DEF Close, Numbers, CollectsOwn, queueVars, hostVars, gpuVars
<1>6. Quiet
  BY <1>0, <1>2 DEF Close, Quiet, SameCalls, Recorded, Types, TypeOK, queueVars, hostVars, gpuVars
<1> QED
  BY <1>4, <1>5, <1>6, QuietKeeps

\* The GPU only gets further.
LEMMA CompleteKeeps ==
  ASSUME VulkanQueueAssumption, NoneAssumption, QueueInv, NEW q \in Queues, Complete(q)
  PROVE  QueueInv'
<1>0. Types /\ Numbers /\ CollectsOwn
  BY DEF QueueInv
<1>1. completed \in [Queues -> Nat] /\ completed' \in [Queues -> Nat]
      /\ \A p \in Queues : completed'[p] = IF p = q THEN completed[q] + 1 ELSE completed[p]
  BY <1>0 DEF Complete, Types, TypeOK
<1>2. Types'
  BY <1>0, <1>1 DEF Complete, Types, TypeOK, CallsTyped, queueVars, listVars, hostVars
<1>3. \A p \in Queues : Len(job[p]) \in Nat /\ lastFinishedID[p] \in Nat
  BY <1>0 DEF Types, TypeOK
<1>4. Numbers'
  <2>1. \A p \in Queues : /\ lastSubmittedID'[p] = Len(job'[p]) /\ completed'[p] <= Len(job'[p])
                          /\ lastFinishedID'[p] <= completed'[p]
    BY <1>0, <1>1, <1>3 DEF Complete, Numbers, queueVars
  <2>2. \A t \in Threads : call'[t].op = "update" => call'[t].value <= completed'[call'[t].queue]
    BY <1>0, <1>1 DEF Complete, Numbers, Types, CallsTyped
  <2> QED
    BY <2>1, <2>2 DEF Numbers
<1>5. CollectsOwn'
  BY <1>0 DEF Complete, CollectsOwn
<1>6. Quiet
  BY <1>0, <1>1 DEF Complete, Quiet, SameCalls, Types, TypeOK, queueVars, listVars, hostVars
<1> QED
  BY <1>2, <1>4, <1>5, <1>6, QuietKeeps

\* Only the application's handles, its events and its answers change.
LEMMA HostKeeps ==
  ASSUME VulkanQueueAssumption, NoneAssumption, QueueInv,
         \/ \E e \in Events : ResetEventQuery(e) \/ \E q \in Queues : SetEventQuery(e, q)
         \/ \E b \in Staging : UnmapBuffer(b)
         \/ \E r \in Resources : ReleaseHandle(r)
  PROVE  QueueInv'
<1>0. Types /\ Numbers /\ CollectsOwn
  BY DEF QueueInv
<1>1. UNCHANGED <<queueVars, inFlight, cmd, listVars, call, gpuVars>>
  BY DEF ResetEventQuery, SetEventQuery, UnmapBuffer, ReleaseHandle
<1>2. \/ UNCHANGED use
      \/ \E e \in Events, x \in [queue : Queues \cup {None}, id : Nat] :
           use' = [use EXCEPT ![e] = x] /\ (x.id # 0 => x.queue \in Queues)
  <2>1. CASE \E e \in Events : ResetEventQuery(e)
    <3>1. Never \in [queue : Queues \cup {None}, id : Nat] /\ Never.id = 0
      BY DEF Never
    <3> QED
      BY <2>1, <3>1 DEF ResetEventQuery
  <2>2. CASE \E e \in Events, q \in Queues : SetEventQuery(e, q)
    <3>1. PICK e \in Events, q \in Queues : SetEventQuery(e, q)
      BY <2>2
    <3> DEFINE x == [queue |-> q, id |-> lastSubmittedID[q]]
    <3>2. x \in [queue : Queues \cup {None}, id : Nat] /\ x.queue \in Queues
      BY <1>0 DEF Types, TypeOK
    <3>3. use' = [use EXCEPT ![e] = x]
      BY <3>1 DEF SetEventQuery
    <3> HIDE DEF x
    <3> QED
      BY <3>2, <3>3
  <2>3. CASE \/ \E b \in Staging : UnmapBuffer(b)
             \/ \E r \in Resources : ReleaseHandle(r)
    BY <2>3 DEF UnmapBuffer, ReleaseHandle
  <2> QED
    BY <2>1, <2>2, <2>3
<1>3. /\ use' \in [Staging \cup Events -> [queue : Queues \cup {None}, id : Nat]]
      /\ \A x \in Staging \cup Events : use'[x].id # 0 => use'[x].queue \in Queues
  <2>1. use \in [Staging \cup Events -> [queue : Queues \cup {None}, id : Nat]]
    BY <1>0 DEF Types, TypeOK
  <2> QED
    BY <1>0, <1>2, <2>1 DEF Types
<1>4. held' \subseteq Resources /\ answered' \subseteq Staging \cup Events
  BY <1>0 DEF ResetEventQuery, SetEventQuery, UnmapBuffer, ReleaseHandle, Types, TypeOK
<1>5. Types'
  BY <1>0, <1>1, <1>3, <1>4 DEF Types, TypeOK, CallsTyped, queueVars, listVars, gpuVars
<1>6. Numbers' /\ CollectsOwn'
  BY <1>0, <1>1 DEF Numbers, CollectsOwn, queueVars, listVars, gpuVars
<1>7. Quiet
  BY <1>0, <1>1 DEF Quiet, SameCalls, Types, TypeOK, queueVars, listVars, gpuVars
<1> QED
  BY <1>5, <1>6, <1>7, QuietKeeps

\* What updateLastFinishedID may return has been reached by the GPU.
LEMMA FinishedFacts ==
  ASSUME Types, Numbers, NEW t \in Threads, NEW q \in Queues,
         NEW finished \in {completed[q]} \cup BeingStored(t, q)
                          \cup (IF call[t].op = "update" /\ call[t].queue = q THEN {call[t].value} ELSE {})
  PROVE  finished \in Nat /\ finished <= completed[q]
<1>1. completed[q] \in Nat
  BY DEF Types, TypeOK
<1>2. CASE finished = completed[q]
  BY <1>1, <1>2
<1>3. CASE \E u \in Threads : call[u].op = "update" /\ call[u].queue = q /\ finished = call[u].value
  BY <1>3 DEF Types, CallsTyped, Numbers
<1> QED
  BY <1>2, <1>3 DEF BeingStored

\* A thread begins to read the semaphore, is answered, or goes on to wait.
LEMMA AnswersKeep ==
  ASSUME VulkanQueueAssumption, NoneAssumption, QueueInv, NEW t \in Threads,
         \/ \E tr \in Trackers : TrackerCollect(t, tr)
         \/ \E x \in Staging \cup Events : Ask(t, x)
         \/ Updated(t) \/ WaitedSemaphores(t)
  PROVE  QueueInv'
<1>0. Types /\ Numbers /\ CollectsOwn
  BY DEF QueueInv
<1>1. UNCHANGED <<lastRecordingID, lastSubmittedID, commandBuffersPool, inFlight, cmd, listVars,
                  held, use, gpuVars>>
  BY DEF TrackerCollect, Ask, Updated, WaitedSemaphores, queueVars, hostVars
<1>2. call[t].op \in {"none", "update", "wait"}
  BY DEF TrackerCollect, Ask, Updated, WaitedSemaphores, Idle
<1>3. \/ call' = call
      \/ call' = [call EXCEPT ![t] = Idle]
      \/ \E x \in Staging \cup Events : call' = [call EXCEPT ![t] = [op |-> "wait", for |-> x]]
      \/ \E x \in Trackers \cup Staging \cup Events : \E q \in Queues :
           /\ call' = [call EXCEPT ![t] = [op |-> "update", queue |-> q, value |-> completed[q], for |-> x]]
           /\ x \in Trackers => q = QueueOf[x] /\ t \in Collectors[x]
  <2>1. CASE \E tr \in Trackers : TrackerCollect(t, tr)
    <3>1. \A tr \in Trackers : QueueOf[tr] \in Queues
      BY DEF VulkanQueueAssumption
    <3> QED
      BY <2>1, <3>1 DEF TrackerCollect, ReadCounter
  <2>2. CASE \E x \in Staging \cup Events : Ask(t, x)
    <3>1. PICK x \in Staging \cup Events : Ask(t, x) /\ (use[x].id # 0 => use[x].queue \in Queues)
      BY <1>0, <2>2 DEF Types
    <3>2. x \notin Trackers
      BY DEF VulkanQueueAssumption
    <3> QED
      BY <3>1, <3>2 DEF Ask, ReadCounter
  <2>3. CASE Updated(t)
    <3>1. call[t].for \in Staging \cup Events
      BY <1>0, <2>3 DEF Updated, Types, CallsTyped
    <3> QED
      BY <2>3, <3>1 DEF Updated
  <2>4. CASE WaitedSemaphores(t)
    BY <2>4 DEF WaitedSemaphores
  <2> QED
    BY <2>1, <2>2, <2>3, <2>4
<1>4. \/ lastFinishedID' = lastFinishedID
      \/ \E q \in Queues, f \in Nat : f <= completed[q] /\ lastFinishedID' = [lastFinishedID EXCEPT ![q] = f]
  <2>1. CASE Updated(t)
    <3>1. call[t].queue \in Queues
      BY <1>0, <2>1 DEF Updated, Types, CallsTyped
    <3> QED
      BY <1>0, <2>1, <3>1, FinishedFacts DEF Updated, StoreFinished
  <2> QED
    BY <2>1 DEF TrackerCollect, Ask, WaitedSemaphores, queueVars
<1>5. answered' \subseteq Staging \cup Events
  BY <1>0 DEF TrackerCollect, Ask, Updated, WaitedSemaphores, Answer, hostVars, Types, CallsTyped, TypeOK
<1>6. lastFinishedID' \in [Queues -> Nat] /\ \A q \in Queues : lastFinishedID'[q] <= completed[q]
  <2>1. lastFinishedID \in [Queues -> Nat] /\ \A q \in Queues : lastFinishedID[q] <= completed[q]
    BY <1>0 DEF Types, TypeOK, Numbers
  <2> QED
    BY <1>4, <2>1
<1>7. DOMAIN call' = Threads /\ \A u \in Threads : u # t => call'[u] = call[u]
  BY <1>0, <1>3 DEF Types
<1>8. /\ call'[t].op \in {"none", "update", "wait"}
      /\ call'[t].op = "wait" => call'[t].for \in Staging \cup Events
      /\ call'[t].op = "update" =>
           /\ call'[t].queue \in Queues /\ call'[t].value \in Nat
           /\ call'[t].for \in Trackers \cup Staging \cup Events
           /\ call'[t].value <= completed[call'[t].queue]
           /\ call'[t].for \in Trackers =>
                t \in Collectors[call'[t].for] /\ call'[t].queue = QueueOf[call'[t].for]
  <2>1. \A q \in Queues : completed[q] \in Nat
    BY <1>0 DEF Types, TypeOK
  <2>2. CASE call' = call
    BY <1>0, <1>2, <2>2 DEF Types, CallsTyped, Numbers, CollectsOwn
  <2>3. CASE call' # call
    BY <1>0, <1>3, <2>1, <2>3 DEF Types, Idle
  <2> QED
    BY <2>2, <2>3
<1>9. CallsTyped'
  BY <1>0, <1>7, <1>8 DEF Types, CallsTyped
<1>10. Types'
  <2>1. TypeOK'
    BY <1>0, <1>1, <1>5, <1>6, <1>7, <1>8 DEF Types, TypeOK, listVars, gpuVars
  <2> QED
    BY <1>0, <1>1, <1>7, <1>9, <2>1 DEF Types
<1>11. Numbers' /\ CollectsOwn'
  BY <1>0, <1>1, <1>6, <1>7, <1>8, ZenonT(40) DEF Numbers, CollectsOwn, gpuVars
<1>12. Quiet
  <2>1. SameCalls({"execute", "return"})
    BY <1>2, <1>7, <1>8 DEF SameCalls
  <2> QED
    BY <1>0, <1>1, <2>1 DEF Quiet, Types, TypeOK, listVars, gpuVars
<1> QED
  BY <1>10, <1>11, <1>12, QuietKeeps

Tracked == [recordingID : Nat, submissionID : Nat, refs : SUBSET Resources, staging : SUBSET Staging]

\* The command buffer of a list is its own or in flight in its tracker.
LEMMA CurrentFacts ==
  ASSUME VulkanQueueAssumption, Types, TodoOK, NEW k \in Lists, phase[k] # "idle"
  PROVE  /\ currentCmdBuf[k] \in CommandBuffers
         /\ phase[k] \in Recorded =>
              <<"list", k>> \in Places /\ Contents[<<"list", k>>] = {currentCmdBuf[k]}
         /\ phase[k] \notin Recorded =>
              /\ phase[k] = "submitted"
              /\ <<"flight", TrackerOf[k]>> \in Places
              /\ currentCmdBuf[k] \in Contents[<<"flight", TrackerOf[k]>>]
<1>1. currentCmdBuf[k] \in CommandBuffers /\ phase[k] \in {"open", "closed", "submitted"}
  BY DEF Types, TypeOK
<1>2. ContentsAt
  BY ContentsFacts
<1>3. TrackerOf[k] \in Trackers
  BY DEF VulkanQueueAssumption
<1>4. CASE phase[k] \in Recorded
  BY <1>1, <1>2, <1>4 DEF ContentsAt, Current
<1>5. CASE phase[k] \notin Recorded
  <2>1. phase[k] = "submitted"
    BY <1>1, <1>5 DEF Recorded
  <2>2. currentCmdBuf[k] \in Elements(inFlight[TrackerOf[k]])
    BY <2>1 DEF TodoOK
  <2> QED
    BY <1>1, <1>2, <1>3, <1>5, <2>1, <2>2 DEF ContentsAt
<1> QED
  BY <1>4, <1>5

\* A command buffer leaves the pool, or is created, and becomes the list's own.
LEMMA OpenKeeps ==
  ASSUME VulkanQueueAssumption, NoneAssumption, QueueInv, NEW l \in Lists, Open(l)
  PROVE  QueueInv'
<1>0. Types /\ Numbers /\ PlacesOK /\ TodoOK /\ CollectsOwn /\ BuffersApart /\ RecordingsOK /\ JobsInFlight
  BY DEF QueueInv
<1>1. PICK q \in Queues : q = QueueOf[l]
  BY DEF VulkanQueueAssumption
<1>2. PICK pool : pool = commandBuffersPool[q]
  OBVIOUS
<1>3. pool \in Seq(CommandBuffers) /\ Distinct(pool)
  BY <1>0, <1>2 DEF Types, TypeOK, PlacesOK
<1>4. PICK id \in Nat : id = lastRecordingID[q] + 1
  BY <1>0 DEF Types
<1>5. PICK c : c = IF pool = <<>> THEN <<q, id>> ELSE Head(pool)
  OBVIOUS
<1>6. /\ phase[l] \in {"idle", "closed"} /\ id <= MaxRecordings[q]
      /\ lastRecordingID' = [lastRecordingID EXCEPT ![q] = id]
      /\ commandBuffersPool' = [commandBuffersPool EXCEPT ![q] = SubSeq(pool, 2, Len(pool))]
      /\ cmd' = [b \in CommandBuffers |->
              IF b = c THEN [cmd[c] EXCEPT !.recordingID = id, !.refs = @ \cup {l}]
              ELSE IF b = currentCmdBuf[l] THEN NoBuffer ELSE cmd[b]]
      /\ currentCmdBuf' = [currentCmdBuf EXCEPT ![l] = c]
      /\ phase' = [phase EXCEPT ![l] = "open"]
      /\ openedAs' = [openedAs EXCEPT ![l] = id]
      /\ accesses' = [accesses EXCEPT ![l] = {l}]
      /\ UNCHANGED <<lastSubmittedID, lastFinishedID, inFlight, call, hostVars, gpuVars>>
  BY <1>1, <1>2, <1>4, <1>5 DEF Open, RemainingPool, NewCommandBuffer, OpenedRefs
<1>7. /\ id \in 1..MaxRecordings[q] /\ \A p \in Queues : lastRecordingID[p] <= lastRecordingID'[p]
      /\ lastRecordingID'[q] = id /\ lastRecordingID' \in [Queues -> Nat]
  BY <1>0, <1>4, <1>6 DEF Types, VulkanQueueAssumption
\* where the command buffer comes from
<1>8. /\ c \in CommandBuffers /\ c[2] <= lastRecordingID'[c[1]]
      /\ \A p \in Places : p # <<"pool", q>> => c \notin Contents[p]
      /\ SubSeq(pool, 2, Len(pool)) \in Seq(CommandBuffers) /\ Distinct(SubSeq(pool, 2, Len(pool)))
      /\ Elements(SubSeq(pool, 2, Len(pool))) = Elements(pool) \ {c}
  <2>1. CASE pool = <<>>
    <3>1. c = <<q, id>> /\ c \in CommandBuffers /\ c[1] = q /\ c[2] = id
      BY <1>5, <1>7, <2>1, CommandBufferFacts
    <3>2. ~(id <= lastRecordingID[q])
      BY <1>0, <1>4 DEF Types
    <3>3. \A p \in Places : c \notin Contents[p]
      BY <1>0, <3>1, <3>2 DEF PlacesOK, Created
    <3>4. SubSeq(pool, 2, Len(pool)) = <<>>
      BY <2>1
    <3>5. Elements(pool) = {} /\ <<>> \in Seq(CommandBuffers)
      BY <2>1, EmptyFacts
    <3>6. Elements(SubSeq(pool, 2, Len(pool))) = Elements(pool) \ {c} /\ Distinct(SubSeq(pool, 2, Len(pool)))
      BY <3>4, <3>5, EmptyFacts
    <3>7. c[2] <= lastRecordingID'[c[1]]
      BY <1>7, <3>1
    <3> QED
      BY <3>1, <3>3, <3>4, <3>5, <3>6, <3>7
  <2>2. CASE pool # <<>>
    <3>1. c = Head(pool)
      BY <1>5, <2>2
    <3>2. /\ c \in CommandBuffers /\ c \in Elements(pool)
          /\ SubSeq(pool, 2, Len(pool)) \in Seq(CommandBuffers) /\ Distinct(SubSeq(pool, 2, Len(pool)))
          /\ Elements(SubSeq(pool, 2, Len(pool))) = Elements(pool) \ {c}
      <4>1. /\ Head(pool) \in CommandBuffers /\ Head(pool) \in Elements(pool)
            /\ Tail(pool) \in Seq(CommandBuffers) /\ Tail(pool) = SubSeq(pool, 2, Len(pool))
            /\ Distinct(pool) => /\ Distinct(Tail(pool))
                                 /\ Elements(Tail(pool)) = Elements(pool) \ {Head(pool)}
        BY <1>3, <2>2, TailApart
      <4> QED
        BY <1>3, <3>1, <4>1
    <3>3. <<"pool", q>> \in Places /\ c \in Contents[<<"pool", q>>]
      BY <1>2, <3>2, ContentsFacts DEF ContentsAt
    <3>4. \A p \in Places : p # <<"pool", q>> => c \notin Contents[p]
      BY <1>0, <3>3 DEF PlacesOK, Apart
    <3>5. c[2] <= lastRecordingID[c[1]] /\ c[1] \in Queues /\ c[2] \in Nat
      BY <1>0, <3>2, <3>3, CommandBufferFacts DEF PlacesOK, Created
    <3>6. c[2] <= lastRecordingID'[c[1]]
      BY <1>0, <1>7, <3>5 DEF Types
    <3> QED
      BY <3>2, <3>4, <3>6
  <2> QED
    BY <2>1, <2>2
<1>9. /\ phase \in [Lists -> {"idle", "open", "closed", "submitted"}]
      /\ currentCmdBuf \in [Lists -> CommandBuffers \cup {None}]
      /\ \A k \in Lists : phase'[k] = IF k = l THEN "open" ELSE phase[k]
      /\ \A k \in Lists : currentCmdBuf'[k] = IF k = l THEN c ELSE currentCmdBuf[k]
      /\ \A k \in Lists : openedAs'[k] = IF k = l THEN id ELSE openedAs[k]
  BY <1>0, <1>6 DEF Types, TypeOK
<1>10. /\ cmd \in [CommandBuffers -> Tracked] /\ cmd' \in [CommandBuffers -> Tracked]
       /\ cmd'[c].recordingID = id
       /\ \A b \in CommandBuffers : b # c /\ b # currentCmdBuf[l] => cmd'[b] = cmd[b]
  <2>1. cmd \in [CommandBuffers -> Tracked] /\ l \in Resources
    BY <1>0 DEF Types, TypeOK, Tracked, VulkanQueueAssumption
  <2>2. PICK old \in Tracked : old = cmd[c]
    BY <1>8, <2>1
  <2> DEFINE opened == [old EXCEPT !.recordingID = id, !.refs = @ \cup {l}]
  <2>3. opened \in Tracked /\ opened.recordingID = id
    BY <2>1 DEF Tracked
  <2>4. cmd' = [b \in CommandBuffers |->
            IF b = c THEN opened ELSE IF b = currentCmdBuf[l] THEN NoBuffer ELSE cmd[b]]
    BY <1>6, <2>2
  <2> HIDE DEF opened
  <2>5. NoBuffer \in Tracked
    BY DEF NoBuffer, Tracked
  <2> QED
    BY <1>8, <2>1, <2>3, <2>4, <2>5
<1>11. c # None
  BY <1>8, CommandBufferFacts
\* no other list has it, and it is not in flight
<1>12. ASSUME NEW k \in Lists, k # l, phase[k] # "idle"
       PROVE  /\ currentCmdBuf[k] \in CommandBuffers
              /\ currentCmdBuf[k] # c /\ currentCmdBuf[k] # currentCmdBuf[l]
  <2>1. /\ currentCmdBuf[k] \in CommandBuffers
        /\ \E p \in Places : p # <<"pool", q>> /\ currentCmdBuf[k] \in Contents[p]
    BY <1>0, <1>12, CurrentFacts
  <2>2. currentCmdBuf[k] # None
    BY <2>1, CommandBufferFacts
  <2> QED
    BY <1>0, <1>8, <1>12, <2>1, <2>2 DEF BuffersApart
<1>13. ASSUME NEW tr \in Trackers, NEW b \in Elements(inFlight[tr])
       PROVE  b \in CommandBuffers /\ b # c /\ b # currentCmdBuf[l]
  <2>1. <<"flight", tr>> \in Places /\ b \in Contents[<<"flight", tr>>]
    BY <1>13, ContentsFacts DEF ContentsAt
  <2>2. b \in CommandBuffers /\ b # None
    BY <1>0, <2>1, CommandBufferFacts DEF PlacesOK, Created
  <2>3. phase[l] = "closed" => b # currentCmdBuf[l]
    <3>1. Current(l) = {currentCmdBuf[l]} \/ phase[l] # "closed"
      BY DEF Current, Recorded
    <3> QED
      BY <1>0, <3>1, ApartFacts DEF PlacesOK
  <2>4. phase[l] = "idle" => b # currentCmdBuf[l]
    BY <1>0, <2>2 DEF Types, TypeOK
  <2> QED
    BY <1>6, <1>8, <2>1, <2>2, <2>3, <2>4
<1>14. Types'
  <2>1. cmd' \in [CommandBuffers -> [recordingID : Nat, submissionID : Nat,
                                    refs : SUBSET Resources, staging : SUBSET Staging]]
    BY <1>10 DEF Tracked
  <2>2. commandBuffersPool' \in [Queues -> Seq(CommandBuffers)]
    BY <1>0, <1>6, <1>8 DEF Types, TypeOK
  <2>3. /\ currentCmdBuf' \in [Lists -> CommandBuffers \cup {None}]
        /\ phase' \in [Lists -> {"idle", "open", "closed", "submitted"}]
        /\ \A k \in Lists : currentCmdBuf'[k] = None <=> phase'[k] = "idle"
    BY <1>0, <1>6, <1>8, <1>9, <1>11 DEF Types, TypeOK
  <2>4. openedAs' \in [Lists -> Nat] /\ accesses' \in [Lists -> SUBSET Resources]
    BY <1>0, <1>6, SMTT(30) DEF Types, TypeOK, VulkanQueueAssumption
  <2>5. \A p \in Queues : lastRecordingID'[p] \in 0..MaxRecordings[p]
    BY <1>0, <1>6, <1>7 DEF Types, TypeOK, VulkanQueueAssumption
  <2> QED
    BY <1>0, <1>6, <1>7, <2>1, <2>2, <2>3, <2>4, <2>5
    DEF Types, TypeOK, CallsTyped, hostVars, gpuVars
<1>15. Numbers' /\ CollectsOwn'
  BY <1>0, <1>6 DEF Numbers, CollectsOwn, hostVars, gpuVars
<1>16. PlacesOK'
  <2>1. Contents'[<<"list", l>>] = {c} /\ <<"list", l>> \in Places
    BY <1>9, ContentsFacts DEF ContentsAt, Current, Recorded
  <2>2. ASSUME NEW p \in Places, p # <<"list", l>> PROVE Contents'[p] \subseteq Contents[p] \ {c}
    <3>0. ContentsAt /\ ContentsAt'
      BY ContentsFacts
    <3>1. CASE p = <<"pool", q>>
      <4>1. commandBuffersPool'[q] = SubSeq(pool, 2, Len(pool))
        BY <1>0, <1>6 DEF Types, TypeOK
      <4>2. Contents'[p] = Elements(commandBuffersPool'[q]) /\ Contents[p] = Elements(commandBuffersPool[q])
        BY <3>0, <3>1 DEF ContentsAt
      <4> QED
        BY <1>2, <1>8, <4>1, <4>2
    <3>2. CASE p # <<"pool", q>>
      <4>1. ASSUME NEW r \in Queues, p = <<"pool", r>> PROVE Contents'[p] = Contents[p]
        <5>1. r # q /\ commandBuffersPool'[r] = commandBuffersPool[r]
          BY <1>0, <1>6, <3>2, <4>1 DEF Types, TypeOK
        <5> QED
          BY <3>0, <4>1, <5>1 DEF ContentsAt
      <4>2. ASSUME NEW tr \in Trackers, p = <<"flight", tr>> PROVE Contents'[p] = Contents[p]
        BY <1>6, <3>0, <4>2 DEF ContentsAt
      <4>3. ASSUME NEW k \in Lists, p = <<"list", k>> PROVE Contents'[p] = Contents[p]
        <5>1. k # l /\ Current(k)' = Current(k)
          BY <1>9, <2>2, <4>3 DEF Current
        <5> QED
          BY <3>0, <4>3, <5>1 DEF ContentsAt
      <4>4. ASSUME NEW t \in Threads, p = <<"return", t>> PROVE Contents'[p] = Contents[p]
        <5>1. Returned(t)' = Returned(t)
          BY <1>6 DEF Returned
        <5> QED
          BY <3>0, <4>4, <5>1 DEF ContentsAt
      <4>5. Contents'[p] = Contents[p]
        BY <4>1, <4>2, <4>3, <4>4, PlaceCases
      <4> QED
        BY <1>8, <3>2, <4>5
    <3> QED
      BY <3>1, <3>2
  <2>3. \A b \in CommandBuffers : b[2] <= lastRecordingID[b[1]] => b[2] <= lastRecordingID'[b[1]]
    BY <1>0, <1>7, CommandBufferFacts DEF Types
  <2>4. PICK M, m : M = {c} /\ m = [x \in {c} |-> <<"list", l>>]
    OBVIOUS
  <2>5. \A p \in Places : \A b \in Contents'[p] : IF b \in M THEN m[b] = p ELSE b \in Contents[p]
    BY <2>1, <2>2, <2>4
  <2>6. \A b \in M : b \in CommandBuffers /\ b[2] <= lastRecordingID'[b[1]]
    BY <1>8, <2>4
  <2>7. Apart(Contents) /\ Created(Contents)
    BY <1>0 DEF PlacesOK
  <2>8. Moved(M, m)
    BY <2>3, <2>5, <2>6 DEF Moved
  <2>9. Apart(Contents)' /\ Created(Contents)'
    BY <2>7, <2>8, ContentsMoved
  <2> QED
    BY <1>0, <1>6, <1>8, <2>9 DEF PlacesOK, Types, TypeOK
<1>17. TodoOK'
  <2>1. \A t \in Threads : Todo(t)' = Todo(t)
    BY <1>6 DEF Todo
  <2>2. ASSUME NEW t \in Threads, NEW k \in Todo(t)
        PROVE  /\ phase'[k] = "submitted" /\ t \in Executors[k]
               /\ currentCmdBuf'[k] \in Elements(inFlight'[TrackerOf[k]])
               /\ cmd'[currentCmdBuf'[k]].submissionID = call'[t].id
    <3>1. k \in Lists /\ phase[k] = "submitted" /\ k # l
      BY <1>0, <1>6, <2>2, TypeFacts DEF TodoOK
    <3> QED
      BY <1>0, <1>6, <1>9, <1>10, <1>12, <2>2, <3>1 DEF TodoOK
  <2> QED
    BY <1>0, <1>9, <2>1, <2>2 DEF TodoOK
<1>18. BuffersApart'
  <2>1. \A k \in Lists : k # l => currentCmdBuf[k] # c
    BY <1>0, <1>11, <1>12 DEF Types, TypeOK
  <2> QED
    BY <1>0, <1>9, <2>1 DEF BuffersApart
<1>19. RecordingsOK'
  BY <1>0, <1>9, <1>10, <1>12 DEF RecordingsOK
<1>20. JobsInFlight'
  <2>1. ASSUME NEW p \in Queues, NEW i \in Unfinished(p), NEW b \in job[p][i].cmds
        PROVE  cmd'[b] = cmd[b]
    <3>1. PICK tr \in Trackers : b \in Elements(inFlight[tr])
      BY <1>0, <2>1 DEF JobsInFlight
    <3> QED
      BY <1>10, <1>13, <3>1
  <2>2. \A p \in Queues : Unfinished(p)' = Unfinished(p) /\ job'[p] = job[p]
    BY <1>6 DEF Unfinished, gpuVars
  <2>3. ASSUME NEW p \in Queues, NEW i \in Unfinished(p)', NEW b \in job'[p][i].cmds
        PROVE  /\ cmd'[b].submissionID = i
               /\ \E tr \in Trackers : QueueOf[tr] = p /\ b \in Elements(inFlight'[tr])
    <3>1. i \in Unfinished(p) /\ b \in job[p][i].cmds
      BY <2>2, <2>3
    <3>2. /\ cmd[b].submissionID = i
          /\ \E tr \in Trackers : QueueOf[tr] = p /\ b \in Elements(inFlight[tr])
      BY <1>0, <3>1 DEF JobsInFlight
    <3>3. cmd'[b] = cmd[b]
      BY <2>1, <3>1
    <3>4. inFlight' = inFlight
      BY <1>6
    <3> QED
      BY <3>2, <3>3, <3>4
  <2> QED
    BY <2>3 DEF JobsInFlight
<1> QED
  BY <1>14, <1>15, <1>16, <1>17, <1>18, <1>19, <1>20 DEF QueueInv

\* The next list of a call is told; its command buffer stays in flight.
LEMMA ExecutedKeeps ==
  ASSUME VulkanQueueAssumption, NoneAssumption, QueueInv, NEW t \in Threads, Executed(t)
  PROVE  QueueInv'
<1>0. Types /\ Numbers /\ PlacesOK /\ TodoOK /\ CollectsOwn /\ BuffersApart /\ RecordingsOK /\ JobsInFlight
  BY DEF QueueInv
<1>1. PICK todo : todo = call[t].todo
  OBVIOUS
<1>2. call[t].op = "execute" /\ todo \in Seq(Lists) /\ todo # <<>> /\ Distinct(todo) /\ call[t].id \in Nat
  BY <1>0, <1>1 DEF Executed, Types, CallsTyped
<1>3. /\ Head(todo) \in Lists /\ Head(todo) \in Elements(todo) /\ Tail(todo) \in Seq(Lists)
      /\ Len(Tail(todo)) = Len(todo) - 1
      /\ Distinct(Tail(todo)) /\ Elements(Tail(todo)) = Elements(todo) \ {Head(todo)}
  <2>1. /\ Head(todo) \in Lists /\ Head(todo) \in Elements(todo) /\ Tail(todo) \in Seq(Lists)
        /\ Len(Tail(todo)) = Len(todo) - 1 /\ Tail(todo) = SubSeq(todo, 2, Len(todo))
        /\ Distinct(todo) => Distinct(Tail(todo)) /\ Elements(Tail(todo)) = Elements(todo) \ {Head(todo)}
    BY <1>2, TailApart
  <2> QED
    BY <1>2, <2>1
<1>4. PICK l \in Lists : l = Head(todo)
  BY <1>3
<1>5. /\ currentCmdBuf' = [currentCmdBuf EXCEPT ![l] = None]
      /\ phase' = [phase EXCEPT ![l] = "idle"]
      /\ call' = [call EXCEPT ![t] = IF Len(todo) = 1 THEN Idle ELSE [call[t] EXCEPT !.todo = Tail(todo)]]
      /\ UNCHANGED <<queueVars, inFlight, cmd, openedAs, accesses, hostVars, gpuVars>>
  BY <1>1, <1>4 DEF Executed, Detached
<1>6. /\ \A k \in Lists : phase'[k] = IF k = l THEN "idle" ELSE phase[k]
      /\ \A k \in Lists : currentCmdBuf'[k] = IF k = l THEN None ELSE currentCmdBuf[k]
  BY <1>0, <1>5 DEF Types, TypeOK
<1>7. PICK next : next = IF Len(todo) = 1 THEN Idle ELSE [call[t] EXCEPT !.todo = Tail(todo)]
  OBVIOUS
<1>8. DOMAIN call' = Threads /\ call'[t] = next /\ \A u \in Threads : u # t => call'[u] = call[u]
  BY <1>0, <1>5, <1>7 DEF Types
<1>9. \/ next.op = "none" /\ Elements(Tail(todo)) = {}
      \/ next.op = "execute" /\ next.todo = Tail(todo) /\ next.id = call[t].id /\ Tail(todo) # <<>>
  <2>1. CASE Len(todo) = 1
    <3>1. PICK rest \in Seq(Lists) : rest = Tail(todo)
      BY <1>3
    <3>2. Len(rest) = 0
      BY <1>2, <1>3, <2>1, <3>1
    <3>3. rest = <<>>
      BY <3>2
    <3>4. next = Idle
      BY <1>7, <2>1
    <3> QED
      BY <3>1, <3>3, <3>4, EmptyFacts DEF Idle
  <2>2. CASE Len(todo) # 1
    <3>1. Tail(todo) # <<>>
      <4>1. PICK n \in Nat : n = Len(todo)
        BY <1>2
      <4>2. n # 0
        BY <1>2, <4>1
      <4>3. Len(Tail(todo)) # 0
        BY <1>3, <2>2, <4>1, <4>2
      <4>4. Len(<<>>) = 0
        OBVIOUS
      <4> QED
        BY <4>3, <4>4, Zenon
    <3>2. next = [call[t] EXCEPT !.todo = Tail(todo)]
      BY <1>7, <2>2
    <3>3. next.op = "execute" /\ next.id = call[t].id
      BY <1>2, <3>2
    <3>4. next.todo = Tail(todo)
      BY <1>2, <3>2
    <3> QED
      BY <3>1, <3>3, <3>4
  <2> QED
    BY <2>1, <2>2
<1>10. /\ \A u \in Threads : u # t => Todo(u)' = Todo(u) /\ Returned(u)' = Returned(u)
       /\ Todo(t)' = Todo(t) \ {l} /\ Todo(t) = Elements(todo) /\ l \in Todo(t)
       /\ Returned(t)' = Returned(t)
  <2>1. Todo(t) = Elements(todo) /\ l \in Todo(t) /\ Returned(t) = {}
    BY <1>1, <1>2, <1>3, <1>4 DEF Todo, Returned
  <2>2. Todo(t)' = Elements(todo) \ {l} /\ Returned(t)' = {}
    BY <1>3, <1>4, <1>8, <1>9 DEF Todo, Returned
  <2> QED
    BY <1>8, <2>1, <2>2 DEF Todo, Returned
<1>11. phase[l] = "submitted" /\ \A u \in Threads : u # t => l \notin Todo(u)
  BY <1>0, <1>10 DEF TodoOK
<1>12. Types'
  <2>1. /\ currentCmdBuf' \in [Lists -> CommandBuffers \cup {None}]
        /\ phase' \in [Lists -> {"idle", "open", "closed", "submitted"}]
        /\ \A k \in Lists : currentCmdBuf'[k] = None <=> phase'[k] = "idle"
    BY <1>0, <1>5, <1>6 DEF Types, TypeOK
  <2>2. \A u \in Threads : call'[u].op \in {"none", "execute", "update", "wait", "return"}
    BY <1>0, <1>8, <1>9 DEF Types, TypeOK
  <2>3. CallsTyped'
    BY <1>0, <1>2, <1>3, <1>8, <1>9, ZenonT(40) DEF Types, CallsTyped
  <2> QED
    BY <1>0, <1>5, <1>8, <2>1, <2>2, <2>3 DEF Types, TypeOK, queueVars, hostVars, gpuVars
<1>13. Numbers' /\ CollectsOwn'
  BY <1>0, <1>5, <1>8, <1>9 DEF Numbers, CollectsOwn, queueVars, gpuVars
<1>14. PlacesOK'
  <2>1. \A k \in Lists : Current(k)' = Current(k)
    BY <1>6, <1>11 DEF Current, Recorded
  <2>2. \A p \in Places : Contents'[p] = Contents[p]
    BY <1>5, <1>10, <2>1, ContentsFacts, PlaceCases DEF ContentsAt, queueVars
  <2> QED
    BY <1>0, <1>5, <2>2 DEF PlacesOK, Apart, Created, queueVars
<1>15. TodoOK'
  <2>1. ASSUME NEW u \in Threads, NEW w \in Threads, u # w PROVE Todo(u)' \cap Todo(w)' = {}
    BY <1>0, <1>10, <2>1 DEF TodoOK
  <2>2. ASSUME NEW u \in Threads, NEW k \in Todo(u)'
        PROVE  /\ phase'[k] = "submitted" /\ u \in Executors[k]
               /\ currentCmdBuf'[k] \in Elements(inFlight'[TrackerOf[k]])
               /\ cmd'[currentCmdBuf'[k]].submissionID = call'[u].id
    <3>1. k \in Todo(u) /\ k # l /\ k \in Lists
      BY <1>0, <1>10, <1>11, <2>2, TypeFacts, SMTT(30)
    <3>2. call'[u].id = call[u].id
      BY <1>3, <1>4, <1>8, <1>9, <1>10, <2>2, <3>1
    <3> QED
      BY <1>0, <1>5, <1>6, <3>1, <3>2 DEF TodoOK
  <2>3. ASSUME NEW k \in Lists, phase'[k] = "submitted" PROVE \E u \in Threads : k \in Todo(u)'
    BY <1>0, <1>6, <1>10, <2>3 DEF TodoOK
  <2> QED
    BY <2>1, <2>2, <2>3 DEF TodoOK
<1>16. BuffersApart' /\ RecordingsOK'
  BY <1>0, <1>5, <1>6 DEF BuffersApart, RecordingsOK
<1>17. JobsInFlight'
  BY <1>0, <1>5 DEF JobsInFlight, Unfinished, gpuVars
<1> QED
  BY <1>12, <1>13, <1>14, <1>15, <1>16, <1>17 DEF QueueInv

\* The command buffers a thread returns go to the pool of their queue.
LEMMA ReturnKeeps ==
  ASSUME VulkanQueueAssumption, NoneAssumption, QueueInv, NEW t \in Threads,
         ReturnCommandBuffersToPool(t)
  PROVE  QueueInv'
<1>0. Types /\ Numbers /\ PlacesOK /\ TodoOK /\ CollectsOwn /\ BuffersApart /\ RecordingsOK /\ JobsInFlight
  BY DEF QueueInv
<1>1. PICK q \in Queues : q = call[t].queue
  BY <1>0 DEF ReturnCommandBuffersToPool, Types, CallsTyped
<1>2. PICK released \in Seq(CommandBuffers) : released = call[t].released
  BY <1>0 DEF ReturnCommandBuffersToPool, Types, CallsTyped
<1>3. PICK pool \in Seq(CommandBuffers) : pool = commandBuffersPool[q]
  BY <1>0 DEF Types, TypeOK
<1>4. Distinct(released) /\ Distinct(pool) /\ Returned(t) = Elements(released)
  BY <1>0, <1>2, <1>3 DEF ReturnCommandBuffersToPool, Types, CallsTyped, PlacesOK, Returned
<1>5. call[t].op = "return"
      /\ commandBuffersPool' = [commandBuffersPool EXCEPT ![q] = pool \o released]
      /\ call' = [call EXCEPT ![t] = Idle]
      /\ UNCHANGED <<lastRecordingID, lastSubmittedID, lastFinishedID, inFlight, cmd,
                     listVars, hostVars, gpuVars>>
  BY <1>1, <1>2, <1>3 DEF ReturnCommandBuffersToPool
<1>6. Elements(pool) \cap Elements(released) = {}
  BY <1>0, <1>3, <1>4, ApartFacts DEF PlacesOK
<1>7. /\ pool \o released \in Seq(CommandBuffers) /\ Distinct(pool \o released)
      /\ Elements(pool \o released) = Elements(pool) \cup Elements(released)
  BY <1>4, <1>6, JoinApart
<1>8. /\ DOMAIN call' = Threads /\ call'[t] = Idle
      /\ \A u \in Threads : u # t => call'[u] = call[u]
  BY <1>0, <1>5 DEF Types
<1>9. PICK joined \in Seq(CommandBuffers) : joined = pool \o released
  BY <1>7
<1>10. /\ commandBuffersPool' \in [Queues -> Seq(CommandBuffers)]
       /\ \A p \in Queues : commandBuffersPool'[p] = IF p = q THEN joined ELSE commandBuffersPool[p]
  BY <1>0, <1>5, <1>9 DEF Types, TypeOK
<1>11. Types'
  BY <1>0, <1>5, <1>8, <1>10 DEF Types, TypeOK, CallsTyped, Idle, listVars, hostVars, gpuVars
<1>12. Numbers' /\ CollectsOwn'
  BY <1>0, <1>5, <1>8 DEF Numbers, CollectsOwn, Idle, gpuVars
<1>13. \A u \in Threads : Todo(u)' = Todo(u)
  BY <1>5, <1>8 DEF Todo, Idle
<1>14. PlacesOK'
  <2>1. /\ <<"pool", q>> \in Places /\ <<"return", t>> \in Places
        /\ Contents[<<"return", t>>] = Elements(released) /\ Contents'[<<"return", t>>] = {}
        /\ Contents[<<"pool", q>>] = Elements(pool)
        /\ Contents'[<<"pool", q>>] = Elements(pool) \cup Elements(released)
    <3>1. Returned(t)' = {}
      BY <1>8 DEF Returned, Idle
    <3>2. commandBuffersPool'[q] = joined
      BY <1>10
    <3>3. Elements(commandBuffersPool'[q]) = Elements(pool) \cup Elements(released)
      BY <1>7, <1>9, <3>2
    <3>4. /\ Contents'[<<"return", t>>] = Returned(t)'
          /\ Contents'[<<"pool", q>>] = Elements(commandBuffersPool'[q])
      BY ContentsFacts DEF ContentsAt
    <3>5. /\ <<"pool", q>> \in Places /\ <<"return", t>> \in Places
          /\ Contents[<<"return", t>>] = Elements(released)
          /\ Contents[<<"pool", q>>] = Elements(pool)
      BY <1>3, <1>4, ContentsFacts DEF ContentsAt
    <3> QED
      BY <3>1, <3>3, <3>4, <3>5
  <2>2. ASSUME NEW p \in Places, p # <<"pool", q>>, p # <<"return", t>> PROVE Contents'[p] = Contents[p]
    <3>0. ContentsAt /\ ContentsAt'
      BY ContentsFacts
    <3>1. ASSUME NEW r \in Queues, p = <<"pool", r>> PROVE Contents'[p] = Contents[p]
      <4>1. r # q /\ commandBuffersPool'[r] = commandBuffersPool[r]
        BY <1>10, <2>2, <3>1
      <4> QED
        BY <3>0, <3>1, <4>1 DEF ContentsAt
    <3>2. ASSUME NEW tr \in Trackers, p = <<"flight", tr>> PROVE Contents'[p] = Contents[p]
      BY <1>5, <3>0, <3>2 DEF ContentsAt
    <3>3. ASSUME NEW k \in Lists, p = <<"list", k>> PROVE Contents'[p] = Contents[p]
      <4>1. Current(k)' = Current(k)
        BY <1>5 DEF Current, listVars
      <4> QED
        BY <3>0, <3>3, <4>1 DEF ContentsAt
    <3>4. ASSUME NEW u \in Threads, p = <<"return", u>> PROVE Contents'[p] = Contents[p]
      <4>1. u # t /\ Returned(u)' = Returned(u)
        BY <1>8, <2>2, <3>4 DEF Returned
      <4> QED
        BY <3>0, <3>4, <4>1 DEF ContentsAt
    <3> QED
      BY <3>1, <3>2, <3>3, <3>4, PlaceCases
  <2>3. Apart(Contents) /\ Created(Contents)
    BY <1>0 DEF PlacesOK
  <2>4. PICK M, m : M = Elements(released) /\ m = [c \in M |-> <<"pool", q>>]
    OBVIOUS
  <2>5. ASSUME NEW p \in Places, NEW c \in Contents'[p]
        PROVE  IF c \in M THEN m[c] = p ELSE c \in Contents[p]
    <3>1. CASE p = <<"pool", q>>
      BY <2>1, <2>4, <2>5, <3>1
    <3>2. CASE p = <<"return", t>>
      BY <2>1, <2>5, <3>2
    <3>3. CASE p # <<"pool", q>> /\ p # <<"return", t>>
      <4>1. c \in Contents[p] /\ c \notin Contents[<<"return", t>>]
        BY <2>1, <2>2, <2>3, <2>5, <3>3 DEF Apart
      <4> QED
        BY <2>1, <2>4, <4>1
    <3> QED
      BY <3>1, <3>2, <3>3
  <2>6. \A c \in M : c \in CommandBuffers /\ c[2] <= lastRecordingID'[c[1]]
    BY <1>5, <2>1, <2>3, <2>4 DEF Created
  <2>7. Moved(M, m)
    BY <1>5, <2>5, <2>6 DEF Moved
  <2>8. Apart(Contents)' /\ Created(Contents)'
    BY <2>3, <2>7, ContentsMoved
  <2>9. \A p \in Queues : Distinct(commandBuffersPool'[p])
    BY <1>0, <1>7, <1>9, <1>10 DEF PlacesOK
  <2> QED
    BY <1>0, <1>5, <2>8, <2>9 DEF PlacesOK
<1>15. TodoOK'
  <2>1. ASSUME NEW u \in Threads, NEW k \in Todo(u) PROVE call'[u].id = call[u].id
    <3>1. u # t
      BY <1>0, <1>5, <2>1, TypeFacts
    <3> QED
      BY <1>8, <3>1
  <2>2. UNCHANGED <<phase, currentCmdBuf, inFlight, cmd>>
    BY <1>5 DEF listVars
  <2> QED
    BY <1>0, <1>13, <2>1, <2>2 DEF TodoOK
<1>16. BuffersApart' /\ RecordingsOK' /\ JobsInFlight'
  BY <1>0, <1>5 DEF BuffersApart, RecordingsOK, JobsInFlight, Unfinished, listVars, gpuVars
<1> QED
  BY <1>11, <1>12, <1>14, <1>15, <1>16 DEF QueueInv

\* A thread collects what it has found finished.
Collecting(t, tr, finished, n) ==
    /\ t \in Collectors[tr] /\ call[t].op # "execute"
    /\ finished \in Nat /\ finished <= completed[QueueOf[tr]]
    /\ FinishedPrefix(tr, finished, n) /\ Collect(tr, n)

Collected(tr, n, done) ==
    /\ Collectable(tr, n) \in Seq(CommandBuffers) /\ Distinct(Collectable(tr, n))
    /\ Len(Collectable(tr, n)) = n
    /\ done \subseteq Elements(inFlight[tr]) /\ done \subseteq CommandBuffers
    /\ inFlight' \in [Trackers -> Seq(CommandBuffers)]
    /\ Elements(inFlight'[tr]) = Elements(inFlight[tr]) \ done /\ Distinct(inFlight'[tr])
    /\ \A ur \in Trackers : ur # tr => inFlight'[ur] = inFlight[ur]
    /\ cmd' \in [CommandBuffers -> Tracked]
    /\ \A c \in CommandBuffers : /\ cmd'[c].recordingID = cmd[c].recordingID
                                 /\ c \notin done => cmd'[c] = cmd[c]
    /\ \A l \in Lists : phase[l] # "idle" => currentCmdBuf[l] \notin done
    /\ \A q \in Queues : \A i \in Unfinished(q) : \A c \in job[q][i].cmds : c \notin done

\* What a collection takes out of a tracker is in it, finished, and not in the hands
\* of a list: executed() of a submitted one is up to the thread that collects.
LEMMA CollectFacts ==
  ASSUME VulkanQueueAssumption, NoneAssumption, OneThreadPerTracker, QueueInv,
         NEW t \in Threads, NEW tr \in Trackers, NEW finished, NEW n \in 0..Len(inFlight[tr]),
         Collecting(t, tr, finished, n), NEW done, done = Elements(Collectable(tr, n))
  PROVE  Collected(tr, n, done)
<1>0. Types /\ Numbers /\ PlacesOK /\ TodoOK /\ JobsInFlight
  BY DEF QueueInv
<1>1. PICK flight \in Seq(CommandBuffers) : flight = inFlight[tr]
  BY <1>0 DEF Types, TypeOK
<1>2. Distinct(flight) /\ n \in 0..Len(flight)
  BY <1>0, <1>1 DEF PlacesOK
<1>3. /\ SubSeq(flight, 1, n) \in Seq(CommandBuffers) /\ SubSeq(flight, n + 1, Len(flight)) \in Seq(CommandBuffers)
      /\ Len(SubSeq(flight, 1, n)) = n /\ \A i \in 1..n : SubSeq(flight, 1, n)[i] = flight[i]
  BY <1>2, CutFacts
<1>4. /\ Distinct(SubSeq(flight, 1, n)) /\ Distinct(SubSeq(flight, n + 1, Len(flight)))
      /\ Elements(SubSeq(flight, 1, n)) \subseteq Elements(flight)
      /\ Elements(SubSeq(flight, n + 1, Len(flight))) = Elements(flight) \ Elements(SubSeq(flight, 1, n))
  BY <1>2, CutApart
<1>5. Collectable(tr, n) = SubSeq(flight, 1, n) /\ done = Elements(SubSeq(flight, 1, n))
  BY <1>1 DEF Collectable
<1>6. PICK rest \in Seq(CommandBuffers) : rest = SubSeq(flight, n + 1, Len(flight))
  BY <1>3
<1>7. /\ cmd' = [c \in CommandBuffers |-> IF c \in done THEN Released(c) ELSE cmd[c]]
      /\ inFlight' = [inFlight EXCEPT ![tr] = rest]
  BY <1>1, <1>6 DEF Collecting, Collect
<1>8. done \subseteq CommandBuffers
  <2>1. flight \in Seq(CommandBuffers) => Elements(flight) \subseteq CommandBuffers
    BY DEF Elements
  <2> QED
    BY <1>4, <1>5, <2>1
<1>9. /\ inFlight' \in [Trackers -> Seq(CommandBuffers)]
      /\ Elements(inFlight'[tr]) = Elements(inFlight[tr]) \ done /\ Distinct(inFlight'[tr])
      /\ \A ur \in Trackers : ur # tr => inFlight'[ur] = inFlight[ur]
  BY <1>0, <1>1, <1>4, <1>5, <1>6, <1>7 DEF Types, TypeOK
<1>10. /\ cmd' \in [CommandBuffers -> Tracked]
       /\ \A c \in CommandBuffers : /\ cmd'[c].recordingID = cmd[c].recordingID
                                    /\ c \notin done => cmd'[c] = cmd[c]
  <2>1. cmd \in [CommandBuffers -> Tracked]
    BY <1>0 DEF Types, TypeOK, Tracked
  <2>2. ASSUME NEW c \in CommandBuffers
        PROVE  Released(c) \in Tracked /\ Released(c).recordingID = cmd[c].recordingID
    <3>1. PICK old \in Tracked : old = cmd[c]
      BY <2>1
    <3> DEFINE released == [old EXCEPT !.submissionID = 0, !.refs = {}, !.staging = {}]
    <3>2. released \in Tracked /\ released.recordingID = old.recordingID
      BY DEF Tracked
    <3>3. Released(c) = released
      BY <3>1 DEF Released
    <3> HIDE DEF released
    <3> QED
      BY <3>1, <3>2, <3>3
  <2>3. \A c \in CommandBuffers : cmd'[c] = IF c \in done THEN Released(c) ELSE cmd[c]
    BY <1>7
  <2>4. cmd' \in [CommandBuffers -> Tracked]
    BY <1>7, <2>1, <2>2
  <2> QED
    BY <2>2, <2>3, <2>4
<1>11. ASSUME NEW l \in Lists, phase[l] # "idle" PROVE currentCmdBuf[l] \notin done
  <2>1. CASE phase[l] \in Recorded
    <3>1. Elements(inFlight[tr]) \cap Current(l) = {} /\ Current(l) = {currentCmdBuf[l]}
      BY <1>0, <2>1, ApartFacts DEF PlacesOK, Current
    <3> QED
      BY <1>1, <1>4, <1>5, <3>1
  <2>2. CASE phase[l] = "submitted"
    <3>1. PICK u \in Threads : l \in Todo(u)
      BY <1>0, <2>2 DEF TodoOK
    <3>2. /\ call[u].op = "execute" /\ u \in Executors[l]
          /\ currentCmdBuf[l] \in Elements(inFlight[TrackerOf[l]])
      BY <1>0, <3>1, TypeFacts DEF TodoOK
    <3>3. TrackerOf[l] \in Trackers
      BY DEF VulkanQueueAssumption
    <3>4. TrackerOf[l] # tr
      BY <3>2 DEF OneThreadPerTracker, Collecting
    <3>5. Elements(inFlight[tr]) \cap Elements(inFlight[TrackerOf[l]]) = {}
      BY <1>0, <3>3, <3>4, ApartFacts DEF PlacesOK
    <3> QED
      BY <1>1, <1>4, <1>5, <3>2, <3>5
  <2>3. phase[l] \in {"open", "closed", "submitted"}
    BY <1>0, <1>11 DEF Types, TypeOK
  <2> QED
    BY <2>1, <2>2, <2>3 DEF Recorded
<1>12. ASSUME NEW q \in Queues, NEW i \in Unfinished(q), NEW c \in job[q][i].cmds, c \in done PROVE FALSE
  <2>1. PICK ur \in Trackers : QueueOf[ur] = q /\ c \in Elements(inFlight[ur])
    BY <1>0 DEF JobsInFlight
  <2>2. cmd[c].submissionID = i
    BY <1>0 DEF JobsInFlight
  <2>3. ur = tr
    <3>1. c \in Elements(inFlight[tr])
      BY <1>1, <1>4, <1>5, <1>12
    <3>2. \A w \in Trackers : tr # w => Elements(inFlight[tr]) \cap Elements(inFlight[w]) = {}
      BY <1>0, ApartFacts DEF PlacesOK
    <3> QED
      BY <2>1, <3>1, <3>2
  <2>4. PICK k \in 1..n : c = flight[k]
    BY <1>3, <1>5, <1>12 DEF Elements
  <2>5. cmd[c].submissionID <= finished
    BY <1>1, <2>4 DEF Collecting, FinishedPrefix
  <2>6. completed[q] \in Nat
    BY <1>0 DEF Types, TypeOK
  <2>7. i \in Int /\ i > completed[q]
    BY <2>6 DEF Unfinished
  <2> QED
    BY <2>1, <2>2, <2>3, <2>5, <2>6, <2>7 DEF Collecting
<1> QED
  BY <1>1, <1>3, <1>4, <1>5, <1>8, <1>9, <1>10, <1>11, <1>12 DEF Collected

\* The lists' command buffers and the unfinished ones are left alone.
LEMMA CollectKeeps ==
  ASSUME VulkanQueueAssumption, NoneAssumption, OneThreadPerTracker, QueueInv,
         NEW t \in Threads, NEW tr \in Trackers, NEW finished, NEW n \in 0..Len(inFlight[tr]),
         Collecting(t, tr, finished, n), UNCHANGED <<listVars, gpuVars>>,
         \A u \in Threads : Todo(u)' = Todo(u) /\ (call[u].op = "execute" => call'[u] = call[u])
  PROVE  TodoOK' /\ BuffersApart' /\ RecordingsOK' /\ JobsInFlight'
<1>0. Types /\ TodoOK /\ BuffersApart /\ RecordingsOK /\ JobsInFlight
  BY DEF QueueInv
<1>1. PICK done : done = Elements(Collectable(tr, n))
  OBVIOUS
<1>2. Collected(tr, n, done)
  BY <1>1, CollectFacts
<1>3. phase' = phase /\ currentCmdBuf' = currentCmdBuf /\ openedAs' = openedAs
      /\ job' = job /\ completed' = completed
  BY DEF listVars, gpuVars
<1>4. \A ur \in Trackers : \A c : c \notin done /\ c \in Elements(inFlight[ur]) => c \in Elements(inFlight'[ur])
  BY <1>2 DEF Collected
<1>5. \A l \in Lists : phase[l] # "idle" =>
        /\ currentCmdBuf[l] \in CommandBuffers /\ cmd'[currentCmdBuf[l]] = cmd[currentCmdBuf[l]]
  <2>1. \A l \in Lists : phase[l] # "idle" => currentCmdBuf[l] \in CommandBuffers
    BY <1>0 DEF Types, TypeOK
  <2> QED
    BY <1>2, <2>1 DEF Collected
<1>6. TodoOK'
  <2>1. ASSUME NEW u \in Threads, NEW l \in Todo(u)
        PROVE  /\ phase'[l] = "submitted" /\ u \in Executors[l]
               /\ currentCmdBuf'[l] \in Elements(inFlight'[TrackerOf[l]])
               /\ cmd'[currentCmdBuf'[l]].submissionID = call'[u].id
    <3>1. l \in Lists /\ call[u].op = "execute" /\ call'[u] = call[u]
      BY <1>0, <2>1, TypeFacts
    <3>2. /\ phase[l] = "submitted" /\ u \in Executors[l]
          /\ currentCmdBuf[l] \in Elements(inFlight[TrackerOf[l]])
          /\ cmd[currentCmdBuf[l]].submissionID = call[u].id
      BY <1>0, <2>1 DEF TodoOK
    <3>3. TrackerOf[l] \in Trackers
      BY <3>1 DEF VulkanQueueAssumption
    <3>4. currentCmdBuf[l] \notin done
      BY <1>2, <3>1, <3>2 DEF Collected
    <3> QED
      BY <1>3, <1>4, <1>5, <3>1, <3>2, <3>3, <3>4
  <2> QED
    BY <1>0, <1>3, <2>1 DEF TodoOK
<1>7. BuffersApart'
  BY <1>0, <1>3 DEF BuffersApart
<1>8. RecordingsOK'
  BY <1>0, <1>3, <1>5 DEF RecordingsOK
<1>9. JobsInFlight'
  <2>1. \A q \in Queues : Unfinished(q)' = Unfinished(q)
    BY <1>3 DEF Unfinished
  <2>2. ASSUME NEW q \in Queues, NEW i \in Unfinished(q), NEW c \in job[q][i].cmds
        PROVE  /\ cmd'[c].submissionID = i
               /\ \E ur \in Trackers : QueueOf[ur] = q /\ c \in Elements(inFlight'[ur])
    <3>1. c \in CommandBuffers /\ c \notin done
      BY <1>0, <1>2, TypeFacts DEF Collected
    <3>2. cmd'[c] = cmd[c]
      BY <1>2, <3>1 DEF Collected
    <3>3. cmd[c].submissionID = i
      BY <1>0 DEF JobsInFlight
    <3>4. PICK ur \in Trackers : QueueOf[ur] = q /\ c \in Elements(inFlight[ur])
      BY <1>0 DEF JobsInFlight
    <3>5. c \in Elements(inFlight'[ur])
      BY <1>4, <3>1, <3>4
    <3> QED
      BY <3>2, <3>3, <3>4, <3>5
  <2> QED
    BY <1>3, <2>1, <2>2 DEF JobsInFlight
<1> QED
  BY <1>6, <1>7, <1>8, <1>9

\* Queue::runGarbageCollection: from the tracker to the pool.
LEMMA DeviceCollectKeeps ==
  ASSUME VulkanQueueAssumption, NoneAssumption, OneThreadPerTracker, QueueInv,
         NEW t \in Threads, NEW tr \in Trackers, DeviceCollect(t, tr)
  PROVE  QueueInv'
<1>0. Types /\ Numbers /\ PlacesOK /\ CollectsOwn
  BY DEF QueueInv
<1>1. PICK q \in Queues : q = QueueOf[tr]
  BY DEF VulkanQueueAssumption
<1>2. PICK finished \in {completed[q]} \cup BeingStored(t, q), n \in 0..Len(inFlight[tr]) :
        /\ StoreFinished(q, finished)
        /\ FinishedPrefix(tr, finished, n) /\ Collect(tr, n)
        /\ commandBuffersPool' = [commandBuffersPool EXCEPT ![q] = @ \o Collectable(tr, n)]
  BY <1>1 DEF DeviceCollect
<1>3. finished \in Nat /\ finished <= completed[q]
  BY <1>0, FinishedFacts
<1>4. call[t].op = "none" /\ t \in Collectors[tr]
      /\ UNCHANGED <<lastRecordingID, lastSubmittedID, listVars, call, hostVars, gpuVars>>
  BY DEF DeviceCollect, Idle
<1>5. Collecting(t, tr, finished, n)
  BY <1>1, <1>2, <1>3, <1>4 DEF Collecting
<1>6. PICK done : done = Elements(Collectable(tr, n))
  OBVIOUS
<1>7. /\ Collectable(tr, n) \in Seq(CommandBuffers) /\ Distinct(Collectable(tr, n))
      /\ done \subseteq Elements(inFlight[tr])
      /\ inFlight' \in [Trackers -> Seq(CommandBuffers)]
      /\ Elements(inFlight'[tr]) = Elements(inFlight[tr]) \ done /\ Distinct(inFlight'[tr])
      /\ \A ur \in Trackers : ur # tr => inFlight'[ur] = inFlight[ur]
      /\ cmd' \in [CommandBuffers -> Tracked]
  <2>1. Collected(tr, n, done)
    BY <1>5, <1>6, CollectFacts
  <2> QED
    BY <2>1 DEF Collected
<1>8. PICK pool \in Seq(CommandBuffers) : pool = commandBuffersPool[q]
  BY <1>0 DEF Types, TypeOK
<1>9. PICK released \in Seq(CommandBuffers) : released = Collectable(tr, n)
  BY <1>7
<1>10. Elements(pool) \cap done = {} /\ Distinct(pool)
  BY <1>0, <1>7, <1>8, ApartFacts DEF PlacesOK
<1>11. /\ pool \o released \in Seq(CommandBuffers) /\ Distinct(pool \o released)
       /\ Elements(pool \o released) = Elements(pool) \cup done
  <2>1. /\ pool \o released \in Seq(CommandBuffers)
        /\ Elements(pool \o released) = Elements(pool) \cup Elements(released)
        /\ Distinct(pool) /\ Distinct(released) /\ Elements(pool) \cap Elements(released) = {}
             => Distinct(pool \o released)
    BY JoinApart
  <2> QED
    BY <1>6, <1>7, <1>9, <1>10, <2>1
<1>12. PICK joined \in Seq(CommandBuffers) : joined = pool \o released
  BY <1>11
<1>13. /\ commandBuffersPool' \in [Queues -> Seq(CommandBuffers)]
       /\ \A p \in Queues : commandBuffersPool'[p] = IF p = q THEN joined ELSE commandBuffersPool[p]
  <2>1. commandBuffersPool' = [commandBuffersPool EXCEPT ![q] = joined]
    BY <1>2, <1>8, <1>9, <1>12
  <2> QED
    BY <1>0, <2>1 DEF Types, TypeOK
<1>14. /\ lastFinishedID' \in [Queues -> Nat]
       /\ \A p \in Queues : lastFinishedID'[p] <= completed[p]
  BY <1>0, <1>2, <1>3 DEF StoreFinished, Types, TypeOK, Numbers
<1>15. Types'
  <2>1. cmd' \in [CommandBuffers -> [recordingID : Nat, submissionID : Nat,
                                    refs : SUBSET Resources, staging : SUBSET Staging]]
    BY <1>7 DEF Tracked
  <2> QED
    BY <1>0, <1>4, <1>7, <1>13, <1>14, <2>1 DEF Types, TypeOK, CallsTyped, listVars, hostVars, gpuVars
<1>16. Numbers' /\ CollectsOwn'
  BY <1>0, <1>4, <1>14 DEF Numbers, CollectsOwn, gpuVars
<1>17. PlacesOK'
  <2>1. /\ <<"pool", q>> \in Places /\ <<"flight", tr>> \in Places
        /\ Contents[<<"flight", tr>>] = Elements(inFlight[tr])
        /\ Contents'[<<"flight", tr>>] = Elements(inFlight[tr]) \ done
        /\ Contents[<<"pool", q>>] = Elements(pool)
        /\ Contents'[<<"pool", q>>] = Elements(pool) \cup done
    <3>1. Elements(commandBuffersPool'[q]) = Elements(pool) \cup done
      BY <1>11, <1>12, <1>13
    <3>2. /\ Contents'[<<"flight", tr>>] = Elements(inFlight'[tr])
          /\ Contents'[<<"pool", q>>] = Elements(commandBuffersPool'[q])
      BY ContentsFacts DEF ContentsAt
    <3>3. /\ <<"pool", q>> \in Places /\ <<"flight", tr>> \in Places
          /\ Contents[<<"flight", tr>>] = Elements(inFlight[tr])
          /\ Contents[<<"pool", q>>] = Elements(pool)
      BY <1>8, ContentsFacts DEF ContentsAt
    <3> QED
      BY <1>7, <3>1, <3>2, <3>3
  <2>2. ASSUME NEW p \in Places, p # <<"pool", q>>, p # <<"flight", tr>> PROVE Contents'[p] = Contents[p]
    <3>0. ContentsAt /\ ContentsAt'
      BY ContentsFacts
    <3>1. ASSUME NEW r \in Queues, p = <<"pool", r>> PROVE Contents'[p] = Contents[p]
      <4>1. r # q /\ commandBuffersPool'[r] = commandBuffersPool[r]
        BY <1>13, <2>2, <3>1
      <4> QED
        BY <3>0, <3>1, <4>1 DEF ContentsAt
    <3>2. ASSUME NEW ur \in Trackers, p = <<"flight", ur>> PROVE Contents'[p] = Contents[p]
      <4>1. ur # tr /\ inFlight'[ur] = inFlight[ur]
        BY <1>7, <2>2, <3>2
      <4> QED
        BY <3>0, <3>2, <4>1 DEF ContentsAt
    <3>3. ASSUME NEW k \in Lists, p = <<"list", k>> PROVE Contents'[p] = Contents[p]
      <4>1. Current(k)' = Current(k)
        BY <1>4 DEF Current, listVars
      <4> QED
        BY <3>0, <3>3, <4>1 DEF ContentsAt
    <3>4. ASSUME NEW u \in Threads, p = <<"return", u>> PROVE Contents'[p] = Contents[p]
      <4>1. Returned(u)' = Returned(u)
        BY <1>4 DEF Returned
      <4> QED
        BY <3>0, <3>4, <4>1 DEF ContentsAt
    <3> QED
      BY <3>1, <3>2, <3>3, <3>4, PlaceCases
  <2>3. Apart(Contents) /\ Created(Contents)
    BY <1>0 DEF PlacesOK
  <2>4. PICK m : m = [c \in done |-> <<"pool", q>>]
    OBVIOUS
  <2>5. ASSUME NEW p \in Places, NEW c \in Contents'[p]
        PROVE  IF c \in done THEN m[c] = p ELSE c \in Contents[p]
    <3>1. CASE p = <<"pool", q>>
      BY <2>1, <2>4, <2>5, <3>1
    <3>2. CASE p = <<"flight", tr>>
      BY <2>1, <2>5, <3>2
    <3>3. CASE p # <<"pool", q>> /\ p # <<"flight", tr>>
      <4>1. c \in Contents[p] /\ c \notin Contents[<<"flight", tr>>]
        BY <2>1, <2>2, <2>3, <2>5, <3>3 DEF Apart
      <4> QED
        BY <1>7, <2>1, <4>1
    <3> QED
      BY <3>1, <3>2, <3>3
  <2>6. \A c \in done : c \in CommandBuffers /\ c[2] <= lastRecordingID'[c[1]]
    BY <1>4, <1>7, <2>1, <2>3 DEF Created
  <2>7. Moved(done, m)
    BY <1>4, <2>5, <2>6 DEF Moved
  <2>8. Apart(Contents)' /\ Created(Contents)'
    BY <2>3, <2>7, ContentsMoved
  <2>9. \A p \in Queues : Distinct(commandBuffersPool'[p])
    BY <1>0, <1>11, <1>12, <1>13 DEF PlacesOK
  <2>10. \A ur \in Trackers : Distinct(inFlight'[ur])
    BY <1>0, <1>7 DEF PlacesOK
  <2> QED
    BY <2>8, <2>9, <2>10 DEF PlacesOK
<1>18. TodoOK' /\ BuffersApart' /\ RecordingsOK' /\ JobsInFlight'
  <2>1. \A u \in Threads : Todo(u)' = Todo(u) /\ (call[u].op = "execute" => call'[u] = call[u])
    BY <1>4 DEF Todo
  <2> QED
    BY <1>4, <1>5, <2>1, CollectKeeps
<1> QED
  BY <1>15, <1>16, <1>17, <1>18 DEF QueueInv

\* An application's tracker: into the hands of the thread that collects it.
LEMMA TrackerReleaseKeeps ==
  ASSUME VulkanQueueAssumption, NoneAssumption, OneThreadPerTracker, QueueInv,
         NEW t \in Threads, TrackerRelease(t)
  PROVE  QueueInv'
<1>0. Types /\ Numbers /\ PlacesOK /\ CollectsOwn
  BY DEF QueueInv
<1>1. PICK tr \in Trackers : tr = call[t].for
  BY DEF TrackerRelease
<1>2. PICK q \in Queues : q = call[t].queue
  BY <1>0 DEF TrackerRelease, Types, CallsTyped
<1>3. call[t].op = "update" /\ t \in Collectors[tr] /\ q = QueueOf[tr]
  BY <1>0, <1>1, <1>2 DEF TrackerRelease, CollectsOwn
<1>4. PICK finished \in {call[t].value} \cup BeingStored(t, q), n \in 0..Len(inFlight[tr]) :
        /\ StoreFinished(q, finished)
        /\ FinishedPrefix(tr, finished, n) /\ Collect(tr, n)
        /\ call' = [call EXCEPT ![t] =
              IF n = 0 THEN Idle
              ELSE [op |-> "return", queue |-> q, released |-> Collectable(tr, n)]]
  <2>1. PICK finished \in {call[t].value} \cup BeingStored(t, call[t].queue),
             n \in 0..Len(inFlight[call[t].for]) :
          /\ StoreFinished(call[t].queue, finished)
          /\ FinishedPrefix(call[t].for, finished, n) /\ Collect(call[t].for, n)
          /\ call' = [call EXCEPT ![t] =
                IF n = 0 THEN Idle
                ELSE [op |-> "return", queue |-> QueueOf[call[t].for],
                      released |-> Collectable(call[t].for, n)]]
    BY DEF TrackerRelease
  <2>2. finished \in {call[t].value} \cup BeingStored(t, q) /\ n \in 0..Len(inFlight[tr])
    BY <1>1, <1>2, <2>1
  <2>3. StoreFinished(q, finished) /\ FinishedPrefix(tr, finished, n)
    BY <1>1, <1>2, <2>1 DEF StoreFinished
  <2>4. Collect(tr, n)
    BY <1>1, <2>1 DEF Collect
  <2>5. call' = [call EXCEPT ![t] =
              IF n = 0 THEN Idle
              ELSE [op |-> "return", queue |-> q, released |-> Collectable(tr, n)]]
    BY <1>1, <1>3, <2>1
  <2> QED
    BY <2>2, <2>3, <2>4, <2>5
<1>5. finished \in Nat /\ finished <= completed[q]
  BY <1>0, <1>2, <1>3, <1>4, FinishedFacts
<1>6. UNCHANGED <<lastRecordingID, lastSubmittedID, commandBuffersPool, listVars, hostVars, gpuVars>>
  BY DEF TrackerRelease
<1>7. Collecting(t, tr, finished, n)
  BY <1>3, <1>4, <1>5 DEF Collecting
<1>8. PICK done : done = Elements(Collectable(tr, n))
  OBVIOUS
<1>9. Collected(tr, n, done)
  BY <1>7, <1>8, CollectFacts
<1>10. PICK released \in Seq(CommandBuffers) :
         released = Collectable(tr, n) /\ Distinct(released) /\ Len(released) = n /\ Elements(released) = done
  BY <1>8, <1>9 DEF Collected
<1>11. /\ DOMAIN call' = Threads /\ \A u \in Threads : u # t => call'[u] = call[u]
       /\ call'[t] = IF n = 0 THEN Idle ELSE [op |-> "return", queue |-> q, released |-> released]
  BY <1>0, <1>4, <1>10 DEF Types
<1>12. /\ call'[t].op \in {"none", "return"}
       /\ call'[t].op = "return" => call'[t].queue = q /\ call'[t].released = released
       /\ Returned(t)' = done
  <2>1. CASE n = 0
    <3>1. released = <<>>
      BY <1>10, <2>1
    <3> QED
      BY <1>10, <1>11, <2>1, <3>1, EmptyFacts DEF Returned, Idle
  <2>2. CASE n # 0
    BY <1>10, <1>11, <2>2 DEF Returned
  <2> QED
    BY <2>1, <2>2
<1>13. \A u \in Threads : Todo(u)' = Todo(u) /\ (call[u].op = "execute" => call'[u] = call[u])
  BY <1>3, <1>11, <1>12 DEF Todo
<1>14. /\ lastFinishedID' \in [Queues -> Nat]
       /\ \A p \in Queues : lastFinishedID'[p] <= completed[p]
  BY <1>0, <1>4, <1>5 DEF StoreFinished, Types, TypeOK, Numbers
<1>15. Types'
  <2>1. cmd' \in [CommandBuffers -> [recordingID : Nat, submissionID : Nat,
                                    refs : SUBSET Resources, staging : SUBSET Staging]]
        /\ inFlight' \in [Trackers -> Seq(CommandBuffers)]
    BY <1>9 DEF Tracked, Collected
  <2>2. CallsTyped'
    BY <1>0, <1>10, <1>11, <1>12, ZenonT(40) DEF Types, CallsTyped
  <2>3. \A u \in Threads : call'[u].op \in {"none", "execute", "update", "wait", "return"}
    BY <1>0, <1>11, <1>12 DEF Types, TypeOK
  <2> QED
    BY <1>0, <1>6, <1>11, <1>14, <2>1, <2>2, <2>3 DEF Types, TypeOK, listVars, hostVars, gpuVars
<1>16. Numbers' /\ CollectsOwn'
  BY <1>0, <1>6, <1>11, <1>12, <1>14, ZenonT(40) DEF Numbers, CollectsOwn, gpuVars
<1>17. PlacesOK'
  <2>1. /\ <<"return", t>> \in Places /\ <<"flight", tr>> \in Places
        /\ Contents[<<"flight", tr>>] = Elements(inFlight[tr])
        /\ Contents'[<<"flight", tr>>] = Elements(inFlight[tr]) \ done
        /\ Contents'[<<"return", t>>] = done
    <3>1. /\ Contents'[<<"flight", tr>>] = Elements(inFlight'[tr])
          /\ Contents'[<<"return", t>>] = Returned(t)'
      BY ContentsFacts DEF ContentsAt
    <3>2. /\ <<"return", t>> \in Places /\ <<"flight", tr>> \in Places
          /\ Contents[<<"flight", tr>>] = Elements(inFlight[tr])
      BY ContentsFacts DEF ContentsAt
    <3>3. Elements(inFlight'[tr]) = Elements(inFlight[tr]) \ done
      BY <1>9 DEF Collected
    <3> QED
      BY <1>12, <3>1, <3>2, <3>3
  <2>2. ASSUME NEW p \in Places, p # <<"return", t>>, p # <<"flight", tr>> PROVE Contents'[p] = Contents[p]
    <3>0. ContentsAt /\ ContentsAt'
      BY ContentsFacts
    <3>1. ASSUME NEW r \in Queues, p = <<"pool", r>> PROVE Contents'[p] = Contents[p]
      BY <1>6, <3>0, <3>1 DEF ContentsAt
    <3>2. ASSUME NEW ur \in Trackers, p = <<"flight", ur>> PROVE Contents'[p] = Contents[p]
      <4>1. ur # tr /\ inFlight'[ur] = inFlight[ur]
        BY <1>9, <2>2, <3>2 DEF Collected
      <4> QED
        BY <3>0, <3>2, <4>1 DEF ContentsAt
    <3>3. ASSUME NEW k \in Lists, p = <<"list", k>> PROVE Contents'[p] = Contents[p]
      <4>1. Current(k)' = Current(k)
        BY <1>6 DEF Current, listVars
      <4> QED
        BY <3>0, <3>3, <4>1 DEF ContentsAt
    <3>4. ASSUME NEW u \in Threads, p = <<"return", u>> PROVE Contents'[p] = Contents[p]
      <4>1. u # t /\ Returned(u)' = Returned(u)
        BY <1>11, <2>2, <3>4 DEF Returned
      <4> QED
        BY <3>0, <3>4, <4>1 DEF ContentsAt
    <3> QED
      BY <3>1, <3>2, <3>3, <3>4, PlaceCases
  <2>3. Apart(Contents) /\ Created(Contents)
    BY <1>0 DEF PlacesOK
  <2>4. PICK m : m = [c \in done |-> <<"return", t>>]
    OBVIOUS
  <2>5. ASSUME NEW p \in Places, NEW c \in Contents'[p]
        PROVE  IF c \in done THEN m[c] = p ELSE c \in Contents[p]
    <3>1. CASE p = <<"return", t>>
      BY <2>1, <2>4, <2>5, <3>1
    <3>2. CASE p = <<"flight", tr>>
      BY <2>1, <2>5, <3>2
    <3>3. CASE p # <<"return", t>> /\ p # <<"flight", tr>>
      <4>1. c \in Contents[p] /\ c \notin Contents[<<"flight", tr>>]
        BY <2>1, <2>2, <2>3, <2>5, <3>3 DEF Apart
      <4> QED
        BY <1>9, <2>1, <4>1 DEF Collected
    <3> QED
      BY <3>1, <3>2, <3>3
  <2>6. done \subseteq Elements(inFlight[tr])
    BY <1>9 DEF Collected
  <2>7. \A c \in done : c \in CommandBuffers /\ c[2] <= lastRecordingID'[c[1]]
    BY <1>6, <2>1, <2>3, <2>6 DEF Created
  <2>8. Moved(done, m)
    BY <1>6, <2>5, <2>7 DEF Moved
  <2>9. Apart(Contents)' /\ Created(Contents)'
    BY <2>3, <2>8, ContentsMoved
  <2>10. \A ur \in Trackers : Distinct(inFlight'[ur])
    BY <1>0, <1>9 DEF PlacesOK, Collected
  <2> QED
    BY <1>0, <1>6, <2>9, <2>10 DEF PlacesOK
<1>18. TodoOK' /\ BuffersApart' /\ RecordingsOK' /\ JobsInFlight'
  BY <1>6, <1>7, <1>13, CollectKeeps
<1> QED
  BY <1>15, <1>16, <1>17, <1>18 DEF QueueInv

\* The list's command buffer, and nothing else, has been put in flight.
Pushed(before, after, l) ==
    /\ after \in [Trackers -> Seq(CommandBuffers)]
    /\ \A tr \in Trackers :
         /\ Distinct(after[tr])
         /\ \A c : c \in Elements(after[tr]) <=>
              c \in Elements(before[tr]) \/ (tr = TrackerOf[l] /\ c = currentCmdBuf[l])

\* A command buffer that is nowhere in flight is, after it is pushed, in its tracker.
LEMMA PushFacts ==
  ASSUME VulkanQueueAssumption, NEW flight \in [Trackers -> Seq(CommandBuffers)], NEW l \in Lists,
         currentCmdBuf[l] \in CommandBuffers,
         \A tr \in Trackers : Distinct(flight[tr]) /\ currentCmdBuf[l] \notin Elements(flight[tr])
  PROVE  Pushed(flight, Push(flight, l), l)
<1>1. PICK ur \in Trackers : ur = TrackerOf[l]
  BY DEF VulkanQueueAssumption
<1>2. PICK c \in CommandBuffers : c = currentCmdBuf[l]
  OBVIOUS
<1>3. PICK s \in Seq(CommandBuffers) : s = flight[ur]
  OBVIOUS
<1>4. /\ Append(s, c) \in Seq(CommandBuffers) /\ Elements(Append(s, c)) = Elements(s) \cup {c}
      /\ Distinct(s) /\ c \notin Elements(s) => Distinct(Append(s, c))
  BY AppendApart
<1>5. PICK longer \in Seq(CommandBuffers) : longer = Append(s, c)
  BY <1>4
<1>6. Push(flight, l) = [flight EXCEPT ![ur] = longer]
  BY <1>1, <1>2, <1>3, <1>5 DEF Push
<1>7. Distinct(longer) /\ Elements(longer) = Elements(flight[ur]) \cup {c}
  BY <1>2, <1>3, <1>4, <1>5
<1>8. PICK after : after = [flight EXCEPT ![ur] = longer]
  OBVIOUS
<1>9. after \in [Trackers -> Seq(CommandBuffers)] /\ after[ur] = longer
  BY <1>8
<1>10. \A tr \in Trackers : tr # ur => after[tr] = flight[tr]
  BY <1>8
<1>11. ASSUME NEW tr \in Trackers
       PROVE  /\ Distinct(after[tr])
              /\ \A x : x \in Elements(after[tr]) <=>
                   x \in Elements(flight[tr]) \/ (tr = TrackerOf[l] /\ x = currentCmdBuf[l])
  <2>1. CASE tr = ur
    BY <1>1, <1>2, <1>7, <1>9, <2>1
  <2>2. CASE tr # ur
    BY <1>1, <1>10, <2>2
  <2> QED
    BY <2>1, <2>2
<1>12. Pushed(flight, after, l)
  BY <1>9, <1>11 DEF Pushed
<1> QED
  BY <1>6, <1>8, <1>12

\* The lists of a batch with their command buffers, and the trackers they go to.
Submitting(t, ls, q, cmds) ==
    /\ \A l \in Elements(ls) : /\ l \in Lists /\ phase[l] = "closed" /\ QueueOf[l] = q
                               /\ t \in Executors[l] /\ currentCmdBuf[l] \in cmds
    /\ cmds \subseteq CommandBuffers
    /\ \A c \in cmds : \E l \in Elements(ls) : c = currentCmdBuf[l]
    /\ \A c \in cmds : \A l \in Lists : l \notin Elements(ls) => c # currentCmdBuf[l]
    /\ \A c \in cmds : \A p \in Places : p[1] # "list" => c \notin Contents[p]
    /\ \A tr \in Trackers : Elements(inFlight[tr]) \cap cmds = {}
    /\ inFlight' \in [Trackers -> Seq(CommandBuffers)]
    /\ \A tr \in Trackers :
         /\ Distinct(inFlight'[tr])
         /\ \A c : c \in Elements(inFlight'[tr]) <=>
              \/ c \in Elements(inFlight[tr])
              \/ \E l \in Elements(ls) : tr = TrackerOf[l] /\ c = currentCmdBuf[l]

\* What submit() moves into flight was a closed list's alone.
LEMMA SubmitFacts ==
  ASSUME VulkanQueueAssumption, NoneAssumption, QueueInv, NEW t \in Threads, NEW ls \in Batches,
         Submit(t, ls), NEW cmds, cmds = {currentCmdBuf[l] : l \in Elements(ls)}
  PROVE  Submitting(t, ls, QueueOf[ls[1]], cmds)
<1>0. Types /\ PlacesOK /\ TodoOK /\ BuffersApart
  BY DEF QueueInv
<1>1. /\ ls \in Seq(Lists) /\ ls # <<>> /\ Distinct(ls) /\ ls[1] \in Lists
      /\ \/ Len(ls) = 1 /\ Elements(ls) = {ls[1]}
         \/ Len(ls) = 2 /\ ls[2] \in Lists /\ ls[1] # ls[2] /\ Elements(ls) = {ls[1], ls[2]}
  BY BatchFacts
<1>2. \A l \in Elements(ls) : /\ l \in Lists /\ phase[l] = "closed" /\ QueueOf[l] = QueueOf[ls[1]]
                              /\ t \in Executors[l]
  <2>1. MayExecute(t, ls, QueueOf[ls[1]], UNION {accesses[l] : l \in Elements(ls)})
    BY DEF Submit
  <2>2. \A l \in Elements(ls) : l \in Lists
    BY <1>1
  <2> QED
    BY <2>1, <2>2 DEF MayExecute
<1>3. \A l \in Elements(ls) : currentCmdBuf[l] \in CommandBuffers /\ currentCmdBuf[l] # None
  <2>1. \A l \in Elements(ls) : currentCmdBuf[l] \in CommandBuffers
    BY <1>0, <1>2 DEF Types, TypeOK
  <2> QED
    BY <2>1, CommandBufferFacts
<1>4. \A c \in cmds : \E l \in Elements(ls) : c = currentCmdBuf[l]
  OBVIOUS
<1>5. \A l \in Elements(ls), k \in Lists : k # l => currentCmdBuf[l] # currentCmdBuf[k]
  BY <1>0, <1>2, <1>3 DEF BuffersApart
<1>6. ASSUME NEW l \in Elements(ls), NEW p \in Places, p[1] # "list" PROVE currentCmdBuf[l] \notin Contents[p]
  <2>1. <<"list", l>> \in Places /\ Contents[<<"list", l>>] = {currentCmdBuf[l]}
    BY <1>2, ContentsFacts DEF ContentsAt, Current, Recorded
  <2>2. p # <<"list", l>>
    BY <1>6
  <2> QED
    BY <1>0, <2>1, <2>2 DEF PlacesOK, Apart
<1>7. \A l \in Elements(ls) : \A tr \in Trackers : currentCmdBuf[l] \notin Elements(inFlight[tr])
  <2>1. ContentsAt
    BY ContentsFacts
  <2>2. ASSUME NEW l \in Elements(ls), NEW tr \in Trackers PROVE currentCmdBuf[l] \notin Elements(inFlight[tr])
    <3>1. PICK p \in Places : p = <<"flight", tr>> /\ Contents[p] = Elements(inFlight[tr])
      BY <2>1 DEF ContentsAt
    <3>2. p[1] # "list"
      BY <3>1
    <3> QED
      BY <1>6, <3>1, <3>2
  <2> QED
    BY <2>2
<1>8. /\ inFlight' \in [Trackers -> Seq(CommandBuffers)]
      /\ \A tr \in Trackers :
           /\ Distinct(inFlight'[tr])
           /\ \A c : c \in Elements(inFlight'[tr]) <=>
                \/ c \in Elements(inFlight[tr])
                \/ \E l \in Elements(ls) : tr = TrackerOf[l] /\ c = currentCmdBuf[l]
  <2>0. inFlight' = PushAll(ls)
    BY DEF Submit
  <2>1. inFlight \in [Trackers -> Seq(CommandBuffers)] /\ \A tr \in Trackers : Distinct(inFlight[tr])
    BY <1>0 DEF Types, TypeOK, PlacesOK
  <2>2. ls[1] \in Elements(ls)
    BY <1>1
  <2>3. PICK first : first = Push(inFlight, ls[1])
    OBVIOUS
  <2>4. Pushed(inFlight, first, ls[1])
    <3>1. PICK l \in Lists : l = ls[1] /\ l \in Elements(ls)
      BY <1>1, <2>2
    <3>2. currentCmdBuf[l] \in CommandBuffers
      BY <1>3, <3>1
    <3>3. \A tr \in Trackers : Distinct(inFlight[tr]) /\ currentCmdBuf[l] \notin Elements(inFlight[tr])
      BY <1>7, <2>1, <3>1
    <3>4. Pushed(inFlight, Push(inFlight, l), l)
      BY <2>1, <3>2, <3>3, PushFacts
    <3> QED
      BY <2>3, <3>1, <3>4
  <2>5. CASE Len(ls) = 1 /\ Elements(ls) = {ls[1]}
    <3>1. inFlight' = first
      BY <2>0, <2>3, <2>5 DEF PushAll
    <3> QED
      BY <2>4, <2>5, <3>1 DEF Pushed
  <2>6. CASE Len(ls) = 2 /\ ls[2] \in Lists /\ ls[1] # ls[2] /\ Elements(ls) = {ls[1], ls[2]}
    <3>1. inFlight' = Push(first, ls[2])
      BY <2>0, <2>3, <2>6 DEF PushAll
    <3>2. PICK l \in Lists : l = ls[2] /\ l \in Elements(ls) /\ l # ls[1]
      BY <2>6
    <3>3. currentCmdBuf[l] \in CommandBuffers /\ currentCmdBuf[l] # currentCmdBuf[ls[1]]
      BY <1>1, <1>3, <1>5, <3>2
    <3>4. first \in [Trackers -> Seq(CommandBuffers)]
      BY <2>4 DEF Pushed
    <3>5. \A tr \in Trackers : Distinct(first[tr]) /\ currentCmdBuf[l] \notin Elements(first[tr])
      BY <1>7, <2>4, <3>2, <3>3 DEF Pushed
    <3>6. Pushed(first, Push(first, l), l)
      BY <3>3, <3>4, <3>5, PushFacts
    <3>7. Pushed(first, inFlight', ls[2])
      BY <3>1, <3>2, <3>6
    <3>8. \A tr \in Trackers : \A c : c \in Elements(inFlight'[tr]) <=>
            \/ c \in Elements(inFlight[tr])
            \/ tr = TrackerOf[ls[1]] /\ c = currentCmdBuf[ls[1]]
            \/ tr = TrackerOf[ls[2]] /\ c = currentCmdBuf[ls[2]]
      BY <2>4, <3>7 DEF Pushed
    <3>9. inFlight' \in [Trackers -> Seq(CommandBuffers)] /\ \A tr \in Trackers : Distinct(inFlight'[tr])
      BY <3>7 DEF Pushed
    <3> QED
      BY <2>6, <3>8, <3>9
  <2> QED
    BY <1>1, <2>5, <2>6
<1>9. \A c \in cmds : \A l \in Lists : l \notin Elements(ls) => c # currentCmdBuf[l]
  BY <1>4, <1>5
<1> QED
  BY <1>2, <1>3, <1>4, <1>6, <1>7, <1>8, <1>9 DEF Submitting

\* Queue::submit: from the lists into flight.
LEMMA SubmitKeeps ==
  ASSUME VulkanQueueAssumption, NoneAssumption, QueueInv, NEW t \in Threads, NEW ls \in Batches,
         Submit(t, ls)
  PROVE  QueueInv'
<1>0. Types /\ Numbers /\ PlacesOK /\ TodoOK /\ CollectsOwn /\ BuffersApart /\ RecordingsOK /\ JobsInFlight
  BY DEF QueueInv
<1>1. /\ ls \in Seq(Lists) /\ ls # <<>> /\ Distinct(ls) /\ ls[1] \in Lists
      /\ ls[1] \in Elements(ls)
  BY BatchFacts
<1>2. PICK q \in Queues : q = QueueOf[ls[1]]
  BY <1>1 DEF VulkanQueueAssumption
<1>3. PICK id : id = lastSubmittedID[q] + 1
  OBVIOUS
<1>4. PICK cmds : cmds = {currentCmdBuf[l] : l \in Elements(ls)}
  OBVIOUS
<1>5. PICK used : used = UNION {accesses[l] : l \in Elements(ls)}
  OBVIOUS
<1>6. Submitting(t, ls, q, cmds)
  BY <1>2, <1>4, SubmitFacts
<1>7. /\ lastSubmittedID' = [lastSubmittedID EXCEPT ![q] = id]
      /\ cmd' = [c \in CommandBuffers |->
              IF c \in cmds THEN [cmd[c] EXCEPT !.submissionID = id] ELSE cmd[c]]
      /\ use' = [x \in DOMAIN use |->
              IF \E c \in cmds : x \in cmd[c].staging THEN LastUse(q, id) ELSE use[x]]
      /\ job' = [job EXCEPT ![q] = Append(@, [used |-> used, cmds |-> cmds])]
      /\ phase' = [l \in Lists |-> IF l \in Elements(ls) THEN "submitted" ELSE phase[l]]
      /\ call' = [call EXCEPT ![t] = [op |-> "execute", todo |-> ls, id |-> id]]
      /\ UNCHANGED <<lastRecordingID, lastFinishedID, commandBuffersPool,
                     currentCmdBuf, openedAs, accesses, held, answered, completed>>
  BY <1>2, <1>3, <1>4, <1>5 DEF Submit
<1>8. call[t] = Idle
  BY DEF Submit, MayExecute
<1>9. id \in Nat /\ id = Len(job[q]) + 1 /\ id > completed[q]
      /\ lastSubmittedID' \in [Queues -> Nat]
      /\ lastSubmittedID'[q] = id /\ \A p \in Queues : p # q => lastSubmittedID'[p] = lastSubmittedID[p]
  BY <1>0, <1>3, <1>7 DEF Types, TypeOK, Numbers
<1> DEFINE Jobs == [used : SUBSET Resources, cmds : SUBSET CommandBuffers]
<1>10. PICK new \in Jobs : new = [used |-> used, cmds |-> cmds] /\ new.cmds = cmds
  <2>1. used \subseteq Resources
    <3>1. \A l \in Elements(ls) : accesses[l] \subseteq Resources
      BY <1>0, <1>6 DEF Types, TypeOK, Submitting
    <3> QED
      BY <1>5, <3>1
  <2>2. cmds \subseteq CommandBuffers
    BY <1>6 DEF Submitting
  <2>3. [used |-> used, cmds |-> cmds] \in Jobs /\ [used |-> used, cmds |-> cmds].cmds = cmds
    BY <2>1, <2>2
  <2> HIDE DEF Jobs
  <2> QED
    BY <2>3
<1> HIDE DEF Jobs
<1>11. /\ job \in [Queues -> Seq(Jobs)] /\ job' \in [Queues -> Seq(Jobs)]
       /\ Len(job'[q]) = id /\ job'[q][id] = new
       /\ \A i \in 1..Len(job[q]) : job'[q][i] = job[q][i]
       /\ \A p \in Queues : p # q => job'[p] = job[p]
  <2>1. job \in [Queues -> Seq(Jobs)]
    BY <1>0 DEF Types, TypeOK, Jobs
  <2>2. PICK s \in Seq(Jobs) : s = job[q]
    BY <2>1
  <2>3. PICK longer \in Seq(Jobs) : longer = Append(s, new)
    <3>1. Append(s, new) \in Seq(Jobs)
      OBVIOUS
    <3> QED
      BY <3>1
  <2>4. job' = [job EXCEPT ![q] = longer]
    BY <1>7, <1>10, <2>2, <2>3
  <2>5. Len(longer) = Len(s) + 1 /\ longer[Len(s) + 1] = new /\ \A i \in 1..Len(s) : longer[i] = s[i]
    BY <2>3
  <2>6. job' \in [Queues -> Seq(Jobs)] /\ job'[q] = longer /\ \A p \in Queues : p # q => job'[p] = job[p]
    BY <2>1, <2>4
  <2> QED
    BY <1>9, <2>1, <2>2, <2>5, <2>6
<1>12. /\ DOMAIN call' = Threads /\ \A u \in Threads : u # t => call'[u] = call[u]
       /\ call'[t] = [op |-> "execute", todo |-> ls, id |-> id]
  BY <1>0, <1>7 DEF Types
<1>13. call'[t].op = "execute" /\ call'[t].todo = ls /\ call'[t].id = id
  BY <1>12
<1>14. /\ cmd \in [CommandBuffers -> Tracked] /\ cmd' \in [CommandBuffers -> Tracked]
       /\ \A c \in CommandBuffers : /\ cmd'[c].recordingID = cmd[c].recordingID
                                    /\ c \in cmds => cmd'[c].submissionID = id
                                    /\ c \notin cmds => cmd'[c] = cmd[c]
  <2>1. cmd \in [CommandBuffers -> Tracked]
    BY <1>0 DEF Types, TypeOK, Tracked
  <2>2. ASSUME NEW c \in CommandBuffers
        PROVE  LET marked == [cmd[c] EXCEPT !.submissionID = id]
               IN  marked \in Tracked /\ marked.submissionID = id /\ marked.recordingID = cmd[c].recordingID
    <3>1. PICK old \in Tracked : old = cmd[c]
      BY <2>1
    <3> DEFINE m == [old EXCEPT !.submissionID = id]
    <3>2. m \in Tracked /\ m.submissionID = id /\ m.recordingID = old.recordingID
      BY <1>9 DEF Tracked
    <3>3. [cmd[c] EXCEPT !.submissionID = id] = m
      BY <3>1
    <3> HIDE DEF m
    <3> QED
      BY <3>1, <3>2, <3>3
  <2>3. \A c \in CommandBuffers :
          cmd'[c] = IF c \in cmds THEN [cmd[c] EXCEPT !.submissionID = id] ELSE cmd[c]
    BY <1>7
  <2>4. cmd' \in [CommandBuffers -> Tracked]
    BY <1>7, <2>1, <2>2
  <2> QED
    BY <2>1, <2>2, <2>3, <2>4
<1>15. \A k \in Lists : phase'[k] = IF k \in Elements(ls) THEN "submitted" ELSE phase[k]
  BY <1>7
<1>16. /\ use' \in [Staging \cup Events -> [queue : Queues \cup {None}, id : Nat]]
       /\ \A x \in Staging \cup Events : use'[x].id # 0 => use'[x].queue \in Queues
  <2>1. PICK last \in [queue : Queues \cup {None}, id : Nat] : last = LastUse(q, id) /\ last.queue \in Queues
    <3>1. LastUse(q, id) \in [queue : Queues \cup {None}, id : Nat] /\ LastUse(q, id).queue \in Queues
      BY <1>9 DEF LastUse
    <3> QED
      BY <3>1
  <2>2. use \in [Staging \cup Events -> [queue : Queues \cup {None}, id : Nat]]
    BY <1>0 DEF Types, TypeOK
  <2>3. use' = [x \in Staging \cup Events |->
              IF \E c \in cmds : x \in cmd[c].staging THEN last ELSE use[x]]
    BY <1>7, <2>1, <2>2
  <2>4. \A x \in Staging \cup Events : use'[x] = last \/ use'[x] = use[x]
    BY <2>3
  <2> QED
    BY <1>0, <2>1, <2>2, <2>3, <2>4 DEF Types
<1>17. Types'
  <2>1. cmd' \in [CommandBuffers -> [recordingID : Nat, submissionID : Nat,
                                    refs : SUBSET Resources, staging : SUBSET Staging]]
    BY <1>14 DEF Tracked
  <2>2. inFlight' \in [Trackers -> Seq(CommandBuffers)]
    BY <1>6 DEF Submitting
  <2>3. /\ phase' \in [Lists -> {"idle", "open", "closed", "submitted"}]
        /\ \A l \in Lists : currentCmdBuf'[l] = None <=> phase'[l] = "idle"
    <3>1. phase \in [Lists -> {"idle", "open", "closed", "submitted"}]
          /\ \A l \in Lists : currentCmdBuf[l] = None <=> phase[l] = "idle"
      BY <1>0 DEF Types, TypeOK
    <3>2. \A l \in Elements(ls) : phase[l] = "closed"
      BY <1>6 DEF Submitting
    <3> QED
      BY <1>7, <1>15, <3>1, <3>2
  <2>4. CallsTyped'
    BY <1>0, <1>1, <1>9, <1>12, <1>13, ZenonT(40) DEF Types, CallsTyped
  <2>5. \A u \in Threads : call'[u].op \in {"none", "execute", "update", "wait", "return"}
    BY <1>0, <1>12, <1>13 DEF Types, TypeOK
  <2>6. job' \in [Queues -> Seq([used : SUBSET Resources, cmds : SUBSET CommandBuffers])]
    BY <1>11 DEF Jobs
  <2> QED
    BY <1>0, <1>7, <1>9, <1>12, <1>16, <2>1, <2>2, <2>3, <2>4, <2>5, <2>6 DEF Types, TypeOK
<1>18. Numbers' /\ CollectsOwn'
  <2>1. ASSUME NEW p \in Queues
        PROVE  /\ lastSubmittedID'[p] = Len(job'[p]) /\ completed'[p] <= Len(job'[p])
               /\ lastFinishedID'[p] <= completed'[p]
    <3>1. lastSubmittedID[p] = Len(job[p]) /\ completed[p] <= Len(job[p]) /\ lastFinishedID[p] <= completed[p]
          /\ completed' = completed /\ lastFinishedID' = lastFinishedID /\ completed[p] \in Nat
      BY <1>0, <1>7 DEF Numbers, Types, TypeOK
    <3>2. CASE p = q
      BY <1>9, <1>11, <3>1, <3>2
    <3>3. CASE p # q
      BY <1>9, <1>11, <3>1, <3>3
    <3> QED
      BY <3>2, <3>3
  <2>2. \A u \in Threads : call'[u].op = "update" => u # t /\ call'[u] = call[u]
    BY <1>12, <1>13
  <2>3. completed' = completed
    BY <1>7
  <2> QED
    BY <1>0, <2>1, <2>2, <2>3 DEF Numbers, CollectsOwn
<1>19. PlacesOK'
  <2>0. ContentsAt /\ ContentsAt'
    BY ContentsFacts
  <2>1. PICK owner : owner = [c \in cmds |-> CHOOSE l \in Elements(ls) : c = currentCmdBuf[l]]
    OBVIOUS
  <2>2. \A l \in Elements(ls) : owner[currentCmdBuf[l]] = l
    <3>1. \A l \in Elements(ls), k \in Elements(ls) : currentCmdBuf[k] = currentCmdBuf[l] => k = l
      <4>1. \A l \in Elements(ls) : l \in Lists /\ currentCmdBuf[l] # None
        BY <1>6, CommandBufferFacts DEF Submitting
      <4> QED
        BY <1>0, <4>1 DEF BuffersApart
    <3>2. ASSUME NEW l \in Elements(ls) PROVE owner[currentCmdBuf[l]] = l
      <4>1. currentCmdBuf[l] \in cmds
        BY <1>4
      <4>2. PICK k : k = owner[currentCmdBuf[l]]
        OBVIOUS
      <4>3. k = CHOOSE j \in Elements(ls) : currentCmdBuf[l] = currentCmdBuf[j]
        BY <2>1, <4>1, <4>2
      <4>4. k \in Elements(ls) /\ currentCmdBuf[l] = currentCmdBuf[k]
        BY <4>3
      <4> QED
        BY <3>1, <4>2, <4>4
    <3> QED
      BY <3>2
  <2>3. PICK m : m = [c \in cmds |-> <<"flight", TrackerOf[owner[c]]>>]
    OBVIOUS
  <2>4. \A l \in Elements(ls) : currentCmdBuf[l] \in cmds /\ m[currentCmdBuf[l]] = <<"flight", TrackerOf[l]>>
    BY <1>4, <2>2, <2>3
  <2>5. ASSUME NEW tr \in Trackers, NEW c \in Contents'[<<"flight", tr>>]
        PROVE  IF c \in cmds THEN m[c] = <<"flight", tr>> ELSE c \in Contents[<<"flight", tr>>]
    <3>1. c \in Elements(inFlight'[tr]) /\ Contents[<<"flight", tr>>] = Elements(inFlight[tr])
      BY <2>0, <2>5 DEF ContentsAt
    <3>2. CASE c \in Elements(inFlight[tr])
      <4>1. c \notin cmds
        BY <1>6, <3>2 DEF Submitting
      <4> QED
        BY <3>1, <3>2, <4>1
    <3>3. CASE \E l \in Elements(ls) : tr = TrackerOf[l] /\ c = currentCmdBuf[l]
      BY <2>4, <3>3
    <3> QED
      BY <1>6, <3>1, <3>2, <3>3 DEF Submitting
  <2>6. ASSUME NEW k \in Lists, NEW c \in Contents'[<<"list", k>>]
        PROVE  c \notin cmds /\ c \in Contents[<<"list", k>>]
    <3>1. c \in Current(k)' /\ Contents[<<"list", k>>] = Current(k)
      BY <2>0, <2>6 DEF ContentsAt
    <3>2. k \notin Elements(ls) /\ phase'[k] = phase[k] /\ currentCmdBuf'[k] = currentCmdBuf[k]
      BY <1>7, <1>15, <3>1 DEF Current, Recorded
    <3>3. c \in Current(k) /\ c = currentCmdBuf[k]
      BY <3>1, <3>2 DEF Current
    <3> QED
      BY <1>6, <3>1, <3>2, <3>3 DEF Submitting
  <2>7. ASSUME NEW p \in Queues, NEW c \in Contents'[<<"pool", p>>]
        PROVE  c \notin cmds /\ c \in Contents[<<"pool", p>>]
    <3>1. PICK r \in Places : r = <<"pool", p>>
      BY <2>0 DEF ContentsAt
    <3>2. r[1] # "list"
      BY <3>1
    <3>3. c \in Contents[r]
      BY <1>7, <2>0, <2>7, <3>1 DEF ContentsAt
    <3> QED
      BY <1>6, <3>1, <3>2, <3>3 DEF Submitting
  <2>8. ASSUME NEW u \in Threads, NEW c \in Contents'[<<"return", u>>]
        PROVE  c \notin cmds /\ c \in Contents[<<"return", u>>]
    <3>1. PICK r \in Places : r = <<"return", u>>
      BY <2>0 DEF ContentsAt
    <3>2. r[1] # "list"
      BY <3>1
    <3>3. Returned(u)' = Returned(u)
      BY <1>8, <1>12, <1>13 DEF Returned, Idle
    <3>4. c \in Contents[r]
      BY <2>0, <2>8, <3>1, <3>3 DEF ContentsAt
    <3> QED
      BY <1>6, <3>1, <3>2, <3>4 DEF Submitting
  <2>9. ASSUME NEW p \in Places, NEW c \in Contents'[p]
        PROVE  IF c \in cmds THEN m[c] = p ELSE c \in Contents[p]
    BY <2>5, <2>6, <2>7, <2>8, <2>9, PlaceCases
  <2>10. Apart(Contents) /\ Created(Contents)
    BY <1>0 DEF PlacesOK
  <2>11. ASSUME NEW c \in cmds PROVE c \in CommandBuffers /\ c[2] <= lastRecordingID'[c[1]]
    <3>1. PICK l \in Elements(ls) : c = currentCmdBuf[l]
      BY <1>6 DEF Submitting
    <3>2. <<"list", l>> \in Places /\ c \in Contents[<<"list", l>>]
      <4>1. l \in Lists /\ phase[l] = "closed"
        BY <1>6 DEF Submitting
      <4>2. <<"list", l>> \in Places /\ Contents[<<"list", l>>] = Current(l)
        BY <2>0, <4>1 DEF ContentsAt
      <4> QED
        BY <3>1, <4>1, <4>2 DEF Current, Recorded
    <3> QED
      BY <1>7, <2>10, <3>2 DEF Created
  <2>12. Moved(cmds, m)
    BY <1>7, <2>9, <2>11 DEF Moved
  <2>13. Apart(Contents)' /\ Created(Contents)'
    BY <2>10, <2>12, ContentsMoved
  <2>14. \A tr \in Trackers : Distinct(inFlight'[tr])
    BY <1>6 DEF Submitting
  <2> QED
    BY <1>0, <1>7, <2>13, <2>14 DEF PlacesOK
<1>20. /\ Todo(t)' = Elements(ls) /\ Todo(t) = {} /\ \A u \in Threads : u # t => Todo(u)' = Todo(u)
  BY <1>8, <1>12, <1>13 DEF Todo, Idle
<1>21. TodoOK'
  <2>1. \A u \in Threads : Todo(u) \cap Elements(ls) = {}
    BY <1>0, <1>6, SMTT(30) DEF TodoOK, Submitting
  <2>2. \A u, w \in Threads : u # w => Todo(u)' \cap Todo(w)' = {}
    BY <1>0, <1>20, <2>1 DEF TodoOK
  <2>3. ASSUME NEW l \in Todo(t)'
        PROVE  /\ phase'[l] = "submitted" /\ t \in Executors[l]
               /\ currentCmdBuf'[l] \in Elements(inFlight'[TrackerOf[l]])
               /\ cmd'[currentCmdBuf'[l]].submissionID = call'[t].id
    <3>1. l \in Elements(ls)
      BY <1>20
    <3>2. /\ l \in Lists /\ t \in Executors[l]
          /\ currentCmdBuf[l] \in cmds /\ currentCmdBuf[l] \in CommandBuffers
      BY <1>6, <3>1 DEF Submitting
    <3>3. TrackerOf[l] \in Trackers
      BY <3>2 DEF VulkanQueueAssumption
    <3>4. currentCmdBuf[l] \in Elements(inFlight'[TrackerOf[l]])
      BY <1>6, <3>1, <3>3 DEF Submitting
    <3> QED
      BY <1>7, <1>13, <1>14, <1>15, <3>1, <3>2, <3>4
  <2>4. ASSUME NEW u \in Threads, u # t, NEW l \in Todo(u)'
        PROVE  /\ phase'[l] = "submitted" /\ u \in Executors[l]
               /\ currentCmdBuf'[l] \in Elements(inFlight'[TrackerOf[l]])
               /\ cmd'[currentCmdBuf'[l]].submissionID = call'[u].id
    <3>1. l \in Todo(u) /\ l \in Lists /\ l \notin Elements(ls)
      BY <1>0, <1>20, <2>1, <2>4, TypeFacts
    <3>2. /\ phase[l] = "submitted" /\ u \in Executors[l]
          /\ currentCmdBuf[l] \in Elements(inFlight[TrackerOf[l]])
          /\ cmd[currentCmdBuf[l]].submissionID = call[u].id
      BY <1>0, <3>1 DEF TodoOK
    <3>3. TrackerOf[l] \in Trackers
      BY <3>1 DEF VulkanQueueAssumption
    <3>4. currentCmdBuf[l] \in CommandBuffers
      BY <1>0, <3>1, <3>2, CurrentFacts
    <3>5. currentCmdBuf[l] \notin cmds /\ currentCmdBuf[l] \in Elements(inFlight'[TrackerOf[l]])
      BY <1>6, <3>2, <3>3 DEF Submitting
    <3>6. call'[u] = call[u] /\ cmd'[currentCmdBuf[l]] = cmd[currentCmdBuf[l]]
      BY <1>12, <1>14, <2>4, <3>4, <3>5
    <3> QED
      BY <1>7, <1>15, <3>1, <3>2, <3>5, <3>6
  <2>5. ASSUME NEW l \in Lists, phase'[l] = "submitted" PROVE \E u \in Threads : l \in Todo(u)'
    <3>1. CASE l \in Elements(ls)
      BY <1>20, <3>1
    <3>2. CASE l \notin Elements(ls)
      <4>1. PICK u \in Threads : l \in Todo(u)
        BY <1>0, <1>15, <2>5, <3>2 DEF TodoOK
      <4> QED
        BY <1>20, <4>1
    <3> QED
      BY <3>1, <3>2
  <2> QED
    BY <2>2, <2>3, <2>4, <2>5 DEF TodoOK
<1>22. BuffersApart'
  BY <1>0, <1>7 DEF BuffersApart
<1>23. RecordingsOK'
  <2>1. ASSUME NEW l \in Lists, phase'[l] # "idle" PROVE cmd'[currentCmdBuf'[l]].recordingID = openedAs'[l]
    <3>1. phase[l] # "idle"
      BY <1>6, <1>15, <2>1 DEF Submitting
    <3>2. currentCmdBuf[l] \in CommandBuffers
      BY <1>0, <3>1 DEF Types, TypeOK
    <3> QED
      BY <1>0, <1>7, <1>14, <3>1, <3>2 DEF RecordingsOK
  <2> QED
    BY <2>1 DEF RecordingsOK
<1>24. JobsInFlight'
  <2>1. ASSUME NEW p \in Queues, NEW i \in Unfinished(p), NEW c \in job[p][i].cmds
        PROVE  /\ cmd'[c].submissionID = i
               /\ \E tr \in Trackers : QueueOf[tr] = p /\ c \in Elements(inFlight'[tr])
    <3>1. c \in CommandBuffers /\ cmd[c].submissionID = i
      BY <1>0, TypeFacts DEF JobsInFlight
    <3>2. PICK tr \in Trackers : QueueOf[tr] = p /\ c \in Elements(inFlight[tr])
      BY <1>0 DEF JobsInFlight
    <3>3. c \notin cmds /\ c \in Elements(inFlight'[tr])
      BY <1>6, <3>2 DEF Submitting
    <3> QED
      BY <1>14, <3>1, <3>2, <3>3
  <2>2. ASSUME NEW c \in cmds
        PROVE  /\ cmd'[c].submissionID = id
               /\ \E tr \in Trackers : QueueOf[tr] = q /\ c \in Elements(inFlight'[tr])
    <3>1. PICK l \in Elements(ls) : c = currentCmdBuf[l]
      BY <1>6 DEF Submitting
    <3>2. c \in CommandBuffers /\ l \in Lists /\ QueueOf[l] = q
      BY <1>6 DEF Submitting
    <3>3. TrackerOf[l] \in Trackers /\ QueueOf[TrackerOf[l]] = q
      BY <3>2 DEF VulkanQueueAssumption
    <3>4. c \in Elements(inFlight'[TrackerOf[l]])
      BY <1>6, <3>1, <3>3 DEF Submitting
    <3> QED
      BY <1>14, <3>2, <3>3, <3>4
  <2>3. ASSUME NEW p \in Queues, NEW i \in Unfinished(p)', NEW c \in job'[p][i].cmds
        PROVE  \/ i \in Unfinished(p) /\ c \in job[p][i].cmds
               \/ p = q /\ i = id /\ c \in cmds
    <3>1. completed' = completed /\ completed[p] \in Nat /\ Len(job[p]) \in Nat
      BY <1>0, <1>7 DEF Types, TypeOK
    <3>2. CASE p # q
      BY <1>11, <2>3, <3>1, <3>2 DEF Unfinished
    <3>3. CASE p = q
      <4>1. i \in (completed[q] + 1)..id
        BY <1>11, <2>3, <3>1, <3>3 DEF Unfinished
      <4>2. CASE i = id
        BY <1>10, <1>11, <2>3, <3>3, <4>2
      <4>3. CASE i # id
        <5>1. i \in Unfinished(q) /\ i \in 1..Len(job[q])
          BY <1>9, <3>1, <3>3, <4>1, <4>3 DEF Unfinished
        <5> QED
          BY <1>11, <2>3, <3>3, <5>1
      <4> QED
        BY <4>2, <4>3
    <3> QED
      BY <3>2, <3>3
  <2> QED
    BY <2>1, <2>2, <2>3 DEF JobsInFlight
<1> QED
  BY <1>17, <1>18, <1>19, <1>21, <1>22, <1>23, <1>24 DEF QueueInv

\* Every step keeps the invariant.
LEMMA QueueInvNext ==
  ASSUME VulkanQueueAssumption, NoneAssumption, OneThreadPerTracker, QueueInv, [Next]_vars
  PROVE  QueueInv'
<1>1. ASSUME NEW l \in Lists, Record(l) PROVE QueueInv'
  BY <1>1, OpenKeeps, CloseKeeps, AccessKeeps DEF Record
<1>2. ASSUME NEW t \in Threads, Continue(t) PROVE QueueInv'
  BY <1>2, ExecutedKeeps, TrackerReleaseKeeps, ReturnKeeps, AnswersKeep DEF Continue
<1>3. ASSUME NEW t \in Threads, \E ls \in Batches : Submit(t, ls) PROVE QueueInv'
  BY <1>3, SubmitKeeps
<1>4. ASSUME NEW t \in Threads, \E x \in Staging \cup Events : Ask(t, x) PROVE QueueInv'
  BY <1>4, AnswersKeep
<1>5. ASSUME NEW tr \in Trackers, RunGarbageCollection(tr) PROVE QueueInv'
  BY <1>5, DeviceCollectKeeps, AnswersKeep DEF RunGarbageCollection
<1>6. ASSUME NEW q \in Queues, Complete(q) PROVE QueueInv'
  BY <1>6, CompleteKeeps
<1>7. ASSUME NEW q \in Queues, \E e \in Events : SetEventQuery(e, q) PROVE QueueInv'
  BY <1>7, HostKeeps
<1>8. ASSUME \/ \E e \in Events : ResetEventQuery(e)
             \/ \E b \in Staging : UnmapBuffer(b)
             \/ \E r \in Resources : ReleaseHandle(r)
      PROVE  QueueInv'
  BY <1>8, HostKeeps
<1>9. CASE UNCHANGED vars
  <2>1. Quiet
    BY <1>9 DEF vars, queueVars, listVars, hostVars, gpuVars, Quiet, SameCalls, QueueInv, Types, TypeOK
  <2>2. Types' /\ Numbers' /\ CollectsOwn'
    BY <1>9 DEF vars, queueVars, listVars, hostVars, gpuVars, QueueInv, Types, TypeOK, CallsTyped,
                Numbers, CollectsOwn
  <2> QED
    BY <2>1, <2>2, QuietKeeps
<1> QED
  BY <1>1, <1>2, <1>3, <1>4, <1>5, <1>6, <1>7, <1>8, <1>9 DEF Next

\* Command buffers, calls, submissions and the GPU stay in step, whatever threads
\* record, execute, collect, poll and wait, as long as lists are executed by the
\* thread that collects their tracker.
THEOREM QueueInvariant ==
  ASSUME VulkanQueueAssumption, NoneAssumption, OneThreadPerTracker
  PROVE  Spec => []QueueInv
<1>1. Init => QueueInv
  BY InitHolds
<1>2. QueueInv /\ [Next]_vars => QueueInv'
  BY QueueInvNext
<1> QED
  BY <1>1, <1>2, PTL DEF Spec

-----------------------------------------------------------------------------
(* What the invariant says of the properties.                               *)

\* A command buffer in one place cannot be recorded and unfinished, or pooled.
LEMMA InvariantExcludes ==
  ASSUME VulkanQueueAssumption, NoneAssumption, QueueInv
  PROVE  CommandBuffersExclusive
<1>0. Types /\ PlacesOK /\ TodoOK /\ BuffersApart /\ JobsInFlight
  BY DEF QueueInv
<1>1. ASSUME NEW q \in Queues, NEW i \in Unfinished(q), NEW c \in job[q][i].cmds
      PROVE  /\ \A p \in Queues : c \notin Elements(commandBuffersPool[p])
             /\ \A l \in Lists : phase[l] \in {"open", "closed"} => currentCmdBuf[l] # c
  <2>1. PICK tr \in Trackers : c \in Elements(inFlight[tr])
    BY <1>0 DEF JobsInFlight
  <2>2. \A p \in Queues : c \notin Elements(commandBuffersPool[p])
    BY <1>0, <2>1, ApartFacts DEF PlacesOK
  <2>3. \A l \in Lists : c \notin Current(l)
    BY <1>0, <2>1, ApartFacts DEF PlacesOK
  <2> QED
    BY <2>2, <2>3 DEF Current, Recorded
<1> QED
  BY <1>0, <1>1 DEF CommandBuffersExclusive, BuffersApart

\* A list a thread is to be told of keeps its submission and its recording.
LEMMA InvariantFinds ==
  ASSUME VulkanQueueAssumption, NoneAssumption, QueueInv
  PROVE  ExecutedFindsSubmission
<1>0. Types /\ TodoOK /\ RecordingsOK
  BY DEF QueueInv
<1>1. ASSUME NEW t \in Threads, call[t].op = "execute", NEW l \in Elements(call[t].todo)
      PROVE  /\ cmd[currentCmdBuf[l]].submissionID = call[t].id
             /\ cmd[currentCmdBuf[l]].recordingID = openedAs[l]
  <2>1. l \in Todo(t)
    BY <1>1 DEF Todo
  <2>2. l \in Lists /\ phase[l] = "submitted" /\ cmd[currentCmdBuf[l]].submissionID = call[t].id
    BY <1>0, <2>1, TypeFacts DEF TodoOK
  <2> QED
    BY <1>0, <2>2 DEF RecordingsOK
<1> QED
  BY <1>1 DEF ExecutedFindsSubmission

\* No command buffer is in the pool or recorded into while the GPU may execute it,
\* and no two lists record into the same one (Queue::getOrCreateCommandBuffer,
\* CommandListLifetimeTracker::runGarbageCollection).
THEOREM CommandBuffersStayExclusive ==
  ASSUME VulkanQueueAssumption, NoneAssumption, OneThreadPerTracker
  PROVE  Spec => []CommandBuffersExclusive
<1>1. QueueInv => CommandBuffersExclusive
  BY InvariantExcludes
<1> QED
  BY <1>1, QueueInvariant, PTL

\* The assertion of CommandList::executed never fails, however many threads execute,
\* collect and wait on however many queues.
THEOREM ExecutedAlwaysFinds ==
  ASSUME VulkanQueueAssumption, NoneAssumption, OneThreadPerTracker
  PROVE  Spec => []ExecutedFindsSubmission
<1>1. QueueInv => ExecutedFindsSubmission
  BY InvariantFinds
<1> QED
  BY <1>1, QueueInvariant, PTL

-----------------------------------------------------------------------------
(* What keeps resources alive: the references of the command buffers that   *)
(* are recorded, submitted and not finished.                                *)

\* by a TrackedCommandBuffer
ReferencedBy(b) == b.refs \cup b.staging

ListsRefer == \A l \in Lists : phase[l] # "idle" =>
    l \in accesses[l] /\ accesses[l] \subseteq ReferencedBy(cmd[currentCmdBuf[l]])

JobsRefer == \A q \in Queues : \A i \in Unfinished(q) : \A r \in job[q][i].used :
    \E c \in job[q][i].cmds : r \in ReferencedBy(cmd[c])

RefsInv == ListsRefer /\ JobsRefer

\* A step that takes nothing from the command buffers of lists and submissions.
RefsStay ==
    /\ \A l \in Lists : phase'[l] # "idle" =>
         /\ phase[l] # "idle" /\ currentCmdBuf'[l] = currentCmdBuf[l] /\ accesses'[l] = accesses[l]
         /\ ReferencedBy(cmd[currentCmdBuf[l]]) \subseteq ReferencedBy(cmd'[currentCmdBuf[l]])
    /\ \A q \in Queues : \A i \in Unfinished(q)' :
         /\ i \in Unfinished(q) /\ job'[q][i] = job[q][i]
         /\ \A c \in job[q][i].cmds : ReferencedBy(cmd[c]) \subseteq ReferencedBy(cmd'[c])

\* Then the references cover as much as before.
LEMMA RefsStayKeeps == ASSUME RefsInv, RefsStay PROVE RefsInv'
<1>1. ASSUME NEW l \in Lists, phase'[l] # "idle"
      PROVE  l \in accesses'[l] /\ accesses'[l] \subseteq ReferencedBy(cmd'[currentCmdBuf'[l]])
  <2>1. /\ phase[l] # "idle" /\ currentCmdBuf'[l] = currentCmdBuf[l] /\ accesses'[l] = accesses[l]
        /\ ReferencedBy(cmd[currentCmdBuf[l]]) \subseteq ReferencedBy(cmd'[currentCmdBuf[l]])
    BY <1>1 DEF RefsStay
  <2>2. l \in accesses[l] /\ accesses[l] \subseteq ReferencedBy(cmd[currentCmdBuf[l]])
    BY <2>1 DEF RefsInv, ListsRefer
  <2>3. accesses[l] \subseteq ReferencedBy(cmd'[currentCmdBuf[l]])
    BY <2>1, <2>2
  <2> QED
    BY <2>1, <2>2, <2>3
<1>2. ASSUME NEW q \in Queues, NEW i \in Unfinished(q)', NEW r \in job'[q][i].used
      PROVE  \E c \in job'[q][i].cmds : r \in ReferencedBy(cmd'[c])
  <2>1. i \in Unfinished(q) /\ job'[q][i] = job[q][i]
    BY DEF RefsStay
  <2>2. PICK c \in job[q][i].cmds : r \in ReferencedBy(cmd[c])
    BY <1>2, <2>1 DEF RefsInv, JobsRefer
  <2>3. ReferencedBy(cmd[c]) \subseteq ReferencedBy(cmd'[c])
    BY <2>2 DEF RefsStay
  <2> QED
    BY <2>1, <2>2, <2>3
<1>3. ListsRefer'
  BY <1>1 DEF ListsRefer, ReferencedBy
<1>4. JobsRefer'
  BY <1>2 DEF JobsRefer
<1> QED
  BY <1>3, <1>4 DEF RefsInv

\* A resource is alive when the application holds it or a command buffer refers to it.
LEMMA AliveFacts ==
  /\ \A x : x \in Alive <=> x \in held \/ \E c \in CommandBuffers : x \in ReferencedBy(cmd[c])
  /\ \A x : x \in Alive' <=> x \in held' \/ \E c \in CommandBuffers : x \in ReferencedBy(cmd'[c])
<1>1. \A x : x \in Alive <=> x \in held \/ \E c \in CommandBuffers : x \in ReferencedBy(cmd[c])
  BY DEF Alive, ReferencedBy
<1>2. \A x : x \in Alive' <=> x \in held' \/ \E c \in CommandBuffers : x \in ReferencedBy(cmd'[c])
  BY DEF Alive, ReferencedBy
<1> QED
  BY <1>1, <1>2

\* Nothing in use is destroyed, and nothing destroyed comes back.
RefsKept == RefsInv' /\ Alive' \subseteq Alive

\* A step that leaves the command buffers and submissions alone.
Still ==
    /\ cmd' = cmd /\ held' \subseteq held /\ job' = job
    /\ \A q \in Queues : completed[q] <= completed'[q]
    /\ \A l \in Lists : phase'[l] # "idle" =>
         phase[l] # "idle" /\ currentCmdBuf'[l] = currentCmdBuf[l] /\ accesses'[l] = accesses[l]

\* Nothing is destroyed, and nothing revived.
LEMMA StillRefs == ASSUME Types, Types', RefsInv, Still PROVE RefsKept
<1>1. \A q \in Queues : \A i \in Unfinished(q)' : i \in Unfinished(q) /\ job'[q][i] = job[q][i]
  BY DEF Still, Unfinished, Types, TypeOK
<1>2. RefsStay
  BY <1>1 DEF RefsStay, Still
<1>3. RefsInv'
  BY <1>2, RefsStayKeeps
<1>4. Alive' \subseteq Alive
  BY AliveFacts DEF Still
<1> QED
  BY <1>3, <1>4 DEF RefsKept

\* close() is such a step.
LEMMA CloseRefs ==
  ASSUME Types, Types', RefsInv, NEW l \in Lists, Close(l)
  PROVE  RefsKept
<1>1. \A k \in Lists : phase'[k] # "idle" => phase[k] # "idle"
  BY DEF Close, Types, TypeOK
<1>2. Still
  BY <1>1 DEF Close, Still, hostVars, gpuVars, Types, TypeOK
<1> QED
  BY <1>2, StillRefs

\* executed() takes a list from its command buffer, which keeps its references in flight.
LEMMA ExecutedRefs ==
  ASSUME Types, Types', RefsInv, NEW t \in Threads, Executed(t)
  PROVE  RefsKept
<1>1. PICK l : /\ currentCmdBuf' = [currentCmdBuf EXCEPT ![l] = None]
               /\ phase' = [phase EXCEPT ![l] = "idle"]
               /\ UNCHANGED <<queueVars, inFlight, cmd, openedAs, accesses, hostVars, gpuVars>>
  BY DEF Executed, Detached
<1>2. \A k \in Lists : phase'[k] # "idle" => phase[k] # "idle" /\ currentCmdBuf'[k] = currentCmdBuf[k]
  <2>1. phase \in [Lists -> {"idle", "open", "closed", "submitted"}]
        /\ currentCmdBuf \in [Lists -> CommandBuffers \cup {None}]
    BY DEF Types, TypeOK
  <2> QED
    BY <1>1, <2>1
<1>3. Still
  BY <1>1, <1>2 DEF Still, hostVars, gpuVars, Types, TypeOK
<1> QED
  BY <1>3, StillRefs

\* So are calls that change neither command buffers nor recordings.
LEMMA OtherRefs ==
  ASSUME Types, Types', RefsInv,
         \/ \E q \in Queues : Complete(q)
         \/ \E t \in Threads : \/ ReturnCommandBuffersToPool(t) \/ Updated(t) \/ WaitedSemaphores(t)
                               \/ \E tr \in Trackers : TrackerCollect(t, tr)
                               \/ \E x \in Staging \cup Events : Ask(t, x)
         \/ \E e \in Events : ResetEventQuery(e) \/ \E q \in Queues : SetEventQuery(e, q)
         \/ \E b \in Staging : UnmapBuffer(b)
         \/ \E r \in Resources : ReleaseHandle(r)
         \/ UNCHANGED vars
  PROVE  RefsKept
<1>1. UNCHANGED <<cmd, listVars, job>> /\ held' \subseteq held
  BY DEF Complete, ReturnCommandBuffersToPool, Updated, WaitedSemaphores, TrackerCollect, Ask,
         ResetEventQuery, SetEventQuery, UnmapBuffer, ReleaseHandle, vars, hostVars, gpuVars
<1>2. \A q \in Queues : completed[q] <= completed'[q]
  <2>1. completed \in [Queues -> Nat]
    BY DEF Types, TypeOK
  <2>2. CASE \E q \in Queues : Complete(q)
    BY <2>1, <2>2 DEF Complete
  <2>3. CASE UNCHANGED completed
    BY <2>1, <2>3
  <2> QED
    BY <2>2, <2>3
    DEF ReturnCommandBuffersToPool, Updated, WaitedSemaphores, TrackerCollect, Ask,
        ResetEventQuery, SetEventQuery, UnmapBuffer, ReleaseHandle, vars, gpuVars
<1>3. Still
  BY <1>1, <1>2 DEF Still, listVars
<1> QED
  BY <1>3, StillRefs

\* A recorded use is referred to by the list's command buffer before it is one.
LEMMA AccessRefs ==
  ASSUME VulkanQueueAssumption, NoneAssumption, "clear" \notin Calls, QueueInv, RefsInv,
         NEW l \in Lists, NEW r \in Resources, Copy(l, r) \/ Bind(l, r) \/ Clear(l, r)
  PROVE  RefsKept
<1>0. Types /\ BuffersApart
  BY DEF QueueInv
<1>1. Accesses(l, r) /\ (Copy(l, r) \/ Bind(l, r)) /\ r \in held
  BY DEF Copy, Bind, Clear, Accesses
<1>2. PICK b \in CommandBuffers : b = currentCmdBuf[l]
  BY <1>0, <1>1 DEF Accesses, Types, TypeOK
<1>3. cmd \in [CommandBuffers -> Tracked]
  BY <1>0 DEF Types, TypeOK, Tracked
<1>4. PICK old \in Tracked : old = cmd[b]
  BY <1>3
<1>5. /\ \A c \in CommandBuffers : c # b => cmd'[c] = cmd[c]
      /\ \A x : x \in ReferencedBy(cmd'[b]) <=> x = r \/ x \in ReferencedBy(cmd[b])
  <2>1. CASE r \in Staging /\ cmd' = [cmd EXCEPT ![b] = [old EXCEPT !.staging = @ \cup {r}]]
    <3> DEFINE new == [old EXCEPT !.staging = @ \cup {r}]
    <3>1. \A x : x \in ReferencedBy(new) <=> x = r \/ x \in ReferencedBy(old)
      BY DEF ReferencedBy, Tracked
    <3>2. cmd' = [cmd EXCEPT ![b] = new]
      BY <2>1
    <3> HIDE DEF new
    <3> QED
      BY <1>3, <1>4, <3>1, <3>2
  <2>2. CASE cmd' = [cmd EXCEPT ![b] = [old EXCEPT !.refs = @ \cup {r}]]
    <3> DEFINE new == [old EXCEPT !.refs = @ \cup {r}]
    <3>1. \A x : x \in ReferencedBy(new) <=> x = r \/ x \in ReferencedBy(old)
      BY DEF ReferencedBy, Tracked
    <3>2. cmd' = [cmd EXCEPT ![b] = new]
      BY <2>2
    <3> HIDE DEF new
    <3> QED
      BY <1>3, <1>4, <3>1, <3>2
  <2> QED
    BY <1>1, <1>2, <1>3, <1>4, <2>1, <2>2 DEF Copy, Bind
<1>6. /\ phase' = phase /\ currentCmdBuf' = currentCmdBuf /\ job' = job /\ completed' = completed
      /\ held' = held /\ phase[l] = "open"
      /\ \A k \in Lists : accesses'[k] = IF k = l THEN accesses[l] \cup {r} ELSE accesses[k]
  BY <1>0, <1>1 DEF Accesses, hostVars, gpuVars, Types, TypeOK
<1>7. \A c \in CommandBuffers : ReferencedBy(cmd[c]) \subseteq ReferencedBy(cmd'[c])
  BY <1>5
<1>8. ListsRefer'
  <2>1. ASSUME NEW k \in Lists, phase[k] # "idle"
        PROVE  k \in accesses'[k] /\ accesses'[k] \subseteq ReferencedBy(cmd'[currentCmdBuf[k]])
    <3>1. k \in accesses[k] /\ accesses[k] \subseteq ReferencedBy(cmd[currentCmdBuf[k]])
      BY <2>1 DEF RefsInv, ListsRefer
    <3>2. currentCmdBuf[k] \in CommandBuffers
      BY <1>0, <2>1 DEF Types, TypeOK
    <3>3. accesses[k] \subseteq ReferencedBy(cmd'[currentCmdBuf[k]])
      BY <1>7, <3>1, <3>2
    <3>4. k = l => r \in ReferencedBy(cmd'[currentCmdBuf[k]])
      BY <1>2, <1>5
    <3> QED
      BY <1>6, <3>1, <3>3, <3>4
  <2> QED
    BY <1>6, <2>1 DEF ListsRefer
<1>9. JobsRefer'
  <2>1. \A q \in Queues : Unfinished(q)' = Unfinished(q)
    BY <1>6 DEF Unfinished
  <2>2. ASSUME NEW q \in Queues, NEW i \in Unfinished(q), NEW x \in job[q][i].used
        PROVE  \E c \in job[q][i].cmds : x \in ReferencedBy(cmd'[c])
    <3>1. PICK c \in job[q][i].cmds : x \in ReferencedBy(cmd[c])
      BY <2>2 DEF RefsInv, JobsRefer
    <3>2. c \in CommandBuffers
      BY <1>0, <3>1, TypeFacts
    <3> QED
      BY <1>7, <3>1, <3>2
  <2> QED
    BY <1>6, <2>1, <2>2 DEF JobsRefer
<1>10. Alive' \subseteq Alive
  BY <1>1, <1>2, <1>5, <1>6, AliveFacts
<1> QED
  BY <1>8, <1>9, <1>10 DEF RefsKept, RefsInv

\* An opened list takes a command buffer no other list and no submission has.
LEMMA OpenRefs ==
  ASSUME VulkanQueueAssumption, NoneAssumption, QueueInv, QueueInv', RefsInv, NEW l \in Lists, Open(l)
  PROVE  RefsKept
<1>0. /\ Types /\ PlacesOK /\ BuffersApart /\ JobsInFlight
      /\ Types' /\ PlacesOK' /\ BuffersApart' /\ JobsInFlight'
  BY DEF QueueInv
<1>a. PICK c : c = IF commandBuffersPool[QueueOf[l]] = <<>>
                   THEN NewCommandBuffer(QueueOf[l]) ELSE Head(commandBuffersPool[QueueOf[l]])
  OBVIOUS
<1>1. /\ currentCmdBuf' = [currentCmdBuf EXCEPT ![l] = c]
      /\ cmd' = [b \in CommandBuffers |->
           IF b = c THEN [cmd[c] EXCEPT !.recordingID = lastRecordingID[QueueOf[l]] + 1,
                                        !.refs = @ \cup {l}]
           ELSE IF b = currentCmdBuf[l] THEN NoBuffer ELSE cmd[b]]
  BY <1>a DEF Open, OpenedRefs
<1>2. /\ l \in held /\ phase[l] \in {"idle", "closed"}
      /\ phase' = [phase EXCEPT ![l] = "open"] /\ accesses' = [accesses EXCEPT ![l] = {l}]
      /\ UNCHANGED <<inFlight, held, gpuVars>>
  BY DEF Open, hostVars
<1>3. /\ \A k \in Lists : /\ phase'[k] = IF k = l THEN "open" ELSE phase[k]
                          /\ currentCmdBuf'[k] = IF k = l THEN c ELSE currentCmdBuf[k]
                          /\ accesses'[k] = IF k = l THEN {l} ELSE accesses[k]
  BY <1>0, <1>1, <1>2 DEF Types, TypeOK
<1>4. cmd \in [CommandBuffers -> Tracked] /\ c \in CommandBuffers /\ c # None
  <2>1. currentCmdBuf'[l] \in CommandBuffers
    BY <1>0, <1>3 DEF Types, TypeOK
  <2> QED
    BY <1>0, <1>3, <2>1, CommandBufferFacts, SMTT(30) DEF Types, TypeOK, Tracked
<1>5. /\ \A x : x \in ReferencedBy(cmd'[c]) <=> x = l \/ x \in ReferencedBy(cmd[c])
      /\ \A b \in CommandBuffers : ReferencedBy(cmd'[b]) \subseteq ReferencedBy(cmd[b]) \cup {l}
      /\ \A b \in CommandBuffers : b # c /\ b # currentCmdBuf[l] => cmd'[b] = cmd[b]
  <2>1. PICK old \in Tracked : old = cmd[c]
    BY <1>4
  <2> DEFINE new == [old EXCEPT !.recordingID = lastRecordingID[QueueOf[l]] + 1, !.refs = @ \cup {l}]
  <2>2. \A x : x \in ReferencedBy(new) <=> x = l \/ x \in ReferencedBy(old)
    BY DEF ReferencedBy, Tracked
  <2>3. cmd'[c] = new
    BY <1>1, <1>4, <2>1
  <2> HIDE DEF new
  <2>4. \A b \in CommandBuffers : b # c /\ b # currentCmdBuf[l] => cmd'[b] = cmd[b]
    BY <1>1
  <2>5. \A b \in CommandBuffers : b # c /\ b = currentCmdBuf[l] => cmd'[b] = NoBuffer
    BY <1>1
  <2>6. ReferencedBy(NoBuffer) = {}
    BY DEF ReferencedBy, NoBuffer
  <2> QED
    BY <2>1, <2>2, <2>3, <2>4, <2>5, <2>6
<1>6. ListsRefer'
  <2>1. ASSUME NEW k \in Lists, phase'[k] # "idle"
        PROVE  k \in accesses'[k] /\ accesses'[k] \subseteq ReferencedBy(cmd'[currentCmdBuf'[k]])
    <3>1. CASE k = l
      BY <1>3, <1>5, <3>1
    <3>2. CASE k # l
      <4>1. k \in accesses[k] /\ accesses[k] \subseteq ReferencedBy(cmd[currentCmdBuf[k]])
        BY <1>3, <2>1, <3>2 DEF RefsInv, ListsRefer
      <4>2. currentCmdBuf[k] \in CommandBuffers /\ currentCmdBuf[k] # None
        <5>1. currentCmdBuf[k] \in CommandBuffers
          BY <1>0, <1>3, <2>1, <3>2 DEF Types, TypeOK
        <5> QED
          BY <5>1, CommandBufferFacts
      <4>3. currentCmdBuf[k] # c /\ currentCmdBuf[k] # currentCmdBuf[l]
        BY <1>0, <1>3, <3>2, <4>2 DEF BuffersApart
      <4> QED
        BY <1>3, <1>5, <3>2, <4>1, <4>2, <4>3
    <3> QED
      BY <3>1, <3>2
  <2> QED
    BY <2>1 DEF ListsRefer
<1>7. JobsRefer'
  <2>1. \A q \in Queues : Unfinished(q)' = Unfinished(q) /\ job'[q] = job[q]
    BY <1>2 DEF Unfinished, gpuVars
  <2>2. ASSUME NEW q \in Queues, NEW i \in Unfinished(q), NEW b \in job[q][i].cmds
        PROVE  b \in CommandBuffers /\ cmd'[b] = cmd[b]
    <3>1. PICK tr \in Trackers : b \in Elements(inFlight[tr])
      BY <1>0 DEF JobsInFlight
    <3>2. b \in CommandBuffers /\ b # None
      BY <1>0, TypeFacts, CommandBufferFacts
    <3>3. b # currentCmdBuf[l]
      <4>1. phase[l] = "closed" => Current(l) = {currentCmdBuf[l]}
        BY DEF Current, Recorded
      <4>2. b \notin Current(l)
        BY <1>0, <3>1, ApartFacts DEF PlacesOK
      <4>3. phase[l] = "idle" => currentCmdBuf[l] = None
        BY <1>0 DEF Types, TypeOK
      <4> QED
        BY <1>2, <3>2, <4>1, <4>2, <4>3
    <3>4. b # c
      <4>1. /\ <<"list", l>> \in Places /\ Contents'[<<"list", l>>] = Current(l)'
            /\ <<"flight", tr>> \in Places /\ Contents'[<<"flight", tr>>] = Elements(inFlight'[tr])
        BY ContentsFacts DEF ContentsAt
      <4>2. Current(l)' = {c}
        BY <1>3 DEF Current, Recorded
      <4>3. \A p, r \in Places : p # r => Contents'[p] \cap Contents'[r] = {}
        BY <1>0 DEF PlacesOK, Apart
      <4>4. b \in Elements(inFlight'[tr])
        BY <1>2, <3>1
      <4>5. <<"list", l>> # <<"flight", tr>>
        OBVIOUS
      <4> QED
        BY <4>1, <4>2, <4>3, <4>4, <4>5
    <3> QED
      BY <1>5, <3>2, <3>3, <3>4
  <2>3. ASSUME NEW q \in Queues, NEW i \in Unfinished(q), NEW x \in job[q][i].used
        PROVE  \E b \in job[q][i].cmds : x \in ReferencedBy(cmd'[b])
    <3>1. PICK b \in job[q][i].cmds : x \in ReferencedBy(cmd[b])
      BY <2>3 DEF RefsInv, JobsRefer
    <3> QED
      BY <2>2, <3>1
  <2> QED
    BY <2>1, <2>3 DEF JobsRefer
<1>8. Alive' \subseteq Alive
  <2>1. ASSUME NEW x \in Alive' PROVE x \in Alive
    <3>1. CASE x \in held'
      BY <1>2, <3>1, AliveFacts
    <3>2. CASE \E b \in CommandBuffers : x \in ReferencedBy(cmd'[b])
      BY <1>2, <1>5, <3>2, AliveFacts, SMTT(30)
    <3> QED
      BY <2>1, <3>1, <3>2, AliveFacts
  <2> QED
    BY <2>1
<1> QED
  BY <1>6, <1>7, <1>8 DEF RefsKept, RefsInv

\* A submission uses what its lists do.
LEMMA SubmitRefs ==
  ASSUME VulkanQueueAssumption, NoneAssumption, QueueInv, RefsInv,
         NEW t \in Threads, NEW ls \in Batches, Submit(t, ls)
  PROVE  RefsKept
<1>0. Types /\ Numbers
  BY DEF QueueInv
<1>1. PICK q \in Queues : q = QueueOf[ls[1]]
  BY BatchFacts DEF VulkanQueueAssumption
<1>2. PICK cmds : cmds = {currentCmdBuf[l] : l \in Elements(ls)}
  OBVIOUS
<1>3. PICK used : used = UNION {accesses[l] : l \in Elements(ls)}
  OBVIOUS
<1>4. Submitting(t, ls, q, cmds)
  BY <1>1, <1>2, SubmitFacts
<1>5. /\ cmd' = [c \in CommandBuffers |->
              IF c \in cmds THEN [cmd[c] EXCEPT !.submissionID = lastSubmittedID[q] + 1] ELSE cmd[c]]
      /\ job' = [job EXCEPT ![q] = Append(@, [used |-> used, cmds |-> cmds])]
      /\ phase' = [l \in Lists |-> IF l \in Elements(ls) THEN "submitted" ELSE phase[l]]
      /\ UNCHANGED <<currentCmdBuf, accesses, held, completed>>
  BY <1>1, <1>2, <1>3 DEF Submit
<1>6. \A c \in CommandBuffers : ReferencedBy(cmd'[c]) = ReferencedBy(cmd[c])
  <2>1. ASSUME NEW c \in CommandBuffers
        PROVE  ReferencedBy([cmd[c] EXCEPT !.submissionID = lastSubmittedID[q] + 1]) = ReferencedBy(cmd[c])
    <3>1. cmd \in [CommandBuffers -> Tracked]
      BY <1>0 DEF Types, TypeOK, Tracked
    <3>2. PICK old \in Tracked : old = cmd[c]
      BY <3>1
    <3>3. ReferencedBy([old EXCEPT !.submissionID = lastSubmittedID[q] + 1]) = ReferencedBy(old)
      BY DEF ReferencedBy, Tracked
    <3> QED
      BY <3>2, <3>3
  <2> QED
    BY <1>5, <2>1
<1>7. ListsRefer'
  <2>1. ASSUME NEW k \in Lists, phase'[k] # "idle"
        PROVE  k \in accesses[k] /\ accesses[k] \subseteq ReferencedBy(cmd'[currentCmdBuf[k]])
    <3>1. phase[k] # "idle"
      BY <1>4, <1>5, <2>1 DEF Submitting
    <3>2. currentCmdBuf[k] \in CommandBuffers
      BY <1>0, <3>1 DEF Types, TypeOK
    <3> QED
      BY <1>6, <3>1, <3>2 DEF RefsInv, ListsRefer
  <2> QED
    BY <1>5, <2>1 DEF ListsRefer
<1> DEFINE new == [used |-> used, cmds |-> cmds]
           Jobs == [used : SUBSET Resources, cmds : SUBSET CommandBuffers]
<1>8. /\ Len(job'[q]) = Len(job[q]) + 1 /\ job'[q][Len(job[q]) + 1] = new
      /\ \A i \in 1..Len(job[q]) : job'[q][i] = job[q][i]
      /\ \A p \in Queues : p # q => job'[p] = job[p]
      /\ \A p \in Queues : Len(job[p]) \in Nat /\ completed[p] \in Nat
  <2>1. new \in Jobs
    <3>1. \A l \in Elements(ls) : accesses[l] \subseteq Resources
      BY <1>0, <1>4 DEF Types, TypeOK, Submitting
    <3>2. used \subseteq Resources
      BY <1>3, <3>1
    <3>3. cmds \subseteq CommandBuffers
      BY <1>4 DEF Submitting
    <3> QED
      BY <3>2, <3>3
  <2>2. job \in [Queues -> Seq(Jobs)] /\ completed \in [Queues -> Nat]
    BY <1>0 DEF Types, TypeOK
  <2>3. job' = [job EXCEPT ![q] = Append(job[q], new)]
    BY <1>5
  <2> HIDE DEF new, Jobs
  <2> QED
    BY <2>1, <2>2, <2>3
<1>9. new.used = used /\ new.cmds = cmds
  OBVIOUS
<1> HIDE DEF new
<1>10. JobsRefer'
  <2>1. ASSUME NEW p \in Queues, NEW i \in Unfinished(p)'
        PROVE  \/ i \in Unfinished(p) /\ job'[p][i] = job[p][i]
               \/ p = q /\ i = Len(job[q]) + 1 /\ job'[p][i] = new
    <3>1. i \in (completed[p] + 1)..Len(job'[p])
      BY <1>5, <2>1 DEF Unfinished
    <3>2. CASE p # q
      BY <1>8, <3>1, <3>2 DEF Unfinished
    <3>3. CASE p = q /\ i = Len(job[q]) + 1
      BY <1>8, <3>3
    <3>4. CASE p = q /\ i # Len(job[q]) + 1
      <4>1. i \in (completed[q] + 1)..Len(job[q]) /\ i \in 1..Len(job[q])
        BY <1>8, <3>1, <3>4
      <4> QED
        BY <1>8, <3>4, <4>1 DEF Unfinished
    <3> QED
      BY <3>2, <3>3, <3>4
  <2>2. ASSUME NEW p \in Queues, NEW i \in Unfinished(p), NEW x \in job[p][i].used
        PROVE  \E c \in job[p][i].cmds : x \in ReferencedBy(cmd'[c])
    <3>1. PICK c \in job[p][i].cmds : x \in ReferencedBy(cmd[c])
      BY <2>2 DEF RefsInv, JobsRefer
    <3>2. c \in CommandBuffers
      BY <1>0, <3>1, TypeFacts
    <3> QED
      BY <1>6, <3>1, <3>2
  <2>3. ASSUME NEW x \in used PROVE \E c \in cmds : x \in ReferencedBy(cmd'[c])
    <3>1. PICK l \in Elements(ls) : x \in accesses[l]
      BY <1>3
    <3>2. /\ l \in Lists /\ phase[l] # "idle"
          /\ currentCmdBuf[l] \in cmds /\ currentCmdBuf[l] \in CommandBuffers
      BY <1>4 DEF Submitting
    <3>3. x \in ReferencedBy(cmd[currentCmdBuf[l]])
      BY <3>1, <3>2 DEF RefsInv, ListsRefer
    <3> QED
      BY <1>6, <3>2, <3>3
  <2>4. ASSUME NEW p \in Queues, NEW i \in Unfinished(p)', NEW x \in job'[p][i].used
        PROVE  \E c \in job'[p][i].cmds : x \in ReferencedBy(cmd'[c])
    <3>1. CASE i \in Unfinished(p) /\ job'[p][i] = job[p][i]
      BY <2>2, <2>4, <3>1
    <3>2. CASE job'[p][i] = new
      BY <1>9, <2>3, <2>4, <3>2
    <3> QED
      BY <2>1, <3>1, <3>2
  <2> QED
    BY <2>4 DEF JobsRefer
<1>11. Alive' \subseteq Alive
  BY <1>5, <1>6, AliveFacts
<1> QED
  BY <1>7, <1>10, <1>11 DEF RefsKept, RefsInv

\* A collection drops the references of what is finished only.
LEMMA CollectRefs ==
  ASSUME VulkanQueueAssumption, NoneAssumption, OneThreadPerTracker, QueueInv, RefsInv,
         NEW t \in Threads, NEW tr \in Trackers, NEW finished, NEW n \in 0..Len(inFlight[tr]),
         Collecting(t, tr, finished, n), UNCHANGED <<listVars, held, gpuVars>>
  PROVE  RefsKept
<1>0. Types
  BY DEF QueueInv
<1>1. PICK done : done = Elements(Collectable(tr, n))
  OBVIOUS
<1>2. Collected(tr, n, done)
  BY <1>1, CollectFacts
<1>3. \A c \in CommandBuffers : cmd'[c] = IF c \in done THEN Released(c) ELSE cmd[c]
  BY <1>1 DEF Collecting, Collect
<1>4. \A c \in CommandBuffers : ReferencedBy(cmd'[c]) \subseteq ReferencedBy(cmd[c])
  <2>1. ASSUME NEW c \in CommandBuffers PROVE ReferencedBy(Released(c)) = {}
    <3>1. cmd \in [CommandBuffers -> Tracked]
      BY <1>0 DEF Types, TypeOK, Tracked
    <3>2. PICK old \in Tracked : old = cmd[c]
      BY <3>1
    <3>3. ReferencedBy([old EXCEPT !.submissionID = 0, !.refs = {}, !.staging = {}]) = {}
      BY DEF ReferencedBy, Tracked
    <3> QED
      BY <3>2, <3>3 DEF Released
  <2> QED
    BY <1>3, <2>1
<1>5. \A l \in Lists : phase[l] # "idle" => cmd'[currentCmdBuf[l]] = cmd[currentCmdBuf[l]]
  <2>1. \A l \in Lists : phase[l] # "idle" => currentCmdBuf[l] \in CommandBuffers
    BY <1>0 DEF Types, TypeOK
  <2> QED
    BY <1>2, <2>1 DEF Collected
<1>6. \A q \in Queues : \A i \in Unfinished(q) : \A c \in job[q][i].cmds : cmd'[c] = cmd[c]
  <2>1. \A q \in Queues : \A i \in Unfinished(q) : job[q][i].cmds \subseteq CommandBuffers
    BY <1>0, TypeFacts
  <2> QED
    BY <1>2, <2>1 DEF Collected
<1>7. /\ phase' = phase /\ currentCmdBuf' = currentCmdBuf /\ accesses' = accesses
      /\ job' = job /\ completed' = completed /\ held' = held
  BY DEF listVars, gpuVars
<1>8. \A q \in Queues : Unfinished(q)' = Unfinished(q)
  BY <1>7 DEF Unfinished
<1>9. RefsStay
  BY <1>5, <1>6, <1>7, <1>8 DEF RefsStay
<1>10. RefsInv'
  BY <1>9, RefsStayKeeps
<1>11. Alive' \subseteq Alive
  BY <1>4, <1>7, AliveFacts
<1> QED
  BY <1>10, <1>11 DEF RefsKept

\* Every step keeps the references complete.
LEMMA RefsNext ==
  ASSUME VulkanQueueAssumption, NoneAssumption, OneThreadPerTracker, "clear" \notin Calls,
         QueueInv, QueueInv', RefsInv, [Next]_vars
  PROVE  RefsKept
<1>0. Types /\ Types' /\ Numbers /\ CollectsOwn
  BY DEF QueueInv
<1>1. ASSUME NEW l \in Lists, Record(l) PROVE RefsKept
  BY <1>0, <1>1, OpenRefs, CloseRefs, AccessRefs DEF Record
<1>2. ASSUME NEW t \in Threads, NEW tr \in Trackers, DeviceCollect(t, tr) PROVE RefsKept
  <2>1. PICK finished \in {completed[QueueOf[tr]]} \cup BeingStored(t, QueueOf[tr]), n \in 0..Len(inFlight[tr]) :
          FinishedPrefix(tr, finished, n) /\ Collect(tr, n)
    BY <1>2 DEF DeviceCollect
  <2>2. QueueOf[tr] \in Queues
    BY DEF VulkanQueueAssumption
  <2>3. finished \in Nat /\ finished <= completed[QueueOf[tr]]
    BY <1>0, <2>1, <2>2, FinishedFacts
  <2>4. call[t].op # "execute" /\ t \in Collectors[tr] /\ UNCHANGED <<listVars, held, gpuVars>>
    BY <1>2 DEF DeviceCollect, Idle, hostVars
  <2>5. Collecting(t, tr, finished, n)
    BY <2>1, <2>3, <2>4 DEF Collecting
  <2> QED
    BY <2>4, <2>5, CollectRefs
<1>3. ASSUME NEW t \in Threads, TrackerRelease(t) PROVE RefsKept
  <2>1. PICK tr \in Trackers : tr = call[t].for
    BY <1>3 DEF TrackerRelease
  <2>2. PICK finished \in {call[t].value} \cup BeingStored(t, call[t].queue), n \in 0..Len(inFlight[call[t].for]) :
          FinishedPrefix(call[t].for, finished, n) /\ Collect(call[t].for, n)
    BY <1>3 DEF TrackerRelease
  <2>3. /\ call[t].op = "update" /\ t \in Collectors[tr] /\ call[t].queue = QueueOf[tr]
        /\ UNCHANGED <<listVars, held, gpuVars>>
    BY <1>0, <1>3, <2>1 DEF TrackerRelease, CollectsOwn, hostVars
  <2>4. PICK q \in Queues : q = QueueOf[tr]
    BY DEF VulkanQueueAssumption
  <2>5. finished \in Nat /\ finished <= completed[q]
    BY <1>0, <2>2, <2>3, <2>4, FinishedFacts
  <2>6. FinishedPrefix(tr, finished, n) /\ n \in 0..Len(inFlight[tr])
    BY <2>1, <2>2
  <2>7. Collect(tr, n)
    BY <2>1, <2>2 DEF Collect
  <2>8. Collecting(t, tr, finished, n)
    BY <2>3, <2>4, <2>5, <2>6, <2>7 DEF Collecting
  <2> QED
    BY <2>3, <2>6, <2>8, CollectRefs
<1>4. ASSUME NEW t \in Threads, \E ls \in Batches : Submit(t, ls) PROVE RefsKept
  BY <1>4, SubmitRefs
<1>5. ASSUME NEW t \in Threads, Continue(t) PROVE RefsKept
  <2>1. CASE Executed(t)
    BY <1>0, <2>1, ExecutedRefs
  <2>2. CASE TrackerRelease(t)
    BY <1>3, <2>2
  <2>3. CASE ReturnCommandBuffersToPool(t) \/ Updated(t) \/ WaitedSemaphores(t)
    BY <1>0, <2>3, OtherRefs
  <2> QED
    BY <1>5, <2>1, <2>2, <2>3 DEF Continue
<1>6. ASSUME NEW tr \in Trackers, RunGarbageCollection(tr) PROVE RefsKept
  BY <1>0, <1>2, <1>6, OtherRefs DEF RunGarbageCollection
<1>7. ASSUME \/ \E q \in Queues : Complete(q)
             \/ \E t \in Threads : \E x \in Staging \cup Events : Ask(t, x)
             \/ \E e \in Events : ResetEventQuery(e) \/ \E q \in Queues : SetEventQuery(e, q)
             \/ \E b \in Staging : UnmapBuffer(b)
             \/ \E r \in Resources : ReleaseHandle(r)
             \/ UNCHANGED vars
      PROVE  RefsKept
  BY <1>0, <1>7, OtherRefs
<1> QED
  BY <1>1, <1>4, <1>5, <1>6, <1>7 DEF Next

\* Lists and unfinished submissions keep what they use alive.
LEMMA RefsInvariant ==
  ASSUME VulkanQueueAssumption, NoneAssumption, OneThreadPerTracker, "clear" \notin Calls
  PROVE  Spec => []RefsInv
<1>1. Init => RefsInv
  <2>1. ASSUME Init PROVE RefsInv
    <3>1. \A q \in Queues : Unfinished(q) = {}
      BY <2>1 DEF Init, Unfinished
    <3>2. ListsRefer
      BY <2>1 DEF Init, ListsRefer
    <3> QED
      BY <3>1, <3>2 DEF RefsInv, JobsRefer
  <2> QED
    BY <2>1
<1>2. QueueInv /\ QueueInv' /\ RefsInv /\ [Next]_vars => RefsInv'
  BY RefsNext DEF RefsKept
<1> QED
  BY <1>1, <1>2, QueueInvariant, PTL DEF Spec

\* What is referenced is alive.
LEMMA InvariantKeepsAlive == ASSUME Types, RefsInv PROVE NothingDestroyedInUse
<1>1. ASSUME NEW q \in Queues, NEW i \in Unfinished(q), NEW x \in job[q][i].used PROVE x \in Alive
  <2>1. PICK c \in job[q][i].cmds : x \in ReferencedBy(cmd[c])
    BY <1>1 DEF RefsInv, JobsRefer
  <2>2. c \in CommandBuffers
    BY <2>1, TypeFacts
  <2> QED
    BY <2>1, <2>2, AliveFacts
<1>2. ASSUME NEW l \in Lists, phase[l] # "idle", NEW x \in accesses[l] PROVE x \in Alive
  <2>1. x \in ReferencedBy(cmd[currentCmdBuf[l]])
    BY <1>2 DEF RefsInv, ListsRefer
  <2>2. currentCmdBuf[l] \in CommandBuffers
    BY <1>2 DEF Types, TypeOK
  <2> QED
    BY <2>1, <2>2, AliveFacts
<1> QED
  BY <1>1, <1>2 DEF NothingDestroyedInUse

\* Whatever the application releases and when, nothing is destroyed that a list has
\* recorded the use of or that the GPU may still access, if no clear or resolve is
\* recorded, which push no reference (CommandList::clearTexture).
THEOREM NothingIsDestroyedInUse ==
  ASSUME VulkanQueueAssumption, NoneAssumption, OneThreadPerTracker, "clear" \notin Calls
  PROVE  Spec => []NothingDestroyedInUse
<1>1. QueueInv /\ RefsInv => NothingDestroyedInUse
  BY InvariantKeepsAlive DEF QueueInv
<1> QED
  BY <1>1, QueueInvariant, RefsInvariant, PTL

-----------------------------------------------------------------------------
(* The queue implements ResourceLifetime.                                   *)

\* What ResourceLifetime takes for used is alive.
LEMMA UsedIsAlive ==
  ASSUME VulkanQueueAssumption, Types, RefsInv
  PROVE  Lifetime!InUse \subseteq Alive
<1>0. NothingDestroyedInUse
  BY InvariantKeepsAlive
<1>1. held \subseteq Alive
  BY AliveFacts
<1>2. ASSUME NEW l \in Lists PROVE Recording[l] \subseteq Alive
  BY <1>0 DEF Recording, NothingDestroyedInUse
<1>3. ASSUME NEW q \in Queues, NEW x \in Lifetime!Elements(Executing[q]) PROVE x \subseteq Alive
  <2>1. completed[q] \in Nat /\ Len(job[q]) \in Nat
    BY DEF Types, TypeOK
  <2>2. PICK i \in 1..(Len(job[q]) - completed[q]) : x = job[q][completed[q] + i].used
    BY <1>3, <2>1 DEF Executing, Lifetime!Elements
  <2>3. completed[q] + i \in Unfinished(q)
    BY <2>1, <2>2 DEF Unfinished
  <2> QED
    BY <1>0, <2>2, <2>3 DEF NothingDestroyedInUse
<1> QED
  BY <1>1, <1>2, <1>3 DEF Lifetime!InUse

\* Initially everything is held and nothing in use.
LEMMA LifetimeInit ==
  ASSUME VulkanQueueAssumption, Init
  PROVE  Lifetime!Init
<1>1. \A c \in CommandBuffers : ReferencedBy(cmd[c]) = {}
  BY DEF Init, NoBuffer, ReferencedBy
<1>2. Alive = held
  BY <1>1, AliveFacts
<1>3. Recording = [l \in Lists |-> {}]
  BY DEF Init, Recording
<1>4. Executing = [q \in Queues |-> <<>>]
  <2>1. \A q \in Queues : Len(job[q]) - completed[q] = 0
    BY DEF Init
  <2>2. \A q \in Queues : [i \in 1..(Len(job[q]) - completed[q]) |-> job[q][completed[q] + i].used] = <<>>
    BY <2>1
  <2> QED
    BY <2>2 DEF Executing
<1> QED
  BY <1>2, <1>3, <1>4 DEF Init, Lifetime!Init

\* What a list uses, by list, after a step.
RecordingOf(l) == IF phase[l] \in {"open", "closed"} THEN accesses[l] ELSE {}
ExecutingOf(q) == [i \in 1..(Len(job[q]) - completed[q]) |-> job[q][completed[q] + i].used]

\* Recording and Executing, list by list and queue by queue.
LEMMA MapFacts ==
  /\ Recording = [l \in Lists |-> RecordingOf(l)] /\ Recording' = [l \in Lists |-> RecordingOf(l)']
  /\ Executing = [q \in Queues |-> ExecutingOf(q)] /\ Executing' = [q \in Queues |-> ExecutingOf(q)']
  BY DEF Recording, Executing, RecordingOf, ExecutingOf

\* Steps that change neither what is recorded nor what is executed.
LEMMA SameExecuting ==
  ASSUME UNCHANGED gpuVars
  PROVE  Executing' = Executing
<1>1. \A q \in Queues : ExecutingOf(q)' = ExecutingOf(q)
  BY DEF ExecutingOf, gpuVars
<1> QED
  BY <1>1, MapFacts

\* Recording stays as long as no list opens, records or is submitted.
LEMMA SameRecording ==
  ASSUME \A l \in Lists : RecordingOf(l)' = RecordingOf(l)
  PROVE  Recording' = Recording
  BY MapFacts

\* ... after a step too.
LEMMA UsedStaysAlive ==
  ASSUME VulkanQueueAssumption
  PROVE  Types' /\ RefsInv' => Lifetime!InUse' \subseteq Alive'
<1>1. Types /\ RefsInv => Lifetime!InUse \subseteq Alive
  BY UsedIsAlive
<1>2. (Types /\ RefsInv => Lifetime!InUse \subseteq Alive)'
  BY <1>1, PTL
<1> QED
  BY <1>2

\* A step of ResourceLifetime's actions destroys nothing in use and revives nothing.
LEMMA LifetimeStep ==
  ASSUME VulkanQueueAssumption, Types', RefsKept,
         \/ \E l \in Lists : Lifetime!Begin(l) \/ (\E r \in Resources : Lifetime!Use(l, r))
         \/ \E q \in Queues : Lifetime!Finish(q) \/ (\E S \in SUBSET Lists : Lifetime!Submit(q, S))
         \/ \E r \in Resources : Lifetime!Release(r)
         \/ held' = held /\ Recording' = Recording /\ Executing' = Executing
  PROVE  Lifetime!Next
<1>1. Lifetime!InUse' \subseteq Alive'
  BY UsedStaysAlive DEF RefsKept
<1>2. Alive' \subseteq Alive
  BY DEF RefsKept
<1> QED
  BY <1>1, <1>2 DEF Lifetime!Next

\* open() begins a recording that uses the list itself.
LEMMA OpenBegins ==
  ASSUME Types, NEW l \in Lists, Open(l)
  PROVE  Lifetime!Begin(l)
<1>1. /\ l \in held /\ UNCHANGED <<held, gpuVars>>
      /\ phase' = [phase EXCEPT ![l] = "open"] /\ accesses' = [accesses EXCEPT ![l] = {l}]
  BY DEF Open, hostVars
<1>2. \A k \in Lists : RecordingOf(k)' = IF k = l THEN {l} ELSE RecordingOf(k)
  BY <1>1 DEF RecordingOf, Types, TypeOK
<1>3. Recording' = [Recording EXCEPT ![l] = {l}]
  BY <1>2, MapFacts
<1>4. Executing' = Executing
  BY <1>1, SameExecuting
<1> QED
  BY <1>1, <1>3, <1>4 DEF Lifetime!Begin

\* A recorded command uses what it accesses.
LEMMA AccessUses ==
  ASSUME Types, RefsInv, NEW l \in Lists, NEW r \in Resources, Accesses(l, r)
  PROVE  Lifetime!Use(l, r)
<1>1. /\ phase[l] = "open" /\ r \in held /\ UNCHANGED <<held, phase, gpuVars>>
      /\ accesses' = [accesses EXCEPT ![l] = @ \cup {r}]
  BY DEF Accesses, hostVars
<1>2. /\ \A k \in Lists : RecordingOf(k)' = IF k = l THEN RecordingOf(l) \cup {r} ELSE RecordingOf(k)
  BY <1>1 DEF RecordingOf, Types, TypeOK
<1>3. Recording' = [Recording EXCEPT ![l] = @ \cup {r}]
  BY <1>2, MapFacts
<1>4. l \in Recording[l]
  BY <1>1 DEF Recording, RefsInv, ListsRefer
<1>5. Executing' = Executing
  BY <1>1, SameExecuting
<1> QED
  BY <1>1, <1>3, <1>4, <1>5 DEF Lifetime!Use

\* A function from 1..n is a sequence of length n.
LEMMA FunctionsAreSeqs ==
  ASSUME NEW S, NEW n \in Nat, NEW f \in [1..n -> S]
  PROVE  f \in Seq(S) /\ Len(f) = n
  BY SeqDef

\* The GPU finishes the first of the submissions that execute.
LEMMA CompleteFinishes ==
  ASSUME Types, NEW q \in Queues, Complete(q)
  PROVE  Lifetime!Finish(q)
<1>1. /\ UNCHANGED <<held, phase, accesses, job>> /\ completed[q] < Len(job[q])
      /\ completed' = [completed EXCEPT ![q] = @ + 1]
  BY DEF Complete, hostVars, listVars
<1>2. Recording' = Recording
  BY <1>1 DEF Recording
<1>3. \A p \in Queues : completed[p] \in Nat /\ Len(job[p]) \in Nat
  BY DEF Types, TypeOK
<1>4. \A p \in Queues : p # q => ExecutingOf(p)' = ExecutingOf(p)
  BY <1>1 DEF ExecutingOf, Types, TypeOK
<1>5. PICK n \in Nat, m \in Nat : n = completed[q] /\ m = Len(job[q])
  BY <1>3
<1>6. PICK s : s = job[q]
  OBVIOUS
<1>7. /\ ExecutingOf(q) = [i \in 1..(m - n) |-> s[n + i].used]
      /\ ExecutingOf(q)' = [i \in 1..(m - (n + 1)) |-> s[(n + 1) + i].used] /\ n < m
  BY <1>1, <1>5, <1>6 DEF ExecutingOf, Types, TypeOK
<1>8. PICK from : from = ExecutingOf(q)
  OBVIOUS
<1>9. from # <<>> /\ Tail(from) = ExecutingOf(q)'
  <2> DEFINE U == {s[n + i].used : i \in 1..(m - n)}
  <2>1. m - n \in Nat \ {0} /\ from = [i \in 1..(m - n) |-> s[n + i].used]
    BY <1>7, <1>8
  <2>2. from \in [1..(m - n) -> U]
    BY <2>1
  <2> HIDE DEF U
  <2>3. from \in Seq(U) /\ Len(from) = m - n
    BY <2>1, <2>2, FunctionsAreSeqs
  <2>4. from # <<>>
    BY <2>1, <2>3
  <2>5. \A i \in 1..(m - (n + 1)) : from[i + 1] = s[(n + 1) + i].used
    <3>1. \A i \in 1..(m - (n + 1)) : i + 1 \in 1..(m - n) /\ n + (i + 1) = (n + 1) + i
      OBVIOUS
    <3> QED
      BY <2>1, <3>1
  <2>6. /\ Tail(from) \in Seq(U) /\ Len(Tail(from)) = m - (n + 1)
        /\ \A i \in 1..(m - (n + 1)) : Tail(from)[i] = from[i + 1]
    <3>1. /\ Tail(from) \in Seq(U) /\ Len(Tail(from)) = Len(from) - 1
          /\ \A i \in 1..Len(Tail(from)) : Tail(from)[i] = from[i + 1]
      BY <2>3, <2>4, HeadTailProperties
    <3>2. Len(from) - 1 = m - (n + 1)
      BY <2>3
    <3> QED
      BY <3>1, <3>2
  <2>7. PICK rest \in Seq(U) : rest = Tail(from)
    BY <2>6
  <2>8. rest = [i \in 1..(m - (n + 1)) |-> rest[i]]
    BY <2>6, <2>7, LenProperties
  <2> QED
    BY <1>7, <2>4, <2>5, <2>6, <2>7, <2>8, ZenonT(40)
<1>10. Executing[q] # <<>> /\ Executing' = [Executing EXCEPT ![q] = Tail(@)]
  <2>1. Executing[q] = from /\ [Executing EXCEPT ![q] = Tail(@)] = [Executing EXCEPT ![q] = Tail(from)]
    BY <1>8, MapFacts
  <2>2. [Executing EXCEPT ![q] = Tail(from)] = [p \in Queues |-> IF p = q THEN Tail(from) ELSE ExecutingOf(p)]
    BY MapFacts
  <2>3. Executing' = [p \in Queues |-> IF p = q THEN Tail(from) ELSE ExecutingOf(p)]
    BY <1>4, <1>9, MapFacts
  <2> QED
    BY <1>9, <2>1, <2>2, <2>3
<1> QED
  BY <1>1, <1>2, <1>10 DEF Lifetime!Finish

\* The executing sequence of a queue is made of the uses of its unfinished submissions.
LEMMA ExecutingFacts ==
  ASSUME Types, NEW q \in Queues
  PROVE  /\ ExecutingOf(q) \in Seq(SUBSET Resources)
         /\ Len(job[q]) - completed[q] \in Nat => Len(ExecutingOf(q)) = Len(job[q]) - completed[q]
<1>1. completed[q] \in Nat /\ Len(job[q]) \in Nat
  BY DEF Types, TypeOK
<1>2. PICK n \in Nat : n = IF completed[q] <= Len(job[q]) THEN Len(job[q]) - completed[q] ELSE 0
  BY <1>1
<1>3. 1..(Len(job[q]) - completed[q]) = 1..n
  BY <1>1, <1>2
<1>4. \A i \in 1..n : completed[q] + i \in Unfinished(q)
  BY <1>1, <1>2 DEF Unfinished
<1>5. \A i \in 1..n : job[q][completed[q] + i].used \in SUBSET Resources
  BY <1>4, TypeFacts
<1>6. ExecutingOf(q) \in [1..n -> SUBSET Resources]
  BY <1>3, <1>5 DEF ExecutingOf
<1>7. ExecutingOf(q) \in Seq(SUBSET Resources) /\ Len(ExecutingOf(q)) = n
  BY <1>6, FunctionsAreSeqs
<1> QED
  BY <1>1, <1>2, <1>7

\* Append adds one element at the end.
LEMMA AppendFacts ==
  ASSUME NEW S, NEW s \in Seq(S), NEW x \in S, NEW k \in Nat, Len(s) = k
  PROVE  Append(s, x) = [i \in 1..(k + 1) |-> IF i <= k THEN s[i] ELSE x]
<1>1. /\ Append(s, x) \in Seq(S) /\ Len(Append(s, x)) = k + 1
      /\ \A i \in 1..(k + 1) : Append(s, x)[i] = IF i <= k THEN s[i] ELSE x
  OBVIOUS
<1>2. PICK r \in Seq(S) : r = Append(s, x)
  BY <1>1
<1>3. r = [i \in 1..(k + 1) |-> r[i]]
  BY <1>1, <1>2, LenProperties
<1> QED
  BY <1>1, <1>2, <1>3

\* submit() executes what the lists of the batch have recorded.
LEMMA SubmitSubmits ==
  ASSUME VulkanQueueAssumption, NoneAssumption, QueueInv, RefsInv,
         NEW t \in Threads, NEW ls \in Batches, Submit(t, ls)
  PROVE  \E q \in Queues : \E S \in SUBSET Lists : Lifetime!Submit(q, S)
<1>0. Types /\ Numbers
  BY DEF QueueInv
<1>1. PICK q \in Queues : q = QueueOf[ls[1]]
  BY BatchFacts DEF VulkanQueueAssumption
<1>2. PICK S : S = Elements(ls)
  OBVIOUS
<1>3. PICK cmds : cmds = {currentCmdBuf[l] : l \in Elements(ls)}
  OBVIOUS
<1>4. PICK used : used = UNION {accesses[l] : l \in S}
  OBVIOUS
<1>5. /\ job' = [job EXCEPT ![q] = Append(@, [used |-> used, cmds |-> cmds])]
      /\ phase' = [l \in Lists |-> IF l \in S THEN "submitted" ELSE phase[l]]
      /\ UNCHANGED <<accesses, held, completed>>
  BY <1>1, <1>2, <1>3, <1>4 DEF Submit
<1>6. Submitting(t, ls, q, cmds)
  BY <1>1, <1>3, SubmitFacts
<1>7. \A l \in S : l \in Lists /\ phase[l] = "closed"
  BY <1>2, <1>6 DEF Submitting
<1>8. \A l \in S : RecordingOf(l) = accesses[l] /\ l \in accesses[l] /\ accesses[l] \subseteq Resources
  BY <1>0, <1>7 DEF RecordingOf, RefsInv, ListsRefer, Types, TypeOK
<1>9. Recording' = [l \in Lists |-> IF l \in S THEN {} ELSE Recording[l]]
  <2>1. \A l \in Lists : RecordingOf(l)' = IF l \in S THEN {} ELSE RecordingOf(l)
    BY <1>5 DEF RecordingOf
  <2> QED
    BY <2>1, MapFacts
<1>10. \A l \in S : l \in Recording[l] /\ Recording[l] = accesses[l]
  BY <1>7, <1>8, MapFacts
<1>11. used = UNION {Recording[l] : l \in S} /\ used \in SUBSET Resources
  BY <1>4, <1>8, <1>10
<1> DEFINE new == [used |-> used, cmds |-> cmds]
           Jobs == [used : SUBSET Resources, cmds : SUBSET CommandBuffers]
<1>12. PICK n \in Nat, m \in Nat : n = completed[q] /\ m = Len(job[q]) /\ n <= m
  BY <1>0 DEF Types, TypeOK, Numbers
<1>13. /\ Len(job'[q]) = m + 1 /\ job'[q][m + 1] = new
       /\ \A i \in 1..m : job'[q][i] = job[q][i]
       /\ \A p \in Queues : p # q => job'[p] = job[p]
  <2>1. new \in Jobs
    <3>1. cmds \subseteq CommandBuffers
      BY <1>6 DEF Submitting
    <3> QED
      BY <1>11, <3>1
  <2> HIDE DEF new, Jobs
  <2>2. job \in [Queues -> Seq(Jobs)]
    BY <1>0 DEF Types, TypeOK, Jobs
  <2>3. job' = [job EXCEPT ![q] = Append(@, new)]
    BY <1>5 DEF new
  <2> QED
    BY <1>12, <2>1, <2>2, <2>3
<1>14. \A p \in Queues : p # q => ExecutingOf(p)' = ExecutingOf(p)
  BY <1>5, <1>13 DEF ExecutingOf
<1>15. PICK from \in Seq(SUBSET Resources) : from = ExecutingOf(q) /\ Len(from) = m - n
  BY <1>0, <1>12, ExecutingFacts
<1>16. \A i \in 1..(m - n) : from[i] = job[q][n + i].used
  BY <1>12, <1>15 DEF ExecutingOf
<1>17. ExecutingOf(q)' = [i \in 1..((m + 1) - n) |-> job'[q][n + i].used]
  <2>1. ExecutingOf(q)' = [i \in 1..(Len(job'[q]) - completed[q]) |-> job'[q][completed[q] + i].used]
    BY <1>5 DEF ExecutingOf
  <2>2. Len(job'[q]) = m + 1
    BY <1>13
  <2> QED
    BY <1>12, <2>1, <2>2
<1>18. ExecutingOf(q)' = Append(from, used)
  <2>1. \A i \in 1..(m - n) : job'[q][n + i].used = from[i]
    <3>1. \A i \in 1..(m - n) : n + i \in 1..m
      BY <1>12
    <3> QED
      BY <1>13, <1>16, <3>1
  <2>2. job'[q][n + ((m + 1) - n)].used = used
    <3>1. n + ((m + 1) - n) = m + 1
      OBVIOUS
    <3> QED
      BY <1>13, <3>1
  <2>3. PICK k \in Nat : k = m - n
    BY <1>12
  <2>4. (m + 1) - n = k + 1
    <3>1. \A a \in Nat, b \in Nat, c \in Nat : c = b - a => (b + 1) - a = c + 1
      OBVIOUS
    <3> QED
      BY <2>3, <3>1
  <2>5. PICK u \in SUBSET Resources : u = used
    BY <1>11
  <2>6. Append(from, u) = [i \in 1..(k + 1) |-> IF i <= k THEN from[i] ELSE u]
    <3>1. Len(from) = k
      BY <1>15, <2>3
    <3>2. PICK Sets : Sets = SUBSET Resources
      OBVIOUS
    <3>3. from \in Seq(Sets) /\ u \in Sets
      BY <3>2
    <3> HIDE <3>2
    <3> QED
      BY <3>1, <3>3, AppendFacts
  <2>7. \A i \in 1..(k + 1) : (IF i <= k THEN from[i] ELSE u) = job'[q][n + i].used
    <3>1. \A i \in 1..(k + 1) : (i <= k /\ i \in 1..k) \/ (~(i <= k) /\ i = k + 1)
      OBVIOUS
    <3> QED
      BY <2>1, <2>2, <2>3, <2>4, <2>5, <3>1
  <2> QED
    BY <1>17, <2>4, <2>5, <2>6, <2>7
<1>19. Executing' = [Executing EXCEPT ![q] = Append(@, used)]
  <2>1. [Executing EXCEPT ![q] = Append(@, used)]
          = [p \in Queues |-> IF p = q THEN Append(from, used) ELSE ExecutingOf(p)]
    BY <1>15, MapFacts
  <2>2. Executing' = [p \in Queues |-> IF p = q THEN Append(from, used) ELSE ExecutingOf(p)]
    BY <1>14, <1>18, MapFacts
  <2> QED
    BY <2>1, <2>2
<1>20. S \in SUBSET Lists
  BY <1>7
<1>21. Lifetime!Submit(q, S)
  BY <1>5, <1>9, <1>10, <1>11, <1>19 DEF Lifetime!Submit
<1> QED
  BY <1>20, <1>21

\* Nothing else changes what lists record, submissions execute or handles hold.
LEMMA OthersStutter ==
  ASSUME VulkanQueueAssumption, Types,
         \/ \E l \in Lists : Close(l)
         \/ \E t \in Threads :
              \/ Executed(t) \/ TrackerRelease(t) \/ ReturnCommandBuffersToPool(t)
              \/ Updated(t) \/ WaitedSemaphores(t)
              \/ \E tr \in Trackers : DeviceCollect(t, tr) \/ TrackerCollect(t, tr)
              \/ \E x \in Staging \cup Events : Ask(t, x)
         \/ \E e \in Events : ResetEventQuery(e) \/ \E q \in Queues : SetEventQuery(e, q)
         \/ \E b \in Staging : UnmapBuffer(b)
         \/ UNCHANGED vars,
         \A t \in Threads : \A l \in Todo(t) : phase[l] = "submitted"
  PROVE  held' = held /\ Recording' = Recording /\ Executing' = Executing
<1>1. UNCHANGED <<held, accesses, gpuVars>>
  BY DEF Close, Executed, TrackerRelease, ReturnCommandBuffersToPool, Updated, WaitedSemaphores,
         DeviceCollect, TrackerCollect, Ask, ResetEventQuery, SetEventQuery, UnmapBuffer, vars,
         listVars, hostVars
<1>2. \A l \in Lists : phase[l] \in Recorded <=> phase'[l] \in Recorded
  <2>1. CASE \E l \in Lists : Close(l)
    BY <2>1 DEF Close, Recorded, Types, TypeOK
  <2>2. CASE \E t \in Threads : Executed(t)
    <3>1. PICK t \in Threads : Executed(t)
      BY <2>2
    <3>2. PICK l : l = Head(call[t].todo)
      OBVIOUS
    <3>3. call[t].op = "execute" /\ phase' = [phase EXCEPT ![l] = "idle"]
      BY <3>1, <3>2 DEF Executed
    <3>4. call[t].todo \in Seq(Lists) /\ call[t].todo # <<>>
      BY <3>3 DEF Types, CallsTyped
    <3>5. l \in Elements(call[t].todo)
      BY <3>2, <3>4, TailApart
    <3>6. phase[l] = "submitted"
      BY <3>3, <3>5 DEF Todo
    <3> QED
      BY <3>3, <3>6 DEF Recorded, Types, TypeOK
  <2>3. CASE UNCHANGED phase
    BY <2>3
  <2> QED
    BY <2>1, <2>2, <2>3
    DEF TrackerRelease, ReturnCommandBuffersToPool, Updated, WaitedSemaphores, DeviceCollect,
        TrackerCollect, Ask, ResetEventQuery, SetEventQuery, UnmapBuffer, vars, listVars
<1>3. \A l \in Lists : RecordingOf(l)' = RecordingOf(l)
  BY <1>1, <1>2 DEF RecordingOf, Recorded
<1> QED
  BY <1>1, <1>3, SameExecuting, SameRecording

\* Every step of the queue is one of ResourceLifetime.
LEMMA LifetimeNext ==
  ASSUME VulkanQueueAssumption, NoneAssumption, OneThreadPerTracker, "clear" \notin Calls,
         QueueInv, QueueInv', RefsInv, [Next]_vars
  PROVE  Lifetime!Next
<1>0. Types /\ Types' /\ TodoOK
  BY DEF QueueInv
<1>1. RefsKept
  BY RefsNext
<1>2. \A t \in Threads : \A l \in Todo(t) : phase[l] = "submitted"
  BY <1>0 DEF TodoOK
<1>3. CASE \E l \in Lists : Record(l)
  <2>1. PICK l \in Lists : Record(l)
    BY <1>3
  <2>2. CASE Open(l)
    BY <1>0, <1>1, <2>2, OpenBegins, LifetimeStep
  <2>3. CASE Close(l)
    BY <1>0, <1>1, <1>2, <2>3, OthersStutter, LifetimeStep
  <2>4. CASE \E r \in Resources : Copy(l, r) \/ Bind(l, r) \/ Clear(l, r)
    <3>1. PICK r \in Resources : Accesses(l, r)
      BY <2>4 DEF Copy, Bind, Clear
    <3> QED
      BY <1>0, <1>1, <3>1, AccessUses, LifetimeStep
  <2> QED
    BY <2>1, <2>2, <2>3, <2>4 DEF Record
<1>4. CASE \E t \in Threads : \E ls \in Batches : Submit(t, ls)
  BY <1>0, <1>1, <1>4, SubmitSubmits, LifetimeStep
<1>5. CASE \E q \in Queues : Complete(q)
  BY <1>0, <1>1, <1>5, CompleteFinishes, LifetimeStep
<1>6. CASE \E r \in Resources : ReleaseHandle(r)
  <2>1. PICK r \in Resources : ReleaseHandle(r)
    BY <1>6
  <2>2. held' = held \ {r} /\ UNCHANGED <<listVars, gpuVars>>
    BY <2>1 DEF ReleaseHandle
  <2>3. Recording' = Recording
    BY <2>2 DEF Recording, listVars
  <2>4. Lifetime!Release(r)
    BY <2>2, <2>3, SameExecuting DEF Lifetime!Release
  <2> QED
    BY <1>0, <1>1, <2>4, LifetimeStep
<1>7. CASE \/ \E t \in Threads :
                \/ Continue(t)
                \/ \E x \in Staging \cup Events : Ask(t, x)
                \/ \E tr \in Trackers : DeviceCollect(t, tr) \/ TrackerCollect(t, tr)
           \/ \E e \in Events : ResetEventQuery(e) \/ \E q \in Queues : SetEventQuery(e, q)
           \/ \E b \in Staging : UnmapBuffer(b)
           \/ UNCHANGED vars
  <2>1. held' = held /\ Recording' = Recording /\ Executing' = Executing
    BY <1>0, <1>2, <1>7, OthersStutter DEF Continue
  <2> QED
    BY <1>0, <1>1, <2>1, LifetimeStep
<1> QED
  BY <1>3, <1>4, <1>5, <1>6, <1>7 DEF Next, RunGarbageCollection

\* The queue keeps the promise of ResourceLifetime: whatever is destroyed has been
\* released by the application, is used by no list being recorded and by nothing the
\* GPU has yet to finish, as long as no clear or resolve is recorded.
THEOREM QueueImplementsLifetime ==
  ASSUME VulkanQueueAssumption, NoneAssumption, OneThreadPerTracker, "clear" \notin Calls
  PROVE  Spec => Lifetime!Spec
<1>1. Init => Lifetime!Init
  BY LifetimeInit
<1>2. QueueInv /\ QueueInv' /\ RefsInv /\ [Next]_vars => [Lifetime!Next]_(Lifetime!vars)
  BY LifetimeNext
<1> QED
  BY <1>1, <1>2, QueueInvariant, RefsInvariant, PTL DEF Spec, Lifetime!Spec

-----------------------------------------------------------------------------
(* What maps, polls and waits return is final.  Staging buffers are         *)
(* remembered under the submission that uses them because the command       *)
(* buffers know them: all that is copied, nothing that is bound.            *)

\* A list's command buffer knows the staging buffers the list accesses, and no others.
StagingRecorded == \A l \in Lists : phase[l] # "idle" =>
    /\ cmd[currentCmdBuf[l]].staging \subseteq accesses[l]
    /\ accesses[l] \cap Staging \subseteq cmd[currentCmdBuf[l]].staging

\* A command buffer that open() may take knows none.
StagingCleared ==
    /\ \A q \in Queues : \A c \in Elements(commandBuffersPool[q]) : cmd[c].staging = {}
    /\ \A t \in Threads : \A c \in Returned(t) : cmd[c].staging = {}
    /\ \A c \in CommandBuffers : c[2] > lastRecordingID[c[1]] => cmd[c].staging = {}

\* A staging buffer the GPU may access is not mapped, and is waited for long enough.
UsesCovered == \A q \in Queues : \A i \in Unfinished(q) : \A x \in job[q][i].used \cap Staging :
    x \notin answered /\ use[x].queue = q /\ i <= use[x].id

\* A reported event has been reached.
EventsReached == \A e \in answered \cap Events :
    use[e].id # 0 /\ use[e].id <= completed[use[e].queue]

\* Who waits does so for the submission that was remembered.
WaitsOn(t) == call[t].op = "wait" \/ (call[t].op = "update" /\ call[t].for \notin Trackers)

WaitsKnown == \A t \in Threads : WaitsOn(t) =>
    /\ use[call[t].for].id # 0
    /\ call[t].op = "update" => call[t].queue = use[call[t].for].queue

AnswersInv == StagingRecorded /\ StagingCleared /\ UsesCovered /\ EventsReached /\ WaitsKnown

\* An opened list's command buffer comes from the pool or is new.
LEMMA OpenStaging ==
  ASSUME VulkanQueueAssumption, NoneAssumption, QueueInv, QueueInv', StagingRecorded, StagingCleared,
         NEW l \in Lists, Open(l)
  PROVE  StagingRecorded' /\ StagingCleared'
<1>0. Types /\ PlacesOK /\ BuffersApart /\ Types' /\ BuffersApart'
  BY DEF QueueInv
<1>1. PICK q \in Queues : q = QueueOf[l]
  BY DEF VulkanQueueAssumption
<1>2. PICK c : c = IF commandBuffersPool[q] = <<>> THEN NewCommandBuffer(q) ELSE Head(commandBuffersPool[q])
  OBVIOUS
<1>3. /\ currentCmdBuf' = [currentCmdBuf EXCEPT ![l] = c]
      /\ cmd' = [b \in CommandBuffers |->
           IF b = c THEN [cmd[c] EXCEPT !.recordingID = lastRecordingID[q] + 1, !.refs = @ \cup {l}]
           ELSE IF b = currentCmdBuf[l] THEN NoBuffer ELSE cmd[b]]
      /\ commandBuffersPool' = [commandBuffersPool EXCEPT ![q] = RemainingPool(q)]
      /\ lastRecordingID' = [lastRecordingID EXCEPT ![q] = lastRecordingID[q] + 1]
  BY <1>1, <1>2 DEF Open, OpenedRefs
<1>4. /\ phase' = [phase EXCEPT ![l] = "open"] /\ accesses' = [accesses EXCEPT ![l] = {l}]
      /\ UNCHANGED call
  BY DEF Open
<1>5. \A k \in Lists : /\ phase'[k] = IF k = l THEN "open" ELSE phase[k]
                       /\ currentCmdBuf'[k] = IF k = l THEN c ELSE currentCmdBuf[k]
                       /\ accesses'[k] = IF k = l THEN {l} ELSE accesses[k]
  BY <1>0, <1>3, <1>4 DEF Types, TypeOK
<1>6. cmd \in [CommandBuffers -> Tracked] /\ c \in CommandBuffers /\ c # None
  <2>1. currentCmdBuf'[l] \in CommandBuffers
    BY <1>0, <1>5 DEF Types, TypeOK
  <2> QED
    BY <1>0, <1>5, <2>1, CommandBufferFacts DEF Types, TypeOK, Tracked
<1>7. /\ cmd'[c].staging = cmd[c].staging
      /\ \A b \in CommandBuffers : b # c => cmd'[b] = cmd[b] \/ cmd'[b].staging = {}
      /\ \A b \in CommandBuffers : b # c /\ b # currentCmdBuf[l] => cmd'[b] = cmd[b]
  <2>1. PICK old \in Tracked : old = cmd[c]
    BY <1>6
  <2> DEFINE new == [old EXCEPT !.recordingID = lastRecordingID[q] + 1, !.refs = @ \cup {l}]
  <2>2. new.staging = old.staging
    BY DEF Tracked
  <2>3. cmd'[c] = new
    BY <1>3, <1>6, <2>1
  <2>4. NoBuffer.staging = {}
    BY DEF NoBuffer
  <2> HIDE DEF new
  <2> QED
    BY <1>3, <2>1, <2>2, <2>3, <2>4
<1>8. commandBuffersPool[q] \in Seq(CommandBuffers) /\ lastRecordingID[q] \in Nat
  BY <1>0 DEF Types, TypeOK
<1>9. cmd[c].staging = {}
  <2>1. CASE commandBuffersPool[q] = <<>>
    <3>1. c = <<q, lastRecordingID[q] + 1>>
      BY <1>2, <2>1 DEF NewCommandBuffer
    <3>2. c[1] = q /\ c[2] > lastRecordingID[q]
      BY <1>8, <3>1
    <3> QED
      BY <1>6, <3>2 DEF StagingCleared
  <2>2. CASE commandBuffersPool[q] # <<>>
    <3>1. c \in Elements(commandBuffersPool[q])
      BY <1>2, <1>8, <2>2, TailApart
    <3> QED
      BY <3>1 DEF StagingCleared
  <2> QED
    BY <2>1, <2>2
<1>10. StagingRecorded'
  <2>1. l \notin Staging
    BY DEF VulkanQueueAssumption
  <2>2. ASSUME NEW k \in Lists, phase'[k] # "idle"
        PROVE  /\ cmd'[currentCmdBuf'[k]].staging \subseteq accesses'[k]
               /\ accesses'[k] \cap Staging \subseteq cmd'[currentCmdBuf'[k]].staging
    <3>1. CASE k = l
      BY <1>5, <1>7, <1>9, <2>1, <3>1
    <3>2. CASE k # l
      <4>1. currentCmdBuf[k] \in CommandBuffers /\ currentCmdBuf[k] # None
        <5>1. currentCmdBuf[k] \in CommandBuffers
          BY <1>0, <1>5, <2>2, <3>2 DEF Types, TypeOK
        <5> QED
          BY <5>1, CommandBufferFacts
      <4>2. currentCmdBuf[k] # c /\ currentCmdBuf[k] # currentCmdBuf[l]
        BY <1>0, <1>5, <3>2, <4>1 DEF BuffersApart
      <4>3. cmd'[currentCmdBuf[k]] = cmd[currentCmdBuf[k]]
        BY <1>7, <4>1, <4>2
      <4> QED
        BY <1>5, <2>2, <3>2, <4>3 DEF StagingRecorded
    <3> QED
      BY <3>1, <3>2
  <2> QED
    BY <2>2 DEF StagingRecorded
<1>11. \A b \in CommandBuffers : cmd[b].staging = {} => cmd'[b].staging = {}
  BY <1>7
<1>12. \A p \in Queues : Elements(commandBuffersPool'[p]) \subseteq Elements(commandBuffersPool[p])
  <2>1. \A p \in Queues : p # q => commandBuffersPool'[p] = commandBuffersPool[p]
    BY <1>0, <1>3 DEF Types, TypeOK
  <2>2. commandBuffersPool'[q] = RemainingPool(q)
    BY <1>0, <1>3 DEF Types, TypeOK
  <2>3. Elements(RemainingPool(q)) \subseteq Elements(commandBuffersPool[q])
    <3>1. PICK free \in Seq(CommandBuffers) : free = commandBuffersPool[q]
      BY <1>8
    <3>2. Distinct(free)
      BY <1>0, <3>1 DEF PlacesOK
    <3>3. CASE free = <<>>
      <4>1. SubSeq(free, 2, Len(free)) = <<>>
        BY <3>3
      <4> QED
        BY <3>1, <3>3, <4>1 DEF RemainingPool
    <3>4. CASE free # <<>>
      <4>1. Elements(SubSeq(free, 2, Len(free))) \subseteq Elements(free)
        <5>1. Tail(free) = SubSeq(free, 2, Len(free)) /\ Elements(Tail(free)) = Elements(free) \ {Head(free)}
          BY <3>2, <3>4, TailApart
        <5> QED
          BY <5>1
      <4> QED
        BY <3>1, <4>1 DEF RemainingPool
    <3> QED
      BY <3>3, <3>4
  <2> QED
    BY <2>1, <2>2, <2>3
<1>13. StagingCleared'
  <2>1. \A p \in Queues : \A b \in Elements(commandBuffersPool[p]) : b \in CommandBuffers
    <3>1. commandBuffersPool \in [Queues -> Seq(CommandBuffers)]
      BY <1>0 DEF Types, TypeOK
    <3> QED
      BY <3>1 DEF Elements
  <2>2. \A t \in Threads : Returned(t)' = Returned(t) /\ \A b \in Returned(t) : b \in CommandBuffers
    BY <1>0, <1>4 DEF Returned, Types, CallsTyped, Elements
  <2>3. \A b \in CommandBuffers : b[2] > lastRecordingID'[b[1]] => b[2] > lastRecordingID[b[1]]
    <3>1. \A b \in CommandBuffers : b[1] \in Queues /\ b[2] \in Nat
      BY CommandBufferFacts
    <3>2. lastRecordingID \in [Queues -> Nat]
      BY <1>0 DEF Types
    <3> QED
      BY <1>3, <3>1, <3>2
  <2>4. \A p \in Queues : \A b \in Elements(commandBuffersPool'[p]) : cmd'[b].staging = {}
    BY <1>11, <1>12, <2>1 DEF StagingCleared
  <2>5. \A t \in Threads : \A b \in Returned(t) : cmd'[b].staging = {}
    BY <1>11, <2>2 DEF StagingCleared
  <2>6. \A b \in CommandBuffers : b[2] > lastRecordingID'[b[1]] => cmd'[b].staging = {}
    BY <1>11, <2>3 DEF StagingCleared
  <2> QED
    BY <2>2, <2>4, <2>5, <2>6 DEF StagingCleared, Elements
<1> QED
  BY <1>10, <1>13

\* The staging buffers of command buffers and what lists access stay, and command
\* buffers only go back to the pool.
StagingStill ==
    /\ lastRecordingID' = lastRecordingID
    /\ \A c \in CommandBuffers : cmd'[c].staging = cmd[c].staging
    /\ \A l \in Lists : phase'[l] # "idle" =>
         phase[l] # "idle" /\ currentCmdBuf'[l] = currentCmdBuf[l] /\ accesses'[l] = accesses[l]
    /\ \A q \in Queues : \A c \in Elements(commandBuffersPool'[q]) :
         c \in Elements(commandBuffersPool[q]) \/ \E t \in Threads : c \in Returned(t)
    /\ \A t \in Threads : Returned(t)' \subseteq Returned(t)

\* What the places hold are command buffers.
LEMMA HeldFacts ==
  ASSUME Types
  PROVE  /\ \A q \in Queues : Elements(commandBuffersPool[q]) \subseteq CommandBuffers
         /\ \A t \in Threads : Returned(t) \subseteq CommandBuffers
         /\ \A l \in Lists : phase[l] # "idle" => currentCmdBuf[l] \in CommandBuffers
<1>1. commandBuffersPool \in [Queues -> Seq(CommandBuffers)]
  BY DEF Types, TypeOK
<1>2. \A q \in Queues : Elements(commandBuffersPool[q]) \subseteq CommandBuffers
  BY <1>1 DEF Elements
<1>3. \A t \in Threads : Returned(t) \subseteq CommandBuffers
  BY DEF Returned, Types, CallsTyped, Elements
<1>4. \A l \in Lists : phase[l] # "idle" => currentCmdBuf[l] \in CommandBuffers
  BY DEF Types, TypeOK
<1> QED
  BY <1>2, <1>3, <1>4

\* Then all stays as it is.
LEMMA StillKeepsStaging ==
  ASSUME Types, StagingRecorded, StagingCleared, StagingStill
  PROVE  StagingRecorded' /\ StagingCleared'
<1>1. ASSUME NEW l \in Lists, phase'[l] # "idle"
      PROVE  /\ cmd'[currentCmdBuf'[l]].staging \subseteq accesses'[l]
             /\ accesses'[l] \cap Staging \subseteq cmd'[currentCmdBuf'[l]].staging
  <2>1. phase[l] # "idle" /\ currentCmdBuf'[l] = currentCmdBuf[l] /\ accesses'[l] = accesses[l]
    BY <1>1 DEF StagingStill
  <2>2. cmd'[currentCmdBuf[l]].staging = cmd[currentCmdBuf[l]].staging
    BY <2>1, HeldFacts DEF StagingStill
  <2> QED
    BY <2>1, <2>2 DEF StagingRecorded
<1>2. StagingRecorded'
  BY <1>1 DEF StagingRecorded
<1>3. \A q \in Queues : \A c \in Elements(commandBuffersPool'[q]) : cmd'[c].staging = {}
  BY HeldFacts DEF StagingStill, StagingCleared
<1>4. \A t \in Threads : \A c \in Returned(t)' : cmd'[c].staging = {}
  BY HeldFacts DEF StagingStill, StagingCleared
<1>5. \A c \in CommandBuffers : c[2] > lastRecordingID'[c[1]] => cmd'[c].staging = {}
  BY DEF StagingStill, StagingCleared
<1>6. StagingCleared'
  BY <1>3, <1>4, <1>5 DEF StagingCleared, Elements
<1> QED
  BY <1>2, <1>6

\* A copy's staging buffer is added to what the list accesses and to what its command
\* buffer knows; any other command's resource is no staging buffer.
LEMMA AccessStaging ==
  ASSUME VulkanQueueAssumption, NoneAssumption, "bind" \notin Calls, QueueInv,
         StagingRecorded, StagingCleared,
         NEW l \in Lists, NEW r \in Resources, Copy(l, r) \/ Bind(l, r) \/ Clear(l, r)
  PROVE  StagingRecorded' /\ StagingCleared'
<1>0. Types /\ PlacesOK /\ BuffersApart
  BY DEF QueueInv
<1>1. Accesses(l, r) /\ (Copy(l, r) \/ (r \notin Staging /\ UNCHANGED cmd))
  BY DEF Copy, Bind, Clear
<1>2. PICK b \in CommandBuffers : b = currentCmdBuf[l]
  BY <1>0, <1>1 DEF Accesses, Types, TypeOK
<1>3. cmd \in [CommandBuffers -> Tracked]
  BY <1>0 DEF Types, TypeOK, Tracked
<1>4. PICK old \in Tracked : old = cmd[b]
  BY <1>3
<1>5. /\ \A c \in CommandBuffers : c # b => cmd'[c] = cmd[c]
      /\ cmd'[b].staging = IF r \in Staging THEN cmd[b].staging \cup {r} ELSE cmd[b].staging
  <2>1. CASE r \in Staging /\ cmd' = [cmd EXCEPT ![b] = [old EXCEPT !.staging = @ \cup {r}]]
    <3> DEFINE new == [old EXCEPT !.staging = @ \cup {r}]
    <3>1. new.staging = old.staging \cup {r}
      BY DEF Tracked
    <3>2. cmd' = [cmd EXCEPT ![b] = new]
      BY <2>1
    <3> HIDE DEF new
    <3> QED
      BY <1>3, <1>4, <2>1, <3>1, <3>2
  <2>2. CASE r \notin Staging /\ cmd' = [cmd EXCEPT ![b] = [old EXCEPT !.refs = @ \cup {r}]]
    <3> DEFINE new == [old EXCEPT !.refs = @ \cup {r}]
    <3>1. new.staging = old.staging
      BY DEF Tracked
    <3>2. cmd' = [cmd EXCEPT ![b] = new]
      BY <2>2
    <3> HIDE DEF new
    <3> QED
      BY <1>3, <1>4, <2>2, <3>1, <3>2
  <2>3. CASE r \notin Staging /\ UNCHANGED cmd
    BY <2>3
  <2> QED
    BY <1>1, <1>2, <1>3, <1>4, <2>1, <2>2, <2>3 DEF Copy
<1>6. /\ phase' = phase /\ currentCmdBuf' = currentCmdBuf /\ phase[l] = "open"
      /\ lastRecordingID' = lastRecordingID /\ commandBuffersPool' = commandBuffersPool /\ call' = call
      /\ \A k \in Lists : accesses'[k] = IF k = l THEN accesses[l] \cup {r} ELSE accesses[k]
  BY <1>0, <1>1 DEF Accesses, queueVars, Types, TypeOK
<1>7. StagingRecorded'
  <2>1. ASSUME NEW k \in Lists, phase[k] # "idle"
        PROVE  /\ cmd'[currentCmdBuf[k]].staging \subseteq accesses'[k]
               /\ accesses'[k] \cap Staging \subseteq cmd'[currentCmdBuf[k]].staging
    <3>1. /\ cmd[currentCmdBuf[k]].staging \subseteq accesses[k]
          /\ accesses[k] \cap Staging \subseteq cmd[currentCmdBuf[k]].staging
      BY <2>1 DEF StagingRecorded
    <3>2. currentCmdBuf[k] \in CommandBuffers /\ currentCmdBuf[k] # None
      BY <1>0, <2>1, HeldFacts, CommandBufferFacts
    <3>3. CASE k = l
      BY <1>2, <1>5, <1>6, <3>1, <3>3
    <3>4. CASE k # l
      <4>1. currentCmdBuf[k] # b
        BY <1>0, <1>2, <3>2, <3>4 DEF BuffersApart
      <4> QED
        BY <1>5, <1>6, <3>1, <3>2, <3>4, <4>1
    <3> QED
      BY <3>3, <3>4
  <2> QED
    BY <1>6, <2>1 DEF StagingRecorded
<1>8. /\ \A q \in Queues : b \notin Elements(commandBuffersPool[q])
      /\ \A t \in Threads : b \notin Returned(t)
      /\ b[2] <= lastRecordingID[b[1]]
  <2>1. b \in Current(l)
    BY <1>2, <1>6 DEF Current, Recorded
  <2>2. ContentsAt
    BY ContentsFacts
  <2>3. <<"list", l>> \in Places /\ b \in Contents[<<"list", l>>]
    BY <2>1, <2>2 DEF ContentsAt
  <2>4. \A q \in Queues : b \notin Elements(commandBuffersPool[q])
    BY <1>0, <2>1, ApartFacts DEF PlacesOK
  <2>5. \A t \in Threads : b \notin Returned(t)
    <3>1. \A t \in Threads : <<"return", t>> # <<"list", l>>
      OBVIOUS
    <3>2. \A t \in Threads : <<"return", t>> \in Places /\ Contents[<<"return", t>>] = Returned(t)
      BY <2>2 DEF ContentsAt
    <3>3. \A p, s \in Places : p # s => Contents[p] \cap Contents[s] = {}
      BY <1>0 DEF PlacesOK, Apart
    <3>4. \A t \in Threads : Contents[<<"return", t>>] \cap Contents[<<"list", l>>] = {}
      BY <2>3, <3>1, <3>2, <3>3
    <3> QED
      BY <2>3, <3>2, <3>4
  <2> QED
    BY <1>0, <2>3, <2>4, <2>5 DEF PlacesOK, Created
<1>9. StagingCleared'
  <2>1. \A q \in Queues : \A c \in Elements(commandBuffersPool[q]) : cmd'[c].staging = {}
    BY <1>0, <1>5, <1>8, HeldFacts DEF StagingCleared
  <2>2. \A t \in Threads : \A c \in Returned(t) : cmd'[c].staging = {}
    BY <1>0, <1>5, <1>8, HeldFacts DEF StagingCleared
  <2>3. \A c \in CommandBuffers : c[2] > lastRecordingID[c[1]] => cmd'[c].staging = {}
    <3>1. \A c \in CommandBuffers : c[2] \in Nat /\ lastRecordingID[c[1]] \in Nat
      BY <1>0, CommandBufferFacts DEF Types
    <3>2. ~(b[2] > lastRecordingID[b[1]])
      BY <1>8, <3>1
    <3> QED
      BY <1>5, <3>2 DEF StagingCleared
  <2>4. \A t \in Threads : Returned(t)' = Returned(t)
    BY <1>6 DEF Returned
  <2> QED
    BY <1>6, <2>1, <2>2, <2>3, <2>4 DEF StagingCleared, Elements
<1> QED
  BY <1>7, <1>9

\* A collection forgets the staging buffers of what is finished before it goes back.
LEMMA CollectStaging ==
  ASSUME VulkanQueueAssumption, NoneAssumption, OneThreadPerTracker, QueueInv,
         StagingRecorded, StagingCleared,
         NEW t \in Threads, NEW tr \in Trackers, NEW finished, NEW n \in 0..Len(inFlight[tr]),
         Collecting(t, tr, finished, n), UNCHANGED <<listVars, lastRecordingID>>,
         NEW done, done = Elements(Collectable(tr, n)),
         \A q \in Queues : \A c \in Elements(commandBuffersPool'[q]) :
            c \in Elements(commandBuffersPool[q]) \/ c \in done,
         \A u \in Threads : Returned(u)' \subseteq Returned(u) \cup done
  PROVE  StagingRecorded' /\ StagingCleared'
<1>0. Types
  BY DEF QueueInv
<1>1. Collected(tr, n, done)
  BY CollectFacts
<1>2. \A c \in CommandBuffers : cmd'[c] = IF c \in done THEN Released(c) ELSE cmd[c]
  BY DEF Collecting, Collect
<1>3. \A c \in CommandBuffers : c \in done => cmd'[c].staging = {}
  <2>1. ASSUME NEW c \in CommandBuffers PROVE Released(c).staging = {}
    <3>1. cmd \in [CommandBuffers -> Tracked]
      BY <1>0 DEF Types, TypeOK, Tracked
    <3>2. PICK old \in Tracked : old = cmd[c]
      BY <3>1
    <3>3. [old EXCEPT !.submissionID = 0, !.refs = {}, !.staging = {}].staging = {}
      BY DEF Tracked
    <3> QED
      BY <3>2, <3>3 DEF Released
  <2> QED
    BY <1>2, <2>1
<1>4. \A c \in CommandBuffers : c \notin done => cmd'[c] = cmd[c]
  BY <1>2
<1>5. \A l \in Lists : phase[l] # "idle" => cmd'[currentCmdBuf[l]] = cmd[currentCmdBuf[l]]
  BY <1>0, <1>1, <1>4, HeldFacts DEF Collected
<1>6. StagingRecorded'
  BY <1>5 DEF StagingRecorded, listVars
<1>7. done \subseteq CommandBuffers
  BY <1>1 DEF Collected
<1>8. \A q \in Queues : \A c \in Elements(commandBuffersPool'[q]) : cmd'[c].staging = {}
  <2>1. ASSUME NEW q \in Queues, NEW c \in Elements(commandBuffersPool'[q]) PROVE cmd'[c].staging = {}
    <3>1. CASE c \in done
      BY <1>3, <1>7, <3>1
    <3>2. CASE c \notin done
      <4>1. c \in Elements(commandBuffersPool[q])
        BY <2>1, <3>2
      <4>2. c \in CommandBuffers /\ cmd[c].staging = {}
        BY <1>0, <4>1, HeldFacts DEF StagingCleared
      <4> QED
        BY <1>4, <3>2, <4>2
    <3> QED
      BY <3>1, <3>2
  <2> QED
    BY <2>1
<1>9. \A u \in Threads : \A c \in Returned(u)' : cmd'[c].staging = {}
  <2>1. ASSUME NEW u \in Threads, NEW c \in Returned(u)' PROVE cmd'[c].staging = {}
    <3>1. CASE c \in done
      BY <1>3, <1>7, <3>1
    <3>2. CASE c \notin done
      <4>1. c \in Returned(u)
        BY <2>1, <3>2
      <4>2. c \in CommandBuffers /\ cmd[c].staging = {}
        BY <1>0, <4>1, HeldFacts DEF StagingCleared
      <4> QED
        BY <1>4, <3>2, <4>2
    <3> QED
      BY <3>1, <3>2
  <2> QED
    BY <2>1
<1>10. \A c \in CommandBuffers : c[2] > lastRecordingID[c[1]] => cmd'[c].staging = {}
  BY <1>3, <1>4 DEF StagingCleared
<1>11. StagingCleared'
  BY <1>8, <1>9, <1>10 DEF StagingCleared, Elements
<1> QED
  BY <1>6, <1>11

\* ... for the device's trackers, to the pool.
LEMMA DeviceCollectStaging ==
  ASSUME VulkanQueueAssumption, NoneAssumption, OneThreadPerTracker, QueueInv,
         StagingRecorded, StagingCleared, NEW t \in Threads, NEW tr \in Trackers, DeviceCollect(t, tr)
  PROVE  StagingRecorded' /\ StagingCleared'
<1>0. Types /\ Numbers
  BY DEF QueueInv
<1>1. PICK finished \in {completed[QueueOf[tr]]} \cup BeingStored(t, QueueOf[tr]), n \in 0..Len(inFlight[tr]) :
        /\ FinishedPrefix(tr, finished, n) /\ Collect(tr, n)
        /\ commandBuffersPool' = [commandBuffersPool EXCEPT ![QueueOf[tr]] = @ \o Collectable(tr, n)]
  BY DEF DeviceCollect
<1>2. PICK q \in Queues : q = QueueOf[tr]
  BY DEF VulkanQueueAssumption
<1>3. finished \in Nat /\ finished <= completed[q]
  BY <1>0, <1>1, <1>2, FinishedFacts
<1>4. /\ call[t].op # "execute" /\ t \in Collectors[tr]
      /\ UNCHANGED <<listVars, lastRecordingID, call>>
  BY DEF DeviceCollect, Idle
<1>5. Collecting(t, tr, finished, n)
  BY <1>1, <1>2, <1>3, <1>4 DEF Collecting
<1>6. PICK done : done = Elements(Collectable(tr, n))
  OBVIOUS
<1>7. Collected(tr, n, done)
  BY <1>5, <1>6, CollectFacts
<1>8. \A p \in Queues : \A c \in Elements(commandBuffersPool'[p]) :
        c \in Elements(commandBuffersPool[p]) \/ c \in done
  <2>1. PICK back \in Seq(CommandBuffers) : back = Collectable(tr, n)
    BY <1>7 DEF Collected
  <2>2. commandBuffersPool \in [Queues -> Seq(CommandBuffers)]
    BY <1>0 DEF Types, TypeOK
  <2>3. PICK free \in Seq(CommandBuffers) : free = commandBuffersPool[q]
    BY <2>2
  <2>4. Elements(free \o back) = Elements(free) \cup Elements(back)
    BY JoinApart
  <2>5. commandBuffersPool' = [commandBuffersPool EXCEPT ![q] = free \o back]
    BY <1>1, <1>2, <2>1, <2>3
  <2>6. /\ commandBuffersPool'[q] = free \o back
        /\ \A p \in Queues : p # q => commandBuffersPool'[p] = commandBuffersPool[p]
    BY <2>2, <2>5
  <2>7. \A c \in Elements(commandBuffersPool'[q]) : c \in Elements(commandBuffersPool[q]) \/ c \in done
    BY <1>6, <2>1, <2>3, <2>4, <2>6
  <2> QED
    BY <2>6, <2>7
<1>9. \A u \in Threads : Returned(u)' \subseteq Returned(u) \cup done
  BY <1>4 DEF Returned
<1> QED
  BY <1>4, <1>5, <1>6, <1>8, <1>9, CollectStaging

\* ... for the application's, into the hands of the thread.
LEMMA TrackerReleaseStaging ==
  ASSUME VulkanQueueAssumption, NoneAssumption, OneThreadPerTracker, QueueInv,
         StagingRecorded, StagingCleared, NEW t \in Threads, TrackerRelease(t)
  PROVE  StagingRecorded' /\ StagingCleared'
<1>0. Types /\ Numbers /\ CollectsOwn
  BY DEF QueueInv
<1>1. PICK tr \in Trackers : tr = call[t].for
  BY DEF TrackerRelease
<1>2. PICK finished \in {call[t].value} \cup BeingStored(t, call[t].queue), n \in 0..Len(inFlight[call[t].for]) :
        /\ FinishedPrefix(call[t].for, finished, n) /\ Collect(call[t].for, n)
        /\ call' = [call EXCEPT ![t] =
              IF n = 0 THEN Idle
              ELSE [op |-> "return", queue |-> QueueOf[call[t].for], released |-> Collectable(call[t].for, n)]]
  BY DEF TrackerRelease
<1>3. /\ call[t].op = "update" /\ t \in Collectors[tr] /\ call[t].queue = QueueOf[tr]
      /\ UNCHANGED <<listVars, lastRecordingID, commandBuffersPool>>
  BY <1>0, <1>1 DEF TrackerRelease, CollectsOwn
<1>4. PICK q \in Queues : q = QueueOf[tr]
  BY DEF VulkanQueueAssumption
<1>5. finished \in Nat /\ finished <= completed[q]
  BY <1>0, <1>2, <1>3, <1>4, FinishedFacts
<1>6. FinishedPrefix(tr, finished, n) /\ n \in 0..Len(inFlight[tr])
  BY <1>1, <1>2
<1>7. Collect(tr, n)
  BY <1>1, <1>2 DEF Collect
<1>8. Collecting(t, tr, finished, n)
  BY <1>3, <1>4, <1>5, <1>6, <1>7 DEF Collecting
<1>9. PICK done : done = Elements(Collectable(tr, n))
  OBVIOUS
<1>10. PICK after : after = IF n = 0 THEN Idle
                            ELSE [op |-> "return", queue |-> q, released |-> Collectable(tr, n)]
  OBVIOUS
<1>11. call' = [call EXCEPT ![t] = after]
  BY <1>1, <1>2, <1>4, <1>10
<1>12. \A u \in Threads : Returned(u)' \subseteq Returned(u) \cup done
  <2>1. \A u \in Threads : u # t => call'[u] = call[u]
    BY <1>0, <1>11 DEF Types
  <2>2. call'[t] = after
    BY <1>0, <1>11 DEF Types
  <2>3. call'[t].op = "return" => call'[t].released = Collectable(tr, n)
    BY <1>10, <2>2 DEF Idle
  <2>4. Returned(t)' \subseteq done
    BY <1>9, <2>3 DEF Returned, Elements
  <2> QED
    BY <2>1, <2>4 DEF Returned
<1> QED
  BY <1>3, <1>6, <1>8, <1>9, <1>12, CollectStaging

\* Most steps keep staging buffers where they are: they touch neither command buffers
\* nor what lists access.
LEMMA OtherStaging ==
  ASSUME VulkanQueueAssumption, NoneAssumption, QueueInv,
         \/ \E l \in Lists : Close(l)
         \/ \E t \in Threads : Updated(t) \/ WaitedSemaphores(t)
         \/ \E t \in Threads : \E x \in Staging \cup Events : Ask(t, x)
         \/ \E t \in Threads : \E tr \in Trackers : TrackerCollect(t, tr)
         \/ \E q \in Queues : Complete(q) \/ \E e \in Events : SetEventQuery(e, q)
         \/ \E e \in Events : ResetEventQuery(e)
         \/ \E b \in Staging : UnmapBuffer(b)
         \/ \E r \in Resources : ReleaseHandle(r)
         \/ UNCHANGED vars
  PROVE  StagingStill
<1>0. Types
  BY DEF QueueInv
<1>1. UNCHANGED <<lastRecordingID, commandBuffersPool, cmd, currentCmdBuf, accesses>>
  BY DEF Close, Updated, WaitedSemaphores, Ask, TrackerCollect, Complete, SetEventQuery,
         ResetEventQuery, UnmapBuffer, ReleaseHandle, vars, queueVars, listVars
<1>2. \A l \in Lists : phase'[l] # "idle" => phase[l] # "idle"
  <2>1. phase' = phase \/ \E l \in Lists : phase[l] = "open" /\ phase' = [phase EXCEPT ![l] = "closed"]
    BY DEF Close, Updated, WaitedSemaphores, Ask, TrackerCollect, Complete, SetEventQuery,
           ResetEventQuery, UnmapBuffer, ReleaseHandle, vars, queueVars, listVars
  <2> QED
    BY <1>0, <2>1 DEF Types, TypeOK
<1>3. ASSUME NEW t \in Threads PROVE Returned(t)' \subseteq Returned(t)
  <2>1. call' = call \/ \E u \in Threads : \E v : v.op # "return" /\ call' = [call EXCEPT ![u] = v]
    <3>0. Idle.op # "return"
      BY DEF Idle
    <3>1. CASE \E u \in Threads : Updated(u)
      <4>1. PICK u \in Threads : Updated(u)
        BY <3>1
      <4>2. PICK v : v = [op |-> "wait", for |-> call[u].for]
        OBVIOUS
      <4>9. v.op # "return"
        BY <4>2
      <4>3. call' = [call EXCEPT ![u] = Idle] \/ call' = [call EXCEPT ![u] = v]
        BY <4>1, <4>2 DEF Updated
      <4> QED
        BY <3>0, <4>3, <4>9
    <3>2. CASE \E u \in Threads : WaitedSemaphores(u)
      BY <3>0, <3>2 DEF WaitedSemaphores
    <3>3. CASE \E u \in Threads : \E x \in Staging \cup Events : Ask(u, x)
      <4>1. PICK u \in Threads, x \in Staging \cup Events : Ask(u, x)
        BY <3>3
      <4>2. PICK q : q = use[x].queue
        OBVIOUS
      <4>3. PICK v : v = [op |-> "update", queue |-> q, value |-> completed[q], for |-> x]
        OBVIOUS
      <4>9. v.op # "return"
        BY <4>3
      <4>4. call' = call \/ call' = [call EXCEPT ![u] = v]
        BY <4>1, <4>2, <4>3 DEF Ask, ReadCounter
      <4> QED
        BY <4>4, <4>9
    <3>4. CASE \E u \in Threads : \E tr \in Trackers : TrackerCollect(u, tr)
      <4>1. PICK u \in Threads, tr \in Trackers : TrackerCollect(u, tr)
        BY <3>4
      <4>2. PICK q : q = QueueOf[tr]
        OBVIOUS
      <4>3. PICK v : v = [op |-> "update", queue |-> q, value |-> completed[q], for |-> tr]
        OBVIOUS
      <4>9. v.op # "return"
        BY <4>3
      <4>4. call' = [call EXCEPT ![u] = v]
        BY <4>1, <4>2, <4>3 DEF TrackerCollect, ReadCounter
      <4> QED
        BY <4>4, <4>9
    <3> QED
      BY <3>1, <3>2, <3>3, <3>4 DEF Close, Complete, SetEventQuery, ResetEventQuery, UnmapBuffer,
                                    ReleaseHandle, vars
  <2>2. \A u \in Threads : call'[u] = call[u] \/ call'[u].op # "return"
    BY <1>0, <2>1 DEF Types, Idle
  <2> QED
    BY <2>2 DEF Returned
<1> QED
  BY <1>1, <1>2, <1>3 DEF StagingStill

\* Neither does submit(), which gives the command buffers their submission ...
LEMMA SubmitStaging ==
  ASSUME VulkanQueueAssumption, NoneAssumption, QueueInv, NEW t \in Threads, NEW ls \in Batches,
         Submit(t, ls)
  PROVE  StagingStill
<1>0. Types
  BY DEF QueueInv
<1>1. PICK cmds : cmds = {currentCmdBuf[l] : l \in Elements(ls)}
  OBVIOUS
<1>6. PICK id : id = lastSubmittedID[QueueOf[ls[1]]] + 1
  OBVIOUS
<1>7. cmd' = [c \in CommandBuffers |->
               IF c \in cmds THEN [cmd[c] EXCEPT !.submissionID = id] ELSE cmd[c]]
  BY <1>1, <1>6 DEF Submit
<1>2. ASSUME NEW c \in CommandBuffers PROVE cmd'[c].staging = cmd[c].staging
  <2>1. cmd \in [CommandBuffers -> Tracked]
    BY <1>0 DEF Types, TypeOK, Tracked
  <2>2. PICK old \in Tracked : old = cmd[c]
    BY <2>1
  <2>3. [old EXCEPT !.submissionID = id].staging = old.staging
    BY DEF Tracked
  <2>4. cmd'[c] = IF c \in cmds THEN [old EXCEPT !.submissionID = id] ELSE old
    BY <1>7, <2>2
  <2> QED
    BY <2>2, <2>3, <2>4
<1>3. UNCHANGED <<lastRecordingID, commandBuffersPool, currentCmdBuf, accesses>>
  BY DEF Submit
<1>4. \A l \in Lists : phase'[l] # "idle" => phase[l] # "idle"
  <2>1. \A l \in Elements(ls) : phase[l] = "closed"
    BY DEF Submit, MayExecute
  <2>2. phase' = [l \in Lists |-> IF l \in Elements(ls) THEN "submitted" ELSE phase[l]]
    BY DEF Submit
  <2> QED
    BY <2>1, <2>2
<1>5. \A u \in Threads : Returned(u)' \subseteq Returned(u)
  <2>1. call' = [call EXCEPT ![t] = [op |-> "execute", todo |-> ls, id |-> id]]
    BY <1>6 DEF Submit
  <2>2. \A u \in Threads : call'[u] = call[u] \/ call'[u].op # "return"
    BY <1>0, <2>1 DEF Types
  <2> QED
    BY <2>2 DEF Returned
<1> QED
  BY <1>2, <1>3, <1>4, <1>5 DEF StagingStill

\* ... executed(), after which the list has none ...
LEMMA ExecutedStaging ==
  ASSUME VulkanQueueAssumption, NoneAssumption, QueueInv, NEW t \in Threads, Executed(t)
  PROVE  StagingStill
<1>0. Types
  BY DEF QueueInv
<1>1. PICK l \in Lists : l = Head(call[t].todo)
  BY <1>0 DEF Executed, Types, CallsTyped
<1>2. /\ UNCHANGED <<lastRecordingID, commandBuffersPool, cmd, accesses>>
      /\ currentCmdBuf' = [currentCmdBuf EXCEPT ![l] = None]
      /\ phase' = [phase EXCEPT ![l] = "idle"]
  BY <1>1 DEF Executed, Detached, queueVars
<1>3. \A k \in Lists : phase'[k] # "idle" => phase[k] # "idle" /\ currentCmdBuf'[k] = currentCmdBuf[k]
  <2>1. phase \in [Lists -> {"idle", "open", "closed", "submitted"}]
        /\ currentCmdBuf \in [Lists -> CommandBuffers \cup {None}]
    BY <1>0 DEF Types, TypeOK
  <2> QED
    BY <1>2, <2>1
<1>4. \A u \in Threads : Returned(u)' \subseteq Returned(u)
  <2>1. call[t].op = "execute"
        /\ call' = [call EXCEPT ![t] = IF Len(call[t].todo) = 1 THEN Idle
                                       ELSE [call[t] EXCEPT !.todo = Tail(call[t].todo)]]
    BY DEF Executed
  <2>2. DOMAIN call = Threads
    BY <1>0 DEF Types
  <2>3. call'[t].op # "return"
    <3>1. PICK old : old = call[t] /\ old.op = "execute"
      BY <2>1
    <3>2. [old EXCEPT !.todo = Tail(old.todo)].op = old.op
      OBVIOUS
    <3>3. call'[t] = Idle \/ call'[t] = [old EXCEPT !.todo = Tail(old.todo)]
      BY <2>1, <2>2, <3>1
    <3>4. Idle.op = "none"
      BY DEF Idle
    <3>5. call'[t].op = "none" \/ call'[t].op = "execute"
      BY <3>1, <3>2, <3>3, <3>4
    <3> QED
      BY <3>5
  <2>4. \A u \in Threads : u # t => call'[u] = call[u]
    BY <2>1, <2>2
  <2> QED
    BY <2>3, <2>4 DEF Returned
<1> QED
  BY <1>2, <1>3, <1>4 DEF StagingStill

\* ... or the return to the pool of what a collection has cleared.
LEMMA ReturnStaging ==
  ASSUME VulkanQueueAssumption, NoneAssumption, QueueInv, NEW t \in Threads,
         ReturnCommandBuffersToPool(t)
  PROVE  StagingStill
<1>0. Types
  BY DEF QueueInv
<1>1. PICK q \in Queues : q = call[t].queue
  BY <1>0 DEF ReturnCommandBuffersToPool, Types, CallsTyped
<1>2. PICK released \in Seq(CommandBuffers) : released = call[t].released
  BY <1>0 DEF ReturnCommandBuffersToPool, Types, CallsTyped
<1>3. PICK pool \in Seq(CommandBuffers) : pool = commandBuffersPool[q]
  BY <1>0 DEF Types, TypeOK
<1>4. /\ UNCHANGED <<lastRecordingID, cmd, listVars>>
      /\ commandBuffersPool' = [commandBuffersPool EXCEPT ![q] = pool \o released]
      /\ call' = [call EXCEPT ![t] = Idle]
      /\ Returned(t) = Elements(released)
  BY <1>1, <1>2, <1>3 DEF ReturnCommandBuffersToPool, Returned
<1>5. Elements(pool \o released) = Elements(pool) \cup Elements(released)
  BY JoinApart
<1>6. PICK joined : joined = pool \o released
  OBVIOUS
<1>7. commandBuffersPool \in [Queues -> Seq(CommandBuffers)]
  BY <1>0 DEF Types, TypeOK
<1>8. \A p \in Queues : commandBuffersPool'[p] = IF p = q THEN joined ELSE commandBuffersPool[p]
  BY <1>4, <1>6, <1>7
<1>9. \A p \in Queues : \A c \in Elements(commandBuffersPool'[p]) :
        c \in Elements(commandBuffersPool[p]) \/ \E u \in Threads : c \in Returned(u)
  BY <1>3, <1>4, <1>5, <1>6, <1>8
<1>10. \A u \in Threads : Returned(u)' \subseteq Returned(u)
  <2>1. \A u \in Threads : call'[u] = call[u] \/ call'[u].op # "return"
    BY <1>0, <1>4 DEF Types, Idle
  <2> QED
    BY <2>1 DEF Returned
<1> QED
  BY <1>4, <1>9, <1>10 DEF StagingStill, listVars

\* Every step keeps command buffers and lists agreed on the staging buffers they use.
LEMMA StagingNext ==
  ASSUME VulkanQueueAssumption, NoneAssumption, OneThreadPerTracker, "bind" \notin Calls,
         QueueInv, QueueInv', StagingRecorded, StagingCleared, [Next]_vars
  PROVE  StagingRecorded' /\ StagingCleared'
<1>0. Types
  BY DEF QueueInv
<1>1. ASSUME NEW l \in Lists, Record(l) PROVE StagingRecorded' /\ StagingCleared'
  <2>1. CASE Open(l)
    BY <2>1, OpenStaging
  <2>2. CASE Close(l)
    BY <1>0, <2>2, OtherStaging, StillKeepsStaging
  <2>3. CASE \E r \in Resources : Copy(l, r) \/ Bind(l, r) \/ Clear(l, r)
    BY <2>3, AccessStaging
  <2> QED
    BY <1>1, <2>1, <2>2, <2>3 DEF Record
<1>2. ASSUME NEW t \in Threads, Continue(t) PROVE StagingRecorded' /\ StagingCleared'
  <2>1. CASE TrackerRelease(t)
    BY <2>1, TrackerReleaseStaging
  <2>2. CASE Executed(t) \/ ReturnCommandBuffersToPool(t) \/ Updated(t) \/ WaitedSemaphores(t)
    <3>1. StagingStill
      BY <2>2, ExecutedStaging, ReturnStaging, OtherStaging
    <3> QED
      BY <1>0, <3>1, StillKeepsStaging
  <2> QED
    BY <1>2, <2>1, <2>2 DEF Continue
<1>3. ASSUME NEW t \in Threads, \E ls \in Batches : Submit(t, ls) PROVE StagingRecorded' /\ StagingCleared'
  BY <1>0, <1>3, SubmitStaging, StillKeepsStaging
<1>4. ASSUME NEW tr \in Trackers, RunGarbageCollection(tr) PROVE StagingRecorded' /\ StagingCleared'
  <2>1. PICK t \in Threads : DeviceCollect(t, tr) \/ TrackerCollect(t, tr)
    BY <1>4 DEF RunGarbageCollection
  <2>2. CASE DeviceCollect(t, tr)
    BY <2>2, DeviceCollectStaging
  <2>3. CASE TrackerCollect(t, tr)
    BY <1>0, <2>3, OtherStaging, StillKeepsStaging
  <2> QED
    BY <2>1, <2>2, <2>3
<1>5. ASSUME \/ \E t \in Threads : \E x \in Staging \cup Events : Ask(t, x)
             \/ \E q \in Queues : Complete(q) \/ \E e \in Events : SetEventQuery(e, q)
             \/ \E e \in Events : ResetEventQuery(e)
             \/ \E b \in Staging : UnmapBuffer(b)
             \/ \E r \in Resources : ReleaseHandle(r)
             \/ UNCHANGED vars
      PROVE  StagingRecorded' /\ StagingCleared'
  BY <1>0, <1>5, OtherStaging, StillKeepsStaging
<1> QED
  BY <1>1, <1>2, <1>3, <1>4, <1>5 DEF Next

\* A step that changes neither what is remembered nor what is submitted, and after
\* which only what the GPU is done with is mapped or reported.
Done(x) == use[x].id = 0 \/ use[x].id <= completed[use[x].queue]

Answering ==
    /\ use' = use /\ job' = job /\ \A q \in Queues : completed[q] <= completed'[q]
    /\ \A x \in answered' : x \in answered \/ (Done(x) /\ (x \in Events => use[x].id # 0))

\* Such a step leaves the answers final.
LEMMA AnsweringKeeps ==
  ASSUME Types, Types', UsesCovered, EventsReached, Answering
  PROVE  UsesCovered' /\ EventsReached'
<1>1. /\ \A q \in Queues : completed[q] \in Nat /\ completed'[q] \in Nat /\ completed[q] <= completed'[q]
      /\ \A x \in Staging \cup Events : use[x].id \in Nat /\ (use[x].id # 0 => use[x].queue \in Queues)
      /\ answered' \subseteq Staging \cup Events
  BY DEF Types, TypeOK, Answering
<1>2. ASSUME NEW q \in Queues, NEW i \in Unfinished(q)', NEW x \in job'[q][i].used \cap Staging
      PROVE  x \notin answered' /\ use'[x].queue = q /\ i <= use'[x].id
  <2>1. i \in Unfinished(q) /\ i > completed[q]
    <3>1. PICK n : n = Len(job[q])
      OBVIOUS
    <3>2. i \in (completed'[q] + 1)..n /\ Unfinished(q) = (completed[q] + 1)..n
      BY <3>1 DEF Unfinished, Answering
    <3> QED
      BY <1>1, <3>2
  <2>2. x \notin answered /\ use[x].queue = q /\ i <= use[x].id
    BY <2>1 DEF UsesCovered, Answering
  <2>3. i \in Int
    BY DEF Unfinished
  <2>4. ~Done(x)
    BY <1>1, <2>1, <2>2, <2>3 DEF Done
  <2> QED
    BY <2>2, <2>4 DEF Answering
<1>3. UsesCovered'
  BY <1>2 DEF UsesCovered
<1>4. ASSUME NEW e \in answered' \cap Events
      PROVE  use[e].id # 0 /\ use[e].id <= completed'[use[e].queue]
  <2>1. use[e].id # 0 /\ use[e].id <= completed[use[e].queue]
    BY <1>4 DEF EventsReached, Answering, Done
  <2> QED
    BY <1>1, <2>1
<1>5. EventsReached'
  BY <1>4 DEF EventsReached, Answering
<1> QED
  BY <1>3, <1>5

\* Who did not wait before the step does not after it, unless told what to wait for.
LEMMA WaitsKeep ==
  ASSUME Types, WaitsKnown, use' = use, NEW t \in Threads, NEW new, call' = [call EXCEPT ![t] = new],
         \/ new.op \notin {"update", "wait"}
         \/ new.op = "update" /\ new.for \in Trackers
         \/ use[new.for].id # 0 /\ (new.op = "update" => new.queue = use[new.for].queue)
  PROVE  WaitsKnown'
<1>1. call'[t] = new /\ \A u \in Threads : u # t => call'[u] = call[u]
  BY DEF Types
<1>2. ASSUME NEW u \in Threads, WaitsOn(u)'
      PROVE  /\ use[call'[u].for].id # 0
             /\ call'[u].op = "update" => call'[u].queue = use[call'[u].for].queue
  <2>1. CASE u = t
    BY <1>1, <1>2, <2>1 DEF WaitsOn
  <2>2. CASE u # t
    BY <1>1, <1>2, <2>2 DEF WaitsOn, WaitsKnown
  <2> QED
    BY <2>1, <2>2
<1> QED
  BY <1>2 DEF WaitsKnown

\* Recording, the GPU, collections, unmapping and releasing answer nobody.
LEMMA OtherAnswers ==
  ASSUME VulkanQueueAssumption, NoneAssumption, QueueInv, QueueInv', WaitsKnown,
         \/ \E l \in Lists : Record(l)
         \/ \E t \in Threads : Executed(t) \/ TrackerRelease(t) \/ ReturnCommandBuffersToPool(t)
         \/ \E tr \in Trackers : RunGarbageCollection(tr)
         \/ \E q \in Queues : Complete(q)
         \/ \E b \in Staging : UnmapBuffer(b)
         \/ \E r \in Resources : ReleaseHandle(r)
         \/ UNCHANGED vars
  PROVE  Answering /\ WaitsKnown'
<1>0. Types
  BY DEF QueueInv
<1>1. use' = use /\ job' = job /\ answered' \subseteq answered
  BY DEF Record, Open, Close, Copy, Bind, Clear, Accesses, Executed, TrackerRelease,
         ReturnCommandBuffersToPool, RunGarbageCollection, DeviceCollect, TrackerCollect,
         Complete, UnmapBuffer, ReleaseHandle, vars, hostVars, gpuVars
<1>2. completed' = completed \/ \E q \in Queues : completed' = [completed EXCEPT ![q] = @ + 1]
  BY DEF Record, Open, Close, Copy, Bind, Clear, Accesses, Executed, TrackerRelease,
         ReturnCommandBuffersToPool, RunGarbageCollection, DeviceCollect, TrackerCollect,
         Complete, UnmapBuffer, ReleaseHandle, vars, hostVars, gpuVars
<1>3. \A q \in Queues : completed[q] <= completed'[q]
  <2>1. completed \in [Queues -> Nat]
    BY <1>0 DEF Types, TypeOK
  <2> QED
    BY <1>2, <2>1
<1>4. Answering
  BY <1>1, <1>3 DEF Answering
<1>5. CASE call' = call
  BY <1>1, <1>4, <1>5 DEF WaitsKnown, WaitsOn
<1>6. ASSUME NEW t \in Threads, Executed(t) PROVE WaitsKnown'
  <2>1. PICK old : old = call[t] /\ old.op = "execute"
    BY <1>6 DEF Executed
  <2>2. PICK new : new = IF Len(call[t].todo) = 1 THEN Idle ELSE [old EXCEPT !.todo = Tail(call[t].todo)]
    OBVIOUS
  <2>3. call' = [call EXCEPT ![t] = new]
    BY <1>6, <2>1, <2>2 DEF Executed
  <2>4. [old EXCEPT !.todo = Tail(call[t].todo)].op = "execute" /\ Idle.op = "none"
    BY <2>1 DEF Idle
  <2>5. new.op \notin {"update", "wait"}
    BY <2>2, <2>4
  <2> QED
    BY <1>0, <1>1, <2>3, <2>5, WaitsKeep
<1>7. ASSUME NEW t \in Threads, ReturnCommandBuffersToPool(t) PROVE WaitsKnown'
  <2>1. Idle.op \notin {"update", "wait"}
    BY DEF Idle
  <2> QED
    BY <1>0, <1>1, <1>7, <2>1, WaitsKeep DEF ReturnCommandBuffersToPool
<1>8. ASSUME NEW t \in Threads, TrackerRelease(t) PROVE WaitsKnown'
  <2>1. PICK n \in 0..Len(inFlight[call[t].for]) :
          call' = [call EXCEPT ![t] =
              IF n = 0 THEN Idle
              ELSE [op |-> "return", queue |-> QueueOf[call[t].for], released |-> Collectable(call[t].for, n)]]
    BY <1>8 DEF TrackerRelease
  <2>2. PICK new : new = IF n = 0 THEN Idle
              ELSE [op |-> "return", queue |-> QueueOf[call[t].for], released |-> Collectable(call[t].for, n)]
    OBVIOUS
  <2>3. new.op \notin {"update", "wait"}
    BY <2>2 DEF Idle
  <2>4. call' = [call EXCEPT ![t] = new]
    BY <2>1, <2>2
  <2> QED
    BY <1>0, <1>1, <2>3, <2>4, WaitsKeep
<1>9. ASSUME NEW t \in Threads, NEW tr \in Trackers, TrackerCollect(t, tr) PROVE WaitsKnown'
  <2>1. PICK q : q = QueueOf[tr]
    OBVIOUS
  <2>2. PICK new : new = [op |-> "update", queue |-> q, value |-> completed[q], for |-> tr]
    OBVIOUS
  <2>3. new.op = "update" /\ new.for \in Trackers
    BY <2>2
  <2>4. call' = [call EXCEPT ![t] = new]
    BY <1>9, <2>1, <2>2 DEF TrackerCollect, ReadCounter
  <2> QED
    BY <1>0, <1>1, <2>3, <2>4, WaitsKeep
<1>10. \/ call' = call
       \/ \E t \in Threads : Executed(t) \/ TrackerRelease(t) \/ ReturnCommandBuffersToPool(t)
       \/ \E t \in Threads, tr \in Trackers : TrackerCollect(t, tr)
  BY DEF Record, Open, Close, Copy, Bind, Clear, Accesses, RunGarbageCollection, DeviceCollect,
         Complete, UnmapBuffer, ReleaseHandle, vars
<1> QED
  BY <1>4, <1>5, <1>6, <1>7, <1>8, <1>9, <1>10

\* mapBuffer, a poll or a wait answers when the submission remembered is finished.
LEMMA CallsAnswer ==
  ASSUME VulkanQueueAssumption, NoneAssumption, QueueInv, WaitsKnown, NEW t \in Threads,
         Updated(t) \/ WaitedSemaphores(t) \/ \E x \in Staging \cup Events : Ask(t, x)
  PROVE  Answering /\ WaitsKnown'
<1>0. Types /\ Numbers
  BY DEF QueueInv
<1>1. use' = use /\ job' = job /\ completed' = completed
  BY DEF Updated, WaitedSemaphores, Ask, gpuVars
<1>2. \A q \in Queues : completed[q] \in Nat /\ completed[q] <= completed'[q]
  BY <1>0, <1>1 DEF Types, TypeOK
<1>3. /\ \A x \in Staging \cup Events : use[x].id \in Nat /\ (use[x].id # 0 => use[x].queue \in Queues)
      /\ \A q \in Queues : lastFinishedID[q] \in Nat /\ lastFinishedID[q] <= completed[q]
  BY <1>0 DEF Types, TypeOK, Numbers
<1>4. ASSUME NEW x \in Staging \cup Events, answered' = answered \cup {x},
             Done(x), x \in Events => use[x].id # 0
      PROVE  Answering
  BY <1>1, <1>2, <1>4 DEF Answering
<1>5. ASSUME answered' = answered PROVE Answering
  BY <1>1, <1>2, <1>5 DEF Answering
<1>6. Idle.op \notin {"update", "wait"}
  BY DEF Idle
<1>7. ASSUME NEW x \in Staging \cup Events, Ask(t, x) PROVE Answering /\ WaitsKnown'
  <2>1. PICK q : q = use[x].queue
    OBVIOUS
  <2>2. CASE use[x].id = 0 \/ Reached(x, lastFinishedID[q])
    <3>1. answered' = answered \cup {x} /\ call' = call /\ (x \in Events => use[x].id # 0)
      BY <1>7, <2>1, <2>2 DEF Ask, Answer
    <3>2. Done(x)
      BY <1>2, <1>3, <2>1, <2>2 DEF Done, Reached
    <3>3. WaitsKnown'
      BY <1>1, <3>1 DEF WaitsKnown, WaitsOn
    <3> QED
      BY <1>4, <3>1, <3>2, <3>3
  <2>3. CASE ~(use[x].id = 0 \/ Reached(x, lastFinishedID[q]))
    <3>1. PICK new : new = [op |-> "update", queue |-> q, value |-> completed[q], for |-> x]
      OBVIOUS
    <3>2. call' = [call EXCEPT ![t] = new] /\ answered' = answered
      BY <1>7, <2>1, <2>3, <3>1 DEF Ask, ReadCounter
    <3>3. use[new.for].id # 0 /\ new.queue = use[new.for].queue
      BY <2>1, <2>3, <3>1
    <3> QED
      BY <1>0, <1>1, <1>5, <3>2, <3>3, WaitsKeep
  <2> QED
    BY <2>2, <2>3
<1>8. ASSUME Updated(t) PROVE Answering /\ WaitsKnown'
  <2>1. PICK x \in Staging \cup Events : x = call[t].for
    BY <1>0, <1>8 DEF Updated, Types, CallsTyped
  <2>2. call[t].op = "update" /\ use[x].id # 0 /\ call[t].queue = use[x].queue
    BY <1>8, <2>1 DEF Updated, WaitsKnown, WaitsOn
  <2>3. PICK q \in Queues : q = use[x].queue
    BY <1>3, <2>2
  <2>4. PICK finished \in {call[t].value} \cup BeingStored(t, q) :
          IF Reached(x, finished)
          THEN Answer(x) /\ call' = [call EXCEPT ![t] = Idle]
          ELSE /\ UNCHANGED answered
               /\ \/ call' = [call EXCEPT ![t] = [op |-> "wait", for |-> x]]
                  \/ call' = [call EXCEPT ![t] = Idle]
    BY <1>8, <2>1, <2>2, <2>3 DEF Updated
  <2>5. finished \in Nat /\ finished <= completed[q]
    BY <1>0, <2>2, <2>3, FinishedFacts
  <2>6. CASE Reached(x, finished)
    <3>1. answered' = answered \cup {x} /\ call' = [call EXCEPT ![t] = Idle]
      BY <2>4, <2>6 DEF Answer
    <3>2. Done(x)
      BY <1>2, <1>3, <2>3, <2>5, <2>6 DEF Done, Reached
    <3> QED
      BY <1>0, <1>1, <1>4, <1>6, <2>2, <3>1, <3>2, WaitsKeep
  <2>7. CASE ~Reached(x, finished)
    <3>1. PICK new : new = [op |-> "wait", for |-> x]
      OBVIOUS
    <3>2. answered' = answered /\ (call' = [call EXCEPT ![t] = new] \/ call' = [call EXCEPT ![t] = Idle])
      BY <2>4, <2>7, <3>1
    <3>3. use[new.for].id # 0 /\ new.op = "wait"
      BY <2>2, <3>1
    <3>4. CASE call' = [call EXCEPT ![t] = new]
      BY <1>0, <1>1, <1>5, <3>2, <3>3, <3>4, WaitsKeep
    <3>5. CASE call' = [call EXCEPT ![t] = Idle]
      BY <1>0, <1>1, <1>5, <1>6, <3>2, <3>5, WaitsKeep
    <3> QED
      BY <3>2, <3>4, <3>5
  <2> QED
    BY <2>6, <2>7
<1>9. ASSUME WaitedSemaphores(t) PROVE Answering /\ WaitsKnown'
  <2>1. PICK x \in Staging \cup Events : x = call[t].for
    BY <1>0, <1>9 DEF WaitedSemaphores, Types, CallsTyped
  <2>2. use[x].id # 0
    BY <1>9, <2>1 DEF WaitedSemaphores, WaitsKnown, WaitsOn
  <2>3. /\ answered' = answered \cup {x} /\ call' = [call EXCEPT ![t] = Idle]
        /\ completed[use[x].queue] >= use[x].id
    BY <1>9, <2>1 DEF WaitedSemaphores, Answer, Reached
  <2>4. Done(x)
    BY <1>2, <1>3, <2>2, <2>3 DEF Done
  <2> QED
    BY <1>0, <1>1, <1>4, <1>6, <2>2, <2>3, <2>4, WaitsKeep
<1> QED
  BY <1>7, <1>8, <1>9

\* An event that is set was neither reported nor waited for, one that is reset is
\* neither from then on.
LEMMA EventAnswers ==
  ASSUME VulkanQueueAssumption, NoneAssumption, QueueInv, UsesCovered, EventsReached, WaitsKnown,
         NEW e \in Events, ResetEventQuery(e) \/ \E q \in Queues : SetEventQuery(e, q)
  PROVE  UsesCovered' /\ EventsReached' /\ WaitsKnown'
<1>0. Types
  BY DEF QueueInv
<1>1. /\ UNCHANGED <<call, completed, job>>
      /\ \A x \in Staging \cup Events : x # e => use'[x] = use[x]
      /\ answered' \subseteq answered
      /\ e \notin answered'
  BY <1>0 DEF ResetEventQuery, SetEventQuery, EventsReached, gpuVars, Types, TypeOK
<1>2. \A x \in Staging : x # e
  BY DEF VulkanQueueAssumption
<1>3. UsesCovered'
  <2>1. ASSUME NEW q \in Queues, NEW i \in Unfinished(q)', NEW x \in job'[q][i].used \cap Staging
        PROVE  x \notin answered' /\ use'[x].queue = q /\ i <= use'[x].id
    <3>1. i \in Unfinished(q) /\ x \in job[q][i].used \cap Staging
      BY <1>1, <2>1 DEF Unfinished
    <3>2. x \notin answered /\ use[x].queue = q /\ i <= use[x].id
      BY <3>1 DEF UsesCovered
    <3> QED
      BY <1>1, <1>2, <3>1, <3>2
  <2> QED
    BY <2>1 DEF UsesCovered
<1>4. EventsReached'
  BY <1>1 DEF EventsReached
<1>5. ASSUME NEW t \in Threads, WaitsOn(t) PROVE call[t].for # e /\ call[t].for \in Staging \cup Events
  <2>1. call[t].for \in Staging \cup Events
    BY <1>0, <1>5 DEF WaitsOn, Types, CallsTyped
  <2>2. call[t].for # e
    BY <1>5 DEF ResetEventQuery, SetEventQuery, WaitsKnown, WaitsOn
  <2> QED
    BY <2>1, <2>2
<1>6. WaitsKnown'
  BY <1>1, <1>5 DEF WaitsKnown, WaitsOn
<1> QED
  BY <1>3, <1>4, <1>6

\* submit() remembers itself in every staging buffer its lists access, none of which
\* is mapped, waited for or in use by another queue.
LEMMA SubmitAnswers ==
  ASSUME VulkanQueueAssumption, NoneAssumption, ~SharedStaging, QueueInv,
         StagingRecorded, UsesCovered, EventsReached, WaitsKnown,
         NEW t \in Threads, NEW ls \in Batches, Submit(t, ls)
  PROVE  UsesCovered' /\ EventsReached' /\ WaitsKnown'
<1>0. Types /\ Numbers
  BY DEF QueueInv
<1>1. ls[1] \in Lists /\ \A l \in Elements(ls) : l \in Lists
  BY BatchFacts
<1>2. PICK q \in Queues : q = QueueOf[ls[1]]
  BY <1>1 DEF VulkanQueueAssumption
<1>3. PICK id : id = lastSubmittedID[q] + 1
  OBVIOUS
<1>4. PICK cmds : cmds = {currentCmdBuf[l] : l \in Elements(ls)}
  OBVIOUS
<1>5. PICK used : used = UNION {accesses[l] : l \in Elements(ls)}
  OBVIOUS
<1>6. /\ MayExecute(t, ls, q, used)
      /\ use' = [x \in DOMAIN use |->
            IF \E c \in cmds : x \in cmd[c].staging THEN LastUse(q, id) ELSE use[x]]
      /\ job' = [job EXCEPT ![q] = Append(@, [used |-> used, cmds |-> cmds])]
      /\ call' = [call EXCEPT ![t] = [op |-> "execute", todo |-> ls, id |-> id]]
      /\ UNCHANGED <<answered, completed>>
  BY <1>2, <1>3, <1>4, <1>5 DEF Submit
<1>7. /\ \A l \in Elements(ls) : phase[l] = "closed" /\ accesses[l] \subseteq used
      /\ used \cap mapped = {}
      /\ \A u \in Threads : call[u].op \in {"update", "wait"} => call[u].for \notin used
      /\ \A b \in used \cap Staging :
           use[b].queue \notin {None, q} => use[b].id <= completed[use[b].queue]
  BY <1>5, <1>6 DEF MayExecute
<1>8. ASSUME NEW c \in cmds, NEW x \in cmd[c].staging PROVE x \in used \cap Staging
  <2>1. PICK l \in Elements(ls) : c = currentCmdBuf[l]
    BY <1>4
  <2>2. phase[l] # "idle" /\ l \in Lists
    BY <1>1, <1>7
  <2>3. x \in accesses[l]
    BY <1>8, <2>1, <2>2 DEF StagingRecorded
  <2>4. c \in CommandBuffers
    BY <1>0, <2>1, <2>2, HeldFacts
  <2>5. x \in Staging
    <3>1. cmd \in [CommandBuffers -> Tracked]
      BY <1>0 DEF Types, TypeOK, Tracked
    <3>2. cmd[c].staging \subseteq Staging
      BY <2>4, <3>1 DEF Tracked
    <3> QED
      BY <1>8, <3>2
  <2> QED
    BY <1>7, <2>3, <2>5
<1>9. ASSUME NEW x \in used \cap Staging PROVE \E c \in cmds : x \in cmd[c].staging
  <2>1. PICK l \in Elements(ls) : x \in accesses[l]
    BY <1>5, <1>9
  <2>2. phase[l] # "idle" /\ l \in Lists
    BY <1>1, <1>7
  <2>3. x \in cmd[currentCmdBuf[l]].staging
    BY <1>9, <2>1, <2>2 DEF StagingRecorded
  <2> QED
    BY <1>4, <2>3
<1>10. \A x \in Staging \cup Events :
         use'[x] = IF x \in used \cap Staging THEN LastUse(q, id) ELSE use[x]
  <2>1. DOMAIN use = Staging \cup Events
    BY <1>0 DEF Types, TypeOK
  <2>2. \A x : (\E c \in cmds : x \in cmd[c].staging) <=> x \in used \cap Staging
    BY <1>8, <1>9
  <2> QED
    BY <1>6, <2>1, <2>2
<1>11. LastUse(q, id).queue = q /\ LastUse(q, id).id = id
  BY DEF LastUse
<1>12. PICK n \in Nat : n = Len(job[q]) /\ lastSubmittedID[q] = n /\ id = n + 1
  BY <1>0, <1>3 DEF Types, TypeOK, Numbers
<1>13. \A p \in Queues : p # q => job'[p] = job[p]
  BY <1>0, <1>6 DEF Types, TypeOK
<1>14. Len(job'[q]) = n + 1 /\ job'[q][n + 1].used = used /\ \A i \in 1..n : job'[q][i] = job[q][i]
  <2> DEFINE Jobs == [used : SUBSET Resources, cmds : SUBSET CommandBuffers]
  <2>1. PICK new : new = [used |-> used, cmds |-> cmds]
    OBVIOUS
  <2>2. PICK old : old = job[q]
    OBVIOUS
  <2>3. job \in [Queues -> Seq(Jobs)]
    BY <1>0 DEF Types, TypeOK
  <2>4. job'[q] = Append(old, new)
    BY <1>6, <2>1, <2>2, <2>3
  <2>5. old \in Seq(Jobs) /\ n = Len(old)
    BY <1>12, <2>2, <2>3
  <2>6. new.used = used
    BY <2>1
  <2> HIDE DEF Jobs
  <2>7. Len(Append(old, new)) = n + 1 /\ Append(old, new)[n + 1] = new
        /\ \A i \in 1..n : Append(old, new)[i] = old[i]
    BY <2>5
  <2> QED
    BY <2>2, <2>4, <2>6, <2>7
<1>15. \A p \in Queues : completed[p] \in Nat /\ completed'[p] = completed[p]
  BY <1>0, <1>6 DEF Types, TypeOK
<1>16. \A x \in Staging : x \in Staging \cup Events /\ use[x].id \in Nat
  BY <1>0 DEF Types, TypeOK
<1>17. ASSUME NEW i \in Unfinished(q)', NEW x \in job'[q][i].used \cap Staging
       PROVE  x \notin answered' /\ use'[x].queue = q /\ i <= use'[x].id
  <2>1. i \in (completed[q] + 1)..(n + 1)
    BY <1>14, <1>15 DEF Unfinished
  <2>2. CASE i = n + 1
    <3>1. x \in used /\ x \notin answered
      BY <1>7, <1>14, <2>2 DEF mapped
    <3>2. use'[x] = LastUse(q, id)
      BY <1>10, <1>16, <3>1
    <3> QED
      BY <1>6, <1>11, <1>12, <2>2, <3>1, <3>2
  <2>3. CASE i # n + 1
    <3>1. i \in Int /\ completed[q] + 1 <= i /\ i <= n /\ i \in 1..n
      BY <1>12, <1>15, <2>1, <2>3
    <3>2. i \in Unfinished(q)
      BY <1>12, <1>15, <3>1 DEF Unfinished
    <3>3. x \in job[q][i].used \cap Staging
      BY <1>14, <3>1
    <3>4. x \notin answered /\ use[x].queue = q /\ i <= use[x].id
      BY <3>2, <3>3 DEF UsesCovered
    <3>5. i <= id
      BY <1>12, <3>1
    <3>6. use'[x] = LastUse(q, id) \/ use'[x] = use[x]
      BY <1>10, <1>16, <3>3
    <3> QED
      BY <1>6, <1>11, <3>4, <3>5, <3>6
  <2> QED
    BY <2>2, <2>3
<1>18. ASSUME NEW p \in Queues, p # q, NEW i \in Unfinished(p)', NEW x \in job'[p][i].used \cap Staging
       PROVE  x \notin answered' /\ use'[x].queue = p /\ i <= use'[x].id
  <2>1. i \in Unfinished(p) /\ x \in job[p][i].used \cap Staging
    BY <1>6, <1>13, <1>18 DEF Unfinished
  <2>2. x \notin answered /\ use[x].queue = p /\ i <= use[x].id
    BY <2>1 DEF UsesCovered
  <2>3. i \in Int /\ completed[p] < i
    BY <1>15, <2>1 DEF Unfinished
  <2>4. ~(use[x].id <= completed[p])
    BY <1>15, <1>16, <2>2, <2>3
  <2>5. p \notin {None, q}
    BY <1>18 DEF NoneAssumption
  <2>6. x \notin used
    BY <1>7, <2>2, <2>4, <2>5
  <2> QED
    BY <1>6, <1>10, <1>16, <2>2, <2>6
<1>19. UsesCovered'
  BY <1>17, <1>18 DEF UsesCovered
<1>20. EventsReached'
  <2>1. \A e \in Events : use'[e] = use[e]
    BY <1>10 DEF VulkanQueueAssumption
  <2> QED
    BY <1>6, <2>1 DEF EventsReached
<1>21. ASSUME NEW u \in Threads, WaitsOn(u)'
       PROVE  /\ use'[call'[u].for].id # 0
              /\ call'[u].op = "update" => call'[u].queue = use'[call'[u].for].queue
  <2>1. PICK new : new = [op |-> "execute", todo |-> ls, id |-> id]
    OBVIOUS
  <2>2. new.op = "execute"
    BY <2>1
  <2>3. DOMAIN call = Threads /\ call' = [call EXCEPT ![t] = new]
    BY <1>0, <1>6, <2>1 DEF Types
  <2>4. u # t /\ call'[u] = call[u]
    BY <1>21, <2>2, <2>3 DEF WaitsOn
  <2>5. WaitsOn(u) /\ call[u].for \in Staging \cup Events
    BY <1>0, <1>21, <2>4 DEF WaitsOn, Types, CallsTyped
  <2>6. call[u].for \notin used
    BY <1>7, <2>5 DEF WaitsOn
  <2>7. use'[call[u].for] = use[call[u].for]
    BY <1>10, <2>5, <2>6
  <2> QED
    BY <2>4, <2>5, <2>7 DEF WaitsKnown
<1>22. WaitsKnown'
  BY <1>21 DEF WaitsKnown
<1> QED
  BY <1>19, <1>20, <1>22

\* Every step leaves the answers final.
LEMMA AnswersNext ==
  ASSUME VulkanQueueAssumption, NoneAssumption, OneThreadPerTracker,
         "bind" \notin Calls, ~SharedStaging, QueueInv, QueueInv', AnswersInv, [Next]_vars
  PROVE  AnswersInv'
<1>0. /\ Types /\ Types'
      /\ StagingRecorded /\ StagingCleared /\ UsesCovered /\ EventsReached /\ WaitsKnown
  BY DEF QueueInv, AnswersInv
<1>1. StagingRecorded' /\ StagingCleared'
  BY <1>0, StagingNext
<1>2. CASE \/ \E l \in Lists : Record(l)
           \/ \E t \in Threads : Executed(t) \/ TrackerRelease(t) \/ ReturnCommandBuffersToPool(t)
           \/ \E tr \in Trackers : RunGarbageCollection(tr)
           \/ \E q \in Queues : Complete(q)
           \/ \E b \in Staging : UnmapBuffer(b)
           \/ \E r \in Resources : ReleaseHandle(r)
           \/ UNCHANGED vars
  <2>1. Answering /\ WaitsKnown'
    BY <1>0, <1>2, OtherAnswers
  <2> QED
    BY <1>0, <1>1, <2>1, AnsweringKeeps DEF AnswersInv
<1>3. CASE \E t \in Threads : Updated(t) \/ WaitedSemaphores(t) \/ \E x \in Staging \cup Events : Ask(t, x)
  <2>1. Answering /\ WaitsKnown'
    BY <1>0, <1>3, CallsAnswer
  <2> QED
    BY <1>0, <1>1, <2>1, AnsweringKeeps DEF AnswersInv
<1>4. CASE \E e \in Events : ResetEventQuery(e) \/ \E q \in Queues : SetEventQuery(e, q)
  <2>1. UsesCovered' /\ EventsReached' /\ WaitsKnown'
    BY <1>0, <1>4, EventAnswers
  <2> QED
    BY <1>1, <2>1 DEF AnswersInv
<1>5. CASE \E t \in Threads : \E ls \in Batches : Submit(t, ls)
  <2>1. UsesCovered' /\ EventsReached' /\ WaitsKnown'
    BY <1>0, <1>5, SubmitAnswers
  <2> QED
    BY <1>1, <2>1 DEF AnswersInv
<1> QED
  BY <1>2, <1>3, <1>4, <1>5 DEF Next, Continue

\* Initially nothing is in use, remembered or waited for.
LEMMA AnswersInit ==
  ASSUME VulkanQueueAssumption, Init
  PROVE  AnswersInv
<1>1. StagingRecorded
  BY DEF Init, StagingRecorded
<1>2. StagingCleared
  <2>1. \A c \in CommandBuffers : cmd[c].staging = {}
    BY DEF Init, NoBuffer
  <2>2. \A q \in Queues : Elements(commandBuffersPool[q]) = {}
    BY EmptyFacts DEF Init
  <2>3. \A t \in Threads : Returned(t) = {}
    BY DEF Init, Returned, Idle
  <2> QED
    BY <2>1, <2>2, <2>3 DEF StagingCleared
<1>3. UsesCovered
  <2>1. \A q \in Queues : Unfinished(q) = {}
    BY DEF Init, Unfinished
  <2> QED
    BY <2>1 DEF UsesCovered
<1>4. EventsReached /\ WaitsKnown
  BY DEF Init, EventsReached, WaitsKnown, WaitsOn, Idle
<1> QED
  BY <1>1, <1>2, <1>3, <1>4 DEF AnswersInv

\* What the invariant says of mapped buffers and reported events.
LEMMA InvariantAnswers == ASSUME Types, AnswersInv PROVE AnswersFinal
<1>1. MappedBuffersIdle
  BY DEF AnswersInv, UsesCovered, MappedBuffersIdle, mapped
<1>2. ASSUME NEW e \in answered \cap Events PROVE completed[use[e].queue] >= use[e].id
  <2>1. use[e].id # 0 /\ use[e].id <= completed[use[e].queue]
    BY DEF AnswersInv, EventsReached
  <2>2. use[e].queue \in Queues /\ use[e].id \in Nat
    BY <2>1 DEF Types, TypeOK
  <2>3. completed[use[e].queue] \in Nat
    BY <2>2 DEF Types, TypeOK
  <2> QED
    BY <2>1, <2>2, <2>3
<1> QED
  BY <1>1, <1>2 DEF AnswersFinal, EventsNotEarly

\* The GPU does not access what mapBuffer has returned, and has finished all that was
\* submitted before an event that a poll or wait reported: as long as the application
\* copies to and from staging buffers, rather than binding them, and uses each on one
\* queue at a time.
THEOREM AnswersStayFinal ==
  ASSUME VulkanQueueAssumption, NoneAssumption, OneThreadPerTracker,
         "bind" \notin Calls, ~SharedStaging
  PROVE  Spec => []AnswersFinal
<1>1. Init => AnswersInv
  BY AnswersInit
<1>2. QueueInv /\ QueueInv' /\ AnswersInv /\ [Next]_vars => AnswersInv'
  BY AnswersNext
<1>3. QueueInv /\ AnswersInv => AnswersFinal
  BY InvariantAnswers DEF QueueInv
<1> QED
  BY <1>1, <1>2, <1>3, QueueInvariant, PTL DEF Spec
============================================================================
