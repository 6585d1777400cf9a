---------------------------- MODULE QueuesProofs ----------------------------
(***************************************************************************)
(* Theorems about D3D12Queue, for any queues, threads, lists, trackers and *)
(* resources, and about QueuesMC, which explores it and VulkanQueue: what  *)
(* is proved of each backend's queues holds of the runs of both, and both  *)
(* implement ResourceLifetime.                                             *)
(***************************************************************************)
EXTENDS QueuesMC, FiniteSetTheorems, SequenceTheorems, WellFoundedInduction, TLAPS

-----------------------------------------------------------------------------
(* The types of what the queues hold and the threads are doing.             *)

SubmissionOp == [kind : {"lists"}, index : Nat, used : SUBSET (Resources \ Events), cmds : SUBSET InternalLists]
SignalOp     == [kind : {"signal"}, value : Nat]
WaitOp       == [kind : {"wait"}, queue : Queues, value : Nat]
GpuOp        == SubmissionOp \cup SignalOp \cup WaitOp

CountCall  == [op : {"count"}, queue : Queues, todo : Seq(Lists), index : Nat]
SignalCall == [op : {"signal", "executed"}, queue : Queues, todo : Seq(Lists), index : Nat, value : Nat]
WaitCall   == [op : {"wait"}, for : Waitable]

Types ==
    /\ TypeOK
    /\ recordingInstance \in [Queues -> Nat]
    /\ gpu \in [Queues -> Seq(GpuOp)]
    /\ call \in [Threads -> {Idle} \cup CountCall \cup SignalCall \cup WaitCall]
    /\ before \in [Events -> SUBSET Nat]
    /\ fenceEvent \in [set : BOOLEAN, on : SUBSET [queue : Queues, value : Nat]]
    /\ \A l \in Lists : refs[l] \cap (Events \cup Lists) = {}
    /\ \A x \in Waitable : use[x] = Never \/ use[x].queue \in Queues

Submits(t) == call[t].op \in {"count", "signal", "executed"}

\* Values that are signalled have been counted.
Numbers ==
    /\ \A q \in Queues :
        /\ fence[q] <= lastSubmittedInstance[q]
        /\ lastCompletedInstance[q] <= lastSubmittedInstance[q]
        /\ \A i \in DOMAIN gpu[q] :
             gpu[q][i].kind = "signal" => gpu[q][i].value <= lastSubmittedInstance[q]
    /\ \A t \in Threads : call[t].op = "signal" => call[t].value <= lastSubmittedInstance[call[t].queue]

\* Submissions are numbered in the order of the queue, without a gap.
OpsNumbered == \A q \in Queues :
    /\ executedOps[q] <= submittedOps[q]
    /\ \A i \in DOMAIN gpu[q] : IsSubmission(gpu[q][i]) =>
         /\ gpu[q][i].index \in (executedOps[q] + 1)..submittedOps[q]
         /\ \A j \in DOMAIN gpu[q] : IsSubmission(gpu[q][j]) /\ i < j => gpu[q][i].index < gpu[q][j].index
    /\ \A n \in (executedOps[q] + 1)..submittedOps[q] :
         \E i \in DOMAIN gpu[q] : IsSubmission(gpu[q][i]) /\ gpu[q][i].index = n

\* A call that submits tells lists of its own, each once.
CallsOK == \A t \in Threads : Submits(t) =>
    /\ call[t].todo # <<>> /\ IsInjective(call[t].todo)
    /\ \A l \in ToSet(call[t].todo) :
         phase[l] = "submitted" /\ ThreadOf[l] = t /\ QueueOf[l] = call[t].queue
    /\ call[t].index \in 1..submittedOps[call[t].queue]
    /\ \A u \in Threads : Submits(u) /\ call[u].queue = call[t].queue /\ call[u].index = call[t].index => u = t

SubmittedOK == \A l \in Lists : phase[l] = "submitted" =>
    Submits(ThreadOf[l]) /\ l \in ToSet(call[ThreadOf[l]].todo)

\* A list has internal lists of its own, each once.
PoolsOK == \A l \in Lists :
    /\ \A c \in ToSet(pool[l]) : c[1] = l
    /\ IsInjective(pool[l])
    /\ active[l] # None => active[l][1] = l /\ active[l] \notin ToSet(pool[l])

\* The internal lists that have a number, which were opened for once.
Numbered(l) == {n \in 1..MaxOpens[QueueOf[l]] :
    \/ <<l, n>> \in ToSet(pool[l]) \/ active[l] = <<l, n>>
    \/ \E q \in Queues : \E op \in Pending(q) : <<l, n>> \in op.cmds}

FewNumbered == \A l \in Lists : Cardinality(Numbered(l)) < recordingInstance[QueueOf[l]]

\* A value v that the fence of a queue reaches only after its operation i: the fence and
\* what was read of it are behind v, and so are the signals before i.
Late(ops, i, reached, done, v) ==
    /\ reached < v /\ done < v
    /\ \A j \in DOMAIN ops : j < i /\ ops[j].kind = "signal" => ops[j].value < v

\* The call that made a submission has yet to tell this list.
Tells(q, op, l) ==
    /\ phase[l] = "submitted" /\ Submits(ThreadOf[l]) /\ l \in ToSet(call[ThreadOf[l]].todo)
    /\ call[ThreadOf[l]].queue = q /\ call[ThreadOf[l]].index = op.index

\* As soon as a submission is counted the last value is later than it.
CountedOK == \A q \in Queues : \A i \in DOMAIN gpu[q] : IsSubmission(gpu[q][i]) =>
    \/ \E t \in Threads : /\ call[t].op = "count" /\ call[t].queue = q
                          /\ call[t].index = gpu[q][i].index
    \/ Late(gpu[q], i, fence[q], lastCompletedInstance[q], lastSubmittedInstance[q])

\* The internal lists of a submission remember a later value as soon as they are pooled.
CmdsOK == \A q \in Queues : \A i \in DOMAIN gpu[q] : IsSubmission(gpu[q][i]) =>
    \A c \in gpu[q][i].cmds :
        /\ c[1] \in Lists /\ QueueOf[c[1]] = q
        /\ \/ active[c[1]] = c /\ Tells(q, gpu[q][i], c[1])
           \/ /\ c \in ToSet(pool[c[1]])
              /\ Late(gpu[q], i, fence[q], lastCompletedInstance[q], submittedAs[c])

QueueInv == Types /\ Numbers /\ OpsNumbered /\ CallsOK /\ SubmittedOK /\ PoolsOK /\ FewNumbered
            /\ CountedOK /\ CmdsOK

-----------------------------------------------------------------------------
(* What answers depend on.                                                  *)

Answerable == Staging \cup Timers

\* So do staging resources and timers, and none that is used has been answered.
UsesOK == \A q \in Queues : \A i \in DOMAIN gpu[q] : IsSubmission(gpu[q][i]) =>
    \A x \in gpu[q][i].used \cap Answerable :
        /\ x \notin answered
        /\ \/ \E l \in Lists : x \in refs[l] /\ Tells(q, gpu[q][i], l)
           \/ /\ use[x].queue = q
              /\ Late(gpu[q], i, fence[q], lastCompletedInstance[q], use[x].value)

\* No two queues use the same.
UsedOn(q, x) ==
    \/ \E i \in DOMAIN gpu[q] : IsSubmission(gpu[q][i]) /\ x \in gpu[q][i].used
    \/ \E l \in Lists : phase[l] = "submitted" /\ QueueOf[l] = q /\ x \in refs[l]

NotShared == \A x \in Answerable : \A q, p \in Queues : UsedOn(q, x) /\ UsedOn(p, x) => q = p

\* What was over when an event was set is reached before the event is.
EventOK(e) ==
    /\ use[e] # Never =>
         /\ before[e] \subseteq 1..submittedOps[use[e].queue]
         /\ \A i \in DOMAIN gpu[use[e].queue] : LET q == use[e].queue IN
              IsSubmission(gpu[q][i]) /\ gpu[q][i].index \in before[e] =>
                  Late(gpu[q], i, fence[q], lastCompletedInstance[q], use[e].value)
    /\ e \in answered => use[e] # Never /\ before[e] \subseteq 1..executedOps[use[e].queue]

EventsOK == \A e \in Events : EventOK(e)

\* What x stands for is over.
Over(x) ==
    /\ \A q \in Queues : \A i \in DOMAIN gpu[q] :
         IsSubmission(gpu[q][i]) => x \notin gpu[q][i].used
    /\ x \in Events => before[x] \subseteq 1..executedOps[use[x].queue]

\* One thread waits at most, and the event is set when that is over.
WaitOK ==
    /\ \A t, u \in Threads : call[t].op = "wait" /\ call[u].op = "wait" => t = u
    /\ (\A t \in Threads : call[t].op # "wait") => fenceEvent.on = {}
    /\ \A t \in Threads : call[t].op = "wait" =>
         /\ use[call[t].for].queue \in Queues
         /\ \A l \in Lists : phase[l] = "submitted" => call[t].for \notin refs[l]
         /\ \/ ~fenceEvent.set /\ fenceEvent.on = {use[call[t].for]}
            \/ fenceEvent.set /\ fenceEvent.on = {} /\ Over(call[t].for)

\* The values waited for have been counted.
UseCounted == \A x \in Waitable : use[x] # Never => use[x].value <= lastSubmittedInstance[use[x].queue]

AnswersInv == UsesOK /\ NotShared /\ UseCounted /\ EventsOK /\ WaitOK

-----------------------------------------------------------------------------
(* What lifetimes depend on.                                                *)

\* What a submission uses is held, in the recording or in a tracker under a later value.
RefsOK == \A q \in Queues : \A i \in DOMAIN gpu[q] : IsSubmission(gpu[q][i]) =>
    \A r \in gpu[q][i].used :
        \/ r \in Lists /\ r \in held
        \/ \E l \in Lists : r \in refs[l] /\ Tells(q, gpu[q][i], l)
        \/ \E tr \in Trackers : QueueOf[tr] = q /\ \E k \in DOMAIN inFlight[tr] :
             /\ r \in inFlight[tr][k].refs
             /\ Late(gpu[q], i, fence[q], lastCompletedInstance[q], inFlight[tr][k].instance)

HeldOK == \A l \in Lists : phase[l] # "idle" => l \in held

-----------------------------------------------------------------------------
(* Facts about the model's operators.                                       *)

\* An internal list is a list and a number.
LEMMA InternalFacts ==
  ASSUME D3D12QueueAssumption
  PROVE  /\ \A c \in InternalLists : c[1] \in Lists /\ c = <<c[1], c[2]>> /\ c # None
                                     /\ c[2] \in 1..MaxOpens[QueueOf[c[1]]]
         /\ \A l \in Lists : \A n \in 1..MaxOpens[QueueOf[l]] : <<l, n>> \in InternalLists
<1>1. \A l \in Lists : MaxOpens[QueueOf[l]] \in Nat
  BY DEF D3D12QueueAssumption
<1>2. \A l \in Lists : \A c \in {l} \X (1..MaxOpens[QueueOf[l]]) :
        c[1] = l /\ c = <<c[1], c[2]>> /\ c[2] \in 1..MaxOpens[QueueOf[l]] /\ c # None
  BY <1>1 DEF D3D12QueueAssumption
<1> QED
  BY <1>2 DEF InternalLists

\* Operations keep their places while others are appended,
LEMMA AppendFacts ==
  ASSUME NEW ops \in Seq(GpuOp), NEW o \in GpuOp
  PROVE  /\ Append(ops, o) \in Seq(GpuOp)
         /\ \A i \in DOMAIN ops : i \in DOMAIN Append(ops, o) /\ Append(ops, o)[i] = ops[i]
         /\ \A i \in DOMAIN Append(ops, o) :
              \/ i \in DOMAIN ops /\ Append(ops, o)[i] = ops[i]
              \/ i \notin DOMAIN ops /\ Append(ops, o)[i] = o /\ \A j \in DOMAIN ops : j < i
         /\ \E i \in DOMAIN Append(ops, o) : i \notin DOMAIN ops
         /\ \A i \in DOMAIN ops : \A a, b, v :
              Late(Append(ops, o), i, a, b, v) <=> Late(ops, i, a, b, v)
<1>1. PICK s : s = Append(ops, o)
  OBVIOUS
<1>2. /\ s \in Seq(GpuOp) /\ Len(s) = Len(ops) + 1 /\ Len(ops) \in Nat
      /\ DOMAIN s = 1..(Len(ops) + 1) /\ DOMAIN ops = 1..Len(ops)
      /\ \A i \in 1..(Len(ops) + 1) : s[i] = IF i <= Len(ops) THEN ops[i] ELSE o
  BY <1>1
<1>3. \A i \in DOMAIN ops : i \in DOMAIN s /\ s[i] = ops[i]
  BY <1>2
<1>4. \A i \in DOMAIN s :
        \/ i \in DOMAIN ops /\ s[i] = ops[i]
        \/ i \notin DOMAIN ops /\ s[i] = o /\ \A j \in DOMAIN ops : j < i
  BY <1>2
<1>5. Len(ops) + 1 \in DOMAIN s /\ Len(ops) + 1 \notin DOMAIN ops
  BY <1>2
<1>6. ASSUME NEW i \in DOMAIN ops, NEW a, NEW b, NEW v
      PROVE  Late(s, i, a, b, v) <=> Late(ops, i, a, b, v)
  <2>1. \A j \in DOMAIN s : j < i => j \in DOMAIN ops /\ s[j] = ops[j]
    BY <1>2
  <2> QED
    BY <1>3, <2>1 DEF Late
<1> QED
  BY <1>1, <1>2, <1>3, <1>4, <1>5, <1>6

\* and move to the front when the first is executed.
LEMMA TailFacts ==
  ASSUME NEW ops \in Seq(GpuOp), ops # <<>>
  PROVE  /\ Head(ops) = ops[1] /\ ops[1] \in GpuOp /\ 1 \in DOMAIN ops /\ Tail(ops) \in Seq(GpuOp)
         /\ \A i \in DOMAIN Tail(ops) : i + 1 \in DOMAIN ops /\ Tail(ops)[i] = ops[i + 1]
         /\ \A i \in DOMAIN ops : i # 1 => i - 1 \in DOMAIN Tail(ops) /\ Tail(ops)[i - 1] = ops[i]
         /\ \A i \in DOMAIN Tail(ops) : \A a, b, v : Late(ops, i + 1, a, b, v) =>
              Late(Tail(ops), i, IF ops[1].kind = "signal" THEN ops[1].value ELSE a, b, v)
<1>1. PICK s : s = Tail(ops)
  OBVIOUS
<1>2. /\ Head(ops) = ops[1] /\ s \in Seq(GpuOp) /\ Len(ops) \in Nat \ {0}
      /\ DOMAIN ops = 1..Len(ops) /\ DOMAIN s = 1..(Len(ops) - 1)
      /\ \A i \in 1..(Len(ops) - 1) : s[i] = ops[i + 1]
  BY <1>1
<1>3. 1 \in DOMAIN ops /\ ops[1] \in GpuOp
  BY <1>2
<1>4. \A i \in DOMAIN s : i + 1 \in DOMAIN ops /\ s[i] = ops[i + 1]
  BY <1>2
<1>5. \A i \in DOMAIN ops : i # 1 => i - 1 \in DOMAIN s /\ s[i - 1] = ops[i]
  BY <1>2
<1>6. ASSUME NEW i \in DOMAIN s, NEW a, NEW b, NEW v, Late(ops, i + 1, a, b, v)
      PROVE  Late(s, i, IF ops[1].kind = "signal" THEN ops[1].value ELSE a, b, v)
  <2>1. \A j \in DOMAIN s : j < i => j + 1 \in DOMAIN ops /\ j + 1 < i + 1 /\ s[j] = ops[j + 1]
    BY <1>2, <1>4
  <2>2. ops[1].kind = "signal" => ops[1].value < v
    BY <1>2, <1>3, <1>6 DEF Late
  <2> QED
    BY <1>6, <2>1, <2>2 DEF Late
<1> QED
  BY <1>1, <1>2, <1>3, <1>4, <1>5, <1>6

\* A sequence without repetitions loses its head, or gains an element, and stays so.
LEMMA InjectiveTail ==
  ASSUME NEW S, NEW s \in Seq(S), s # <<>>, IsInjective(s)
  PROVE  /\ Head(s) \in S /\ Head(s) \in ToSet(s) /\ Tail(s) \in Seq(S) /\ IsInjective(Tail(s))
         /\ ToSet(s) = ToSet(Tail(s)) \cup {Head(s)} /\ Head(s) \notin ToSet(Tail(s))
         /\ Len(s) = 1 <=> Tail(s) = <<>>
<1>1. PICK r : r = Tail(s)
  OBVIOUS
<1>2. /\ r \in Seq(S) /\ Len(s) \in Nat \ {0} /\ Len(r) = Len(s) - 1 /\ DOMAIN s = 1..Len(s) /\ DOMAIN r = 1..(Len(s) - 1)
      /\ \A i \in 1..(Len(s) - 1) : r[i] = s[i + 1]
      /\ Head(s) = s[1] /\ 1 \in DOMAIN s /\ s[1] \in S
  BY <1>1
<1>3. IsInjective(r)
  BY <1>2 DEF IsInjective
<1>4. Head(s) \notin ToSet(r)
  BY <1>2 DEF IsInjective, ToSet
<1>5. ToSet(s) = ToSet(r) \cup {Head(s)}
  <2>1. \A i \in DOMAIN s : i = 1 \/ (i - 1 \in DOMAIN r /\ r[i - 1] = s[i])
    BY <1>2
  <2>2. \A i \in DOMAIN r : i + 1 \in DOMAIN s /\ r[i] = s[i + 1]
    BY <1>2
  <2> QED
    BY <1>2, <2>1, <2>2 DEF ToSet
<1>6. Len(s) = 1 <=> r = <<>>
  BY <1>2
<1> QED
  BY <1>1, <1>2, <1>3, <1>4, <1>5, <1>6 DEF ToSet

LEMMA InjectiveAppend ==
  ASSUME NEW S, NEW s \in Seq(S), NEW x \in S
  PROVE  /\ ToSet(Append(s, x)) = ToSet(s) \cup {x}
         /\ IsInjective(s) /\ x \notin ToSet(s) => IsInjective(Append(s, x))
<1>1. PICK r : r = Append(s, x)
  OBVIOUS
<1>2. /\ r \in Seq(S) /\ Len(s) \in Nat /\ DOMAIN s = 1..Len(s) /\ DOMAIN r = 1..(Len(s) + 1)
      /\ \A i \in 1..(Len(s) + 1) : r[i] = IF i <= Len(s) THEN s[i] ELSE x
  BY <1>1
<1>3. ToSet(r) = ToSet(s) \cup {x}
  <2>1. \A i \in DOMAIN r : (i \in DOMAIN s /\ r[i] = s[i]) \/ r[i] = x
    BY <1>2
  <2>2. \A i \in DOMAIN s : i \in DOMAIN r /\ r[i] = s[i]
    BY <1>2
  <2>3. Len(s) + 1 \in DOMAIN r /\ r[Len(s) + 1] = x
    BY <1>2
  <2> QED
    BY <2>1, <2>2, <2>3 DEF ToSet
<1>4. IsInjective(s) /\ x \notin ToSet(s) => IsInjective(r)
  BY <1>2 DEF IsInjective, ToSet
<1> QED
  BY <1>1, <1>3, <1>4

\* The internal lists with a number are finitely many.
LEMMA NumberedFacts ==
  ASSUME D3D12QueueAssumption, NEW l \in Lists
  PROVE  /\ IsFiniteSet(Numbered(l)) /\ Cardinality(Numbered(l)) \in Nat
         /\ \A S \in SUBSET Numbered(l) : IsFiniteSet(S) /\ Cardinality(S) <= Cardinality(Numbered(l))
                                          /\ Cardinality(S) \in Nat
<1>1. MaxOpens[QueueOf[l]] \in Nat
  BY DEF D3D12QueueAssumption
<1>2. IsFiniteSet(1..MaxOpens[QueueOf[l]])
  BY <1>1, FS_Interval
<1>3. Numbered(l) \subseteq 1..MaxOpens[QueueOf[l]]
  BY DEF Numbered
<1>4. IsFiniteSet(Numbered(l))
  BY <1>2, <1>3, FS_Subset
<1>5. \A S \in SUBSET Numbered(l) : IsFiniteSet(S) /\ Cardinality(S) <= Cardinality(Numbered(l))
  BY <1>4, FS_Subset
<1> QED
  BY <1>4, <1>5, FS_CardinalityType

\* Nothing new is numbered.
LEMMA FewStay ==
  ASSUME D3D12QueueAssumption, FewNumbered, Types, UNCHANGED recordingInstance,
         \A l \in Lists : Numbered(l)' \subseteq Numbered(l)
  PROVE  FewNumbered'
<1> SUFFICES ASSUME NEW l \in Lists
             PROVE  Cardinality(Numbered(l)') < recordingInstance[QueueOf[l]]
  BY DEF FewNumbered
<1>1. PICK S : S = Numbered(l)'
  OBVIOUS
<1>2. Cardinality(S) <= Cardinality(Numbered(l)) /\ Cardinality(S) \in Nat
      /\ Cardinality(Numbered(l)) \in Nat
  BY <1>1, NumberedFacts
<1>3. recordingInstance[QueueOf[l]] \in Nat
  BY DEF Types, D3D12QueueAssumption
<1>4. Cardinality(Numbered(l)) < recordingInstance[QueueOf[l]]
  BY DEF FewNumbered
<1> QED
  BY <1>1, <1>2, <1>3, <1>4

\* Garbage collection keeps everything from the first that is not finished.
LEMMA FirstUnfinishedFacts ==
  ASSUME Types, NEW tr \in Trackers, NEW done \in Nat
  PROVE  LET n == FirstUnfinished(tr, done) IN
         /\ n = 0 => \A k \in DOMAIN inFlight[tr] : inFlight[tr][k].instance <= done
         /\ n # 0 => /\ n \in DOMAIN inFlight[tr]
                     /\ \A k \in DOMAIN inFlight[tr] : k < n => inFlight[tr][k].instance <= done
<1> DEFINE I == {k \in 1..Len(inFlight[tr]) : inFlight[tr][k].instance > done}
           n == FirstUnfinished(tr, done)
<1>1. inFlight[tr] \in Seq([instance : Nat, refs : SUBSET Resources])
  BY DEF Types, TypeOK
<1>2. /\ Len(inFlight[tr]) \in Nat /\ DOMAIN inFlight[tr] = 1..Len(inFlight[tr])
      /\ \A k \in DOMAIN inFlight[tr] : inFlight[tr][k].instance \in Nat
  <2>1. /\ Len(inFlight[tr]) \in Nat /\ DOMAIN inFlight[tr] = 1..Len(inFlight[tr])
        /\ \A k \in DOMAIN inFlight[tr] : inFlight[tr][k] \in [instance : Nat, refs : SUBSET Resources]
    <3>1. \A R : \A s \in Seq(R) : Len(s) \in Nat /\ DOMAIN s = 1..Len(s) /\ \A k \in DOMAIN s : s[k] \in R
      OBVIOUS
    <3> QED
      BY <1>1, <3>1
  <2> QED
    BY <2>1
<1>3. n = IF I # {} THEN Min(I) ELSE 0
  BY DEF FirstUnfinished, SelectInSeq
<1>4. I \subseteq Nat
  BY <1>2
<1>5. CASE I = {}
  BY <1>2, <1>3, <1>5
<1>6. CASE I # {}
  <2>1. PICK x \in I : \A y \in I : x <= y
    <3>1. PICK x \in I : \A y \in I : ~(<<y, x>> \in OpToRel(<, Nat))
      BY <1>4, <1>6, NatLessThanWellFounded, WFMin
    <3>2. \A y \in I : ~(y < x)
      BY <3>1, <1>4 DEF OpToRel
    <3> QED
      BY <3>2, <1>4
  <2>2. n \in I /\ \A y \in I : n <= y
    BY <1>3, <1>6, <2>1 DEF Min
  <2>3. \A k \in DOMAIN inFlight[tr] : k < n => k \notin I
    BY <2>2, <1>4, <1>2
  <2> QED
    BY <2>2, <2>3, <1>2
<1> QED
  BY <1>5, <1>6

-----------------------------------------------------------------------------
(* The invariant of the queues.                                             *)

LEMMA QueueInvInit ==
  ASSUME D3D12QueueAssumption, Init
  PROVE  QueueInv
<1>1. \A q \in Queues : MaxOpens[q] \in Nat
  BY DEF D3D12QueueAssumption
<1>2. /\ \A q \in Queues : gpu[q] = <<>> /\ fence[q] = 0 /\ submittedOps[q] = 0 /\ executedOps[q] = 0
                          /\ lastSubmittedInstance[q] = 0 /\ lastCompletedInstance[q] = 0
                          /\ recordingInstance[q] = 1
      /\ \A l \in Lists : pool[l] = <<>> /\ active[l] = None /\ phase[l] = "idle" /\ refs[l] = {}
      /\ \A t \in Threads : call[t] = Idle
  BY DEF Init
<1>3. \A t \in Threads : call[t].op = "none"
  BY <1>2 DEF Idle
<1>4. Types
  <2>1. TypeOK
    <3>1. pool \in [Lists -> Seq(InternalLists)] /\ inFlight \in [Trackers -> Seq([instance : Nat, refs : SUBSET Resources])]
      BY DEF Init
    <3>2. use \in [Waitable -> [queue : Queues \cup {None}, value : Nat]]
      BY DEF Init, Never
    <3>3. held \subseteq Resources /\ answered \subseteq Waitable
      BY DEF Init, D3D12QueueAssumption
    <3> QED
      BY <1>1, <1>2, <1>3, <3>1, <3>2, <3>3 DEF TypeOK, Init
  <2>2. gpu \in [Queues -> Seq(GpuOp)]
    BY DEF Init
  <2>3. call \in [Threads -> {Idle} \cup CountCall \cup SignalCall \cup WaitCall]
    BY DEF Init
  <2> QED
    BY <1>2, <2>1, <2>2, <2>3 DEF Types, Init
<1>5. \A t \in Threads : ~Submits(t) /\ call[t].op # "signal"
  BY <1>3 DEF Submits
<1>6. FewNumbered
  <2> SUFFICES ASSUME NEW l \in Lists
               PROVE  Cardinality(Numbered(l)) < recordingInstance[QueueOf[l]]
    BY DEF FewNumbered
  <2>1. Numbered(l) = {}
    <3>1. active[l] = None /\ None \notin Lists \X Nat
      BY <1>2 DEF D3D12QueueAssumption
    <3>2. \A n \in 1..MaxOpens[QueueOf[l]] : <<l, n>> # None
      BY <3>1, <1>1 DEF D3D12QueueAssumption
    <3>3. \A q \in Queues : Pending(q) = {}
      BY <1>2 DEF Pending, ToSet
    <3> QED
      BY <1>2, <3>1, <3>2, <3>3 DEF Numbered, ToSet
  <2> QED
    BY <1>2, <2>1, FS_EmptySet DEF D3D12QueueAssumption
<1>7. \A q \in Queues : DOMAIN gpu[q] = {}
  BY <1>2
<1>8. Numbers /\ OpsNumbered /\ CountedOK /\ CmdsOK
  BY <1>2, <1>3, <1>5, <1>7 DEF Numbers, OpsNumbered, CountedOK, CmdsOK
<1>9. CallsOK /\ SubmittedOK
  BY <1>2, <1>5 DEF CallsOK, SubmittedOK
<1>10. PoolsOK
  BY <1>2 DEF PoolsOK, ToSet, IsInjective
<1> QED
  BY <1>4, <1>6, <1>8, <1>9, <1>10 DEF QueueInv

\* A call that submits has a queue, and lists to tell.
LEMMA SubmitsFacts ==
  ASSUME Types, NEW t \in Threads, Submits(t)
  PROVE  /\ call[t].queue \in Queues /\ call[t].todo \in Seq(Lists) /\ call[t].index \in Nat
         /\ ToSet(call[t].todo) \subseteq Lists
         /\ call[t].op # "count" => call[t].value \in Nat
         /\ call[t] \in CountCall \cup SignalCall
         /\ call[t].op = "count" <=> call[t] \in CountCall
<1>1. call[t] \in CountCall \cup SignalCall
  BY DEF Types, Submits, Idle, CountCall, SignalCall, WaitCall
<1>2. call[t].todo \in Seq(Lists)
  BY <1>1 DEF CountCall, SignalCall
<1>3. ToSet(call[t].todo) \subseteq Lists
  BY <1>2 DEF ToSet
<1> QED
  BY <1>1, <1>2, <1>3 DEF CountCall, SignalCall

\* Steps of the application that only observe what the queues have done.
Quiet ==
    /\ UNCHANGED <<lastSubmittedInstance, recordingInstance, pool, active, submittedAs, gpuVars>>
    /\ \A q \in Queues : lastCompletedInstance'[q] \in {lastCompletedInstance[q], fence[q]}
    /\ \A l \in Lists : phase'[l] = "submitted" <=> phase[l] = "submitted"
    /\ \A t \in Threads : Submits(t) \/ Submits(t)' => call'[t] = call[t]

\* The GPU is as far behind a value as it was.
LEMMA LateStays ==
  ASSUME NEW ops, NEW i, NEW a, NEW b, NEW c \in {a, b}, NEW v, Late(ops, i, a, b, v)
  PROVE  Late(ops, i, a, c, v)
BY DEF Late

\* A counted submission stays counted when nothing of the queues moves but the value read.
LEMMA CountedStay ==
  ASSUME CountedOK, UNCHANGED <<gpu, fence, lastSubmittedInstance>>,
         \A t \in Threads : call[t].op = "count" => call'[t] = call[t],
         \A q \in Queues : \A i, v : Late(gpu[q], i, fence[q], lastCompletedInstance[q], v) =>
           Late(gpu[q], i, fence[q], lastCompletedInstance'[q], v)
  PROVE  CountedOK'
<1> SUFFICES ASSUME NEW q \in Queues, NEW i \in DOMAIN gpu[q], IsSubmission(gpu[q][i])
             PROVE  \/ \E t \in Threads : /\ call'[t].op = "count" /\ call'[t].queue = q
                                           /\ call'[t].index = gpu[q][i].index
                    \/ Late(gpu[q], i, fence[q], lastCompletedInstance'[q], lastSubmittedInstance[q])
  BY DEF CountedOK
<1>1. CASE \E t \in Threads : /\ call[t].op = "count" /\ call[t].queue = q
                              /\ call[t].index = gpu[q][i].index
  BY <1>1
<1>2. CASE Late(gpu[q], i, fence[q], lastCompletedInstance[q], lastSubmittedInstance[q])
  BY <1>2
<1> QED
  BY <1>1, <1>2 DEF CountedOK

\* Where the submissions of every queue are numbered in the next state.
LEMMA OpsNumberedNext ==
  ASSUME UNCHANGED <<submittedOps, executedOps>>,
         \A p \in Queues :
           /\ executedOps[p] <= submittedOps[p]
           /\ \A i \in DOMAIN gpu'[p] : IsSubmission(gpu'[p][i]) =>
                /\ gpu'[p][i].index \in (executedOps[p] + 1)..submittedOps[p]
                /\ \A j \in DOMAIN gpu'[p] : IsSubmission(gpu'[p][j]) /\ i < j =>
                     gpu'[p][i].index < gpu'[p][j].index
           /\ \A n \in (executedOps[p] + 1)..submittedOps[p] :
                \E i \in DOMAIN gpu'[p] : IsSubmission(gpu'[p][i]) /\ gpu'[p][i].index = n
  PROVE  OpsNumbered'
BY DEF OpsNumbered

\* The internal lists of a list are where they were.
LEMMA NumberedStay ==
  ASSUME NEW l, UNCHANGED <<pool, active>>, \A p \in Queues : Pending(p)' = Pending(p)
  PROVE  Numbered(l)' = Numbered(l)
<1> DEFINE In(n) == \E q \in Queues : \E op \in Pending(q) : <<l, n>> \in op.cmds
           InNext(n) == \E q \in Queues : \E op \in Pending(q)' : <<l, n>> \in op.cmds
<1>1. \A n : In(n) <=> InNext(n)
  OBVIOUS
<1>2. Numbered(l) = {n \in 1..MaxOpens[QueueOf[l]] :
        <<l, n>> \in ToSet(pool[l]) \/ active[l] = <<l, n>> \/ In(n)}
  BY DEF Numbered
<1>3. Numbered(l)' = {n \in 1..MaxOpens[QueueOf[l]] :
        <<l, n>> \in ToSet(pool[l]) \/ active[l] = <<l, n>> \/ InNext(n)}
  BY DEF Numbered
<1> HIDE DEF In, InNext
<1> QED
  BY <1>1, <1>2, <1>3

LEMMA QuietSteps ==
  ASSUME D3D12QueueAssumption, QueueInv, Quiet, Types'
  PROVE  QueueInv'
<1> USE DEF QueueInv, gpuVars
<1>1. \A t \in Threads : /\ Submits(t)' <=> Submits(t)
                         /\ Submits(t) => call'[t] = call[t]
                         /\ \A op \in {"count", "signal"} : call'[t].op = op <=> call[t].op = op
                         /\ call[t].op = "signal" \/ call'[t].op = "signal" => call'[t] = call[t]
                         /\ call[t].op = "count" \/ call'[t].op = "count" => call'[t] = call[t]
  BY DEF Quiet, Submits
<1>2. Numbers'
  BY <1>1 DEF Numbers, Quiet
<1>3. OpsNumbered'
  BY DEF OpsNumbered, Quiet
<1>4. CallsOK'
  <2>1. \A t \in Threads : Submits(t) => ToSet(call[t].todo) \subseteq Lists
    BY SubmitsFacts
  <2>2. \A l \in Lists : phase[l] = "submitted" => phase'[l] = "submitted"
    BY DEF Quiet
  <2>3. submittedOps' = submittedOps
    BY DEF Quiet
  <2> QED
    BY <1>1, <2>1, <2>2, <2>3 DEF CallsOK
<1>5. SubmittedOK'
  BY <1>1 DEF SubmittedOK, Quiet, D3D12QueueAssumption
<1>6. PoolsOK'
  BY DEF PoolsOK, Quiet
<1>7. FewNumbered'
  <2>1. \A l \in Lists : Numbered(l)' = Numbered(l)
    BY DEF Numbered, Quiet, Pending
  <2> QED
    BY <2>1, FewStay DEF Quiet
<1>8. \A q \in Queues : \A i, v : Late(gpu[q], i, fence[q], lastCompletedInstance[q], v) =>
        Late(gpu[q], i, fence[q], lastCompletedInstance'[q], v)
  BY LateStays DEF Quiet
<1>9. CountedOK'
  <2>1. UNCHANGED <<gpu, fence, lastSubmittedInstance>>
    BY DEF Quiet
  <2>2. \A t \in Threads : call[t].op = "count" => call'[t] = call[t]
    BY <1>1
  <2>3. CountedOK
    OBVIOUS
  <2> HIDE DEF QueueInv
  <2> QED
    BY <1>8, <2>1, <2>2, <2>3, CountedStay
<1>10. \A q \in Queues, l \in Lists : \A op : Tells(q, op, l) => Tells(q, op, l)'
  BY <1>1 DEF Tells, Quiet, D3D12QueueAssumption
<1>11. CmdsOK'
  <2>1. UNCHANGED <<gpu, active, pool, fence, submittedAs>>
    BY DEF Quiet
  <2>2. SUFFICES ASSUME NEW q \in Queues, NEW i \in DOMAIN gpu[q], IsSubmission(gpu[q][i]),
                        NEW c \in gpu[q][i].cmds
                 PROVE  /\ c[1] \in Lists /\ QueueOf[c[1]] = q
                        /\ \/ active[c[1]] = c /\ Tells(q, gpu[q][i], c[1])'
                           \/ /\ c \in ToSet(pool[c[1]])
                              /\ Late(gpu[q], i, fence[q], lastCompletedInstance'[q], submittedAs[c])
    BY <2>1 DEF CmdsOK
  <2>3. /\ c[1] \in Lists /\ QueueOf[c[1]] = q
        /\ \/ active[c[1]] = c /\ Tells(q, gpu[q][i], c[1])
           \/ /\ c \in ToSet(pool[c[1]])
              /\ Late(gpu[q], i, fence[q], lastCompletedInstance[q], submittedAs[c])
    BY <2>2 DEF CmdsOK
  <2>4. Tells(q, gpu[q][i], c[1]) => Tells(q, gpu[q][i], c[1])'
    <3>1. PICK op : op = gpu[q][i]
      OBVIOUS
    <3>2. op = gpu'[q][i]
      BY <2>1, <3>1
    <3>3. Tells(q, op, c[1]) => Tells(q, op, c[1])'
      BY <1>10, <2>3
    <3> QED
      BY <3>1, <3>2, <3>3
  <2> QED
    BY <2>3, <2>4, <1>8
<1> QED
  BY <1>2, <1>3, <1>4, <1>5, <1>6, <1>7, <1>9, <1>11

\* updateLastCompletedInstance reads the fence or keeps what it knows.
LEMMA CompletedFacts ==
  ASSUME QueueInv, NEW q \in Queues
  PROVE  /\ Completed(q) \in {lastCompletedInstance[q], fence[q]} /\ Completed(q) \in Nat
         /\ Completed(q) <= lastSubmittedInstance[q]
         /\ lastCompletedInstance[q] < lastSubmittedInstance[q] => Completed(q) = fence[q]
BY DEF Completed, QueueInv, Types, TypeOK, Numbers

LEMMA RecordQuiet ==
  ASSUME D3D12QueueAssumption, QueueInv, NEW l \in Lists, NEW r \in Resources, Record(l, r)
  PROVE  Quiet /\ Types'
<1> USE DEF Record, queueVars, listVars, hostVars, gpuVars
<1>1. Quiet
  BY DEF Quiet, Submits, QueueInv, Types, TypeOK, Idle, Busy, CountCall, SignalCall, WaitCall
<1>2. TypeOK'
  <2>1. TypeOK
    BY DEF QueueInv, Types
  <2>2. refs' \in [Lists -> SUBSET Resources]
    BY <2>1 DEF TypeOK
  <2> QED
    BY <2>1, <2>2 DEF TypeOK
<1>3. Types'
  BY <1>2 DEF QueueInv, Types, D3D12QueueAssumption, Waitable
<1> QED
  BY <1>1, <1>3

LEMMA CloseQuiet ==
  ASSUME D3D12QueueAssumption, QueueInv, NEW l \in Lists, Close(l)
  PROVE  Quiet /\ Types'
<1> USE DEF Close, queueVars, listVars, hostVars, gpuVars
<1>1. Quiet
  BY DEF Quiet, Submits, QueueInv, Types, TypeOK, Idle, Busy, CountCall, SignalCall, WaitCall
<1>2. TypeOK'
  BY DEF QueueInv, Types, TypeOK, Idle, Busy, Waitable, LastUse, Never
<1>3. Types'
  BY <1>2 DEF QueueInv, Types, D3D12QueueAssumption, Waitable
<1> QED
  BY <1>1, <1>3

LEMMA SetEventQuiet ==
  ASSUME D3D12QueueAssumption, QueueInv, NEW q \in Queues, NEW e \in Events, SetEventQuery(e, q)
  PROVE  Quiet /\ Types'
<1> USE DEF SetEventQuery, queueVars, listVars, hostVars, gpuVars
<1>1. Quiet
  BY DEF Quiet, Submits, QueueInv, Types, TypeOK, Idle, Busy, CountCall, SignalCall, WaitCall
<1>2. TypeOK'
  BY DEF QueueInv, Types, TypeOK, Idle, Busy, Waitable, LastUse, Never
<1>3. before' \in [Events -> SUBSET Nat]
  <2>1. before \in [Events -> SUBSET Nat]
    BY DEF QueueInv, Types
  <2>2. \A S : (1..submittedOps[q]) \ S \subseteq Nat
    BY DEF QueueInv, Types, TypeOK
  <2> QED
    BY <2>1, <2>2
<1>4. use' = [use EXCEPT ![e] = LastUse(q)] /\ use \in [Waitable -> [queue : Queues \cup {None}, value : Nat]]
      /\ e \in Waitable
  BY DEF QueueInv, Types, TypeOK, Waitable
<1>5. \A x \in Waitable : use'[x] = Never \/ use'[x].queue \in Queues
  BY <1>4 DEF QueueInv, Types, LastUse
<1>6. Types'
  BY <1>2, <1>3, <1>5 DEF QueueInv, Types
<1> QED
  BY <1>1, <1>6

LEMMA ResetEventQuiet ==
  ASSUME D3D12QueueAssumption, QueueInv, NEW e \in Events, ResetEventQuery(e)
  PROVE  Quiet /\ Types'
<1> USE DEF ResetEventQuery, queueVars, listVars, hostVars, gpuVars
<1>1. Quiet
  BY DEF Quiet, Submits, QueueInv, Types, TypeOK, Idle, Busy, CountCall, SignalCall, WaitCall
<1>2. TypeOK'
  BY DEF QueueInv, Types, TypeOK, Idle, Busy, Waitable, LastUse, Never
<1>3. Types'
  BY <1>2 DEF QueueInv, Types, D3D12QueueAssumption, Waitable
<1> QED
  BY <1>1, <1>3

LEMMA AnswerQuiet ==
  ASSUME D3D12QueueAssumption, QueueInv, NEW t \in Threads, NEW x \in Waitable, Answer(t, x)
  PROVE  Quiet /\ Types'
<1> USE DEF Answer, queueVars, listVars, hostVars, gpuVars
<1>1. Quiet
  BY DEF Quiet, Submits, QueueInv, Types, TypeOK, Idle, Busy, CountCall, SignalCall, WaitCall
<1>2. TypeOK'
  BY DEF QueueInv, Types, TypeOK, Idle, Busy, Waitable, LastUse, Never
<1>3. Types'
  BY <1>2 DEF QueueInv, Types, D3D12QueueAssumption, Waitable
<1> QED
  BY <1>1, <1>3

LEMMA WaitQuiet ==
  ASSUME D3D12QueueAssumption, QueueInv, NEW t \in Threads, NEW x \in Waitable, WaitForFence(t, x)
  PROVE  Quiet /\ Types'
<1> USE DEF WaitForFence, queueVars, listVars, hostVars, gpuVars
<1>1. Types
  BY DEF QueueInv
<1>2. call' = [call EXCEPT ![t] = [op |-> "wait", for |-> x]] /\ call[t].op = "none"
  BY DEF Asks, Idle
<1>3. use[x] # Never
  BY DEF Asks, Reached
<1>4. Quiet
  BY <1>1, <1>2 DEF Quiet, Submits, Types
<1>5. [op |-> "wait", for |-> x] \in WaitCall
  BY DEF WaitCall
<1>6. call' \in [Threads -> {Idle} \cup CountCall \cup SignalCall \cup WaitCall]
  BY <1>1, <1>2, <1>5 DEF Types
<1>7. fenceEvent' \in [set : BOOLEAN, on : SUBSET [queue : Queues, value : Nat]]
  BY <1>1, <1>3 DEF Types, TypeOK
<1>8. TypeOK'
  <2>1. \A u \in Threads : call'[u].op \in {"none", "count", "signal", "executed", "wait"}
    BY <1>1, <1>2 DEF Types, TypeOK
  <2>2. fenceEvent'.set \in BOOLEAN
    BY <1>7
  <2> QED
    BY <1>1, <2>1, <2>2 DEF Types, TypeOK
<1>9. Types'
  BY <1>1, <1>6, <1>7, <1>8 DEF Types
<1> QED
  BY <1>4, <1>9

LEMMA WokenQuiet ==
  ASSUME D3D12QueueAssumption, QueueInv, NEW t \in Threads, Woken(t)
  PROVE  Quiet /\ Types'
<1> USE DEF Woken, Busy, queueVars, listVars, hostVars, gpuVars
<1>1. Types
  BY DEF QueueInv
<1>2. call' = [call EXCEPT ![t] = Idle] /\ call[t].op = "wait"
  OBVIOUS
<1>3. call[t].for \in Waitable
  <2>1. call[t] \in {Idle} \cup CountCall \cup SignalCall \cup WaitCall
    BY <1>1 DEF Types
  <2>2. call[t] \in WaitCall
    BY <2>1, <1>2 DEF Idle, CountCall, SignalCall
  <2> QED
    BY <2>2 DEF WaitCall
<1>4. Quiet
  BY <1>1, <1>2 DEF Quiet, Submits, Types, Idle
<1>5. call' \in [Threads -> {Idle} \cup CountCall \cup SignalCall \cup WaitCall]
  BY <1>1, <1>2 DEF Types
<1>6. fenceEvent' \in [set : BOOLEAN, on : SUBSET [queue : Queues, value : Nat]]
  BY <1>1 DEF Types
<1>7. TypeOK'
  <2>1. \A u \in Threads : call'[u].op \in {"none", "count", "signal", "executed", "wait"}
    BY <1>1, <1>2 DEF Types, TypeOK, Idle
  <2>2. fenceEvent'.set \in BOOLEAN
    BY <1>6
  <2>3. answered' \subseteq Waitable
    BY <1>1, <1>3 DEF Types, TypeOK
  <2> QED
    BY <1>1, <2>1, <2>2, <2>3 DEF Types, TypeOK
<1>8. Types'
  BY <1>1, <1>5, <1>6, <1>7 DEF Types
<1> QED
  BY <1>4, <1>8

LEMMA UnmapQuiet ==
  ASSUME D3D12QueueAssumption, QueueInv, NEW b \in Staging, Unmap(b)
  PROVE  Quiet /\ Types'
<1> USE DEF Unmap, queueVars, listVars, hostVars, gpuVars
<1>1. Quiet
  BY DEF Quiet, Submits, QueueInv, Types, TypeOK, Idle, Busy, CountCall, SignalCall, WaitCall
<1>2. TypeOK'
  BY DEF QueueInv, Types, TypeOK, Idle, Busy, Waitable, LastUse, Never
<1>3. Types'
  BY <1>2 DEF QueueInv, Types, D3D12QueueAssumption, Waitable
<1> QED
  BY <1>1, <1>3

LEMMA ReleaseQuiet ==
  ASSUME D3D12QueueAssumption, QueueInv, NEW r \in Resources, ReleaseHandle(r)
  PROVE  Quiet /\ Types'
<1> USE DEF ReleaseHandle, queueVars, listVars, hostVars, gpuVars
<1>1. Quiet
  BY DEF Quiet, Submits, QueueInv, Types, TypeOK, Idle, Busy, CountCall, SignalCall, WaitCall
<1>2. TypeOK'
  BY DEF QueueInv, Types, TypeOK, Idle, Busy, Waitable, LastUse, Never
<1>3. Types'
  BY <1>2 DEF QueueInv, Types, D3D12QueueAssumption, Waitable
<1> QED
  BY <1>1, <1>3

LEMMA GCQuiet ==
  ASSUME D3D12QueueAssumption, QueueInv, NEW tr \in Trackers, RunGarbageCollection(tr)
  PROVE  Quiet /\ Types'
<1> USE DEF RunGarbageCollection, queueVars, listVars, hostVars, gpuVars
<1>1. Types
  BY DEF QueueInv
<1>2. PICK q \in Queues : q = QueueOf[tr]
  BY DEF D3D12QueueAssumption
<1>3. lastCompletedInstance' = [lastCompletedInstance EXCEPT ![q] = Completed(q)]
  BY <1>2
<1>4. Completed(q) \in {lastCompletedInstance[q], fence[q]} /\ Completed(q) \in Nat
  BY CompletedFacts
<1>5. PICK n : n = FirstUnfinished(tr, Completed(q))
  OBVIOUS
<1>6. inFlight' = [inFlight EXCEPT ![tr] = IF n = 0 THEN <<>> ELSE SubSeq(@, n, Len(@))]
  BY <1>2, <1>5
<1>7. Quiet
  BY <1>1, <1>3, <1>4 DEF Quiet, Submits, Types, TypeOK
<1>8. inFlight' \in [Trackers -> Seq([instance : Nat, refs : SUBSET Resources])]
  <2>1. n # 0 => n \in DOMAIN inFlight[tr]
    BY <1>1, <1>4, <1>5, FirstUnfinishedFacts
  <2>2. \A R : \A s \in Seq(R) : n \in DOMAIN s => SubSeq(s, n, Len(s)) \in Seq(R)
    OBVIOUS
  <2>3. n # 0 => SubSeq(inFlight[tr], n, Len(inFlight[tr])) \in Seq([instance : Nat, refs : SUBSET Resources])
    BY <1>1, <2>1, <2>2 DEF Types, TypeOK
  <2>4. \A T : inFlight \in [Trackers -> T] /\ <<>> \in T
               /\ (n # 0 => SubSeq(inFlight[tr], n, Len(inFlight[tr])) \in T) => inFlight' \in [Trackers -> T]
    <3>1. PICK v : v = SubSeq(inFlight[tr], n, Len(inFlight[tr]))
      OBVIOUS
    <3>2. inFlight' = [inFlight EXCEPT ![tr] = IF n = 0 THEN <<>> ELSE v]
      BY <1>6, <3>1
    <3> HIDE DEF RunGarbageCollection
    <3> QED
      BY <3>1, <3>2
  <2>5. inFlight \in [Trackers -> Seq([instance : Nat, refs : SUBSET Resources])]
        /\ <<>> \in Seq([instance : Nat, refs : SUBSET Resources])
    <3> HIDE DEF RunGarbageCollection
    <3>1. \A R : <<>> \in Seq(R)
      OBVIOUS
    <3> QED
      BY <1>1, <3>1 DEF Types, TypeOK
  <2> QED
    BY <2>3, <2>4, <2>5
<1>9. lastCompletedInstance' \in [Queues -> Nat]
  <2>1. lastCompletedInstance \in [Queues -> Nat]
    BY <1>1 DEF Types, TypeOK
  <2>2. PICK n1 \in Nat : n1 = Completed(q)
    BY <1>4
  <2> HIDE DEF RunGarbageCollection
  <2> QED
    BY <1>3, <2>1, <2>2
<1>10. TypeOK'
  BY <1>1, <1>8, <1>9 DEF Types, TypeOK
<1>11. Types'
  BY <1>1, <1>10 DEF Types
<1> QED
  BY <1>7, <1>11

\* Submissions that are left are as far behind a value as they were, whatever else the GPU
\* got or executed.
Follows ==
    \A q \in Queues : \A i \in DOMAIN gpu'[q] : IsSubmission(gpu'[q][i]) =>
        \E j \in DOMAIN gpu[q] :
            /\ gpu[q][j] = gpu'[q][i]
            /\ \A v : Late(gpu[q], j, fence[q], lastCompletedInstance[q], v) =>
                     Late(gpu'[q], i, fence'[q], lastCompletedInstance'[q], v)

LEMMA StillFollows ==
  ASSUME UNCHANGED <<gpu, fence>>,
         \A q \in Queues : lastCompletedInstance'[q] \in {lastCompletedInstance[q], fence[q]}
  PROVE  Follows
BY LateStays DEF Follows

LEMMA AppendFollows ==
  ASSUME Types, NEW q \in Queues, NEW o \in SignalOp \cup WaitOp, gpu' = [gpu EXCEPT ![q] = Append(@, o)],
         UNCHANGED <<fence, lastCompletedInstance>>
  PROVE  /\ Follows
         /\ \A p \in Queues : \A i \in DOMAIN gpu'[p] : IsSubmission(gpu'[p][i]) =>
              i \in DOMAIN gpu[p] /\ gpu'[p][i] = gpu[p][i]
         /\ \A p \in Queues : \A i \in DOMAIN gpu[p] : i \in DOMAIN gpu'[p] /\ gpu'[p][i] = gpu[p][i]
         /\ \A p \in Queues : \A i \in DOMAIN gpu'[p] : i \in DOMAIN gpu[p] \/ (p = q /\ gpu'[p][i] = o)
         /\ \A p \in Queues : Pending(p)' = Pending(p)
<1>1. o \in GpuOp /\ ~IsSubmission(o)
  BY DEF GpuOp, SignalOp, WaitOp, IsSubmission
<1>2. gpu \in [Queues -> Seq(GpuOp)] /\ gpu[q] \in Seq(GpuOp)
  BY DEF Types
<1>3. \A p \in Queues : gpu'[p] = IF p = q THEN Append(gpu[q], o) ELSE gpu[p]
  BY <1>2
<1>4. /\ \A i \in DOMAIN gpu[q] : i \in DOMAIN gpu'[q] /\ gpu'[q][i] = gpu[q][i]
      /\ \A i \in DOMAIN gpu'[q] :
           \/ i \in DOMAIN gpu[q] /\ gpu'[q][i] = gpu[q][i]
           \/ i \notin DOMAIN gpu[q] /\ gpu'[q][i] = o
      /\ \A i \in DOMAIN gpu[q] : \A a, b, v : Late(gpu'[q], i, a, b, v) <=> Late(gpu[q], i, a, b, v)
  BY <1>1, <1>2, <1>3, AppendFacts
<1>5. \A p \in Queues : \A i \in DOMAIN gpu'[p] : IsSubmission(gpu'[p][i]) =>
        i \in DOMAIN gpu[p] /\ gpu'[p][i] = gpu[p][i]
  BY <1>1, <1>3, <1>4
<1>6. \A p \in Queues : \A i \in DOMAIN gpu[p] : i \in DOMAIN gpu'[p] /\ gpu'[p][i] = gpu[p][i]
  BY <1>3, <1>4
<1>7. \A p \in Queues : \A i \in DOMAIN gpu[p] : \A a, b, v : Late(gpu'[p], i, a, b, v) <=> Late(gpu[p], i, a, b, v)
  BY <1>3, <1>4
<1>8. Follows
  BY <1>5, <1>7 DEF Follows
<1>9. \A p \in Queues : \A i \in DOMAIN gpu'[p] : i \in DOMAIN gpu[p] \/ (p = q /\ gpu'[p][i] = o)
  BY <1>3, <1>4
<1>10. \A p \in Queues : Pending(p)' = Pending(p)
  BY <1>5, <1>6 DEF Pending, ToSet
<1> QED
  BY <1>5, <1>6, <1>8, <1>9, <1>10

\* What follows from it: the invariant of every submission that is left,
LEMMA CmdsFollow ==
  ASSUME D3D12QueueAssumption, CmdsOK, Follows,
         NEW q \in Queues, NEW i \in DOMAIN gpu'[q], IsSubmission(gpu'[q][i]), NEW c \in gpu'[q][i].cmds
  PROVE  /\ c[1] \in Lists /\ QueueOf[c[1]] = q
         /\ \/ active[c[1]] = c /\ \A op : op = gpu'[q][i] => Tells(q, op, c[1])
            \/ /\ c \in ToSet(pool[c[1]])
               /\ Late(gpu'[q], i, fence'[q], lastCompletedInstance'[q], submittedAs[c])
<1>1. PICK j \in DOMAIN gpu[q] :
        /\ gpu[q][j] = gpu'[q][i]
        /\ \A v : Late(gpu[q], j, fence[q], lastCompletedInstance[q], v) =>
                 Late(gpu'[q], i, fence'[q], lastCompletedInstance'[q], v)
  BY DEF Follows
<1>2. IsSubmission(gpu[q][j]) /\ c \in gpu[q][j].cmds
  BY <1>1
<1>3. /\ c[1] \in Lists /\ QueueOf[c[1]] = q
      /\ \/ active[c[1]] = c /\ Tells(q, gpu[q][j], c[1])
         \/ /\ c \in ToSet(pool[c[1]])
            /\ Late(gpu[q], j, fence[q], lastCompletedInstance[q], submittedAs[c])
  BY <1>2 DEF CmdsOK
<1> QED
  BY <1>1, <1>3

\* and of its number.
LEMMA CountedFollows ==
  ASSUME CountedOK, Follows, NEW q \in Queues, NEW i \in DOMAIN gpu'[q], IsSubmission(gpu'[q][i])
  PROVE  \/ \E t \in Threads : call[t].op = "count" /\ call[t].queue = q /\ call[t].index = gpu'[q][i].index
         \/ Late(gpu'[q], i, fence'[q], lastCompletedInstance'[q], lastSubmittedInstance[q])
<1>1. PICK j \in DOMAIN gpu[q] :
        /\ gpu[q][j] = gpu'[q][i]
        /\ \A v : Late(gpu[q], j, fence[q], lastCompletedInstance[q], v) =>
                 Late(gpu'[q], i, fence'[q], lastCompletedInstance'[q], v)
  BY DEF Follows
<1>2. IsSubmission(gpu[q][j])
  BY <1>1
<1>3. \/ \E t \in Threads : call[t].op = "count" /\ call[t].queue = q /\ call[t].index = gpu[q][j].index
      \/ Late(gpu[q], j, fence[q], lastCompletedInstance[q], lastSubmittedInstance[q])
  BY <1>2 DEF CountedOK
<1> QED
  BY <1>1, <1>3

\* Signals and waits leave the submissions alone.
LEMMA OtherAppended ==
  ASSUME D3D12QueueAssumption, QueueInv, Types', NEW q \in Queues, NEW o \in SignalOp \cup WaitOp,
         gpu' = [gpu EXCEPT ![q] = Append(@, o)],
         o.kind = "signal" => o.value <= lastSubmittedInstance[q],
         UNCHANGED <<queueVars, pool, active, submittedAs, phase, fence, submittedOps, executedOps>>,
         \A t \in Threads :
             /\ Submits(t)' <=> Submits(t)
             /\ Submits(t) => call'[t].queue = call[t].queue /\ call'[t].todo = call[t].todo
                              /\ call'[t].index = call[t].index
             /\ call'[t].op = "count" <=> call[t].op = "count"
             /\ call'[t].op = "signal" => call[t].op = "signal" /\ call'[t].value = call[t].value
                                           /\ call'[t].queue = call[t].queue
  PROVE  QueueInv'
<1> USE DEF QueueInv
<1>1. UNCHANGED <<lastSubmittedInstance, lastCompletedInstance, recordingInstance>>
  BY DEF queueVars
<1>2. /\ Follows
      /\ \A p \in Queues : \A i \in DOMAIN gpu'[p] : IsSubmission(gpu'[p][i]) =>
           i \in DOMAIN gpu[p] /\ gpu'[p][i] = gpu[p][i]
      /\ \A p \in Queues : \A i \in DOMAIN gpu[p] : i \in DOMAIN gpu'[p] /\ gpu'[p][i] = gpu[p][i]
      /\ \A p \in Queues : \A i \in DOMAIN gpu'[p] : i \in DOMAIN gpu[p] \/ (p = q /\ gpu'[p][i] = o)
      /\ \A p \in Queues : Pending(p)' = Pending(p)
  BY <1>1, AppendFollows
<1>3. Numbers'
  <2>1. \A p \in Queues : \A i \in DOMAIN gpu'[p] :
          gpu'[p][i].kind = "signal" => gpu'[p][i].value <= lastSubmittedInstance[p]
    <3> SUFFICES ASSUME NEW p \in Queues, NEW i \in DOMAIN gpu'[p], gpu'[p][i].kind = "signal"
                 PROVE  gpu'[p][i].value <= lastSubmittedInstance[p]
      OBVIOUS
    <3>1. CASE i \in DOMAIN gpu[p]
      <4>1. gpu'[p][i] = gpu[p][i]
        BY <1>2, <3>1
      <4> QED
        BY <3>1, <4>1 DEF Numbers
    <3>2. CASE p = q /\ gpu'[p][i] = o
      BY <3>2
    <3> QED
      BY <1>2, <3>1, <3>2
  <2>2. \A t \in Threads : call'[t].op = "signal" => call'[t].value <= lastSubmittedInstance[call'[t].queue]
    BY DEF Numbers
  <2> QED
    BY <1>1, <2>1, <2>2 DEF Numbers
<1>4. OpsNumbered'
  <2> SUFFICES ASSUME NEW p \in Queues
               PROVE  /\ executedOps[p] <= submittedOps[p]
                      /\ \A i \in DOMAIN gpu'[p] : IsSubmission(gpu'[p][i]) =>
                           /\ gpu'[p][i].index \in (executedOps[p] + 1)..submittedOps[p]
                           /\ \A j \in DOMAIN gpu'[p] : IsSubmission(gpu'[p][j]) /\ i < j =>
                                gpu'[p][i].index < gpu'[p][j].index
                      /\ \A n \in (executedOps[p] + 1)..submittedOps[p] :
                           \E i \in DOMAIN gpu'[p] : IsSubmission(gpu'[p][i]) /\ gpu'[p][i].index = n
    <3>1. UNCHANGED <<submittedOps, executedOps>>
      OBVIOUS
    <3> HIDE DEF QueueInv
    <3> QED
      BY <3>1, OpsNumberedNext
  <2>1. \A i \in DOMAIN gpu'[p] : IsSubmission(gpu'[p][i]) =>
          /\ gpu'[p][i].index \in (executedOps[p] + 1)..submittedOps[p]
          /\ \A j \in DOMAIN gpu'[p] : IsSubmission(gpu'[p][j]) /\ i < j =>
               gpu'[p][i].index < gpu'[p][j].index
    BY <1>2 DEF OpsNumbered
  <2>2. \A n \in (executedOps[p] + 1)..submittedOps[p] :
          \E i \in DOMAIN gpu'[p] : IsSubmission(gpu'[p][i]) /\ gpu'[p][i].index = n
    <3> SUFFICES ASSUME NEW n \in (executedOps[p] + 1)..submittedOps[p]
                 PROVE  \E i \in DOMAIN gpu'[p] : IsSubmission(gpu'[p][i]) /\ gpu'[p][i].index = n
      OBVIOUS
    <3>1. PICK i \in DOMAIN gpu[p] : IsSubmission(gpu[p][i]) /\ gpu[p][i].index = n
      BY DEF OpsNumbered
    <3> QED
      BY <1>2, <3>1
  <2> QED
    BY <2>1, <2>2 DEF OpsNumbered
<1>5. CallsOK'
  <2>1. UNCHANGED <<phase, submittedOps>>
    OBVIOUS
  <2> SUFFICES ASSUME NEW t \in Threads, Submits(t)'
               PROVE  /\ call'[t].todo # <<>> /\ IsInjective(call'[t].todo)
                      /\ \A l \in ToSet(call'[t].todo) :
                           phase[l] = "submitted" /\ ThreadOf[l] = t /\ QueueOf[l] = call'[t].queue
                      /\ call'[t].index \in 1..submittedOps[call'[t].queue]
                      /\ \A u \in Threads : Submits(u)' /\ call'[u].queue = call'[t].queue
                                              /\ call'[u].index = call'[t].index => u = t
    BY <2>1 DEF CallsOK
  <2>2. Submits(t) /\ call'[t].queue = call[t].queue /\ call'[t].todo = call[t].todo /\ call'[t].index = call[t].index
    OBVIOUS
  <2>3. \A u \in Threads : Submits(u)' => Submits(u) /\ call'[u].queue = call[u].queue /\ call'[u].index = call[u].index
    OBVIOUS
  <2> QED
    BY <2>2, <2>3 DEF CallsOK
<1>6. SubmittedOK'
  BY DEF SubmittedOK, D3D12QueueAssumption
<1>7. PoolsOK'
  BY DEF PoolsOK
<1>8. FewNumbered'
  <2>1. \A l \in Lists : Numbered(l)' = Numbered(l)
    <3>1. UNCHANGED <<pool, active>> /\ \A p \in Queues : Pending(p)' = Pending(p)
      BY <1>2
    <3> HIDE DEF QueueInv
    <3> QED
      BY <3>1, NumberedStay
  <2> QED
    BY <1>1, <2>1, FewStay
<1>9. CountedOK'
  <2>1. \A t \in Threads : call[t].op = "count" =>
          call'[t].op = "count" /\ call'[t].queue = call[t].queue /\ call'[t].index = call[t].index
    BY DEF Submits
  <2>2. ASSUME NEW p \in Queues, NEW i \in DOMAIN gpu'[p], IsSubmission(gpu'[p][i])
        PROVE  \/ \E t \in Threads : call'[t].op = "count" /\ call'[t].queue = p /\ call'[t].index = gpu'[p][i].index
               \/ Late(gpu'[p], i, fence'[p], lastCompletedInstance'[p], lastSubmittedInstance'[p])
    <3>1. \/ \E t \in Threads : call[t].op = "count" /\ call[t].queue = p /\ call[t].index = gpu'[p][i].index
          \/ Late(gpu'[p], i, fence'[p], lastCompletedInstance'[p], lastSubmittedInstance[p])
      BY <1>2, <2>2, CountedFollows
    <3> QED
      BY <1>1, <2>1, <3>1
  <2> QED
    BY <2>2 DEF CountedOK
<1>10. \A p \in Queues, l \in Lists : \A op : Tells(p, op, l) => Tells(p, op, l)'
  BY DEF Tells, D3D12QueueAssumption
<1>11. CmdsOK'
  <2>1. ASSUME NEW p \in Queues, NEW i \in DOMAIN gpu'[p], IsSubmission(gpu'[p][i]), NEW c \in gpu'[p][i].cmds
        PROVE  /\ c[1] \in Lists /\ QueueOf[c[1]] = p
               /\ \/ active'[c[1]] = c /\ Tells(p, gpu[p][i], c[1])'
                  \/ /\ c \in ToSet(pool'[c[1]])
                     /\ Late(gpu'[p], i, fence'[p], lastCompletedInstance'[p], submittedAs'[c])
    <3>1. /\ c[1] \in Lists /\ QueueOf[c[1]] = p
          /\ \/ active[c[1]] = c /\ \A op : op = gpu'[p][i] => Tells(p, op, c[1])
             \/ /\ c \in ToSet(pool[c[1]])
                /\ Late(gpu'[p], i, fence'[p], lastCompletedInstance'[p], submittedAs[c])
      BY <1>2, <2>1, CmdsFollow
    <3>2. PICK o1 : o1 = gpu'[p][i]
      OBVIOUS
    <3>3. Tells(p, o1, c[1]) => Tells(p, o1, c[1])'
      BY <3>1, <1>10
    <3> QED
      BY <3>1, <3>2, <3>3
  <2> QED
    BY <2>1 DEF CmdsOK
<1> QED
  BY <1>3, <1>4, <1>5, <1>6, <1>7, <1>8, <1>9, <1>11

\* The queue's types after operations were appended to it.
LEMMA AppendedTypes ==
  ASSUME Types, NEW q \in Queues, NEW o \in GpuOp, gpu' = [gpu EXCEPT ![q] = Append(@, o)]
  PROVE  gpu' \in [Queues -> Seq(GpuOp)]
<1>1. gpu \in [Queues -> Seq(GpuOp)] /\ gpu[q] \in Seq(GpuOp)
  BY DEF Types
<1>2. Append(gpu[q], o) \in Seq(GpuOp)
  BY <1>1, AppendFacts
<1> QED
  BY <1>1, <1>2

\* The value that is signalled has been counted.
LEMMA SignalStep ==
  ASSUME D3D12QueueAssumption, QueueInv, NEW t \in Threads, Signal(t)
  PROVE  QueueInv'
<1> USE DEF QueueInv
<1>1. call[t].op = "signal" /\ Submits(t)
  BY DEF Signal, Busy, Submits
<1>2. PICK q \in Queues : q = call[t].queue
  BY <1>1, SubmitsFacts
<1>3. PICK value \in {call[t].value, lastSubmittedInstance[q]} :
        gpu' = [gpu EXCEPT ![q] = Append(@, [kind |-> "signal", value |-> value])]
  BY <1>2 DEF Signal
<1>4. /\ call' = [call EXCEPT ![t].op = "executed"]
      /\ UNCHANGED <<queueVars, listVars, inFlight, hostVars, fenceEvent, fence, submittedOps, executedOps, before>>
  BY DEF Signal
<1>5. value \in Nat /\ value <= lastSubmittedInstance[q]
  <2>1. call[t].value \in Nat
    BY <1>1, SubmitsFacts
  <2>2. call[t].value <= lastSubmittedInstance[q]
    BY <1>1, <1>2 DEF Numbers
  <2>3. lastSubmittedInstance[q] \in Nat
    BY DEF Types, TypeOK
  <2> QED
    BY <1>3, <2>1, <2>2, <2>3
<1>6. PICK o \in SignalOp : o = [kind |-> "signal", value |-> value]
  BY <1>5 DEF SignalOp
<1>7. gpu' = [gpu EXCEPT ![q] = Append(@, o)] /\ o.kind = "signal" /\ o.value = value
  BY <1>3, <1>6
<1>8. call[t] \in SignalCall /\ call \in [Threads -> {Idle} \cup CountCall \cup SignalCall \cup WaitCall]
  BY <1>1, SubmitsFacts DEF Types
<1>9. [call[t] EXCEPT !.op = "executed"] \in SignalCall
  BY <1>8 DEF SignalCall
<1>10. Types'
  <2>1. gpu' \in [Queues -> Seq(GpuOp)]
    BY <1>7, AppendedTypes DEF GpuOp
  <2>2. call' \in [Threads -> {Idle} \cup CountCall \cup SignalCall \cup WaitCall]
    BY <1>4, <1>8, <1>9
  <2>3. \A u \in Threads : call'[u].op \in {"none", "count", "signal", "executed", "wait"}
    BY <2>2 DEF Idle, CountCall, SignalCall, WaitCall
  <2> QED
    BY <1>4, <2>1, <2>2, <2>3 DEF Types, TypeOK, queueVars, listVars, hostVars
<1>11. call'[t] = [call[t] EXCEPT !.op = "executed"] /\ \A u \in Threads \ {t} : call'[u] = call[u]
  BY <1>4, <1>8
<1>12. call'[t].op = "executed" /\ call'[t].queue = call[t].queue /\ call'[t].todo = call[t].todo
       /\ call'[t].index = call[t].index
  BY <1>11, <1>8 DEF SignalCall
<1>13. \A u \in Threads :
         /\ Submits(u)' <=> Submits(u)
         /\ Submits(u) => call'[u].queue = call[u].queue /\ call'[u].todo = call[u].todo
                          /\ call'[u].index = call[u].index
         /\ call'[u].op = "count" <=> call[u].op = "count"
         /\ call'[u].op = "signal" => call[u].op = "signal" /\ call'[u].value = call[u].value
                                       /\ call'[u].queue = call[u].queue
  BY <1>1, <1>11, <1>12 DEF Submits
<1> QED
  BY <1>4, <1>5, <1>6, <1>7, <1>10, <1>13, OtherAppended DEF listVars

\* Queues wait for what others have counted.
LEMMA QueueWaitStep ==
  ASSUME D3D12QueueAssumption, QueueInv, NEW q \in Queues, NEW p \in Queues, QueueWaitForCommandList(q, p)
  PROVE  QueueInv'
<1> USE DEF QueueInv
<1>1. PICK o \in WaitOp : o = [kind |-> "wait", queue |-> p, value |-> lastSubmittedInstance[p]]
  BY DEF WaitOp, Types, TypeOK
<1>2. /\ gpu' = [gpu EXCEPT ![q] = Append(@, o)] /\ o.kind = "wait"
      /\ UNCHANGED <<queueVars, listVars, inFlight, call, hostVars, fenceEvent, fence, submittedOps, executedOps, before>>
  BY <1>1 DEF QueueWaitForCommandList
<1>3. Types'
  <2>1. gpu' \in [Queues -> Seq(GpuOp)]
    BY <1>2, AppendedTypes DEF GpuOp
  <2> QED
    BY <1>2, <2>1 DEF Types, TypeOK, queueVars, listVars, hostVars
<1>4. \A u \in Threads : call'[u] = call[u] /\ (Submits(u)' <=> Submits(u))
  BY <1>2 DEF Submits
<1> QED
  BY <1>1, <1>2, <1>3, <1>4, OtherAppended DEF listVars

\* Submissions are before the next value that is counted.
LEMMA AheadOfAll ==
  ASSUME QueueInv, NEW q \in Queues, NEW i \in DOMAIN gpu[q]
  PROVE  Late(gpu[q], i, fence[q], lastCompletedInstance[q], lastSubmittedInstance[q] + 1)
<1>1. /\ lastSubmittedInstance[q] \in Nat /\ fence[q] \in Nat /\ lastCompletedInstance[q] \in Nat
      /\ gpu[q] \in Seq(GpuOp)
  BY DEF QueueInv, Types, TypeOK
<1>2. fence[q] <= lastSubmittedInstance[q] /\ lastCompletedInstance[q] <= lastSubmittedInstance[q]
  BY DEF QueueInv, Numbers
<1>3. \A j \in DOMAIN gpu[q] : gpu[q][j].kind = "signal" =>
        gpu[q][j].value \in Nat /\ gpu[q][j].value <= lastSubmittedInstance[q]
  <2>1. \A j \in DOMAIN gpu[q] : gpu[q][j] \in GpuOp
    BY <1>1
  <2>2. \A j \in DOMAIN gpu[q] : gpu[q][j].kind = "signal" => gpu[q][j] \in SignalOp
    BY <2>1 DEF GpuOp, SubmissionOp, SignalOp, WaitOp
  <2>3. \A j \in DOMAIN gpu[q] : gpu[q][j].kind = "signal" => gpu[q][j].value \in Nat
    BY <2>2 DEF SignalOp
  <2> QED
    BY <2>3 DEF QueueInv, Numbers
<1> QED
  BY <1>1, <1>2, <1>3 DEF Late

LEMMA CountStep ==
  ASSUME D3D12QueueAssumption, QueueInv, NEW t \in Threads, Count(t)
  PROVE  QueueInv'
<1> USE DEF QueueInv
<1>1. call[t].op = "count" /\ Submits(t)
  BY DEF Count, Busy, Submits
<1>2. PICK q \in Queues : q = call[t].queue
  BY <1>1, SubmitsFacts
<1>3. PICK n \in Nat : n = lastSubmittedInstance[q]
  BY DEF Types, TypeOK
<1>4. PICK d : d = [op |-> "signal", queue |-> q, todo |-> call[t].todo, index |-> call[t].index, value |-> n + 1]
  OBVIOUS
<1>5. /\ lastSubmittedInstance' = [lastSubmittedInstance EXCEPT ![q] = n + 1]
      /\ call' = [call EXCEPT ![t] = d]
      /\ UNCHANGED <<lastCompletedInstance, recordingInstance, pool, active, submittedAs, phase, refs, inFlight,
                     held, use, answered, fenceEvent, gpu, fence, submittedOps, executedOps, before>>
  BY <1>2, <1>3, <1>4 DEF Count, listVars, hostVars, gpuVars
<1>6. d \in SignalCall /\ d.op = "signal" /\ d.queue = q /\ d.todo = call[t].todo /\ d.index = call[t].index
      /\ d.value = n + 1
  BY <1>1, <1>3, <1>4, SubmitsFacts DEF SignalCall
<1>7. call'[t] = d /\ \A u \in Threads \ {t} : call'[u] = call[u]
  BY <1>5 DEF Types
<1>8. lastSubmittedInstance'[q] = n + 1 /\ \A p \in Queues \ {q} : lastSubmittedInstance'[p] = lastSubmittedInstance[p]
  BY <1>5 DEF Types, TypeOK
<1>9. Types'
  <2>1. call' \in [Threads -> {Idle} \cup CountCall \cup SignalCall \cup WaitCall]
    BY <1>5, <1>6 DEF Types
  <2>2. \A u \in Threads : call'[u].op \in {"none", "count", "signal", "executed", "wait"}
    BY <1>6, <1>7 DEF Types, TypeOK
  <2>3. lastSubmittedInstance' \in [Queues -> Nat]
    BY <1>3, <1>5 DEF Types, TypeOK
  <2> QED
    BY <1>5, <2>1, <2>2, <2>3 DEF Types, TypeOK
<1>10. Numbers'
  <2>1. ASSUME NEW p \in Queues
        PROVE  /\ fence[p] <= lastSubmittedInstance'[p]
               /\ lastCompletedInstance[p] <= lastSubmittedInstance'[p]
               /\ \A i \in DOMAIN gpu[p] :
                    gpu[p][i].kind = "signal" => gpu[p][i].value <= lastSubmittedInstance'[p]
    <3>1. CASE p # q
      BY <1>8, <3>1 DEF Numbers
    <3>2. CASE p = q
      <4>1. \A i \in DOMAIN gpu[q] : gpu[q][i].kind = "signal" => gpu[q][i].value \in Nat
        <5>1. gpu[q] \in Seq(GpuOp)
          BY DEF Types
        <5>2. \A i \in DOMAIN gpu[q] : gpu[q][i] \in GpuOp
          BY <5>1
        <5> QED
          BY <5>2 DEF GpuOp, SubmissionOp, SignalOp, WaitOp
      <4>2. fence[q] \in Nat /\ lastCompletedInstance[q] \in Nat
        BY DEF Types, TypeOK
      <4> QED
        BY <1>3, <1>8, <3>2, <4>1, <4>2 DEF Numbers
    <3> QED
      BY <3>1, <3>2
  <2>2. ASSUME NEW u \in Threads, call'[u].op = "signal"
        PROVE  call'[u].value <= lastSubmittedInstance'[call'[u].queue]
    <3>1. CASE u = t
      BY <1>3, <1>6, <1>7, <1>8, <3>1
    <3>2. CASE u # t
      <4>1. call[u].op = "signal" /\ Submits(u) /\ call'[u] = call[u]
        BY <1>7, <2>2, <3>2 DEF Submits
      <4>2. call[u].queue \in Queues /\ call[u].value \in Nat
        BY <4>1, SubmitsFacts
      <4>3. call[u].value <= lastSubmittedInstance[call[u].queue]
        BY <4>1 DEF Numbers
      <4> QED
        BY <1>3, <1>8, <4>1, <4>2, <4>3
    <3> QED
      BY <3>1, <3>2
  <2> QED
    BY <1>5, <2>1, <2>2 DEF Numbers
<1>11. OpsNumbered' /\ PoolsOK'
  BY <1>5 DEF OpsNumbered, PoolsOK
<1>12. \A u \in Threads : /\ Submits(u)' <=> Submits(u)
                          /\ Submits(u) => call'[u].queue = call[u].queue /\ call'[u].todo = call[u].todo
                                           /\ call'[u].index = call[u].index
  BY <1>1, <1>2, <1>6, <1>7 DEF Submits
<1>13. CallsOK'
  BY <1>5, <1>12 DEF CallsOK
<1>14. SubmittedOK'
  BY <1>5, <1>12 DEF SubmittedOK, D3D12QueueAssumption
<1>15. FewNumbered'
  <2>1. \A l \in Lists : Numbered(l)' = Numbered(l)
    BY <1>5 DEF Numbered, Pending
  <2> QED
    BY <1>5, <2>1, FewStay
<1>16. CountedOK'
  <2>1. ASSUME NEW p \in Queues, NEW i \in DOMAIN gpu[p], IsSubmission(gpu[p][i])
        PROVE  \/ \E u \in Threads : call'[u].op = "count" /\ call'[u].queue = p /\ call'[u].index = gpu[p][i].index
               \/ Late(gpu[p], i, fence[p], lastCompletedInstance[p], lastSubmittedInstance'[p])
    <3>1. CASE p = q
      BY <1>3, <1>8, <3>1, AheadOfAll
    <3>2. CASE p # q
      BY <1>2, <1>7, <1>8, <2>1, <3>2 DEF CountedOK
    <3> QED
      BY <3>1, <3>2
  <2> QED
    BY <1>5, <2>1 DEF CountedOK
<1>17. CmdsOK'
  <2>1. \A p \in Queues, l \in Lists : \A op : Tells(p, op, l) => Tells(p, op, l)'
    BY <1>5, <1>12 DEF Tells, D3D12QueueAssumption
  <2>2. ASSUME NEW p \in Queues, NEW i \in DOMAIN gpu[p], IsSubmission(gpu[p][i]), NEW c \in gpu[p][i].cmds
        PROVE  /\ c[1] \in Lists /\ QueueOf[c[1]] = p
               /\ \/ active[c[1]] = c /\ \A op : op = gpu[p][i] => Tells(p, op, c[1])'
                  \/ /\ c \in ToSet(pool[c[1]])
                     /\ Late(gpu[p], i, fence[p], lastCompletedInstance[p], submittedAs[c])
    BY <2>1, <2>2 DEF CmdsOK
  <2>3. ASSUME NEW p \in Queues, NEW i \in DOMAIN gpu[p], IsSubmission(gpu[p][i]), NEW c \in gpu[p][i].cmds
        PROVE  /\ c[1] \in Lists /\ QueueOf[c[1]] = p
               /\ \/ active[c[1]] = c /\ Tells(p, gpu[p][i], c[1])'
                  \/ /\ c \in ToSet(pool[c[1]])
                     /\ Late(gpu[p], i, fence[p], lastCompletedInstance[p], submittedAs[c])
    <3>1. PICK o1 : o1 = gpu[p][i] /\ o1 = gpu'[p][i]
      BY <1>5
    <3>2. Tells(p, o1, c[1])' = Tells(p, gpu[p][i], c[1])'
      BY <3>1
    <3> QED
      BY <2>2, <2>3, <3>1, <3>2
  <2> QED
    BY <1>5, <2>3 DEF CmdsOK
<1> QED
  BY <1>9, <1>10, <1>11, <1>13, <1>14, <1>15, <1>16, <1>17

\* What a submission executed of its lists is pooled under a later value.
ExecutedStepOf(t, q, l, c, n, todo) ==
    /\ submittedAs' = [submittedAs EXCEPT ![c] = n]
    /\ pool' = [pool EXCEPT ![l] = Append(@, c)]
    /\ active' = [active EXCEPT ![l] = None]
    /\ phase' = [phase EXCEPT ![l] = "idle"]
    /\ refs' = [refs EXCEPT ![l] = {}]
    /\ inFlight' = [inFlight EXCEPT ![TrackerOf[l]] = Append(@, [instance |-> n, refs |-> refs[l]])]
    /\ use' = [x \in Waitable |-> IF x \in refs[l] THEN [queue |-> q, value |-> n] ELSE use[x]]
    /\ call' = [call EXCEPT ![t] = IF todo = <<>> THEN Idle ELSE [call[t] EXCEPT !.todo = todo]]
    /\ UNCHANGED <<queueVars, held, answered, fenceEvent, gpuVars, before>>

LEMMA ExecutedFacts ==
  ASSUME D3D12QueueAssumption, QueueInv, NEW t \in Threads, Executed(t)
  PROVE  \E q \in Queues, l \in Lists, c \in InternalLists, n \in Nat, todo \in Seq(Lists) :
           /\ call[t].op = "executed" /\ Submits(t) /\ call[t] \in SignalCall
           /\ q = call[t].queue /\ n = lastSubmittedInstance[q] /\ c = active[l] /\ c[1] = l
           /\ ThreadOf[l] = t /\ QueueOf[l] = q /\ phase[l] = "submitted"
           /\ ToSet(call[t].todo) = ToSet(todo) \cup {l} /\ l \notin ToSet(todo)
           /\ ToSet(todo) \subseteq Lists /\ IsInjective(todo)
           /\ ExecutedStepOf(t, q, l, c, n, todo)
<1> USE DEF QueueInv
<1>1. call[t].op = "executed" /\ Submits(t)
  BY DEF Executed, Busy, Submits
<1>2. call[t] \in SignalCall /\ call[t].todo \in Seq(Lists)
  BY <1>1, SubmitsFacts DEF CountCall
<1>3. PICK q \in Queues : q = call[t].queue
  BY <1>1, SubmitsFacts
<1>4. call[t].todo # <<>> /\ IsInjective(call[t].todo)
  BY <1>1 DEF CallsOK
<1>5. PICK todo : todo = Tail(call[t].todo)
  OBVIOUS
<1>6. PICK l : l = Head(call[t].todo)
  OBVIOUS
<1>7. /\ l \in Lists /\ l \in ToSet(call[t].todo) /\ todo \in Seq(Lists) /\ IsInjective(todo)
      /\ ToSet(call[t].todo) = ToSet(todo) \cup {l} /\ l \notin ToSet(todo)
      /\ Len(call[t].todo) = 1 <=> todo = <<>>
  BY <1>2, <1>4, <1>5, <1>6, InjectiveTail
<1>8. phase[l] = "submitted" /\ ThreadOf[l] = t /\ QueueOf[l] = q
  BY <1>1, <1>3, <1>7 DEF CallsOK
<1>9. PICK c \in InternalLists : c = active[l]
  BY <1>7, <1>8 DEF Types, TypeOK
<1>10. c[1] = l
  BY <1>7, <1>9, InternalFacts DEF PoolsOK
<1>11. PICK n \in Nat : n = lastSubmittedInstance[q]
  BY DEF Types, TypeOK
<1>12. ToSet(todo) \subseteq Lists
  BY <1>1, <1>7, SubmitsFacts
<1>13. ExecutedStepOf(t, q, l, c, n, todo)
  <2>1. LastUse(call[t].queue) = [queue |-> q, value |-> n]
    BY <1>3, <1>11 DEF LastUse
  <2>2. call' = [call EXCEPT ![t] = IF todo = <<>> THEN Idle ELSE [call[t] EXCEPT !.todo = todo]]
    BY <1>5, <1>7 DEF Executed
  <2> QED
    BY <1>3, <1>5, <1>6, <1>7, <1>9, <1>11, <2>1, <2>2 DEF Executed, ExecutedStepOf
<1> QED
  BY <1>1, <1>2, <1>3, <1>7, <1>8, <1>9, <1>10, <1>11, <1>12, <1>13

LEMMA ExecutedTypes ==
  ASSUME D3D12QueueAssumption, QueueInv, NEW t \in Threads, Executed(t)
  PROVE  Types'
<1> USE DEF QueueInv
<1>1. PICK q \in Queues, l \in Lists, c \in InternalLists, n \in Nat, todo \in Seq(Lists) :
           /\ call[t].op = "executed" /\ Submits(t) /\ call[t] \in SignalCall
           /\ q = call[t].queue /\ n = lastSubmittedInstance[q] /\ c = active[l] /\ c[1] = l
           /\ ThreadOf[l] = t /\ QueueOf[l] = q /\ phase[l] = "submitted"
           /\ ToSet(call[t].todo) = ToSet(todo) \cup {l} /\ l \notin ToSet(todo)
           /\ ToSet(todo) \subseteq Lists /\ IsInjective(todo)
           /\ ExecutedStepOf(t, q, l, c, n, todo)
  BY ExecutedFacts
<1>2. [call[t] EXCEPT !.todo = todo] \in SignalCall
  BY <1>1 DEF SignalCall
<1>3. call' \in [Threads -> {Idle} \cup CountCall \cup SignalCall \cup WaitCall]
  BY <1>1, <1>2 DEF Types, ExecutedStepOf
<1>4. \A u \in Threads : call'[u].op \in {"none", "count", "signal", "executed", "wait"}
  BY <1>3 DEF Idle, CountCall, SignalCall, WaitCall
<1>5. pool' \in [Lists -> Seq(InternalLists)]
  <2>1. pool \in [Lists -> Seq(InternalLists)] /\ pool[l] \in Seq(InternalLists)
    BY DEF Types, TypeOK
  <2>2. \A S : \A s \in Seq(S) : \A x \in S : Append(s, x) \in Seq(S)
    OBVIOUS
  <2>3. Append(pool[l], c) \in Seq(InternalLists)
    BY <2>1, <2>2
  <2> QED
    BY <1>1, <2>1, <2>3 DEF ExecutedStepOf
<1>6. inFlight' \in [Trackers -> Seq([instance : Nat, refs : SUBSET Resources])]
  <2> DEFINE R == [instance : Nat, refs : SUBSET Resources]
             i == [instance |-> n, refs |-> refs[l]]
  <2>1. TrackerOf[l] \in Trackers
    BY DEF D3D12QueueAssumption
  <2>2. inFlight \in [Trackers -> Seq(R)] /\ i \in R
    BY DEF Types, TypeOK
  <2> HIDE DEF R, i
  <2>3. \A S : \A s \in Seq(S) : \A x \in S : Append(s, x) \in Seq(S)
    OBVIOUS
  <2>4. Append(inFlight[TrackerOf[l]], i) \in Seq(R)
    BY <2>1, <2>2, <2>3
  <2>5. inFlight' = [inFlight EXCEPT ![TrackerOf[l]] = Append(@, i)]
    BY <1>1 DEF ExecutedStepOf, i
  <2>6. inFlight' \in [Trackers -> Seq(R)]
    BY <2>1, <2>2, <2>4, <2>5
  <2> QED
    BY <2>6 DEF R
<1>7. active' \in [Lists -> InternalLists \cup {None}] /\ \A k \in Lists : active'[k] = None <=> phase'[k] = "idle"
  BY <1>1 DEF Types, TypeOK, ExecutedStepOf
<1>8. /\ submittedAs' \in [InternalLists -> Nat] /\ refs' \in [Lists -> SUBSET Resources]
      /\ phase' \in [Lists -> {"idle", "open", "closed", "submitted"}]
      /\ \A k \in Lists : refs'[k] \cap (Events \cup Lists) = {}
  BY <1>1 DEF Types, TypeOK, ExecutedStepOf
<1>9. /\ use' \in [Waitable -> [queue : Queues \cup {None}, value : Nat]]
      /\ \A x \in Waitable : use'[x] = Never \/ use'[x].queue \in Queues
  <2>1. [queue |-> q, value |-> n] \in [queue : Queues \cup {None}, value : Nat]
    OBVIOUS
  <2> QED
    BY <1>1, <2>1 DEF Types, TypeOK, ExecutedStepOf
<1> QED
  BY <1>1, <1>3, <1>4, <1>5, <1>6, <1>7, <1>8, <1>9 DEF Types, TypeOK, ExecutedStepOf, queueVars, gpuVars

LEMMA ExecutedStep ==
  ASSUME D3D12QueueAssumption, QueueInv, NEW t \in Threads, Executed(t)
  PROVE  QueueInv'
<1> USE DEF QueueInv
<1>1. PICK q \in Queues, l \in Lists, c \in InternalLists, n \in Nat, todo \in Seq(Lists) :
           /\ call[t].op = "executed" /\ Submits(t) /\ call[t] \in SignalCall
           /\ q = call[t].queue /\ n = lastSubmittedInstance[q] /\ c = active[l] /\ c[1] = l
           /\ ThreadOf[l] = t /\ QueueOf[l] = q /\ phase[l] = "submitted"
           /\ ToSet(call[t].todo) = ToSet(todo) \cup {l} /\ l \notin ToSet(todo)
           /\ ToSet(todo) \subseteq Lists /\ IsInjective(todo)
           /\ ExecutedStepOf(t, q, l, c, n, todo)
  BY ExecutedFacts
<1>2. Types'
  BY ExecutedTypes
<1>3. /\ UNCHANGED <<lastSubmittedInstance, lastCompletedInstance, recordingInstance, gpu, fence, submittedOps, executedOps>>
      /\ submittedAs'[c] = n /\ \A d \in InternalLists \ {c} : submittedAs'[d] = submittedAs[d]
      /\ pool'[l] = Append(pool[l], c) /\ \A k \in Lists \ {l} : pool'[k] = pool[k]
      /\ active'[l] = None /\ \A k \in Lists \ {l} : active'[k] = active[k]
      /\ phase'[l] = "idle" /\ \A k \in Lists \ {l} : phase'[k] = phase[k]
      /\ call'[t] = (IF todo = <<>> THEN Idle ELSE [call[t] EXCEPT !.todo = todo])
      /\ \A u \in Threads \ {t} : call'[u] = call[u]
  BY <1>1 DEF ExecutedStepOf, Types, TypeOK, queueVars, gpuVars
<1>4. /\ todo = <<>> => ~Submits(t)' /\ call'[t].op = "none"
      /\ todo # <<>> => /\ Submits(t)' /\ call'[t].op = "executed" /\ call'[t].queue = q
                        /\ call'[t].index = call[t].index /\ call'[t].todo = todo
  BY <1>1, <1>3 DEF Submits, Idle, SignalCall
<1>5. \A u \in Threads \ {t} : Submits(u)' <=> Submits(u)
  BY <1>3 DEF Submits
<1>6. ToSet(todo) # {} => todo # <<>>
  BY DEF ToSet
<1>7. Numbers'
  BY <1>3, <1>4 DEF Numbers
<1>8. OpsNumbered'
  BY <1>3 DEF OpsNumbered
<1>9. CallsOK'
  <2> SUFFICES ASSUME NEW u \in Threads, Submits(u)'
               PROVE  /\ call'[u].todo # <<>> /\ IsInjective(call'[u].todo)
                      /\ \A k \in ToSet(call'[u].todo) :
                           phase'[k] = "submitted" /\ ThreadOf[k] = u /\ QueueOf[k] = call'[u].queue
                      /\ call'[u].index \in 1..submittedOps[call'[u].queue]
                      /\ \A w \in Threads : Submits(w)' /\ call'[w].queue = call'[u].queue
                                               /\ call'[w].index = call'[u].index => w = u
    BY <1>3 DEF CallsOK
  <2>1. /\ Submits(u) /\ call'[u].queue = call[u].queue /\ call'[u].index = call[u].index
    BY <1>1, <1>3, <1>4, <1>5
  <2>2. \A w \in Threads : Submits(w)' =>
          Submits(w) /\ call'[w].queue = call[w].queue /\ call'[w].index = call[w].index
    BY <1>1, <1>3, <1>4, <1>5
  <2>3. ToSet(call[u].todo) \subseteq Lists
    BY <2>1, SubmitsFacts
  <2>4. CASE u = t
    <3>1. todo # <<>> /\ call'[u].todo = todo
      BY <1>4, <2>4
    <3>2. \A k \in ToSet(todo) : k \in ToSet(call[t].todo) /\ phase'[k] = phase[k]
      BY <1>1, <1>3
    <3>3. \A k \in ToSet(todo) : phase'[k] = "submitted" /\ ThreadOf[k] = u /\ QueueOf[k] = call'[u].queue
      BY <1>1, <2>1, <2>4, <3>2 DEF CallsOK
    <3> QED
      BY <1>1, <2>1, <2>2, <3>1, <3>3 DEF CallsOK
  <2>5. CASE u # t
    <3>1. call'[u] = call[u]
      BY <1>3, <2>5
    <3>2. l \notin ToSet(call[u].todo)
      BY <1>1, <2>1, <2>5 DEF CallsOK
    <3> QED
      <4>1. \A k \in ToSet(call[u].todo) : phase'[k] = phase[k]
        BY <1>3, <2>3, <3>2
      <4>2. /\ call[u].todo # <<>> /\ IsInjective(call[u].todo)
            /\ \A k \in ToSet(call[u].todo) :
                 phase[k] = "submitted" /\ ThreadOf[k] = u /\ QueueOf[k] = call[u].queue
            /\ call[u].index \in 1..submittedOps[call[u].queue]
        BY <2>1 DEF CallsOK
      <4>3. \A w \in Threads : Submits(w)' /\ call'[w].queue = call'[u].queue
                               /\ call'[w].index = call'[u].index => w = u
        BY <2>1, <2>2 DEF CallsOK
      <4> QED
        BY <3>1, <4>1, <4>2, <4>3
  <2> QED
    BY <2>4, <2>5
<1>10. SubmittedOK'
  <2> SUFFICES ASSUME NEW k \in Lists, phase'[k] = "submitted"
               PROVE  Submits(ThreadOf[k])' /\ k \in ToSet(call'[ThreadOf[k]].todo)
    BY DEF SubmittedOK
  <2>1. k # l /\ phase[k] = "submitted"
    BY <1>3
  <2>2. Submits(ThreadOf[k]) /\ k \in ToSet(call[ThreadOf[k]].todo) /\ ThreadOf[k] \in Threads
    BY <2>1 DEF SubmittedOK, D3D12QueueAssumption
  <2>3. CASE ThreadOf[k] = t
    BY <1>1, <1>4, <1>6, <2>1, <2>2, <2>3
  <2>4. CASE ThreadOf[k] # t
    BY <1>3, <1>5, <2>2, <2>4
  <2> QED
    BY <2>3, <2>4
<1>11. pool[l] \in Seq(InternalLists) /\ c \notin ToSet(pool[l]) /\ IsInjective(pool[l]) /\ c # None
  BY <1>1, InternalFacts DEF PoolsOK, Types, TypeOK
<1>12. ToSet(pool'[l]) = ToSet(pool[l]) \cup {c} /\ IsInjective(pool'[l])
  BY <1>3, <1>11, InjectiveAppend
<1>13. PoolsOK'
  <2> SUFFICES ASSUME NEW k \in Lists
               PROVE  /\ \A d \in ToSet(pool'[k]) : d[1] = k
                      /\ IsInjective(pool'[k])
                      /\ active'[k] # None => active'[k][1] = k /\ active'[k] \notin ToSet(pool'[k])
    BY DEF PoolsOK
  <2>1. CASE k = l
    BY <1>1, <1>3, <1>12, <2>1 DEF PoolsOK
  <2>2. CASE k # l
    BY <1>3, <2>2 DEF PoolsOK
  <2> QED
    BY <2>1, <2>2
<1>14. FewNumbered'
  <2>1. ASSUME NEW k \in Lists
        PROVE  Numbered(k)' \subseteq Numbered(k)
    <3>1. \A p \in Queues : Pending(p)' = Pending(p)
      BY <1>3 DEF Pending
    <3>2. ASSUME NEW m \in 1..MaxOpens[QueueOf[k]], <<k, m>> \in ToSet(pool'[k]) \/ active'[k] = <<k, m>>
          PROVE  <<k, m>> \in ToSet(pool[k]) \/ active[k] = <<k, m>>
      <4>1. <<k, m>> # None
        BY InternalFacts
      <4>2. CASE k = l
        <5>1. ToSet(pool'[k]) = ToSet(pool[k]) \cup {c} /\ active'[k] = None /\ active[k] = c
          BY <1>1, <1>3, <1>12, <4>2
        <5> QED
          BY <3>2, <4>1, <5>1
      <4>3. CASE k # l
        BY <1>3, <3>2, <4>3
      <4> QED
        BY <4>2, <4>3
    <3> QED
      BY <3>1, <3>2 DEF Numbered
  <2> QED
    BY <1>3, <2>1, FewStay
<1>15. CountedOK'
  <2>1. \A u \in Threads : call[u].op = "count" => call'[u] = call[u]
    BY <1>1, <1>3
  <2> QED
    <3>1. UNCHANGED <<gpu, fence, lastSubmittedInstance, lastCompletedInstance>>
      BY <1>3
    <3>2. CountedOK
      OBVIOUS
    <3>3. \A p \in Queues : \A i, v : Late(gpu[p], i, fence[p], lastCompletedInstance[p], v) =>
            Late(gpu[p], i, fence[p], lastCompletedInstance'[p], v)
      BY <3>1
    <3> HIDE DEF QueueInv
    <3> QED
      BY <2>1, <3>1, <3>2, <3>3, CountedStay
<1>16. CmdsOK'
  <2>1. ASSUME NEW p \in Queues, NEW i \in DOMAIN gpu[p], IsSubmission(gpu[p][i]), NEW d \in gpu[p][i].cmds,
               NEW op, op = gpu[p][i]
        PROVE  /\ d[1] \in Lists /\ QueueOf[d[1]] = p
               /\ \/ active'[d[1]] = d /\ Tells(p, op, d[1])'
                  \/ /\ d \in ToSet(pool'[d[1]])
                     /\ Late(gpu[p], i, fence[p], lastCompletedInstance[p], submittedAs'[d])
    <3>1. PICK k \in Lists : k = d[1] /\ QueueOf[k] = p
      BY <2>1 DEF CmdsOK
    <3>2. \/ active[k] = d /\ Tells(p, op, k)
          \/ /\ d \in ToSet(pool[k])
             /\ Late(gpu[p], i, fence[p], lastCompletedInstance[p], submittedAs[d])
      BY <2>1, <3>1 DEF CmdsOK
    <3>3. d \in InternalLists
      <4>1. pool[k] \in Seq(InternalLists) /\ active[k] \in InternalLists \cup {None}
        BY DEF Types, TypeOK
      <4>2. ToSet(pool[k]) \subseteq InternalLists
        BY <4>1 DEF ToSet
      <4>3. active[k] = d /\ Tells(p, op, k) => active[k] # None
        BY DEF Types, TypeOK, Tells
      <4> QED
        BY <3>2, <4>1, <4>2, <4>3
    <3>4. CASE d = c
      <4>1. k = l /\ p = q /\ Tells(p, op, l)
        BY <1>1, <1>11, <3>1, <3>2, <3>4
      <4>2. op.index = call[t].index
        BY <1>1, <4>1 DEF Tells
      <4>3. ~\E u \in Threads : call[u].op = "count" /\ call[u].queue = q /\ call[u].index = op.index
        BY <1>1, <4>2 DEF CallsOK, Submits
      <4>4. Late(gpu[q], i, fence[q], lastCompletedInstance[q], n)
        BY <1>1, <2>1, <4>1, <4>3 DEF CountedOK
      <4> QED
        BY <1>3, <1>12, <3>1, <3>4, <4>1, <4>4, ZenonT(40)
    <3>5. CASE d # c /\ k = l
      BY <1>1, <1>3, <1>12, <3>1, <3>2, <3>3, <3>5
    <3>6. CASE k # l
      <4>1. d # c /\ active'[k] = active[k] /\ pool'[k] = pool[k] /\ phase'[k] = phase[k]
        BY <1>1, <1>3, <3>1, <3>6
      <4>2. submittedAs'[d] = submittedAs[d]
        BY <1>3, <3>3, <4>1
      <4>3. Tells(p, op, k) => Tells(p, op, k)'
        <5>1. ThreadOf[k] \in Threads
          BY DEF D3D12QueueAssumption
        <5>2. CASE ThreadOf[k] # t
          BY <1>3, <1>5, <4>1, <5>1, <5>2 DEF Tells
        <5>3. CASE ThreadOf[k] = t
          BY <1>1, <1>4, <1>6, <3>6, <4>1, <5>3 DEF Tells
        <5> QED
          BY <5>2, <5>3
      <4> QED
        BY <3>1, <3>2, <4>1, <4>2, <4>3
    <3> QED
      BY <3>4, <3>5, <3>6
  <2>2. ASSUME NEW p \in Queues, NEW i \in DOMAIN gpu[p], IsSubmission(gpu[p][i]), NEW d \in gpu[p][i].cmds
        PROVE  /\ d[1] \in Lists /\ QueueOf[d[1]] = p
               /\ \/ active'[d[1]] = d /\ Tells(p, gpu[p][i], d[1])'
                  \/ /\ d \in ToSet(pool'[d[1]])
                     /\ Late(gpu[p], i, fence[p], lastCompletedInstance[p], submittedAs'[d])
    <3>1. PICK o1 : o1 = gpu[p][i] /\ o1 = gpu'[p][i]
      BY <1>3
    <3>2. Tells(p, o1, d[1])' = Tells(p, gpu[p][i], d[1])'
      BY <3>1
    <3> QED
      BY <2>1, <2>2, <3>1, <3>2
  <2> QED
    <3>1. UNCHANGED <<gpu, fence, lastCompletedInstance>>
      BY <1>3
    <3> QED
      BY <2>2, <3>1 DEF CmdsOK
<1> QED
  BY <1>2, <1>7, <1>8, <1>9, <1>10, <1>13, <1>14, <1>15, <1>16

\* The GPU executes the first operation of a queue.
LEMMA GpuFacts ==
  ASSUME D3D12QueueAssumption, QueueInv, NEW q \in Queues, ExecuteOperation(q)
  PROVE  \E o \in GpuOp :
           /\ 1 \in DOMAIN gpu[q] /\ o = gpu[q][1]
           /\ gpu' \in [Queues -> Seq(GpuOp)] /\ fence' \in [Queues -> Nat] /\ executedOps' \in [Queues -> Nat]
           /\ fence'[q] = (IF o.kind = "signal" THEN o.value ELSE fence[q])
           /\ executedOps'[q] = (IF IsSubmission(o) THEN executedOps[q] + 1 ELSE executedOps[q])
           /\ \A p \in Queues \ {q} : gpu'[p] = gpu[p] /\ fence'[p] = fence[p] /\ executedOps'[p] = executedOps[p]
           /\ \A i \in DOMAIN gpu'[q] : i + 1 \in DOMAIN gpu[q] /\ gpu'[q][i] = gpu[q][i + 1]
           /\ \A i \in DOMAIN gpu[q] : i # 1 => i - 1 \in DOMAIN gpu'[q] /\ gpu'[q][i - 1] = gpu[q][i]
           /\ \A i \in DOMAIN gpu[q] : i \in Nat \ {0}
           /\ fenceEvent' \in [set : BOOLEAN, on : SUBSET [queue : Queues, value : Nat]]
           /\ Follows
           /\ UNCHANGED <<lastSubmittedInstance, lastCompletedInstance, recordingInstance, pool, active, submittedAs,
                          phase, refs, inFlight, call, held, use, answered, submittedOps, before>>
<1> USE DEF QueueInv
<1>1. gpu[q] \in Seq(GpuOp) /\ gpu[q] # <<>> /\ gpu \in [Queues -> Seq(GpuOp)]
  BY DEF Types, ExecuteOperation
<1>2. PICK s : s = gpu[q]
  OBVIOUS
<1>3. PICK o \in GpuOp : o = s[1]
  BY <1>1, <1>2, TailFacts
<1>4. /\ Head(s) = o /\ 1 \in DOMAIN s /\ Tail(s) \in Seq(GpuOp)
      /\ \A i \in DOMAIN Tail(s) : i + 1 \in DOMAIN s /\ Tail(s)[i] = s[i + 1]
      /\ \A i \in DOMAIN s : i # 1 => i - 1 \in DOMAIN Tail(s) /\ Tail(s)[i - 1] = s[i]
      /\ \A i \in DOMAIN Tail(s) : \A a, b, v : Late(s, i + 1, a, b, v) =>
           Late(Tail(s), i, IF o.kind = "signal" THEN o.value ELSE a, b, v)
  BY <1>1, <1>2, <1>3, TailFacts
<1>5. /\ gpu' = [gpu EXCEPT ![q] = Tail(s)]
      /\ fence' = IF o.kind = "signal" THEN [fence EXCEPT ![q] = o.value] ELSE fence
      /\ executedOps' = IF IsSubmission(o) THEN [executedOps EXCEPT ![q] = @ + 1] ELSE executedOps
      /\ fenceEvent' = [set |-> fenceEvent.set \/ Reaches(fenceEvent.on, fence') # {},
                        on |-> fenceEvent.on \ Reaches(fenceEvent.on, fence')]
      /\ UNCHANGED <<queueVars, listVars, inFlight, call, hostVars, submittedOps, before>>
  BY <1>2, <1>4 DEF ExecuteOperation
<1>6. o.kind = "signal" => o.value \in Nat
  BY DEF GpuOp, SubmissionOp, SignalOp, WaitOp
<1>7. /\ gpu' \in [Queues -> Seq(GpuOp)] /\ fence' \in [Queues -> Nat] /\ executedOps' \in [Queues -> Nat]
      /\ fence'[q] = (IF o.kind = "signal" THEN o.value ELSE fence[q])
      /\ executedOps'[q] = (IF IsSubmission(o) THEN executedOps[q] + 1 ELSE executedOps[q])
      /\ gpu'[q] = Tail(s)
      /\ \A p \in Queues \ {q} : gpu'[p] = gpu[p] /\ fence'[p] = fence[p] /\ executedOps'[p] = executedOps[p]
  <2>1. fence \in [Queues -> Nat] /\ executedOps \in [Queues -> Nat]
    BY <1>1 DEF Types, TypeOK
  <2>2. \A n \in Nat : n + 1 \in Nat
    OBVIOUS
  <2>3. executedOps' \in [Queues -> Nat]
        /\ executedOps'[q] = (IF IsSubmission(o) THEN executedOps[q] + 1 ELSE executedOps[q])
        /\ \A p \in Queues \ {q} : executedOps'[p] = executedOps[p]
    BY <1>5, <2>1, <2>2
  <2>4. fence' \in [Queues -> Nat] /\ fence'[q] = (IF o.kind = "signal" THEN o.value ELSE fence[q])
        /\ \A p \in Queues \ {q} : fence'[p] = fence[p]
    BY <1>5, <1>6, <2>1
  <2>5. gpu' \in [Queues -> Seq(GpuOp)] /\ gpu'[q] = Tail(s) /\ \A p \in Queues \ {q} : gpu'[p] = gpu[p]
    BY <1>1, <1>4, <1>5
  <2> QED
    BY <2>3, <2>4, <2>5
<1>8. \A i \in DOMAIN gpu[q] : i \in Nat \ {0}
  <2>1. DOMAIN gpu[q] = 1..Len(gpu[q]) /\ Len(gpu[q]) \in Nat
    BY <1>1
  <2> QED
    BY <2>1
<1>9. fenceEvent' \in [set : BOOLEAN, on : SUBSET [queue : Queues, value : Nat]]
  BY <1>5 DEF Types
<1>10. UNCHANGED <<lastSubmittedInstance, lastCompletedInstance, recordingInstance, pool, active, submittedAs,
                   phase, refs, inFlight, call, held, use, answered, submittedOps, before>>
  BY <1>5 DEF queueVars, listVars, hostVars
<1>11. Follows
  <2> SUFFICES ASSUME NEW p \in Queues, NEW i \in DOMAIN gpu'[p], IsSubmission(gpu'[p][i])
               PROVE  \E j \in DOMAIN gpu[p] :
                        /\ gpu[p][j] = gpu'[p][i]
                        /\ \A v : Late(gpu[p], j, fence[p], lastCompletedInstance[p], v) =>
                                 Late(gpu'[p], i, fence'[p], lastCompletedInstance'[p], v)
    BY DEF Follows
  <2>1. CASE p = q
    <3>1. i + 1 \in DOMAIN s /\ Tail(s)[i] = s[i + 1]
      BY <1>4, <1>7, <2>1
    <3>2. \A v : Late(s, i + 1, fence[q], lastCompletedInstance[q], v) =>
                  Late(Tail(s), i, fence'[q], lastCompletedInstance[q], v)
      BY <1>4, <1>7, <2>1
    <3> QED
      <4>1. gpu'[p][i] = gpu[p][i + 1] /\ i + 1 \in DOMAIN gpu[p]
        BY <1>2, <1>7, <2>1, <3>1
      <4>2. \A v : Late(gpu[p], i + 1, fence[p], lastCompletedInstance[p], v) =>
                    Late(gpu'[p], i, fence'[p], lastCompletedInstance[p], v)
        <5>1. gpu[p] = s /\ gpu'[p] = Tail(s) /\ p = q
          BY <1>2, <1>7, <2>1
        <5> QED
          BY <3>2, <5>1, SMTT(30)
      <4>3. lastCompletedInstance' = lastCompletedInstance
        BY <1>10
      <4>4. \A v : Late(gpu[p], i + 1, fence[p], lastCompletedInstance[p], v) =>
                    Late(gpu'[p], i, fence'[p], lastCompletedInstance'[p], v)
        BY <4>2, <4>3
      <4>5. PICK j \in DOMAIN gpu[p] : j = i + 1
        BY <4>1
      <4>6. gpu[p][j] = gpu'[p][i]
        BY <4>1, <4>5
      <4>7. \A v : Late(gpu[p], j, fence[p], lastCompletedInstance[p], v) =>
                    Late(gpu'[p], i, fence'[p], lastCompletedInstance'[p], v)
        BY <4>4, <4>5
      <4> QED
        BY <4>6, <4>7
  <2>2. CASE p # q
    BY <1>7, <1>10, <2>2
  <2> QED
    BY <2>1, <2>2
<1> QED
  BY <1>1, <1>2, <1>3, <1>4, <1>7, <1>8, <1>9, <1>10, <1>11

LEMMA GpuStep ==
  ASSUME D3D12QueueAssumption, QueueInv, NEW q \in Queues, ExecuteOperation(q)
  PROVE  QueueInv'
<1> USE DEF QueueInv
<1>1. PICK o \in GpuOp :
           /\ 1 \in DOMAIN gpu[q] /\ o = gpu[q][1]
           /\ gpu' \in [Queues -> Seq(GpuOp)] /\ fence' \in [Queues -> Nat] /\ executedOps' \in [Queues -> Nat]
           /\ fence'[q] = (IF o.kind = "signal" THEN o.value ELSE fence[q])
           /\ executedOps'[q] = (IF IsSubmission(o) THEN executedOps[q] + 1 ELSE executedOps[q])
           /\ \A p \in Queues \ {q} : gpu'[p] = gpu[p] /\ fence'[p] = fence[p] /\ executedOps'[p] = executedOps[p]
           /\ \A i \in DOMAIN gpu'[q] : i + 1 \in DOMAIN gpu[q] /\ gpu'[q][i] = gpu[q][i + 1]
           /\ \A i \in DOMAIN gpu[q] : i # 1 => i - 1 \in DOMAIN gpu'[q] /\ gpu'[q][i - 1] = gpu[q][i]
           /\ \A i \in DOMAIN gpu[q] : i \in Nat \ {0}
           /\ fenceEvent' \in [set : BOOLEAN, on : SUBSET [queue : Queues, value : Nat]]
           /\ Follows
           /\ UNCHANGED <<lastSubmittedInstance, lastCompletedInstance, recordingInstance, pool, active, submittedAs,
                          phase, refs, inFlight, call, held, use, answered, submittedOps, before>>
  BY GpuFacts
<1>2. Types'
  <2>1. fenceEvent'.set \in BOOLEAN
    BY <1>1
  <2> QED
    BY <1>1, <2>1 DEF Types, TypeOK
<1>3. Numbers'
  <2>1. ASSUME NEW p \in Queues
        PROVE  /\ fence'[p] <= lastSubmittedInstance[p]
               /\ lastCompletedInstance[p] <= lastSubmittedInstance[p]
               /\ \A i \in DOMAIN gpu'[p] :
                    gpu'[p][i].kind = "signal" => gpu'[p][i].value <= lastSubmittedInstance[p]
    <3>1. CASE p # q
      <4>1. gpu'[p] = gpu[p] /\ fence'[p] = fence[p]
        BY <1>1, <3>1
      <4> QED
        BY <4>1 DEF Numbers
    <3>2. CASE p = q
      <4>1. \A i \in DOMAIN gpu[q] : gpu[q][i].kind = "signal" => gpu[q][i].value <= lastSubmittedInstance[q]
        BY DEF Numbers
      <4>2. fence'[q] <= lastSubmittedInstance[q]
        BY <1>1, <4>1 DEF Numbers
      <4>3. lastCompletedInstance[q] <= lastSubmittedInstance[q]
        BY DEF Numbers
      <4>4. \A i \in DOMAIN gpu'[q] : i + 1 \in DOMAIN gpu[q] /\ gpu'[q][i] = gpu[q][i + 1]
        BY <1>1
      <4> QED
        BY <3>2, <4>1, <4>2, <4>3, <4>4
    <3> QED
      BY <3>1, <3>2
  <2> QED
    BY <1>1, <2>1 DEF Numbers
<1>4. OpsNumbered'
  <2> SUFFICES ASSUME NEW p \in Queues
               PROVE  /\ executedOps'[p] <= submittedOps[p]
                      /\ \A i \in DOMAIN gpu'[p] : IsSubmission(gpu'[p][i]) =>
                           /\ gpu'[p][i].index \in (executedOps'[p] + 1)..submittedOps[p]
                           /\ \A j \in DOMAIN gpu'[p] : IsSubmission(gpu'[p][j]) /\ i < j =>
                                gpu'[p][i].index < gpu'[p][j].index
                      /\ \A n \in (executedOps'[p] + 1)..submittedOps[p] :
                           \E i \in DOMAIN gpu'[p] : IsSubmission(gpu'[p][i]) /\ gpu'[p][i].index = n
    BY <1>1 DEF OpsNumbered
  <2>1. CASE p # q
    <3>1. gpu'[p] = gpu[p] /\ executedOps'[p] = executedOps[p]
      BY <1>1, <2>1
    <3> QED
      BY <3>1 DEF OpsNumbered
  <2>2. CASE p = q
    <3> DEFINE ops == gpu[q]
               e == executedOps[q]
               m == submittedOps[q]
    <3>1. /\ e \in Nat /\ m \in Nat /\ e <= m
          /\ \A i \in DOMAIN ops : IsSubmission(ops[i]) =>
               /\ ops[i].index \in (e + 1)..m
               /\ \A j \in DOMAIN ops : IsSubmission(ops[j]) /\ i < j => ops[i].index < ops[j].index
          /\ \A n \in (e + 1)..m : \E i \in DOMAIN ops : IsSubmission(ops[i]) /\ ops[i].index = n
      BY SMTT(30) DEF OpsNumbered, Types, TypeOK
    <3>2. \A i \in DOMAIN gpu'[q] : IsSubmission(gpu'[q][i]) =>
            /\ gpu'[q][i].index \in (e + 1)..m
            /\ IsSubmission(o) => gpu'[q][i].index > o.index
            /\ \A j \in DOMAIN gpu'[q] : IsSubmission(gpu'[q][j]) /\ i < j =>
                 gpu'[q][i].index < gpu'[q][j].index
      <4> SUFFICES ASSUME NEW i \in DOMAIN gpu'[q], IsSubmission(gpu'[q][i])
                   PROVE  /\ gpu'[q][i].index \in (e + 1)..m
                          /\ IsSubmission(o) => gpu'[q][i].index > o.index
                          /\ \A j \in DOMAIN gpu'[q] : IsSubmission(gpu'[q][j]) /\ i < j =>
                               gpu'[q][i].index < gpu'[q][j].index
        OBVIOUS
      <4>0. i \in Nat \ {0} /\ \A j \in DOMAIN gpu'[q] : j \in Nat \ {0}
        <5>1. gpu'[q] \in Seq(GpuOp)
          BY <1>1
        <5>2. DOMAIN gpu'[q] = 1..Len(gpu'[q]) /\ Len(gpu'[q]) \in Nat
          BY <5>1
        <5> QED
          BY <5>2
      <4>1. i + 1 \in DOMAIN ops /\ gpu'[q][i] = ops[i + 1] /\ 1 < i + 1
        BY <1>1, <4>0
      <4>2. gpu'[q][i].index \in (e + 1)..m
        BY <3>1, <4>1
      <4>3. IsSubmission(o) => o.index < gpu'[q][i].index /\ o.index \in (e + 1)..m
        <5>1. 1 \in DOMAIN ops /\ o = ops[1] /\ IsSubmission(ops[i + 1])
          BY <1>1, <4>1
        <5>2. IsSubmission(ops[1]) => ops[1].index < ops[i + 1].index /\ ops[1].index \in (e + 1)..m
          BY <3>1, <4>1, <5>1
        <5> QED
          BY <4>1, <5>1, <5>2
      <4>4. ASSUME NEW j \in DOMAIN gpu'[q], IsSubmission(gpu'[q][j]), i < j
            PROVE  gpu'[q][i].index < gpu'[q][j].index
        <5>1. j + 1 \in DOMAIN ops /\ gpu'[q][j] = ops[j + 1] /\ i + 1 < j + 1
          BY <1>1, <4>0, <4>4
        <5> QED
          BY <3>1, <4>1, <4>4, <5>1
      <4> QED
        BY <3>1, <4>2, <4>3, <4>4
    <3>3. CASE IsSubmission(o)
      <4>1. o.index = e + 1
        <5>1. o.index \in (e + 1)..m
          BY <1>1, <3>1, <3>3
        <5>2. PICK i \in DOMAIN ops : IsSubmission(ops[i]) /\ ops[i].index = e + 1
          BY <3>1, <5>1
        <5>3. i = 1 \/ 1 < i
          BY <1>1
        <5>4. 1 < i => o.index < e + 1
          BY <1>1, <3>1, <3>3, <5>2
        <5> QED
          BY <1>1, <3>1, <5>1, <5>2, <5>3, <5>4
      <4>2. executedOps'[q] = e + 1 /\ e + 1 <= m
        BY <1>1, <3>1, <3>3, <4>1
      <4>3. \A i \in DOMAIN gpu'[q] : IsSubmission(gpu'[q][i]) => gpu'[q][i].index \in (e + 2)..m
        BY <3>1, <3>2, <3>3, <4>1
      <4>4. ASSUME NEW n \in (e + 2)..m
            PROVE  \E i \in DOMAIN gpu'[q] : IsSubmission(gpu'[q][i]) /\ gpu'[q][i].index = n
        <5>1. PICK i \in DOMAIN ops : IsSubmission(ops[i]) /\ ops[i].index = n
          BY <3>1
        <5>2. i # 1
          BY <1>1, <3>1, <4>1, <5>1
        <5>3. i - 1 \in DOMAIN gpu'[q] /\ gpu'[q][i - 1] = ops[i]
          BY <1>1, <5>2
        <5> QED
          BY <5>1, <5>3
      <4> HIDE DEF ops
      <4>5. (e + 1) + 1 = e + 2
        BY <3>1
      <4>6. (executedOps'[q] + 1)..submittedOps[q] = (e + 2)..m
        BY <4>2, <4>5
      <4> QED
        BY <2>2, <3>2, <4>2, <4>3, <4>4, <4>6
    <3>4. CASE ~IsSubmission(o)
      <4>1. executedOps'[q] = e
        BY <1>1, <3>4
      <4>2. ASSUME NEW n \in (e + 1)..m
            PROVE  \E i \in DOMAIN gpu'[q] : IsSubmission(gpu'[q][i]) /\ gpu'[q][i].index = n
        <5>1. PICK i \in DOMAIN ops : IsSubmission(ops[i]) /\ ops[i].index = n
          BY <3>1
        <5>2. i # 1
          BY <1>1, <3>4, <5>1
        <5>3. i - 1 \in DOMAIN gpu'[q] /\ gpu'[q][i - 1] = ops[i]
          BY <1>1, <5>2
        <5> QED
          BY <5>1, <5>3
      <4> QED
        BY <2>2, <3>1, <3>2, <4>1, <4>2
    <3> QED
      BY <3>3, <3>4
  <2> QED
    BY <2>1, <2>2
<1>5. \A t \in Threads : Submits(t)' <=> Submits(t)
  BY <1>1 DEF Submits
<1>6. CallsOK' /\ SubmittedOK' /\ PoolsOK'
  BY <1>1, <1>5 DEF CallsOK, SubmittedOK, PoolsOK, D3D12QueueAssumption
<1>7. FewNumbered'
  <2>1. \A p \in Queues : Pending(p)' \subseteq Pending(p)
    <3>1. ASSUME NEW p \in Queues, NEW i \in DOMAIN gpu'[p]
          PROVE  \E j \in DOMAIN gpu[p] : gpu[p][j] = gpu'[p][i]
      <4>1. CASE p = q
        BY <1>1, <4>1
      <4>2. CASE p # q
        BY <1>1, <4>2
      <4> QED
        BY <4>1, <4>2
    <3> QED
      BY <3>1 DEF Pending, ToSet
  <2>2. \A l \in Lists : Numbered(l)' \subseteq Numbered(l)
    BY <1>1, <2>1 DEF Numbered
  <2> QED
    BY <1>1, <2>2, FewStay
<1>8. CountedOK'
  <2>1. ASSUME NEW p \in Queues, NEW i \in DOMAIN gpu'[p], IsSubmission(gpu'[p][i])
        PROVE  \/ \E t \in Threads : call[t].op = "count" /\ call[t].queue = p /\ call[t].index = gpu'[p][i].index
               \/ Late(gpu'[p], i, fence'[p], lastCompletedInstance'[p], lastSubmittedInstance[p])
    BY <1>1, <2>1, CountedFollows
  <2> QED
    BY <1>1, <2>1 DEF CountedOK
<1>9. CmdsOK'
  <2>1. \A p \in Queues, l \in Lists : \A op : Tells(p, op, l) => Tells(p, op, l)'
    BY <1>1, <1>5 DEF Tells, D3D12QueueAssumption
  <2>2. ASSUME NEW p \in Queues, NEW i \in DOMAIN gpu'[p], IsSubmission(gpu'[p][i]), NEW c \in gpu'[p][i].cmds
        PROVE  /\ c[1] \in Lists /\ QueueOf[c[1]] = p
               /\ \/ active'[c[1]] = c /\ Tells(p, gpu[p][i], c[1])'
                  \/ /\ c \in ToSet(pool'[c[1]])
                     /\ Late(gpu'[p], i, fence'[p], lastCompletedInstance'[p], submittedAs'[c])
    <3>1. /\ c[1] \in Lists /\ QueueOf[c[1]] = p
          /\ \/ active[c[1]] = c /\ \A op : op = gpu'[p][i] => Tells(p, op, c[1])
             \/ /\ c \in ToSet(pool[c[1]])
                /\ Late(gpu'[p], i, fence'[p], lastCompletedInstance'[p], submittedAs[c])
      BY <1>1, <2>2, CmdsFollow
    <3>2. PICK o1 : o1 = gpu'[p][i]
      OBVIOUS
    <3>3. Tells(p, o1, c[1]) => Tells(p, o1, c[1])'
      BY <2>1, <3>1
    <3> QED
      BY <1>1, <3>1, <3>2, <3>3
  <2> QED
    BY <2>2 DEF CmdsOK
<1> QED
  BY <1>2, <1>3, <1>4, <1>6, <1>7, <1>8, <1>9

\* A list is opened with an internal list that the GPU is done with.
OpenStepOf(l, q, c, reused) ==
    /\ active' = [active EXCEPT ![l] = c]
    /\ pool' = IF reused THEN [pool EXCEPT ![l] = Tail(@)] ELSE pool
    /\ lastCompletedInstance' = [lastCompletedInstance EXCEPT ![q] = Completed(q)]
    /\ recordingInstance' = [recordingInstance EXCEPT ![q] = @ + 1]
    /\ refs' = [refs EXCEPT ![l] = {}]
    /\ phase' = [phase EXCEPT ![l] = "open"]
    /\ UNCHANGED <<lastSubmittedInstance, submittedAs, inFlight, call, hostVars, fenceEvent, gpuVars, before>>

LEMMA OpenFacts ==
  ASSUME D3D12QueueAssumption, QueueInv, NEW l \in Lists, Open(l)
  PROVE  \E q \in Queues, c \in InternalLists, reused \in BOOLEAN :
           /\ q = QueueOf[l] /\ c[1] = l /\ l \in held /\ phase[l] \in {"idle", "closed"}
           /\ recordingInstance[q] <= MaxOpens[q]
           /\ reused => pool[l] # <<>> /\ c = Head(pool[l])
           /\ ~reused => c \notin ToSet(pool[l])
           /\ \A p \in Queues : \A i \in DOMAIN gpu[p] : IsSubmission(gpu[p][i]) => c \notin gpu[p][i].cmds
           /\ OpenStepOf(l, q, c, reused)
<1> USE DEF QueueInv
<1>1. PICK q \in Queues : q = QueueOf[l]
  BY DEF D3D12QueueAssumption
<1>2. PICK reused \in BOOLEAN : reused = Reusable(l)
  BY DEF Reusable
<1>3. PICK c : c = IF reused THEN Head(pool[l]) ELSE <<l, FreshNumber(l)>>
  OBVIOUS
<1>4. OpenStepOf(l, q, c, reused) /\ l \in held /\ phase[l] \in {"idle", "closed"} /\ recordingInstance[q] <= MaxOpens[q]
  BY <1>1, <1>2, <1>3 DEF Open, OpenStepOf
<1>5. pool[l] \in Seq(InternalLists) /\ IsInjective(pool[l])
  BY DEF Types, TypeOK, PoolsOK
<1>6. CASE reused
  <2>1. c \in InternalLists /\ c \in ToSet(pool[l]) /\ c[1] = l /\ pool[l] # <<>>
    BY <1>2, <1>3, <1>5, <1>6, InjectiveTail DEF Reusable, PoolsOK
  <2>2. submittedAs[c] <= Completed(q)
    BY <1>1, <1>2, <1>3, <1>6 DEF Reusable
  <2>3. ASSUME NEW p \in Queues, NEW i \in DOMAIN gpu[p], IsSubmission(gpu[p][i]), c \in gpu[p][i].cmds
        PROVE  FALSE
    <3>1. p = q
      BY <1>1, <2>1, <2>3 DEF CmdsOK
    <3>2. ~Tells(p, gpu[p][i], l)
      BY <1>4 DEF Tells
    <3>3. Late(gpu[q], i, fence[q], lastCompletedInstance[q], submittedAs[c])
      BY <2>1, <2>3, <3>1, <3>2 DEF CmdsOK
    <3>4. fence[q] < submittedAs[c] /\ lastCompletedInstance[q] < submittedAs[c]
      BY <3>3 DEF Late
    <3>5. Completed(q) \in {lastCompletedInstance[q], fence[q]}
      BY CompletedFacts
    <3>6. submittedAs[c] \in Nat /\ fence[q] \in Nat /\ lastCompletedInstance[q] \in Nat
      BY <2>1 DEF Types, TypeOK
    <3> QED
      BY <2>2, <3>4, <3>5, <3>6
  <2> QED
    BY <1>1, <1>3, <1>4, <1>6, <2>1, <2>3
<1>7. CASE ~reused
  <2>1. PICK m \in 1..MaxOpens[q] : m \notin Numbered(l)
    <3>1. MaxOpens[q] \in Nat /\ recordingInstance[q] \in Nat
      BY DEF D3D12QueueAssumption, Types
    <3>2. Cardinality(Numbered(l)) < MaxOpens[q] /\ Cardinality(Numbered(l)) \in Nat
      BY <1>1, <1>4, <3>1, NumberedFacts DEF FewNumbered
    <3>3. Cardinality(1..MaxOpens[q]) = MaxOpens[q]
      BY <3>1, FS_Interval
    <3>4. Numbered(l) # 1..MaxOpens[q]
      BY <3>1, <3>2, <3>3
    <3>5. Numbered(l) \subseteq 1..MaxOpens[q]
      BY <1>1 DEF Numbered
    <3> QED
      BY <3>4, <3>5
  <2>2. <<l, m>> \notin ToSet(pool[l]) /\ \A p \in Queues : \A op \in Pending(p) : <<l, m>> \notin op.cmds
    BY <1>1, <2>1 DEF Numbered
  <2>3. /\ FreshNumber(l) \in 1..MaxOpens[q] /\ <<l, FreshNumber(l)>> \notin ToSet(pool[l])
        /\ \A p \in Queues : \A op \in Pending(p) : <<l, FreshNumber(l)>> \notin op.cmds
    BY <1>1, <2>2 DEF FreshNumber
  <2>4. c \in InternalLists /\ c[1] = l
    BY <1>1, <1>3, <1>7, <2>3, InternalFacts
  <2>5. \A p \in Queues : \A i \in DOMAIN gpu[p] : IsSubmission(gpu[p][i]) => gpu[p][i] \in Pending(p)
    BY DEF Pending, ToSet
  <2>6. \A p \in Queues : \A i \in DOMAIN gpu[p] : IsSubmission(gpu[p][i]) => c \notin gpu[p][i].cmds
    BY <1>3, <1>7, <2>3, <2>5
  <2> QED
    BY <1>1, <1>3, <1>4, <1>7, <2>3, <2>4, <2>6
<1> QED
  BY <1>6, <1>7

LEMMA OpenTypes ==
  ASSUME D3D12QueueAssumption, QueueInv, NEW l \in Lists, NEW q \in Queues, NEW c \in InternalLists,
         NEW reused \in BOOLEAN, recordingInstance[q] <= MaxOpens[q], reused => pool[l] # <<>>,
         OpenStepOf(l, q, c, reused)
  PROVE  Types'
<1> USE DEF QueueInv
<1>1. pool' \in [Lists -> Seq(InternalLists)]
  <2>1. pool \in [Lists -> Seq(InternalLists)] /\ pool[l] \in Seq(InternalLists)
    BY DEF Types, TypeOK
  <2>2. reused => Tail(pool[l]) \in Seq(InternalLists)
    BY <2>1, InjectiveTail DEF PoolsOK
  <2> QED
    BY <2>1, <2>2 DEF OpenStepOf
<1>2. lastCompletedInstance' \in [Queues -> Nat]
  BY CompletedFacts DEF OpenStepOf, Types, TypeOK
<1>3. /\ recordingInstance' \in [Queues -> Nat]
      /\ \A p \in Queues : recordingInstance'[p] \in 1..(MaxOpens[p] + 1)
  <2>1. \A p \in Queues : MaxOpens[p] \in Nat
    BY DEF D3D12QueueAssumption
  <2>2. /\ recordingInstance \in [Queues -> Nat] /\ recordingInstance' = [recordingInstance EXCEPT ![q] = @ + 1]
        /\ \A p \in Queues : recordingInstance[p] \in 1..(MaxOpens[p] + 1)
    BY DEF OpenStepOf, Types, TypeOK
  <2> QED
    BY <2>1, <2>2
<1>4. active' \in [Lists -> InternalLists \cup {None}] /\ \A k \in Lists : active'[k] = None <=> phase'[k] = "idle"
  <2>1. c # None
    BY InternalFacts
  <2>2. /\ active \in [Lists -> InternalLists \cup {None}] /\ phase \in [Lists -> {"idle", "open", "closed", "submitted"}]
        /\ \A k \in Lists : active[k] = None <=> phase[k] = "idle"
        /\ active' = [active EXCEPT ![l] = c] /\ phase' = [phase EXCEPT ![l] = "open"]
    BY DEF OpenStepOf, Types, TypeOK
  <2> QED
    BY <2>1, <2>2
<1>5. /\ refs' \in [Lists -> SUBSET Resources] /\ phase' \in [Lists -> {"idle", "open", "closed", "submitted"}]
      /\ \A k \in Lists : refs'[k] \cap (Events \cup Lists) = {}
  BY DEF OpenStepOf, Types, TypeOK
<1> QED
  BY <1>1, <1>2, <1>3, <1>4, <1>5 DEF OpenStepOf, Types, TypeOK, hostVars, gpuVars

LEMMA OpenStep ==
  ASSUME D3D12QueueAssumption, QueueInv, NEW l \in Lists, Open(l)
  PROVE  QueueInv'
<1> USE DEF QueueInv
<1>1. PICK q \in Queues, c \in InternalLists, reused \in BOOLEAN :
           /\ q = QueueOf[l] /\ c[1] = l /\ l \in held /\ phase[l] \in {"idle", "closed"}
           /\ recordingInstance[q] <= MaxOpens[q]
           /\ reused => pool[l] # <<>> /\ c = Head(pool[l])
           /\ ~reused => c \notin ToSet(pool[l])
           /\ \A p \in Queues : \A i \in DOMAIN gpu[p] : IsSubmission(gpu[p][i]) => c \notin gpu[p][i].cmds
           /\ OpenStepOf(l, q, c, reused)
  BY OpenFacts
<1>2. Types'
  BY <1>1, OpenTypes
<1>3. /\ UNCHANGED <<lastSubmittedInstance, submittedAs, call, gpu, fence, submittedOps, executedOps>>
      /\ lastCompletedInstance'[q] = Completed(q)
      /\ \A p \in Queues \ {q} : lastCompletedInstance'[p] = lastCompletedInstance[p]
      /\ recordingInstance'[q] = recordingInstance[q] + 1
      /\ \A p \in Queues \ {q} : recordingInstance'[p] = recordingInstance[p]
      /\ active'[l] = c /\ \A k \in Lists \ {l} : active'[k] = active[k]
      /\ pool'[l] = (IF reused THEN Tail(pool[l]) ELSE pool[l]) /\ \A k \in Lists \ {l} : pool'[k] = pool[k]
      /\ phase'[l] = "open" /\ \A k \in Lists \ {l} : phase'[k] = phase[k]
  BY <1>1 DEF OpenStepOf, Types, TypeOK, gpuVars
<1>4. /\ Completed(q) \in {lastCompletedInstance[q], fence[q]} /\ Completed(q) \in Nat
      /\ Completed(q) <= lastSubmittedInstance[q]
  BY CompletedFacts
<1>5. \A k \in Lists : phase'[k] = "submitted" <=> phase[k] = "submitted"
  BY <1>1, <1>3
<1>6. pool[l] \in Seq(InternalLists) /\ IsInjective(pool[l])
  BY DEF Types, TypeOK, PoolsOK
<1>7. /\ IsInjective(pool'[l]) /\ c \notin ToSet(pool'[l])
      /\ ToSet(pool[l]) \subseteq ToSet(pool'[l]) \cup {c} /\ ToSet(pool'[l]) \subseteq ToSet(pool[l])
  BY <1>1, <1>3, <1>6, InjectiveTail
<1>8. \A t \in Threads : Submits(t)' <=> Submits(t)
  BY <1>3 DEF Submits
<1>9. Numbers'
  BY <1>3, <1>4 DEF Numbers
<1>10. OpsNumbered'
  BY <1>3 DEF OpsNumbered
<1>11. CallsOK'
  <2>1. \A t \in Threads : Submits(t) => ToSet(call[t].todo) \subseteq Lists
    BY SubmitsFacts
  <2> QED
    BY <1>3, <1>5, <1>8, <2>1 DEF CallsOK
<1>12. SubmittedOK'
  BY <1>3, <1>5, <1>8 DEF SubmittedOK, D3D12QueueAssumption
<1>13. PoolsOK'
  <2> SUFFICES ASSUME NEW k \in Lists
               PROVE  /\ \A d \in ToSet(pool'[k]) : d[1] = k
                      /\ IsInjective(pool'[k])
                      /\ active'[k] # None => active'[k][1] = k /\ active'[k] \notin ToSet(pool'[k])
    BY DEF PoolsOK
  <2>1. CASE k = l
    BY <1>1, <1>3, <1>7, <2>1 DEF PoolsOK
  <2>2. CASE k # l
    BY <1>3, <2>2 DEF PoolsOK
  <2> QED
    BY <2>1, <2>2
<1>14. \A p \in Queues : Pending(p)' = Pending(p)
  BY <1>3 DEF Pending
<1>15. FewNumbered'
  <2> SUFFICES ASSUME NEW k \in Lists
               PROVE  Cardinality(Numbered(k)') < recordingInstance'[QueueOf[k]]
    BY DEF FewNumbered
  <2>1. recordingInstance[QueueOf[k]] \in Nat /\ recordingInstance'[QueueOf[k]] \in Nat
        /\ recordingInstance[QueueOf[k]] <= recordingInstance'[QueueOf[k]]
    <3>1. QueueOf[k] \in Queues
      BY DEF D3D12QueueAssumption
    <3>2. recordingInstance[QueueOf[k]] \in Nat
      BY <3>1 DEF Types
    <3> QED
      BY <1>3, <3>1, <3>2
  <2>2. Cardinality(Numbered(k)) < recordingInstance[QueueOf[k]]
    BY DEF FewNumbered
  <2>3. IsFiniteSet(Numbered(k)) /\ Cardinality(Numbered(k)) \in Nat
    BY NumberedFacts
  <2>4. CASE k # l
    <3>1. Numbered(k)' = Numbered(k)
      BY <1>3, <1>14, <2>4 DEF Numbered
    <3> QED
      BY <2>1, <2>2, <2>3, <3>1
  <2>5. CASE k = l
    <3>1. PICK m : c = <<l, m>>
      BY <1>1, InternalFacts
    <3>2. Numbered(l)' \subseteq Numbered(l) \cup {m}
      <4>1. \A n : <<l, n>> = c => n = m
        BY <3>1
      <4> QED
        BY <1>3, <1>7, <1>14, <4>1 DEF Numbered
    <3>3. PICK S : S = Numbered(l)'
      OBVIOUS
    <3>4. IsFiniteSet(Numbered(l) \cup {m}) /\ Cardinality(Numbered(l) \cup {m}) <= Cardinality(Numbered(l)) + 1
          /\ Cardinality(Numbered(l) \cup {m}) \in Nat
      <4>1. PICK T : T = Numbered(l)
        OBVIOUS
      <4>2. IsFiniteSet(T) /\ Cardinality(T) \in Nat
        BY <2>3, <2>5, <4>1
      <4>3. /\ IsFiniteSet(T \cup {m})
            /\ Cardinality(T \cup {m}) = IF m \in T THEN Cardinality(T) ELSE Cardinality(T) + 1
        BY <4>2, FS_AddElement
      <4>4. Cardinality(T \cup {m}) <= Cardinality(T) + 1 /\ Cardinality(T \cup {m}) \in Nat
        BY <4>2, <4>3
      <4> QED
        BY <4>1, <4>3, <4>4
    <3>5. IsFiniteSet(S) /\ Cardinality(S) <= Cardinality(Numbered(l) \cup {m})
      BY <3>2, <3>3, <3>4, FS_Subset
    <3>6. Cardinality(S) \in Nat
      BY <3>5, FS_CardinalityType
    <3>7. recordingInstance'[QueueOf[k]] = recordingInstance[QueueOf[k]] + 1
      BY <1>1, <1>3, <2>5
    <3> QED
      BY <2>1, <2>2, <2>3, <2>5, <3>3, <3>4, <3>5, <3>6, <3>7
  <2> QED
    BY <2>4, <2>5
<1>16. Follows
  <2>1. \A p \in Queues : lastCompletedInstance'[p] \in {lastCompletedInstance[p], fence[p]}
    BY <1>3, <1>4
  <2> QED
    BY <1>3, <2>1, StillFollows
<1>17. CountedOK'
  <2>1. ASSUME NEW p \in Queues, NEW i \in DOMAIN gpu'[p], IsSubmission(gpu'[p][i])
        PROVE  \/ \E t \in Threads : call[t].op = "count" /\ call[t].queue = p /\ call[t].index = gpu'[p][i].index
               \/ Late(gpu'[p], i, fence'[p], lastCompletedInstance'[p], lastSubmittedInstance[p])
    BY <1>16, <2>1, CountedFollows
  <2> QED
    BY <1>3, <2>1 DEF CountedOK
<1>18. CmdsOK'
  <2>1. ASSUME NEW p \in Queues, NEW i \in DOMAIN gpu'[p], IsSubmission(gpu'[p][i]), NEW d \in gpu'[p][i].cmds
        PROVE  /\ d[1] \in Lists /\ QueueOf[d[1]] = p
               /\ \/ active'[d[1]] = d /\ Tells(p, gpu[p][i], d[1])'
                  \/ /\ d \in ToSet(pool'[d[1]])
                     /\ Late(gpu'[p], i, fence'[p], lastCompletedInstance'[p], submittedAs'[d])
    <3>1. /\ d[1] \in Lists /\ QueueOf[d[1]] = p
          /\ \/ active[d[1]] = d /\ \A op : op = gpu'[p][i] => Tells(p, op, d[1])
             \/ /\ d \in ToSet(pool[d[1]])
                /\ Late(gpu'[p], i, fence'[p], lastCompletedInstance'[p], submittedAs[d])
      BY <1>16, <2>1, CmdsFollow
    <3>2. PICK o1 : o1 = gpu'[p][i]
      OBVIOUS
    <3>3. Tells(p, o1, d[1]) => Tells(p, o1, d[1])' /\ d[1] # l
      BY <1>1, <1>3, <1>5, <1>8, <3>1 DEF Tells, D3D12QueueAssumption
    <3>4. d # c
      BY <1>1, <1>3, <2>1
    <3>5. d \in ToSet(pool[d[1]]) => d \in ToSet(pool'[d[1]])
      BY <1>3, <1>7, <3>1, <3>4
    <3> QED
      BY <1>3, <3>1, <3>2, <3>3, <3>5
  <2> QED
    BY <2>1 DEF CmdsOK
<1> QED
  BY <1>2, <1>9, <1>10, <1>11, <1>12, <1>13, <1>15, <1>17, <1>18

\* Lists are given to a queue, and to the call that will tell them.
ExecuteStepOf(t, q, ls, o, d) ==
    /\ gpu' = [gpu EXCEPT ![q] = Append(@, o)]
    /\ submittedOps' = [submittedOps EXCEPT ![q] = o.index]
    /\ phase' = [l \in Lists |-> IF l \in ToSet(ls) THEN "submitted" ELSE phase[l]]
    /\ answered' = answered \ (o.used \cap Timers)
    /\ call' = [call EXCEPT ![t] = d]
    /\ UNCHANGED <<queueVars, pool, active, submittedAs, refs, inFlight, held, use, fenceEvent, fence, executedOps, before>>

LEMMA ExecuteFacts ==
  ASSUME D3D12QueueAssumption, QueueInv, NEW t \in Threads, NEW ls \in Batches, ExecuteCommandLists(t, ls)
  PROVE  \E q \in Queues, o \in SubmissionOp, d \in CountCall :
           /\ call[t] = Idle /\ ~Submits(t)
           /\ ls \in Seq(Lists) /\ ls # <<>> /\ IsInjective(ls) /\ ToSet(ls) \subseteq Lists
           /\ \A l \in ToSet(ls) : phase[l] = "closed" /\ l \in held /\ ThreadOf[l] = t /\ QueueOf[l] = q
           /\ o.index = submittedOps[q] + 1
           /\ o.used = UNION {UsedBy(l) : l \in ToSet(ls)} /\ o.cmds = {active[l] : l \in ToSet(ls)}
           /\ d.op = "count" /\ d.queue = q /\ d.todo = ls /\ d.index = submittedOps[q] + 1
           /\ o.used \cap answered \cap Staging = {}
           /\ \A u \in Threads : call[u].op = "wait" => call[u].for \notin o.used
           /\ "SharesQueues" \in Avoided => o.used \cap Waitable \cap UsedElsewhere(q) = {}
           /\ ExecuteStepOf(t, q, ls, o, d)
<1> USE DEF QueueInv
<1>1. /\ ls \in Seq(Lists) /\ ls # <<>> /\ IsInjective(ls) /\ ToSet(ls) \subseteq Lists /\ ls[1] \in ToSet(ls)
  <2>1. CASE \E l \in Lists : ls = <<l>>
    <3>1. PICK l \in Lists : ls = <<l>>
      BY <2>1
    <3> QED
      BY <3>1 DEF IsInjective, ToSet
  <2>2. CASE ls \in Lists \X Lists /\ ls[1] # ls[2]
    <3>1. PICK k \in Lists, l \in Lists : ls = <<k, l>> /\ k # l
      BY <2>2
    <3>2. DOMAIN ls = {1, 2} /\ ls[1] = k /\ ls[2] = l
      BY <3>1
    <3> QED
      BY <3>1, <3>2 DEF IsInjective, ToSet
  <2> QED
    BY <2>1, <2>2 DEF Batches
<1>2. PICK q \in Queues : q = QueueOf[ls[1]]
  BY <1>1 DEF D3D12QueueAssumption
<1>3. /\ call[t] = Idle /\ ~Submits(t)
      /\ \A l \in ToSet(ls) : phase[l] = "closed" /\ l \in held /\ ThreadOf[l] = t /\ QueueOf[l] = q
  BY <1>2 DEF ExecuteCommandLists, Submits, Idle
<1>4. submittedOps[q] \in Nat
  BY DEF Types, TypeOK
<1>5. PICK used : used = UNION {UsedBy(l) : l \in ToSet(ls)}
  OBVIOUS
<1>6. PICK cmds : cmds = {active[l] : l \in ToSet(ls)}
  OBVIOUS
<1>7. used \subseteq Resources \ Events
  <2>1. \A l \in Lists : l \in Resources \ Events /\ refs[l] \subseteq Resources \ Events
    BY DEF Types, TypeOK, D3D12QueueAssumption
  <2> QED
    BY <1>1, <1>5, <2>1 DEF UsedBy
<1>8. cmds \subseteq InternalLists
  <2>1. \A l \in ToSet(ls) : active[l] # None
    BY <1>1, <1>3 DEF Types, TypeOK
  <2> QED
    BY <1>1, <1>6, <2>1 DEF Types, TypeOK
<1>9. PICK o : o = [kind |-> "lists", index |-> submittedOps[q] + 1, used |-> used, cmds |-> cmds]
  OBVIOUS
<1>10. PICK d : d = [op |-> "count", queue |-> q, todo |-> ls, index |-> submittedOps[q] + 1]
  OBVIOUS
<1>11. o \in SubmissionOp /\ o.index = submittedOps[q] + 1 /\ o.used = used /\ o.cmds = cmds
  BY <1>4, <1>7, <1>8, <1>9 DEF SubmissionOp
<1>12. d \in CountCall /\ d.op = "count" /\ d.queue = q /\ d.todo = ls /\ d.index = submittedOps[q] + 1
  BY <1>1, <1>4, <1>10 DEF CountCall
<1>13. /\ used \cap answered \cap Staging = {}
       /\ \A u \in Threads : call[u].op = "wait" => call[u].for \notin used
       /\ "SharesQueues" \in Avoided => used \cap Waitable \cap UsedElsewhere(q) = {}
  BY <1>2, <1>5 DEF ExecuteCommandLists, Busy, Avoids
<1>14. /\ gpu' = [gpu EXCEPT ![q] = Append(@, o)]
       /\ submittedOps' = [submittedOps EXCEPT ![q] = submittedOps[q] + 1]
       /\ phase' = [l \in Lists |-> IF l \in ToSet(ls) THEN "submitted" ELSE phase[l]]
       /\ answered' = answered \ (used \cap Timers)
       /\ call' = [call EXCEPT ![t] = d]
       /\ UNCHANGED <<queueVars, pool, active, submittedAs, refs, inFlight, held, use, fenceEvent, fence, executedOps, before>>
  BY <1>2, <1>5, <1>6, <1>9, <1>10 DEF ExecuteCommandLists
<1>15. ExecuteStepOf(t, q, ls, o, d)
  BY <1>11, <1>14 DEF ExecuteStepOf
<1> QED
  BY <1>1, <1>3, <1>5, <1>6, <1>11, <1>12, <1>13, <1>15

LEMMA ExecuteStep ==
  ASSUME D3D12QueueAssumption, QueueInv, NEW t \in Threads, NEW ls \in Batches, ExecuteCommandLists(t, ls)
  PROVE  QueueInv'
<1> USE DEF QueueInv
<1>1. PICK q \in Queues, o \in SubmissionOp, d \in CountCall :
           /\ call[t] = Idle /\ ~Submits(t)
           /\ ls \in Seq(Lists) /\ ls # <<>> /\ IsInjective(ls) /\ ToSet(ls) \subseteq Lists
           /\ \A l \in ToSet(ls) : phase[l] = "closed" /\ l \in held /\ ThreadOf[l] = t /\ QueueOf[l] = q
           /\ o.index = submittedOps[q] + 1
           /\ o.used = UNION {UsedBy(l) : l \in ToSet(ls)} /\ o.cmds = {active[l] : l \in ToSet(ls)}
           /\ d.op = "count" /\ d.queue = q /\ d.todo = ls /\ d.index = submittedOps[q] + 1
           /\ ExecuteStepOf(t, q, ls, o, d)
  BY ExecuteFacts, ZenonT(40)
<1>2. o \in GpuOp /\ IsSubmission(o) /\ o.kind # "signal"
  BY DEF GpuOp, SubmissionOp, IsSubmission
<1>3. gpu[q] \in Seq(GpuOp) /\ gpu \in [Queues -> Seq(GpuOp)]
  BY DEF Types
<1>4. /\ \A p \in Queues : gpu'[p] = IF p = q THEN Append(gpu[q], o) ELSE gpu[p]
      /\ submittedOps'[q] = submittedOps[q] + 1 /\ submittedOps[q] \in Nat
      /\ \A p \in Queues \ {q} : submittedOps'[p] = submittedOps[p]
      /\ \A l \in ToSet(ls) : phase'[l] = "submitted"
      /\ \A l \in Lists \ ToSet(ls) : phase'[l] = phase[l]
      /\ call'[t] = d /\ \A u \in Threads \ {t} : call'[u] = call[u]
      /\ UNCHANGED <<queueVars, pool, active, submittedAs, refs, inFlight, held, use, fenceEvent, fence, executedOps, before>>
  BY <1>1, <1>3 DEF ExecuteStepOf, Types, TypeOK
<1>5. /\ \A i \in DOMAIN gpu[q] : i \in DOMAIN gpu'[q] /\ gpu'[q][i] = gpu[q][i]
      /\ \A i \in DOMAIN gpu'[q] :
           \/ i \in DOMAIN gpu[q] /\ gpu'[q][i] = gpu[q][i]
           \/ i \notin DOMAIN gpu[q] /\ gpu'[q][i] = o /\ \A j \in DOMAIN gpu[q] : j < i
      /\ \E i \in DOMAIN gpu'[q] : i \notin DOMAIN gpu[q]
      /\ \A i \in DOMAIN gpu[q] : \A a, b, v : Late(gpu'[q], i, a, b, v) <=> Late(gpu[q], i, a, b, v)
  <2>1. PICK s \in Seq(GpuOp) : s = gpu[q]
    BY <1>3
  <2>2. gpu'[q] = Append(s, o)
    BY <1>4, <2>1
  <2> QED
    BY <1>2, <2>1, <2>2, AppendFacts
<1>6. UNCHANGED <<lastSubmittedInstance, lastCompletedInstance, recordingInstance>>
  BY <1>4 DEF queueVars
<1>7. /\ Submits(t)' /\ \A u \in Threads : Submits(u) => u # t /\ Submits(u)' /\ call'[u] = call[u]
      /\ \A u \in Threads \ {t} : Submits(u)' => Submits(u)
  BY <1>1, <1>4 DEF Submits
<1>8. Types'
  <2>1. gpu' \in [Queues -> Seq(GpuOp)]
    BY <1>1, <1>2, AppendedTypes DEF ExecuteStepOf
  <2>2. call' \in [Threads -> {Idle} \cup CountCall \cup SignalCall \cup WaitCall]
    BY <1>1 DEF ExecuteStepOf, Types
  <2>3. \A u \in Threads : call'[u].op \in {"none", "count", "signal", "executed", "wait"}
    BY <2>2 DEF Idle, CountCall, SignalCall, WaitCall
  <2>4. submittedOps' \in [Queues -> Nat]
    <3>1. submittedOps \in [Queues -> Nat] /\ submittedOps' = [submittedOps EXCEPT ![q] = o.index]
      BY <1>1 DEF ExecuteStepOf, Types, TypeOK
    <3>2. PICK n \in Nat : n = o.index
      BY <1>1, <1>4
    <3> QED
      BY <3>1, <3>2
  <2>5. phase' \in [Lists -> {"idle", "open", "closed", "submitted"}] /\ \A l \in Lists : active[l] = None <=> phase'[l] = "idle"
    BY <1>1 DEF ExecuteStepOf, Types, TypeOK
  <2>6. answered' \subseteq Waitable
    BY <1>1 DEF ExecuteStepOf, Types, TypeOK
  <2> QED
    BY <1>4, <1>6, <2>1, <2>2, <2>3, <2>4, <2>5, <2>6 DEF Types, TypeOK
<1>9. Numbers'
  <2>1. \A p \in Queues : \A i \in DOMAIN gpu'[p] : gpu'[p][i].kind = "signal" =>
          i \in DOMAIN gpu[p] /\ gpu'[p][i] = gpu[p][i]
    BY <1>2, <1>4, <1>5
  <2>2. \A u \in Threads : call'[u].op = "signal" => call'[u] = call[u]
    BY <1>1, <1>4
  <2> QED
    BY <1>4, <1>6, <2>1, <2>2 DEF Numbers
<1>10. OpsNumbered'
  <2> SUFFICES ASSUME NEW p \in Queues
               PROVE  /\ executedOps[p] <= submittedOps'[p]
                      /\ \A i \in DOMAIN gpu'[p] : IsSubmission(gpu'[p][i]) =>
                           /\ gpu'[p][i].index \in (executedOps[p] + 1)..submittedOps'[p]
                           /\ \A j \in DOMAIN gpu'[p] : IsSubmission(gpu'[p][j]) /\ i < j =>
                                gpu'[p][i].index < gpu'[p][j].index
                      /\ \A n \in (executedOps[p] + 1)..submittedOps'[p] :
                           \E i \in DOMAIN gpu'[p] : IsSubmission(gpu'[p][i]) /\ gpu'[p][i].index = n
    BY <1>4 DEF OpsNumbered
  <2>1. CASE p # q
    <3>1. gpu'[p] = gpu[p] /\ submittedOps'[p] = submittedOps[p]
      BY <1>4, <2>1
    <3> QED
      BY <3>1 DEF OpsNumbered
  <2>2. CASE p = q
    <3> DEFINE ops == gpu[q]
               e == executedOps[q]
               m == submittedOps[q]
    <3>1. /\ e \in Nat /\ m \in Nat /\ e <= m
          /\ \A i \in DOMAIN ops : IsSubmission(ops[i]) =>
               /\ ops[i].index \in (e + 1)..m
               /\ \A j \in DOMAIN ops : IsSubmission(ops[j]) /\ i < j => ops[i].index < ops[j].index
          /\ \A n \in (e + 1)..m : \E i \in DOMAIN ops : IsSubmission(ops[i]) /\ ops[i].index = n
      BY SMTT(30) DEF OpsNumbered, Types, TypeOK
    <3>2. submittedOps'[q] = m + 1 /\ o.index = m + 1
      BY <1>1, <1>4
    <3>3. ASSUME NEW i \in DOMAIN gpu'[q], IsSubmission(gpu'[q][i])
          PROVE  /\ gpu'[q][i].index \in (e + 1)..(m + 1)
                 /\ \A j \in DOMAIN gpu'[q] : IsSubmission(gpu'[q][j]) /\ i < j =>
                      gpu'[q][i].index < gpu'[q][j].index
      <4>0. /\ \A j \in DOMAIN gpu'[q] : j \in Nat
        <5>1. gpu'[q] \in Seq(GpuOp)
          BY <1>8 DEF Types
        <5>2. DOMAIN gpu'[q] = 1..Len(gpu'[q]) /\ Len(gpu'[q]) \in Nat
          BY <5>1
        <5> QED
          BY <5>2
      <4>1. CASE i \in DOMAIN ops
        <5>1. gpu'[q][i] = ops[i]
          BY <1>5, <4>1
        <5>2. ops[i].index \in (e + 1)..m
          BY <3>1, <3>3, <4>1, <5>1
        <5>3. ASSUME NEW j \in DOMAIN gpu'[q], IsSubmission(gpu'[q][j]), i < j
              PROVE  ops[i].index < gpu'[q][j].index
          <6>1. CASE j \in DOMAIN ops
            BY <1>5, <3>1, <3>3, <4>1, <5>1, <5>3, <6>1
          <6>2. CASE j \notin DOMAIN ops
            BY <1>5, <3>1, <3>2, <5>2, <6>2
          <6> QED
            BY <6>1, <6>2
        <5> QED
          BY <3>1, <5>1, <5>2, <5>3
      <4>2. CASE i \notin DOMAIN ops
        <5>1. gpu'[q][i] = o /\ \A j \in DOMAIN ops : j < i
          BY <1>5, <4>2
        <5>2. ASSUME NEW j \in DOMAIN gpu'[q], i < j
              PROVE  FALSE
          <6>1. gpu'[q] = Append(gpu[q], o)
            BY <1>4
          <6>2. Len(gpu[q]) \in Nat /\ DOMAIN gpu[q] = 1..Len(gpu[q]) /\ DOMAIN gpu'[q] = 1..(Len(gpu[q]) + 1)
            BY <1>3, <6>1
          <6> QED
            BY <4>2, <5>2, <6>2
        <5> QED
          BY <3>1, <3>2, <5>1, <5>2
      <4> QED
        BY <4>1, <4>2
    <3>4. ASSUME NEW n \in (e + 1)..(m + 1)
          PROVE  \E i \in DOMAIN gpu'[q] : IsSubmission(gpu'[q][i]) /\ gpu'[q][i].index = n
      <4>1. CASE n = m + 1
        BY <1>2, <1>5, <3>2, <4>1
      <4>2. CASE n # m + 1
        <5>1. n \in (e + 1)..m
          BY <3>1, <4>2
        <5>2. PICK i \in DOMAIN ops : IsSubmission(ops[i]) /\ ops[i].index = n
          BY <3>1, <5>1
        <5> QED
          BY <1>5, <5>2
      <4> QED
        BY <4>1, <4>2
    <3> QED
      BY <2>2, <3>1, <3>2, <3>3, <3>4
  <2> QED
    BY <2>1, <2>2
<1>11. CallsOK'
  <2> SUFFICES ASSUME NEW u \in Threads, Submits(u)'
               PROVE  /\ call'[u].todo # <<>> /\ IsInjective(call'[u].todo)
                      /\ \A k \in ToSet(call'[u].todo) :
                           phase'[k] = "submitted" /\ ThreadOf[k] = u /\ QueueOf[k] = call'[u].queue
                      /\ call'[u].index \in 1..submittedOps'[call'[u].queue]
                      /\ \A w \in Threads : Submits(w)' /\ call'[w].queue = call'[u].queue
                                               /\ call'[w].index = call'[u].index => w = u
    BY DEF CallsOK
  <2>1. \A w \in Threads : Submits(w) => /\ call[w].queue \in Queues /\ call[w].index \in 1..submittedOps[call[w].queue]
                                         /\ ToSet(call[w].todo) \subseteq Lists
    BY SubmitsFacts DEF CallsOK
  <2>2. \A w \in Threads : Submits(w) /\ call[w].queue = q => call[w].index # submittedOps[q] + 1
    BY <1>4, <2>1
  <2>3. CASE u = t
    <3>1. \A w \in Threads : Submits(w)' /\ call'[w].queue = q /\ call'[w].index = submittedOps[q] + 1 => w = t
      BY <1>4, <1>7, <2>2
    <3>2. call'[u].index \in 1..submittedOps'[call'[u].queue]
      BY <1>1, <1>4, <2>3
    <3> QED
      BY <1>1, <1>4, <2>3, <3>1, <3>2
  <2>4. CASE u # t
    <3>1. Submits(u) /\ call'[u] = call[u]
      BY <1>4, <1>7, <2>4
    <3>2. \A k \in ToSet(call[u].todo) : phase'[k] = "submitted" /\ ThreadOf[k] = u /\ QueueOf[k] = call[u].queue
      BY <1>1, <1>4, <2>1, <3>1 DEF CallsOK
    <3>3. call[u].index \in 1..submittedOps'[call[u].queue]
      <4>1. submittedOps[call[u].queue] \in Nat
        BY <2>1, <3>1 DEF Types, TypeOK
      <4> QED
        BY <1>4, <2>1, <3>1, <4>1
    <3>4. \A w \in Threads : Submits(w)' /\ call'[w].queue = call[u].queue /\ call'[w].index = call[u].index => w = u
      <4>1. ASSUME NEW w \in Threads, Submits(w)', call'[w].queue = call[u].queue, call'[w].index = call[u].index
            PROVE  w = u
        <5>1. w # t
          BY <1>1, <1>4, <2>2, <3>1, <4>1
        <5>2. Submits(w) /\ call'[w] = call[w]
          BY <1>4, <1>7, <4>1, <5>1
        <5> QED
          BY <3>1, <4>1, <5>2 DEF CallsOK
      <4> QED
        BY <4>1
    <3> QED
      BY <3>1, <3>2, <3>3, <3>4 DEF CallsOK
  <2> QED
    BY <2>3, <2>4
<1>12. SubmittedOK'
  <2> SUFFICES ASSUME NEW k \in Lists, phase'[k] = "submitted"
               PROVE  Submits(ThreadOf[k])' /\ k \in ToSet(call'[ThreadOf[k]].todo)
    BY DEF SubmittedOK
  <2>1. CASE k \in ToSet(ls)
    BY <1>1, <1>4, <1>7, <2>1
  <2>2. CASE k \notin ToSet(ls)
    <3>1. phase[k] = "submitted" /\ ThreadOf[k] \in Threads
      BY <1>4, <2>2 DEF D3D12QueueAssumption
    <3> QED
      BY <1>4, <1>7, <3>1 DEF SubmittedOK
  <2> QED
    BY <2>1, <2>2
<1>13. PoolsOK'
  BY <1>4 DEF PoolsOK
<1>14. FewNumbered'
  <2>1. ASSUME NEW k \in Lists
        PROVE  Numbered(k)' \subseteq Numbered(k)
    <3> SUFFICES ASSUME NEW m \in 1..MaxOpens[QueueOf[k]], NEW p \in Queues, NEW i \in DOMAIN gpu'[p],
                        IsSubmission(gpu'[p][i]), <<k, m>> \in gpu'[p][i].cmds
                 PROVE  m \in Numbered(k)
      <4>1. pool' = pool /\ active' = active
        BY <1>4
      <4>2. ASSUME NEW m, NEW p \in Queues, NEW op \in Pending(p)', <<k, m>> \in op.cmds
            PROVE  \E i \in DOMAIN gpu'[p] : IsSubmission(gpu'[p][i]) /\ <<k, m>> \in gpu'[p][i].cmds
        BY <4>2 DEF Pending, ToSet
      <4>3. \A m \in Numbered(k)' :
              \/ m \in Numbered(k)
              \/ /\ m \in 1..MaxOpens[QueueOf[k]]
                 /\ \E p \in Queues : \E i \in DOMAIN gpu'[p] :
                      IsSubmission(gpu'[p][i]) /\ <<k, m>> \in gpu'[p][i].cmds
        BY <4>1, <4>2 DEF Numbered
      <4> QED
        BY <4>3
    <3>1. CASE i \in DOMAIN gpu[p] /\ gpu'[p][i] = gpu[p][i]
      <4>1. gpu[p][i] \in Pending(p) /\ <<k, m>> \in gpu[p][i].cmds
        BY <3>1 DEF Pending, ToSet
      <4> QED
        BY <4>1 DEF Numbered
    <3>2. CASE p = q /\ gpu'[p][i] = o
      <4>1. PICK l \in ToSet(ls) : <<k, m>> = active[l]
        <5>1. o.cmds = {active[l] : l \in ToSet(ls)} /\ <<k, m>> \in o.cmds
          BY <1>1, <3>2
        <5> QED
          BY <5>1
      <4>2. active[l] # None /\ l \in Lists
        BY <1>1 DEF Types, TypeOK
      <4>3. active[l][1] = l
        BY <4>2 DEF PoolsOK
      <4>4. l = k
        BY <4>1, <4>3
      <4> QED
        BY <4>1, <4>4 DEF Numbered
    <3> QED
      BY <1>4, <1>5, <3>1, <3>2
  <2> QED
    BY <1>6, <2>1, FewStay
<1>15. ASSUME NEW p \in Queues, NEW i \in DOMAIN gpu'[p]
       PROVE  \/ p = q /\ gpu'[p][i] = o
              \/ /\ i \in DOMAIN gpu[p] /\ gpu'[p][i] = gpu[p][i]
                 /\ \A a, b, v : Late(gpu'[p], i, a, b, v) <=> Late(gpu[p], i, a, b, v)
  <2>1. CASE p = q
    BY <1>5, <2>1
  <2>2. CASE p # q
    BY <1>4, <2>2
  <2> QED
    BY <2>1, <2>2
<1>16. CountedOK'
  <2>1. ASSUME NEW p \in Queues, NEW i \in DOMAIN gpu'[p], IsSubmission(gpu'[p][i])
        PROVE  \/ \E u \in Threads : call'[u].op = "count" /\ call'[u].queue = p /\ call'[u].index = gpu'[p][i].index
               \/ Late(gpu'[p], i, fence[p], lastCompletedInstance[p], lastSubmittedInstance[p])
    <3>1. CASE p = q /\ gpu'[p][i] = o
      BY <1>1, <1>4, <3>1
    <3>2. CASE /\ i \in DOMAIN gpu[p] /\ gpu'[p][i] = gpu[p][i]
               /\ \A a, b, v : Late(gpu'[p], i, a, b, v) <=> Late(gpu[p], i, a, b, v)
      <4>1. \/ \E u \in Threads : call[u].op = "count" /\ call[u].queue = p /\ call[u].index = gpu[p][i].index
            \/ Late(gpu[p], i, fence[p], lastCompletedInstance[p], lastSubmittedInstance[p])
        BY <2>1, <3>2 DEF CountedOK
      <4>2. \A u \in Threads : call[u].op = "count" => call'[u] = call[u]
        BY <1>7 DEF Submits
      <4> QED
        BY <3>2, <4>1, <4>2
    <3> QED
      BY <1>15, <3>1, <3>2
  <2> QED
    BY <1>4, <1>6, <2>1 DEF CountedOK
<1>17. CmdsOK'
  <2>1. ASSUME NEW p \in Queues, NEW i \in DOMAIN gpu'[p], IsSubmission(gpu'[p][i]), NEW c \in gpu'[p][i].cmds
        PROVE  /\ c[1] \in Lists /\ QueueOf[c[1]] = p
               /\ \/ active[c[1]] = c /\ Tells(p, gpu[p][i], c[1])'
                  \/ /\ c \in ToSet(pool[c[1]])
                     /\ Late(gpu'[p], i, fence[p], lastCompletedInstance[p], submittedAs[c])
    <3>0. PICK o1 : o1 = gpu'[p][i]
      OBVIOUS
    <3>1. CASE p = q /\ o1 = o
      <4>1. PICK l \in ToSet(ls) : c = active[l]
        BY <1>1, <2>1, <3>0, <3>1
      <4>2. active[l] # None /\ l \in Lists /\ QueueOf[l] = q /\ ThreadOf[l] = t
        BY <1>1 DEF Types, TypeOK
      <4>3. c[1] = l
        BY <4>1, <4>2 DEF PoolsOK
      <4>4. Tells(q, o, l)'
        BY <1>1, <1>4, <1>7, <4>2 DEF Tells
      <4> QED
        BY <3>0, <3>1, <4>1, <4>2, <4>3, <4>4
    <3>2. CASE /\ i \in DOMAIN gpu[p] /\ gpu'[p][i] = gpu[p][i]
               /\ \A a, b, v : Late(gpu'[p], i, a, b, v) <=> Late(gpu[p], i, a, b, v)
      <4>1. /\ c[1] \in Lists /\ QueueOf[c[1]] = p
            /\ \/ active[c[1]] = c /\ Tells(p, gpu[p][i], c[1])
               \/ /\ c \in ToSet(pool[c[1]])
                  /\ Late(gpu[p], i, fence[p], lastCompletedInstance[p], submittedAs[c])
        BY <2>1, <3>2 DEF CmdsOK
      <4>2. Tells(p, o1, c[1]) => Tells(p, o1, c[1])'
        BY <1>1, <1>4, <1>7, <4>1 DEF Tells, D3D12QueueAssumption
      <4> QED
        BY <3>0, <3>2, <4>1, <4>2
    <3> QED
      BY <1>15, <3>0, <3>1, <3>2
  <2> QED
    BY <1>4, <1>6, <2>1 DEF CmdsOK
<1> QED
  BY <1>8, <1>9, <1>10, <1>11, <1>12, <1>13, <1>14, <1>16, <1>17

-----------------------------------------------------------------------------
(* What is proved of the queues.                                            *)

LEMMA QueueInvNext ==
  ASSUME D3D12QueueAssumption, QueueInv, [Next]_vars
  PROVE  QueueInv'
<1>1. CASE UNCHANGED vars
  <2>1. Types'
    BY <1>1 DEF QueueInv, Types, TypeOK, vars, queueVars, listVars, hostVars, gpuVars
  <2>2. Quiet
    BY <1>1 DEF Quiet, Submits, vars, queueVars, listVars, hostVars, gpuVars
  <2> QED
    BY <2>1, <2>2, QuietSteps
<1>2. ASSUME NEW l \in Lists, Open(l) \/ Close(l) \/ \E r \in Resources : Record(l, r)
      PROVE  QueueInv'
  BY <1>2, OpenStep, CloseQuiet, RecordQuiet, QuietSteps
<1>3. ASSUME NEW t \in Threads, Continue(t) \/ \E ls \in Batches : ExecuteCommandLists(t, ls)
      PROVE  QueueInv'
  BY <1>3, CountStep, SignalStep, ExecutedStep, ExecuteStep, WokenQuiet, QuietSteps DEF Continue
<1>4. ASSUME NEW t \in Threads, NEW x \in Waitable, Answer(t, x) \/ WaitForFence(t, x)
      PROVE  QueueInv'
  BY <1>4, AnswerQuiet, WaitQuiet, QuietSteps
<1>5. ASSUME NEW tr \in Trackers, RunGarbageCollection(tr)
      PROVE  QueueInv'
  BY <1>5, GCQuiet, QuietSteps
<1>6. ASSUME NEW q \in Queues, \/ ExecuteOperation(q)
                              \/ \E p \in Queues : QueueWaitForCommandList(q, p)
                              \/ \E e \in Events : SetEventQuery(e, q)
      PROVE  QueueInv'
  BY <1>6, GpuStep, QueueWaitStep, SetEventQuiet, QuietSteps
<1>7. ASSUME \/ \E e \in Events : ResetEventQuery(e)
             \/ \E b \in Staging : Unmap(b)
             \/ \E r \in Resources : ReleaseHandle(r)
      PROVE  QueueInv'
  BY <1>7, ResetEventQuiet, UnmapQuiet, ReleaseQuiet, QuietSteps
<1>8. ASSUME Next
      PROVE  QueueInv'
  <2>1. \/ \E l \in Lists : Open(l) \/ Close(l) \/ \E r \in Resources : Record(l, r)
        \/ \E t \in Threads : Continue(t) \/ \E ls \in Batches : ExecuteCommandLists(t, ls)
        \/ \E t \in Threads : \E x \in Waitable : Answer(t, x) \/ WaitForFence(t, x)
        \/ \E tr \in Trackers : RunGarbageCollection(tr)
        \/ \E q \in Queues : \/ ExecuteOperation(q)
                              \/ \E p \in Queues : QueueWaitForCommandList(q, p)
                              \/ \E e \in Events : SetEventQuery(e, q)
        \/ \/ \E e \in Events : ResetEventQuery(e)
           \/ \E b \in Staging : Unmap(b)
           \/ \E r \in Resources : ReleaseHandle(r)
    BY <1>8 DEF Next
  <2> QED
    BY <1>2, <1>3, <1>4, <1>5, <1>6, <1>7, <2>1
<1> QED
  BY <1>1, <1>8

LEMMA QueueInvariant ==
  ASSUME D3D12QueueAssumption
  PROVE  Spec => []QueueInv
<1>1. Init => QueueInv
  BY QueueInvInit
<1>2. QueueInv /\ [Next]_vars => QueueInv'
  BY QueueInvNext
<1> QED
  BY <1>1, <1>2, PTL DEF Spec

LEMMA InvariantIdle ==
  ASSUME D3D12QueueAssumption, QueueInv
  PROVE  AllocatorsIdle
<1> SUFFICES ASSUME NEW l \in Lists, phase[l] \in {"open", "closed"}, NEW q \in Queues, NEW op \in Pending(q),
                    active[l] \in op.cmds
             PROVE  FALSE
  BY DEF AllocatorsIdle
<1>1. PICK i \in DOMAIN gpu[q] : op = gpu[q][i] /\ IsSubmission(gpu[q][i])
  BY DEF Pending, ToSet
<1>2. active[l] # None
  BY DEF QueueInv, Types, TypeOK
<1>3. active[l][1] = l /\ active[l] \notin ToSet(pool[l])
  BY <1>2 DEF QueueInv, PoolsOK
<1>4. Tells(q, op, l)
  BY <1>1, <1>3 DEF QueueInv, CmdsOK
<1> QED
  BY <1>4 DEF Tells

\* An internal list is recorded again, and its allocator reset, only when the GPU has
\* executed all that it recorded.
THEOREM AllocatorsStayIdle ==
  ASSUME D3D12QueueAssumption
  PROVE  Spec => []AllocatorsIdle
<1>1. QueueInv => AllocatorsIdle
  BY InvariantIdle
<1> QED
  BY <1>1, QueueInvariant, PTL

-----------------------------------------------------------------------------
(* Answers.                                                                 *)

\* Steps that give no list to a queue and tell none.
Steady ==
    /\ Follows
    /\ \A l \in Lists : phase'[l] = "submitted" <=> phase[l] = "submitted"
    /\ \A l \in Lists : phase[l] = "submitted" => refs'[l] = refs[l]
    /\ \A q \in Queues, l \in Lists : \A op : Tells(q, op, l) => Tells(q, op, l)'
    /\ submittedOps' = submittedOps
    /\ \A q \in Queues : executedOps[q] <= executedOps'[q]
    /\ \A q \in Queues : lastSubmittedInstance[q] <= lastSubmittedInstance'[q]

\* They are told what is in flight.
LEMMA SteadyUses ==
  ASSUME D3D12QueueAssumption, QueueInv, UsesOK, Steady, \A x \in Answerable : use'[x] = use[x],
         \A x \in answered' : x \in answered \/ Over(x)
  PROVE  UsesOK'
<1> SUFFICES ASSUME NEW q \in Queues, NEW i \in DOMAIN gpu'[q], IsSubmission(gpu'[q][i]),
                    NEW x \in gpu'[q][i].used, x \in Answerable
             PROVE  /\ x \notin answered'
                    /\ \/ \E l \in Lists : x \in refs'[l] /\ Tells(q, gpu[q][i], l)'
                       \/ /\ use'[x].queue = q
                          /\ Late(gpu'[q], i, fence'[q], lastCompletedInstance'[q], use'[x].value)
  BY DEF UsesOK
<1>1. PICK j \in DOMAIN gpu[q] :
        /\ gpu[q][j] = gpu'[q][i]
        /\ \A v : Late(gpu[q], j, fence[q], lastCompletedInstance[q], v) =>
                 Late(gpu'[q], i, fence'[q], lastCompletedInstance'[q], v)
  BY DEF Steady, Follows
<1>2. PICK o : o = gpu'[q][i]
  OBVIOUS
<1>3. IsSubmission(gpu[q][j]) /\ x \in gpu[q][j].used \cap Answerable
  BY <1>1
<1>4. /\ x \notin answered
      /\ \/ \E l \in Lists : x \in refs[l] /\ Tells(q, o, l)
         \/ /\ use[x].queue = q
            /\ Late(gpu[q], j, fence[q], lastCompletedInstance[q], use[x].value)
  BY <1>1, <1>2, <1>3 DEF UsesOK
<1>5. x \notin answered'
  BY <1>3, <1>4 DEF Over
<1>6. \A l \in Lists : Tells(q, o, l) => Tells(q, o, l)' /\ refs'[l] = refs[l]
  BY DEF Steady, Tells
<1> QED
  BY <1>1, <1>2, <1>4, <1>5, <1>6

LEMMA SteadyShared ==
  ASSUME NotShared, Steady
  PROVE  NotShared'
<1>1. ASSUME NEW q \in Queues, NEW x, UsedOn(q, x)'
      PROVE  UsedOn(q, x)
  BY <1>1 DEF UsedOn, Steady, Follows
<1> QED
  BY <1>1 DEF NotShared

LEMMA SteadyEvent ==
  ASSUME D3D12QueueAssumption, QueueInv, EventsOK, Steady, executedOps' \in [Queues -> Nat],
         NEW e \in Events, use'[e] = use[e], before'[e] = before[e],
         e \in answered' => e \in answered \/ (Over(e) /\ use[e] # Never)
  PROVE  EventOK(e)'
<1>1. use[e] # Never => use[e].queue \in Queues
  BY DEF QueueInv, Types, Waitable
<1>2. ASSUME use'[e] # Never
      PROVE  /\ before'[e] \subseteq 1..submittedOps'[use'[e].queue]
             /\ \A i \in DOMAIN gpu'[use'[e].queue] :
                  IsSubmission(gpu'[use'[e].queue][i]) /\ gpu'[use'[e].queue][i].index \in before'[e] =>
                      Late(gpu'[use'[e].queue], i, fence'[use'[e].queue],
                           lastCompletedInstance'[use'[e].queue], use'[e].value)
  <2>1. PICK q \in Queues : q = use[e].queue /\ q = use'[e].queue
    BY <1>1, <1>2
  <2>2. /\ before[e] \subseteq 1..submittedOps[q]
        /\ \A i \in DOMAIN gpu[q] : IsSubmission(gpu[q][i]) /\ gpu[q][i].index \in before[e] =>
             Late(gpu[q], i, fence[q], lastCompletedInstance[q], use[e].value)
    BY <1>2, <2>1 DEF EventsOK, EventOK
  <2>3. ASSUME NEW i \in DOMAIN gpu'[q], IsSubmission(gpu'[q][i]), gpu'[q][i].index \in before[e]
        PROVE  Late(gpu'[q], i, fence'[q], lastCompletedInstance'[q], use[e].value)
    <3>1. PICK j \in DOMAIN gpu[q] :
            /\ gpu[q][j] = gpu'[q][i]
            /\ \A v : Late(gpu[q], j, fence[q], lastCompletedInstance[q], v) =>
                     Late(gpu'[q], i, fence'[q], lastCompletedInstance'[q], v)
      BY <2>3 DEF Steady, Follows
    <3> QED
      BY <2>2, <2>3, <3>1
  <2> QED
    BY <2>1, <2>2, <2>3 DEF Steady
<1>3. ASSUME e \in answered'
      PROVE  use'[e] # Never /\ before'[e] \subseteq 1..executedOps'[use'[e].queue]
  <2>1. use[e] # Never /\ before[e] \subseteq 1..executedOps[use[e].queue]
    BY <1>3 DEF EventsOK, EventOK, Over
  <2>2. /\ executedOps[use[e].queue] <= executedOps'[use[e].queue]
        /\ executedOps[use[e].queue] \in Nat /\ executedOps'[use[e].queue] \in Nat
    BY <1>1, <2>1 DEF Steady, QueueInv, Types, TypeOK
  <2> QED
    BY <2>1, <2>2
<1> QED
  BY <1>2, <1>3 DEF EventOK

LEMMA SteadyEvents ==
  ASSUME D3D12QueueAssumption, QueueInv, EventsOK, Steady, UNCHANGED <<use, before>>, executedOps' \in [Queues -> Nat],
         \A x \in answered' : x \in answered \/ (Over(x) /\ (x \in Events => use[x] # Never))
  PROVE  EventsOK'
BY SteadyEvent DEF EventsOK

LEMMA SteadyCounted ==
  ASSUME QueueInv, QueueInv', UseCounted, Steady, UNCHANGED use
  PROVE  UseCounted'
<1> SUFFICES ASSUME NEW x \in Waitable, use[x] # Never
             PROVE  use[x].value <= lastSubmittedInstance'[use[x].queue]
  BY DEF UseCounted
<1>1. use[x].value <= lastSubmittedInstance[use[x].queue]
  BY DEF UseCounted
<1>2. use[x].queue \in Queues /\ use[x].value \in Nat
  BY DEF QueueInv, Types, TypeOK
<1>3. lastSubmittedInstance[use[x].queue] \in Nat /\ lastSubmittedInstance'[use[x].queue] \in Nat
  BY <1>2 DEF QueueInv, Types, TypeOK
<1> QED
  BY <1>1, <1>2, <1>3 DEF Steady

\* What is over stays over.
LEMMA SteadyOver ==
  ASSUME QueueInv, QueueInv', Steady, NEW x, Over(x), UNCHANGED before, x \in Events => use[x].queue \in Queues /\ use'[x] = use[x]
  PROVE  Over(x)'
<1>1. \A q \in Queues : \A i \in DOMAIN gpu'[q] : IsSubmission(gpu'[q][i]) => x \notin gpu'[q][i].used
  BY DEF Over, Steady, Follows
<1>2. ASSUME x \in Events
      PROVE  before[x] \subseteq 1..executedOps'[use[x].queue]
  <2>1. before[x] \subseteq 1..executedOps[use[x].queue] /\ use[x].queue \in Queues
    BY <1>2 DEF Over
  <2>2. /\ executedOps[use[x].queue] <= executedOps'[use[x].queue]
        /\ executedOps[use[x].queue] \in Nat /\ executedOps'[use[x].queue] \in Nat
    BY <1>2, <2>1 DEF Steady, QueueInv, Types, TypeOK
  <2> QED
    BY <2>1, <2>2
<1> QED
  BY <1>1, <1>2 DEF Over

\* Calls keep telling what they tell.
LEMMA TellsStay ==
  ASSUME D3D12QueueAssumption, \A l \in Lists : phase[l] = "submitted" => phase'[l] = "submitted",
         \A t \in Threads : Submits(t) => /\ Submits(t)' /\ call'[t].queue = call[t].queue
                                         /\ call'[t].todo = call[t].todo /\ call'[t].index = call[t].index
  PROVE  \A q \in Queues, l \in Lists : \A op : Tells(q, op, l) => Tells(q, op, l)'
BY DEF Tells, D3D12QueueAssumption

LEMMA QuietSteady ==
  ASSUME D3D12QueueAssumption, QueueInv, Quiet, \A l \in Lists : phase[l] = "submitted" => refs'[l] = refs[l]
  PROVE  Steady
<1>1. Follows
  BY StillFollows DEF Quiet, gpuVars
<1>2. \A t \in Threads : Submits(t) => Submits(t)' /\ call'[t] = call[t]
  BY DEF Quiet, Submits
<1>3. \A q \in Queues, l \in Lists : \A op : Tells(q, op, l) => Tells(q, op, l)'
  BY <1>2, TellsStay DEF Quiet
<1>4. \A q \in Queues : executedOps[q] \in Nat /\ lastSubmittedInstance[q] \in Nat
  BY DEF QueueInv, Types, TypeOK
<1> QED
  BY <1>1, <1>3, <1>4 DEF Steady, Quiet, gpuVars

LEMMA OpenSteady ==
  ASSUME D3D12QueueAssumption, QueueInv, NEW l \in Lists, Open(l)
  PROVE  Steady /\ UNCHANGED <<call, hostVars, fenceEvent, before, executedOps>>
<1>1. PICK q \in Queues, c \in InternalLists, reused \in BOOLEAN :
        phase[l] \in {"idle", "closed"} /\ OpenStepOf(l, q, c, reused)
  BY OpenFacts
<1>2. /\ UNCHANGED <<gpu, fence, lastSubmittedInstance, submittedOps, executedOps, call, hostVars, fenceEvent, before>>
      /\ lastCompletedInstance' = [lastCompletedInstance EXCEPT ![q] = Completed(q)]
      /\ phase'[l] = "open" /\ \A k \in Lists \ {l} : phase'[k] = phase[k] /\ refs'[k] = refs[k]
  BY <1>1 DEF OpenStepOf, gpuVars, QueueInv, Types, TypeOK
<1>3. \A p \in Queues : lastCompletedInstance'[p] \in {lastCompletedInstance[p], fence[p]}
  BY <1>2, CompletedFacts DEF QueueInv, Types, TypeOK
<1>4. Follows
  BY <1>2, <1>3, StillFollows
<1>5. \A k \in Lists : phase[k] = "submitted" <=> phase'[k] = "submitted"
  BY <1>1, <1>2
<1>6. \A t \in Threads : Submits(t) => Submits(t)'
  BY <1>2 DEF Submits
<1>7. \A p \in Queues, k \in Lists : \A op : Tells(p, op, k) => Tells(p, op, k)'
  BY <1>2, <1>5, <1>6, TellsStay
<1>8. \A p \in Queues : executedOps[p] \in Nat /\ lastSubmittedInstance[p] \in Nat
  BY DEF QueueInv, Types, TypeOK
<1> QED
  BY <1>1, <1>2, <1>4, <1>5, <1>7, <1>8 DEF Steady

LEMMA CountSteady ==
  ASSUME D3D12QueueAssumption, QueueInv, NEW t \in Threads, Count(t)
  PROVE  /\ Steady /\ UNCHANGED <<hostVars, fenceEvent, before, executedOps>>
         /\ call[t].op # "wait" /\ call'[t].op # "wait" /\ \A u \in Threads \ {t} : call'[u] = call[u]
<1>1. call[t].op = "count" /\ Submits(t)
  BY DEF Count, Busy, Submits
<1>2. PICK q \in Queues : q = call[t].queue
  BY <1>1, SubmitsFacts DEF QueueInv
<1>3. PICK n \in Nat : n = lastSubmittedInstance[q]
  BY DEF QueueInv, Types, TypeOK
<1>4. PICK d : d = [op |-> "signal", queue |-> q, todo |-> call[t].todo, index |-> call[t].index, value |-> n + 1]
  OBVIOUS
<1>5. /\ lastSubmittedInstance' = [lastSubmittedInstance EXCEPT ![q] = n + 1]
      /\ call' = [call EXCEPT ![t] = d]
      /\ UNCHANGED <<lastCompletedInstance, phase, refs, gpu, fence, submittedOps, executedOps, hostVars, fenceEvent, before>>
  BY <1>2, <1>3, <1>4 DEF Count, listVars, gpuVars
<1>6. call'[t] = d /\ \A u \in Threads \ {t} : call'[u] = call[u]
  BY <1>5 DEF QueueInv, Types
<1>7. d.op = "signal" /\ d.queue = q /\ d.todo = call[t].todo /\ d.index = call[t].index
  BY <1>4
<1>8. Follows
  BY <1>5, StillFollows
<1>9. \A p \in Queues, k \in Lists : \A op : Tells(p, op, k) => Tells(p, op, k)'
  <2>1. \A u \in Threads : Submits(u) => /\ Submits(u)' /\ call'[u].queue = call[u].queue
                                        /\ call'[u].todo = call[u].todo /\ call'[u].index = call[u].index
    BY <1>2, <1>6, <1>7 DEF Submits
  <2> QED
    BY <1>5, <2>1, TellsStay
<1>10. \A p \in Queues : /\ executedOps[p] <= executedOps'[p]
                        /\ lastSubmittedInstance[p] <= lastSubmittedInstance'[p]
  <2>1. executedOps \in [Queues -> Nat] /\ lastSubmittedInstance \in [Queues -> Nat]
    BY DEF QueueInv, Types, TypeOK
  <2>2. /\ \A p \in Queues : executedOps[p] <= executedOps[p]
        /\ \A p \in Queues : lastSubmittedInstance[p] <= lastSubmittedInstance'[p]
    BY <1>3, <1>5, <2>1
  <2> QED
    BY <1>5, <2>2
<1> QED
  BY <1>1, <1>5, <1>6, <1>7, <1>8, <1>9, <1>10 DEF Steady

LEMMA SignalSteady ==
  ASSUME D3D12QueueAssumption, QueueInv, NEW t \in Threads, Signal(t)
  PROVE  /\ Steady /\ UNCHANGED <<hostVars, fenceEvent, before, executedOps>>
         /\ call[t].op # "wait" /\ call'[t].op # "wait" /\ \A u \in Threads \ {t} : call'[u] = call[u]
<1>1. call[t].op = "signal" /\ Submits(t)
  BY DEF Signal, Busy, Submits
<1>2. PICK q \in Queues : q = call[t].queue
  BY <1>1, SubmitsFacts DEF QueueInv
<1>3. PICK value \in {call[t].value, lastSubmittedInstance[q]} :
        gpu' = [gpu EXCEPT ![q] = Append(@, [kind |-> "signal", value |-> value])]
  BY <1>2 DEF Signal
<1>4. /\ call' = [call EXCEPT ![t].op = "executed"]
      /\ UNCHANGED <<lastSubmittedInstance, lastCompletedInstance, phase, refs, fence, submittedOps, executedOps,
                     hostVars, fenceEvent, before>>
  BY DEF Signal, queueVars, listVars
<1>5. value \in Nat
  <2>1. call[t].value \in Nat
    BY <1>1, SubmitsFacts DEF QueueInv
  <2>2. lastSubmittedInstance[q] \in Nat
    BY DEF QueueInv, Types, TypeOK
  <2> QED
    BY <1>3, <2>1, <2>2
<1>6. Follows
  <2>1. [kind |-> "signal", value |-> value] \in SignalOp
    BY <1>5 DEF SignalOp
  <2> QED
    BY <1>3, <1>4, <2>1, AppendFollows DEF QueueInv
<1>7. call[t] \in SignalCall /\ call \in [Threads -> {Idle} \cup CountCall \cup SignalCall \cup WaitCall]
  BY <1>1, SubmitsFacts DEF QueueInv, Types
<1>8. call'[t] = [call[t] EXCEPT !.op = "executed"] /\ \A u \in Threads \ {t} : call'[u] = call[u]
  BY <1>4, <1>7
<1>9. call'[t].op = "executed" /\ call'[t].queue = call[t].queue /\ call'[t].todo = call[t].todo
      /\ call'[t].index = call[t].index
  BY <1>7, <1>8 DEF SignalCall
<1>10. \A p \in Queues, k \in Lists : \A op : Tells(p, op, k) => Tells(p, op, k)'
  <2>1. \A u \in Threads : Submits(u) => /\ Submits(u)' /\ call'[u].queue = call[u].queue
                                        /\ call'[u].todo = call[u].todo /\ call'[u].index = call[u].index
    BY <1>8, <1>9 DEF Submits
  <2> QED
    BY <1>4, <2>1, TellsStay
<1>11. \A p \in Queues : executedOps[p] \in Nat /\ lastSubmittedInstance[p] \in Nat
  BY DEF QueueInv, Types, TypeOK
<1> QED
  BY <1>1, <1>4, <1>6, <1>8, <1>9, <1>10, <1>11 DEF Steady

LEMMA QueueWaitSteady ==
  ASSUME D3D12QueueAssumption, QueueInv, NEW q \in Queues, NEW p \in Queues, QueueWaitForCommandList(q, p)
  PROVE  Steady /\ UNCHANGED <<call, hostVars, fenceEvent, before, executedOps>>
<1>1. PICK o \in WaitOp : o = [kind |-> "wait", queue |-> p, value |-> lastSubmittedInstance[p]]
  BY DEF WaitOp, QueueInv, Types, TypeOK
<1>2. /\ gpu' = [gpu EXCEPT ![q] = Append(@, o)]
      /\ UNCHANGED <<lastSubmittedInstance, lastCompletedInstance, phase, refs, call, fence, submittedOps, executedOps,
                     hostVars, fenceEvent, before>>
  BY <1>1 DEF QueueWaitForCommandList, queueVars, listVars
<1>3. Follows
  BY <1>2, AppendFollows DEF QueueInv
<1>4. \A u \in Threads : Submits(u) => Submits(u)'
  BY <1>2 DEF Submits
<1>5. \A r \in Queues, k \in Lists : \A op : Tells(r, op, k) => Tells(r, op, k)'
  BY <1>2, <1>4, TellsStay
<1>6. \A r \in Queues : executedOps[r] \in Nat /\ lastSubmittedInstance[r] \in Nat
  BY DEF QueueInv, Types, TypeOK
<1> QED
  BY <1>2, <1>3, <1>5, <1>6 DEF Steady

LEMMA GpuSteady ==
  ASSUME D3D12QueueAssumption, QueueInv, NEW q \in Queues, ExecuteOperation(q)
  PROVE  Steady /\ UNCHANGED <<call, held, use, answered, before, phase, refs>>
<1>1. PICK o \in GpuOp :
           /\ executedOps' \in [Queues -> Nat]
           /\ executedOps'[q] = (IF IsSubmission(o) THEN executedOps[q] + 1 ELSE executedOps[q])
           /\ \A p \in Queues \ {q} : executedOps'[p] = executedOps[p]
           /\ Follows
           /\ UNCHANGED <<lastSubmittedInstance, phase, refs, call, held, use, answered, submittedOps, before>>
  BY GpuFacts, ZenonT(40)
<1>2. \A u \in Threads : Submits(u) => Submits(u)'
  BY <1>1 DEF Submits
<1>3. \A r \in Queues, k \in Lists : \A op : Tells(r, op, k) => Tells(r, op, k)'
  BY <1>1, <1>2, TellsStay
<1>4. \A r \in Queues : executedOps[r] \in Nat /\ lastSubmittedInstance[r] \in Nat
  BY DEF QueueInv, Types, TypeOK
<1> QED
  BY <1>1, <1>3, <1>4 DEF Steady

\* Who waits goes on waiting.
LEMMA SteadyWait ==
  ASSUME D3D12QueueAssumption, QueueInv, QueueInv', WaitOK, Steady, UNCHANGED <<before, fenceEvent>>,
         \A x \in Waitable : use[x] # Never => use'[x] = use[x] \/ \A t \in Threads : call[t].op = "wait" => call[t].for # x,
         \A t \in Threads : /\ call'[t].op = "wait" <=> call[t].op = "wait"
                            /\ call[t].op = "wait" => call'[t] = call[t]
  PROVE  WaitOK'
<1>1. /\ \A t, u \in Threads : call'[t].op = "wait" /\ call'[u].op = "wait" => t = u
      /\ (\A t \in Threads : call'[t].op # "wait") => fenceEvent.on = {}
  BY DEF WaitOK
<1>2. ASSUME NEW t \in Threads, call'[t].op = "wait"
      PROVE  /\ use'[call'[t].for].queue \in Queues
             /\ \A l \in Lists : phase'[l] = "submitted" => call'[t].for \notin refs'[l]
             /\ \/ ~fenceEvent.set /\ fenceEvent.on = {use'[call'[t].for]}
                \/ fenceEvent.set /\ fenceEvent.on = {} /\ Over(call[t].for)'
  <2>1. call[t].op = "wait" /\ call'[t] = call[t]
    BY <1>2
  <2>2. PICK x : x = call[t].for
    OBVIOUS
  <2>3. x \in Waitable
    <3>1. call[t] \in {Idle} \cup CountCall \cup SignalCall \cup WaitCall
      BY DEF QueueInv, Types
    <3>2. call[t] \in WaitCall
      BY <2>1, <3>1 DEF Idle, CountCall, SignalCall
    <3> QED
      BY <2>2, <3>2 DEF WaitCall
  <2>4. /\ use[x].queue \in Queues
        /\ \A l \in Lists : phase[l] = "submitted" => x \notin refs[l]
        /\ \/ ~fenceEvent.set /\ fenceEvent.on = {use[x]}
           \/ fenceEvent.set /\ fenceEvent.on = {} /\ Over(x)
    BY <2>1, <2>2 DEF WaitOK
  <2>5. use[x] # Never
    BY <2>4 DEF Never, D3D12QueueAssumption
  <2>6. use'[x] = use[x]
    BY <2>1, <2>2, <2>3, <2>5
  <2>7. \A l \in Lists : phase'[l] = "submitted" => x \notin refs'[l]
    BY <2>4 DEF Steady
  <2>8. Over(x) => Over(x)'
    BY <2>4, <2>6, SteadyOver
  <2>9. Over(x)' => Over(call[t].for)'
    BY <2>1, <2>2
  <2> QED
    BY <2>1, <2>2, <2>4, <2>6, <2>7, <2>8, <2>9
<1>3. \A t \in Threads : call'[t].op = "wait" => call'[t] = call[t]
  OBVIOUS
<1> QED
  BY <1>1, <1>2, <1>3 DEF WaitOK

\* Nobody learns anything.
LEMMA SteadyAnswers ==
  ASSUME D3D12QueueAssumption, QueueInv, QueueInv', AnswersInv, Steady, UNCHANGED <<use, before, fenceEvent>>,
         answered' \subseteq answered,
         \A t \in Threads : /\ call'[t].op = "wait" <=> call[t].op = "wait"
                            /\ call[t].op = "wait" => call'[t] = call[t]
  PROVE  AnswersInv'
<1> USE DEF AnswersInv
<1>1. executedOps' \in [Queues -> Nat]
  BY DEF QueueInv, Types, TypeOK
<1>2. UsesOK'
  BY SteadyUses
<1>3. NotShared'
  BY SteadyShared
<1>4. UseCounted'
  BY SteadyCounted
<1>5. EventsOK'
  BY <1>1, SteadyEvents
<1>6. WaitOK'
  BY SteadyWait
<1> QED
  BY <1>2, <1>3, <1>4, <1>5, <1>6

\* Whoever asks and finds the fence past what was submitted last finds it over.
LEMMA ReachedOver ==
  ASSUME D3D12QueueAssumption, QueueInv, AnswersInv, NEW x \in Waitable, Reached(x),
         x \in Staging \/ use[x] # Never, \A l \in Lists : phase[l] = "submitted" => x \notin refs[l]
  PROVE  Over(x)
<1>1. \A q \in Queues : fence[q] \in Nat /\ lastCompletedInstance[q] \in Nat /\ gpu[q] \in Seq(GpuOp)
  BY DEF QueueInv, Types, TypeOK
<1>2. use[x] \in [queue : Queues \cup {None}, value : Nat]
  BY DEF QueueInv, Types, TypeOK
<1>3. ASSUME NEW q \in Queues, NEW i \in DOMAIN gpu[q], IsSubmission(gpu[q][i]), x \in gpu[q][i].used
      PROVE  FALSE
  <2>1. CASE x \in Answerable
    <3>1. \/ \E l \in Lists : x \in refs[l] /\ Tells(q, gpu[q][i], l)
          \/ /\ use[x].queue = q
             /\ Late(gpu[q], i, fence[q], lastCompletedInstance[q], use[x].value)
      BY <1>3, <2>1 DEF AnswersInv, UsesOK
    <3>2. use[x].queue = q /\ fence[q] < use[x].value
      BY <3>1 DEF Tells, Late
    <3>3. use[x] # Never
      BY <3>2 DEF Never, D3D12QueueAssumption
    <3> QED
      BY <1>1, <1>2, <3>2, <3>3 DEF Reached
  <2>2. CASE x \in Events
    <3>1. gpu[q][i] \in GpuOp
      BY <1>1, <1>3
    <3>2. gpu[q][i].used \subseteq Resources \ Events
      BY <1>3, <3>1 DEF GpuOp, SubmissionOp, SignalOp, WaitOp, IsSubmission
    <3> QED
      BY <1>3, <2>2, <3>2
  <2> QED
    BY <2>1, <2>2 DEF Waitable, Answerable
<1>4. ASSUME x \in Events
      PROVE  before[x] \subseteq 1..executedOps[use[x].queue]
  <2>1. use[x] # Never /\ use[x].queue \in Queues
    BY <1>4 DEF D3D12QueueAssumption, QueueInv, Types
  <2>2. PICK q \in Queues : q = use[x].queue
    BY <2>1
  <2>3. /\ before[x] \subseteq 1..submittedOps[q]
        /\ \A i \in DOMAIN gpu[q] : IsSubmission(gpu[q][i]) /\ gpu[q][i].index \in before[x] =>
             Late(gpu[q], i, fence[q], lastCompletedInstance[q], use[x].value)
    BY <1>4, <2>1, <2>2 DEF AnswersInv, EventsOK, EventOK
  <2>4. fence[q] >= use[x].value
    BY <2>1, <2>2 DEF Reached
  <2>5. executedOps[q] \in Nat /\ submittedOps[q] \in Nat
    BY DEF QueueInv, Types, TypeOK
  <2>6. ASSUME NEW n \in before[x], n \notin 1..executedOps[q]
        PROVE  FALSE
    <3>1. n \in (executedOps[q] + 1)..submittedOps[q]
      BY <2>3, <2>5, <2>6
    <3>2. PICK i \in DOMAIN gpu[q] : IsSubmission(gpu[q][i]) /\ gpu[q][i].index = n
      BY <3>1 DEF QueueInv, OpsNumbered
    <3>3. fence[q] < use[x].value
      BY <2>3, <2>6, <3>2 DEF Late
    <3> QED
      BY <1>1, <1>2, <2>4, <3>3
  <2> QED
    BY <2>2, <2>6
<1> QED
  BY <1>3, <1>4 DEF Over

\* The same of the state that a step leads to.
LEMMA ReachedOverNext ==
  ASSUME D3D12QueueAssumption, QueueInv', UsesOK', EventsOK', NEW x \in Waitable, Reached(x)',
         x \in Staging \/ use'[x] # Never, \A l \in Lists : phase'[l] = "submitted" => x \notin refs'[l]
  PROVE  Over(x)'
<1>1. \A q \in Queues : fence'[q] \in Nat /\ lastCompletedInstance'[q] \in Nat /\ gpu'[q] \in Seq(GpuOp)
  BY DEF QueueInv, Types, TypeOK
<1>2. use'[x] \in [queue : Queues \cup {None}, value : Nat]
  BY DEF QueueInv, Types, TypeOK
<1>3. ASSUME NEW q \in Queues, NEW i \in DOMAIN gpu'[q], IsSubmission(gpu'[q][i]), x \in gpu'[q][i].used
      PROVE  FALSE
  <2>1. CASE x \in Answerable
    <3>1. \/ \E l \in Lists : x \in refs'[l] /\ Tells(q, gpu[q][i], l)'
          \/ /\ use'[x].queue = q
             /\ Late(gpu'[q], i, fence'[q], lastCompletedInstance'[q], use'[x].value)
      BY <1>3, <2>1 DEF UsesOK
    <3>2. use'[x].queue = q /\ fence'[q] < use'[x].value
      BY <3>1 DEF Tells, Late
    <3>3. use'[x] # Never
      BY <3>2 DEF Never, D3D12QueueAssumption
    <3> QED
      BY <1>1, <1>2, <3>2, <3>3 DEF Reached
  <2>2. CASE x \in Events
    <3>1. gpu'[q][i] \in GpuOp
      BY <1>1, <1>3
    <3>2. gpu'[q][i].used \subseteq Resources \ Events
      BY <1>3, <3>1 DEF GpuOp, SubmissionOp, SignalOp, WaitOp, IsSubmission
    <3> QED
      BY <1>3, <2>2, <3>2
  <2> QED
    BY <2>1, <2>2 DEF Waitable, Answerable
<1>4. ASSUME x \in Events
      PROVE  before'[x] \subseteq 1..executedOps'[use'[x].queue]
  <2>1. use'[x] # Never /\ use'[x].queue \in Queues
    BY <1>4 DEF D3D12QueueAssumption, QueueInv, Types
  <2>2. PICK q \in Queues : q = use'[x].queue
    BY <2>1
  <2>3. /\ before'[x] \subseteq 1..submittedOps'[q]
        /\ \A i \in DOMAIN gpu'[q] : IsSubmission(gpu'[q][i]) /\ gpu'[q][i].index \in before'[x] =>
             Late(gpu'[q], i, fence'[q], lastCompletedInstance'[q], use'[x].value)
    BY <1>4, <2>1, <2>2 DEF EventsOK, EventOK
  <2>4. fence'[q] >= use'[x].value
    BY <2>1, <2>2 DEF Reached
  <2>5. executedOps'[q] \in Nat /\ submittedOps'[q] \in Nat
    BY DEF QueueInv, Types, TypeOK
  <2>6. ASSUME NEW n \in before'[x], n \notin 1..executedOps'[q]
        PROVE  FALSE
    <3>1. n \in (executedOps'[q] + 1)..submittedOps'[q]
      BY <2>3, <2>5, <2>6
    <3>2. PICK i \in DOMAIN gpu'[q] : IsSubmission(gpu'[q][i]) /\ gpu'[q][i].index = n
      BY <3>1 DEF QueueInv, OpsNumbered
    <3>3. fence'[q] < use'[x].value
      BY <2>3, <2>6, <3>2 DEF Late
    <3> QED
      BY <1>1, <1>2, <2>4, <3>3
  <2> QED
    BY <2>2, <2>6
<1> QED
  BY <1>3, <1>4 DEF Over

LEMMA AnswerAnswers ==
  ASSUME D3D12QueueAssumption, QueueInv, QueueInv', AnswersInv, NEW t \in Threads, NEW x \in Waitable, Answer(t, x)
  PROVE  AnswersInv'
<1> USE DEF AnswersInv
<1>1. Quiet /\ UNCHANGED <<use, before, fenceEvent, call, refs>> /\ answered' = answered \cup {x}
  BY AnswerQuiet DEF Answer, listVars
<1>2. Steady
  BY <1>1, QuietSteady
<1>3. /\ x \in Staging \/ use[x] # Never
      /\ \A l \in Lists : phase[l] = "submitted" => x \notin refs[l]
      /\ Reached(x)
  BY DEF Answer, Asks
<1>4. Over(x)
  BY <1>3, ReachedOver
<1>5. x \in Events => use[x] # Never
  BY <1>3 DEF D3D12QueueAssumption
<1>6. executedOps' \in [Queues -> Nat]
  BY DEF QueueInv, Types, TypeOK
<1>7. UsesOK' /\ NotShared' /\ UseCounted'
  BY <1>1, <1>2, <1>4, SteadyUses, SteadyShared, SteadyCounted
<1>8. EventsOK'
  BY <1>1, <1>2, <1>4, <1>5, <1>6, SteadyEvents
<1>9. WaitOK'
  BY <1>1, <1>2, SteadyWait
<1> QED
  BY <1>7, <1>8, <1>9

LEMMA WaitAnswers ==
  ASSUME D3D12QueueAssumption, "WaitsConcurrently" \in Avoided, QueueInv, QueueInv', AnswersInv,
         NEW t \in Threads, NEW x \in Waitable, WaitForFence(t, x)
  PROVE  AnswersInv'
<1> USE DEF AnswersInv
<1>1. /\ Quiet /\ UNCHANGED <<use, before, answered, refs, phase>>
      /\ fenceEvent' = [set |-> FALSE, on |-> fenceEvent.on \cup {use[x]}]
      /\ call' = [call EXCEPT ![t] = [op |-> "wait", for |-> x]]
  BY WaitQuiet DEF WaitForFence, listVars, hostVars
<1>2. Steady
  BY <1>1, QuietSteady
<1>3. executedOps' \in [Queues -> Nat]
  BY DEF QueueInv, Types, TypeOK
<1>4. UsesOK' /\ NotShared' /\ UseCounted'
  BY <1>1, <1>2, SteadyUses, SteadyShared, SteadyCounted
<1>5. EventsOK'
  BY <1>1, <1>2, <1>3, SteadyEvents
<1>6. WaitOK'
  <2>1. \A u \in Threads : call[u].op # "wait"
    BY DEF WaitForFence, Avoids, Busy
  <2>2. fenceEvent'.on = {use[x]} /\ ~fenceEvent'.set
    BY <1>1, <2>1 DEF WaitOK
  <2>3. call'[t].op = "wait" /\ call'[t].for = x /\ \A u \in Threads \ {t} : call'[u] = call[u]
    BY <1>1 DEF QueueInv, Types
  <2>4. use[x] # Never /\ \A l \in Lists : phase[l] = "submitted" => x \notin refs[l]
    BY DEF WaitForFence, Asks, Reached
  <2>5. use[x].queue \in Queues
    BY <2>4 DEF QueueInv, Types
  <2>6. \A u \in Threads : call'[u].op = "wait" => u = t
    BY <2>1, <2>3
  <2> QED
    BY <1>1, <2>2, <2>3, <2>4, <2>5, <2>6 DEF WaitOK
<1> QED
  BY <1>4, <1>5, <1>6

LEMMA WokenAnswers ==
  ASSUME D3D12QueueAssumption, QueueInv, QueueInv', AnswersInv, NEW t \in Threads, Woken(t)
  PROVE  AnswersInv'
<1> USE DEF AnswersInv
<1>1. /\ Quiet /\ UNCHANGED <<use, before, refs, phase>>
      /\ fenceEvent' = [fenceEvent EXCEPT !.set = FALSE] /\ fenceEvent.set
      /\ call' = [call EXCEPT ![t] = Idle] /\ call[t].op = "wait"
      /\ answered' = answered \cup {call[t].for}
  BY WokenQuiet DEF Woken, Busy, listVars
<1>2. Steady
  BY <1>1, QuietSteady
<1>3. executedOps' \in [Queues -> Nat]
  BY DEF QueueInv, Types, TypeOK
<1>4. fenceEvent.on = {} /\ Over(call[t].for) /\ use[call[t].for].queue \in Queues
  BY <1>1 DEF WaitOK
<1>5. use[call[t].for] # Never
  BY <1>4 DEF Never, D3D12QueueAssumption
<1>6. UsesOK' /\ NotShared' /\ UseCounted'
  BY <1>1, <1>2, <1>4, SteadyUses, SteadyShared, SteadyCounted
<1>7. EventsOK'
  BY <1>1, <1>2, <1>3, <1>4, <1>5, SteadyEvents
<1>8. WaitOK'
  <2>1. call'[t].op = "none" /\ \A u \in Threads \ {t} : call'[u] = call[u]
    BY <1>1 DEF QueueInv, Types, Idle
  <2>2. \A u \in Threads : call'[u].op # "wait"
    BY <1>1, <2>1 DEF WaitOK
  <2>3. fenceEvent'.on = {}
    BY <1>1, <1>4 DEF QueueInv, Types
  <2> QED
    BY <2>2, <2>3 DEF WaitOK
<1> QED
  BY <1>6, <1>7, <1>8

\* What is counted when an event is set is behind the value that it waits for.
LEMMA SetEventAnswers ==
  ASSUME D3D12QueueAssumption, QueueInv, QueueInv', AnswersInv, NEW q \in Queues, NEW e \in Events, SetEventQuery(e, q)
  PROVE  AnswersInv'
<1> USE DEF AnswersInv
<1>1. /\ Quiet /\ UNCHANGED <<answered, fenceEvent, call, refs, gpu, fence, lastCompletedInstance, lastSubmittedInstance,
                              submittedOps, executedOps>>
      /\ use[e] = Never /\ use' = [use EXCEPT ![e] = LastUse(q)]
      /\ before' = [before EXCEPT ![e] = (1..submittedOps[q])
            \ {call[t].index : t \in {u \in Threads : call[u].op \in {"count", "signal", "executed"} /\ call[u].queue = q}}]
  BY SetEventQuiet DEF SetEventQuery, Busy, listVars, queueVars, gpuVars
<1>2. Steady
  BY <1>1, QuietSteady
<1>3. /\ use'[e] = [queue |-> q, value |-> lastSubmittedInstance[q]]
      /\ \A x \in Waitable \ {e} : use'[x] = use[x]
      /\ \A x \in Events \ {e} : before'[x] = before[x]
      /\ before'[e] = (1..submittedOps[q])
            \ {call[t].index : t \in {u \in Threads : call[u].op \in {"count", "signal", "executed"} /\ call[u].queue = q}}
  BY <1>1 DEF QueueInv, Types, TypeOK, Waitable, LastUse
<1>4. executedOps' \in [Queues -> Nat] /\ lastSubmittedInstance[q] \in Nat
  BY DEF QueueInv, Types, TypeOK
<1>5. UsesOK' /\ NotShared'
  <2>1. \A x \in Answerable : use'[x] = use[x]
    BY <1>3 DEF Answerable, Waitable, D3D12QueueAssumption
  <2> QED
    BY <1>1, <1>2, <2>1, SteadyUses, SteadyShared
<1>6. UseCounted'
  BY <1>1, <1>3, <1>4 DEF UseCounted
<1>7. EventsOK'
  <2>1. \A x \in Events \ {e} : EventOK(x)'
    BY <1>1, <1>2, <1>3, <1>4, SteadyEvent DEF Waitable
  <2>2. EventOK(e)'
    <3>1. e \notin answered'
      BY <1>1 DEF EventsOK, EventOK
    <3>2. before'[e] \subseteq 1..submittedOps[q]
      BY <1>3
    <3>3. ASSUME NEW i \in DOMAIN gpu[q], IsSubmission(gpu[q][i]), gpu[q][i].index \in before'[e]
          PROVE  Late(gpu[q], i, fence[q], lastCompletedInstance[q], lastSubmittedInstance[q])
      <4>1. ~\E t \in Threads : call[t].op = "count" /\ call[t].queue = q /\ call[t].index = gpu[q][i].index
        BY <1>3, <3>3
      <4> QED
        BY <3>3, <4>1 DEF QueueInv, CountedOK
    <3>4. PICK u : u = use'[e] /\ u.queue = q /\ u.value = lastSubmittedInstance[q]
      BY <1>3
    <3> QED
      BY <1>1, <3>1, <3>2, <3>3, <3>4 DEF EventOK
  <2> QED
    BY <2>1, <2>2 DEF EventsOK
<1>8. WaitOK'
  <2>1. UNCHANGED <<fenceEvent, call, refs, gpu, executedOps>>
    BY <1>1
  <2>2. ASSUME NEW t \in Threads, call[t].op = "wait"
        PROVE  /\ use'[call[t].for].queue \in Queues
               /\ \A l \in Lists : phase'[l] = "submitted" => call[t].for \notin refs[l]
               /\ \/ ~fenceEvent.set /\ fenceEvent.on = {use'[call[t].for]}
                  \/ fenceEvent.set /\ fenceEvent.on = {} /\ Over(call[t].for)'
    <3>1. PICK x : x = call[t].for
      OBVIOUS
    <3>2. /\ use[x].queue \in Queues
          /\ \A l \in Lists : phase[l] = "submitted" => x \notin refs[l]
          /\ \/ ~fenceEvent.set /\ fenceEvent.on = {use[x]}
             \/ fenceEvent.set /\ fenceEvent.on = {} /\ Over(x)
      BY <2>2, <3>1 DEF WaitOK
    <3>3. x # e
      BY <1>1, <3>2 DEF Never, D3D12QueueAssumption
    <3>4. x \in Waitable
      <4>1. call[t] \in {Idle} \cup CountCall \cup SignalCall \cup WaitCall
        BY DEF QueueInv, Types
      <4>2. call[t] \in WaitCall
        BY <2>2, <4>1 DEF Idle, CountCall, SignalCall
      <4> QED
        BY <3>1, <4>2 DEF WaitCall
    <3>5. use'[x] = use[x] /\ (x \in Events => before'[x] = before[x])
      BY <1>3, <3>3, <3>4
    <3>6. Over(x) => Over(x)'
      BY <2>1, <3>5 DEF Over
    <3>7. Over(x)' => Over(call[t].for)'
      BY <2>1, <3>1
    <3> QED
      BY <1>2, <3>1, <3>2, <3>5, <3>6, <3>7 DEF Steady
  <2>3. /\ \A t, u \in Threads : call'[t].op = "wait" /\ call'[u].op = "wait" => t = u
        /\ (\A t \in Threads : call'[t].op # "wait") => fenceEvent'.on = {}
    BY <2>1 DEF WaitOK
  <2> QED
    BY <2>1, <2>2, <2>3 DEF WaitOK
<1> QED
  BY <1>5, <1>6, <1>7, <1>8

LEMMA ResetEventAnswers ==
  ASSUME D3D12QueueAssumption, QueueInv, QueueInv', AnswersInv, NEW e \in Events, ResetEventQuery(e)
  PROVE  AnswersInv'
<1> USE DEF AnswersInv
<1>1. /\ Quiet /\ UNCHANGED <<before, fenceEvent, call, refs, lastSubmittedInstance>>
      /\ use[e] # Never /\ use' = [use EXCEPT ![e] = Never] /\ answered' = answered \ {e}
      /\ \A t \in Threads : call[t].op = "wait" => call[t].for # e
  BY ResetEventQuiet DEF ResetEventQuery, Busy, listVars, queueVars
<1>2. Steady
  BY <1>1, QuietSteady
<1>3. use'[e] = Never /\ \A x \in Waitable \ {e} : use'[x] = use[x]
  BY <1>1 DEF QueueInv, Types, TypeOK, Waitable
<1>4. executedOps' \in [Queues -> Nat]
  BY DEF QueueInv, Types, TypeOK
<1>5. UsesOK' /\ NotShared'
  <2>1. \A x \in Answerable : use'[x] = use[x]
    BY <1>3 DEF Answerable, Waitable, D3D12QueueAssumption
  <2> QED
    BY <1>1, <1>2, <2>1, SteadyUses, SteadyShared
<1>6. UseCounted'
  BY <1>1, <1>3 DEF UseCounted
<1>7. EventsOK'
  <2>1. \A x \in Events \ {e} : EventOK(x)'
    BY <1>1, <1>2, <1>3, <1>4, SteadyEvent DEF Waitable
  <2>2. EventOK(e)'
    BY <1>1, <1>3 DEF EventOK
  <2> QED
    BY <2>1, <2>2 DEF EventsOK
<1>8. WaitOK'
  <2>1. \A x \in Waitable : use[x] # Never => use'[x] = use[x] \/ \A t \in Threads : call[t].op = "wait" => call[t].for # x
    BY <1>1, <1>3
  <2> QED
    BY <1>1, <1>2, <2>1, SteadyWait
<1> QED
  BY <1>5, <1>6, <1>7, <1>8

LEMMA GpuAnswers ==
  ASSUME D3D12QueueAssumption, QueueInv, QueueInv', AnswersInv, NEW q \in Queues, ExecuteOperation(q)
  PROVE  AnswersInv'
<1> USE DEF AnswersInv
<1>1. Steady /\ UNCHANGED <<call, held, use, answered, before, phase, refs>>
  BY GpuSteady
<1>2. fenceEvent' = [set |-> fenceEvent.set \/ Reaches(fenceEvent.on, fence') # {},
                    on |-> fenceEvent.on \ Reaches(fenceEvent.on, fence')]
  BY DEF ExecuteOperation
<1>3. executedOps' \in [Queues -> Nat]
  BY DEF QueueInv, Types, TypeOK
<1>4. UsesOK' /\ NotShared' /\ UseCounted'
  BY <1>1, SteadyUses, SteadyShared, SteadyCounted
<1>5. EventsOK'
  BY <1>1, <1>3, SteadyEvents
<1>6. WaitOK'
  <2>1. /\ \A t, u \in Threads : call'[t].op = "wait" /\ call'[u].op = "wait" => t = u
        /\ (\A t \in Threads : call'[t].op # "wait") => fenceEvent'.on = {}
    BY <1>1, <1>2 DEF WaitOK
  <2>2. ASSUME NEW t \in Threads, call[t].op = "wait"
        PROVE  /\ use[call[t].for].queue \in Queues
               /\ \A l \in Lists : phase[l] = "submitted" => call[t].for \notin refs[l]
               /\ \/ ~fenceEvent'.set /\ fenceEvent'.on = {use[call[t].for]}
                  \/ fenceEvent'.set /\ fenceEvent'.on = {} /\ Over(call[t].for)'
    <3>1. PICK x : x = call[t].for
      OBVIOUS
    <3>2. /\ use[x].queue \in Queues
          /\ \A l \in Lists : phase[l] = "submitted" => x \notin refs[l]
          /\ \/ ~fenceEvent.set /\ fenceEvent.on = {use[x]}
             \/ fenceEvent.set /\ fenceEvent.on = {} /\ Over(x)
      BY <2>2, <3>1 DEF WaitOK
    <3>3. x \in Waitable
      <4>1. call[t] \in {Idle} \cup CountCall \cup SignalCall \cup WaitCall
        BY DEF QueueInv, Types
      <4>2. call[t] \in WaitCall
        BY <2>2, <4>1 DEF Idle, CountCall, SignalCall
      <4> QED
        BY <3>1, <4>2 DEF WaitCall
    <3>4. use[x] # Never
      BY <3>2 DEF Never, D3D12QueueAssumption
    <3>5. Over(x)' => Over(call[t].for)'
      BY <1>1, <3>1
    <3>6. CASE fenceEvent.set /\ fenceEvent.on = {} /\ Over(x)
      <4>1. Over(x)'
        BY <1>1, <3>2, <3>6, SteadyOver
      <4>2. fenceEvent'.set /\ fenceEvent'.on = {}
        BY <1>2, <3>6
      <4> QED
        BY <3>1, <3>2, <3>5, <4>1, <4>2
    <3>7. CASE /\ ~fenceEvent.set /\ fenceEvent.on = {use[x]}
               /\ fence'[use[x].queue] >= use[x].value
      <4>1. fenceEvent'.set /\ fenceEvent'.on = {}
        BY <1>2, <3>7 DEF Reaches
      <4>2. Reached(x)'
        BY <1>1, <3>7 DEF Reached
      <4>3. \A l \in Lists : phase'[l] = "submitted" => x \notin refs'[l]
        BY <1>1, <3>2
      <4>4. use'[x] # Never
        BY <1>1, <3>4
      <4>5. Over(x)'
        BY <1>4, <1>5, <3>3, <4>2, <4>3, <4>4, ReachedOverNext
      <4> QED
        BY <3>1, <3>2, <3>5, <4>1, <4>5
    <3>8. CASE /\ ~fenceEvent.set /\ fenceEvent.on = {use[x]}
               /\ ~(fence'[use[x].queue] >= use[x].value)
      BY <1>2, <3>1, <3>2, <3>8 DEF Reaches
    <3> QED
      BY <3>2, <3>6, <3>7, <3>8
  <2> QED
    BY <1>1, <2>1, <2>2 DEF WaitOK
<1> QED
  BY <1>4, <1>5, <1>6
LEMMA ExecuteAnswers ==
  ASSUME D3D12QueueAssumption, "SharesQueues" \in Avoided, QueueInv, QueueInv', AnswersInv,
         NEW t \in Threads, NEW ls \in Batches, ExecuteCommandLists(t, ls)
  PROVE  AnswersInv'
<1> USE DEF AnswersInv
<1>1. PICK q \in Queues, o \in SubmissionOp, d \in CountCall :
           /\ call[t] = Idle /\ ~Submits(t)
           /\ ls \in Seq(Lists) /\ ls # <<>> /\ IsInjective(ls) /\ ToSet(ls) \subseteq Lists
           /\ \A l \in ToSet(ls) : phase[l] = "closed" /\ l \in held /\ ThreadOf[l] = t /\ QueueOf[l] = q
           /\ o.index = submittedOps[q] + 1
           /\ o.used = UNION {UsedBy(l) : l \in ToSet(ls)} /\ o.cmds = {active[l] : l \in ToSet(ls)}
           /\ d.op = "count" /\ d.queue = q /\ d.todo = ls /\ d.index = submittedOps[q] + 1
           /\ o.used \cap answered \cap Staging = {}
           /\ \A u \in Threads : call[u].op = "wait" => call[u].for \notin o.used
           /\ "SharesQueues" \in Avoided => o.used \cap Waitable \cap UsedElsewhere(q) = {}
           /\ ExecuteStepOf(t, q, ls, o, d)
  BY ExecuteFacts
<1>2. /\ gpu' = [gpu EXCEPT ![q] = Append(@, o)]
      /\ submittedOps' = [submittedOps EXCEPT ![q] = o.index]
      /\ phase' = [l \in Lists |-> IF l \in ToSet(ls) THEN "submitted" ELSE phase[l]]
      /\ answered' = answered \ (o.used \cap Timers)
      /\ call' = [call EXCEPT ![t] = d]
      /\ UNCHANGED <<lastSubmittedInstance, lastCompletedInstance, refs, use, fenceEvent, fence, executedOps, before>>
  BY <1>1 DEF ExecuteStepOf, queueVars
<1>3. call'[t] = d /\ \A u \in Threads \ {t} : call'[u] = call[u]
  BY <1>2 DEF QueueInv, Types
<1>4. \A l \in Lists : phase'[l] = "submitted" => phase[l] = "submitted" \/ l \in ToSet(ls)
  BY <1>2
<1>5. gpu \in [Queues -> Seq(GpuOp)] /\ o \in GpuOp
  BY DEF QueueInv, Types, GpuOp
<1>6. ASSUME NEW p \in Queues, NEW i \in DOMAIN gpu'[p]
      PROVE  \/ p = q /\ gpu'[p][i] = o
             \/ /\ i \in DOMAIN gpu[p] /\ gpu'[p][i] = gpu[p][i]
                /\ \A a, b, v : Late(gpu'[p], i, a, b, v) <=> Late(gpu[p], i, a, b, v)
  <2>1. CASE p = q
    BY <1>2, <1>5, <2>1, AppendFacts DEF Late
  <2>2. CASE p # q
    BY <1>2, <1>5, <2>2
  <2> QED
    BY <2>1, <2>2
<1>7. \A p \in Queues, l \in Lists : \A op : Tells(p, op, l) => Tells(p, op, l)'
  <2>1. \A u \in Threads : Submits(u) => Submits(u)' /\ call'[u] = call[u]
    BY <1>1, <1>3 DEF Submits
  <2>2. \A l \in Lists : phase[l] = "submitted" => phase'[l] = "submitted"
    BY <1>2
  <2> QED
    BY <2>1, <2>2, TellsStay
<1>8. \A l \in ToSet(ls) : Tells(q, o, l)'
  <2>1. \A l \in ToSet(ls) : l \in Lists /\ phase'[l] = "submitted" /\ ThreadOf[l] = t
    BY <1>1, <1>2
  <2>2. Submits(t)' /\ call'[t].todo = ls /\ call'[t].queue = q /\ call'[t].index = o.index
    BY <1>1, <1>3 DEF Submits
  <2> QED
    BY <2>1, <2>2 DEF Tells
<1>9. UsesOK'
  <2> SUFFICES ASSUME NEW p \in Queues, NEW i \in DOMAIN gpu'[p], IsSubmission(gpu'[p][i]),
                      NEW x \in gpu'[p][i].used, x \in Answerable
               PROVE  /\ x \notin answered'
                      /\ \/ \E l \in Lists : x \in refs'[l] /\ Tells(p, gpu[p][i], l)'
                         \/ /\ use'[x].queue = p
                            /\ Late(gpu'[p], i, fence'[p], lastCompletedInstance'[p], use'[x].value)
    BY DEF UsesOK
  <2>1. PICK o1 : o1 = gpu'[p][i]
    OBVIOUS
  <2>2. CASE p = q /\ o1 = o
    <3>1. x \notin answered'
      BY <1>1, <1>2, <2>1, <2>2 DEF Answerable
    <3>2. PICK l \in ToSet(ls) : x \in UsedBy(l)
      BY <1>1, <2>1, <2>2
    <3>3. l \in Lists /\ x \in refs[l]
      BY <1>1, <3>2 DEF UsedBy, Answerable, D3D12QueueAssumption
    <3>4. Tells(p, o1, l)'
      BY <1>8, <2>2
    <3> QED
      BY <1>2, <2>1, <3>1, <3>3, <3>4
  <2>3. CASE /\ i \in DOMAIN gpu[p] /\ gpu'[p][i] = gpu[p][i]
             /\ \A a, b, v : Late(gpu'[p], i, a, b, v) <=> Late(gpu[p], i, a, b, v)
    <3>1. /\ x \notin answered
          /\ \/ \E l \in Lists : x \in refs[l] /\ Tells(p, o1, l)
             \/ /\ use[x].queue = p
                /\ Late(gpu[p], i, fence[p], lastCompletedInstance[p], use[x].value)
      BY <2>1, <2>3 DEF UsesOK
    <3> QED
      BY <1>2, <1>7, <2>1, <2>3, <3>1
  <2> QED
    BY <1>6, <2>1, <2>2, <2>3
<1>10. \A p \in Queues, x \in Answerable : UsedOn(p, x)' => UsedOn(p, x) \/ (p = q /\ x \in o.used)
  <2>1. ASSUME NEW p \in Queues, NEW x \in Answerable, NEW i \in DOMAIN gpu'[p],
               IsSubmission(gpu'[p][i]), x \in gpu'[p][i].used
        PROVE  UsedOn(p, x) \/ (p = q /\ x \in o.used)
    BY <1>6, <2>1 DEF UsedOn
  <2>2. ASSUME NEW p \in Queues, NEW x \in Answerable, NEW l \in Lists,
               phase'[l] = "submitted", QueueOf[l] = p, x \in refs'[l]
        PROVE  UsedOn(p, x) \/ (p = q /\ x \in o.used)
    BY <1>1, <1>2, <1>4, <2>2 DEF UsedOn, UsedBy
  <2> QED
    BY <2>1, <2>2 DEF UsedOn
<1>11. \A p \in Queues \ {q} : \A x \in o.used \cap Answerable : ~UsedOn(p, x)
  <2>1. \A x \in Answerable : x \in Waitable
    BY DEF Answerable, Waitable
  <2>2. ASSUME NEW p \in Queues \ {q}, NEW x \in Answerable, UsedOn(p, x)
        PROVE  x \in UsedElsewhere(q)
    <3>1. CASE \E i \in DOMAIN gpu[p] : IsSubmission(gpu[p][i]) /\ x \in gpu[p][i].used
      <4>1. PICK i \in DOMAIN gpu[p] : IsSubmission(gpu[p][i]) /\ x \in gpu[p][i].used
        BY <3>1
      <4>2. gpu[p][i] \in Pending(p)
        BY <4>1 DEF Pending, ToSet
      <4>3. x \in UNION {op.used : op \in Pending(p)}
        BY <4>1, <4>2
      <4> QED
        BY <4>3 DEF UsedElsewhere
    <3>2. CASE \E l \in Lists : phase[l] = "submitted" /\ QueueOf[l] = p /\ x \in refs[l]
      <4>1. PICK l \in {k \in Lists : phase[k] = "submitted" /\ QueueOf[k] # q} : x \in refs[l]
        BY <2>2, <3>2
      <4>2. x \in UNION {refs[k] : k \in {k \in Lists : phase[k] = "submitted" /\ QueueOf[k] # q}}
        BY <4>1
      <4> QED
        BY <4>2 DEF UsedElsewhere
    <3> QED
      BY <2>2, <3>1, <3>2 DEF UsedOn
  <2> QED
    BY <1>1, <2>1, <2>2
<1>12. NotShared'
  BY <1>10, <1>11 DEF NotShared
<1>13. UseCounted'
  BY <1>2 DEF UseCounted
<1>14. EventsOK'
  <2> SUFFICES ASSUME NEW e \in Events
               PROVE  EventOK(e)'
    BY DEF EventsOK
  <2>1. answered' \subseteq answered
    BY <1>2
  <2>2. ASSUME use[e] # Never
        PROVE  /\ before[e] \subseteq 1..submittedOps'[use[e].queue]
               /\ \A i \in DOMAIN gpu'[use[e].queue] :
                    IsSubmission(gpu'[use[e].queue][i]) /\ gpu'[use[e].queue][i].index \in before[e] =>
                        Late(gpu'[use[e].queue], i, fence[use[e].queue],
                             lastCompletedInstance[use[e].queue], use[e].value)
    <3>1. PICK p \in Queues : p = use[e].queue
      BY <2>2 DEF QueueInv, Types, Waitable
    <3>2. /\ before[e] \subseteq 1..submittedOps[p]
          /\ \A i \in DOMAIN gpu[p] : IsSubmission(gpu[p][i]) /\ gpu[p][i].index \in before[e] =>
               Late(gpu[p], i, fence[p], lastCompletedInstance[p], use[e].value)
      BY <2>2, <3>1 DEF EventsOK, EventOK
    <3>3. submittedOps[p] \in Nat /\ submittedOps'[p] \in Nat /\ submittedOps[p] <= submittedOps'[p]
      <4>1. submittedOps \in [Queues -> Nat] /\ submittedOps' \in [Queues -> Nat]
        BY DEF QueueInv, Types, TypeOK
      <4> QED
        BY <1>1, <1>2, <4>1
    <3>4. ASSUME NEW i \in DOMAIN gpu'[p], IsSubmission(gpu'[p][i]), gpu'[p][i].index \in before[e]
          PROVE  Late(gpu'[p], i, fence[p], lastCompletedInstance[p], use[e].value)
      <4>1. ~(p = q /\ gpu'[p][i] = o)
        BY <1>1, <3>2, <3>3, <3>4
      <4> QED
        BY <1>6, <3>2, <3>4, <4>1
    <3> QED
      BY <3>1, <3>2, <3>3, <3>4
  <2>3. e \in answered => use[e] # Never /\ before[e] \subseteq 1..executedOps[use[e].queue]
    BY DEF EventsOK, EventOK
  <2>4. UNCHANGED <<lastCompletedInstance, use, fence, executedOps, before>>
    BY <1>2
  <2> QED
    BY <2>1, <2>2, <2>3, <2>4 DEF EventOK
<1>15. WaitOK'
  <2>1. \A u \in Threads : /\ call'[u].op = "wait" => u # t /\ call[u].op = "wait"
                           /\ call[u].op = "wait" => call'[u] = call[u]
    BY <1>1, <1>3 DEF Idle
  <2>2. ASSUME NEW u \in Threads, call'[u].op = "wait"
        PROVE  /\ use[call'[u].for].queue \in Queues
               /\ \A l \in Lists : phase'[l] = "submitted" => call'[u].for \notin refs[l]
               /\ \/ ~fenceEvent.set /\ fenceEvent.on = {use[call'[u].for]}
                  \/ fenceEvent.set /\ fenceEvent.on = {} /\ Over(call[u].for)'
    <3>1. PICK x : x = call[u].for /\ x = call'[u].for
      BY <2>1, <2>2
    <3>2. /\ use[x].queue \in Queues
          /\ \A l \in Lists : phase[l] = "submitted" => x \notin refs[l]
          /\ \/ ~fenceEvent.set /\ fenceEvent.on = {use[x]}
             \/ fenceEvent.set /\ fenceEvent.on = {} /\ Over(x)
      BY <2>1, <2>2, <3>1 DEF WaitOK
    <3>3. x \notin o.used
      BY <1>1, <2>1, <2>2, <3>1
    <3>4. \A l \in Lists : phase'[l] = "submitted" => x \notin refs[l]
      BY <1>1, <1>4, <3>2, <3>3 DEF UsedBy
    <3>5. Over(x) => Over(x)'
      BY <1>2, <1>6, <3>3 DEF Over
    <3>6. Over(x)' => Over(call[u].for)'
      BY <2>1, <2>2, <3>1
    <3> QED
      BY <3>1, <3>2, <3>4, <3>5, <3>6
  <2>3. UNCHANGED <<use, refs, fenceEvent>>
    BY <1>2
  <2>4. \A u, w \in Threads : call'[u].op = "wait" /\ call'[w].op = "wait" => u = w
    BY <2>1 DEF WaitOK
  <2>5. (\A u \in Threads : call'[u].op # "wait") => fenceEvent.on = {}
    BY <1>1, <1>3, <2>1 DEF WaitOK, Idle
  <2>6. \A u \in Threads : call'[u].op = "wait" => call'[u] = call[u]
    BY <2>1
  <2> QED
    BY <2>2, <2>3, <2>4, <2>5, <2>6 DEF WaitOK
<1> QED
  BY <1>9, <1>12, <1>13, <1>14, <1>15

\* What a call has told is held under the last value, which is later.
LEMMA ExecutedAnswers ==
  ASSUME D3D12QueueAssumption, QueueInv, QueueInv', AnswersInv, NEW t \in Threads, Executed(t)
  PROVE  AnswersInv'
<1> USE DEF AnswersInv
<1>1. PICK q \in Queues, l \in Lists, c \in InternalLists, n \in Nat, todo \in Seq(Lists) :
           /\ call[t].op = "executed" /\ Submits(t) /\ call[t] \in SignalCall
           /\ q = call[t].queue /\ n = lastSubmittedInstance[q] /\ c = active[l] /\ c[1] = l
           /\ ThreadOf[l] = t /\ QueueOf[l] = q /\ phase[l] = "submitted"
           /\ ToSet(call[t].todo) = ToSet(todo) \cup {l} /\ l \notin ToSet(todo)
           /\ ToSet(todo) \subseteq Lists /\ IsInjective(todo)
           /\ ExecutedStepOf(t, q, l, c, n, todo)
  BY ExecutedFacts
<1>2. /\ UNCHANGED <<lastSubmittedInstance, lastCompletedInstance, gpu, fence, submittedOps, executedOps,
                     answered, fenceEvent, before>>
      /\ phase'[l] = "idle" /\ \A k \in Lists \ {l} : phase'[k] = phase[k]
      /\ refs'[l] = {} /\ \A k \in Lists \ {l} : refs'[k] = refs[k]
      /\ \A x \in Waitable : use'[x] = (IF x \in refs[l] THEN [queue |-> q, value |-> n] ELSE use[x])
      /\ call'[t] = (IF todo = <<>> THEN Idle ELSE [call[t] EXCEPT !.todo = todo])
      /\ \A u \in Threads \ {t} : call'[u] = call[u]
  BY <1>1 DEF ExecutedStepOf, QueueInv, Types, TypeOK, queueVars, gpuVars
<1>3. /\ todo = <<>> => ~Submits(t)' /\ call'[t].op = "none"
      /\ todo # <<>> => /\ Submits(t)' /\ call'[t].op = "executed" /\ call'[t].queue = q
                        /\ call'[t].index = call[t].index /\ call'[t].todo = todo
  BY <1>1, <1>2 DEF Submits, Idle, SignalCall
<1>4. \A u \in Threads \ {t} : Submits(u)' <=> Submits(u)
  BY <1>2 DEF Submits
<1>5. ToSet(todo) # {} => todo # <<>>
  BY DEF ToSet
<1>6. ASSUME NEW p \in Queues, NEW k \in Lists \ {l}, NEW op, Tells(p, op, k)
      PROVE  Tells(p, op, k)'
  <2>1. ThreadOf[k] \in Threads
    BY DEF D3D12QueueAssumption
  <2>2. CASE ThreadOf[k] # t
    BY <1>2, <1>4, <1>6, <2>1, <2>2 DEF Tells
  <2>3. CASE ThreadOf[k] = t
    BY <1>1, <1>2, <1>3, <1>5, <1>6, <2>3 DEF Tells
  <2> QED
    BY <2>2, <2>3
<1>7. UsesOK'
  <2> SUFFICES ASSUME NEW p \in Queues, NEW i \in DOMAIN gpu[p], IsSubmission(gpu[p][i]),
                      NEW x \in gpu[p][i].used, x \in Answerable
               PROVE  /\ x \notin answered
                      /\ \/ \E k \in Lists : x \in refs'[k] /\ Tells(p, gpu[p][i], k)'
                         \/ /\ use'[x].queue = p
                            /\ Late(gpu[p], i, fence[p], lastCompletedInstance[p], use'[x].value)
    <3>1. UNCHANGED <<gpu, fence, lastCompletedInstance, answered>>
      BY <1>2
    <3> QED
      BY <3>1 DEF UsesOK
  <2>1. PICK op : op = gpu[p][i] /\ op = gpu'[p][i]
    BY <1>2
  <2>2. /\ x \notin answered
        /\ \/ \E k \in Lists : x \in refs[k] /\ Tells(p, op, k)
           \/ /\ use[x].queue = p
              /\ Late(gpu[p], i, fence[p], lastCompletedInstance[p], use[x].value)
    <3>1. /\ x \notin answered
          /\ \/ \E k \in Lists : x \in refs[k] /\ Tells(p, gpu[p][i], k)
             \/ /\ use[x].queue = p
                /\ Late(gpu[p], i, fence[p], lastCompletedInstance[p], use[x].value)
      BY DEF UsesOK
    <3> QED
      BY <2>1, <3>1
  <2>3. x \in Waitable
    BY DEF Answerable, Waitable
  <2>4. ASSUME NEW k \in Lists \ {l}, x \in refs[k], Tells(p, op, k)
        PROVE  x \in refs'[k] /\ Tells(p, gpu[p][i], k)'
    <3>1. Tells(p, op, k)'
      BY <1>6, <2>4
    <3> QED
      BY <1>2, <2>1, <2>4, <3>1
  <2>5. CASE x \in refs[l] /\ Tells(p, op, l)
    <3>1. p = q /\ op.index = call[t].index
      BY <1>1, <2>5 DEF Tells
    <3>2. ~\E u \in Threads : call[u].op = "count" /\ call[u].queue = q /\ call[u].index = op.index
      BY <1>1, <3>1 DEF QueueInv, CallsOK, Submits
    <3>3. Late(gpu[q], i, fence[q], lastCompletedInstance[q], n)
      <4>1. \/ \E u \in Threads : call[u].op = "count" /\ call[u].queue = q /\ call[u].index = gpu[q][i].index
            \/ Late(gpu[q], i, fence[q], lastCompletedInstance[q], lastSubmittedInstance[q])
        BY <3>1 DEF QueueInv, CountedOK
      <4>2. gpu[q][i].index = op.index
        BY <2>1, <3>1
      <4> QED
        BY <1>1, <3>2, <4>1, <4>2
    <3>4. use'[x] = [queue |-> q, value |-> n]
      BY <1>2, <2>3, <2>5
    <3> QED
      BY <2>2, <3>1, <3>3, <3>4
  <2>6. CASE /\ use[x].queue = p /\ x \in refs[l]
             /\ Late(gpu[p], i, fence[p], lastCompletedInstance[p], use[x].value)
    <3>1. UsedOn(p, x) /\ UsedOn(q, x)
      BY <1>1, <2>6 DEF UsedOn
    <3>2. p = q
      BY <3>1 DEF NotShared
    <3>3. use[x] # Never
      BY <2>6 DEF Never, D3D12QueueAssumption
    <3>4. use[x].value <= n
      BY <1>1, <2>3, <2>6, <3>2, <3>3 DEF UseCounted
    <3>5. use[x].value \in Nat
      BY <2>3 DEF QueueInv, Types, TypeOK
    <3>6. use'[x] = [queue |-> q, value |-> n]
      BY <1>2, <2>3, <2>6
    <3>7. fence[p] \in Nat /\ lastCompletedInstance[p] \in Nat /\ gpu[p] \in Seq(GpuOp)
      BY DEF QueueInv, Types, TypeOK
    <3>8. \A j \in DOMAIN gpu[p] : gpu[p][j].kind = "signal" => gpu[p][j].value \in Nat
      <4>1. \A j \in DOMAIN gpu[p] : gpu[p][j] \in GpuOp
        BY <3>7
      <4>2. \A g \in GpuOp : g.kind = "signal" => g.value \in Nat
        BY DEF GpuOp, SubmissionOp, SignalOp, WaitOp
      <4> QED
        BY <4>1, <4>2
    <3>9. Late(gpu[p], i, fence[p], lastCompletedInstance[p], n)
      BY <2>6, <3>4, <3>5, <3>7, <3>8, SMTT(30) DEF Late
    <3> QED
      BY <2>2, <3>2, <3>6, <3>9
  <2>7. CASE /\ use[x].queue = p /\ x \notin refs[l]
             /\ Late(gpu[p], i, fence[p], lastCompletedInstance[p], use[x].value)
    BY <1>2, <2>2, <2>3, <2>7
  <2> QED
    BY <2>2, <2>4, <2>5, <2>6, <2>7
<1>8. NotShared'
  <2>1. \A k \in Lists : phase'[k] = "submitted" => k # l
    BY <1>2
  <2>2. ASSUME NEW p \in Queues, NEW x, UsedOn(p, x)'
        PROVE  UsedOn(p, x)
    BY <1>2, <2>1, <2>2 DEF UsedOn
  <2> QED
    BY <2>2 DEF NotShared
<1>9. UseCounted'
  <2> SUFFICES ASSUME NEW x \in Waitable, use'[x] # Never
               PROVE  use'[x].value <= lastSubmittedInstance[use'[x].queue]
    BY <1>2 DEF UseCounted
  <2>1. CASE x \in refs[l]
    BY <1>1, <1>2, <2>1
  <2>2. CASE x \notin refs[l]
    BY <1>2, <2>2 DEF UseCounted
  <2> QED
    BY <2>1, <2>2
<1>10. EventsOK'
  <2>1. \A e \in Events : use'[e] = use[e]
    BY <1>2 DEF QueueInv, Types, Waitable
  <2> QED
    BY <1>2, <2>1 DEF EventsOK, EventOK
<1>11. WaitOK'
  <2>1. \A u \in Threads : call'[u].op = "wait" => u # t
    BY <1>3
  <2>2. \A u \in Threads : call'[u].op = "wait" => call'[u] = call[u]
    BY <1>2, <2>1
  <2>3. ASSUME NEW u \in Threads, call'[u].op = "wait"
        PROVE  /\ use'[call'[u].for].queue \in Queues
               /\ \A k \in Lists : phase'[k] = "submitted" => call'[u].for \notin refs'[k]
               /\ \/ ~fenceEvent.set /\ fenceEvent.on = {use'[call'[u].for]}
                  \/ fenceEvent.set /\ fenceEvent.on = {} /\ Over(call[u].for)'
    <3>0. call[u].op = "wait" /\ call'[u] = call[u]
      BY <2>2, <2>3
    <3>1. PICK x : x = call[u].for
      OBVIOUS
    <3>2. /\ use[x].queue \in Queues
          /\ \A k \in Lists : phase[k] = "submitted" => x \notin refs[k]
          /\ \/ ~fenceEvent.set /\ fenceEvent.on = {use[x]}
             \/ fenceEvent.set /\ fenceEvent.on = {} /\ Over(x)
      BY <3>0, <3>1 DEF WaitOK
    <3>3. x \in Waitable
      <4>1. call[u] \in {Idle} \cup CountCall \cup SignalCall \cup WaitCall
        BY DEF QueueInv, Types
      <4>2. call[u] \in WaitCall
        BY <3>0, <4>1 DEF Idle, CountCall, SignalCall
      <4> QED
        BY <3>1, <4>2 DEF WaitCall
    <3>4. use'[x] = use[x]
      BY <1>1, <1>2, <3>2, <3>3
    <3>5. \A k \in Lists : phase'[k] = "submitted" => x \notin refs'[k]
      BY <1>2, <3>2
    <3>6. Over(x) => Over(x)'
      BY <1>2, <3>4 DEF Over
    <3>7. Over(x)' => Over(call[u].for)'
      BY <1>2, <3>0, <3>1
    <3> QED
      BY <3>0, <3>1, <3>2, <3>4, <3>5, <3>6, <3>7
  <2>4. fenceEvent' = fenceEvent
    BY <1>2
  <2>5. \A u, w \in Threads : call'[u].op = "wait" /\ call'[w].op = "wait" => u = w
    BY <2>2 DEF WaitOK
  <2>6. (\A u \in Threads : call'[u].op # "wait") => fenceEvent.on = {}
    BY <1>1, <1>2 DEF WaitOK
  <2> QED
    BY <2>2, <2>3, <2>4, <2>5, <2>6 DEF WaitOK
<1> QED
  BY <1>7, <1>8, <1>9, <1>10, <1>11

LEMMA AnswersInit ==
  ASSUME D3D12QueueAssumption, Init
  PROVE  AnswersInv
<1>1. gpu = [q \in Queues |-> <<>>] /\ call = [t \in Threads |-> Idle] /\ answered = {}
      /\ use = [x \in Waitable |-> Never] /\ fenceEvent = [set |-> FALSE, on |-> {}]
      /\ phase = [l \in Lists |-> "idle"]
  BY DEF Init
<1>2. \A q \in Queues : DOMAIN gpu[q] = {}
  BY <1>1
<1>3. UsesOK /\ NotShared /\ UseCounted
  BY <1>1, <1>2 DEF UsesOK, NotShared, UsedOn, UseCounted
<1>4. EventsOK
  BY <1>1 DEF EventsOK, EventOK, Waitable
<1>5. WaitOK
  BY <1>1 DEF WaitOK, Idle
<1> QED
  BY <1>3, <1>4, <1>5 DEF AnswersInv

LEMMA AnswersInvNext ==
  ASSUME D3D12QueueAssumption, {"WaitsConcurrently", "SharesQueues"} \subseteq Avoided,
         QueueInv, QueueInv', AnswersInv, [Next]_vars
  PROVE  AnswersInv'
<1>1. ASSUME Steady, UNCHANGED <<use, before, fenceEvent, answered>>,
             \A t \in Threads : call'[t] = call[t] \/ (call'[t].op # "wait" /\ call[t].op # "wait")
      PROVE  AnswersInv'
  BY <1>1, SteadyAnswers
<1>2. CASE UNCHANGED vars
  <2>1. Quiet /\ UNCHANGED <<refs, use, before, fenceEvent, answered, call>>
    BY <1>2 DEF Quiet, Submits, vars, queueVars, listVars, hostVars, gpuVars
  <2>2. Steady
    BY <2>1, QuietSteady
  <2> QED
    BY <1>1, <2>1, <2>2
<1>3. ASSUME NEW l \in Lists, Open(l)
      PROVE  AnswersInv'
  BY <1>1, <1>3, OpenSteady DEF hostVars
<1>4. ASSUME NEW l \in Lists, Close(l)
      PROVE  AnswersInv'
  <2>1. Quiet /\ UNCHANGED <<refs, use, before, fenceEvent, answered, call>>
    BY <1>4, CloseQuiet DEF Close, hostVars
  <2>2. Steady
    BY <2>1, QuietSteady
  <2> QED
    BY <1>1, <2>1, <2>2
<1>5. ASSUME NEW l \in Lists, NEW r \in Resources, Record(l, r)
      PROVE  AnswersInv'
  <2>1. Quiet /\ UNCHANGED <<use, before, fenceEvent, answered, call>>
    BY <1>5, RecordQuiet DEF Record, hostVars
  <2>2. \A k \in Lists : phase[k] = "submitted" => refs'[k] = refs[k]
    BY <1>5 DEF Record, QueueInv, Types, TypeOK
  <2>3. Steady
    BY <2>1, <2>2, QuietSteady
  <2> QED
    BY <1>1, <2>1, <2>3
<1>6. ASSUME NEW t \in Threads, Count(t) \/ Signal(t)
      PROVE  AnswersInv'
  BY <1>1, <1>6, CountSteady, SignalSteady DEF hostVars
<1>7. ASSUME NEW t \in Threads, Executed(t) \/ Woken(t) \/ \E ls \in Batches : ExecuteCommandLists(t, ls)
      PROVE  AnswersInv'
  BY <1>7, ExecutedAnswers, WokenAnswers, ExecuteAnswers
<1>8. ASSUME NEW t \in Threads, NEW x \in Waitable, Answer(t, x) \/ WaitForFence(t, x)
      PROVE  AnswersInv'
  BY <1>8, AnswerAnswers, WaitAnswers
<1>9. ASSUME NEW tr \in Trackers, RunGarbageCollection(tr)
      PROVE  AnswersInv'
  <2>1. Quiet /\ UNCHANGED <<refs, use, before, fenceEvent, answered, call>>
    BY <1>9, GCQuiet DEF RunGarbageCollection, hostVars, listVars
  <2>2. Steady
    BY <2>1, QuietSteady
  <2> QED
    BY <1>1, <2>1, <2>2
<1>10. ASSUME NEW q \in Queues, NEW p \in Queues, QueueWaitForCommandList(q, p)
       PROVE  AnswersInv'
  BY <1>1, <1>10, QueueWaitSteady DEF hostVars
<1>11. ASSUME NEW q \in Queues, ExecuteOperation(q) \/ \E e \in Events : SetEventQuery(e, q)
       PROVE  AnswersInv'
  BY <1>11, GpuAnswers, SetEventAnswers
<1>12. ASSUME NEW e \in Events, ResetEventQuery(e)
       PROVE  AnswersInv'
  BY <1>12, ResetEventAnswers
<1>13. ASSUME NEW b \in Staging, Unmap(b)
       PROVE  AnswersInv'
  <2>1. /\ Quiet /\ UNCHANGED <<refs, use, before, fenceEvent, call>>
        /\ answered' = answered \ {b}
    BY <1>13, UnmapQuiet DEF Unmap, listVars
  <2>2. Steady
    BY <2>1, QuietSteady
  <2> QED
    BY <2>1, <2>2, SteadyAnswers
<1>14. ASSUME NEW r \in Resources, ReleaseHandle(r)
       PROVE  AnswersInv'
  <2>1. Quiet /\ UNCHANGED <<refs, use, before, fenceEvent, answered, call>>
    BY <1>14, ReleaseQuiet DEF ReleaseHandle, listVars
  <2>2. Steady
    BY <2>1, QuietSteady
  <2> QED
    BY <1>1, <2>1, <2>2
<1>15. CASE Next
  <2>1. \/ \E l \in Lists : Open(l)
        \/ \E l \in Lists : Close(l)
        \/ \E l \in Lists : \E r \in Resources : Record(l, r)
        \/ \E t \in Threads : Count(t) \/ Signal(t)
        \/ \E t \in Threads : Executed(t) \/ Woken(t) \/ \E ls \in Batches : ExecuteCommandLists(t, ls)
        \/ \E t \in Threads : \E x \in Waitable : Answer(t, x) \/ WaitForFence(t, x)
        \/ \E tr \in Trackers : RunGarbageCollection(tr)
        \/ \E q \in Queues : \E p \in Queues : QueueWaitForCommandList(q, p)
        \/ \E q \in Queues : ExecuteOperation(q) \/ \E e \in Events : SetEventQuery(e, q)
        \/ \E e \in Events : ResetEventQuery(e)
        \/ \E b \in Staging : Unmap(b)
        \/ \E r \in Resources : ReleaseHandle(r)
    BY <1>15 DEF Next, Continue
  <2> QED
    BY <1>3, <1>4, <1>5, <1>6, <1>7, <1>8, <1>9, <1>10, <1>11, <1>12, <1>13, <1>14, <2>1
<1> QED
  BY <1>2, <1>15

LEMMA AnswersInvariant ==
  ASSUME D3D12QueueAssumption, {"WaitsConcurrently", "SharesQueues"} \subseteq Avoided
  PROVE  Spec => []AnswersInv
<1>1. Init => AnswersInv
  BY AnswersInit
<1>2. QueueInv /\ QueueInv' /\ AnswersInv /\ [Next]_vars => AnswersInv'
  BY AnswersInvNext
<1> QED
  BY <1>1, <1>2, QueueInvariant, PTL DEF Spec

LEMMA InvariantAnswers ==
  ASSUME D3D12QueueAssumption, QueueInv, AnswersInv
  PROVE  AnswersFinal
<1>1. ASSUME NEW q \in Queues, NEW op \in Pending(q), NEW x \in op.used, x \in answered, x \in Staging \cup Timers
      PROVE  FALSE
  <2>1. PICK i \in DOMAIN gpu[q] : op = gpu[q][i] /\ IsSubmission(gpu[q][i])
    BY DEF Pending, ToSet
  <2> QED
    BY <1>1, <2>1 DEF AnswersInv, UsesOK, Answerable
<1>2. \A e \in Events : e \in answered => before[e] \subseteq 1..executedOps[use[e].queue]
  BY DEF AnswersInv, EventsOK, EventOK
<1> QED
  BY <1>1, <1>2 DEF AnswersFinal

\* What a map, a poll or a timer query returned stays so, when no two threads wait at
\* once and no staging resource or query is used by two queues at once.
THEOREM AnswersStayFinal ==
  ASSUME D3D12QueueAssumption, {"WaitsConcurrently", "SharesQueues"} \subseteq Avoided
  PROVE  Spec => []AnswersFinal
<1>1. QueueInv /\ AnswersInv => AnswersFinal
  BY InvariantAnswers
<1> QED
  BY <1>1, QueueInvariant, AnswersInvariant, PTL

-----------------------------------------------------------------------------
(* The queue implements ResourceLifetime.                                   *)

\* Submissions keep what they use, when what a tracker has yet to keep stays in flight.
LEMMA SteadyRefs ==
  ASSUME D3D12QueueAssumption, QueueInv, RefsOK, Steady,
         \A q \in Queues : \A i \in DOMAIN gpu[q] : IsSubmission(gpu[q][i]) =>
             \A r \in gpu[q][i].used \cap Lists : r \in held => r \in held',
         \A tr \in Trackers : \A k \in DOMAIN inFlight[tr] :
             lastCompletedInstance'[QueueOf[tr]] < inFlight[tr][k].instance =>
                 \E m \in DOMAIN inFlight'[tr] : inFlight'[tr][m] = inFlight[tr][k]
  PROVE  RefsOK'
<1> SUFFICES ASSUME NEW q \in Queues, NEW i \in DOMAIN gpu'[q], IsSubmission(gpu'[q][i]),
                    NEW r \in gpu'[q][i].used
             PROVE  \/ r \in Lists /\ r \in held'
                    \/ \E l \in Lists : r \in refs'[l] /\ Tells(q, gpu[q][i], l)'
                    \/ \E tr \in Trackers : QueueOf[tr] = q /\ \E k \in DOMAIN inFlight'[tr] :
                         /\ r \in inFlight'[tr][k].refs
                         /\ Late(gpu'[q], i, fence'[q], lastCompletedInstance'[q], inFlight'[tr][k].instance)
  BY DEF RefsOK
<1>1. PICK j \in DOMAIN gpu[q] :
        /\ gpu[q][j] = gpu'[q][i]
        /\ \A v : Late(gpu[q], j, fence[q], lastCompletedInstance[q], v) =>
                 Late(gpu'[q], i, fence'[q], lastCompletedInstance'[q], v)
  BY DEF Steady, Follows
<1>2. PICK o : o = gpu'[q][i]
  OBVIOUS
<1>3. IsSubmission(gpu[q][j]) /\ r \in gpu[q][j].used
  BY <1>1
<1>4. \/ r \in Lists /\ r \in held
      \/ \E l \in Lists : r \in refs[l] /\ Tells(q, o, l)
      \/ \E tr \in Trackers : QueueOf[tr] = q /\ \E k \in DOMAIN inFlight[tr] :
           /\ r \in inFlight[tr][k].refs
           /\ Late(gpu[q], j, fence[q], lastCompletedInstance[q], inFlight[tr][k].instance)
  BY <1>1, <1>2, <1>3 DEF RefsOK
<1>5. CASE r \in Lists /\ r \in held
  BY <1>3, <1>5
<1>6. CASE \E l \in Lists : r \in refs[l] /\ Tells(q, o, l)
  <2>1. PICK l \in Lists : r \in refs[l] /\ Tells(q, o, l)
    BY <1>6
  <2>2. Tells(q, o, l)' /\ refs'[l] = refs[l]
    BY <2>1 DEF Steady, Tells
  <2> QED
    BY <1>2, <2>1, <2>2
<1>7. CASE \E tr \in Trackers : QueueOf[tr] = q /\ \E k \in DOMAIN inFlight[tr] :
             /\ r \in inFlight[tr][k].refs
             /\ Late(gpu[q], j, fence[q], lastCompletedInstance[q], inFlight[tr][k].instance)
  <2>0. PICK tr \in Trackers : QueueOf[tr] = q /\ \E k \in DOMAIN inFlight[tr] :
          /\ r \in inFlight[tr][k].refs
          /\ Late(gpu[q], j, fence[q], lastCompletedInstance[q], inFlight[tr][k].instance)
    BY <1>7
  <2>1. PICK k \in DOMAIN inFlight[tr] :
          /\ QueueOf[tr] = q /\ r \in inFlight[tr][k].refs
          /\ Late(gpu[q], j, fence[q], lastCompletedInstance[q], inFlight[tr][k].instance)
    BY <2>0
  <2>2. Late(gpu'[q], i, fence'[q], lastCompletedInstance'[q], inFlight[tr][k].instance)
    BY <1>1, <2>1
  <2>3. PICK m \in DOMAIN inFlight'[tr] : inFlight'[tr][m] = inFlight[tr][k]
    BY <2>1, <2>2 DEF Late
  <2> QED
    BY <2>1, <2>2, <2>3
<1> QED
  BY <1>4, <1>5, <1>6, <1>7

\* Resources are alive when the application, a list or a tracker has them.
AliveFact == \A x : x \in Alive <=>
    \/ x \in held
    \/ \E l \in Lists : x \in refs[l]
    \/ \E tr \in Trackers : \E k \in DOMAIN inFlight[tr] : x \in inFlight[tr][k].refs

LEMMA AliveFacts == AliveFact /\ AliveFact'
<1>1. AliveFact
  <2>1. \A x : x \in UNION {refs[l] : l \in Lists} <=> \E l \in Lists : x \in refs[l]
    OBVIOUS
  <2>2. \A x, tr : x \in UNION {i.refs : i \in ToSet(inFlight[tr])} <=>
                     \E k \in DOMAIN inFlight[tr] : x \in inFlight[tr][k].refs
    BY DEF ToSet
  <2>3. \A x : x \in UNION {UNION {i.refs : i \in ToSet(inFlight[tr])} : tr \in Trackers} <=>
                 \E tr \in Trackers : x \in UNION {i.refs : i \in ToSet(inFlight[tr])}
    OBVIOUS
  <2>4. \A x : x \in Alive <=>
          \/ x \in held
          \/ x \in UNION {refs[l] : l \in Lists}
          \/ x \in UNION {UNION {i.refs : i \in ToSet(inFlight[tr])} : tr \in Trackers}
    BY DEF Alive
  <2> QED
    BY <2>1, <2>2, <2>3, <2>4 DEF AliveFact
<1>2. AliveFact'
  BY <1>1, PTL
<1> QED
  BY <1>1, <1>2

\* Nothing destroyed comes back, as references move from lists to trackers.
LEMMA AliveShrinks ==
  ASSUME held' \subseteq held, \A l \in Lists : refs'[l] \subseteq refs[l] \cup held,
         \A tr \in Trackers : \A k \in DOMAIN inFlight'[tr] :
             \/ \E m \in DOMAIN inFlight[tr] : inFlight'[tr][k] = inFlight[tr][m]
             \/ \E l \in Lists : inFlight'[tr][k].refs = refs[l]
  PROVE  Alive' \subseteq Alive
<1> SUFFICES ASSUME NEW x, x \in Alive'
             PROVE  x \in Alive
  OBVIOUS
<1>1. \/ x \in held'
      \/ \E l \in Lists : x \in refs'[l]
      \/ \E tr \in Trackers : \E k \in DOMAIN inFlight'[tr] : x \in inFlight'[tr][k].refs
  BY AliveFacts DEF AliveFact
<1>2. \/ x \in held
      \/ \E l \in Lists : x \in refs[l]
      \/ \E tr \in Trackers : \E k \in DOMAIN inFlight[tr] : x \in inFlight[tr][k].refs
  BY <1>1
<1> QED
  BY <1>2, AliveFacts DEF AliveFact

\* The submission of a number.
LEMMA SubmissionFacts ==
  ASSUME QueueInv, NEW q \in Queues
  PROVE  /\ \A n \in (executedOps[q] + 1)..submittedOps[q] :
              Submission(q, n) \in Pending(q) /\ Submission(q, n).index = n
         /\ \A op \in Pending(q) : op = Submission(q, op.index)
<1>1. ASSUME NEW a \in Pending(q), NEW b \in Pending(q), a.index = b.index
      PROVE  a = b
  <2>1. PICK i \in DOMAIN gpu[q] : a = gpu[q][i] /\ IsSubmission(gpu[q][i])
    BY DEF Pending, ToSet
  <2>2. PICK j \in DOMAIN gpu[q] : b = gpu[q][j] /\ IsSubmission(gpu[q][j])
    BY DEF Pending, ToSet
  <2>3. executedOps[q] \in Nat /\ submittedOps[q] \in Nat
    BY DEF QueueInv, Types, TypeOK
  <2>4. a.index \in Nat
    BY <2>1, <2>3 DEF QueueInv, OpsNumbered
  <2>5. ~(i < j) /\ ~(j < i)
    BY <1>1, <2>1, <2>2, <2>4 DEF QueueInv, OpsNumbered
  <2>6. i \in Nat /\ j \in Nat
    <3>1. gpu[q] \in Seq(GpuOp)
      BY DEF QueueInv, Types
    <3>2. DOMAIN gpu[q] = 1..Len(gpu[q]) /\ Len(gpu[q]) \in Nat
      BY <3>1
    <3> QED
      BY <3>2
  <2> QED
    BY <2>1, <2>2, <2>5, <2>6
<1>2. ASSUME NEW n \in (executedOps[q] + 1)..submittedOps[q]
      PROVE  Submission(q, n) \in Pending(q) /\ Submission(q, n).index = n
  <2>1. PICK i \in DOMAIN gpu[q] : IsSubmission(gpu[q][i]) /\ gpu[q][i].index = n
    BY DEF QueueInv, OpsNumbered
  <2>2. gpu[q][i] \in Pending(q)
    BY <2>1 DEF Pending, ToSet
  <2> QED
    BY <2>1, <2>2 DEF Submission
<1>3. ASSUME NEW op \in Pending(q)
      PROVE  op = Submission(q, op.index)
  <2>1. Submission(q, op.index) \in Pending(q) /\ Submission(q, op.index).index = op.index
    BY DEF Submission
  <2> QED
    BY <1>1, <2>1
<1> QED
  BY <1>2, <1>3

\* What a list being recorded uses, and what the submissions of a queue use in turn.
RecordingOf(l) == IF phase[l] \in {"open", "closed"} THEN UsedBy(l) ELSE {}
ExecutingOf(q) == [i \in 1..(submittedOps[q] - executedOps[q]) |-> Submission(q, executedOps[q] + i).used]

LEMMA MapFacts ==
  /\ Recording = [l \in Lists |-> RecordingOf(l)] /\ Recording' = [l \in Lists |-> RecordingOf(l)']
  /\ Executing = [q \in Queues |-> ExecutingOf(q)] /\ Executing' = [q \in Queues |-> ExecutingOf(q)']
BY DEF Recording, Executing, RecordingOf, ExecutingOf

\* What ResourceLifetime takes for used is alive.
LEMMA UsedIsAlive ==
  ASSUME D3D12QueueAssumption, QueueInv, RefsOK, HeldOK
  PROVE  Lifetime!InUse \subseteq Alive
<1>1. held \subseteq Alive
  BY AliveFacts DEF AliveFact
<1>2. ASSUME NEW l \in Lists PROVE Recording[l] \subseteq Alive
  <2>1. Recording[l] \subseteq {l} \cup refs[l] /\ (phase[l] = "idle" => Recording[l] = {})
    BY DEF Recording, UsedBy
  <2>2. phase[l] # "idle" => l \in held
    BY DEF HeldOK
  <2>3. refs[l] \subseteq Alive
    BY AliveFacts DEF AliveFact
  <2> QED
    BY <1>1, <2>1, <2>2, <2>3
<1>3. ASSUME NEW q \in Queues, NEW x \in Lifetime!Elements(Executing[q]) PROVE x \subseteq Alive
  <2>1. executedOps[q] \in Nat /\ submittedOps[q] \in Nat
    BY DEF QueueInv, Types, TypeOK
  <2>2. PICK i \in 1..(submittedOps[q] - executedOps[q]) : x = Submission(q, executedOps[q] + i).used
    BY <1>3, <2>1 DEF Executing, Lifetime!Elements
  <2>3. executedOps[q] + i \in (executedOps[q] + 1)..submittedOps[q]
    BY <2>1, <2>2
  <2>4. PICK op : op = Submission(q, executedOps[q] + i) /\ op \in Pending(q)
    BY <2>3, SubmissionFacts
  <2>5. PICK j \in DOMAIN gpu[q] : op = gpu[q][j] /\ IsSubmission(gpu[q][j])
    BY <2>4 DEF Pending, ToSet
  <2>6. ASSUME NEW r \in x PROVE r \in Alive
    <3>1. \/ r \in Lists /\ r \in held
          \/ \E l \in Lists : r \in refs[l]
          \/ \E tr \in Trackers : \E k \in DOMAIN inFlight[tr] : r \in inFlight[tr][k].refs
      BY <2>2, <2>4, <2>5, <2>6 DEF RefsOK
    <3> QED
      BY <3>1, AliveFacts DEF AliveFact
  <2> QED
    BY <2>6
<1> QED
  BY <1>1, <1>2, <1>3 DEF Lifetime!InUse

\* ... after a step too.
LEMMA UsedStaysAlive ==
  ASSUME D3D12QueueAssumption
  PROVE  QueueInv' /\ RefsOK' /\ HeldOK' => Lifetime!InUse' \subseteq Alive'
<1>1. QueueInv /\ RefsOK /\ HeldOK => Lifetime!InUse \subseteq Alive
  BY UsedIsAlive
<1>2. (QueueInv /\ RefsOK /\ HeldOK => Lifetime!InUse \subseteq Alive)'
  BY <1>1, PTL
<1> QED
  BY <1>2

\* Nothing in use is destroyed, and nothing destroyed comes back.
RefsKept == RefsOK' /\ HeldOK' /\ Alive' \subseteq Alive

\* A step that drops no handle and collects nothing.
LEMMA StillRefs ==
  ASSUME D3D12QueueAssumption, QueueInv, RefsOK, HeldOK, Steady, UNCHANGED <<held, inFlight>>,
         \A l \in Lists : refs'[l] \subseteq refs[l] \cup held,
         \A l \in Lists : phase'[l] # "idle" => phase[l] # "idle" \/ l \in held
  PROVE  RefsKept
<1>1. \A tr \in Trackers : \A k \in DOMAIN inFlight'[tr] :
        \E m \in DOMAIN inFlight[tr] : inFlight'[tr][k] = inFlight[tr][m]
  OBVIOUS
<1>2. \A tr \in Trackers : \A k \in DOMAIN inFlight[tr] :
        \E m \in DOMAIN inFlight'[tr] : inFlight'[tr][m] = inFlight[tr][k]
  OBVIOUS
<1>3. Alive' \subseteq Alive
  BY <1>1, AliveShrinks
<1>4. RefsOK'
  BY <1>2, SteadyRefs
<1>5. HeldOK'
  BY DEF HeldOK
<1> QED
  BY <1>3, <1>4, <1>5 DEF RefsKept

\* Lists in use are not given up.
LEMMA ReleaseRefs ==
  ASSUME D3D12QueueAssumption, "ReleasesLists" \in Avoided, QueueInv, RefsOK, HeldOK,
         NEW x \in Resources, ReleaseHandle(x)
  PROVE  RefsKept
<1>1. /\ held' = held \ {x} /\ UNCHANGED <<inFlight, refs, phase, lastCompletedInstance>>
      /\ x \in Lists => phase[x] = "idle" /\ \A q \in Queues : \A op \in Pending(q) : x \notin op.used
  BY DEF ReleaseHandle, Avoids, listVars, queueVars
<1>2. Steady
  BY <1>1, ReleaseQuiet, QuietSteady
<1>3. ASSUME NEW q \in Queues, NEW i \in DOMAIN gpu[q], IsSubmission(gpu[q][i]), NEW r \in gpu[q][i].used \cap Lists,
             r \in held
      PROVE  r \in held'
  <2>1. gpu[q][i] \in Pending(q)
    BY <1>3 DEF Pending, ToSet
  <2> QED
    BY <1>1, <1>3, <2>1
<1>4. \A tr \in Trackers : \A k \in DOMAIN inFlight[tr] :
        \E m \in DOMAIN inFlight'[tr] : inFlight'[tr][m] = inFlight[tr][k]
  BY <1>1
<1>5. RefsOK'
  BY <1>2, <1>3, <1>4, SteadyRefs
<1>6. Alive' \subseteq Alive
  <2>1. \A tr \in Trackers : \A k \in DOMAIN inFlight'[tr] :
          \E m \in DOMAIN inFlight[tr] : inFlight'[tr][k] = inFlight[tr][m]
    BY <1>1
  <2>2. held' \subseteq held /\ \A l \in Lists : refs'[l] \subseteq refs[l] \cup held
    BY <1>1
  <2> QED
    BY <2>1, <2>2, AliveShrinks
<1>7. HeldOK'
  BY <1>1 DEF HeldOK
<1> QED
  BY <1>5, <1>6, <1>7 DEF RefsKept

\* What is collected has been finished.
LEMMA GCRefs ==
  ASSUME D3D12QueueAssumption, QueueInv, RefsOK, HeldOK, NEW tr \in Trackers, RunGarbageCollection(tr)
  PROVE  RefsKept
<1>1. PICK q \in Queues : q = QueueOf[tr]
  BY DEF D3D12QueueAssumption
<1>2. PICK c \in Nat : c = Completed(q)
  BY CompletedFacts
<1>3. PICK n : n = FirstUnfinished(tr, c)
  OBVIOUS
<1>4. PICK s \in Seq([instance : Nat, refs : SUBSET Resources]) : s = inFlight[tr]
  BY DEF QueueInv, Types, TypeOK
<1>5. /\ inFlight' = [inFlight EXCEPT ![tr] = IF n = 0 THEN <<>> ELSE SubSeq(s, n, Len(s))]
      /\ lastCompletedInstance' = [lastCompletedInstance EXCEPT ![q] = c]
      /\ UNCHANGED <<refs, phase, held>>
  BY <1>1, <1>2, <1>3, <1>4 DEF RunGarbageCollection, listVars, hostVars
<1>6. lastCompletedInstance'[q] = c
  BY <1>5 DEF QueueInv, Types, TypeOK
<1>7. /\ n = 0 => \A k \in DOMAIN s : s[k].instance <= c
      /\ n # 0 => n \in DOMAIN s /\ \A k \in DOMAIN s : k < n => s[k].instance <= c
  BY <1>3, <1>4, FirstUnfinishedFacts DEF QueueInv
<1>8. PICK w : w = IF n = 0 THEN <<>> ELSE SubSeq(s, n, Len(s))
  OBVIOUS
<1>9. inFlight'[tr] = w /\ \A k \in Trackers \ {tr} : inFlight'[k] = inFlight[k]
  BY <1>5, <1>8 DEF QueueInv, Types, TypeOK
<1>10. \A k \in DOMAIN w : \E m \in DOMAIN s : w[k] = s[m]
  <2>1. CASE n = 0
    BY <1>8, <2>1
  <2>2. CASE n # 0
    <3>1. n \in 1..Len(s) /\ Len(s) \in Nat
      BY <1>4, <1>7, <2>2
    <3>2. DOMAIN w = 1..(Len(s) - n + 1) /\ \A k \in 1..(Len(s) - n + 1) : w[k] = s[n + k - 1]
      BY <1>8, <2>2, <3>1
    <3>3. \A k \in 1..(Len(s) - n + 1) : n + k - 1 \in 1..Len(s)
      BY <3>1
    <3>4. DOMAIN s = 1..Len(s)
      BY <1>4
    <3> QED
      BY <3>2, <3>3, <3>4
  <2> QED
    BY <2>1, <2>2
<1>11. \A k \in DOMAIN s : c < s[k].instance => \E m \in DOMAIN w : w[m] = s[k]
  <2> SUFFICES ASSUME NEW k \in DOMAIN s, c < s[k].instance
               PROVE  \E m \in DOMAIN w : w[m] = s[k]
    OBVIOUS
  <2>1. s[k].instance \in Nat
    <3>1. \A R : \A e \in Seq(R) : \A j \in DOMAIN e : e[j] \in R
      OBVIOUS
    <3>2. s[k] \in [instance : Nat, refs : SUBSET Resources]
      BY <1>4, <3>1
    <3> QED
      BY <3>2
  <2>2. n # 0 /\ ~(k < n)
    BY <1>7, <2>1
  <2>3. n \in 1..Len(s) /\ Len(s) \in Nat /\ k \in 1..Len(s) /\ n <= k
    BY <1>4, <1>7, <2>2
  <2>4. DOMAIN w = 1..(Len(s) - n + 1) /\ \A j \in 1..(Len(s) - n + 1) : w[j] = s[n + j - 1]
    BY <1>8, <2>2, <2>3
  <2>5. k - n + 1 \in 1..(Len(s) - n + 1) /\ n + (k - n + 1) - 1 = k
    BY <2>3, SMTT(30)
  <2> QED
    BY <2>4, <2>5
<1>12. Steady
  BY <1>5, GCQuiet, QuietSteady
<1>13. \A u \in Trackers : \A k \in DOMAIN inFlight[u] :
         lastCompletedInstance'[QueueOf[u]] < inFlight[u][k].instance =>
             \E m \in DOMAIN inFlight'[u] : inFlight'[u][m] = inFlight[u][k]
  <2> SUFFICES ASSUME NEW u \in Trackers, NEW k \in DOMAIN inFlight[u],
                      lastCompletedInstance'[QueueOf[u]] < inFlight[u][k].instance
               PROVE  \E m \in DOMAIN inFlight'[u] : inFlight'[u][m] = inFlight[u][k]
    OBVIOUS
  <2>1. CASE u = tr
    <3>1. k \in DOMAIN s /\ inFlight[u][k] = s[k] /\ c < s[k].instance
      BY <1>1, <1>4, <1>6, <2>1
    <3>2. PICK m \in DOMAIN w : w[m] = s[k]
      BY <1>11, <3>1
    <3> QED
      BY <1>9, <2>1, <3>1, <3>2
  <2>2. CASE u # tr
    BY <1>9, <2>2
  <2> QED
    BY <2>1, <2>2
<1>14. \A u \in Trackers : \A k \in DOMAIN inFlight'[u] :
         \E m \in DOMAIN inFlight[u] : inFlight'[u][k] = inFlight[u][m]
  BY <1>4, <1>9, <1>10
<1>15. RefsOK'
  BY <1>5, <1>12, <1>13, SteadyRefs
<1>16. Alive' \subseteq Alive
  BY <1>5, <1>14, AliveShrinks
<1>17. HeldOK'
  BY <1>5 DEF HeldOK
<1> QED
  BY <1>15, <1>16, <1>17 DEF RefsKept

\* The call keeps what the lists use until it tells them, the application the lists.
LEMMA ExecuteRefs ==
  ASSUME D3D12QueueAssumption, QueueInv, RefsOK, HeldOK,
         NEW t \in Threads, NEW ls \in Batches, ExecuteCommandLists(t, ls)
  PROVE  RefsKept
<1>1. PICK q \in Queues, o \in SubmissionOp, d \in CountCall :
           /\ call[t] = Idle /\ ~Submits(t)
           /\ ls \in Seq(Lists) /\ ls # <<>> /\ IsInjective(ls) /\ ToSet(ls) \subseteq Lists
           /\ \A l \in ToSet(ls) : phase[l] = "closed" /\ l \in held /\ ThreadOf[l] = t /\ QueueOf[l] = q
           /\ o.index = submittedOps[q] + 1
           /\ o.used = UNION {UsedBy(l) : l \in ToSet(ls)} /\ o.cmds = {active[l] : l \in ToSet(ls)}
           /\ d.op = "count" /\ d.queue = q /\ d.todo = ls /\ d.index = submittedOps[q] + 1
           /\ o.used \cap answered \cap Staging = {}
           /\ \A u \in Threads : call[u].op = "wait" => call[u].for \notin o.used
           /\ "SharesQueues" \in Avoided => o.used \cap Waitable \cap UsedElsewhere(q) = {}
           /\ ExecuteStepOf(t, q, ls, o, d)
  BY ExecuteFacts
<1>2. /\ gpu' = [gpu EXCEPT ![q] = Append(@, o)]
      /\ phase' = [l \in Lists |-> IF l \in ToSet(ls) THEN "submitted" ELSE phase[l]]
      /\ call' = [call EXCEPT ![t] = d]
      /\ UNCHANGED <<lastCompletedInstance, refs, inFlight, held, fence>>
  BY <1>1 DEF ExecuteStepOf, queueVars
<1>3. call'[t] = d /\ \A u \in Threads \ {t} : call'[u] = call[u]
  BY <1>2 DEF QueueInv, Types
<1>4. gpu \in [Queues -> Seq(GpuOp)] /\ o \in GpuOp
  BY DEF QueueInv, Types, GpuOp
<1>5. ASSUME NEW p \in Queues, NEW i \in DOMAIN gpu'[p]
      PROVE  \/ p = q /\ gpu'[p][i] = o
             \/ /\ i \in DOMAIN gpu[p] /\ gpu'[p][i] = gpu[p][i]
                /\ \A a, b, v : Late(gpu'[p], i, a, b, v) <=> Late(gpu[p], i, a, b, v)
  <2>1. CASE p = q
    BY <1>2, <1>4, <2>1, AppendFacts DEF Late
  <2>2. CASE p # q
    BY <1>2, <1>4, <2>2
  <2> QED
    BY <2>1, <2>2
<1>6. \A p \in Queues, l \in Lists : \A op : Tells(p, op, l) => Tells(p, op, l)'
  <2>1. \A u \in Threads : Submits(u) => Submits(u)' /\ call'[u] = call[u]
    BY <1>1, <1>3 DEF Submits
  <2>2. \A l \in Lists : phase[l] = "submitted" => phase'[l] = "submitted"
    BY <1>2
  <2> QED
    BY <2>1, <2>2, TellsStay
<1>7. \A l \in ToSet(ls) : Tells(q, o, l)'
  <2>1. \A l \in ToSet(ls) : l \in Lists /\ phase'[l] = "submitted" /\ ThreadOf[l] = t
    BY <1>1, <1>2
  <2>2. Submits(t)' /\ call'[t].todo = ls /\ call'[t].queue = q /\ call'[t].index = o.index
    BY <1>1, <1>3 DEF Submits
  <2> QED
    BY <2>1, <2>2 DEF Tells
<1>8. RefsOK'
  <2> SUFFICES ASSUME NEW p \in Queues, NEW i \in DOMAIN gpu'[p], IsSubmission(gpu'[p][i]),
                      NEW r \in gpu'[p][i].used
               PROVE  \/ r \in Lists /\ r \in held'
                      \/ \E l \in Lists : r \in refs'[l] /\ Tells(p, gpu[p][i], l)'
                      \/ \E tr \in Trackers : QueueOf[tr] = p /\ \E k \in DOMAIN inFlight'[tr] :
                           /\ r \in inFlight'[tr][k].refs
                           /\ Late(gpu'[p], i, fence'[p], lastCompletedInstance'[p], inFlight'[tr][k].instance)
    BY DEF RefsOK
  <2>1. PICK op : op = gpu'[p][i]
    OBVIOUS
  <2>2. CASE p = q /\ op = o
    <3>1. PICK l \in ToSet(ls) : r \in UsedBy(l)
      BY <1>1, <2>1, <2>2
    <3>2. l \in Lists /\ l \in held
      BY <1>1
    <3>3. CASE r = l
      BY <1>2, <3>2, <3>3
    <3>4. CASE r \in refs[l]
      <4>1. Tells(p, op, l)'
        BY <1>7, <2>2
      <4> QED
        BY <1>2, <2>1, <3>2, <3>4, <4>1
    <3> QED
      BY <3>1, <3>3, <3>4 DEF UsedBy
  <2>3. CASE /\ i \in DOMAIN gpu[p] /\ gpu'[p][i] = gpu[p][i]
             /\ \A a, b, v : Late(gpu'[p], i, a, b, v) <=> Late(gpu[p], i, a, b, v)
    <3>1. \/ r \in Lists /\ r \in held
          \/ \E l \in Lists : r \in refs[l] /\ Tells(p, op, l)
          \/ \E tr \in Trackers : QueueOf[tr] = p /\ \E k \in DOMAIN inFlight[tr] :
               /\ r \in inFlight[tr][k].refs
               /\ Late(gpu[p], i, fence[p], lastCompletedInstance[p], inFlight[tr][k].instance)
      BY <2>1, <2>3 DEF RefsOK
    <3> QED
      BY <1>2, <1>6, <2>1, <2>3, <3>1
  <2> QED
    BY <1>5, <2>1, <2>2, <2>3
<1>9. Alive' \subseteq Alive
  <2>1. \A tr \in Trackers : \A k \in DOMAIN inFlight'[tr] :
          \E m \in DOMAIN inFlight[tr] : inFlight'[tr][k] = inFlight[tr][m]
    BY <1>2
  <2> QED
    BY <1>2, <2>1, AliveShrinks
<1>10. HeldOK'
  BY <1>1, <1>2 DEF HeldOK
<1> QED
  BY <1>8, <1>9, <1>10 DEF RefsKept

\* What a call has told is kept by a tracker under the last value, which is later.
LEMMA ExecutedRefs ==
  ASSUME D3D12QueueAssumption, QueueInv, RefsOK, HeldOK, NEW t \in Threads, Executed(t)
  PROVE  RefsKept
<1>1. PICK q \in Queues, l \in Lists, c \in InternalLists, n \in Nat, todo \in Seq(Lists) :
           /\ call[t].op = "executed" /\ Submits(t) /\ call[t] \in SignalCall
           /\ q = call[t].queue /\ n = lastSubmittedInstance[q] /\ c = active[l] /\ c[1] = l
           /\ ThreadOf[l] = t /\ QueueOf[l] = q /\ phase[l] = "submitted"
           /\ ToSet(call[t].todo) = ToSet(todo) \cup {l} /\ l \notin ToSet(todo)
           /\ ToSet(todo) \subseteq Lists /\ IsInjective(todo)
           /\ ExecutedStepOf(t, q, l, c, n, todo)
  BY ExecutedFacts
<1>2. PICK mine \in Trackers : mine = TrackerOf[l] /\ QueueOf[mine] = q
  BY <1>1 DEF D3D12QueueAssumption
<1>3. PICK e : e = [instance |-> n, refs |-> refs[l]]
  OBVIOUS
<1>4. /\ UNCHANGED <<lastCompletedInstance, gpu, fence, held>>
      /\ phase'[l] = "idle" /\ \A k \in Lists \ {l} : phase'[k] = phase[k]
      /\ refs'[l] = {} /\ \A k \in Lists \ {l} : refs'[k] = refs[k]
      /\ inFlight' = [inFlight EXCEPT ![mine] = Append(@, e)]
      /\ call'[t] = (IF todo = <<>> THEN Idle ELSE [call[t] EXCEPT !.todo = todo])
      /\ \A u \in Threads \ {t} : call'[u] = call[u]
  BY <1>1, <1>2, <1>3 DEF ExecutedStepOf, QueueInv, Types, TypeOK, queueVars, gpuVars
<1>5. /\ todo = <<>> => ~Submits(t)'
      /\ todo # <<>> => /\ Submits(t)' /\ call'[t].queue = q
                        /\ call'[t].index = call[t].index /\ call'[t].todo = todo
  BY <1>1, <1>4 DEF Submits, Idle, SignalCall
<1>6. \A u \in Threads \ {t} : Submits(u)' <=> Submits(u)
  BY <1>4 DEF Submits
<1>7. ToSet(todo) # {} => todo # <<>>
  BY DEF ToSet
<1>8. ASSUME NEW p \in Queues, NEW k \in Lists \ {l}, NEW op, Tells(p, op, k)
      PROVE  Tells(p, op, k)'
  <2>1. ThreadOf[k] \in Threads
    BY DEF D3D12QueueAssumption
  <2>2. CASE ThreadOf[k] # t
    BY <1>4, <1>6, <1>8, <2>1, <2>2 DEF Tells
  <2>3. CASE ThreadOf[k] = t
    BY <1>1, <1>4, <1>5, <1>7, <1>8, <2>3 DEF Tells
  <2> QED
    BY <2>2, <2>3
<1>9. /\ \A tr \in Trackers : \A k \in DOMAIN inFlight[tr] :
           k \in DOMAIN inFlight'[tr] /\ inFlight'[tr][k] = inFlight[tr][k]
      /\ \E k \in DOMAIN inFlight'[mine] : inFlight'[mine][k] = e
      /\ \A tr \in Trackers : \A k \in DOMAIN inFlight'[tr] :
           \/ k \in DOMAIN inFlight[tr] /\ inFlight'[tr][k] = inFlight[tr][k]
           \/ inFlight'[tr][k] = e
  <2> DEFINE R == [instance : Nat, refs : SUBSET Resources]
  <2>1. inFlight \in [Trackers -> Seq(R)] /\ e \in R
    BY <1>3 DEF QueueInv, Types, TypeOK
  <2> HIDE DEF R
  <2>2. \A S : \A s \in Seq(S) : \A x \in S :
          /\ \A k \in DOMAIN s : k \in DOMAIN Append(s, x) /\ Append(s, x)[k] = s[k]
          /\ Len(s) + 1 \in DOMAIN Append(s, x) /\ Append(s, x)[Len(s) + 1] = x
          /\ \A k \in DOMAIN Append(s, x) : (k \in DOMAIN s /\ Append(s, x)[k] = s[k]) \/ Append(s, x)[k] = x
    OBVIOUS
  <2>3. PICK s \in Seq(R) : s = inFlight[mine]
    BY <2>1
  <2>4. PICK w : w = Append(s, e)
    OBVIOUS
  <2>5. /\ \A k \in DOMAIN s : k \in DOMAIN w /\ w[k] = s[k]
        /\ \E k \in DOMAIN w : w[k] = e
        /\ \A k \in DOMAIN w : (k \in DOMAIN s /\ w[k] = s[k]) \/ w[k] = e
    BY <2>1, <2>2, <2>3, <2>4
  <2>6. inFlight' = [inFlight EXCEPT ![mine] = w]
    BY <1>4, <2>3, <2>4
  <2>7. inFlight'[mine] = w /\ \A tr \in Trackers \ {mine} : inFlight'[tr] = inFlight[tr]
    BY <2>1, <2>6
  <2> QED
    BY <2>3, <2>5, <2>7
<1>10. RefsOK'
  <2> SUFFICES ASSUME NEW p \in Queues, NEW i \in DOMAIN gpu[p], IsSubmission(gpu[p][i]),
                      NEW r \in gpu[p][i].used
               PROVE  \/ r \in Lists /\ r \in held
                      \/ \E k \in Lists : r \in refs'[k] /\ Tells(p, gpu[p][i], k)'
                      \/ \E tr \in Trackers : QueueOf[tr] = p /\ \E k \in DOMAIN inFlight'[tr] :
                           /\ r \in inFlight'[tr][k].refs
                           /\ Late(gpu[p], i, fence[p], lastCompletedInstance[p], inFlight'[tr][k].instance)
    <3> SUFFICES ASSUME NEW p \in Queues, NEW i \in DOMAIN gpu'[p], IsSubmission(gpu'[p][i]),
                        NEW r \in gpu'[p][i].used
                 PROVE  \/ r \in Lists /\ r \in held'
                        \/ \E k \in Lists : r \in refs'[k] /\ Tells(p, gpu[p][i], k)'
                        \/ \E tr \in Trackers : QueueOf[tr] = p /\ \E k \in DOMAIN inFlight'[tr] :
                             /\ r \in inFlight'[tr][k].refs
                             /\ Late(gpu'[p], i, fence'[p], lastCompletedInstance'[p], inFlight'[tr][k].instance)
      BY DEF RefsOK
    <3>1. gpu' = gpu /\ fence' = fence /\ lastCompletedInstance' = lastCompletedInstance /\ held' = held
      BY <1>4
    <3> QED
      BY <3>1
  <2>1. PICK op : op = gpu[p][i] /\ op = gpu'[p][i]
    BY <1>4
  <2>2. \/ r \in Lists /\ r \in held
        \/ \E k \in Lists : r \in refs[k] /\ Tells(p, op, k)
        \/ \E tr \in Trackers : QueueOf[tr] = p /\ \E k \in DOMAIN inFlight[tr] :
             /\ r \in inFlight[tr][k].refs
             /\ Late(gpu[p], i, fence[p], lastCompletedInstance[p], inFlight[tr][k].instance)
    <3>1. \/ r \in Lists /\ r \in held
          \/ \E k \in Lists : r \in refs[k] /\ Tells(p, gpu[p][i], k)
          \/ \E tr \in Trackers : QueueOf[tr] = p /\ \E k \in DOMAIN inFlight[tr] :
               /\ r \in inFlight[tr][k].refs
               /\ Late(gpu[p], i, fence[p], lastCompletedInstance[p], inFlight[tr][k].instance)
      BY DEF RefsOK
    <3> QED
      BY <2>1, <3>1
  <2>3. ASSUME NEW k \in Lists \ {l}, r \in refs[k], Tells(p, op, k)
        PROVE  r \in refs'[k] /\ Tells(p, gpu[p][i], k)'
    <3>1. Tells(p, op, k)'
      BY <1>8, <2>3
    <3> QED
      BY <1>4, <2>1, <2>3, <3>1
  <2>4. CASE r \in refs[l] /\ Tells(p, op, l)
    <3>1. p = q /\ op.index = call[t].index
      BY <1>1, <2>4 DEF Tells
    <3>2. ~\E u \in Threads : call[u].op = "count" /\ call[u].queue = q /\ call[u].index = op.index
      BY <1>1, <3>1 DEF QueueInv, CallsOK, Submits
    <3>3. Late(gpu[q], i, fence[q], lastCompletedInstance[q], n)
      <4>1. IsSubmission(gpu[q][i]) /\ gpu[q][i].index = op.index /\ i \in DOMAIN gpu[q]
        BY <2>1, <3>1
      <4>2. Late(gpu[q], i, fence[q], lastCompletedInstance[q], lastSubmittedInstance[q])
        BY <3>2, <4>1 DEF QueueInv, CountedOK
      <4> QED
        BY <1>1, <4>2
    <3>4. e.instance = n /\ r \in e.refs
      BY <1>3, <2>4
    <3> QED
      BY <1>2, <1>9, <3>1, <3>3, <3>4
  <2>5. CASE \E tr \in Trackers : QueueOf[tr] = p /\ \E k \in DOMAIN inFlight[tr] :
               /\ r \in inFlight[tr][k].refs
               /\ Late(gpu[p], i, fence[p], lastCompletedInstance[p], inFlight[tr][k].instance)
    BY <1>9, <2>5
  <2> QED
    BY <2>2, <2>3, <2>4, <2>5
<1>11. Alive' \subseteq Alive
  <2>1. \A k \in Lists : refs'[k] \subseteq refs[k] \cup held
    BY <1>4
  <2>2. e.refs = refs[l] /\ l \in Lists
    BY <1>3
  <2> QED
    BY <1>4, <1>9, <2>1, <2>2, AliveShrinks
<1>12. HeldOK'
  BY <1>4 DEF HeldOK
<1> QED
  BY <1>10, <1>11, <1>12 DEF RefsKept

\* Every step keeps what is in use.
LEMMA RefsNext ==
  ASSUME D3D12QueueAssumption, "ReleasesLists" \in Avoided, QueueInv, RefsOK, HeldOK, [Next]_vars
  PROVE  RefsKept
<1>1. ASSUME Steady, UNCHANGED <<held, inFlight, refs, phase>>
      PROVE  RefsKept
  BY <1>1, StillRefs
<1>2. CASE UNCHANGED vars
  <2>1. Quiet /\ UNCHANGED <<held, inFlight, refs, phase>>
    BY <1>2 DEF Quiet, Submits, vars, queueVars, listVars, hostVars, gpuVars
  <2> QED
    BY <1>1, <2>1, QuietSteady
<1>3. ASSUME NEW l \in Lists, Open(l)
      PROVE  RefsKept
  <2>1. Steady
    BY <1>3, OpenSteady
  <2>2. /\ l \in held /\ refs' = [refs EXCEPT ![l] = {}] /\ phase' = [phase EXCEPT ![l] = "open"]
        /\ UNCHANGED <<held, inFlight>>
    BY <1>3 DEF Open, hostVars
  <2>3. refs \in [Lists -> SUBSET Resources] /\ phase \in [Lists -> {"idle", "open", "closed", "submitted"}]
    BY DEF QueueInv, Types, TypeOK
  <2>4. /\ \A k \in Lists : refs'[k] \subseteq refs[k] \cup held
        /\ \A k \in Lists : phase'[k] # "idle" => phase[k] # "idle" \/ k \in held
    BY <2>2, <2>3
  <2> QED
    BY <2>1, <2>2, <2>4, StillRefs
<1>4. ASSUME NEW l \in Lists, Close(l)
      PROVE  RefsKept
  <2>1. Quiet /\ UNCHANGED <<refs, held, inFlight>>
    BY <1>4, CloseQuiet DEF Close, hostVars
  <2>2. Steady
    BY <2>1, QuietSteady
  <2>3. \A k \in Lists : phase'[k] # "idle" => phase[k] # "idle" \/ k \in held
    BY <1>4 DEF Close, QueueInv, Types, TypeOK
  <2> QED
    BY <2>1, <2>2, <2>3, StillRefs
<1>5. ASSUME NEW l \in Lists, NEW r \in Resources, Record(l, r)
      PROVE  RefsKept
  <2>1. Quiet /\ UNCHANGED <<phase, held, inFlight>>
    BY <1>5, RecordQuiet DEF Record, hostVars
  <2>2. /\ \A k \in Lists : phase[k] = "submitted" => refs'[k] = refs[k]
        /\ \A k \in Lists : refs'[k] \subseteq refs[k] \cup held
    BY <1>5 DEF Record, QueueInv, Types, TypeOK
  <2>3. Steady
    BY <2>1, <2>2, QuietSteady
  <2> QED
    BY <2>1, <2>2, <2>3, StillRefs
<1>6. ASSUME NEW t \in Threads, Count(t) \/ Signal(t)
      PROVE  RefsKept
  <2>1. Steady
    BY <1>6, CountSteady, SignalSteady
  <2>2. UNCHANGED <<held, inFlight, refs, phase>>
    BY <1>6 DEF Count, Signal, hostVars, listVars
  <2> QED
    BY <1>1, <2>1, <2>2
<1>7. ASSUME NEW t \in Threads, NEW x \in Waitable, Answer(t, x) \/ WaitForFence(t, x)
      PROVE  RefsKept
  <2>1. Quiet
    BY <1>7, AnswerQuiet, WaitQuiet
  <2>2. UNCHANGED <<held, inFlight, refs, phase>>
    BY <1>7 DEF Answer, WaitForFence, hostVars, listVars
  <2> QED
    BY <1>1, <2>1, <2>2, QuietSteady
<1>8. ASSUME NEW t \in Threads, Woken(t)
      PROVE  RefsKept
  <2>1. UNCHANGED <<held, inFlight, refs, phase>>
    BY <1>8 DEF Woken, hostVars, listVars
  <2> QED
    BY <1>1, <1>8, <2>1, WokenQuiet, QuietSteady
<1>9. ASSUME NEW q \in Queues, ExecuteOperation(q) \/ \E p \in Queues : QueueWaitForCommandList(q, p)
      PROVE  RefsKept
  <2>1. Steady
    BY <1>9, GpuSteady, QueueWaitSteady
  <2>2. UNCHANGED <<held, inFlight, refs, phase>>
    BY <1>9 DEF ExecuteOperation, QueueWaitForCommandList, hostVars, listVars
  <2> QED
    BY <1>1, <2>1, <2>2
<1>10. ASSUME NEW e \in Events, ResetEventQuery(e) \/ \E q \in Queues : SetEventQuery(e, q)
       PROVE  RefsKept
  <2>1. Quiet
    BY <1>10, ResetEventQuiet, SetEventQuiet
  <2>2. UNCHANGED <<held, inFlight, refs, phase>>
    BY <1>10 DEF ResetEventQuery, SetEventQuery, listVars
  <2> QED
    BY <1>1, <2>1, <2>2, QuietSteady
<1>11. ASSUME NEW b \in Staging, Unmap(b)
       PROVE  RefsKept
  <2>1. UNCHANGED <<held, inFlight, refs, phase>>
    BY <1>11 DEF Unmap, listVars
  <2> QED
    BY <1>1, <1>11, <2>1, UnmapQuiet, QuietSteady
<1>12. CASE Next
  <2>1. \/ \E l \in Lists : Open(l)
        \/ \E l \in Lists : Close(l)
        \/ \E l \in Lists : \E r \in Resources : Record(l, r)
        \/ \E t \in Threads : Count(t) \/ Signal(t)
        \/ \E t \in Threads : Executed(t)
        \/ \E t \in Threads : Woken(t)
        \/ \E t \in Threads : \E ls \in Batches : ExecuteCommandLists(t, ls)
        \/ \E t \in Threads : \E x \in Waitable : Answer(t, x) \/ WaitForFence(t, x)
        \/ \E tr \in Trackers : RunGarbageCollection(tr)
        \/ \E q \in Queues : ExecuteOperation(q) \/ \E p \in Queues : QueueWaitForCommandList(q, p)
        \/ \E e \in Events : ResetEventQuery(e) \/ \E q \in Queues : SetEventQuery(e, q)
        \/ \E b \in Staging : Unmap(b)
        \/ \E r \in Resources : ReleaseHandle(r)
    BY <1>12 DEF Next, Continue
  <2> QED
    BY <1>3, <1>4, <1>5, <1>6, <1>7, <1>8, <1>9, <1>10, <1>11, <2>1,
       ExecuteRefs, ExecutedRefs, GCRefs, ReleaseRefs
<1> QED
  BY <1>2, <1>12

\* Initially nothing is recorded or executing.
LEMMA RefsInit == Init => RefsOK /\ HeldOK
<1> SUFFICES ASSUME Init PROVE RefsOK /\ HeldOK
  OBVIOUS
<1>1. \A q \in Queues : DOMAIN gpu[q] = {}
  BY DEF Init
<1>2. \A l \in Lists : phase[l] = "idle"
  BY DEF Init
<1> QED
  BY <1>1, <1>2 DEF RefsOK, HeldOK

\* Lists and submissions keep what they use alive.
LEMMA RefsInvariant ==
  ASSUME D3D12QueueAssumption, "ReleasesLists" \in Avoided
  PROVE  Spec => [](RefsOK /\ HeldOK)
<1>1. QueueInv /\ (RefsOK /\ HeldOK) /\ [Next]_vars => (RefsOK /\ HeldOK)'
  BY RefsNext DEF RefsKept
<1> QED
  BY <1>1, RefsInit, QueueInvariant, PTL DEF Spec

\* Initially everything is held and nothing in use.
LEMMA LifetimeInit ==
  ASSUME D3D12QueueAssumption, Init
  PROVE  Lifetime!Init
<1>1. /\ \A l \in Lists : refs[l] = {} /\ phase[l] = "idle"
      /\ \A tr \in Trackers : DOMAIN inFlight[tr] = {}
      /\ \A q \in Queues : submittedOps[q] = 0 /\ executedOps[q] = 0
  BY DEF Init
<1>2. Alive = held
  BY <1>1, AliveFacts DEF AliveFact
<1>3. Recording = [l \in Lists |-> {}]
  BY <1>1 DEF Recording
<1>4. Executing = [q \in Queues |-> <<>>]
  <2>1. \A q \in Queues : submittedOps[q] - executedOps[q] = 0
    BY <1>1
  <2>2. \A q \in Queues : ExecutingOf(q) = <<>>
    BY <2>1 DEF ExecutingOf
  <2> QED
    BY <2>2, MapFacts
<1>5. held \subseteq Resources
  BY DEF Init, D3D12QueueAssumption
<1> QED
  BY <1>2, <1>3, <1>4, <1>5 DEF Lifetime!Init

\* A function from 1..n is a sequence of length n.
LEMMA FunctionsAreSeqs ==
  ASSUME NEW S, NEW n \in Nat, NEW f \in [1..n -> S]
  PROVE  f \in Seq(S) /\ Len(f) = n
  BY SeqDef

\* The part of a numbering between two numbers, without the first or with one more.
Between(u, e, s) == [i \in 1..(s - e) |-> u[e + i]]

LEMMA BetweenTail ==
  ASSUME NEW u, NEW e \in Nat, NEW s \in Nat, e < s
  PROVE  Between(u, e, s) # <<>> /\ Tail(Between(u, e, s)) = Between(u, e + 1, s)
<1> DEFINE U == {u[e + i] : i \in 1..(s - e)}
<1>1. PICK from : from = Between(u, e, s)
  OBVIOUS
<1>2. s - e \in Nat \ {0} /\ from = [i \in 1..(s - e) |-> u[e + i]]
  BY <1>1 DEF Between
<1>3. from \in [1..(s - e) -> U]
  BY <1>2
<1> HIDE DEF U
<1>4. from \in Seq(U) /\ Len(from) = s - e
  BY <1>2, <1>3, FunctionsAreSeqs
<1>5. from # <<>>
  BY <1>2, <1>4
<1>6. \A i \in 1..(s - (e + 1)) : from[i + 1] = u[(e + 1) + i]
  <2>1. \A i \in 1..(s - (e + 1)) : i + 1 \in 1..(s - e) /\ e + (i + 1) = (e + 1) + i
    OBVIOUS
  <2> QED
    BY <1>2, <2>1
<1>7. /\ Tail(from) \in Seq(U) /\ Len(Tail(from)) = s - (e + 1)
      /\ \A i \in 1..(s - (e + 1)) : Tail(from)[i] = from[i + 1]
  <2>1. /\ Tail(from) \in Seq(U) /\ Len(Tail(from)) = Len(from) - 1
        /\ \A i \in 1..Len(Tail(from)) : Tail(from)[i] = from[i + 1]
    BY <1>4, <1>5, HeadTailProperties
  <2>2. Len(from) - 1 = s - (e + 1)
    BY <1>4
  <2> QED
    BY <2>1, <2>2
<1>8. PICK rest \in Seq(U) : rest = Tail(from)
  BY <1>7
<1>9. rest = [i \in 1..(s - (e + 1)) |-> rest[i]]
  BY <1>7, <1>8, LenProperties
<1>10. rest = Between(u, e + 1, s)
  BY <1>6, <1>7, <1>8, <1>9 DEF Between
<1> QED
  BY <1>1, <1>5, <1>8, <1>10

LEMMA BetweenAppend ==
  ASSUME NEW u, NEW e \in Nat, NEW s \in Nat, e <= s
  PROVE  Append(Between(u, e, s), u[s + 1]) = Between(u, e, s + 1)
<1> DEFINE U == {u[e + i] : i \in 1..((s + 1) - e)}
<1>1. PICK n \in Nat : n = s - e
  OBVIOUS
<1>2. (s + 1) - e = n + 1 /\ e + (n + 1) = s + 1
  BY <1>1
<1>3. PICK from : from = Between(u, e, s)
  OBVIOUS
<1>4. from = [i \in 1..n |-> u[e + i]]
  BY <1>1, <1>3 DEF Between
<1>5. from \in [1..n -> U] /\ u[s + 1] \in U
  <2>1. n + 1 \in 1..((s + 1) - e) /\ \A i \in 1..n : i \in 1..((s + 1) - e)
    BY <1>2
  <2> QED
    BY <1>2, <1>4, <2>1
<1> HIDE DEF U
<1>6. from \in Seq(U) /\ Len(from) = n
  BY <1>5, FunctionsAreSeqs
<1>7. PICK w : w = Append(from, u[s + 1])
  OBVIOUS
<1>8. w \in Seq(U) /\ Len(w) = n + 1 /\ \A i \in 1..(n + 1) : w[i] = IF i <= n THEN from[i] ELSE u[s + 1]
  BY <1>5, <1>6, <1>7
<1>9. \A i \in 1..(n + 1) : w[i] = u[e + i]
  <2>1. \A i \in 1..(n + 1) : (i <= n /\ i \in 1..n) \/ (~(i <= n) /\ i = n + 1)
    OBVIOUS
  <2> QED
    BY <1>2, <1>4, <1>8, <2>1
<1>10. w = [i \in 1..(n + 1) |-> w[i]]
  BY <1>8, LenProperties
<1>11. w = Between(u, e, s + 1)
  BY <1>2, <1>9, <1>10 DEF Between
<1> QED
  BY <1>3, <1>7, <1>11

\* What executes is what the submissions use, by number.
NumberedBy(u, q) == \A op \in Pending(q) : u[op.index] = op.used

LEMMA ExecutingFacts ==
  ASSUME NEW q \in Queues, NEW u, NEW e \in Nat, NEW s \in Nat
  PROVE  /\ QueueInv /\ NumberedBy(u, q) /\ e = executedOps[q] /\ s = submittedOps[q]
              => ExecutingOf(q) = Between(u, e, s)
         /\ QueueInv' /\ NumberedBy(u, q)' /\ e = executedOps'[q] /\ s = submittedOps'[q]
              => ExecutingOf(q)' = Between(u, e, s)
<1>1. QueueInv /\ NumberedBy(u, q) /\ e = executedOps[q] /\ s = submittedOps[q]
        => ExecutingOf(q) = Between(u, e, s)
  <2> SUFFICES ASSUME QueueInv, NumberedBy(u, q), e = executedOps[q], s = submittedOps[q]
               PROVE  ExecutingOf(q) = Between(u, e, s)
    OBVIOUS
  <2>1. ASSUME NEW i \in 1..(s - e)
        PROVE  Submission(q, e + i).used = u[e + i]
    <3>1. e + i \in (e + 1)..s
      OBVIOUS
    <3>2. Submission(q, e + i) \in Pending(q) /\ Submission(q, e + i).index = e + i
      BY <3>1, SubmissionFacts
    <3> QED
      BY <3>2 DEF NumberedBy
  <2>2. ExecutingOf(q) = [i \in 1..(s - e) |-> Submission(q, e + i).used]
    BY DEF ExecutingOf
  <2> QED
    BY <2>1, <2>2 DEF Between
<1>2. (QueueInv /\ NumberedBy(u, q) /\ e = executedOps[q] /\ s = submittedOps[q]
        => ExecutingOf(q) = Between(u, e, s))'
  BY <1>1, PTL
<1> QED
  BY <1>1, <1>2

\* There is such a numbering.
LEMMA NumberingExists ==
  ASSUME QueueInv, NEW q \in Queues, NEW n, NEW x
  PROVE  \E u : /\ NumberedBy(u, q)
                /\ n \notin (executedOps[q] + 1)..submittedOps[q] => u[n] = x
<1> DEFINE I == (executedOps[q] + 1)..submittedOps[q]
           u == [k \in I \cup {n} |-> IF k \in I THEN Submission(q, k).used ELSE x]
<1>1. \A op \in Pending(q) : op.index \in I
  BY DEF QueueInv, OpsNumbered, Pending, ToSet
<1>2. \A op \in Pending(q) : Submission(q, op.index) = op
  BY SubmissionFacts
<1>3. NumberedBy(u, q)
  BY <1>1, <1>2 DEF NumberedBy
<1>4. n \notin I => u[n] = x
  OBVIOUS
<1> QED
  BY <1>3, <1>4

\* Steps that change no submission.
LEMMA SameExecuting ==
  ASSUME QueueInv, QueueInv', NEW q \in Queues, Pending(q)' = Pending(q),
         submittedOps'[q] = submittedOps[q], executedOps'[q] = executedOps[q]
  PROVE  ExecutingOf(q)' = ExecutingOf(q)
<1>1. PICK u : NumberedBy(u, q)
  BY NumberingExists
<1>2. NumberedBy(u, q)'
  BY <1>1 DEF NumberedBy
<1>3. PICK e \in Nat, s \in Nat : e = executedOps[q] /\ s = submittedOps[q]
  BY DEF QueueInv, Types, TypeOK
<1> QED
  BY <1>1, <1>2, <1>3, ExecutingFacts

\* A step of ResourceLifetime's actions destroys nothing in use and revives nothing.
LEMMA LifetimeStep ==
  ASSUME D3D12QueueAssumption, QueueInv', RefsKept,
         \/ \E l \in Lists : Lifetime!Begin(l) \/ (\E r \in Resources : Lifetime!Use(l, r))
         \/ \E q \in Queues : Lifetime!Finish(q) \/ (\E S \in SUBSET Lists : Lifetime!Submit(q, S))
         \/ \E r \in Resources : Lifetime!Release(r)
         \/ held' = held /\ Recording' = Recording /\ Executing' = Executing
  PROVE  Lifetime!Next
<1>1. Lifetime!InUse' \subseteq Alive'
  BY UsedStaysAlive DEF RefsKept
<1>2. Alive' \subseteq Alive
  BY DEF RefsKept
<1> QED
  BY <1>1, <1>2 DEF Lifetime!Next

\* Steps that change nothing of the kind.
LEMMA Stutters ==
  ASSUME QueueInv, QueueInv', \A l \in Lists : RecordingOf(l)' = RecordingOf(l),
         \A q \in Queues : /\ Pending(q)' = Pending(q)
                           /\ submittedOps'[q] = submittedOps[q] /\ executedOps'[q] = executedOps[q]
  PROVE  Recording' = Recording /\ Executing' = Executing
<1>1. \A q \in Queues : ExecutingOf(q)' = ExecutingOf(q)
  BY SameExecuting
<1> QED
  BY <1>1, MapFacts

LEMMA GpuUnchanged ==
  ASSUME UNCHANGED gpuVars
  PROVE  \A q \in Queues : /\ Pending(q)' = Pending(q)
                           /\ submittedOps'[q] = submittedOps[q] /\ executedOps'[q] = executedOps[q]
BY DEF gpuVars, Pending

\* open() begins a recording that uses the list itself.
LEMMA OpenBegins ==
  ASSUME QueueInv, QueueInv', NEW l \in Lists, Open(l)
  PROVE  Lifetime!Begin(l)
<1>1. /\ l \in held /\ UNCHANGED <<held, gpuVars>>
      /\ phase' = [phase EXCEPT ![l] = "open"] /\ refs' = [refs EXCEPT ![l] = {}]
  BY DEF Open, hostVars
<1>2. \A k \in Lists : RecordingOf(k)' = IF k = l THEN {l} ELSE RecordingOf(k)
  <2>1. phase \in [Lists -> {"idle", "open", "closed", "submitted"}] /\ refs \in [Lists -> SUBSET Resources]
    BY DEF QueueInv, Types, TypeOK
  <2> QED
    BY <1>1, <2>1 DEF RecordingOf, UsedBy
<1>3. Recording' = [Recording EXCEPT ![l] = {l}]
  BY <1>2, MapFacts
<1>4. Executing' = Executing
  <2>1. \A q \in Queues : ExecutingOf(q)' = ExecutingOf(q)
    BY <1>1, GpuUnchanged, SameExecuting
  <2> QED
    BY <2>1, MapFacts
<1> QED
  BY <1>1, <1>3, <1>4 DEF Lifetime!Begin

\* A recorded command uses what it accesses.
LEMMA RecordUses ==
  ASSUME QueueInv, QueueInv', NEW l \in Lists, NEW r \in Resources, Record(l, r)
  PROVE  Lifetime!Use(l, r)
<1>1. /\ phase[l] = "open" /\ r \in held /\ UNCHANGED <<held, phase, gpuVars>>
      /\ refs' = [refs EXCEPT ![l] = @ \cup {r}]
  BY DEF Record, hostVars
<1>2. \A k \in Lists : RecordingOf(k)' = IF k = l THEN RecordingOf(l) \cup {r} ELSE RecordingOf(k)
  <2>1. refs \in [Lists -> SUBSET Resources]
    BY DEF QueueInv, Types, TypeOK
  <2> QED
    BY <1>1, <2>1 DEF RecordingOf, UsedBy
<1>3. Recording' = [Recording EXCEPT ![l] = @ \cup {r}]
  BY <1>2, MapFacts
<1>4. l \in Recording[l]
  BY <1>1 DEF Recording, UsedBy
<1>5. Executing' = Executing
  <2>1. \A q \in Queues : ExecutingOf(q)' = ExecutingOf(q)
    BY <1>1, GpuUnchanged, SameExecuting
  <2> QED
    BY <2>1, MapFacts
<1> QED
  BY <1>1, <1>3, <1>4, <1>5 DEF Lifetime!Use

\* executeCommandLists gives the queue what the lists of the batch have recorded.
LEMMA ExecuteSubmits ==
  ASSUME D3D12QueueAssumption, QueueInv, QueueInv',
         NEW t \in Threads, NEW ls \in Batches, ExecuteCommandLists(t, ls)
  PROVE  \E q \in Queues : \E S \in SUBSET Lists : Lifetime!Submit(q, S)
<1>1. PICK q \in Queues, o \in SubmissionOp, d \in CountCall :
           /\ call[t] = Idle /\ ~Submits(t)
           /\ ls \in Seq(Lists) /\ ls # <<>> /\ IsInjective(ls) /\ ToSet(ls) \subseteq Lists
           /\ \A l \in ToSet(ls) : phase[l] = "closed" /\ l \in held /\ ThreadOf[l] = t /\ QueueOf[l] = q
           /\ o.index = submittedOps[q] + 1
           /\ o.used = UNION {UsedBy(l) : l \in ToSet(ls)} /\ o.cmds = {active[l] : l \in ToSet(ls)}
           /\ d.op = "count" /\ d.queue = q /\ d.todo = ls /\ d.index = submittedOps[q] + 1
           /\ o.used \cap answered \cap Staging = {}
           /\ \A u \in Threads : call[u].op = "wait" => call[u].for \notin o.used
           /\ "SharesQueues" \in Avoided => o.used \cap Waitable \cap UsedElsewhere(q) = {}
           /\ ExecuteStepOf(t, q, ls, o, d)
  BY ExecuteFacts
<1>2. /\ gpu' = [gpu EXCEPT ![q] = Append(@, o)]
      /\ submittedOps' = [submittedOps EXCEPT ![q] = o.index]
      /\ phase' = [l \in Lists |-> IF l \in ToSet(ls) THEN "submitted" ELSE phase[l]]
      /\ UNCHANGED <<refs, held, executedOps>>
  BY <1>1 DEF ExecuteStepOf
<1>3. PICK S \in SUBSET Lists : S = ToSet(ls)
  BY <1>1
<1>4. \A l \in S : RecordingOf(l) = UsedBy(l) /\ l \in UsedBy(l) /\ phase[l] = "closed"
  BY <1>1, <1>3 DEF RecordingOf, UsedBy
<1>5. Recording' = [l \in Lists |-> IF l \in S THEN {} ELSE Recording[l]]
  <2>1. \A l \in Lists : RecordingOf(l)' = IF l \in S THEN {} ELSE RecordingOf(l)
    BY <1>2, <1>3 DEF RecordingOf, UsedBy
  <2> QED
    BY <2>1, MapFacts
<1>6. \A l \in S : l \in Recording[l] /\ Recording[l] = UsedBy(l)
  BY <1>4, MapFacts
<1>7. o.used = UNION {Recording[l] : l \in S}
  <2>1. {UsedBy(l) : l \in S} = {Recording[l] : l \in S}
    BY <1>6
  <2>2. o.used = UNION {UsedBy(l) : l \in S}
    BY <1>1, <1>3
  <2> QED
    BY <2>1, <2>2
<1>8. PICK e \in Nat, s \in Nat : e = executedOps[q] /\ s = submittedOps[q] /\ e <= s
  BY DEF QueueInv, OpsNumbered, Types, TypeOK
<1>9. PICK u : NumberedBy(u, q) /\ u[s + 1] = o.used
  <2>1. s + 1 \notin (executedOps[q] + 1)..submittedOps[q]
    BY <1>8
  <2> QED
    BY <2>1, NumberingExists
<1>10. executedOps'[q] = e /\ submittedOps'[q] = s + 1
  BY <1>1, <1>2, <1>8 DEF QueueInv, Types, TypeOK
<1>11. NumberedBy(u, q)'
  <2>1. gpu[q] \in Seq(GpuOp) /\ gpu'[q] = Append(gpu[q], o) /\ o \in GpuOp
    BY <1>2 DEF QueueInv, Types, GpuOp
  <2>2. \A i \in DOMAIN gpu'[q] : gpu'[q][i] = o \/ (i \in DOMAIN gpu[q] /\ gpu'[q][i] = gpu[q][i])
    BY <2>1, AppendFacts
  <2>3. \A op \in Pending(q)' : op = o \/ op \in Pending(q)
    BY <2>2 DEF Pending, ToSet
  <2>4. u[o.index] = o.used
    BY <1>1, <1>8, <1>9
  <2> QED
    BY <1>9, <2>3, <2>4 DEF NumberedBy
<1>12. ExecutingOf(q) = Between(u, e, s)
  BY <1>8, <1>9, ExecutingFacts
<1>13. ExecutingOf(q)' = Between(u, e, s + 1)
  BY <1>10, <1>11, ExecutingFacts
<1>14. ExecutingOf(q)' = Append(ExecutingOf(q), o.used)
  <2>1. Append(Between(u, e, s), u[s + 1]) = Between(u, e, s + 1)
    BY <1>8, BetweenAppend
  <2> QED
    BY <1>9, <1>12, <1>13, <2>1
<1>15. \A p \in Queues : p # q => ExecutingOf(p)' = ExecutingOf(p)
  <2> SUFFICES ASSUME NEW p \in Queues, p # q
               PROVE  ExecutingOf(p)' = ExecutingOf(p)
    OBVIOUS
  <2>1. gpu'[p] = gpu[p] /\ submittedOps'[p] = submittedOps[p] /\ executedOps'[p] = executedOps[p]
    BY <1>2 DEF QueueInv, Types, TypeOK
  <2>2. Pending(p)' = Pending(p)
    BY <2>1 DEF Pending
  <2> QED
    BY <2>1, <2>2, SameExecuting
<1>16. Executing' = [Executing EXCEPT ![q] = Append(@, o.used)]
  <2>1. PICK w : w = Append(ExecutingOf(q), o.used)
    OBVIOUS
  <2>2. [Executing EXCEPT ![q] = Append(@, o.used)] = [p \in Queues |-> IF p = q THEN w ELSE ExecutingOf(p)]
    BY <2>1, MapFacts
  <2>3. Executing' = [p \in Queues |-> IF p = q THEN w ELSE ExecutingOf(p)]
    BY <1>14, <1>15, <2>1, MapFacts
  <2> QED
    BY <2>2, <2>3
<1>17. Lifetime!Submit(q, S)
  BY <1>2, <1>5, <1>6, <1>7, <1>16 DEF Lifetime!Submit
<1> QED
  BY <1>17

\* The GPU finishes the first of the submissions of a queue, or none.
LEMMA GpuFinishes ==
  ASSUME D3D12QueueAssumption, QueueInv, QueueInv', NEW q \in Queues, ExecuteOperation(q)
  PROVE  Lifetime!Finish(q) \/ (held' = held /\ Recording' = Recording /\ Executing' = Executing)
<1>1. PICK o \in GpuOp :
           /\ 1 \in DOMAIN gpu[q] /\ o = gpu[q][1]
           /\ gpu' \in [Queues -> Seq(GpuOp)] /\ fence' \in [Queues -> Nat] /\ executedOps' \in [Queues -> Nat]
           /\ fence'[q] = (IF o.kind = "signal" THEN o.value ELSE fence[q])
           /\ executedOps'[q] = (IF IsSubmission(o) THEN executedOps[q] + 1 ELSE executedOps[q])
           /\ \A p \in Queues \ {q} : gpu'[p] = gpu[p] /\ fence'[p] = fence[p] /\ executedOps'[p] = executedOps[p]
           /\ \A i \in DOMAIN gpu'[q] : i + 1 \in DOMAIN gpu[q] /\ gpu'[q][i] = gpu[q][i + 1]
           /\ \A i \in DOMAIN gpu[q] : i # 1 => i - 1 \in DOMAIN gpu'[q] /\ gpu'[q][i - 1] = gpu[q][i]
           /\ \A i \in DOMAIN gpu[q] : i \in Nat \ {0}
           /\ fenceEvent' \in [set : BOOLEAN, on : SUBSET [queue : Queues, value : Nat]]
           /\ Follows
           /\ UNCHANGED <<lastSubmittedInstance, lastCompletedInstance, recordingInstance, pool, active, submittedAs,
                          phase, refs, inFlight, call, held, use, answered, submittedOps, before>>
  BY GpuFacts
<1>2. \A l \in Lists : RecordingOf(l)' = RecordingOf(l)
  BY <1>1 DEF RecordingOf, UsedBy
<1>3. Recording' = Recording
  BY <1>2, MapFacts
<1>4. \A p \in Queues : p # q => ExecutingOf(p)' = ExecutingOf(p)
  <2> SUFFICES ASSUME NEW p \in Queues, p # q
               PROVE  ExecutingOf(p)' = ExecutingOf(p)
    OBVIOUS
  <2>1. gpu'[p] = gpu[p] /\ submittedOps'[p] = submittedOps[p] /\ executedOps'[p] = executedOps[p]
    BY <1>1
  <2>2. Pending(p)' = Pending(p)
    BY <2>1 DEF Pending
  <2> QED
    BY <2>1, <2>2, SameExecuting
<1>5. Pending(q)' \subseteq Pending(q)
  BY <1>1 DEF Pending, ToSet
<1>6. PICK e \in Nat, s \in Nat : e = executedOps[q] /\ s = submittedOps[q] /\ e <= s
  BY DEF QueueInv, OpsNumbered, Types, TypeOK
<1>7. PICK u : NumberedBy(u, q)
  BY NumberingExists
<1>8. NumberedBy(u, q)'
  BY <1>5, <1>7 DEF NumberedBy
<1>9. ExecutingOf(q) = Between(u, e, s)
  BY <1>6, <1>7, ExecutingFacts
<1>10. CASE IsSubmission(o)
  <2>1. e < s
    <3>1. o.index \in (e + 1)..s
      BY <1>1, <1>6, <1>10 DEF QueueInv, OpsNumbered
    <3> QED
      BY <3>1
  <2>2. executedOps'[q] = e + 1 /\ submittedOps'[q] = s
    BY <1>1, <1>6, <1>10
  <2>3. ExecutingOf(q)' = Between(u, e + 1, s)
    BY <1>8, <2>2, ExecutingFacts
  <2>4. ExecutingOf(q) # <<>> /\ ExecutingOf(q)' = Tail(ExecutingOf(q))
    BY <1>6, <1>9, <2>1, <2>3, BetweenTail
  <2>5. Executing' = [Executing EXCEPT ![q] = Tail(@)]
    <3>1. PICK w : w = Tail(ExecutingOf(q))
      OBVIOUS
    <3>2. [Executing EXCEPT ![q] = Tail(@)] = [p \in Queues |-> IF p = q THEN w ELSE ExecutingOf(p)]
      BY <3>1, MapFacts
    <3>3. Executing' = [p \in Queues |-> IF p = q THEN w ELSE ExecutingOf(p)]
      BY <1>4, <2>4, <3>1, MapFacts
    <3> QED
      BY <3>2, <3>3
  <2>6. Executing[q] # <<>>
    BY <2>4, MapFacts
  <2> QED
    BY <1>1, <1>3, <2>5, <2>6 DEF Lifetime!Finish
<1>11. CASE ~IsSubmission(o)
  <2>1. executedOps'[q] = e /\ submittedOps'[q] = s
    BY <1>1, <1>6, <1>11
  <2>2. ExecutingOf(q)' = Between(u, e, s)
    BY <1>6, <1>8, <2>1, ExecutingFacts
  <2>3. Executing' = Executing
    BY <1>4, <1>9, <2>2, MapFacts
  <2> QED
    BY <1>1, <1>3, <2>3
<1> QED
  BY <1>10, <1>11

\* Nothing else changes what lists record, submissions execute or handles hold.
LEMMA OthersStutter ==
  ASSUME D3D12QueueAssumption, QueueInv, QueueInv',
         \/ \E l \in Lists : Close(l)
         \/ \E t \in Threads : Continue(t) \/ \E x \in Waitable : Answer(t, x) \/ WaitForFence(t, x)
         \/ \E tr \in Trackers : RunGarbageCollection(tr)
         \/ \E q, p \in Queues : QueueWaitForCommandList(q, p)
         \/ \E e \in Events : ResetEventQuery(e) \/ \E q \in Queues : SetEventQuery(e, q)
         \/ \E b \in Staging : Unmap(b)
         \/ UNCHANGED vars
  PROVE  held' = held /\ Recording' = Recording /\ Executing' = Executing
<1>1. CASE UNCHANGED <<held, phase, refs, gpuVars>>
  <2>1. \A l \in Lists : RecordingOf(l)' = RecordingOf(l)
    BY <1>1 DEF RecordingOf, UsedBy
  <2> QED
    BY <1>1, <2>1, GpuUnchanged, Stutters
<1>2. CASE \E l \in Lists : Close(l)
  <2>1. PICK l \in Lists : Close(l)
    BY <1>2
  <2>2. /\ phase[l] = "open" /\ phase' = [phase EXCEPT ![l] = "closed"] /\ UNCHANGED <<refs, held, gpuVars>>
        /\ phase \in [Lists -> {"idle", "open", "closed", "submitted"}]
    BY <2>1 DEF Close, hostVars, QueueInv, Types, TypeOK
  <2>3. \A k \in Lists : RecordingOf(k)' = RecordingOf(k)
    BY <2>2 DEF RecordingOf, UsedBy
  <2> QED
    BY <2>2, <2>3, GpuUnchanged, Stutters
<1>3. CASE \E t \in Threads : Executed(t)
  <2>1. PICK t \in Threads : Executed(t)
    BY <1>3
  <2>2. PICK q \in Queues, l \in Lists, c \in InternalLists, n \in Nat, todo \in Seq(Lists) :
          phase[l] = "submitted" /\ ExecutedStepOf(t, q, l, c, n, todo)
    BY <2>1, ExecutedFacts
  <2>3. /\ phase[l] = "submitted" /\ phase' = [phase EXCEPT ![l] = "idle"] /\ refs' = [refs EXCEPT ![l] = {}]
        /\ UNCHANGED <<held, gpuVars>>
        /\ phase \in [Lists -> {"idle", "open", "closed", "submitted"}] /\ refs \in [Lists -> SUBSET Resources]
    BY <2>2 DEF ExecutedStepOf, QueueInv, Types, TypeOK
  <2>4. \A k \in Lists : RecordingOf(k)' = RecordingOf(k)
    BY <2>3 DEF RecordingOf, UsedBy
  <2> QED
    BY <2>3, <2>4, GpuUnchanged, Stutters
<1>4. ASSUME NEW q \in Queues, NEW o \in SignalOp \cup WaitOp, gpu' = [gpu EXCEPT ![q] = Append(@, o)],
             UNCHANGED <<fence, lastCompletedInstance, held, phase, refs, submittedOps, executedOps>>
      PROVE  held' = held /\ Recording' = Recording /\ Executing' = Executing
  <2>1. \A p \in Queues : Pending(p)' = Pending(p)
    BY <1>4, AppendFollows DEF QueueInv
  <2>2. \A k \in Lists : RecordingOf(k)' = RecordingOf(k)
    BY <1>4 DEF RecordingOf, UsedBy
  <2> QED
    BY <1>4, <2>1, <2>2, Stutters
<1>5. CASE \E t \in Threads : Signal(t)
  <2>1. PICK t \in Threads : Signal(t)
    BY <1>5
  <2>2. call[t].op = "signal" /\ Submits(t)
    BY <2>1 DEF Signal, Busy, Submits
  <2>3. PICK q \in Queues : q = call[t].queue
    BY <2>2, SubmitsFacts DEF QueueInv
  <2>4. PICK value \in {call[t].value, lastSubmittedInstance[q]} :
          gpu' = [gpu EXCEPT ![q] = Append(@, [kind |-> "signal", value |-> value])]
    BY <2>1, <2>3 DEF Signal
  <2>5. value \in Nat
    <3>1. call[t].value \in Nat
      BY <2>2, SubmitsFacts DEF QueueInv
    <3>2. lastSubmittedInstance[q] \in Nat
      BY DEF QueueInv, Types, TypeOK
    <3> QED
      BY <2>4, <3>1, <3>2
  <2>6. [kind |-> "signal", value |-> value] \in SignalOp
    BY <2>5 DEF SignalOp
  <2>7. UNCHANGED <<fence, lastCompletedInstance, held, phase, refs, submittedOps, executedOps>>
    BY <2>1 DEF Signal, queueVars, listVars, hostVars
  <2> QED
    BY <1>4, <2>4, <2>6, <2>7
<1>6. CASE \E q, p \in Queues : QueueWaitForCommandList(q, p)
  <2>1. PICK q \in Queues, p \in Queues : QueueWaitForCommandList(q, p)
    BY <1>6
  <2>2. PICK o \in WaitOp : o = [kind |-> "wait", queue |-> p, value |-> lastSubmittedInstance[p]]
    BY DEF WaitOp, QueueInv, Types, TypeOK
  <2>3. /\ gpu' = [gpu EXCEPT ![q] = Append(@, o)]
        /\ UNCHANGED <<fence, lastCompletedInstance, held, phase, refs, submittedOps, executedOps>>
    BY <2>1, <2>2 DEF QueueWaitForCommandList, queueVars, listVars, hostVars
  <2> QED
    BY <1>4, <2>3
<1>7. CASE \/ \E t \in Threads :
                \/ Count(t) \/ Woken(t)
                \/ \E x \in Waitable : Answer(t, x) \/ WaitForFence(t, x)
           \/ \E tr \in Trackers : RunGarbageCollection(tr)
           \/ \E e \in Events : ResetEventQuery(e) \/ \E q \in Queues : SetEventQuery(e, q)
           \/ \E b \in Staging : Unmap(b)
           \/ UNCHANGED vars
  <2>1. UNCHANGED <<held, phase, refs, gpuVars>>
    BY <1>7 DEF Count, Woken, Answer, WaitForFence, RunGarbageCollection, ResetEventQuery, SetEventQuery, Unmap,
                vars, listVars, hostVars
  <2> QED
    BY <1>1, <2>1
<1> QED
  BY <1>2, <1>3, <1>5, <1>6, <1>7 DEF Continue

\* Every step of the queues is one of ResourceLifetime.
LEMMA LifetimeNext ==
  ASSUME D3D12QueueAssumption, "ReleasesLists" \in Avoided,
         QueueInv, QueueInv', RefsOK, HeldOK, [Next]_vars
  PROVE  Lifetime!Next
<1>1. RefsKept
  BY RefsNext
<1>2. CASE \E l \in Lists : Open(l)
  BY <1>1, <1>2, OpenBegins, LifetimeStep
<1>3. CASE \E l \in Lists : \E r \in Resources : Record(l, r)
  BY <1>1, <1>3, RecordUses, LifetimeStep
<1>4. CASE \E t \in Threads : \E ls \in Batches : ExecuteCommandLists(t, ls)
  BY <1>1, <1>4, ExecuteSubmits, LifetimeStep
<1>5. CASE \E q \in Queues : ExecuteOperation(q)
  BY <1>1, <1>5, GpuFinishes, LifetimeStep
<1>6. CASE \E r \in Resources : ReleaseHandle(r)
  <2>1. PICK r \in Resources : ReleaseHandle(r)
    BY <1>6
  <2>2. held' = held \ {r} /\ UNCHANGED <<phase, refs, gpuVars>>
    BY <2>1 DEF ReleaseHandle, listVars
  <2>3. \A l \in Lists : RecordingOf(l)' = RecordingOf(l)
    BY <2>2 DEF RecordingOf, UsedBy
  <2>4. Recording' = Recording /\ Executing' = Executing
    BY <2>2, <2>3, GpuUnchanged, Stutters
  <2>5. Lifetime!Release(r)
    BY <2>2, <2>4 DEF Lifetime!Release
  <2> QED
    BY <1>1, <2>5, LifetimeStep
<1>7. CASE \/ \E l \in Lists : Close(l)
           \/ \E t \in Threads : Continue(t) \/ \E x \in Waitable : Answer(t, x) \/ WaitForFence(t, x)
           \/ \E tr \in Trackers : RunGarbageCollection(tr)
           \/ \E q, p \in Queues : QueueWaitForCommandList(q, p)
           \/ \E e \in Events : ResetEventQuery(e) \/ \E q \in Queues : SetEventQuery(e, q)
           \/ \E b \in Staging : Unmap(b)
           \/ UNCHANGED vars
  <2>1. held' = held /\ Recording' = Recording /\ Executing' = Executing
    BY <1>7, OthersStutter
  <2> QED
    BY <1>1, <2>1, LifetimeStep
<1> QED
  BY <1>2, <1>3, <1>4, <1>5, <1>6, <1>7 DEF Next

\* The queues keep the promise of ResourceLifetime: whatever is destroyed has been
\* released by the application, is used by no list being recorded and by nothing the
\* GPU has yet to finish, when lists are not given up while their commands are recorded
\* or executing.
THEOREM QueuesKeepLifetimes ==
  ASSUME D3D12QueueAssumption, "ReleasesLists" \in Avoided
  PROVE  Spec => Lifetime!Spec
<1>1. Init => Lifetime!Init
  BY LifetimeInit
<1>2. QueueInv /\ QueueInv' /\ (RefsOK /\ HeldOK) /\ [Next]_vars => [Lifetime!Next]_(Lifetime!vars)
  BY LifetimeNext
<1> QED
  BY <1>1, <1>2, QueueInvariant, RefsInvariant, PTL DEF Spec, Lifetime!Spec

-----------------------------------------------------------------------------
(* The Vulkan backend.                                                      *)

\* The theorems about VulkanQueue, of the instance the run explores.
V == INSTANCE VulkanQueueProofs WITH
    Resources <- Lists \cup {r1}, Staging <- {}, Events <- {},
    Trackers <- {dev, own}, DeviceTrackers <- {dev},
    QueueOf <- [x \in Lists \cup {dev, own} |-> q1],
    TrackerOf <- [l \in Lists |-> IF l = l1 THEN dev ELSE own],
    Executors <- [l \in Lists |-> IF l = l1 THEN {t1} ELSE {t2}],
    Collectors <- [tr \in {dev, own} |-> IF tr = dev THEN {t1} ELSE {t2}],
    SharedStaging <- FALSE, Calls <- {"copy"},
    MaxRecordings <- [q \in Queues |-> IF q = q1 THEN 3 ELSE 1]

\* What the constants of both backends have to satisfy.
Constants == D3D12QueueAssumption /\ QueuesAssumption

LEMMA VulkanConstants ==
  ASSUME Constants
  PROVE  V!VulkanQueueAssumption /\ V!NoneAssumption /\ V!OneThreadPerTracker
<1> USE DEF Constants, QueuesAssumption
<1>1. V!VulkanQueueAssumption
  BY DEF Vulkan!VulkanQueueAssumption, V!VulkanQueueAssumption
<1>2. V!NoneAssumption
  BY DEF Vulkan!NoneAssumption, V!NoneAssumption, Vulkan!CommandBuffers, V!CommandBuffers
<1>3. V!OneThreadPerTracker
  BY DEF V!OneThreadPerTracker
<1> QED
  BY <1>1, <1>2, <1>3

\* Both are instances of the same actions.
LEMMA SameInit == Vulkan!Init => V!Init
  BY DEF Vulkan!Init, V!Init, Vulkan!CommandBuffers, V!CommandBuffers, Vulkan!NoBuffer, V!NoBuffer,
         Vulkan!Idle, V!Idle, Vulkan!Never, V!Never

LEMMA SameNext == Vulkan!Next => V!Next
<1>1. /\ Vulkan!CommandBuffers = V!CommandBuffers /\ Vulkan!NoBuffer = V!NoBuffer
      /\ Vulkan!Idle = V!Idle /\ Vulkan!Never = V!Never /\ Vulkan!Batches = V!Batches
      /\ Vulkan!mapped = V!mapped
  BY DEF Vulkan!CommandBuffers, V!CommandBuffers, Vulkan!NoBuffer, V!NoBuffer, Vulkan!Idle, V!Idle,
         Vulkan!Never, V!Never, Vulkan!Batches, V!Batches, Vulkan!mapped, V!mapped
<1>2. \A seq : Vulkan!Elements(seq) = V!Elements(seq)
  BY DEF Vulkan!Elements, V!Elements
<1>3. ASSUME NEW l \in Lists, Vulkan!Open(l) PROVE V!Open(l)
  <2>1. \A q : Vulkan!NewCommandBuffer(q) = V!NewCommandBuffer(q) /\ Vulkan!RemainingPool(q) = V!RemainingPool(q)
    BY DEF Vulkan!NewCommandBuffer, V!NewCommandBuffer, Vulkan!RemainingPool, V!RemainingPool
  <2>2. Vulkan!OpenedRefs(l) = V!OpenedRefs(l) /\ Vulkan!hostVars = V!hostVars /\ Vulkan!gpuVars = V!gpuVars
    BY DEF Vulkan!OpenedRefs, V!OpenedRefs, Vulkan!hostVars, V!hostVars, Vulkan!gpuVars, V!gpuVars
  <2> QED
    BY <1>1, <1>3, <2>1, <2>2 DEF Vulkan!Open, V!Open, Vulkan!hostVars, V!hostVars, Vulkan!gpuVars, V!gpuVars
<1>4. \A l \in Lists : Vulkan!Close(l) => V!Close(l)
  BY DEF Vulkan!Close, V!Close, Vulkan!queueVars, V!queueVars, Vulkan!hostVars, V!hostVars,
         Vulkan!gpuVars, V!gpuVars
<1>5. \A l \in Lists, r \in (Lists \cup {r1}) :
        /\ Vulkan!Copy(l, r) => V!Copy(l, r)
        /\ Vulkan!Bind(l, r) => V!Bind(l, r)
        /\ Vulkan!Clear(l, r) => V!Clear(l, r)
  BY DEF Vulkan!Copy, V!Copy, Vulkan!Bind, V!Bind, Vulkan!Clear, V!Clear, Vulkan!Accesses, V!Accesses,
         Vulkan!queueVars, V!queueVars, Vulkan!hostVars, V!hostVars, Vulkan!gpuVars, V!gpuVars
<1>6. \A t, ls, q, used : Vulkan!MayExecute(t, ls, q, used) => V!MayExecute(t, ls, q, used)
  BY <1>1, <1>2 DEF Vulkan!MayExecute, V!MayExecute
<1>7. \A ls : Vulkan!PushAll(ls) = V!PushAll(ls)
  BY DEF Vulkan!PushAll, V!PushAll, Vulkan!Push, V!Push
<1>8. ASSUME NEW t \in Threads, NEW ls \in Vulkan!Batches, Vulkan!Submit(t, ls) PROVE V!Submit(t, ls)
  <2>1. \A q, id : Vulkan!LastUse(q, id) = V!LastUse(q, id)
    BY DEF Vulkan!LastUse, V!LastUse
  <2>2. Vulkan!Elements(ls) = V!Elements(ls) /\ Vulkan!PushAll(ls) = V!PushAll(ls)
    BY <1>2, <1>7
  <2> QED
    BY <1>1, <1>6, <1>8, <2>1, <2>2 DEF Vulkan!Submit, V!Submit
<1>9. \A t \in Threads : Vulkan!Executed(t) => V!Executed(t)
  BY <1>1 DEF Vulkan!Executed, V!Executed, Vulkan!Detached, V!Detached, Vulkan!queueVars, V!queueVars,
         Vulkan!hostVars, V!hostVars, Vulkan!gpuVars, V!gpuVars
<1>10. \A q \in Queues : Vulkan!Complete(q) => V!Complete(q)
  BY DEF Vulkan!Complete, V!Complete, Vulkan!queueVars, V!queueVars, Vulkan!listVars, V!listVars,
         Vulkan!hostVars, V!hostVars
<1>11. /\ \A t, q, x : Vulkan!ReadCounter(t, q, x) => V!ReadCounter(t, q, x)
       /\ \A t, q : Vulkan!BeingStored(t, q) = V!BeingStored(t, q)
       /\ \A q, f : Vulkan!StoreFinished(q, f) => V!StoreFinished(q, f)
       /\ \A tr, f, n : Vulkan!FinishedPrefix(tr, f, n) => V!FinishedPrefix(tr, f, n)
       /\ \A tr, n : Vulkan!Collectable(tr, n) = V!Collectable(tr, n)
  BY DEF Vulkan!ReadCounter, V!ReadCounter, Vulkan!BeingStored, V!BeingStored, Vulkan!StoreFinished,
         V!StoreFinished, Vulkan!FinishedPrefix, V!FinishedPrefix, Vulkan!Collectable, V!Collectable
<1>12. \A tr, n : Vulkan!Collect(tr, n) => V!Collect(tr, n)
  BY <1>1, <1>2, <1>11 DEF Vulkan!Collect, V!Collect, Vulkan!Released, V!Released
<1>13. \A t \in Threads, tr \in {dev, own} :
        /\ Vulkan!DeviceCollect(t, tr) => V!DeviceCollect(t, tr)
        /\ Vulkan!TrackerCollect(t, tr) => V!TrackerCollect(t, tr)
  BY <1>1, <1>11, <1>12 DEF Vulkan!DeviceCollect, V!DeviceCollect, Vulkan!TrackerCollect,
         V!TrackerCollect, Vulkan!queueVars, V!queueVars, Vulkan!listVars, V!listVars,
         Vulkan!hostVars, V!hostVars, Vulkan!gpuVars, V!gpuVars
<1>14. \A t \in Threads : Vulkan!TrackerRelease(t) => V!TrackerRelease(t)
  BY <1>1, <1>11, <1>12 DEF Vulkan!TrackerRelease, V!TrackerRelease, Vulkan!listVars, V!listVars,
         Vulkan!hostVars, V!hostVars, Vulkan!gpuVars, V!gpuVars
<1>15. \A t \in Threads : Vulkan!ReturnCommandBuffersToPool(t) => V!ReturnCommandBuffersToPool(t)
  BY <1>1 DEF Vulkan!ReturnCommandBuffersToPool, V!ReturnCommandBuffersToPool, Vulkan!listVars,
         V!listVars, Vulkan!hostVars, V!hostVars, Vulkan!gpuVars, V!gpuVars
<1>16. /\ \A x, f : Vulkan!Reached(x, f) <=> V!Reached(x, f)
       /\ \A x : Vulkan!Answer(x) => V!Answer(x)
  BY DEF Vulkan!Reached, V!Reached, Vulkan!Answer, V!Answer
<1>17. \A t \in Threads :
        /\ Vulkan!Updated(t) => V!Updated(t)
        /\ Vulkan!WaitedSemaphores(t) => V!WaitedSemaphores(t)
  BY <1>1, <1>11, <1>16 DEF Vulkan!Updated, V!Updated, Vulkan!WaitedSemaphores, V!WaitedSemaphores,
         Vulkan!queueVars, V!queueVars, Vulkan!listVars, V!listVars, Vulkan!gpuVars, V!gpuVars
<1>18. \A r \in (Lists \cup {r1}) : Vulkan!ReleaseHandle(r) => V!ReleaseHandle(r)
  BY <1>1, <1>2 DEF Vulkan!ReleaseHandle, V!ReleaseHandle, Vulkan!Arguments, V!Arguments,
         Vulkan!queueVars, V!queueVars, Vulkan!listVars, V!listVars, Vulkan!gpuVars, V!gpuVars
<1> QED
  BY <1>1, <1>3, <1>4, <1>5, <1>8, <1>9, <1>10, <1>13, <1>14, <1>15, <1>17, <1>18
     DEF Vulkan!Next, V!Next, Vulkan!Record, V!Record, Vulkan!Continue, V!Continue,
            Vulkan!RunGarbageCollection, V!RunGarbageCollection

-----------------------------------------------------------------------------
(* Both backends.                                                           *)

mcVars == <<backend, sharedVars, vulkanVars, d3d12Vars>>

\* A step of one backend's run is one of its module, and not of the other's.
LEMMA BackendSteps ==
  ASSUME [MCNext]_mcVars
  PROVE  /\ backend' = backend
         /\ backend = "vulkan" => [V!Next]_(V!vars)
         /\ backend = "d3d12" => [Next]_vars
<1> USE DEF sharedVars, vulkanVars, d3d12Vars
<1>1. CASE UNCHANGED mcVars
  BY <1>1 DEF mcVars, vars, queueVars, listVars, hostVars, gpuVars,
              V!vars, V!queueVars, V!listVars, V!hostVars, V!gpuVars
<1>2. CASE MCNext
  BY <1>2, SameNext DEF MCNext
<1> QED
  BY <1>1, <1>2

BackendOK == backend \in {"vulkan", "d3d12"}

\* The invariants of the queues, of what their answers depend on and of what they
\* keep alive.
QueuesPart == IF backend = "vulkan" THEN V!QueueInv ELSE QueueInv
AnswersPart == backend = "d3d12" => AnswersInv
RefsPart == IF backend = "vulkan" THEN V!RefsInv ELSE RefsOK /\ HeldOK

LEMMA QueuesInvariant ==
  ASSUME Constants
  PROVE  MCSpec => [](BackendOK /\ QueuesPart)
<1>1. MCInit => BackendOK /\ QueuesPart
  <2>1. ASSUME Vulkan!Init PROVE V!QueueInv
    BY <2>1, SameInit, VulkanConstants, V!InitHolds
  <2>2. ASSUME Init PROVE QueueInv
    BY <2>2, QueueInvInit DEF Constants
  <2> QED
    BY <2>1, <2>2 DEF MCInit, BackendOK, QueuesPart
<1>2. BackendOK /\ QueuesPart /\ [MCNext]_mcVars => (BackendOK /\ QueuesPart)'
  <2> SUFFICES ASSUME BackendOK, QueuesPart, [MCNext]_mcVars
               PROVE  BackendOK' /\ QueuesPart'
    OBVIOUS
  <2>1. CASE backend = "vulkan"
    <3>1. backend' = "vulkan" /\ [V!Next]_(V!vars) /\ V!QueueInv
      BY <2>1, BackendSteps DEF QueuesPart
    <3>2. V!QueueInv'
      BY <3>1, VulkanConstants, V!QueueInvNext
    <3> QED
      BY <3>1, <3>2 DEF BackendOK, QueuesPart
  <2>2. CASE backend = "d3d12"
    <3>1. backend' = "d3d12" /\ [Next]_vars /\ QueueInv
      BY <2>2, BackendSteps DEF QueuesPart
    <3>2. QueueInv'
      BY <3>1, QueueInvNext DEF Constants
    <3> QED
      BY <3>1, <3>2 DEF BackendOK, QueuesPart
  <2> QED
    BY <2>1, <2>2 DEF BackendOK
<1> QED
  BY <1>1, <1>2, PTL DEF MCSpec, mcVars

LEMMA QueuesAnswersInvariant ==
  ASSUME Constants, {"WaitsConcurrently", "SharesQueues"} \subseteq Avoided
  PROVE  MCSpec => []AnswersPart
<1>1. MCInit => AnswersPart
  BY AnswersInit DEF MCInit, AnswersPart, Constants
<1>2. BackendOK /\ QueuesPart /\ QueuesPart' /\ AnswersPart /\ [MCNext]_mcVars => AnswersPart'
  <2> SUFFICES ASSUME QueuesPart, QueuesPart', AnswersPart, [MCNext]_mcVars, backend' = "d3d12"
               PROVE  AnswersInv'
    BY DEF AnswersPart
  <2>1. backend = "d3d12" /\ [Next]_vars
    BY BackendSteps
  <2>2. QueueInv /\ QueueInv' /\ AnswersInv
    BY <2>1 DEF QueuesPart, AnswersPart
  <2> QED
    BY <2>1, <2>2, AnswersInvNext DEF Constants
<1> QED
  BY <1>1, <1>2, QueuesInvariant, PTL DEF MCSpec, mcVars

LEMMA QueuesRefsInvariant ==
  ASSUME Constants, "ReleasesLists" \in Avoided
  PROVE  MCSpec => []RefsPart
<1>1. MCInit => RefsPart
  <2>1. ASSUME Vulkan!Init PROVE V!RefsInv
    <3>1. V!Init
      BY <2>1, SameInit
    <3>2. \A q \in Queues : V!Unfinished(q) = {}
      BY <3>1 DEF V!Init, V!Unfinished
    <3>3. V!ListsRefer
      BY <3>1 DEF V!Init, V!ListsRefer
    <3> QED
      BY <3>2, <3>3 DEF V!RefsInv, V!JobsRefer
  <2>2. ASSUME Init PROVE RefsOK /\ HeldOK
    BY <2>2, RefsInit
  <2> QED
    BY <2>1, <2>2 DEF MCInit, RefsPart
<1>2. BackendOK /\ QueuesPart /\ (BackendOK /\ QueuesPart)' /\ RefsPart /\ [MCNext]_mcVars => RefsPart'
  <2> SUFFICES ASSUME BackendOK, QueuesPart, QueuesPart', RefsPart, [MCNext]_mcVars
               PROVE  RefsPart'
    OBVIOUS
  <2>1. CASE backend = "vulkan"
    <3>1. backend' = "vulkan" /\ [V!Next]_(V!vars)
      BY <2>1, BackendSteps
    <3>2. V!QueueInv /\ V!QueueInv' /\ V!RefsInv
      BY <2>1, <3>1 DEF QueuesPart, RefsPart
    <3>3. "clear" \notin {"copy"}
      OBVIOUS
    <3>4. V!RefsKept
      BY <3>1, <3>2, <3>3, VulkanConstants, V!RefsNext
    <3> QED
      BY <3>1, <3>4 DEF RefsPart, V!RefsKept
  <2>2. CASE backend = "d3d12"
    <3>1. backend' = "d3d12" /\ [Next]_vars
      BY <2>2, BackendSteps
    <3>2. QueueInv /\ RefsOK /\ HeldOK
      BY <2>2 DEF QueuesPart, RefsPart
    <3>3. RefsKept
      BY <3>1, <3>2, RefsNext DEF Constants
    <3> QED
      BY <3>1, <3>3 DEF RefsPart, RefsKept
  <2> QED
    BY <2>1, <2>2 DEF BackendOK
<1> QED
  BY <1>1, <1>2, QueuesInvariant, PTL DEF MCSpec, mcVars

-----------------------------------------------------------------------------
(* What the run checks.                                                     *)

\* What the queues hold, number and count has the types it should have.
THEOREM QueuesStayTyped ==
  ASSUME Constants
  PROVE  MCSpec => []TypesOK
<1>1. QueuesPart => TypesOK
  <2>1. V!QueueInv => Vulkan!TypeOK
    BY DEF V!QueueInv, V!Types, V!TypeOK, Vulkan!TypeOK, V!CommandBuffers, Vulkan!CommandBuffers
  <2>2. QueueInv => TypeOK
    BY DEF QueueInv, Types
  <2> QED
    BY <2>1, <2>2 DEF QueuesPart, TypesOK
<1> QED
  BY <1>1, QueuesInvariant, PTL

\* No list records into a command buffer or with an allocator that the GPU still
\* executes from or that another list records into.
THEOREM RecordingIsExclusive ==
  ASSUME Constants
  PROVE  MCSpec => []RecordsIntoIdleBuffers
<1>1. QueuesPart => RecordsIntoIdleBuffers
  <2>1. V!QueueInv => Vulkan!CommandBuffersExclusive
    <3> SUFFICES ASSUME V!QueueInv PROVE Vulkan!CommandBuffersExclusive
      OBVIOUS
    <3>1. V!CommandBuffersExclusive
      BY VulkanConstants, V!InvariantExcludes
    <3> QED
      BY <3>1 DEF V!CommandBuffersExclusive, Vulkan!CommandBuffersExclusive,
                  V!Unfinished, Vulkan!Unfinished,
                  V!Elements, Vulkan!Elements
  <2>2. QueueInv => AllocatorsIdle
    BY InvariantIdle DEF Constants
  <2> QED
    BY <2>1, <2>2 DEF QueuesPart, RecordsIntoIdleBuffers
<1> QED
  BY <1>1, QueuesInvariant, PTL

\* executed() finds the submission it is told of, which it asserts, and the recording
\* its list was opened as.
THEOREM ExecutedFindsItsRecording ==
  ASSUME Constants
  PROVE  MCSpec => []ExecutedFindsRecording
<1>1. QueuesPart => ExecutedFindsRecording
  <2> SUFFICES ASSUME V!QueueInv PROVE Vulkan!ExecutedFindsSubmission
    BY DEF QueuesPart, ExecutedFindsRecording
  <2>1. V!ExecutedFindsSubmission
    BY VulkanConstants, V!InvariantFinds
  <2> QED
    BY <2>1 DEF V!ExecutedFindsSubmission, Vulkan!ExecutedFindsSubmission, V!Elements, Vulkan!Elements
<1> QED
  BY <1>1, QueuesInvariant, PTL

\* What a D3D12 map, poll or timer returned stays true, when no two threads wait at once
\* and no staging resource or query is used on two queues at once.
THEOREM AnswersStay ==
  ASSUME Constants, {"WaitsConcurrently", "SharesQueues"} \subseteq Avoided
  PROVE  MCSpec => []AnswersStayTrue
<1>1. BackendOK /\ QueuesPart /\ AnswersPart => AnswersStayTrue
  BY InvariantAnswers DEF QueuesPart, AnswersPart, AnswersStayTrue, Constants
<1> QED
  BY <1>1, QueuesInvariant, QueuesAnswersInvariant, PTL

-----------------------------------------------------------------------------
(* Both implement ResourceLifetime.                                         *)

\* Vulkan!Recording, Executing and Alive are those the theorems are about.
LEMMA SameMapping ==
  /\ Vulkan!Recording = V!Recording /\ Vulkan!Recording' = V!Recording'
  /\ Vulkan!Executing = V!Executing /\ Vulkan!Executing' = V!Executing'
  /\ Vulkan!Alive = V!Alive /\ Vulkan!Alive' = V!Alive'
BY DEF Vulkan!Recording, V!Recording, Vulkan!Executing, V!Executing, Vulkan!Alive, V!Alive,
       Vulkan!CommandBuffers, V!CommandBuffers

\* Runs of either backend begin as ResourceLifetime does.
LEMMA LifetimesInit ==
  ASSUME Constants, MCInit
  PROVE  Lifetimes!Init
<1>1. CASE backend = "vulkan" /\ Vulkan!Init
  <2>1. V!Lifetime!Init
    BY <1>1, SameInit, VulkanConstants, V!LifetimeInit
  <2>2. Lists \subseteq Resources
    BY DEF Constants, D3D12QueueAssumption
  <2> QED
    BY <1>1, <2>1, <2>2, SameMapping DEF V!Lifetime!Init, Lifetimes!Init
<1>2. CASE backend = "d3d12" /\ Init
  <2>1. Lifetime!Init
    BY <1>2, LifetimeInit DEF Constants
  <2> QED
    BY <1>2, <2>1 DEF Lifetime!Init, Lifetimes!Init
<1> QED
  BY <1>1, <1>2 DEF MCInit

\* A step of ResourceLifetime that the Vulkan backend takes is one of both.
LEMMA VulkanLifetimes ==
  ASSUME Constants, backend = "vulkan", backend' = "vulkan", V!Lifetime!Next
  PROVE  Lifetimes!Next
<1>1. PICK rec, ex, al, rec1, ex1, al1 :
           /\ rec = V!Recording /\ ex = V!Executing /\ al = V!Alive
           /\ rec1 = V!Recording' /\ ex1 = V!Executing' /\ al1 = V!Alive'
  OBVIOUS
<1>2. /\ rec = Vulkan!Recording /\ ex = Vulkan!Executing /\ al = Vulkan!Alive
      /\ rec1 = Vulkan!Recording' /\ ex1 = Vulkan!Executing' /\ al1 = Vulkan!Alive'
  BY <1>1, SameMapping
<1>3. Lists \subseteq Resources
  BY DEF Constants, D3D12QueueAssumption
<1>4. Lifetimes!InUse' \subseteq al1 /\ al1 \subseteq al
  <2>1. Lifetimes!InUse' = V!Lifetime!InUse'
    BY <1>1, <1>2 DEF V!Lifetime!InUse, V!Lifetime!Elements, Lifetimes!InUse, Lifetimes!Elements
  <2> QED
    BY <1>1, <2>1 DEF V!Lifetime!Next
<1>5. ASSUME NEW l \in Lists, V!Lifetime!Begin(l)
      PROVE  Lifetimes!Begin(l)
  BY <1>1, <1>2, <1>5 DEF V!Lifetime!Begin, Lifetimes!Begin
<1>6. ASSUME NEW l \in Lists, NEW r \in Lists \cup {r1}, V!Lifetime!Use(l, r)
      PROVE  Lifetimes!Use(l, r)
  BY <1>1, <1>2, <1>6 DEF V!Lifetime!Use, Lifetimes!Use
<1>7. ASSUME NEW q \in Queues, V!Lifetime!Finish(q)
      PROVE  Lifetimes!Finish(q)
  BY <1>1, <1>2, <1>7 DEF V!Lifetime!Finish, Lifetimes!Finish
<1>8. ASSUME NEW q \in Queues, NEW S \in SUBSET Lists, V!Lifetime!Submit(q, S)
      PROVE  Lifetimes!Submit(q, S)
  <2>1. /\ \A l \in S : l \in rec[l]
        /\ ex1 = [ex EXCEPT ![q] = Append(@, UNION {rec[l] : l \in S})]
        /\ rec1 = [l \in Lists |-> IF l \in S THEN {} ELSE rec[l]]
        /\ UNCHANGED held
    BY <1>1, <1>8 DEF V!Lifetime!Submit
  <2>2. /\ rec = (IF backend = "vulkan" THEN Vulkan!Recording ELSE Recording)
        /\ rec1 = (IF backend = "vulkan" THEN Vulkan!Recording ELSE Recording)'
        /\ ex = (IF backend = "vulkan" THEN Vulkan!Executing ELSE Executing)
        /\ ex1 = (IF backend = "vulkan" THEN Vulkan!Executing ELSE Executing)'
    BY <1>2
  <2> QED
    BY <2>1, <2>2 DEF Lifetimes!Submit
<1>9. ASSUME NEW r \in Lists \cup {r1}, V!Lifetime!Release(r)
      PROVE  Lifetimes!Release(r)
  BY <1>1, <1>2, <1>9 DEF V!Lifetime!Release, Lifetimes!Release
<1>10. CASE UNCHANGED <<held, V!Recording, V!Executing>>
  BY <1>1, <1>2, <1>4, <1>10 DEF Lifetimes!Next
<1> QED
  BY <1>2, <1>3, <1>4, <1>5, <1>6, <1>7, <1>8, <1>9, <1>10 DEF V!Lifetime!Next, Lifetimes!Next

\* ... and so is one that the D3D12 backend takes.
LEMMA D3D12Lifetimes ==
  ASSUME Constants, backend = "d3d12", backend' = "d3d12", Lifetime!Next
  PROVE  Lifetimes!Next
BY DEF Lifetime!Next, Lifetime!Begin, Lifetime!Use, Lifetime!Finish, Lifetime!Submit,
       Lifetime!Release, Lifetime!InUse, Lifetime!Elements,
       Lifetimes!Next, Lifetimes!Begin, Lifetimes!Use, Lifetimes!Finish, Lifetimes!Submit,
       Lifetimes!Release, Lifetimes!InUse, Lifetimes!Elements

\* Every step of either backend is one of ResourceLifetime.
LEMMA LifetimesNext ==
  ASSUME Constants, "ReleasesLists" \in Avoided, BackendOK, QueuesPart, QueuesPart', RefsPart,
         [MCNext]_mcVars
  PROVE  Lifetimes!Next
<1>1. CASE backend = "vulkan"
  <2>1. backend' = "vulkan" /\ [V!Next]_(V!vars)
    BY <1>1, BackendSteps
  <2>2. V!QueueInv /\ V!QueueInv' /\ V!RefsInv
    BY <1>1, <2>1 DEF QueuesPart, RefsPart
  <2>3. "clear" \notin {"copy"}
    OBVIOUS
  <2>4. V!Lifetime!Next
    BY <2>1, <2>2, <2>3, VulkanConstants, V!LifetimeNext
  <2> QED
    BY <1>1, <2>1, <2>4, VulkanLifetimes
<1>2. CASE backend = "d3d12"
  <2>1. backend' = "d3d12" /\ [Next]_vars
    BY <1>2, BackendSteps
  <2>2. QueueInv /\ QueueInv' /\ RefsOK /\ HeldOK
    BY <1>2, <2>1 DEF QueuesPart, RefsPart
  <2>3. Lifetime!Next
    BY <2>1, <2>2, LifetimeNext DEF Constants
  <2> QED
    BY <1>2, <2>1, <2>3, D3D12Lifetimes
<1> QED
  BY <1>1, <1>2 DEF BackendOK

\* The queues of both backends keep the promise of ResourceLifetime: whatever is
\* destroyed has been released by the application, is used by no list being recorded and
\* by nothing the GPU has yet to finish.  D3D12 relies on applications that do not give
\* up lists whose commands are recorded or executing.
THEOREM QueuesKeepTheirPromise ==
  ASSUME Constants, "ReleasesLists" \in Avoided
  PROVE  MCSpec => QueuesImplementLifetime
<1>1. MCInit => Lifetimes!Init
  BY LifetimesInit
<1>2. (BackendOK /\ QueuesPart) /\ (BackendOK /\ QueuesPart)' /\ RefsPart /\ [MCNext]_mcVars
        => [Lifetimes!Next]_(Lifetimes!vars)
  BY LifetimesNext
<1> QED
  BY <1>1, <1>2, QueuesInvariant, QueuesRefsInvariant, PTL
     DEF MCSpec, mcVars, QueuesImplementLifetime, Lifetimes!Spec
=============================================================================
