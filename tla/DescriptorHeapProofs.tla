------------------------- MODULE DescriptorHeapProofs -------------------------
(***************************************************************************)
(* The descriptors of a heap belong to one owner each, for any number of   *)
(* threads, sets and tables and any sizes: LiveRangesDisjoint of           *)
(* DescriptorHeap.  The ranges are first treated as sets (Partitioned),    *)
(* then every step is shown to change them in one of four ways.            *)
(*                                                                         *)
(* On top of that, lists see what their sets and tables hold:              *)
(* ListsSeeDescriptors.  A step changes no descriptor but those of the     *)
(* owner it works on (HeapStep, WorksOn), so that only that owner is left  *)
(* to be looked at (Assembled).                                            *)
(***************************************************************************)
EXTENDS DescriptorHeap, TLAPS

-----------------------------------------------------------------------------
(* Owners and moving threads share a set of indices out among them.         *)

\* own[o] is what owner o holds, old[t] what thread t is moving a table out of.
Partitioned(A, own, old) ==
    /\ \A i \in A : (\E o \in Owners : i \in own[o]) \/ (\E t \in Threads : i \in old[t])
    /\ \A o \in Owners : own[o] \subseteq A
    /\ \A t \in Threads : old[t] \subseteq A
    /\ \A o, p \in Owners : o # p => own[o] \cap own[p] = {}
    /\ \A t, u \in Threads : t # u => old[t] \cap old[u] = {}
    /\ \A o \in Owners, t \in Threads : own[o] \cap old[t] = {}

\* An owner that holds nothing takes a free range.
LEMMA PartitionedTake ==
  ASSUME NEW A, NEW R, NEW own, NEW old, NEW own2, NEW o \in Owners,
         Partitioned(A, own, old), own[o] = {}, R \cap A = {},
         own2[o] = R, \A p \in Owners \ {o} : own2[p] = own[p]
  PROVE  Partitioned(A \cup R, own2, old)
  BY DEF Partitioned

\* An owner gives up a part of what it holds.
LEMMA PartitionedGive ==
  ASSUME NEW A, NEW R, NEW own, NEW old, NEW own2, NEW o \in Owners,
         Partitioned(A, own, old), R \subseteq own[o],
         own2[o] = own[o] \ R, \A p \in Owners \ {o} : own2[p] = own[p]
  PROVE  Partitioned(A \ R, own2, old)
  BY DEF Partitioned

\* An owner takes a free range, and a thread begins to move it out of the other.
LEMMA PartitionedMove ==
  ASSUME NEW A, NEW R, NEW own, NEW old, NEW own2, NEW old2, NEW o \in Owners, NEW t \in Threads,
         Partitioned(A, own, old), R \cap A = {}, old[t] = {},
         own2[o] = R, \A p \in Owners \ {o} : own2[p] = own[p],
         old2[t] = own[o], \A u \in Threads \ {t} : old2[u] = old[u]
  PROVE  Partitioned(A \cup R, own2, old2)
<1>1. \A i \in A \cup R : (\E p \in Owners : i \in own2[p]) \/ (\E u \in Threads : i \in old2[u])
  BY DEF Partitioned
<1>2. /\ \A p \in Owners : own2[p] \subseteq A \cup R
      /\ \A u \in Threads : old2[u] \subseteq A
  BY DEF Partitioned
<1>3. \A p, q \in Owners : p # q => own2[p] \cap own2[q] = {}
  BY DEF Partitioned
<1>4. \A u, v \in Threads : u # v => old2[u] \cap old2[v] = {}
  BY DEF Partitioned
<1>5. \A p \in Owners, u \in Threads : own2[p] \cap old2[u] = {}
  BY DEF Partitioned
<1> QED
  BY <1>1, <1>2, <1>3, <1>4, <1>5 DEF Partitioned

\* A thread that has moved a table gives up what it moved it out of.
LEMMA PartitionedDrop ==
  ASSUME NEW A, NEW own, NEW old, NEW old2, NEW t \in Threads,
         Partitioned(A, own, old),
         old2[t] = {}, \A u \in Threads \ {t} : old2[u] = old[u]
  PROVE  Partitioned(A \ old[t], own, old2)
  BY DEF Partitioned

-----------------------------------------------------------------------------
(* The inductive invariant.                                                 *)

Own == [o \in Owners |-> OwnRange(o)]
Old == [t \in Threads |-> OldRange(t)]

OwnerRecords == [kind : {"none", "set", "table"}, first : Nat, wants : Seq(Entries)]

\* What a thread works on exists, and nobody else works on it.
JobsOK ==
    /\ job = [t \in Threads |-> job[t]]
    /\ \A t \in Threads : job[t].op # "idle" =>
            job[t].owner \in Owners /\ owner[job[t].owner].kind # "none"
    /\ \A t, u \in Threads : t # u /\ job[t].op # "idle" /\ job[u].op # "idle" => job[t].owner # job[u].owner
    /\ \A t \in Threads : job[t].op = "reallocate" =>
            job[t].count \in Nat /\ job[t].count >= Capacity(job[t].owner)
    /\ \A t \in Threads : job[t].op \in {"move", "release"} => job[t].oldFirst \in Nat /\ job[t].oldCount \in Nat

HeapInv ==
    /\ numDescriptors \in Nat /\ searchStart \in Nat
    /\ owner \in [Owners -> OwnerRecords]
    /\ JobsOK
    /\ allocated \subseteq Descriptors(0, numDescriptors)
    /\ Partitioned(allocated, Own, Old)

LEMMA HeapInvInit == ASSUME HeapAssumption, Init PROVE HeapInv
<1>1. owner \in [Owners -> OwnerRecords]
  <2>1. <<>> \in Seq(Entries)
    OBVIOUS
  <2> QED
    BY <2>1 DEF Init, NoOwner, OwnerRecords
<1>2. JobsOK
  BY DEF Init, Idle, JobsOK
<1>3. \A o \in Owners : Own[o] = {}
  BY DEF Init, Own, OwnRange, NoOwner, Descriptors
<1>4. \A t \in Threads : Old[t] = {}
  BY DEF Init, Old, OldRange, Idle
<1>5. Partitioned(allocated, Own, Old)
  BY <1>3, <1>4 DEF Partitioned, Init
<1> QED
  BY <1>1, <1>2, <1>5 DEF HeapInv, Init, HeapAssumption, Descriptors

-----------------------------------------------------------------------------
(* Allocation and release.                                                  *)

\* What is allocated was free, and lies in the heap, which may have grown.
LEMMA Allocation ==
  ASSUME HeapAssumption, HeapInv, NEW n \in Nat, NEW found \in Nat, AllocateDescriptors(n, found)
  PROVE  /\ Descriptors(found, n) \cap allocated = {}
         /\ allocated' = allocated \cup Descriptors(found, n)
         /\ numDescriptors' \in Nat /\ searchStart' \in Nat
         /\ allocated' \subseteq Descriptors(0, numDescriptors)'
<1>1. numDescriptors \in Nat /\ allocated \subseteq Descriptors(0, numDescriptors)
  BY DEF HeapInv
<1>2. allocated' = allocated \cup Descriptors(found, n) /\ searchStart' = found + n
  BY DEF AllocateDescriptors
<1>3. CASE found = numDescriptors
  <2>1. PICK size \in Descriptors(0, MaxSize + 1) : GrowsTo(n, size) /\ numDescriptors' = size
    BY <1>3 DEF AllocateDescriptors
  <2>2. numDescriptors' \in Nat /\ numDescriptors' >= numDescriptors + n
    BY <1>1, <2>1 DEF GrowsTo, LargeEnough, Descriptors, HeapAssumption
  <2>3. Descriptors(found, n) \cap allocated = {}
    BY <1>1, <1>3 DEF Descriptors
  <2>4. allocated' \subseteq Descriptors(0, numDescriptors)'
    <3> SUFFICES ASSUME NEW i \in allocated' PROVE i \in Descriptors(0, numDescriptors)'
      OBVIOUS
    <3>1. i \in Descriptors(0, numDescriptors) \/ i \in Descriptors(numDescriptors, n)
      BY <1>1, <1>2, <1>3
    <3> QED
      BY <1>1, <2>2, <3>1 DEF Descriptors
  <2> QED
    BY <1>2, <2>2, <2>3, <2>4
<1>4. CASE found # numDescriptors
  <2>1. FreeAt(found, n) /\ numDescriptors' = numDescriptors
    BY <1>4 DEF AllocateDescriptors, FirstFit, Candidates
  <2> QED
    BY <1>1, <1>2, <2>1 DEF FreeAt, Descriptors
<1> QED
  BY <1>3, <1>4

\* What is released was the owner's, and the heap stays as large as it was.
LEMMA Releasing ==
  ASSUME HeapInv, NEW n \in Nat, NEW first \in Nat, ReleaseDescriptors(first, n)
  PROVE  /\ allocated' = allocated \ Descriptors(first, n)
         /\ numDescriptors' \in Nat /\ searchStart' \in Nat
         /\ allocated' \subseteq Descriptors(0, numDescriptors)'
  BY DEF HeapInv, ReleaseDescriptors, Descriptors

-----------------------------------------------------------------------------
(* Steps.                                                                   *)

\* What a step of thread t does to the jobs of all threads.
LEMMA JobOf ==
  ASSUME HeapInv, NEW t \in Threads, NEW j, job' = [job EXCEPT ![t] = j]
  PROVE  /\ job' = [u \in Threads |-> job'[u]]
         /\ job'[t] = j
         /\ \A u \in Threads \ {t} : job'[u] = job[u]
<1>1. job = [u \in Threads |-> job[u]]
  BY DEF HeapInv, JobsOK
<1> DEFINE before == [u \in Threads |-> job[u]]
<1>2. job' = [u \in Threads |-> IF u = t THEN j ELSE job[u]]
  BY <1>1
<1> QED
  BY <1>2

\* A step that leaves all ranges as they are.
LEMMA SameRanges ==
  ASSUME HeapInv, allocated' = allocated,
         \A o \in Owners : OwnRange(o)' = OwnRange(o),
         \A t \in Threads : OldRange(t)' = OldRange(t)
  PROVE  Partitioned(allocated, Own, Old)'
<1>1. Own' = Own /\ Old' = Old
  BY DEF Own, Old
<1> QED
  BY <1>1 DEF HeapInv, Partitioned

\* A step of a thread that goes on with its job, or begins one on an owner
\* nobody works on, or ends it.
LEMMA JobsAfter ==
  ASSUME HeapInv, NEW t \in Threads, NEW j, job' = [job EXCEPT ![t] = j],
         \A o \in Owners : owner'[o].kind = "none" => owner[o].kind = "none",
         j.op # "idle" => /\ j.owner \in Owners /\ owner'[j.owner].kind # "none"
                          /\ \A u \in Threads \ {t} : job[u].op # "idle" => job[u].owner # j.owner,
         j.op = "reallocate" => j.count \in Nat /\ j.count >= Capacity(j.owner)',
         j.op \in {"move", "release"} => j.oldFirst \in Nat /\ j.oldCount \in Nat,
         \A u \in Threads \ {t} : job[u].op = "reallocate" => owner'[job[u].owner] = owner[job[u].owner]
  PROVE  JobsOK'
<1>1. /\ job' = [u \in Threads |-> job'[u]]
      /\ job'[t] = j
      /\ \A u \in Threads \ {t} : job'[u] = job[u]
  BY JobOf
<1>2. JobsOK
  BY DEF HeapInv
<1>3. \A u \in Threads : job'[u].op # "idle" =>
            job'[u].owner \in Owners /\ owner'[job'[u].owner].kind # "none"
  BY <1>1, <1>2 DEF JobsOK
<1>4. \A u, v \in Threads : u # v /\ job'[u].op # "idle" /\ job'[v].op # "idle" => job'[u].owner # job'[v].owner
  BY <1>1, <1>2 DEF JobsOK
<1>5. \A u \in Threads : job'[u].op = "reallocate" =>
            job'[u].count \in Nat /\ job'[u].count >= Len(owner'[job'[u].owner].wants)
  BY <1>1, <1>2 DEF JobsOK, Capacity
<1>6. \A u \in Threads : job'[u].op \in {"move", "release"} => job'[u].oldFirst \in Nat /\ job'[u].oldCount \in Nat
  BY <1>1, <1>2 DEF JobsOK
<1> QED
  BY <1>1, <1>3, <1>4, <1>5, <1>6 DEF JobsOK, Capacity

\* A thread goes on with its job, or is done, and no range changes.
LEMMA GoesOn ==
  ASSUME HeapInv, NEW t \in Threads, NEW j, job' = [job EXCEPT ![t] = j],
         job[t].op # "idle", j.op = "idle" \/ j.owner = job[t].owner,
         job[t].op \notin {"move", "release"}, j.op \notin {"move", "release", "reallocate"},
         UNCHANGED <<numDescriptors, allocated, searchStart, owner>>
  PROVE  HeapInv'
<1>1. JobsOK'
  <2>1. j.op # "idle" => /\ j.owner \in Owners /\ owner'[j.owner].kind # "none"
                         /\ \A u \in Threads \ {t} : job[u].op # "idle" => job[u].owner # j.owner
    BY DEF HeapInv, JobsOK
  <2> QED
    BY <2>1, JobsAfter
<1>2. \A o \in Owners : OwnRange(o)' = OwnRange(o)
  BY DEF OwnRange
<1>3. \A u \in Threads : OldRange(u)' = OldRange(u)
  BY JobOf DEF OldRange
<1>4. Partitioned(allocated, Own, Old)'
  BY <1>2, <1>3, SameRanges
<1> QED
  BY <1>1, <1>4 DEF HeapInv

LEMMA CreateBindingSetStep ==
  ASSUME HeapAssumption, HeapInv, NEW t \in Threads, NEW o \in Sets, CreateBindingSet(t, o)
  PROVE  HeapInv'
<1> DEFINE n == Len(Contents[o])
           j == [op |-> "handle", owner |-> o, slots |-> [k \in DOMAIN Contents[o] |-> k - 1], done |-> <<>>]
<1>1. o \in Owners /\ Contents[o] \in Seq(Entries) /\ n \in Nat
  BY DEF HeapAssumption, Owners
<1>2. PICK found \in 0..MaxSize :
        /\ AllocateDescriptors(n, found)
        /\ owner' = [owner EXCEPT ![o] = [kind |-> "set", first |-> found, wants |-> Contents[o]]]
  BY DEF CreateBindingSet
<1>3. found \in Nat
  BY DEF HeapAssumption
<1>4. owner \in [Owners -> OwnerRecords] /\ owner[o] = NoOwner /\ job[t] = Idle /\ job' = [job EXCEPT ![t] = j]
  BY DEF CreateBindingSet, HeapInv
<1>5. owner' \in [Owners -> OwnerRecords]
  BY <1>1, <1>2, <1>3, <1>4 DEF OwnerRecords
<1>6. /\ owner'[o] = [kind |-> "set", first |-> found, wants |-> Contents[o]]
      /\ \A p \in Owners \ {o} : owner'[p] = owner[p]
  BY <1>1, <1>2, <1>4
<1>7. \A u \in Threads : job[u].op # "idle" => job[u].owner # o
  BY <1>4 DEF HeapInv, JobsOK, NoOwner
<1>8. JobsOK'
  <2>1. j.op = "handle" /\ j.owner = o
    OBVIOUS
  <2>2. \A p \in Owners : owner'[p].kind = "none" => owner[p].kind = "none"
    BY <1>6
  <2>3. \A u \in Threads \ {t} : job[u].op = "reallocate" => owner'[job[u].owner] = owner[job[u].owner]
    BY <1>6, <1>7 DEF HeapInv, JobsOK
  <2>4. owner'[o].kind # "none"
    BY <1>6
  <2> HIDE DEF j
  <2> QED
    BY <1>1, <1>4, <1>7, <2>1, <2>2, <2>3, <2>4, JobsAfter
<1>9. Partitioned(allocated, Own, Old)'
  <2>1. Descriptors(found, n) \cap allocated = {} /\ allocated' = allocated \cup Descriptors(found, n)
    BY <1>1, <1>2, <1>3, Allocation
  <2>2. Own[o] = {}
    BY <1>1, <1>4 DEF Own, OwnRange, NoOwner, Descriptors
  <2>3. Own'[o] = Descriptors(found, n) /\ \A p \in Owners \ {o} : Own'[p] = Own[p]
    BY <1>1, <1>6 DEF Own, OwnRange
  <2>4. Old' = Old
    BY <1>4, JobOf DEF Old, OldRange, Idle
  <2> HIDE DEF n
  <2>5. Partitioned(allocated \cup Descriptors(found, n), Own', Old)
    BY <1>1, <2>1, <2>2, <2>3, PartitionedTake DEF HeapInv
  <2> QED
    BY <2>1, <2>4, <2>5 DEF Partitioned
<1> QED
  BY <1>1, <1>2, <1>3, <1>5, <1>8, <1>9, Allocation DEF HeapInv

\* Steps that change neither ranges nor who owns what, and keep a thread at its job.
LEMMA TakeHandleStep ==
  ASSUME HeapInv, NEW t \in Threads, TakeHandle(t)
  PROVE  HeapInv'
<1> DEFINE j == IF job[t].slots = <<>>
                THEN [op |-> "copy", owner |-> job[t].owner, done |-> job[t].done, heap |-> generation]
                ELSE [op |-> "write", owner |-> job[t].owner, slots |-> job[t].slots, done |-> job[t].done,
                      heap |-> generation]
<1>1. job[t].op = "handle" /\ job' = [job EXCEPT ![t] = j] /\ UNCHANGED <<heapVars, owner>>
  BY DEF TakeHandle
<1>2. j.owner = job[t].owner /\ j.op \in {"copy", "write"}
  OBVIOUS
<1> HIDE DEF j
<1> QED
  BY <1>1, <1>2, GoesOn DEF heapVars

LEMMA WriteDescriptorStep ==
  ASSUME HeapInv, NEW t \in Threads, WriteDescriptor(t)
  PROVE  HeapInv'
<1> DEFINE j == [op |-> "handle", owner |-> job[t].owner, slots |-> Tail(job[t].slots),
                 done |-> Append(job[t].done, Head(job[t].slots))]
<1>1. /\ job[t].op = "write" /\ job' = [job EXCEPT ![t] = j]
      /\ UNCHANGED <<numDescriptors, allocated, searchStart, owner>>
  BY DEF WriteDescriptor
<1>2. j.owner = job[t].owner /\ j.op = "handle"
  OBVIOUS
<1> HIDE DEF j
<1> QED
  BY <1>1, <1>2, GoesOn

LEMMA CopyStep ==
  ASSUME HeapInv, NEW t \in Threads, CopyToShaderVisibleHeap(t)
  PROVE  HeapInv'
<1>1. /\ job[t].op = "copy" /\ job' = [job EXCEPT ![t] = Idle]
      /\ UNCHANGED <<numDescriptors, allocated, searchStart, owner>>
  BY DEF CopyToShaderVisibleHeap
<1>2. Idle.op = "idle"
  BY DEF Idle
<1> QED
  BY <1>1, <1>2, GoesOn

\* Nobody works on an owner that is not busy.
LEMMA NotBusy ==
  ASSUME NEW o, ~Busy(o)
  PROVE  \A u \in Threads : job[u].op # "idle" => job[u].owner # o
  BY DEF Busy

LEMMA WriteDescriptorTableStep ==
  ASSUME HeapInv, NEW t \in Threads, NEW o \in Tables, NEW slot \in Descriptors(0, MaxCapacity),
         NEW r \in Resources, WriteDescriptorTable(t, o, slot, r)
  PROVE  HeapInv'
<1> DEFINE j == [op |-> "write", owner |-> o, slots |-> <<slot>>, done |-> <<>>, heap |-> generation]
           wants == [owner[o].wants EXCEPT ![slot + 1] = r]
<1>1. /\ o \in Owners /\ slot \in Nat /\ r \in Entries
      /\ owner \in [Owners -> OwnerRecords]
      /\ owner[o].first \in Nat /\ owner[o].wants \in Seq(Entries)
  <2>1. o \in Owners /\ r \in Entries
    BY DEF Owners, Entries
  <2>2. slot \in Nat
    BY DEF Descriptors
  <2>3. owner \in [Owners -> OwnerRecords]
    BY DEF HeapInv
  <2> QED
    BY <2>1, <2>2, <2>3 DEF OwnerRecords
<1>2. /\ job[t] = Idle /\ owner[o].kind = "table" /\ ~Busy(o) /\ slot < Len(owner[o].wants)
      /\ job' = [job EXCEPT ![t] = j] /\ UNCHANGED <<numDescriptors, allocated, searchStart>>
      /\ owner' = [owner EXCEPT ![o].wants = wants]
  BY DEF WriteDescriptorTable, heapVars
<1>3. wants \in Seq(Entries) /\ Len(wants) = Len(owner[o].wants)
  BY <1>1, <1>2
<1> HIDE DEF wants
<1>4. /\ owner' \in [Owners -> OwnerRecords]
      /\ owner'[o] = [owner[o] EXCEPT !.wants = wants]
      /\ \A p \in Owners \ {o} : owner'[p] = owner[p]
  BY <1>1, <1>2, <1>3 DEF OwnerRecords
<1>5. owner'[o].kind = "table" /\ owner'[o].first = owner[o].first /\ owner'[o].wants = wants
  <2>1. owner[o] \in OwnerRecords
    BY <1>1
  <2> QED
    BY <1>2, <1>4, <2>1 DEF OwnerRecords
<1>6. JobsOK'
  <2>1. j.op = "write" /\ j.owner = o
    OBVIOUS
  <2>2. \A p \in Owners : owner'[p].kind = "none" => owner[p].kind = "none"
    BY <1>4, <1>5
  <2>3. \A u \in Threads \ {t} : job[u].op = "reallocate" => owner'[job[u].owner] = owner[job[u].owner]
    BY <1>2, <1>4, NotBusy DEF HeapInv, JobsOK
  <2> HIDE DEF j
  <2> QED
    BY <1>1, <1>2, <1>5, <2>1, <2>2, <2>3, NotBusy, JobsAfter
<1>7. \A p \in Owners : OwnRange(p)' = OwnRange(p)
  BY <1>3, <1>4, <1>5 DEF OwnRange
<1>8. \A u \in Threads : OldRange(u)' = OldRange(u)
  BY <1>2, JobOf DEF OldRange, Idle
<1>9. Partitioned(allocated, Own, Old)'
  BY <1>2, <1>7, <1>8, SameRanges
<1> QED
  BY <1>2, <1>4, <1>6, <1>9 DEF HeapInv

LEMMA KeepTableStep ==
  ASSUME HeapInv, NEW t \in Threads, NEW o \in Tables, NEW n \in 0..MaxCapacity, KeepTable(t, o, n)
  PROVE  HeapInv'
<1> DEFINE j == [op |-> "reallocate", owner |-> o, count |-> n]
<1>1. /\ job[t] = Idle /\ owner[o].kind = "table" /\ ~Busy(o) /\ n > Capacity(o)
      /\ job' = [job EXCEPT ![t] = j] /\ UNCHANGED <<numDescriptors, allocated, searchStart, owner>>
  BY DEF KeepTable, Resizable, heapVars
<1>2. o \in Owners /\ n \in Nat /\ Capacity(o) \in Nat
  BY DEF Owners, HeapInv, OwnerRecords, Capacity
<1>3. JobsOK'
  <2>1. j.op = "reallocate" /\ j.owner = o /\ j.count = n
    OBVIOUS
  <2>2. Capacity(o)' = Capacity(o)
    BY <1>1 DEF Capacity
  <2> HIDE DEF j
  <2>3. j.count \in Nat /\ j.count >= Capacity(j.owner)'
    BY <1>1, <1>2, <2>1, <2>2
  <2> QED
    BY <1>1, <1>2, <2>1, <2>3, NotBusy, JobsAfter
<1>4. \A p \in Owners : OwnRange(p)' = OwnRange(p)
  BY <1>1 DEF OwnRange
<1>5. \A u \in Threads : OldRange(u)' = OldRange(u)
  BY <1>1, JobOf DEF OldRange, Idle
<1>6. Partitioned(allocated, Own, Old)'
  BY <1>1, <1>4, <1>5, SameRanges
<1> QED
  BY <1>1, <1>3, <1>6 DEF HeapInv

LEMMA MoveTableStep ==
  ASSUME HeapInv, NEW t \in Threads, MoveTable(t)
  PROVE  HeapInv'
<1> DEFINE j == [op |-> "release", owner |-> job[t].owner, oldFirst |-> job[t].oldFirst, oldCount |-> job[t].oldCount]
<1>1. /\ job[t].op = "move" /\ job' = [job EXCEPT ![t] = j]
      /\ UNCHANGED <<numDescriptors, allocated, searchStart, owner>>
  BY DEF MoveTable
<1>2. /\ j.owner = job[t].owner /\ j.op = "release"
      /\ j.oldFirst = job[t].oldFirst /\ j.oldCount = job[t].oldCount
  OBVIOUS
<1> HIDE DEF j
<1>3. JobsOK'
  <2>1. /\ j.owner \in Owners /\ owner'[j.owner].kind # "none"
        /\ \A u \in Threads \ {t} : job[u].op # "idle" => job[u].owner # j.owner
        /\ j.oldFirst \in Nat /\ j.oldCount \in Nat
    BY <1>1, <1>2 DEF HeapInv, JobsOK
  <2> QED
    BY <1>1, <1>2, <2>1, JobsAfter
<1>4. \A p \in Owners : OwnRange(p)' = OwnRange(p)
  BY <1>1 DEF OwnRange
<1>5. \A u \in Threads : OldRange(u)' = OldRange(u)
  BY <1>1, <1>2, JobOf DEF OldRange
<1>6. Partitioned(allocated, Own, Old)'
  BY <1>1, <1>4, <1>5, SameRanges
<1> QED
  BY <1>1, <1>3, <1>6 DEF HeapInv

\* Steps of nobody's job.
LEMMA CreateDescriptorTableStep ==
  ASSUME HeapAssumption, HeapInv, NEW o \in Tables, CreateDescriptorTable(o)
  PROVE  HeapInv'
<1>1. o \in Owners /\ owner \in [Owners -> OwnerRecords]
  BY DEF Owners, HeapInv
<1>2. /\ owner[o] = NoOwner /\ owner' = [owner EXCEPT ![o] = [NoOwner EXCEPT !.kind = "table"]]
      /\ UNCHANGED <<numDescriptors, allocated, searchStart, job>>
  BY DEF CreateDescriptorTable, heapVars
<1>3. <<>> \in Seq(Entries)
  OBVIOUS
<1>4. owner' \in [Owners -> OwnerRecords] /\ \A p \in Owners \ {o} : owner'[p] = owner[p]
  BY <1>1, <1>2, <1>3 DEF OwnerRecords, NoOwner
<1>5. owner'[o].kind = "table" /\ owner'[o].first = 0 /\ owner'[o].wants = <<>>
  BY <1>1, <1>2 DEF NoOwner
<1>6. \A u \in Threads : job[u].op # "idle" => job[u].owner # o
  BY <1>2 DEF HeapInv, JobsOK, NoOwner
<1>7. JobsOK'
  BY <1>2, <1>4, <1>5, <1>6 DEF HeapInv, JobsOK, Capacity
<1>8. \A p \in Owners : OwnRange(p)' = OwnRange(p)
  BY <1>2, <1>4, <1>5 DEF OwnRange, NoOwner
<1>9. \A u \in Threads : OldRange(u)' = OldRange(u)
  BY <1>2 DEF OldRange
<1> QED
  BY <1>2, <1>4, <1>7, <1>8, <1>9, SameRanges DEF HeapInv

LEMMA ListStep ==
  ASSUME HeapInv, UNCHANGED <<numDescriptors, allocated, searchStart, owner, job>>
  PROVE  HeapInv'
<1>1. JobsOK'
  BY DEF HeapInv, JobsOK, Capacity
<1>2. \A p \in Owners : OwnRange(p)' = OwnRange(p)
  BY DEF OwnRange
<1>3. \A u \in Threads : OldRange(u)' = OldRange(u)
  BY DEF OldRange
<1> QED
  BY <1>1, <1>2, <1>3, SameRanges DEF HeapInv

-----------------------------------------------------------------------------
(* Steps that release descriptors.                                          *)

\* An owner that nobody works on gives up the end of its range, or all of it.
LEMMA GivesRange ==
  ASSUME HeapInv, NEW o \in Owners, NEW first \in Nat, NEW n \in Nat,
         ReleaseDescriptors(first, n), Descriptors(first, n) \subseteq OwnRange(o),
         OwnRange(o)' = OwnRange(o) \ Descriptors(first, n),
         \A p \in Owners \ {o} : owner'[p] = owner[p],
         \A u \in Threads : OldRange(u)' = OldRange(u)
  PROVE  Partitioned(allocated, Own, Old)'
<1> DEFINE R == Descriptors(first, n)
<1>1. Own[o] = OwnRange(o) /\ Own'[o] = Own[o] \ R /\ R \subseteq Own[o]
  BY DEF Own
<1>2. \A p \in Owners \ {o} : Own'[p] = Own[p]
  BY DEF Own, OwnRange
<1>3. Old' = Old
  BY DEF Old
<1>4. allocated' = allocated \ R
  BY Releasing
<1> HIDE DEF R
<1>5. Partitioned(allocated \ R, Own', Old)
  BY <1>1, <1>2, PartitionedGive DEF HeapInv
<1> QED
  BY <1>3, <1>4, <1>5 DEF Partitioned

\* What an owner holds, typed.
LEMMA OwnerTyped ==
  ASSUME HeapInv, NEW o \in Owners
  PROVE  /\ owner[o] \in OwnerRecords
         /\ owner[o].first \in Nat /\ owner[o].wants \in Seq(Entries)
         /\ Capacity(o) \in Nat /\ Capacity(o) = Len(owner[o].wants)
         /\ OwnRange(o) = Descriptors(owner[o].first, Capacity(o))
<1>1. owner[o] \in OwnerRecords
  BY DEF HeapInv
<1> QED
  BY <1>1 DEF OwnerRecords, Capacity, OwnRange

\* The owners after one of them changed.
LEMMA OwnersAfter ==
  ASSUME HeapInv, NEW o \in Owners, NEW r \in OwnerRecords, owner' = [owner EXCEPT ![o] = r]
  PROVE  /\ owner' \in [Owners -> OwnerRecords]
         /\ owner'[o] = r
         /\ \A p \in Owners \ {o} : owner'[p] = owner[p]
  BY DEF HeapInv

LEMMA NoOwnerTyped == NoOwner \in OwnerRecords /\ [NoOwner EXCEPT !.kind = "table"] \in OwnerRecords
<1>1. <<>> \in Seq(Entries)
  OBVIOUS
<1> QED
  BY <1>1 DEF NoOwner, OwnerRecords

LEMMA DestroyStep ==
  ASSUME HeapInv, NEW o \in Owners, Destroy(o)
  PROVE  HeapInv'
<1>1. /\ ~Busy(o) /\ ReleaseDescriptors(owner[o].first, Capacity(o))
      /\ owner' = [owner EXCEPT ![o] = NoOwner] /\ job' = job
  BY DEF Destroy, Capacity
<1>2. /\ owner' \in [Owners -> OwnerRecords] /\ owner'[o] = NoOwner
      /\ \A p \in Owners \ {o} : owner'[p] = owner[p]
  BY <1>1, NoOwnerTyped, OwnersAfter
<1>3. JobsOK'
  BY <1>1, <1>2, NotBusy DEF HeapInv, JobsOK, Capacity
<1>4. \A u \in Threads : OldRange(u)' = OldRange(u)
  BY <1>1 DEF OldRange
<1>5. OwnRange(o)' = {}
  BY <1>2 DEF OwnRange, NoOwner, Descriptors
<1>6. Partitioned(allocated, Own, Old)'
  BY <1>1, <1>2, <1>4, <1>5, OwnerTyped, GivesRange
<1> QED
  BY <1>1, <1>2, <1>3, <1>6, OwnerTyped, Releasing DEF HeapInv

LEMMA ShrinkTableStep ==
  ASSUME HeapInv, NEW t \in Threads, NEW o \in Tables, NEW n \in 0..MaxCapacity, ShrinkTable(t, o, n)
  PROVE  HeapInv'
<1> DEFINE first == owner[o].first
           wants == SubSeq(owner[o].wants, 1, n)
           r == [owner[o] EXCEPT !.wants = wants]
<1>1. o \in Owners /\ n \in Nat
  BY DEF Owners
<1>2. /\ ~Busy(o) /\ n < Capacity(o)
      /\ ReleaseDescriptors(first + n, Capacity(o) - n)
      /\ owner' = [owner EXCEPT ![o].wants = wants] /\ job' = job
  BY DEF ShrinkTable, Resizable
<1>3. wants \in Seq(Entries) /\ Len(wants) = n
  BY <1>1, <1>2, OwnerTyped
<1> HIDE DEF wants
<1>4. r \in OwnerRecords /\ r.first = first /\ r.wants = wants /\ r.kind = owner[o].kind
  BY <1>1, <1>3, OwnerTyped DEF OwnerRecords
<1>5. owner' = [owner EXCEPT ![o] = r]
  BY <1>1, <1>2
<1> HIDE DEF r
<1>6. /\ owner' \in [Owners -> OwnerRecords] /\ owner'[o] = r
      /\ \A p \in Owners \ {o} : owner'[p] = owner[p]
  BY <1>1, <1>4, <1>5, OwnersAfter
<1>7. JobsOK'
  BY <1>2, <1>4, <1>6, NotBusy DEF HeapInv, JobsOK, Capacity
<1>8. \A u \in Threads : OldRange(u)' = OldRange(u)
  BY <1>2 DEF OldRange
<1>9. OwnRange(o) = Descriptors(first, Capacity(o)) /\ OwnRange(o)' = Descriptors(first, n)
  BY <1>1, <1>3, <1>4, <1>6, OwnerTyped DEF OwnRange
<1>10. first \in Nat /\ Capacity(o) \in Nat
  BY <1>1, OwnerTyped
<1> HIDE DEF first
<1>11. /\ Descriptors(first + n, Capacity(o) - n) \subseteq OwnRange(o)
       /\ OwnRange(o)' = OwnRange(o) \ Descriptors(first + n, Capacity(o) - n)
       /\ first + n \in Nat /\ Capacity(o) - n \in Nat
  BY <1>1, <1>2, <1>9, <1>10 DEF Descriptors
<1>12. Partitioned(allocated, Own, Old)'
  BY <1>1, <1>2, <1>6, <1>8, <1>11, GivesRange
<1> QED
  BY <1>2, <1>6, <1>7, <1>11, <1>12, Releasing DEF HeapInv

LEMMA DiscardTableStep ==
  ASSUME HeapInv, NEW t \in Threads, NEW o \in Tables, NEW n \in 0..MaxCapacity, DiscardTable(t, o, n)
  PROVE  HeapInv'
<1> DEFINE r == [NoOwner EXCEPT !.kind = "table"]
           j == [op |-> "reallocate", owner |-> o, count |-> n]
<1>1. o \in Owners /\ n \in Nat
  BY DEF Owners
<1>2. /\ ~Busy(o) /\ job[t] = Idle /\ ReleaseDescriptors(owner[o].first, Capacity(o))
      /\ owner' = [owner EXCEPT ![o] = r] /\ job' = [job EXCEPT ![t] = j]
  BY DEF DiscardTable, Resizable
<1>3. r.kind = "table" /\ r.first = 0 /\ r.wants = <<>>
  BY DEF NoOwner
<1>4. j.op = "reallocate" /\ j.owner = o /\ j.count = n
  OBVIOUS
<1>5. r \in OwnerRecords
  BY NoOwnerTyped
<1> HIDE DEF r, j
<1>6. /\ owner' \in [Owners -> OwnerRecords] /\ owner'[o] = r
      /\ \A p \in Owners \ {o} : owner'[p] = owner[p]
  BY <1>1, <1>2, <1>5, OwnersAfter
<1>7. JobsOK'
  <2>1. \A p \in Owners : owner'[p].kind = "none" => owner[p].kind = "none"
    BY <1>3, <1>6
  <2>2. \A u \in Threads \ {t} : job[u].op = "reallocate" => owner'[job[u].owner] = owner[job[u].owner]
    BY <1>2, <1>6, NotBusy DEF HeapInv, JobsOK
  <2>3. j.count \in Nat /\ j.count >= Capacity(j.owner)'
    BY <1>1, <1>3, <1>4, <1>6 DEF Capacity
  <2> QED
    BY <1>1, <1>2, <1>3, <1>4, <1>6, <2>1, <2>2, <2>3, NotBusy, JobsAfter, ZenonT(40)
<1>8. \A u \in Threads : OldRange(u)' = OldRange(u)
  BY <1>2, <1>4, JobOf DEF OldRange, Idle
<1>9. OwnRange(o)' = {}
  BY <1>3, <1>6 DEF OwnRange, Descriptors
<1>10. Partitioned(allocated, Own, Old)'
  BY <1>1, <1>2, <1>6, <1>8, <1>9, OwnerTyped, GivesRange
<1> QED
  BY <1>1, <1>2, <1>6, <1>7, <1>10, OwnerTyped, Releasing DEF HeapInv

LEMMA ReleaseOldRangeStep ==
  ASSUME HeapInv, NEW t \in Threads, ReleaseOldRange(t)
  PROVE  HeapInv'
<1>1. /\ job[t].op = "release" /\ ReleaseDescriptors(job[t].oldFirst, job[t].oldCount)
      /\ job' = [job EXCEPT ![t] = Idle] /\ owner' = owner
  BY DEF ReleaseOldRange
<1>2. job[t].oldFirst \in Nat /\ job[t].oldCount \in Nat
  BY <1>1 DEF HeapInv, JobsOK
<1>3. /\ allocated' = allocated \ OldRange(t)
      /\ numDescriptors' \in Nat /\ searchStart' \in Nat
      /\ allocated' \subseteq Descriptors(0, numDescriptors)'
  BY <1>1, <1>2, Releasing DEF OldRange
<1>4. JobsOK'
  <2>1. Idle.op = "idle"
    BY DEF Idle
  <2> QED
    BY <1>1, <2>1, JobsAfter
<1>5. Own' = Own
  BY <1>1 DEF Own, OwnRange
<1>6. Old[t] = OldRange(t) /\ Old'[t] = {} /\ \A u \in Threads \ {t} : Old'[u] = Old[u]
  BY <1>1, JobOf DEF Old, OldRange, Idle
<1>7. Partitioned(allocated \ Old[t], Own, Old')
  BY <1>6, PartitionedDrop DEF HeapInv
<1>8. Partitioned(allocated, Own, Old)'
  BY <1>3, <1>5, <1>6, <1>7 DEF Partitioned
<1> QED
  BY <1>1, <1>3, <1>4, <1>8 DEF HeapInv

-----------------------------------------------------------------------------
(* A table gets its new range.                                              *)

LEMMA ReallocateTableStep ==
  ASSUME HeapAssumption, HeapInv, NEW t \in Threads, ReallocateTable(t)
  PROVE  HeapInv'
<1> DEFINE o == job[t].owner
           n == job[t].count
           c == Capacity(o)
           wants == owner[o].wants \o UnwrittenRange(n - Len(owner[o].wants))
           moving == [op |-> "move", owner |-> o, oldFirst |-> owner[o].first, oldCount |-> c, heap |-> generation']
           j == IF c = 0 THEN Idle ELSE moving
<1>1. /\ job[t].op = "reallocate" /\ o \in Owners /\ owner[o].kind # "none"
      /\ n \in Nat /\ n >= c
      /\ \A u \in Threads \ {t} : job[u].op # "idle" => job[u].owner # o
  BY DEF ReallocateTable, HeapInv, JobsOK
<1>2. PICK found \in 0..MaxSize :
        /\ AllocateDescriptors(n, found)
        /\ owner' = [owner EXCEPT ![o].first = found, ![o].wants = wants]
        /\ job' = [job EXCEPT ![t] = j]
  BY DEF ReallocateTable
<1>3. found \in Nat
  BY DEF HeapAssumption
<1>4. /\ owner[o] \in OwnerRecords /\ owner[o].first \in Nat /\ owner[o].wants \in Seq(Entries)
      /\ c \in Nat /\ c = Len(owner[o].wants) /\ OwnRange(o) = Descriptors(owner[o].first, c)
  BY <1>1, OwnerTyped
<1>5. wants \in Seq(Entries) /\ Len(wants) = n
  <2>1. n - c \in Nat /\ Unwritten \in Entries
    BY <1>1, <1>4 DEF Entries
  <2>2. UnwrittenRange(n - c) \in Seq(Entries) /\ Len(UnwrittenRange(n - c)) = n - c
    BY <2>1 DEF UnwrittenRange
  <2>3. \A a, b \in Seq(Entries) : a \o b \in Seq(Entries) /\ Len(a \o b) = Len(a) + Len(b)
    OBVIOUS
  <2> DEFINE more == UnwrittenRange(n - c)
  <2>4. wants = owner[o].wants \o more
    BY <1>4
  <2>5. more \in Seq(Entries) /\ Len(more) = n - c
    BY <2>2
  <2> HIDE DEF n, c, more, wants
  <2> QED
    BY <1>1, <1>4, <2>3, <2>4, <2>5
<1> DEFINE r == [owner[o] EXCEPT !.first = found, !.wants = wants]
<1>6. /\ job[t].op # "idle"
      /\ j.op # "idle" => c # 0 /\ j = moving
      /\ j.op # "reallocate"
      /\ c = 0 => j.op = "idle"
      /\ moving.op = "move" /\ moving.owner = o /\ moving.oldFirst = owner[o].first /\ moving.oldCount = c
  BY <1>1 DEF Idle
<1> HIDE DEF wants, j, moving, n, c, o
<1>7. r \in OwnerRecords /\ r.kind = owner[o].kind /\ r.first = found /\ r.wants = wants
  BY <1>3, <1>4, <1>5 DEF OwnerRecords
<1>8. owner' = [owner EXCEPT ![o] = r]
  BY <1>1, <1>2
<1> HIDE DEF r
<1>9. /\ owner' \in [Owners -> OwnerRecords] /\ owner'[o] = r
      /\ \A p \in Owners \ {o} : owner'[p] = owner[p]
  BY <1>1, <1>7, <1>8, OwnersAfter
<1>10. JobsOK'
  <2>1. \A p \in Owners : owner'[p].kind = "none" => owner[p].kind = "none"
    BY <1>7, <1>9
  <2>2. \A u \in Threads \ {t} : job[u].op = "reallocate" => owner'[job[u].owner] = owner[job[u].owner]
    BY <1>1, <1>9 DEF HeapInv, JobsOK
  <2>3. j.op # "idle" => /\ j.owner \in Owners /\ owner'[j.owner].kind # "none"
                         /\ \A u \in Threads \ {t} : job[u].op # "idle" => job[u].owner # j.owner
                         /\ j.oldFirst \in Nat /\ j.oldCount \in Nat
    BY <1>1, <1>4, <1>6, <1>7, <1>9
  <2> QED
    BY <1>2, <1>6, <2>1, <2>2, <2>3, JobsAfter
<1>11. Descriptors(found, n) \cap allocated = {} /\ allocated' = allocated \cup Descriptors(found, n)
  BY <1>1, <1>2, <1>3, Allocation
<1>12. Own[o] = Descriptors(owner[o].first, c) /\ Own'[o] = Descriptors(found, n)
  BY <1>1, <1>4, <1>5, <1>7, <1>9 DEF Own, OwnRange
<1>13. \A p \in Owners \ {o} : Own'[p] = Own[p]
  BY <1>9 DEF Own, OwnRange
<1>14. Old[t] = {} /\ Old'[t] = IF c = 0 THEN {} ELSE Own[o]
  <2>1. Old[t] = {}
    BY <1>1 DEF Old, OldRange
  <2>2. job'[t] = j
    BY <1>2, JobOf
  <2>3. CASE c = 0
    <3>1. j.op = "idle"
      BY <1>6, <2>3
    <3> QED
      BY <2>1, <2>2, <2>3, <3>1 DEF Old, OldRange
  <2>4. CASE c # 0
    <3>1. j = moving
      BY <2>4 DEF j
    <3>2. OldRange(t)' = Descriptors(owner[o].first, c)
      BY <1>6, <2>2, <3>1 DEF OldRange
    <3> QED
      BY <1>12, <2>1, <2>4, <3>2 DEF Old
  <2> QED
    BY <2>3, <2>4
<1>15. \A u \in Threads \ {t} : Old'[u] = Old[u]
  BY <1>2, JobOf DEF Old, OldRange
<1>16. c = 0 => Own[o] = {}
  BY <1>4, <1>12 DEF Descriptors
<1>17. Partitioned(allocated \cup Descriptors(found, n), Own', Old')
  <2> DEFINE R == Descriptors(found, n)
  <2>1. Old'[t] = Own[o] /\ Own'[o] = R /\ R \cap allocated = {}
    BY <1>11, <1>12, <1>14, <1>16
  <2> HIDE DEF R
  <2> QED
    BY <1>1, <1>13, <1>14, <1>15, <2>1, PartitionedMove DEF HeapInv, R
<1>18. Partitioned(allocated, Own, Old)'
  BY <1>11, <1>17 DEF Partitioned
<1> QED
  BY <1>1, <1>2, <1>3, <1>9, <1>10, <1>18, Allocation DEF HeapInv

-----------------------------------------------------------------------------
(* The theorem.                                                             *)

LEMMA HeapInvNext == ASSUME HeapAssumption, HeapInv, [Next]_vars PROVE HeapInv'
<1>1. ASSUME NEW t \in Threads, NEW o \in Sets, CreateBindingSet(t, o) PROVE HeapInv'
  BY <1>1, CreateBindingSetStep
<1>2. ASSUME NEW t \in Threads, TakeHandle(t) PROVE HeapInv'
  BY <1>2, TakeHandleStep
<1>3. ASSUME NEW t \in Threads, WriteDescriptor(t) PROVE HeapInv'
  BY <1>3, WriteDescriptorStep
<1>4. ASSUME NEW t \in Threads, CopyToShaderVisibleHeap(t) PROVE HeapInv'
  BY <1>4, CopyStep
<1>5. ASSUME NEW t \in Threads, NEW o \in Tables, NEW slot \in Descriptors(0, MaxCapacity), NEW r \in Resources,
             WriteDescriptorTable(t, o, slot, r)
      PROVE  HeapInv'
  BY <1>5, WriteDescriptorTableStep
<1>6. ASSUME NEW t \in Threads, NEW o \in Tables, NEW n \in 0..MaxCapacity,
             ShrinkTable(t, o, n) \/ DiscardTable(t, o, n) \/ KeepTable(t, o, n)
      PROVE  HeapInv'
  BY <1>6, ShrinkTableStep, DiscardTableStep, KeepTableStep
<1>7. ASSUME NEW t \in Threads, ReallocateTable(t) PROVE HeapInv'
  BY <1>7, ReallocateTableStep
<1>8. ASSUME NEW t \in Threads, MoveTable(t) PROVE HeapInv'
  BY <1>8, MoveTableStep
<1>9. ASSUME NEW t \in Threads, ReleaseOldRange(t) PROVE HeapInv'
  BY <1>9, ReleaseOldRangeStep
<1>10. ASSUME NEW o \in Tables, CreateDescriptorTable(o) PROVE HeapInv'
  BY <1>10, CreateDescriptorTableStep
<1>11. ASSUME NEW o \in Owners, Destroy(o) PROVE HeapInv'
  BY <1>11, DestroyStep
<1>12. ASSUME NEW l \in Lists, Finish(l) \/ \E o \in Owners : Bind(l, o) PROVE HeapInv'
  <2>1. UNCHANGED <<numDescriptors, allocated, searchStart, owner, job>>
    BY <1>12 DEF Finish, Bind, heapVars
  <2> QED
    BY <2>1, ListStep
<1>13. CASE UNCHANGED vars
  <2>1. UNCHANGED <<numDescriptors, allocated, searchStart, owner, job>>
    BY <1>13 DEF vars, heapVars
  <2> QED
    BY <2>1, ListStep
<1> QED
  BY <1>1, <1>2, <1>3, <1>4, <1>5, <1>6, <1>7, <1>8, <1>9, <1>10, <1>11, <1>12, <1>13 DEF Next

\* The shares of owners and threads are what LiveRangesDisjoint counts: a
\* table that moves is worked on by one thread.
LEMMA HeapInvImpliesDisjoint == ASSUME HeapInv PROVE LiveRangesDisjoint
<1>1. Partitioned(allocated, Own, Old) /\ JobsOK
  BY DEF HeapInv
<1>2. \A o \in Owners : Own[o] = OwnRange(o)
  BY DEF Own
<1>3. \A t \in Threads : Old[t] = OldRange(t)
  BY DEF Old
<1>4. ASSUME NEW o \in Owners, NEW i \in OldRanges(o)
      PROVE  \E t \in Threads : job[t].op # "idle" /\ job[t].owner = o /\ i \in Old[t]
  BY <1>3, <1>4 DEF OldRanges
<1>5. ASSUME NEW t \in Threads, NEW i \in Old[t]
      PROVE  job[t].owner \in Owners /\ i \in OldRanges(job[t].owner)
  BY <1>1, <1>3, <1>5 DEF OldRanges, OldRange, JobsOK
<1>6. allocated = UNION {Held(o) : o \in Owners}
  <2>1. ASSUME NEW i \in allocated PROVE \E o \in Owners : i \in Held(o)
    BY <1>1, <1>2, <1>5, <2>1 DEF Partitioned, Held
  <2>2. ASSUME NEW o \in Owners, NEW i \in Held(o) PROVE i \in allocated
    BY <1>1, <1>2, <1>4, <2>2 DEF Partitioned, Held
  <2> QED
    BY <2>1, <2>2
<1>7. \A o, p \in Owners : o # p => Held(o) \cap Held(p) = {}
  <2> SUFFICES ASSUME NEW o \in Owners, NEW p \in Owners, o # p, NEW i \in Held(o), i \in Held(p) PROVE FALSE
    OBVIOUS
  <2> QED
    BY <1>1, <1>2, <1>4 DEF Partitioned, Held
<1>8. \A o \in Owners : OwnRange(o) \cap OldRanges(o) = {}
  BY <1>1, <1>2, <1>4 DEF Partitioned
<1> QED
  BY <1>6, <1>7, <1>8 DEF LiveRangesDisjoint, HeapInv

\* Whatever threads allocate, resize, move and release in between each other,
\* for any number of them and a heap of any size, no descriptor belongs to two
\* owners and none is lost: StaticDescriptorHeap::allocateDescriptors and
\* releaseDescriptors with their callers.
THEOREM DescriptorsOwnedOnce == ASSUME HeapAssumption PROVE Spec => []LiveRangesDisjoint
<1>1. Init => HeapInv
  BY HeapInvInit
<1>2. HeapInv /\ [Next]_vars => HeapInv'
  BY HeapInvNext
<1>3. HeapInv => LiveRangesDisjoint
  BY HeapInvImpliesDisjoint
<1> QED
  BY <1>1, <1>2, <1>3, PTL DEF Spec
-----------------------------------------------------------------------------
(* What the heaps hold.                                                     *)

\* A descriptor is shown in a heap if the heap holds what the owner wants there.
Slots(o) == Descriptors(0, Len(owner[o].wants))
Shown(heap, o, s) ==
    owner[o].wants[s + 1] # Unwritten => heap[owner[o].first + s] = owner[o].wants[s + 1]
ShownBoth(o, s) == Shown(cpu, o, s) /\ Shown(visible[generation + 1], o, s)
Shows(o) == \A s \in Slots(o) : ShownBoth(o, s)

\* A thread that fills descriptors has written those it is done with, and the
\* ones it will not write are shown.
Fills(j) == j.op \in {"handle", "write", "copy"}
Remaining(j) == IF j.op = "copy" THEN {} ELSE ToSet(j.slots)
FillOK(j) ==
    /\ j.op # "handle" => j.heap = generation
    /\ j.op = "write" => j.slots # <<>>
    /\ j.op # "copy" => j.slots \in Seq(Slots(j.owner))
    /\ j.done \in Seq(Slots(j.owner))
    /\ \A s \in Slots(j.owner) :
         /\ s \in ToSet(j.done) => Shown(cpu, j.owner, s)
         /\ s \notin ToSet(j.done) \cup Remaining(j) => ShownBoth(j.owner, s)

\* A table that moves has in its old range what it will show in the new one.
MoveOK(j) ==
    /\ j.heap = generation /\ j.oldCount <= Len(owner[j.owner].wants)
    /\ \A s \in Slots(j.owner) :
         owner[j.owner].wants[s + 1] # Unwritten =>
            s < j.oldCount /\ cpu[j.oldFirst + s] = owner[j.owner].wants[s + 1]

JobShown(j) ==
    /\ Fills(j) => FillOK(j)
    /\ j.op = "move" => MoveOK(j)
    /\ j.op \in {"reallocate", "release"} => Shows(j.owner)

\* A list points to its owner's range. In an older heap, which nobody writes any
\* more, that range shows what the owner wants.
ListOK(b) ==
    /\ b.owner \in Owners /\ owner[b.owner].kind # "none"
    /\ b.heap \in 0..generation /\ b.first = owner[b.owner].first
    /\ b.heap # generation =>
         ~Busy(b.owner) /\ \A s \in Slots(b.owner) : Shown(visible[b.heap + 1], b.owner, s)
    /\ \A t \in Threads : job[t].op # "idle" /\ job[t].owner = b.owner =>
         Fills(job[t]) /\ owner[b.owner].kind = "table"

HeapShape ==
    /\ generation \in Nat
    /\ cpu = [i \in Descriptors(0, numDescriptors) |-> cpu[i]]
    /\ visible = [g \in 1..(generation + 1) |-> visible[g]]
    /\ visible[generation + 1] = [i \in Descriptors(0, numDescriptors) |-> visible[generation + 1][i]]
    /\ list = [l \in Lists |-> list[l]]
    /\ \A o \in Owners : owner[o].kind = "none" => owner[o].wants = <<>>

ShownInv ==
    /\ HeapInv /\ HeapShape
    /\ \A o \in Owners : ~Busy(o) => Shows(o)
    /\ \A t \in Threads : JobShown(job[t])
    /\ \A l \in Lists : list[l] # NotBound => ListOK(list[l])

\* the hazards the theorem leaves to the application
Careful == {"GrowWhileFilling", "TableInUse", "WriteAfterGrow"} \subseteq Avoided

\* Cells of owners are in the heap, and apart from each other and from old ranges.
LEMMA Cells ==
  ASSUME HeapInv
  PROVE  /\ \A o \in Owners : \A s \in Slots(o) :
              /\ s \in Nat
              /\ owner[o].first + s \in OwnRange(o)
              /\ owner[o].first + s \in Descriptors(0, numDescriptors)
         /\ \A o, p \in Owners : o # p => OwnRange(o) \cap OwnRange(p) = {}
         /\ \A o \in Owners, t \in Threads : OwnRange(o) \cap OldRange(t) = {}
         /\ \A t, u \in Threads : t # u => OldRange(t) \cap OldRange(u) = {}
         /\ \A t \in Threads : OldRange(t) \subseteq Descriptors(0, numDescriptors)
<1>1. /\ \A o \in Owners : OwnRange(o) = Own[o]
      /\ \A t \in Threads : OldRange(t) = Old[t]
  BY DEF Own, Old
<1>2. ASSUME NEW o \in Owners, NEW s \in Slots(o)
      PROVE  /\ s \in Nat
             /\ owner[o].first + s \in OwnRange(o)
             /\ owner[o].first + s \in Descriptors(0, numDescriptors)
  <2>1. owner[o].first \in Nat /\ Len(owner[o].wants) \in Nat
    BY OwnerTyped
  <2>2. s \in Nat /\ owner[o].first + s \in OwnRange(o)
    BY <2>1 DEF Slots, OwnRange, Descriptors
  <2> QED
    BY <1>1, <2>2 DEF HeapInv, Partitioned
<1> QED
  BY <1>1, <1>2 DEF HeapInv, Partitioned

\* A step leaves the heaps as they are but for the descriptors R, or the heap
\* grows: not while it is being filled, and what lists refer to stays.
HeapStep(R) ==
    /\ cpu' = [i \in Descriptors(0, numDescriptors') |-> cpu'[i]]
    /\ visible' = [g \in 1..(generation' + 1) |-> visible'[g]]
    /\ visible'[generation' + 1] = [i \in Descriptors(0, numDescriptors') |-> visible'[generation' + 1][i]]
    /\ \A i \in Descriptors(0, numDescriptors) \ R : cpu'[i] = cpu[i]
    /\ \A l \in Lists : list[l] # NotBound /\ list[l].heap # generation =>
            visible'[list[l].heap + 1] = visible[list[l].heap + 1]
    /\ \/ /\ generation' = generation
          /\ \A i \in Descriptors(0, numDescriptors) \ R :
                visible'[generation + 1][i] = visible[generation + 1][i]
       \/ /\ generation' = generation + 1 /\ Filling = {}
          /\ visible'[generation' + 1] = cpu'
          /\ \A l \in Lists : list[l] # NotBound => visible'[list[l].heap + 1] = visible[list[l].heap + 1]

\* A step works on owner o, by the threads in T, if by any.
WorksOn(o, T) ==
    /\ HeapStep(OwnRange(o))
    /\ \A u \in Threads \ T : job'[u] = job[u] /\ (job[u].op # "idle" => job[u].owner # o)
    /\ \A u \in T : /\ job[u].op # "idle" => job[u].owner = o
                    /\ job'[u].op # "idle" => job'[u].owner = o
    /\ \A p \in Owners \ {o} : owner'[p] = owner[p]
    /\ list' = list

\* What a step keeps of an owner it does not work on.
Kept(p) ==
    /\ owner'[p] = owner[p]
    /\ \A s \in Slots(p) : /\ Shown(cpu, p, s) => Shown(cpu, p, s)'
                           /\ ShownBoth(p, s) => ShownBoth(p, s)'

LEMMA StepKeeps ==
  ASSUME ShownInv, NEW o \in Owners, NEW T \in SUBSET Threads, WorksOn(o, T)
  PROVE  /\ \A p \in Owners \ {o} : Kept(p)
         /\ \A u \in Threads \ T : \A i \in OldRange(u) : cpu'[i] = cpu[i]
         /\ generation' = generation \/ (Filling = {} /\ generation' = generation + 1)
<1>1. ASSUME NEW p \in Owners \ {o} PROVE Kept(p)
  <2> SUFFICES ASSUME NEW s \in Slots(p)
               PROVE  /\ Shown(cpu, p, s) => Shown(cpu, p, s)'
                      /\ ShownBoth(p, s) => ShownBoth(p, s)'
    BY DEF WorksOn, Kept
  <2> DEFINE i == owner[p].first + s
  <2>1. i \in Descriptors(0, numDescriptors) \ OwnRange(o)
    BY Cells DEF ShownInv
  <2>2. cpu'[i] = cpu[i] /\ owner'[p] = owner[p]
    BY <2>1 DEF WorksOn, HeapStep
  <2>3. Shown(cpu, p, s) => Shown(cpu, p, s)'
    BY <2>2 DEF Shown
  <2>4. visible'[generation' + 1][i] \in {visible[generation + 1][i], cpu'[i]}
    BY <2>1 DEF WorksOn, HeapStep
  <2>5. ShownBoth(p, s) => Shown(visible[generation + 1], p, s)'
    <3> HIDE DEF i
    <3>1. Shown(visible[generation + 1], p, s)' <=>
            (owner[p].wants[s + 1] # Unwritten => visible'[generation' + 1][i] = owner[p].wants[s + 1])
      BY <2>2 DEF Shown, i
    <3>2. ShownBoth(p, s) => (owner[p].wants[s + 1] # Unwritten =>
            visible[generation + 1][i] = owner[p].wants[s + 1] /\ cpu[i] = owner[p].wants[s + 1])
      BY DEF ShownBoth, Shown, i
    <3> QED
      BY <2>2, <2>4, <3>1, <3>2
  <2> QED
    BY <2>3, <2>5 DEF ShownBoth
<1>2. ASSUME NEW u \in Threads \ T, NEW i \in OldRange(u) PROVE cpu'[i] = cpu[i]
  BY Cells DEF WorksOn, HeapStep, ShownInv
<1> QED
  BY <1>1, <1>2 DEF WorksOn, HeapStep

LEMMA OthersShown ==
  ASSUME ShownInv, NEW o \in Owners, NEW T \in SUBSET Threads, WorksOn(o, T)
  PROVE  /\ \A p \in Owners \ {o} : ~Busy(p)' => Shows(p)'
         /\ \A u \in Threads \ T : JobShown(job[u])'
<1>1. ASSUME NEW p \in Owners \ {o} PROVE Busy(p)' <=> Busy(p)
  BY DEF WorksOn, Busy
<1>2. ASSUME NEW p \in Owners \ {o}, Shows(p) PROVE Shows(p)'
  <2>1. Kept(p)
    BY StepKeeps
  <2>2. Slots(p)' = Slots(p)
    BY <2>1 DEF Kept, Slots
  <2> QED
    BY <1>2, <2>1, <2>2 DEF Kept, Shows
<1>3. \A p \in Owners \ {o} : ~Busy(p)' => Shows(p)'
  BY <1>1, <1>2 DEF ShownInv
<1>4. ASSUME NEW u \in Threads \ T PROVE JobShown(job[u])'
  <2> DEFINE j == job[u]
             p == j.owner
  <2>1. job'[u] = j /\ JobShown(j)
    BY DEF WorksOn, ShownInv
  <2>2. CASE j.op = "idle"
    BY <2>1, <2>2 DEF JobShown, Fills
  <2>3. CASE j.op # "idle"
    <3>1. p \in Owners \ {o}
      BY <2>3 DEF WorksOn, ShownInv, HeapInv, JobsOK
    <3>2. Kept(p)
      BY <3>1, StepKeeps
    <3>3. Slots(p)' = Slots(p) /\ owner'[p] = owner[p]
      BY <2>1, <3>2 DEF Kept, Slots
    <3>4. j.op \in {"write", "copy", "move"} => generation' = generation
      BY StepKeeps DEF Filling
    <3>5. Fills(j) => FillOK(j)'
      <4> SUFFICES ASSUME Fills(j) PROVE FillOK(j)'
        OBVIOUS
      <4>1. FillOK(j)
        BY <2>1 DEF JobShown
      <4>2. j.op # "handle" => j.heap = generation'
        BY <3>4, <4>1 DEF FillOK, Fills
      <4>3. \A s \in Slots(p) : /\ s \in ToSet(j.done) => Shown(cpu, p, s)'
                                /\ s \notin ToSet(j.done) \cup Remaining(j) => ShownBoth(p, s)'
        BY <3>2, <4>1 DEF FillOK, Kept
      <4>4. j' = j
        BY <2>1
      <4>5. p' = p /\ Remaining(j)' = Remaining(j)
        BY <4>4 DEF Remaining
      <4> HIDE DEF p, j
      <4>6. /\ j.op = "write" => j.slots # <<>>
            /\ j.op # "copy" => j.slots \in Seq(Slots(p))
            /\ j.done \in Seq(Slots(p))
        BY <4>1 DEF FillOK, p
      <4>7. FillOK(j)' <=> /\ j.op # "handle" => j.heap = generation'
                           /\ j.op = "write" => j.slots # <<>>
                           /\ j.op # "copy" => j.slots \in Seq(Slots(p)')
                           /\ j.done \in Seq(Slots(p)')
                           /\ \A s \in Slots(p)' :
                                /\ s \in ToSet(j.done) => Shown(cpu, p, s)'
                                /\ s \notin ToSet(j.done) \cup Remaining(j) => ShownBoth(p, s)'
        BY <4>4, <4>5 DEF FillOK, p
      <4> QED
        BY <3>3, <4>2, <4>3, <4>6, <4>7
    <3>6. j.op = "move" => MoveOK(j)'
      <4> SUFFICES ASSUME j.op = "move" PROVE MoveOK(j)'
        OBVIOUS
      <4>1. MoveOK(j)
        BY <2>1 DEF JobShown
      <4>2. generation' = generation
        BY <3>4
      <4>3. j' = j
        BY <2>1
      <4>4. ASSUME NEW s \in Slots(p), owner[p].wants[s + 1] # Unwritten
            PROVE  s < j.oldCount /\ cpu'[j.oldFirst + s] = owner[p].wants[s + 1]
        <5>1. s < j.oldCount /\ cpu[j.oldFirst + s] = owner[p].wants[s + 1]
          BY <4>1, <4>4 DEF MoveOK
        <5>2. j.oldFirst \in Nat /\ j.oldCount \in Nat /\ s \in Nat
          BY <3>1, Cells DEF ShownInv, HeapInv, JobsOK
        <5>3. j.oldFirst + s \in OldRange(u)
          BY <5>1, <5>2 DEF OldRange, Descriptors
        <5> QED
          BY <5>1, <5>3, StepKeeps
      <4> QED
        BY <3>3, <4>1, <4>2, <4>3, <4>4 DEF MoveOK
    <3>7. j.op \in {"reallocate", "release"} => Shows(p)'
      BY <1>2, <2>1, <3>1 DEF JobShown
    <3> QED
      BY <2>1, <3>5, <3>6, <3>7 DEF JobShown, Fills
  <2> QED
    BY <2>2, <2>3
<1> QED
  BY <1>3, <1>4

\* A step that leaves the heaps as they are.
LEMMA SameHeaps ==
  ASSUME ShownInv, NEW R, UNCHANGED <<numDescriptors, generation, cpu, visible>>
  PROVE  HeapStep(R)
  BY DEF ShownInv, HeapShape, HeapStep

\* Allocation leaves every descriptor there is as it was.
LEMMA AllocationKeeps ==
  ASSUME HeapAssumption, Careful, ShownInv, NEW n \in Nat, NEW found \in Nat, AllocateDescriptors(n, found), NEW R
  PROVE  /\ HeapStep(R)
         /\ \A i \in Descriptors(0, numDescriptors) : cpu'[i] = cpu[i]
<1>1. CASE found # numDescriptors
  BY <1>1, SameHeaps DEF AllocateDescriptors
<1>2. CASE found = numDescriptors
  <2>1. PICK size \in Descriptors(0, MaxSize + 1) :
            /\ GrowsTo(n, size)
            /\ Avoids("GrowWhileFilling", Filling # {})
            /\ numDescriptors' = size
            /\ generation' = generation + 1
            /\ cpu' = Grown(size)
            /\ visible' = Referenced(Append(visible, GrownVisible(size)), list)
    BY <1>2 DEF AllocateDescriptors
  <2> DEFINE grown == Grown(size)
             S == {visible[g] : g \in 1..(generation + 1)} \cup {grown}
             heaps == Append(visible, grown)
  <2>2. /\ numDescriptors \in Nat /\ generation \in Nat /\ size \in Nat /\ size >= numDescriptors
        /\ visible = [g \in 1..(generation + 1) |-> visible[g]]
    BY <2>1 DEF ShownInv, HeapInv, HeapShape, GrowsTo, LargeEnough, Descriptors, HeapAssumption
  <2>3. visible \in [1..(generation + 1) -> S]
    BY <2>2
  <2>4. visible \in Seq(S) /\ Len(visible) = generation + 1 /\ grown \in S
    <3> HIDE DEF S, grown
    <3>1. visible \in Seq(S)
      BY <2>2, <2>3
    <3> QED
      BY <2>2, <2>3, <3>1 DEF S
  <2>5. /\ heaps \in Seq(S) /\ Len(heaps) = generation + 2 /\ DOMAIN heaps = 1..(generation + 2)
        /\ heaps[generation + 2] = grown
        /\ \A g \in 1..(generation + 1) : heaps[g] = visible[g]
    <3> HIDE DEF S, grown
    <3> QED
      BY <2>2, <2>4
  <2> HIDE DEF heaps
  <2>6. visible' = [g \in 1..(generation + 2) |->
            IF g = generation + 2 \/ \E l \in Lists : list[l] # NotBound /\ list[l].heap + 1 = g THEN heaps[g] ELSE <<>>]
    BY <2>1, <2>5 DEF Referenced, heaps, GrownVisible
  <2>7. Filling = {}
    BY <2>1 DEF Careful, Avoids
  <2>8. ASSUME NEW l \in Lists, list[l] # NotBound PROVE visible'[list[l].heap + 1] = visible[list[l].heap + 1]
    <3>1. list[l].heap \in 0..generation
      BY <2>8 DEF ShownInv, ListOK
    <3> QED
      BY <2>2, <2>5, <2>6, <2>8, <3>1
  <2>9. visible'[generation + 2] = grown
    BY <2>2, <2>5, <2>6
  <2>10. grown = [i \in Descriptors(0, size) |-> grown[i]] /\ \A i \in Descriptors(0, numDescriptors) : grown[i] = cpu[i]
    BY <2>2 DEF Grown, Descriptors
  <2>11. visible' = [g \in 1..(generation + 2) |-> visible'[g]]
    BY <2>6
  <2> HIDE DEF grown
  <2>12. cpu' = grown /\ generation' + 1 = generation + 2
    BY <2>1, <2>2 DEF grown
  <2> QED
    BY <2>1, <2>7, <2>8, <2>9, <2>10, <2>11, <2>12 DEF HeapStep
<1> QED
  BY <1>1, <1>2

\* What lists of other owners refer to stays, also when the heap grows.
LEMMA OtherLists ==
  ASSUME ShownInv, NEW o \in Owners, NEW T \in SUBSET Threads, WorksOn(o, T),
         NEW l \in Lists, list[l] # NotBound, list[l].owner # o
  PROVE  ListOK(list[l])'
<1> DEFINE b == list[l]
           p == b.owner
<1>1. ListOK(b) /\ list'[l] = b /\ p \in Owners \ {o}
  BY DEF ShownInv, WorksOn, ListOK
<1>2. owner'[p] = owner[p]
  BY <1>1 DEF WorksOn
<1>3. generation \in Nat /\ b.heap \in 0..generation'
  <2>1. generation \in Nat /\ generation' \in {generation, generation + 1}
    BY StepKeeps DEF ShownInv, HeapShape
  <2>2. b.heap \in 0..generation
    BY <1>1 DEF ListOK
  <2> HIDE DEF b
  <2> QED
    BY <2>1, <2>2
<1>4. ASSUME NEW u \in Threads, job'[u].op # "idle", job'[u].owner = p PROVE job'[u] = job[u]
  BY <1>1, <1>4 DEF WorksOn
<1>5. \A u \in Threads : job'[u].op # "idle" /\ job'[u].owner = p => Fills(job'[u]) /\ owner'[p].kind = "table"
  BY <1>1, <1>2, <1>4 DEF ListOK
<1>6. ASSUME b.heap # generation'
      PROVE  ~Busy(p)' /\ \A s \in Slots(p) : Shown(visible[b.heap + 1], p, s) /\ visible'[b.heap + 1] = visible[b.heap + 1]
  <2>1. CASE b.heap # generation
    BY <1>1, <1>4, <2>1 DEF ListOK, Busy, WorksOn, HeapStep
  <2>2. CASE b.heap = generation
    <3>1. Filling = {} /\ visible'[b.heap + 1] = visible[b.heap + 1]
      BY <1>1, <1>3, <1>6, <2>2 DEF WorksOn, HeapStep
    <3>2. ~Busy(p)
      BY <1>1, <3>1 DEF ListOK, Busy, Filling, Fills
    <3>3. Shows(p)
      BY <1>1, <3>2 DEF ShownInv
    <3> QED
      BY <1>1, <1>4, <2>2, <3>1, <3>2, <3>3 DEF Busy, Shows, ShownBoth
  <2> QED
    BY <2>1, <2>2
<1>7. p' = p /\ b' = b
  BY <1>1
<1>8. b.heap # generation' => ~Busy(p)' /\ \A s \in Slots(p)' : Shown(visible[b.heap + 1], p, s)'
  BY <1>2, <1>6, <1>7 DEF Slots, Shown
<1>9. p \in Owners /\ owner'[p].kind # "none" /\ b.first = owner'[p].first
  BY <1>1, <1>2 DEF ListOK
<1> HIDE DEF b
<1> QED
  BY <1>3, <1>5, <1>7, <1>8, <1>9 DEF ListOK, b

\* A step on one owner keeps the invariant if it does so for that owner.
LEMMA Assembled ==
  ASSUME ShownInv, HeapInv', NEW o \in Owners, NEW T \in SUBSET Threads, WorksOn(o, T),
         ~Busy(o)' => Shows(o)',
         \A t \in T : JobShown(job[t])',
         \A l \in Lists : list[l] # NotBound /\ list[l].owner = o => ListOK(list[l])',
         owner'[o].kind = "none" => owner'[o].wants = <<>>
  PROVE  ShownInv'
<1>1. generation' \in Nat
  BY StepKeeps DEF ShownInv, HeapShape
<1>2. \A p \in Owners : owner'[p].kind = "none" => owner'[p].wants = <<>>
  BY DEF WorksOn, ShownInv, HeapShape
<1>3. HeapShape'
  BY <1>1, <1>2 DEF WorksOn, HeapStep, HeapShape, ShownInv
<1>4. \A p \in Owners : ~Busy(p)' => Shows(p)'
  BY OthersShown
<1>5. \A t \in Threads : JobShown(job[t])'
  <2> SUFFICES ASSUME NEW t \in Threads, t \notin T PROVE JobShown(job[t])'
    OBVIOUS
  <2> QED
    BY OthersShown
<1>6. list' = list
  BY DEF WorksOn
<1>7. \A l \in Lists : list'[l] # NotBound => ListOK(list[l])'
  BY <1>6, OtherLists
<1> QED
  BY <1>3, <1>4, <1>5, <1>7 DEF ShownInv

-----------------------------------------------------------------------------
(* Steps that fill descriptors.                                             *)

\* What the state of a step on an owner is: nobody else works on it.
LEMMA Alone ==
  ASSUME HeapInv, NEW t \in Threads, job[t].op # "idle"
  PROVE  /\ job[t].owner \in Owners
         /\ \A u \in Threads \ {t} : job[u].op # "idle" => job[u].owner # job[t].owner
  BY DEF HeapInv, JobsOK

\* Lists stay right while descriptors of what they use are being filled.
LEMMA FillingLists ==
  ASSUME ShownInv, NEW t \in Threads, Fills(job[t]), NEW l \in Lists, list[l] # NotBound, list[l].owner = job[t].owner,
         UNCHANGED <<generation, owner, list>>,
         \A u \in Threads \ {t} : job'[u] = job[u],
         job'[t].op # "idle" => Fills(job'[t]) /\ job'[t].owner = job[t].owner
  PROVE  ListOK(list[l])'
<1> DEFINE b == list[l]
<1>1. ListOK(b) /\ b' = b
  BY DEF ShownInv
<1>2. b.heap = generation
  BY <1>1 DEF ListOK, Busy, Fills
<1>3. \A u \in Threads : job'[u].op # "idle" /\ job'[u].owner = b.owner => Fills(job'[u]) /\ owner'[b.owner].kind = "table"
  BY <1>1 DEF ListOK, Fills
<1> HIDE DEF b
<1> QED
  BY <1>1, <1>2, <1>3 DEF ListOK, b

\* A step of a thread at filling descriptors, which leaves alone who owns what.
LEMMA FillingStep ==
  ASSUME ShownInv, HeapInv', NEW t \in Threads, NEW o, Fills(job[t]), job[t].owner = o, HeapStep(OwnRange(o)),
         UNCHANGED <<generation, owner, list>>,
         \A u \in Threads \ {t} : job'[u] = job[u],
         job'[t].op # "idle" => Fills(job'[t]) /\ job'[t].owner = o,
         job'[t].op # "idle" => FillOK(job[t])',
         job'[t].op = "idle" => Shows(o)'
  PROVE  ShownInv'
<1>1. job[t].op # "idle"
  BY DEF Fills
<1>2. o \in Owners /\ \A u \in Threads \ {t} : job[u].op # "idle" => job[u].owner # o
  BY <1>1, Alone DEF ShownInv
<1>3. WorksOn(o, {t})
  BY <1>1, <1>2 DEF WorksOn
<1>4. JobShown(job[t])'
  BY DEF JobShown, Fills
<1>5. \A l \in Lists : list[l] # NotBound /\ list[l].owner = o => ListOK(list[l])'
  BY FillingLists
<1>6. ~Busy(o)' => Shows(o)'
  BY DEF Busy
<1>7. owner'[o].kind = "none" => owner'[o].wants = <<>>
  BY <1>2 DEF ShownInv, HeapShape
<1> DEFINE T == {t}
<1>8. T \in SUBSET Threads /\ WorksOn(o, T) /\ \A u \in T : JobShown(job[u])'
  BY <1>3, <1>4
<1> HIDE DEF T
<1> QED
  BY <1>2, <1>5, <1>6, <1>7, <1>8, Assembled

\* What is to be shown of the job a thread has after a step.
LEMMA FillAfter ==
  ASSUME NEW t, NEW o, NEW j, job'[t] = j, j.owner = o,
         j.op # "handle" => j.heap = generation',
         j.op = "write" => j.slots # <<>>,
         j.op # "copy" => j.slots \in Seq(Slots(o)'),
         j.done \in Seq(Slots(o)'),
         \A s \in Slots(o)' : /\ s \in ToSet(j.done) => Shown(cpu, o, s)'
                              /\ s \notin ToSet(j.done) \cup Remaining(j) => ShownBoth(o, s)'
  PROVE  FillOK(job[t])'
  BY DEF FillOK, Remaining

LEMMA TakeHandleShows ==
  ASSUME ShownInv, HeapInv', NEW t \in Threads, TakeHandle(t)
  PROVE  ShownInv'
<1>0. PICK o : o = job[t].owner
  OBVIOUS
<1> DEFINE j == IF job[t].slots = <<>>
                THEN [op |-> "copy", owner |-> job[t].owner, done |-> job[t].done, heap |-> generation]
                ELSE [op |-> "write", owner |-> job[t].owner, slots |-> job[t].slots, done |-> job[t].done,
                      heap |-> generation]
<1>1. job[t].op = "handle" /\ job' = [job EXCEPT ![t] = j] /\ UNCHANGED <<heapVars, owner, list>>
  BY DEF TakeHandle
<1>2. job'[t] = j /\ \A u \in Threads \ {t} : job'[u] = job[u]
  BY <1>1, JobOf DEF ShownInv
<1>3. /\ j.owner = o /\ j.op \in {"copy", "write"} /\ j.heap = generation /\ j.done = job[t].done
      /\ j.op = "write" => j.slots = job[t].slots /\ job[t].slots # <<>>
      /\ Remaining(j) = ToSet(job[t].slots)
  <2>1. ToSet(<<>>) = {}
    BY DEF ToSet
  <2> QED
    BY <1>0, <2>1 DEF Remaining
<1> HIDE DEF j
<1>4. FillOK(job[t])
  BY <1>1 DEF ShownInv, JobShown, Fills
<1>5. Slots(o) = Descriptors(0, Len(owner[o].wants)) /\ Remaining(job[t]) = ToSet(job[t].slots)
  BY <1>1 DEF Slots, Remaining
<1>6. FillOK(job[t])'
  <2>1. Slots(o)' = Slots(o) /\ \A s : (Shown(cpu, o, s)' <=> Shown(cpu, o, s)) /\ (ShownBoth(o, s)' <=> ShownBoth(o, s))
    BY <1>1 DEF Slots, ShownBoth, Shown, heapVars
  <2>2. \A s \in Slots(o) : /\ s \in ToSet(j.done) => Shown(cpu, o, s)
                            /\ s \notin ToSet(j.done) \cup Remaining(j) => ShownBoth(o, s)
    BY <1>0, <1>3, <1>4, <1>5 DEF FillOK
  <2>3. j.done \in Seq(Slots(o)) /\ job[t].slots \in Seq(Slots(o))
    BY <1>0, <1>1, <1>3, <1>4 DEF FillOK
  <2>4. generation' = generation
    BY <1>1 DEF heapVars
  <2> QED
    BY <1>2, <1>3, <2>1, <2>2, <2>3, <2>4, FillAfter
<1>7. HeapStep(OwnRange(o))
  BY <1>1, SameHeaps DEF heapVars
<1> QED
  BY <1>0, <1>1, <1>2, <1>3, <1>6, <1>7, FillingStep DEF heapVars, Fills

\* A descriptor of the heap of the CPU is written.
LEMMA WriteDescriptorShows ==
  ASSUME ShownInv, HeapInv', NEW t \in Threads, WriteDescriptor(t)
  PROVE  ShownInv'
<1>0. PICK o : o = job[t].owner
  OBVIOUS
<1> DEFINE slot == Head(job[t].slots)
           cell == owner[o].first + slot
           j == [op |-> "handle", owner |-> o, slots |-> Tail(job[t].slots), done |-> Append(job[t].done, slot)]
<1>1. /\ job[t].op = "write" /\ job' = [job EXCEPT ![t] = j]
      /\ UNCHANGED <<numDescriptors, generation, visible, owner, list>>
      /\ cpu' = IF job[t].heap = generation THEN [cpu EXCEPT ![cell] = owner[o].wants[slot + 1]] ELSE cpu
  BY <1>0 DEF WriteDescriptor
<1>2. job'[t] = j /\ \A u \in Threads \ {t} : job'[u] = job[u]
  BY <1>1, JobOf DEF ShownInv
<1>3. FillOK(job[t]) /\ o \in Owners
  BY <1>0, <1>1, Alone DEF ShownInv, JobShown, Fills
<1>4. /\ job[t].heap = generation /\ job[t].slots # <<>>
      /\ job[t].slots \in Seq(Slots(o)) /\ job[t].done \in Seq(Slots(o))
  BY <1>0, <1>1, <1>3 DEF FillOK
<1>5. /\ slot \in Slots(o) /\ j.slots \in Seq(Slots(o)) /\ j.done \in Seq(Slots(o))
      /\ ToSet(j.done) = ToSet(job[t].done) \cup {slot}
      /\ ToSet(job[t].slots) = {slot} \cup ToSet(j.slots)
  <2> DEFINE q == job[t].slots
             d == job[t].done
  <2>1. q \in Seq(Slots(o)) /\ d \in Seq(Slots(o)) /\ q # <<>> /\ j.slots = Tail(q) /\ j.done = Append(d, slot) /\ slot = Head(q)
    BY <1>4
  <2> HIDE DEF q, d, j, slot
  <2>2. slot \in Slots(o) /\ j.slots \in Seq(Slots(o)) /\ j.done \in Seq(Slots(o))
    BY <2>1
  <2>3. ToSet(j.done) = ToSet(d) \cup {slot}
    <3>1. Len(j.done) = Len(d) + 1 /\ \A i \in 1..Len(d) : j.done[i] = d[i]
      BY <2>1, <2>2
    <3>2. j.done[Len(d) + 1] = slot
      BY <2>1, <2>2
    <3> QED
      BY <2>1, <2>2, <3>1, <3>2, SMTT(30) DEF ToSet
  <2>4. ToSet(q) = {slot} \cup ToSet(j.slots)
    <3>1. Len(q) \in Nat \ {0} /\ Len(j.slots) = Len(q) - 1 /\ q[1] = slot /\ \A i \in 1..Len(j.slots) : j.slots[i] = q[i + 1]
      BY <2>1
    <3>2. ASSUME NEW i \in 1..Len(q), i # 1 PROVE q[i] \in ToSet(j.slots)
      <4>1. i - 1 \in 1..Len(j.slots) /\ j.slots[i - 1] = q[i]
        BY <3>1, <3>2
      <4> QED
        BY <2>2, <4>1 DEF ToSet
    <3>3. ASSUME NEW i \in 1..Len(j.slots) PROVE j.slots[i] \in ToSet(q)
      BY <2>1, <3>1, <3>3 DEF ToSet
    <3>4. slot \in ToSet(q)
      BY <2>1, <3>1 DEF ToSet
    <3>5. ToSet(q) = {q[i] : i \in 1..Len(q)} /\ ToSet(j.slots) = {j.slots[i] : i \in 1..Len(j.slots)}
      <4>1. DOMAIN q = 1..Len(q) /\ DOMAIN j.slots = 1..Len(j.slots)
        BY <2>1, <2>2
      <4> QED
        BY <4>1 DEF ToSet
    <3> QED
      BY <3>1, <3>2, <3>3, <3>4, <3>5, ZenonT(40)
  <2> QED
    BY <2>2, <2>3, <2>4 DEF q, d
<1>6. j.op = "handle" /\ j.owner = o
  OBVIOUS
<1>7. cell \in OwnRange(o) /\ cell \in Descriptors(0, numDescriptors) /\ slot \in Nat /\ owner[o].first \in Nat
  BY <1>3, <1>5, Cells, OwnerTyped DEF ShownInv
<1> HIDE DEF slot, j
<1>8. cpu' = [i \in Descriptors(0, numDescriptors) |-> IF i = cell THEN owner[o].wants[slot + 1] ELSE cpu[i]]
  BY <1>1, <1>4 DEF ShownInv, HeapShape
<1> HIDE DEF cell
<1>9. HeapStep(OwnRange(o))
  BY <1>1, <1>7, <1>8 DEF ShownInv, HeapShape, HeapStep
<1>10. Slots(o)' = Slots(o)
  BY <1>1 DEF Slots
<1>11. ASSUME NEW s \in Slots(o) PROVE Shown(cpu, o, s)' <=> s = slot \/ Shown(cpu, o, s)
  <2>1. owner[o].first + s \in Descriptors(0, numDescriptors) /\ s \in Nat
    BY <1>3, Cells DEF ShownInv
  <2> QED
    BY <1>1, <1>7, <1>8, <2>1 DEF Shown, cell
<1>12. \A s \in Slots(o) : s # slot => (ShownBoth(o, s)' <=> ShownBoth(o, s))
  BY <1>1, <1>11 DEF ShownBoth, Shown
<1>13. \A s \in Slots(o) : /\ s \in ToSet(j.done) => Shown(cpu, o, s)'
                           /\ s \notin ToSet(j.done) \cup ToSet(j.slots) => ShownBoth(o, s)'
  BY <1>0, <1>1, <1>3, <1>5, <1>11, <1>12 DEF FillOK, Remaining
<1>14. FillOK(job[t])'
  BY <1>1, <1>2, <1>5, <1>6, <1>10, <1>13, FillAfter DEF Remaining
<1> QED
  BY <1>0, <1>1, <1>2, <1>6, <1>9, <1>14, FillingStep DEF Fills

\* What a thread has written is copied where shaders see it.
LEMMA CopyShows ==
  ASSUME ShownInv, HeapInv', NEW t \in Threads, CopyToShaderVisibleHeap(t)
  PROVE  ShownInv'
<1>0. PICK o : o = job[t].owner
  OBVIOUS
<1> DEFINE copied == {owner[o].first + slot : slot \in ToSet(job[t].done)}
<1>1. /\ job[t].op = "copy" /\ job' = [job EXCEPT ![t] = Idle]
      /\ UNCHANGED <<numDescriptors, generation, cpu, owner, list>>
      /\ visible' = IF job[t].heap = generation
                    THEN [visible EXCEPT ![generation + 1] =
                            [i \in DOMAIN @ |-> IF i \in copied THEN cpu[i] ELSE @[i]]]
                    ELSE visible
  BY <1>0 DEF CopyToShaderVisibleHeap
<1>2. job'[t] = Idle /\ \A u \in Threads \ {t} : job'[u] = job[u]
  BY <1>1, JobOf DEF ShownInv
<1>3. FillOK(job[t]) /\ o \in Owners
  BY <1>0, <1>1, Alone DEF ShownInv, JobShown, Fills
<1>4. job[t].heap = generation /\ job[t].done \in Seq(Slots(o))
  BY <1>0, <1>1, <1>3 DEF FillOK
<1>5. generation \in Nat /\ visible[generation + 1] = [i \in Descriptors(0, numDescriptors) |-> visible[generation + 1][i]]
      /\ visible = [g \in 1..(generation + 1) |-> visible[g]]
  BY DEF ShownInv, HeapShape
<1> HIDE DEF copied
<1>6. /\ visible' = [g \in 1..(generation + 1) |-> visible'[g]]
      /\ \A g \in 1..generation : visible'[g] = visible[g]
      /\ visible'[generation + 1] =
            [i \in Descriptors(0, numDescriptors) |-> IF i \in copied THEN cpu[i] ELSE visible[generation + 1][i]]
  <2> DEFINE new == [i \in Descriptors(0, numDescriptors) |-> IF i \in copied THEN cpu[i] ELSE visible[generation + 1][i]]
  <2>1. DOMAIN visible[generation + 1] = Descriptors(0, numDescriptors)
    BY <1>5
  <2>2. visible' = [visible EXCEPT ![generation + 1] = new]
    BY <1>1, <1>4, <2>1
  <2> HIDE DEF new
  <2>3. visible' = [g \in 1..(generation + 1) |-> IF g = generation + 1 THEN new ELSE visible[g]]
    BY <1>5, <2>2
  <2>4. visible'[generation + 1] = new /\ \A g \in 1..generation : visible'[g] = visible[g]
    BY <1>5, <2>3
  <2>5. visible' = [g \in 1..(generation + 1) |-> visible'[g]]
    BY <2>3
  <2> QED
    BY <2>4, <2>5 DEF new
<1>7. copied \subseteq OwnRange(o)
  <2> SUFFICES ASSUME NEW s \in ToSet(job[t].done) PROVE owner[o].first + s \in OwnRange(o)
    BY DEF copied
  <2>1. s \in Slots(o)
    BY <1>4 DEF ToSet
  <2> QED
    BY <1>3, <2>1, Cells DEF ShownInv
<1>8. HeapStep(OwnRange(o))
  <2>1. \A l \in Lists : list[l] # NotBound /\ list[l].heap # generation => list[l].heap + 1 \in 1..generation
    BY <1>5 DEF ShownInv, ListOK
  <2> QED
    BY <1>1, <1>5, <1>6, <1>7, <2>1, ZenonT(40) DEF ShownInv, HeapShape, HeapStep
<1>9. \A s \in Slots(o) : /\ s \in ToSet(job[t].done) => Shown(cpu, o, s) /\ owner[o].first + s \in copied
                          /\ s \notin ToSet(job[t].done) => ShownBoth(o, s)
  BY <1>0, <1>1, <1>3 DEF FillOK, Remaining, copied
<1>10. ASSUME NEW s \in Slots(o) PROVE ShownBoth(o, s)'
  <2>1. owner[o].first + s \in Descriptors(0, numDescriptors)
    BY <1>3, Cells DEF ShownInv
  <2> QED
    BY <1>1, <1>6, <1>9, <2>1 DEF ShownBoth, Shown
<1>11. Shows(o)'
  BY <1>1, <1>10 DEF Shows, Slots
<1> QED
  BY <1>0, <1>1, <1>2, <1>8, <1>11, FillingStep DEF Fills, Idle

-----------------------------------------------------------------------------
(* Steps that give an owner its descriptors or take them.                   *)

\* No list uses an owner that does not exist, or that is being resized.
LEMMA NoLists ==
  ASSUME ShownInv, NEW o,
         \/ owner[o].kind = "none"
         \/ ~Used(o)
         \/ \E t \in Threads : job[t].op \in {"reallocate", "move", "release"} /\ job[t].owner = o
  PROVE  \A l \in Lists : list[l] # NotBound => list[l].owner # o
<1> SUFFICES ASSUME NEW l \in Lists, list[l] # NotBound, list[l].owner = o PROVE FALSE
  OBVIOUS
<1>1. ListOK(list[l])
  BY DEF ShownInv
<1> QED
  BY <1>1 DEF ListOK, Used, Fills

\* A step of thread t on an owner no list uses and no other thread works on.
LEMMA OwnerStep ==
  ASSUME ShownInv, HeapInv', NEW t \in Threads, NEW o \in Owners, HeapStep(OwnRange(o)),
         \A u \in Threads \ {t} : job'[u] = job[u] /\ (job[u].op # "idle" => job[u].owner # o),
         job[t].op # "idle" => job[t].owner = o,
         job'[t].op # "idle" => job'[t].owner = o,
         \A p \in Owners \ {o} : owner'[p] = owner[p], list' = list,
         \A l \in Lists : list[l] # NotBound => list[l].owner # o,
         job'[t].op = "idle" => Shows(o)', JobShown(job[t])',
         owner'[o].kind = "none" => owner'[o].wants = <<>>
  PROVE  ShownInv'
<1> DEFINE T == {t}
<1>1. WorksOn(o, T)
  BY DEF WorksOn
<1>2. ~Busy(o)' => Shows(o)'
  BY DEF Busy
<1>3. T \in SUBSET Threads /\ \A u \in T : JobShown(job[u])'
  OBVIOUS
<1> HIDE DEF T
<1> QED
  BY <1>1, <1>2, <1>3, Assembled

\* A step of no thread on such an owner.
LEMMA QuietStep ==
  ASSUME ShownInv, HeapInv', NEW o \in Owners, ~Busy(o),
         UNCHANGED <<numDescriptors, generation, cpu, visible, job, list>>,
         \A p \in Owners \ {o} : owner'[p] = owner[p],
         \A l \in Lists : list[l] # NotBound => list[l].owner # o,
         Shows(o)',
         owner'[o].kind = "none" => owner'[o].wants = <<>>
  PROVE  ShownInv'
<1> DEFINE T == {}
<1>1. WorksOn(o, T)
  BY SameHeaps DEF WorksOn, Busy
<1>2. T \in SUBSET Threads /\ \A u \in T : JobShown(job[u])'
  OBVIOUS
<1> HIDE DEF T
<1> QED
  BY <1>1, <1>2, Assembled

LEMMA DestroyShows ==
  ASSUME Careful, ShownInv, HeapInv', NEW o \in Owners, Destroy(o)
  PROVE  ShownInv'
<1>1. /\ ~Busy(o) /\ ~Used(o) /\ owner' = [owner EXCEPT ![o] = NoOwner]
      /\ UNCHANGED <<numDescriptors, generation, cpu, visible, job, list>>
  BY DEF Destroy, Careful, Avoids, ReleaseDescriptors
<1>2. owner'[o] = NoOwner /\ \A p \in Owners \ {o} : owner'[p] = owner[p]
  BY <1>1 DEF ShownInv, HeapInv
<1>3. Shows(o)'
  BY <1>2 DEF Shows, Slots, NoOwner, Descriptors
<1>4. owner'[o].kind = "none" => owner'[o].wants = <<>>
  BY <1>2 DEF NoOwner
<1> QED
  BY <1>1, <1>2, <1>3, <1>4, NoLists, QuietStep

LEMMA CreateDescriptorTableShows ==
  ASSUME ShownInv, HeapInv', NEW o \in Tables, CreateDescriptorTable(o)
  PROVE  ShownInv'
<1>1. /\ owner[o] = NoOwner /\ owner' = [owner EXCEPT ![o] = [NoOwner EXCEPT !.kind = "table"]]
      /\ UNCHANGED <<numDescriptors, generation, cpu, visible, job, list>> /\ o \in Owners
  BY DEF CreateDescriptorTable, heapVars, Owners
<1>2. owner'[o] = [NoOwner EXCEPT !.kind = "table"] /\ \A p \in Owners \ {o} : owner'[p] = owner[p]
  BY <1>1 DEF ShownInv, HeapInv
<1>3. Shows(o)'
  BY <1>2 DEF Shows, Slots, NoOwner, Descriptors
<1>4. owner'[o].kind # "none" /\ owner[o].kind = "none"
  BY <1>1, <1>2 DEF NoOwner
<1>5. ~Busy(o)
  BY <1>4 DEF Busy, ShownInv, HeapInv, JobsOK
<1> QED
  BY <1>1, <1>2, <1>3, <1>4, <1>5, NoLists, QuietStep

LEMMA ShrinkTableShows ==
  ASSUME Careful, ShownInv, HeapInv', NEW t \in Threads, NEW o \in Tables, NEW n \in 0..MaxCapacity, ShrinkTable(t, o, n)
  PROVE  ShownInv'
<1> DEFINE w == SubSeq(owner[o].wants, 1, n)
<1>1. /\ ~Busy(o) /\ ~Used(o) /\ n < Capacity(o) /\ owner[o].kind = "table"
      /\ owner' = [owner EXCEPT ![o].wants = w]
      /\ UNCHANGED <<numDescriptors, generation, cpu, visible, job, list>> /\ o \in Owners
  BY DEF ShrinkTable, Resizable, Careful, Avoids, ReleaseDescriptors, Owners
<1>2. owner[o] \in OwnerRecords /\ owner[o].wants \in Seq(Entries) /\ Capacity(o) = Len(owner[o].wants)
  BY <1>1, OwnerTyped DEF ShownInv
<1>3. Len(w) = n /\ \A s \in 0..(n - 1) : w[s + 1] = owner[o].wants[s + 1]
  BY <1>1, <1>2
<1> HIDE DEF w
<1>4. /\ owner'[o].first = owner[o].first /\ owner'[o].wants = w /\ owner'[o].kind = owner[o].kind
      /\ \A p \in Owners \ {o} : owner'[p] = owner[p]
  BY <1>1, <1>2 DEF ShownInv, HeapInv, OwnerRecords
<1>5. Shows(o)
  BY <1>1 DEF ShownInv
<1>6. ASSUME NEW s \in 0..(n - 1) PROVE ShownBoth(o, s)'
  <2>1. s \in Slots(o)
    BY <1>1, <1>2 DEF Slots, Descriptors
  <2> QED
    BY <1>1, <1>3, <1>4, <1>5, <2>1 DEF Shows, ShownBoth, Shown
<1>7. Slots(o)' = 0..(n - 1)
  BY <1>3, <1>4 DEF Slots, Descriptors
<1>8. Shows(o)'
  BY <1>6, <1>7 DEF Shows
<1> QED
  BY <1>1, <1>4, <1>8, NoLists, QuietStep

LEMMA DiscardTableShows ==
  ASSUME Careful, ShownInv, HeapInv', NEW t \in Threads, NEW o \in Tables, NEW n \in 0..MaxCapacity, DiscardTable(t, o, n)
  PROVE  ShownInv'
<1> DEFINE j == [op |-> "reallocate", owner |-> o, count |-> n]
<1>1. /\ ~Busy(o) /\ ~Used(o) /\ job[t] = Idle /\ job' = [job EXCEPT ![t] = j]
      /\ owner' = [owner EXCEPT ![o] = [NoOwner EXCEPT !.kind = "table"]]
      /\ UNCHANGED <<numDescriptors, generation, cpu, visible, list>> /\ o \in Owners
  BY DEF DiscardTable, Resizable, Careful, Avoids, ReleaseDescriptors, Owners
<1>2. owner'[o] = [NoOwner EXCEPT !.kind = "table"] /\ \A p \in Owners \ {o} : owner'[p] = owner[p]
  BY <1>1 DEF ShownInv, HeapInv
<1>3. Shows(o)'
  BY <1>2 DEF Shows, Slots, NoOwner, Descriptors
<1>4. owner'[o].kind # "none"
  BY <1>2 DEF NoOwner
<1>5. job'[t] = j /\ \A u \in Threads \ {t} : job'[u] = job[u]
  BY <1>1, JobOf DEF ShownInv
<1>6. JobShown(job[t])'
  BY <1>3, <1>5 DEF JobShown, Fills
<1>7. \A u \in Threads \ {t} : job'[u] = job[u] /\ (job[u].op # "idle" => job[u].owner # o)
  BY <1>1, <1>5, NotBusy
<1>8. job[t].op = "idle" /\ job'[t].op # "idle" /\ job'[t].owner = o
  BY <1>1, <1>5 DEF Idle
<1>9. HeapStep(OwnRange(o))
  BY <1>1, SameHeaps
<1> QED
  BY <1>1, <1>2, <1>3, <1>4, <1>6, <1>7, <1>8, <1>9, NoLists, OwnerStep

LEMMA KeepTableShows ==
  ASSUME Careful, ShownInv, HeapInv', NEW t \in Threads, NEW o \in Tables, NEW n \in 0..MaxCapacity, KeepTable(t, o, n)
  PROVE  ShownInv'
<1> DEFINE j == [op |-> "reallocate", owner |-> o, count |-> n]
<1>1. /\ ~Busy(o) /\ ~Used(o) /\ job[t] = Idle /\ job' = [job EXCEPT ![t] = j]
      /\ UNCHANGED <<numDescriptors, generation, cpu, visible, owner, list>> /\ o \in Owners
  BY DEF KeepTable, Resizable, Careful, Avoids, heapVars, Owners
<1>2. Shows(o)
  BY <1>1 DEF ShownInv
<1>3. Shows(o)'
  BY <1>1, <1>2 DEF Shows, Slots, ShownBoth, Shown
<1>4. owner'[o].kind = "none" => owner'[o].wants = <<>>
  BY <1>1 DEF ShownInv, HeapShape
<1>5. job'[t] = j /\ \A u \in Threads \ {t} : job'[u] = job[u]
  BY <1>1, JobOf DEF ShownInv
<1>6. JobShown(job[t])'
  BY <1>3, <1>5 DEF JobShown, Fills
<1>7. \A u \in Threads \ {t} : job'[u] = job[u] /\ (job[u].op # "idle" => job[u].owner # o)
  BY <1>1, <1>5, NotBusy
<1>8. job[t].op = "idle" /\ job'[t].op # "idle" /\ job'[t].owner = o
  BY <1>1, <1>5 DEF Idle
<1>9. HeapStep(OwnRange(o))
  BY <1>1, SameHeaps
<1> QED
  BY <1>1, <1>3, <1>4, <1>6, <1>7, <1>8, <1>9, NoLists, OwnerStep

LEMMA ReleaseOldRangeShows ==
  ASSUME ShownInv, HeapInv', NEW t \in Threads, ReleaseOldRange(t)
  PROVE  ShownInv'
<1>0. PICK o : o = job[t].owner
  OBVIOUS
<1>1. /\ job[t].op = "release" /\ job' = [job EXCEPT ![t] = Idle]
      /\ UNCHANGED <<numDescriptors, generation, cpu, visible, owner, list>>
  BY DEF ReleaseOldRange, ReleaseDescriptors
<1>2. o \in Owners /\ \A u \in Threads \ {t} : job[u].op # "idle" => job[u].owner # o
  BY <1>0, <1>1, Alone DEF ShownInv
<1>3. Shows(o)
  BY <1>0, <1>1 DEF ShownInv, JobShown
<1>4. Shows(o)'
  BY <1>1, <1>3 DEF Shows, Slots, ShownBoth, Shown
<1>5. owner'[o].kind = "none" => owner'[o].wants = <<>>
  BY <1>1, <1>2 DEF ShownInv, HeapShape
<1>6. job'[t] = Idle /\ \A u \in Threads \ {t} : job'[u] = job[u]
  BY <1>1, JobOf DEF ShownInv
<1>7. JobShown(job[t])'
  BY <1>6 DEF JobShown, Fills, Idle
<1>8. HeapStep(OwnRange(o))
  BY <1>1, SameHeaps
<1>9. job'[t].op = "idle"
  BY <1>6 DEF Idle
<1> QED
  BY <1>0, <1>1, <1>2, <1>4, <1>5, <1>6, <1>7, <1>8, <1>9, NoLists, OwnerStep

LEMMA CreateBindingSetShows ==
  ASSUME HeapAssumption, Careful, ShownInv, HeapInv', NEW t \in Threads, NEW o \in Sets, CreateBindingSet(t, o)
  PROVE  ShownInv'
<1> DEFINE contents == Contents[o]
           slots == [k \in DOMAIN contents |-> k - 1]
           j == [op |-> "handle", owner |-> o, slots |-> slots, done |-> <<>>]
<1>1. /\ job[t] = Idle /\ owner[o] = NoOwner /\ job' = [job EXCEPT ![t] = j] /\ list' = list
      /\ o \in Owners /\ contents \in Seq(Entries)
  BY DEF CreateBindingSet, Owners, HeapAssumption
<1>2. PICK found \in 0..MaxSize :
        /\ AllocateDescriptors(Len(contents), found)
        /\ owner' = [owner EXCEPT ![o] = [kind |-> "set", first |-> found, wants |-> contents]]
  BY DEF CreateBindingSet
<1>3. found \in Nat /\ Len(contents) \in Nat
  BY <1>1 DEF HeapAssumption
<1>4. HeapStep(OwnRange(o))
  BY <1>2, <1>3, AllocationKeeps
<1>5. /\ owner'[o].kind = "set" /\ owner'[o].wants = contents
      /\ \A p \in Owners \ {o} : owner'[p] = owner[p]
  BY <1>1, <1>2 DEF ShownInv, HeapInv
<1>6. job'[t] = j /\ \A u \in Threads \ {t} : job'[u] = job[u]
  BY <1>1, JobOf DEF ShownInv
<1>7. Slots(o)' = Descriptors(0, Len(contents)) /\ slots \in Seq(Slots(o)') /\ <<>> \in Seq(Slots(o)')
  <2>1. Slots(o)' = Descriptors(0, Len(contents))
    BY <1>5 DEF Slots
  <2> DEFINE S == Descriptors(0, Len(contents))
  <2>2. slots \in [1..Len(contents) -> S]
    BY <1>1, <1>3 DEF Descriptors
  <2> HIDE DEF S, slots
  <2>3. slots \in Seq(S) /\ <<>> \in Seq(S)
    BY <1>3, <2>2
  <2> QED
    BY <2>1, <2>3 DEF S
<1>8. \A s \in Descriptors(0, Len(contents)) : s \in ToSet(slots)
  <2> SUFFICES ASSUME NEW s \in Descriptors(0, Len(contents)) PROVE \E k \in DOMAIN slots : slots[k] = s
    BY DEF ToSet
  <2>1. s + 1 \in DOMAIN contents /\ (s + 1) - 1 = s
    BY <1>1, <1>3 DEF Descriptors
  <2> QED
    BY <2>1
<1>9. ToSet(<<>>) = {} /\ Remaining(j) = ToSet(slots)
  BY DEF ToSet, Remaining
<1>10. j.op = "handle" /\ j.owner = o /\ j.slots = slots /\ j.done = <<>>
  OBVIOUS
<1>11. FillOK(job[t])'
  <2> HIDE DEF j, slots
  <2>1. \A s \in Slots(o)' : s \notin ToSet(j.done) /\ s \in Remaining(j)
    BY <1>7, <1>8, <1>9, <1>10
  <2>2. \A s \in Slots(o)' : /\ s \in ToSet(j.done) => Shown(cpu, o, s)'
                             /\ s \notin ToSet(j.done) \cup Remaining(j) => ShownBoth(o, s)'
    BY <2>1
  <2> QED
    BY <1>6, <1>7, <1>10, <2>2, FillAfter
<1>12. JobShown(job[t])'
  BY <1>6, <1>10, <1>11 DEF JobShown, Fills
<1>13. job[t].op = "idle" /\ owner[o].kind = "none"
  BY <1>1 DEF Idle, NoOwner
<1>14. \A u \in Threads \ {t} : job'[u] = job[u] /\ (job[u].op # "idle" => job[u].owner # o)
  BY <1>6, <1>13 DEF ShownInv, HeapInv, JobsOK
<1>15. job'[t].op # "idle" /\ job'[t].owner = o /\ owner'[o].kind # "none"
  BY <1>5, <1>6, <1>10
<1> QED
  BY <1>1, <1>4, <1>5, <1>12, <1>13, <1>14, <1>15, NoLists, OwnerStep

\* A table is written while lists may use it, if none uses an older heap.
LEMMA WriteDescriptorTableShows ==
  ASSUME Careful, ShownInv, HeapInv', NEW t \in Threads, NEW o \in Tables, NEW slot \in Descriptors(0, MaxCapacity),
         NEW r \in Resources, WriteDescriptorTable(t, o, slot, r)
  PROVE  ShownInv'
<1> DEFINE j == [op |-> "write", owner |-> o, slots |-> <<slot>>, done |-> <<>>, heap |-> generation]
           w == [owner[o].wants EXCEPT ![slot + 1] = r]
<1>1. /\ job[t] = Idle /\ owner[o].kind = "table" /\ ~Busy(o) /\ slot < Len(owner[o].wants) /\ ~OlderHeap(o)
      /\ job' = [job EXCEPT ![t] = j] /\ owner' = [owner EXCEPT ![o].wants = w]
      /\ UNCHANGED <<numDescriptors, generation, cpu, visible, list>>
      /\ o \in Owners /\ slot \in Nat
  BY DEF WriteDescriptorTable, Careful, Avoids, heapVars, Owners, Descriptors
<1>2. owner[o] \in OwnerRecords /\ owner[o].wants \in Seq(Entries)
  BY <1>1, OwnerTyped DEF ShownInv
<1>3. Len(w) = Len(owner[o].wants) /\ \A s \in Slots(o) : s # slot => w[s + 1] = owner[o].wants[s + 1]
  BY <1>1, <1>2 DEF Slots, Descriptors
<1> HIDE DEF w
<1>4. /\ owner'[o].first = owner[o].first /\ owner'[o].wants = w /\ owner'[o].kind = "table"
      /\ \A p \in Owners \ {o} : owner'[p] = owner[p]
  BY <1>1, <1>2 DEF ShownInv, HeapInv, OwnerRecords
<1>5. job'[t] = j /\ \A u \in Threads \ {t} : job'[u] = job[u]
  BY <1>1, JobOf DEF ShownInv
<1>6. Slots(o)' = Slots(o) /\ slot \in Slots(o)
  BY <1>1, <1>2, <1>3, <1>4 DEF Slots, Descriptors
<1>7. \A s \in Slots(o) : s # slot => ShownBoth(o, s)'
  <2>1. Shows(o)
    BY <1>1 DEF ShownInv
  <2> QED
    BY <1>1, <1>3, <1>4, <2>1 DEF Shows, ShownBoth, Shown
<1>8. /\ j.op = "write" /\ j.owner = o /\ j.heap = generation /\ j.slots = <<slot>> /\ j.done = <<>>
      /\ Remaining(j) = {slot} /\ ToSet(j.done) = {}
  BY DEF Remaining, ToSet
<1>9. <<slot>> \in Seq(Slots(o)) /\ <<>> \in Seq(Slots(o)) /\ <<slot>> # <<>>
  BY <1>6
<1> HIDE DEF j
<1>10. \A s \in Slots(o)' : /\ s \in ToSet(j.done) => Shown(cpu, o, s)'
                            /\ s \notin ToSet(j.done) \cup Remaining(j) => ShownBoth(o, s)'
  BY <1>6, <1>7, <1>8
<1>11. FillOK(job[t])'
  BY <1>1, <1>5, <1>6, <1>8, <1>9, <1>10, FillAfter
<1> DEFINE T == {t}
<1>12. \A u \in T : JobShown(job[u])'
  BY <1>5, <1>8, <1>11 DEF JobShown, Fills
<1>13. WorksOn(o, T)
  BY <1>1, <1>4, <1>5, <1>8, NotBusy, SameHeaps DEF WorksOn, Idle
<1>14. ASSUME NEW l \in Lists, list[l] # NotBound, list[l].owner = o PROVE ListOK(list[l])'
  <2> DEFINE b == list[l]
  <2>1. ListOK(b) /\ b' = b
    BY <1>1, <1>14 DEF ShownInv
  <2>2. b.heap = generation /\ b.first = owner'[o].first /\ generation \in Nat
    <3>1. b.heap \in 0..generation /\ ~(b.heap < generation) /\ generation \in Nat
      BY <1>1, <1>14, <2>1 DEF ListOK, OlderHeap, ShownInv, HeapShape
    <3> HIDE DEF b
    <3>2. b.heap = generation
      BY <3>1
    <3> QED
      BY <1>4, <1>14, <2>1, <3>1, <3>2 DEF ListOK, b
  <2>3. ASSUME NEW u \in Threads, job'[u].op # "idle", job'[u].owner = o
        PROVE  Fills(job'[u]) /\ owner'[o].kind = "table"
    <3>1. u = t
      BY <1>1, <1>5, <2>3, NotBusy
    <3> QED
      BY <1>4, <1>5, <1>8, <3>1 DEF Fills
  <2> HIDE DEF b
  <2>4. b.owner = o
    BY <1>14 DEF b
  <2> QED
    BY <1>1, <1>4, <2>1, <2>2, <2>3, <2>4 DEF ListOK, b
<1>15. owner'[o].kind # "none" /\ Busy(o)' /\ T \in SUBSET Threads
  BY <1>4, <1>5, <1>8 DEF Busy
<1> HIDE DEF T
<1> QED
  BY <1>1, <1>12, <1>13, <1>14, <1>15, Assembled

LEMMA ReallocateTableShows ==
  ASSUME HeapAssumption, Careful, ShownInv, HeapInv', NEW t \in Threads, ReallocateTable(t)
  PROVE  ShownInv'
<1>0. PICK o, n : o = job[t].owner /\ n = job[t].count
  OBVIOUS
<1> DEFINE c == Len(owner[o].wants)
           w == owner[o].wants \o UnwrittenRange(n - c)
           moving == [op |-> "move", owner |-> o, oldFirst |-> owner[o].first, oldCount |-> c, heap |-> generation']
           j == IF c = 0 THEN Idle ELSE moving
<1>1. /\ job[t].op = "reallocate" /\ list' = list
      /\ \E found \in 0..MaxSize :
           /\ AllocateDescriptors(n, found)
           /\ owner' = [owner EXCEPT ![o].first = found, ![o].wants = w]
           /\ job' = [job EXCEPT ![t] = j]
  BY <1>0 DEF ReallocateTable, Capacity
<1>2. PICK found \in 0..MaxSize :
        /\ AllocateDescriptors(n, found)
        /\ owner' = [owner EXCEPT ![o].first = found, ![o].wants = w]
        /\ job' = [job EXCEPT ![t] = j]
  BY <1>1
<1>3. /\ o \in Owners /\ owner[o].kind # "none" /\ n \in Nat /\ n >= c
      /\ \A u \in Threads \ {t} : job[u].op # "idle" => job[u].owner # o
  BY <1>0, <1>1, Alone DEF ShownInv, HeapInv, JobsOK, Capacity
<1>4. found \in Nat /\ owner[o] \in OwnerRecords /\ owner[o].wants \in Seq(Entries) /\ c \in Nat /\ owner[o].first \in Nat
  BY <1>3, OwnerTyped DEF HeapAssumption, ShownInv
<1>5. HeapStep(OwnRange(o)) /\ \A i \in Descriptors(0, numDescriptors) : cpu'[i] = cpu[i]
  BY <1>2, <1>3, <1>4, AllocationKeeps
<1>6. /\ Len(w) = n
      /\ \A s \in 0..(c - 1) : w[s + 1] = owner[o].wants[s + 1]
      /\ \A s \in c..(n - 1) : w[s + 1] = Unwritten
  <2> DEFINE a == owner[o].wants
             more == UnwrittenRange(n - c)
  <2>1. a \in Seq(Entries) /\ Len(a) = c /\ n - c \in Nat
    BY <1>3, <1>4
  <2>2. more \in Seq(Entries) /\ Len(more) = n - c /\ \A i \in 1..(n - c) : more[i] = Unwritten
    <3>1. more \in [1..(n - c) -> Entries]
      BY DEF UnwrittenRange, Entries
    <3>2. \A i \in 1..(n - c) : more[i] = Unwritten
      BY DEF UnwrittenRange
    <3> HIDE DEF more
    <3> QED
      BY <2>1, <3>1, <3>2
  <2> HIDE DEF a, more, c
  <2>3. Len(a \o more) = n
    BY <1>3, <2>1, <2>2
  <2>4. \A i \in 1..n : (a \o more)[i] = IF i <= c THEN a[i] ELSE more[i - c]
    BY <1>3, <2>1, <2>2, <2>3
  <2>5. ASSUME NEW s \in 0..(c - 1) PROVE (a \o more)[s + 1] = a[s + 1]
    <3>1. s + 1 \in 1..n /\ s + 1 <= c
      BY <1>3, <1>4, <2>1, <2>5 DEF c
    <3> QED
      BY <2>4, <3>1
  <2>6. ASSUME NEW s \in c..(n - 1) PROVE (a \o more)[s + 1] = Unwritten
    <3>1. s + 1 \in 1..n /\ ~(s + 1 <= c) /\ (s + 1) - c \in 1..(n - c)
      BY <1>3, <1>4, <2>1, <2>6 DEF c
    <3> QED
      BY <2>2, <2>4, <3>1
  <2>7. w = a \o more
    BY DEF a, more, c
  <2> QED
    BY <2>3, <2>5, <2>6, <2>7 DEF a
<1> HIDE DEF w
<1>7. /\ owner'[o].first = found /\ owner'[o].wants = w /\ owner'[o].kind = owner[o].kind
      /\ \A p \in Owners \ {o} : owner'[p] = owner[p]
  BY <1>2, <1>3, <1>4 DEF ShownInv, HeapInv, OwnerRecords
<1>8. job'[t] = j /\ \A u \in Threads \ {t} : job'[u] = job[u]
  BY <1>2, JobOf DEF ShownInv
<1>9. Slots(o)' = 0..(n - 1)
  BY <1>6, <1>7 DEF Slots, Descriptors
<1>10. Shows(o)
  BY <1>0, <1>1 DEF ShownInv, JobShown
<1>11. ASSUME NEW s \in 0..(n - 1), w[s + 1] # Unwritten
       PROVE  s < c /\ cpu'[owner[o].first + s] = w[s + 1]
  <2>1. s \in 0..(c - 1)
    <3>1. c \in Nat /\ n \in Nat /\ s \in Nat
      BY <1>3, <1>4
    <3>2. s \notin c..(n - 1)
      BY <1>6, <1>11
    <3> HIDE DEF c
    <3> QED
      BY <3>1, <3>2
  <2>2. s \in Slots(o) /\ w[s + 1] = owner[o].wants[s + 1]
    BY <1>4, <1>6, <2>1 DEF Slots, Descriptors
  <2>3. owner[o].first + s \in Descriptors(0, numDescriptors)
    BY <1>3, <2>2, Cells DEF ShownInv
  <2> QED
    BY <1>5, <1>10, <1>11, <2>1, <2>2, <2>3 DEF Shows, ShownBoth, Shown
<1>14. job[t].op # "idle" /\ job[t].owner = o /\ owner'[o].kind # "none" /\ list' = list
  BY <1>0, <1>1, <1>3, <1>7
<1>15. \A l \in Lists : list[l] # NotBound => list[l].owner # o
  BY <1>0, <1>1, NoLists
<1>16. \A u \in Threads \ {t} : job'[u] = job[u] /\ (job[u].op # "idle" => job[u].owner # o)
  BY <1>3, <1>8
<1>12. CASE c = 0
  <2>1. job'[t] = Idle
    BY <1>8, <1>12
  <2>2. JobShown(job[t])'
    BY <2>1 DEF JobShown, Fills, Idle
  <2>3. \A s \in 0..(n - 1) : w[s + 1] = Unwritten
    BY <1>6, <1>12
  <2>4. Shows(o)'
    BY <1>7, <1>9, <2>3 DEF Shows, ShownBoth, Shown
  <2>5. job'[t].op = "idle"
    BY <2>1 DEF Idle
  <2> QED
    BY <1>3, <1>5, <1>7, <1>14, <1>15, <1>16, <2>2, <2>4, <2>5, OwnerStep
<1>13. CASE c # 0
  <2>0. PICK first, count : first = owner[o].first /\ count = c
    OBVIOUS
  <2>1. /\ job'[t].op = "move" /\ job'[t].owner = o /\ job'[t].oldFirst = first /\ job'[t].oldCount = count
        /\ job'[t].heap = generation'
    BY <1>8, <1>13, <2>0
  <2> HIDE DEF j, c
  <2>2. count <= Len(owner'[o].wants)
    BY <1>3, <1>6, <1>7, <2>0
  <2>3. \A s \in Slots(o)' : owner'[o].wants[s + 1] # Unwritten =>
            s < count /\ cpu'[first + s] = owner'[o].wants[s + 1]
    BY <1>7, <1>9, <1>11, <2>0
  <2>4. MoveOK(job[t])'
    BY <2>1, <2>2, <2>3 DEF MoveOK
  <2>5. JobShown(job[t])'
    BY <2>1, <2>4 DEF JobShown, Fills
  <2> QED
    BY <1>3, <1>5, <1>7, <1>14, <1>15, <1>16, <2>1, <2>5, OwnerStep
<1> QED
  BY <1>12, <1>13

\* What a range holds after a table was moved into it.
HoldsMoved(new, heap, S, from, to, c) ==
    /\ new = [i \in S |-> new[i]]
    /\ \A i \in S \ Descriptors(to, c) : new[i] = heap[i]
    /\ \A s \in Nat : s < c /\ to + s \in S => new[to + s] = cpu[from + s]

LEMMA MovedHolds ==
  ASSUME NEW heap, NEW S, DOMAIN heap = S, NEW from \in Nat, NEW to \in Nat, NEW c \in Nat
  PROVE  HoldsMoved(Moved(heap, from, to, c), heap, S, from, to, c)
<1>1. Moved(heap, from, to, c) = [i \in S |-> IF i \in Descriptors(to, c) THEN cpu[from + i - to] ELSE heap[i]]
  BY DEF Moved
<1>2. ASSUME NEW s \in Nat, s < c, to + s \in S PROVE Moved(heap, from, to, c)[to + s] = cpu[from + s]
  <2>1. to + s \in Descriptors(to, c) /\ from + (to + s) - to = from + s
    BY <1>2 DEF Descriptors
  <2> QED
    BY <1>1, <1>2, <2>1
<1> QED
  BY <1>1, <1>2 DEF HoldsMoved

LEMMA MoveTableShows ==
  ASSUME ShownInv, HeapInv', NEW t \in Threads, MoveTable(t)
  PROVE  ShownInv'
<1>0. PICK o, from, to, c : o = job[t].owner /\ from = job[t].oldFirst /\ to = owner[o].first /\ c = job[t].oldCount
  OBVIOUS
<1> DEFINE j == [op |-> "release", owner |-> o, oldFirst |-> from, oldCount |-> c]
           heap == visible[generation + 1]
           moved == Moved(heap, from, to, c)
<1>1. /\ job[t].op = "move" /\ job' = [job EXCEPT ![t] = j]
      /\ UNCHANGED <<numDescriptors, generation, owner, list>>
      /\ cpu' = IF job[t].heap = generation THEN Moved(cpu, from, to, c) ELSE cpu
      /\ visible' = IF job[t].heap = generation THEN [visible EXCEPT ![generation + 1] = moved] ELSE visible
  BY <1>0 DEF MoveTable
<1>2. /\ o \in Owners /\ \A u \in Threads \ {t} : job[u].op # "idle" => job[u].owner # o
      /\ from \in Nat /\ c \in Nat
  BY <1>0, <1>1, Alone DEF ShownInv, HeapInv, JobsOK
<1>3. to \in Nat /\ Len(owner[o].wants) \in Nat /\ OwnRange(o) = Descriptors(to, Len(owner[o].wants))
  BY <1>0, <1>2, OwnerTyped DEF ShownInv
<1>4. MoveOK(job[t])
  BY <1>1 DEF ShownInv, JobShown
<1>5. /\ job[t].heap = generation /\ c <= Len(owner[o].wants)
      /\ \A s \in Slots(o) : owner[o].wants[s + 1] # Unwritten => s < c /\ cpu[from + s] = owner[o].wants[s + 1]
  BY <1>0, <1>4 DEF MoveOK
<1>6. /\ generation \in Nat /\ visible = [g \in 1..(generation + 1) |-> visible[g]]
      /\ heap = [i \in Descriptors(0, numDescriptors) |-> heap[i]]
      /\ cpu = [i \in Descriptors(0, numDescriptors) |-> cpu[i]]
  BY DEF ShownInv, HeapShape
<1>7. Descriptors(to, c) \subseteq OwnRange(o)
  BY <1>2, <1>3, <1>5 DEF Descriptors
<1>8. cpu' = Moved(cpu, from, to, c) /\ visible' = [visible EXCEPT ![generation + 1] = moved]
  BY <1>1, <1>5
<1>9. /\ cpu' = [i \in Descriptors(0, numDescriptors) |-> cpu'[i]]
      /\ \A i \in Descriptors(0, numDescriptors) \ Descriptors(to, c) : cpu'[i] = cpu[i]
      /\ \A s \in Nat : s < c /\ to + s \in Descriptors(0, numDescriptors) => cpu'[to + s] = cpu[from + s]
  <2>1. DOMAIN cpu = Descriptors(0, numDescriptors)
    BY <1>6
  <2>2. HoldsMoved(cpu', cpu, Descriptors(0, numDescriptors), from, to, c)
    BY <1>2, <1>3, <1>8, <2>1, MovedHolds
  <2> QED
    BY <2>2 DEF HoldsMoved
<1>10. /\ moved = [i \in Descriptors(0, numDescriptors) |-> moved[i]]
       /\ \A i \in Descriptors(0, numDescriptors) \ Descriptors(to, c) : moved[i] = heap[i]
       /\ \A s \in Nat : s < c /\ to + s \in Descriptors(0, numDescriptors) => moved[to + s] = cpu[from + s]
  <2>1. DOMAIN heap = Descriptors(0, numDescriptors)
    BY <1>6
  <2> HIDE DEF heap
  <2>2. HoldsMoved(moved, heap, Descriptors(0, numDescriptors), from, to, c)
    BY <1>2, <1>3, <2>1, MovedHolds
  <2> HIDE DEF moved
  <2> QED
    BY <2>2 DEF HoldsMoved
<1> HIDE DEF moved
<1>11. /\ visible' = [g \in 1..(generation + 1) |-> visible'[g]]
       /\ \A g \in 1..generation : visible'[g] = visible[g]
       /\ visible'[generation + 1] = moved
  <2>1. visible' = [g \in 1..(generation + 1) |-> IF g = generation + 1 THEN moved ELSE visible[g]]
    BY <1>6, <1>8
  <2> QED
    BY <1>6, <2>1
<1>12. HeapStep(OwnRange(o))
  <2>1. \A l \in Lists : list[l] # NotBound /\ list[l].heap # generation => list[l].heap + 1 \in 1..generation
    BY <1>6 DEF ShownInv, ListOK
  <2>2. visible'[generation' + 1] = [i \in Descriptors(0, numDescriptors') |-> visible'[generation' + 1][i]]
    BY <1>1, <1>10, <1>11
  <2>3. \A i \in Descriptors(0, numDescriptors) \ OwnRange(o) :
            cpu'[i] = cpu[i] /\ visible'[generation + 1][i] = visible[generation + 1][i]
    BY <1>7, <1>9, <1>10, <1>11
  <2> QED
    BY <1>1, <1>9, <1>11, <2>1, <2>2, <2>3 DEF HeapStep
<1>13. ASSUME NEW s \in Slots(o) PROVE ShownBoth(o, s)'
  <2>1. s \in Nat /\ to + s \in Descriptors(0, numDescriptors)
    BY <1>0, <1>2, Cells DEF ShownInv
  <2>2. owner[o].wants[s + 1] # Unwritten =>
            cpu'[to + s] = owner[o].wants[s + 1] /\ moved[to + s] = owner[o].wants[s + 1]
    BY <1>5, <1>9, <1>10, <2>1
  <2> QED
    BY <1>0, <1>1, <1>11, <2>2 DEF ShownBoth, Shown
<1>14. Shows(o)'
  BY <1>1, <1>13 DEF Shows, Slots
<1>15. job'[t] = j /\ \A u \in Threads \ {t} : job'[u] = job[u]
  BY <1>1, JobOf DEF ShownInv
<1>16. JobShown(job[t])'
  BY <1>14, <1>15 DEF JobShown, Fills
<1>17. owner'[o].kind = "none" => owner'[o].wants = <<>>
  BY <1>1, <1>2 DEF ShownInv, HeapShape
<1>18. \A l \in Lists : list[l] # NotBound => list[l].owner # o
  BY <1>0, <1>1, NoLists
<1>19. job[t].owner = o /\ job'[t].op # "idle" /\ job'[t].owner = o
  BY <1>0, <1>15
<1>20. \A u \in Threads \ {t} : job'[u] = job[u] /\ (job[u].op # "idle" => job[u].owner # o)
  BY <1>2, <1>15
<1> QED
  BY <1>1, <1>2, <1>12, <1>14, <1>16, <1>17, <1>18, <1>19, <1>20, OwnerStep

-----------------------------------------------------------------------------
(* Lists.                                                                   *)

LEMMA BindShows ==
  ASSUME ShownInv, HeapInv', NEW l \in Lists, NEW o \in Owners, Bind(l, o)
  PROVE  ShownInv'
<1> DEFINE b == [owner |-> o, heap |-> generation, first |-> owner[o].first]
<1>1. /\ owner[o].wants # <<>> /\ ~Busy(o) /\ list' = [list EXCEPT ![l] = b]
      /\ UNCHANGED <<numDescriptors, generation, cpu, visible, owner, job>>
  BY DEF Bind, heapVars
<1>2. list = [k \in Lists |-> list[k]] /\ generation \in Nat
  BY DEF ShownInv, HeapShape
<1> HIDE DEF b
<1>3. list' = [k \in Lists |-> IF k = l THEN b ELSE list[k]]
  BY <1>1, <1>2
<1>4. list' = [k \in Lists |-> list'[k]]
  BY <1>3
<1>5. ASSUME NEW c PROVE ListOK(c)' <=> ListOK(c)
  BY <1>1 DEF ListOK, Busy, Slots, Shown
<1>6. ListOK(b)
  <2>1. owner[o].kind # "none"
    BY <1>1 DEF ShownInv, HeapShape
  <2>2. \A t \in Threads : ~(job[t].op # "idle" /\ job[t].owner = o)
    BY <1>1 DEF Busy
  <2>3. b.owner = o /\ b.heap = generation /\ b.first = owner[o].first
    BY DEF b
  <2> QED
    BY <1>2, <2>1, <2>2, <2>3 DEF ListOK
<1>7. ASSUME NEW k \in Lists, list'[k] # NotBound PROVE ListOK(list[k])'
  <2>1. PICK c : c = list'[k]
    OBVIOUS
  <2>2. ListOK(c)
    BY <1>3, <1>6, <1>7, <2>1 DEF ShownInv
  <2>3. ListOK(c)'
    BY <1>5, <2>2
  <2> QED
    BY <2>1, <2>3
<1>8. HeapShape'
  BY <1>1, <1>4 DEF ShownInv, HeapShape
<1>9. \A p \in Owners : ~Busy(p)' => Shows(p)'
  BY <1>1 DEF ShownInv, Busy, Shows, ShownBoth, Shown, Slots
<1>10. \A t \in Threads : JobShown(job[t])'
  BY <1>1, SMTT(30) DEF ShownInv, JobShown, Fills, FillOK, MoveOK, Remaining, Shows, ShownBoth, Shown, Slots
<1> QED
  BY <1>7, <1>8, <1>9, <1>10 DEF ShownInv

LEMMA FinishShows ==
  ASSUME ShownInv, HeapInv', NEW l \in Lists, Finish(l)
  PROVE  ShownInv'
<1>1. /\ list' = [list EXCEPT ![l] = NotBound] /\ visible' = Referenced(visible, list')
      /\ UNCHANGED <<numDescriptors, generation, cpu, owner, job>>
  BY DEF Finish
<1>2. /\ list = [k \in Lists |-> list[k]] /\ generation \in Nat
      /\ visible = [g \in 1..(generation + 1) |-> visible[g]]
      /\ visible[generation + 1] = [i \in Descriptors(0, numDescriptors) |-> visible[generation + 1][i]]
  BY DEF ShownInv, HeapShape
<1>3. list' = [k \in Lists |-> IF k = l THEN NotBound ELSE list[k]]
  BY <1>1, <1>2
<1>4. list' = [k \in Lists |-> list'[k]]
  BY <1>3
<1>5. visible' = [g \in 1..(generation + 1) |->
            IF g = generation + 1 \/ \E k \in Lists : list'[k] # NotBound /\ list'[k].heap + 1 = g
            THEN visible[g] ELSE <<>>]
  <2>1. DOMAIN visible = 1..(generation + 1)
    BY <1>2
  <2> DEFINE S == {visible[g] : g \in 1..(generation + 1)}
  <2>2. visible \in [1..(generation + 1) -> S]
    BY <1>2
  <2>3. Len(visible) = generation + 1
    <3> HIDE DEF S
    <3>1. visible \in Seq(S)
      BY <1>2, <2>2
    <3> QED
      BY <1>2, <2>1, <3>1
  <2> QED
    BY <1>1, <2>1, <2>3 DEF Referenced
<1>6. visible'[generation + 1] = visible[generation + 1]
  BY <1>2, <1>5
<1>7. visible' = [g \in 1..(generation + 1) |-> visible'[g]]
  BY <1>5
<1>8. HeapShape'
  BY <1>1, <1>2, <1>4, <1>6, <1>7 DEF ShownInv, HeapShape
<1>9. \A p \in Owners : ~Busy(p)' => Shows(p)'
  BY <1>1, <1>6 DEF ShownInv, Busy, Shows, ShownBoth, Shown, Slots
<1>10. \A t \in Threads : JobShown(job[t])'
  <2>1. \A p, s : /\ Slots(p)' = Slots(p)
                  /\ Shown(cpu, p, s)' <=> Shown(cpu, p, s)
                  /\ ShownBoth(p, s)' <=> ShownBoth(p, s)
    BY <1>1, <1>6 DEF ShownBoth, Shown, Slots
  <2>2. \A p : Shows(p)' <=> Shows(p)
    BY <2>1 DEF Shows
  <2>3. ASSUME NEW j, FillOK(j) PROVE FillOK(j)'
    BY <1>1, <2>1, <2>3 DEF FillOK, Remaining
  <2>4. ASSUME NEW j, MoveOK(j) PROVE MoveOK(j)'
    BY <1>1, <2>1, <2>4 DEF MoveOK
  <2>5. ASSUME NEW j, JobShown(j) PROVE JobShown(j)'
    BY <2>2, <2>3, <2>4, <2>5 DEF JobShown, Fills
  <2> SUFFICES ASSUME NEW t \in Threads PROVE JobShown(job[t])'
    OBVIOUS
  <2>6. PICK j : j = job[t]
    OBVIOUS
  <2> QED
    BY <1>1, <2>5, <2>6 DEF ShownInv
<1>11. ASSUME NEW k \in Lists, list'[k] # NotBound PROVE ListOK(list[k])'
  <2>1. PICK c : c = list'[k]
    OBVIOUS
  <2>2. ListOK(c) /\ c = list[k]
    BY <1>3, <1>11, <2>1 DEF ShownInv
  <2>3. c.heap \in 0..generation
    BY <2>2 DEF ListOK
  <2>4. visible'[c.heap + 1] = visible[c.heap + 1]
    BY <1>2, <1>5, <1>11, <2>1, <2>3
  <2>5. ListOK(c)'
    BY <1>1, <2>2, <2>4 DEF ListOK, Busy, Slots, Shown
  <2> QED
    BY <2>1, <2>5
<1> QED
  BY <1>8, <1>9, <1>10, <1>11 DEF ShownInv

-----------------------------------------------------------------------------
(* The theorem.                                                             *)

LEMMA ShownInvInit == ASSUME HeapAssumption, Init PROVE ShownInv
<1>1. HeapInv
  BY HeapInvInit
<1>2. \A o \in Owners : owner[o] = NoOwner
  BY DEF Init
<1>3. \A o \in Owners : Shows(o)
  BY <1>2 DEF Shows, Slots, NoOwner, Descriptors
<1>4. \A t \in Threads : JobShown(job[t])
  BY DEF Init, JobShown, Fills, Idle
<1>5. \A l \in Lists : list[l] = NotBound
  BY DEF Init
<1>6. HeapShape
  BY <1>2 DEF Init, HeapShape, NoOwner
<1> QED
  BY <1>1, <1>3, <1>4, <1>5, <1>6 DEF ShownInv

LEMMA ShownInvNext == ASSUME HeapAssumption, Careful, ShownInv, [Next]_vars PROVE ShownInv'
<1>0. HeapInv'
  BY HeapInvNext DEF ShownInv
<1>1. ASSUME NEW t \in Threads, NEW o \in Sets, CreateBindingSet(t, o) PROVE ShownInv'
  BY <1>0, <1>1, CreateBindingSetShows
<1>2. ASSUME NEW t \in Threads, TakeHandle(t) PROVE ShownInv'
  BY <1>0, <1>2, TakeHandleShows
<1>3. ASSUME NEW t \in Threads, WriteDescriptor(t) PROVE ShownInv'
  BY <1>0, <1>3, WriteDescriptorShows
<1>4. ASSUME NEW t \in Threads, CopyToShaderVisibleHeap(t) PROVE ShownInv'
  BY <1>0, <1>4, CopyShows
<1>5. ASSUME NEW t \in Threads, NEW o \in Tables, NEW slot \in Descriptors(0, MaxCapacity), NEW r \in Resources,
             WriteDescriptorTable(t, o, slot, r)
      PROVE  ShownInv'
  BY <1>0, <1>5, WriteDescriptorTableShows
<1>6. ASSUME NEW t \in Threads, NEW o \in Tables, NEW n \in 0..MaxCapacity,
             ShrinkTable(t, o, n) \/ DiscardTable(t, o, n) \/ KeepTable(t, o, n)
      PROVE  ShownInv'
  BY <1>0, <1>6, ShrinkTableShows, DiscardTableShows, KeepTableShows
<1>7. ASSUME NEW t \in Threads, ReallocateTable(t) PROVE ShownInv'
  BY <1>0, <1>7, ReallocateTableShows
<1>8. ASSUME NEW t \in Threads, MoveTable(t) PROVE ShownInv'
  BY <1>0, <1>8, MoveTableShows
<1>9. ASSUME NEW t \in Threads, ReleaseOldRange(t) PROVE ShownInv'
  BY <1>0, <1>9, ReleaseOldRangeShows
<1>10. ASSUME NEW o \in Tables, CreateDescriptorTable(o) PROVE ShownInv'
  BY <1>0, <1>10, CreateDescriptorTableShows
<1>11. ASSUME NEW o \in Owners, Destroy(o) PROVE ShownInv'
  BY <1>0, <1>11, DestroyShows
<1>12. ASSUME NEW l \in Lists, Finish(l) \/ \E o \in Owners : Bind(l, o) PROVE ShownInv'
  BY <1>0, <1>12, FinishShows, BindShows
<1>13. CASE UNCHANGED vars
  <2>1. UNCHANGED <<numDescriptors, generation, cpu, visible, owner, job, list>>
    BY <1>13 DEF vars, heapVars
  <2>2. HeapShape' /\ \A p \in Owners : ~Busy(p)' => Shows(p)'
    BY <2>1 DEF ShownInv, HeapShape, Busy, Shows, ShownBoth, Shown, Slots
  <2>3. \A p, s : /\ Slots(p)' = Slots(p)
                  /\ \A g : Shown(visible[g], p, s)' <=> Shown(visible[g], p, s)
                  /\ Shown(cpu, p, s)' <=> Shown(cpu, p, s)
                  /\ ShownBoth(p, s)' <=> ShownBoth(p, s)
    BY <2>1 DEF ShownBoth, Shown, Slots
  <2>4. \A p : (Shows(p)' <=> Shows(p)) /\ (Busy(p)' <=> Busy(p))
    BY <2>1, <2>3 DEF Shows, Busy
  <2>5. ASSUME NEW j, JobShown(j) PROVE JobShown(j)'
    <3>1. Fills(j) => FillOK(j)'
      BY <2>1, <2>3, <2>5 DEF JobShown, FillOK, Remaining
    <3>2. j.op = "move" => MoveOK(j)'
      BY <2>1, <2>3, <2>5 DEF JobShown, MoveOK
    <3> QED
      BY <2>4, <2>5, <3>1, <3>2 DEF JobShown, Fills
  <2>6. ASSUME NEW b, ListOK(b) PROVE ListOK(b)'
    BY <2>1, <2>3, <2>4, <2>6 DEF ListOK
  <2>7. ASSUME NEW t \in Threads PROVE JobShown(job[t])'
    <3>1. PICK j : j = job[t]
      OBVIOUS
    <3> QED
      BY <2>1, <2>5, <3>1 DEF ShownInv
  <2>8. ASSUME NEW l \in Lists, list'[l] # NotBound PROVE ListOK(list[l])'
    <3>1. PICK b : b = list[l]
      OBVIOUS
    <3> QED
      BY <2>1, <2>6, <2>8, <3>1 DEF ShownInv
  <2> QED
    BY <1>0, <2>2, <2>7, <2>8 DEF ShownInv
<1> QED
  BY <1>1, <1>2, <1>3, <1>4, <1>5, <1>6, <1>7, <1>8, <1>9, <1>10, <1>11, <1>12, <1>13 DEF Next

LEMMA ShownInvImplies == ASSUME ShownInv PROVE ListsSeeDescriptors
<1> SUFFICES ASSUME NEW l \in Lists, list[l] # NotBound, ~Busy(list[l].owner),
                    NEW slot \in Descriptors(0, Len(owner[list[l].owner].wants)),
                    owner[list[l].owner].wants[slot + 1] # Unwritten
             PROVE  visible[list[l].heap + 1][list[l].first + slot] = owner[list[l].owner].wants[slot + 1]
  BY DEF ListsSeeDescriptors
<1> DEFINE o == list[l].owner
<1>1. ListOK(list[l]) /\ slot \in Slots(o)
  BY DEF ShownInv, Slots
<1>2. Shown(visible[list[l].heap + 1], o, slot)
  <2>1. CASE list[l].heap # generation
    BY <1>1, <2>1 DEF ListOK
  <2>2. CASE list[l].heap = generation
    <3>1. Shows(o)
      BY <1>1 DEF ShownInv, ListOK
    <3> QED
      BY <1>1, <2>2, <3>1 DEF Shows, ShownBoth
  <2> QED
    BY <2>1, <2>2
<1> QED
  BY <1>1, <1>2 DEF Shown, ListOK

\* Whatever sets and tables are created, written, resized and destroyed while
\* the heap grows, a list sees what its sets and tables hold through the heap it
\* was recorded with: for heaps of any size, of applications that do not let a
\* heap grow while another thread fills descriptors, do not resize or destroy a
\* table lists use, and do not write one a list uses through an older heap
\* (StaticDescriptorHeap::growHeap, createBindingSet, writeDescriptorTable).
THEOREM DescriptorsSeen == ASSUME HeapAssumption, Careful PROVE Spec => []ListsSeeDescriptors
<1>1. Init => ShownInv
  BY ShownInvInit
<1>2. ShownInv /\ [Next]_vars => ShownInv'
  BY ShownInvNext
<1>3. ShownInv => ListsSeeDescriptors
  BY ShownInvImplies
<1> QED
  BY <1>1, <1>2, <1>3, PTL DEF Spec
=============================================================================
