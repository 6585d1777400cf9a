---------------------------- MODULE DescriptorHeap ----------------------------
(***************************************************************************)
(* A descriptor heap of the D3D12 device: descriptors are allocated as     *)
(* ranges by binding sets, once, and by descriptor tables, which can be    *)
(* resized.  They are written into a heap of the CPU and copied to one the *)
(* shaders see; both are replaced when the heap grows.                     *)
(*                                                                         *)
(* Allocation and release hold the mutex of the heap.  Handles, writes and *)
(* copies do not: each is a step of its own here.                          *)
(***************************************************************************)
EXTENDS Naturals, Sequences, FiniteSets, SequencesExt

CONSTANTS
    Threads,        \* threads that create sets and change tables
    Sets, Tables,   \* binding sets and descriptor tables there may be
    Lists,          \* command lists that use them
    Contents,       \* Sets -> what each set consists of: a sequence of resources
    Resources,      \* what may be written to a table
    Unwritten,      \* what a descriptor holds that nobody wrote
    InitialSize,    \* descriptors at the start
    MaxSize,        \* the largest heap shaders can see
    MaxCapacity,    \* bound: descriptors of a table
    Avoided         \* "GrowWhileFilling", "TableInUse", "WriteAfterGrow"

VARIABLES
    numDescriptors, \* m_NumDescriptors
    allocated,      \* the indices set in m_AllocatedDescriptors
    searchStart,    \* m_SearchStart
    generation,     \* how often the heaps were replaced
    cpu,            \* m_Heap: index -> resource
    visible,        \* generation -> m_ShaderVisibleHeap of that time, while anybody refers to it
    owner,          \* Owners -> [kind, first, wants]
    job,            \* Threads -> what the thread is in the middle of
    list            \* Lists -> what a list has bound

heapVars == <<numDescriptors, allocated, searchStart, generation, cpu, visible>>
vars == <<heapVars, owner, job, list>>

Avoids(name, bad) == name \in Avoided => ~bad

Owners == Sets \cup Tables
NoOwner == [kind |-> "none", first |-> 0, wants |-> <<>>]
Idle == [op |-> "idle"]
NotBound == [owner |-> "none"]

Descriptors(first, n) == first..(first + n - 1)

Init ==
    /\ numDescriptors = InitialSize /\ allocated = {} /\ searchStart = 0 /\ generation = 0
    /\ cpu = [i \in Descriptors(0, InitialSize) |-> Unwritten]
    /\ visible = <<[i \in Descriptors(0, InitialSize) |-> Unwritten]>>
    /\ owner = [o \in Owners |-> NoOwner]
    /\ job = [t \in Threads |-> Idle]
    /\ list = [l \in Lists |-> NotBound]

---------------------------------------------------------------------------
(* allocateDescriptors and releaseDescriptors.                              *)

(* A mutant: the count of free descriptors is not reset by an allocated one. *)
FreeAtNotReset(i, n) ==
    LET last == i + n - 1 IN
    last < numDescriptors /\ last \notin allocated /\ Cardinality((searchStart..last) \ allocated) >= n
FreeAt(i, n) == Descriptors(i, n) \cap allocated = {} /\ i + n <= numDescriptors

Candidates(n) == {i \in searchStart..numDescriptors : FreeAt(i, n)}

(* The first range that fits, or the end of the heap, which then grows. *)
FirstFit(n, i) ==
    \/ i \in Candidates(n) /\ \A j \in Candidates(n) : i <= j
    \/ i = numDescriptors /\ Candidates(n) = {}

(* It grows to the next power of two, or to the limit where that is less. *)
Powers == {p \in 1..MaxSize : \E k \in 0..MaxSize : p = 2^k}
LargeEnough(n) == {size \in Powers \cup {MaxSize} : size >= numDescriptors + n}
GrowsTo(n, size) == size \in LargeEnough(n) /\ \A other \in LargeEnough(n) : size <= other

Grown(size) == [i \in Descriptors(0, size) |-> IF i < numDescriptors THEN cpu[i] ELSE Unwritten]
GrownInvisible(size) == [i \in Descriptors(0, size) |-> Unwritten]         \* a mutant
GrownVisible(size) == Grown(size)         \* copied from the heap of the CPU

(* Threads that hold a handle into the heaps, or write a table. *)
Filling ==
    {t \in Threads : \/ job[t].op \in {"write", "copy", "move"}
                     \/ job[t].op = "handle" /\ owner[job[t].owner].kind = "table"}

(* Old heaps live as long as lists refer to them. *)
Referenced(heaps, bound) ==
    [g \in DOMAIN heaps |->
        IF g = Len(heaps) \/ \E l \in Lists : bound[l] # NotBound /\ bound[l].heap + 1 = g THEN heaps[g] ELSE <<>>]

(* The callers go on with an invalid index when no size is large enough: no
   behaviour is defined from there on, and none is modelled. *)
AllocateDescriptors(n, found) ==
    /\ FirstFit(n, found)
    /\ allocated' = allocated \cup Descriptors(found, n)
    /\ searchStart' = found + n
    /\ IF found = numDescriptors
       THEN \E size \in Descriptors(0, MaxSize + 1) :
             /\ GrowsTo(n, size)
             /\ Avoids("GrowWhileFilling", Filling # {})
             /\ numDescriptors' = size
             /\ generation' = generation + 1
             /\ cpu' = Grown(size)
             /\ visible' = Referenced(Append(visible, GrownVisible(size)), list)
       ELSE UNCHANGED <<numDescriptors, generation, cpu, visible>>

ReleaseDescriptors(first, n) ==
    /\ allocated' = allocated \ Descriptors(first, n)
    /\ searchStart' = IF n > 0 /\ searchStart > first THEN first ELSE searchStart
    /\ UNCHANGED <<numDescriptors, generation, cpu, visible>>

---------------------------------------------------------------------------
(* Binding sets: the range is allocated, each descriptor created through a
   handle of its own, and all of them copied where shaders see them.        *)

Busy(o) == \E t \in Threads : job[t].op # "idle" /\ job[t].owner = o

CreateBindingSet(t, o) ==
    /\ job[t] = Idle /\ owner[o] = NoOwner
    /\ \E found \in 0..MaxSize :
         /\ AllocateDescriptors(Len(Contents[o]), found)
         /\ owner' = [owner EXCEPT ![o] = [kind |-> "set", first |-> found, wants |-> Contents[o]]]
    /\ job' = [job EXCEPT ![t] =
            [op |-> "handle", owner |-> o, slots |-> [n \in DOMAIN Contents[o] |-> n - 1], done |-> <<>>]]
    /\ UNCHANGED list

TakeHandle(t) ==
    /\ job[t].op = "handle"
    /\ job' = [job EXCEPT ![t] = IF @.slots = <<>>
            THEN [op |-> "copy", owner |-> @.owner, done |-> @.done, heap |-> generation]
            ELSE [op |-> "write", owner |-> @.owner, slots |-> @.slots, done |-> @.done, heap |-> generation]]
    /\ UNCHANGED <<heapVars, owner, list>>

(* Through a handle of a heap that was replaced, nothing is written that
   anybody sees. *)
WriteDescriptor(t) ==
    /\ job[t].op = "write"
    /\ LET o == job[t].owner
           slot == Head(job[t].slots)
       IN  /\ cpu' = IF job[t].heap = generation
                     THEN [cpu EXCEPT ![owner[o].first + slot] = owner[o].wants[slot + 1]] ELSE cpu
           /\ job' = [job EXCEPT ![t] =
                [op |-> "handle", owner |-> o, slots |-> Tail(@.slots), done |-> Append(@.done, slot)]]
    /\ UNCHANGED <<numDescriptors, allocated, searchStart, generation, visible, owner, list>>

CopyToShaderVisibleHeap(t) ==
    /\ job[t].op = "copy"
    /\ LET copied == {owner[job[t].owner].first + slot : slot \in ToSet(job[t].done)}
       IN  visible' = IF job[t].heap = generation
                      THEN [visible EXCEPT ![generation + 1] =
                                [i \in DOMAIN @ |-> IF i \in copied THEN cpu[i] ELSE @[i]]]
                      ELSE visible
    /\ job' = [job EXCEPT ![t] = Idle]
    /\ UNCHANGED <<numDescriptors, allocated, searchStart, generation, cpu, owner, list>>

(* A set is kept alive by the lists that use it, a table is not. *)
Used(o) == \E l \in Lists : list[l].owner = o
Destroy(o) ==
    /\ owner[o].kind # "none" /\ ~Busy(o)
    /\ owner[o].kind = "set" => ~Used(o)
    /\ Avoids("TableInUse", Used(o))
    /\ ReleaseDescriptors(owner[o].first, Len(owner[o].wants))
    /\ owner' = [owner EXCEPT ![o] = NoOwner]
    /\ UNCHANGED <<job, list>>

---------------------------------------------------------------------------
(* Descriptor tables.                                                       *)

CreateDescriptorTable(o) ==
    /\ owner[o] = NoOwner
    /\ owner' = [owner EXCEPT ![o] = [NoOwner EXCEPT !.kind = "table"]]
    /\ UNCHANGED <<heapVars, job, list>>

OlderHeap(o) == \E l \in Lists : list[l].owner = o /\ list[l].heap < generation

WriteDescriptorTable(t, o, slot, r) ==
    /\ job[t] = Idle /\ owner[o].kind = "table" /\ ~Busy(o)
    /\ slot < Len(owner[o].wants)
    /\ Avoids("WriteAfterGrow", OlderHeap(o))
    /\ owner' = [owner EXCEPT ![o].wants[slot + 1] = r]
    /\ job' = [job EXCEPT ![t] =
            [op |-> "write", owner |-> o, slots |-> <<slot>>, done |-> <<>>, heap |-> generation]]
    /\ UNCHANGED <<heapVars, list>>

Capacity(o) == Len(owner[o].wants)
Resizable(t, o) == job[t] = Idle /\ owner[o].kind = "table" /\ ~Busy(o) /\ Avoids("TableInUse", Used(o))

ShrinkTable(t, o, n) ==
    /\ Resizable(t, o) /\ n < Capacity(o)
    /\ ReleaseDescriptors(owner[o].first + n, Capacity(o) - n)
    /\ owner' = [owner EXCEPT ![o].wants = SubSeq(@, 1, n)]
    /\ UNCHANGED <<job, list>>

(* The contents are given up: the old range goes first. *)
DiscardTable(t, o, n) ==
    /\ Resizable(t, o) /\ n > Capacity(o) /\ Capacity(o) > 0
    /\ ReleaseDescriptors(owner[o].first, Capacity(o))
    /\ owner' = [owner EXCEPT ![o] = [NoOwner EXCEPT !.kind = "table"]]
    /\ job' = [job EXCEPT ![t] = [op |-> "reallocate", owner |-> o, count |-> n]]
    /\ UNCHANGED list
(* The contents are kept: the old range stays until they have been copied. *)
KeepTable(t, o, n) ==
    /\ Resizable(t, o) /\ n > Capacity(o)
    /\ job' = [job EXCEPT ![t] = [op |-> "reallocate", owner |-> o, count |-> n]]
    /\ UNCHANGED <<heapVars, owner, list>>

UnwrittenRange(n) == [i \in 1..n |-> Unwritten]
ReallocateTable(t) ==
    /\ job[t].op = "reallocate"
    /\ LET o == job[t].owner
           n == job[t].count
       IN  \E found \in 0..MaxSize :
             /\ AllocateDescriptors(n, found)
             /\ owner' = [owner EXCEPT ![o].first = found, ![o].wants = @ \o UnwrittenRange(n - Len(@))]
             /\ job' = [job EXCEPT ![t] = IF Capacity(o) = 0 THEN Idle
                    ELSE [op |-> "move", owner |-> o, oldFirst |-> owner[o].first, oldCount |-> Capacity(o),
                          heap |-> generation']]
    /\ UNCHANGED list

(* Both heaps get what the heap of the CPU holds in the old range. *)
Moved(contents, from, to, n) ==
    [i \in DOMAIN contents |-> IF i \in Descriptors(to, n) THEN cpu[from + i - to] ELSE contents[i]]
MoveTable(t) ==
    /\ job[t].op = "move"
    /\ LET j == job[t]
           to == owner[j.owner].first
       IN  /\ cpu' = IF j.heap = generation THEN Moved(cpu, j.oldFirst, to, j.oldCount) ELSE cpu
           /\ visible' = IF j.heap = generation
                THEN [visible EXCEPT ![generation + 1] = Moved(@, j.oldFirst, to, j.oldCount)] ELSE visible
           /\ job' = [job EXCEPT ![t] = [op |-> "release", owner |-> j.owner, oldFirst |-> j.oldFirst, oldCount |-> j.oldCount]]
    /\ UNCHANGED <<numDescriptors, allocated, searchStart, generation, owner, list>>

ReleaseOldRange(t) ==
    /\ job[t].op = "release"
    /\ ReleaseDescriptors(job[t].oldFirst, job[t].oldCount)
    /\ job' = [job EXCEPT ![t] = Idle]
    /\ UNCHANGED <<owner, list>>

---------------------------------------------------------------------------
(* Command lists: commitDescriptorHeaps sets and references the heap of the
   moment, and a root parameter points into it.                             *)

Bind(l, o) ==
    /\ list[l] = NotBound /\ owner[o].wants # <<>> /\ ~Busy(o)
    /\ list' = [list EXCEPT ![l] = [owner |-> o, heap |-> generation, first |-> owner[o].first]]
    /\ UNCHANGED <<heapVars, owner, job>>

Finish(l) ==
    /\ list[l] # NotBound
    /\ list' = [list EXCEPT ![l] = NotBound]
    /\ visible' = Referenced(visible, list')
    /\ UNCHANGED <<numDescriptors, allocated, searchStart, generation, cpu, owner, job>>

Next ==
    \/ \E t \in Threads :
         \/ \E o \in Sets : CreateBindingSet(t, o)
         \/ TakeHandle(t)
         \/ WriteDescriptor(t)
         \/ CopyToShaderVisibleHeap(t)
         \/ \E o \in Tables, slot \in Descriptors(0, MaxCapacity), r \in Resources : WriteDescriptorTable(t, o, slot, r)
         \/ \E o \in Tables, n \in 0..MaxCapacity : ShrinkTable(t, o, n) \/ DiscardTable(t, o, n) \/ KeepTable(t, o, n)
         \/ ReallocateTable(t)
         \/ MoveTable(t)
         \/ ReleaseOldRange(t)
    \/ \E o \in Tables : CreateDescriptorTable(o)
    \/ \E o \in Owners : Destroy(o)
    \/ \E l \in Lists : Finish(l) \/ \E o \in Owners : Bind(l, o)

Spec == Init /\ [][Next]_vars

---------------------------------------------------------------------------
(* Properties.                                                              *)

(* A heap has some size, and a set consists of one resource or more. *)
Entries == Resources \cup {Unwritten} \cup UNION {ToSet(Contents[o]) : o \in Sets}
HeapAssumption ==
    /\ InitialSize \in Nat /\ MaxSize \in Nat
    /\ Sets \cap Tables = {}
    /\ Contents \in [Sets -> Seq(Entries) \ {<<>>}]

(* The ranges an owner holds: a table that moves holds two. *)
OldRange(t) == IF job[t].op \in {"move", "release"} THEN Descriptors(job[t].oldFirst, job[t].oldCount) ELSE {}
OldRanges(o) == UNION {OldRange(t) : t \in {u \in Threads : job[u].op # "idle" /\ job[u].owner = o}}
OwnRange(o) == Descriptors(owner[o].first, Len(owner[o].wants))
Held(o) == OwnRange(o) \cup OldRanges(o)

\* Whatever threads allocate, resize and release in between each other, and
\* wherever the search begins, no descriptor belongs to two owners or to both
\* ranges of a table that moves, none is outside the heap, and the allocator
\* counts as taken exactly what is held, so that nothing leaks.
LiveRangesDisjoint ==
    /\ allocated = UNION {Held(o) : o \in Owners}
    /\ allocated \subseteq Descriptors(0, numDescriptors)
    /\ \A o, p \in Owners : o # p => Held(o) \cap Held(p) = {}
    /\ \A o \in Owners : OwnRange(o) \cap OldRanges(o) = {}

\* A list that has bound a set, or a table, sees through the heap it was
\* recorded with what the set or table holds, also after other owners grew
\* the heap, the table was written again, or its range was moved before.
ListsSeeDescriptors ==
    \A l \in Lists : list[l] # NotBound /\ ~Busy(list[l].owner) =>
        \A slot \in Descriptors(0, Len(owner[list[l].owner].wants)) :
            LET want == owner[list[l].owner].wants[slot + 1] IN
            want # Unwritten => visible[list[l].heap + 1][list[l].first + slot] = want
=============================================================================
