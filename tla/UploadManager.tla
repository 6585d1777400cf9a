--------------------------- MODULE UploadManager ---------------------------
(***************************************************************************)
(* The upload manager of a command list, and its scratch manager, which is *)
(* another object of the same class (src/vulkan/vulkan-upload.cpp,         *)
(* src/d3d12/d3d12-upload.cpp).  Memory for uploads or for building        *)
(* acceleration structures is suballocated from chunks, which go back to a *)
(* pool with the version of the recording that used them and are taken out *)
(* again when its submission is finished.                                  *)
(***************************************************************************)
EXTENDS Recordings, SequencesExt

CONSTANTS
    DefaultChunkSize, SizeAlignment,
    MemoryLimit,        \* scratchMaxMemory, or 0: no limit
    ReusesAtLimit,      \* whether a scratch chunk in use may be reused (DX12)
    Requests,           \* the [size, alignment] asked for
    None,               \* no chunk
    MaxAllocations      \* bound: [Lists -> allocations per list]

Chunk == [id : Nat \ {0}, size : Nat, writePointer : Nat,
          version : {Available} \cup
                    [instance : Nat \ {0}, queue : Queues, submitted : BOOLEAN]]

UploadManagerAssumption ==
    /\ DefaultChunkSize \in Nat \ {0} /\ SizeAlignment \in Nat \ {0}
    /\ MemoryLimit \in Nat /\ ReusesAtLimit \in BOOLEAN
    /\ Requests \subseteq [size : Nat \ {0}, alignment : Nat \ {0}]
    /\ MaxAllocations \in [Lists -> Nat] /\ None \notin Chunk

VARIABLES
    current,    \* [Lists -> m_CurrentChunk: a chunk or None]
    pool,       \* [Lists -> m_ChunkPool: Seq(chunks)]
    created,    \* [Lists -> chunks created]
    allocated   \* [Lists -> allocations made]

vars == <<recordingVars, current, pool, created, allocated>>

\* m_AllocatedMemory is initialised and then only read.
AllocatedMemory == 0

Align(n, a) == ((n + a - 1) \div a) * a

Chunks(l) == ToSet(pool[l]) \cup ({current[l]} \ {None})

-----------------------------------------------------------------------------
\* mutant: chunks of recordings not yet submitted may be taken as well
ReclaimPending(chunk, finished) ==
    IF chunk.version.instance <= finished
    THEN [chunk EXCEPT !.version = Available] ELSE chunk

\* a chunk whose submission is finished becomes available
Reclaim(chunk, finished) ==
    IF chunk.version.submitted /\ chunk.version.instance <= finished
    THEN [chunk EXCEPT !.version = Available] ELSE chunk

\* the chunk that was too full goes to the end of the pool
Retire(l, chunks) == IF current[l] = None THEN chunks ELSE Append(chunks, current[l])

AlignedOffset(chunk, r) == Align(chunk.writePointer, r.alignment)

\* mutant: the alignment may push the data beyond the end of the chunk
FitsUnaligned(chunk, r) == chunk.writePointer + r.size <= chunk.size

Fits(chunk, r) == AlignedOffset(chunk, r) + r.size <= chunk.size

\* the buffer is handed out: [lo, hi) of a chunk, the n-th allocation of the list
Allocate(l, chunk, lo, hi) ==
    /\ Use(l, {[list |-> l, chunk |-> chunk.id, lo |-> lo, hi |-> hi, n |-> allocated[l] + 1]})
    /\ current' = [current EXCEPT ![l] = chunk]
    /\ allocated' = [allocated EXCEPT ![l] = @ + 1]

\* there is room in the current chunk
AllocateFromCurrent(l, r) ==
    /\ current[l] # None /\ Fits(current[l], r)
    /\ LET lo == AlignedOffset(current[l], r)
       IN  Allocate(l, [current[l] EXCEPT !.writePointer = lo + r.size], lo, lo + r.size)
    /\ UNCHANGED <<pool, created>>

NeedsChunk(l, r) == current[l] # None => ~Fits(current[l], r)

\* The pool is searched for the first chunk that is available and large enough.
Suitable(chunk, r, finished) ==
    Reclaim(chunk, finished).version = Available /\ chunk.size >= r.size

Found(l, r, finished, n) ==
    /\ Suitable(pool[l][n], r, finished)
    /\ \A i \in 1..(n - 1) : ~Suitable(pool[l][i], r, finished)

NothingFound(l, r, finished) ==
    \A i \in DOMAIN pool[l] : ~Suitable(pool[l][i], r, finished)

\* every chunk the search passed was reclaimed if it could be
Searched(l, finished, n) == [i \in DOMAIN pool[l] |->
    IF i <= n THEN Reclaim(pool[l][i], finished) ELSE pool[l][i]]

\* the chunk is this recording's from its start
Fresh(l, chunk, r) == [chunk EXCEPT !.version = PendingVersion(l), !.writePointer = r.size]

AllocateFromPool(l, r, finished) ==
    /\ NeedsChunk(l, r)
    /\ \E n \in DOMAIN pool[l] :
        /\ Found(l, r, finished, n)
        /\ Allocate(l, Fresh(l, pool[l][n], r), 0, r.size)
        /\ pool' = [pool EXCEPT ![l] = Retire(l, RemoveAt(Searched(l, finished, n), n))]
    /\ UNCHANGED created

SizeToAllocate(r) ==
    Align(IF r.size > DefaultChunkSize THEN r.size ELSE DefaultChunkSize, SizeAlignment)

OverLimit(r) == MemoryLimit > 0 /\ AllocatedMemory + SizeToAllocate(r) > MemoryLimit

\* the pool after a search that found nothing
AfterSearch(l, finished) == Retire(l, Searched(l, finished, Len(pool[l])))

AllocateNewChunk(l, r, finished) ==
    /\ NeedsChunk(l, r) /\ NothingFound(l, r, finished) /\ ~OverLimit(r)
    /\ LET chunk == [id |-> created[l] + 1, size |-> SizeToAllocate(r),
                     version |-> Available, writePointer |-> 0]
       IN  Allocate(l, Fresh(l, chunk, r), 0, r.size)
    /\ created' = [created EXCEPT ![l] = @ + 1]
    /\ pool' = [pool EXCEPT ![l] = AfterSearch(l, finished)]

\* "Compare chunks: submitted is better than current, old is better than new,
\* large is better than small"
Better(a, b) ==
    LET older == a.version.instance < b.version.instance
        same  == a.version.instance = b.version.instance
    IN  IF a.version.submitted # b.version.submitted THEN a.version.submitted
        ELSE older \/ (same /\ a.size > b.size)

\* the chunks large enough of which none before is as good, and none after better
BestChunks(chunks, r) == {i \in DOMAIN chunks :
    /\ chunks[i].size >= SizeToAllocate(r)
    /\ \A j \in DOMAIN chunks : chunks[j].size >= SizeToAllocate(r) =>
        /\ ~Better(chunks[j], chunks[i])
        /\ j < i => Better(chunks[i], chunks[j])}

\* No more memory may be allocated: DX12 reuses a scratch chunk that is still in
\* use, behind a UAV barrier, if one is large enough; otherwise the call fails.
AllocateAtLimit(l, r, finished) ==
    LET chunks == AfterSearch(l, finished)
        best   == IF ReusesAtLimit THEN BestChunks(chunks, r) ELSE {}
    IN  /\ NeedsChunk(l, r) /\ NothingFound(l, r, finished) /\ OverLimit(r)
        /\ IF best = {}
           THEN /\ pool' = [pool EXCEPT ![l] = chunks]
                /\ current' = [current EXCEPT ![l] = None]
                /\ allocated' = [allocated EXCEPT ![l] = @ + 1]
                /\ phase[l] = "open" /\ UNCHANGED recordingVars
           ELSE \E i \in best :
                /\ Allocate(l, Fresh(l, chunks[i], r), 0, r.size)
                /\ pool' = [pool EXCEPT ![l] = RemoveAt(chunks, i)]
        /\ UNCHANGED created

\* suballocateBuffer.  DX12 compares with what the queue last knew to be finished,
\* Vulkan asks the GPU.
SuballocateBuffer(l, r) ==
    /\ allocated[l] < MaxAllocations[l]
    /\ \/ AllocateFromCurrent(l, r)
       \/ \E finished \in {lastFinishedID[QueueOf[l]], completed[QueueOf[l]]} :
            \/ AllocateFromPool(l, r, finished)
            \/ AllocateNewChunk(l, r, finished)
            \/ AllocateAtLimit(l, r, finished)

-----------------------------------------------------------------------------
\* mutant: the current chunk is retired after the versions are replaced
SubmittedChunksFirst(l) == Retire(l, [i \in DOMAIN pool[l] |->
    IF pool[l][i].version = PendingVersion(l)
    THEN [pool[l][i] EXCEPT !.version = SubmittedVersion(l)] ELSE pool[l][i]])

\* submitChunks
SubmittedChunks(l) == [i \in DOMAIN Retire(l, pool[l]) |->
    LET chunk == Retire(l, pool[l])[i]
    IN  IF chunk.version = PendingVersion(l)
        THEN [chunk EXCEPT !.version = SubmittedVersion(l)] ELSE chunk]

ExecutedChunks(l) ==
    /\ Executed(l)
    /\ pool' = [pool EXCEPT ![l] = SubmittedChunks(l)]
    /\ current' = [current EXCEPT ![l] = None]
    /\ UNCHANGED <<created, allocated>>

-----------------------------------------------------------------------------
Init ==
    /\ RecordingsInit
    /\ current = [l \in Lists |-> None] /\ pool = [l \in Lists |-> <<>>]
    /\ created = [l \in Lists |-> 0] /\ allocated = [l \in Lists |-> 0]

Next ==
    \/ \E l \in Lists : \/ Open(l) /\ UNCHANGED <<current, pool, created, allocated>>
                        \/ Close(l) /\ UNCHANGED <<current, pool, created, allocated>>
                        \/ \E r \in Requests : SuballocateBuffer(l, r)
                        \/ ExecutedChunks(l)
    \/ /\ \E q \in Queues : \/ \E S \in (SUBSET Lists) \ {{}} : Submit(q, S)
                            \/ Complete(q) \/ UpdateLastFinishedID(q)
       /\ UNCHANGED <<current, pool, created, allocated>>

Spec == Init /\ [][Next]_vars

-----------------------------------------------------------------------------
(* Properties.                                                              *)

TypeOK ==
    /\ RecordingsTypeOK
    /\ current \in [Lists -> Chunk \cup {None}] /\ pool \in [Lists -> Seq(Chunk)]
    /\ created \in [Lists -> Nat] /\ allocated \in [Lists -> Nat]
    /\ \A l \in Lists : \A chunk \in Chunks(l) : chunk.writePointer <= chunk.size
    /\ \A l \in Lists : uses[l] \subseteq
            [list : {l}, chunk : 1..created[l], lo : Nat, hi : Nat, n : 1..allocated[l]]

\* Memory that a recording or an unfinished submission was given is given to
\* nobody else, and lies within its chunk.
AllocationsDisjoint ==
    /\ \A a \in InUse, b \in InUse :
        a # b /\ a.list = b.list /\ a.chunk = b.chunk => a.hi <= b.lo \/ b.hi <= a.lo
    /\ \A a \in InUse : \E chunk \in Chunks(a.list) : chunk.id = a.chunk /\ a.hi <= chunk.size

\* A chunk waits for a recording only until that is executed: it is then known by
\* a submission, and comes back when that is finished.
ExecutedChunksSubmitted == \A l \in Lists : \A chunk \in Chunks(l) :
    chunk.version # Available /\ ~chunk.version.submitted
        => chunk.version.instance \notin executedAs[l]

\* "Maximum total memory size used for all AS build scratch buffers owned by this
\* command list." (include/cutie/cutie.h, scratchMaxMemory)
MemoryWithinLimit == MemoryLimit > 0 =>
    \A l \in Lists : MapThenSumSet(LAMBDA chunk : chunk.size, Chunks(l)) <= MemoryLimit
=============================================================================
