# TLA+ verification of CUTIE

CUTIE is a rendering hardware interface: one C++ API (`include/cutie/cutie.h`) over Vulkan,
D3D12, D3D11 and OpenGL, with an optional validation layer in front of any of them. An
application creates resources, records command lists on several threads and executes them on up
to three GPU queues. The difficult part of the library is what it takes off the application's
hands: it tracks the state of resources and places barriers, it recycles command buffers, upload
memory and buffer versions that the GPU may still use, it keeps resources alive until the GPU is
done with them, it skips API calls that would repeat what is set already, and it translates one
model of bindings into three very different ones.

This directory holds TLA+ models of those parts, TLC configurations that check them on small
instances, and theorems about the state tracker and the descriptor heap checked by TLAPS.
`PROJECT.json` lists the components, runs, hazards, theorems and, for every definition, the source
lines it models.

    tlc -workers 2 -config st_resources.cfg StateTrackingMC.tla     # model-check
    tlapm StateTrackingProofs.tla                                   # check proofs

## 1. Inventory

| component | state | operations | what is hard |
|---|---|---|---|
| resource state tracker (`src/common/state-tracking.*`, `*-state-tracking.cpp`) | per list: state of each texture, whole or by subresource, and of each buffer; pending barriers; permanent states to publish. Shared: `permanentState`, `stateInitialized` of a resource | require, set, begin tracking, make permanent, commit, keep initial states, `commandListSubmitted` | lists recorded concurrently, executed in any order or never; pending barriers |
| Vulkan queue, command buffers, lifetime trackers (`vulkan-queue.cpp`, `vulkan-commandlist.cpp`) | pool, IDs of recordings and submissions, tracking semaphore, command buffers in flight with their references | open, close, submit, executed, garbage collection, poll, wait | several threads; what runs outside of the queue's mutex; the GPU |
| D3D12 command lists and queues (`d3d12-commandlist.cpp`, `d3d12-device.cpp`, `d3d12-queries.cpp`) | pools of internal lists, fence values, instances, one event for waits | open, close, execute, garbage collection, maps, polls, timers | as for Vulkan, without any lock |
| event queries, mapping of buffers (`vulkan-queries.cpp`, `vulkan-buffer.cpp`) | a queue and a submission to wait for | set, poll, wait, map, unmap | a remembered submission that is stale |
| upload and scratch managers (`vulkan-upload.cpp`, `d3d12-upload.cpp`) | chunks with version words and write pointers | suballocate, submit chunks | reuse while the GPU reads; the limit of scratch memory |
| volatile buffers (`vulkan-buffer.cpp`) | version words, shared by all threads; range written per list | write, bind, flush, submit | lock-free claim of a version, stale completion values, several queues |
| state caches of command lists (`*-graphics.cpp`, `*-compute.cpp`, `*-meshlets.cpp`, `*-raytracing.cpp`) | the state set last of each kind, flags of what is valid or dirty, what the API has bound | set*State, draw, dispatch, writes, clears, clearState | a cached value that is stale when it is used |
| binding layouts, sets and tables (`*-resource-bindings.cpp`, validation) | root signatures, descriptor sets, slots | create layout, pipeline, set or table; bind | four classes of registers, arrays, spaces and stages mapped into each API's own scheme |
| D3D12 descriptor heaps (`d3d12-descriptor-heap.cpp`) | allocation bits, search start, two heaps | allocate, release, grow, write, copy | growth while another thread writes or a list reads; first fit |
| acceleration structures (`*-raytracing.cpp`, validation) | what a structure was built of, which BLASes a TLAS keeps | build, update, copy, trace, release | lifetime and order on the GPU of what only the GPU touches |
| shader tables (`*-raytracing.cpp`) | entries with a version, a cache in GPU memory | edit, set, dispatch | a cached bake that is stale, lists that share it |
| memory of resources (`vulkan-allocator.cpp`, `*-texture.cpp`, `*-buffer.cpp`) | API objects, heaps, bindings, tiles | create, bind, map tiles, use, release | lifetime of the heap, wrong types and sizes |
| staging textures (`vulkan-staging-texture.cpp`, `d3d12-texture.cpp`) | a buffer with a layout | map, write, copy slices both ways | offsets and pitches at every boundary |
| D3D11 and OpenGL backends | one immediate context, caches; OpenGL is mostly stubs | all | caches only |
| validation layer (`src/validation`) | open / closed state, kinds of state set, push constants, count of open immediate lists, wrappers of structures | every call of a command list, `executeCommandLists`, creation | must follow the backend in every order of calls; the count is shared by threads |
| formats, subresource sets, utilities (`src/common`) | none | pure functions | boundaries |

The parts interact like this. `open()` takes a command buffer from a pool and gives the recording
an ID. Setting a state compares it with the cached one, binds what differs and asks the state
tracker for the states its bindings need, which accumulates barriers. Commands take memory from
the upload manager under the recording's version word, or a version of a volatile buffer, and push
references to resources into the command buffer. `close()` returns kept resources to their initial
state, commits barriers and flushes volatile buffers. `executeCommandLists` submits and then tells
every list by `executed()`, which publishes permanent states and turns pending version words into
submitted ones. The GPU completes submissions in order; garbage collection, polls, waits, the
upload managers and the search for buffer versions all compare with the last completed one.
Binding sets, tables, acceleration structures, shader tables and heaps outlive recordings and are
used by several. The validation layer stands in front of all this and sees calls only.

What makes each component correct:

* state tracker: an access finds its resource in the state it needs, whatever lists were recorded
  at the same time and in whatever order they run; barriers form chains; kept resources are in
  their initial state between lists.
* queues: nothing is destroyed or recycled while the GPU or a recording uses it; everything is
  destroyed in the end; waits, events and timers are never early.
* upload managers and volatile buffers: memory in use is handed to nobody else; nothing is lost.
* state caches: a draw sees exactly the state set last, as if nothing were cached.
* bindings: a shader that reads a register reads what the binding set gives for it.
* descriptor heap: ranges have one owner, and lists see what was written.
* acceleration structures and shader tables: what the GPU touches is alive, in order, and what was
  asked for when it was recorded.
* memory and staging textures: what is used is backed by memory that holds it; the CPU and the GPU
  see one texture.
* validation layer: what it lets through is legal for a backend.

## 2. Modules

| module | models | abstract state |
|---|---|---|
| `StateTracking` | `CommandListResourceStateTracker` and the calls of a command list that drive it | `tex`, `buf`: a list's tracker, with the barriers and accesses it has recorded; `permanentState`, `stateInitialized`; `gpuTex`, `gpuBuf`: the state the executed lists have left a resource in |
| `ResourceLifetime` | abstract: what CUTIE promises of lifetimes | handles held, uses of recordings and of unfinished submissions, resources alive |
| `VulkanQueue` | command buffers from `open()` to garbage collection, waits | IDs, pool, trackers, command buffers with references, the call each thread is in, the GPU's semaphore and jobs |
| `D3D12Queue` | internal lists from `open()` to garbage collection, fences, waits of maps, events and timers | pools, instances, trackers, the one fence event, operations the GPU queues hold |
| `Recordings` | the numbering of recordings and submissions and version words, common to both backends | IDs, the memory a recording and each unfinished submission use |
| `UploadManager` (extends `Recordings`) | upload and scratch managers of Vulkan and D3D12 | `current`, `pool` of chunks |
| `VolatileBuffers` (extends `Recordings`) | volatile constant buffers of Vulkan | version words, data as host and GPU see it, the search each list is in |
| `ValidationLayer` | wrapped command lists and `executeCommandLists` | the wrapper's flags, the backend list's phase and bound state, the expectations the last forwarded call disappoints |
| `CommandState` | what states are and what they need, common to all backends (`arrayDifferenceMask`, the states bindings require) | operators only |
| `VulkanCommandState`, `D3D12CommandState`, `D3D11CommandState` | set*State, draws and clears of a command list, as functions from list to list | operators only |
| `CommandStates` | an application that records a list of any of the three | `list`: caches and what the API has bound; `request`: the state set last |
| `Bindings` | layouts, sets and tables of the API and what the validation layer demands of them | operators only |
| `D3D12Bindings`, `VulkanBindings`, `D3D11Bindings` | root signatures and descriptor tables, descriptor set layouts and dynamic offsets, slots | operators only |
| `BindingSpaces` | an application that creates layouts, a pipeline, sets and tables, and sets a state | what was given, what the device made of it, what is bound |
| `DescriptorHeap` | `StaticDescriptorHeap` as binding sets and descriptor tables of several threads use it | `allocated`, `searchStart`, both heaps, who owns which range, what each thread is in the middle of |
| `AccelStructs` | builds, updates, copies and traces of acceleration structures, micromaps, cluster operations | wrappers of the validation layer, references, what the GPU has built and not yet ordered |
| `ShaderTables` | shader tables with and without a cache | entries, versions, the cache, what each list has set and expects |
| `TextureShapes`, `Memory` | which textures are accepted; API objects, heaps, binding, tiles, native handles | descriptions, bindings, objects that exist |
| `StagingTextures` | layout of staging textures and copies of slices | bytes of the buffer, the texture it stands for |
| `StateTrackingProofs`, `DescriptorHeapProofs`, `VulkanQueueProofs`, `UploadManagerProofs`, `VolatileBuffersProofs`, `CommandStatesProofs`, `QueuesProofs`, `VulkanRecordingsProofs` | theorems (section 4); the last two are about the runs that explore several modules | |
| `*MC` | instances for TLC; `QueuesMC`, `VulkanRecordingsMC`, `BindingSpacesMC` and `DeviceObjectsMC` explore several modules in one run, each from initial states of its own | |

Correspondence to the code:

* **StateTracking.** A `ResourceStates` value is a set of bits. One call of the API is one step: a
  list belongs to one thread and shares only two members of each resource with the others. The
  order of barriers on different resources is dropped, the order on one subresource or buffer is
  kept. `UseTexture` and `UseBuffer` stand for commands that require a state, commit and access
  (clears, copies, draws); `UseBufferTwice` for a draw that needs a buffer in two states. `Close`
  contains the two `keep...InitialStates` and the final `commitBarriers`.
* **VulkanQueue.** A step is what `Queue::m_Mutex` protects. `executeCommandLists` is cut between
  `Submit` and each `Executed`; a tracker's collection outside of the mutex is cut before the
  command buffers go back to the pool; `updateLastFinishedID`, which takes no lock, is a read of
  the semaphore (`ReadCounter`) and a later store, so that it may go backwards. A resource is alive
  while a handle or a command buffer refers to it.
* **D3D12Queue.** There is no lock: `ExecuteCommandLists` hands the lists to the queue, `Count`
  takes the next fence value, `Signal` reads it again and signals, `Executed` tells each list. Each
  submission has an `index`, counted by `submittedOps` and `executedOps`, by which calls and events
  name it. A wait registers with the device's one auto-reset event and is woken by whatever sets it.
* **UploadManager.** Allocation is one step, as a list has a manager of its own. `finished` is the
  last completed instance: D3D12 uses what the queue knew last, Vulkan asks the GPU, and both are
  allowed. The branch that reuses a chunk in use at the memory limit is modelled
  (`AllocateAtLimit`), but finds a chunk in no reachable state: a chunk large enough would have
  needed memory that the same limit refuses, `m_AllocatedMemory` being 0 for ever.
* **VolatileBuffers.** The search loads one word per step, and the exchange is a step that may also
  fail for no reason (`compare_exchange_weak`). A buffer is bound only after a successful write in
  the same recording, as the guide demands; an application that goes on after the message about
  `maxVersions` is outside the model.
* **ValidationLayer.** `Forward` hands a call to a backend list which checks nothing, and notes the
  expectations that call disappoints. `open()` and `close()` of an immediate list are cut between
  the shared count and the list. The checks of a call's own arguments are left out: arguments are
  valid. All draws are one action, and so are the commands that need no state, by the queue type
  they require.
* **CommandStates.** A state is a record of pipeline, bindings, framebuffer and one value that stands
  for viewports, blend constants, stencil reference and vertex buffers. The three modules below it
  translate each backend's functions in the order of their calls, so that a list after a call is an
  expression over the list before it; `CommandStates` chooses the calls. What a list has *bound* is
  kept beside what it *remembers*, and the properties compare the former with the request.
* **Bindings.** Descriptors are abstracted to the resource they show; registers, spaces, arrays,
  stages and offsets are kept. `BindingSpaces` lets the validation layer's checks decide which
  layouts, pipelines and sets there are, and a draw is a state in which everything is bound.
* **DescriptorHeap.** Allocation and release are one step each, under the heap's mutex. Between
  them a thread takes a handle, writes a descriptor and copies it, a step each, as none of these
  takes the mutex. A shader-visible heap lives while a list that set it may run.
* **AccelStructs, ShaderTables.** Recording and execution are apart: commands wait in their list,
  then in the queue, and what the validation layer or the backend remembers is of recording time.
  `unordered` holds what the GPU may still be doing to an object since its last barrier. A build of a
  structure or micromap or a cluster operation is recorded or given up (`Fails`: a structure that is
  too small, no scratch memory), after the wrapper has remembered it and with the states and
  references made by then; uploads have no memory limit and do not fail. `size` is the length of the
  backend's array of instances, which an update asserts (`UpdatesMatchBuild`).
* **Memory.** `objects` are the API's own objects; a resource is alive while a handle, a command
  list in flight or, for heaps, a bound resource refers to it. Requirements come from the device.
* **StagingTextures.** Both sides of a copy go through the place each computes: `CpuPlace` by the
  pointer and pitch of a map, `GpuPlace` by the footprint a copy is recorded with.

Conventions: an operator commented as a mutant is a faulty variant of the definition after it,
used to show that the properties can fail; no specification uses it.

`Applications`, `Calls`, `Collectors`, `Executors`, `SharedStaging` and `Avoided` say what the
application does. Where a call order breaks a property by what the code does, it has a name in
`Avoided`, a condition in the action that makes the call, and an entry in section 6: the passing
runs avoid these orders, and taking a name out of a `.cfg` shows the counterexample, as
`csv_meshlet`, `bdv_volatiles` and `dxv_signals` do.

## 3. Runs

| run | instance | shows |
|---|---|---|
| `st_resources` | 2 lists, textures of 2 subresources, buffers, 3 usages; 11 applications of 1 to 3 recording calls per list | the whole of the tracker's safety |
| `q_lifetimes` | Vulkan: 1 queue, 2 threads, one list tracked by the device, one by the application, 3 recordings. D3D12: 2 queues with a list, a thread and a tracker each, 2 and 1 recordings, with a staging texture, or with a timer and an event, 2 threads that wait | nothing destroyed or recycled in use; both implement `ResourceLifetime`; D3D12's answers are final |
| `vq_batches` | 1 thread, 2 lists in one batch or two, both kinds of tracker, an event, 2 recordings, fair | all garbage is collected |
| `vk_recordings` | four parts: 2 immediate lists and a deferred compute list behind the validation layer; 2 queues with a staging buffer and an event; a list with 4 allocations of 3 kinds in chunks of 4 and 6 bytes, 3 recordings; 2 queues that write a buffer of 2 versions twice per recording | forwarded calls are legal; maps and events are never early; memory and versions in use are left alone, none is lost |
| `cs_lists` | one list on each of three backends; 2 graphics pipelines, a meshlet, a compute and a ray tracing pipeline, 2 framebuffers, 2 vectors of binding sets with a UAV (one of the two for rays has none) and a volatile buffer, 2 descriptor heaps in turn; any sequence of calls | the caches are invisible to draws |
| `bd_spaces` | 13 layouts, two of them at a time, 3 sets of stages, 3 APIs; a heap of 1, 2 and 4 descriptors with 2 threads, 2 sets, a table and a list | shaders find what was bound; descriptors have one owner and are seen |
| `do_objects` | 8 worlds of structures and buffers with 2 lists; a cached and an uncached shader table; 5 worlds of memory with all small texture shapes; 6 staging textures of 1, 2 and 3 dimensions with 6 slices | long-lived objects stay what they stand for |
| `vqv_clear`, `umv_scratch_limit`, `csv_meshlet`, `bdv_volatiles`, `dxv_signals` | the calls involved | disagreements between code and documentation, section 6 |

The properties of the passing runs:

* `st_resources`: `BarriersFollowTracker`, `CommittedUnlessOpen`: barriers chain, end where the
  tracker believes, and none is owed by a closed list. `AccessesCovered`: an access finds all bits
  of its state. `UavOrdered`: a barrier between successive unordered accesses.
  `KeptTexturesInInitialState`, `KeptBuffersInInitialState`, `PermanentInState`: what later lists
  rely on holds between lists. `EntersAsExpected`: when a list is executed its first barriers leave
  from the real state, the statement that execution order is free.
* `q_lifetimes`: `RecordsIntoIdleBuffers`, `ExecutedFindsRecording`, `AnswersStayTrue` and the
  refinement `QueuesImplementLifetime`. `vq_batches`: `GarbageCollected`.
* `vk_recordings`: `CallsForwardedAsExpected`, `ImmediateListsCounted`, `WaitsFinal`,
  `UploadsDisjoint`, `UploadChunksSubmitted`, `VolatileVersionsKept`, `VolatileVersionsFlushed`.
* `cs_lists`: what is bound when a draw is recorded is what was set last: `DrawsWithState`,
  `DrawsWithBindings`, `DrawsWithLatestData`, `DrawsIntoFramebuffer`, `DrawsOnReadyResources`,
  `DrawsAfterUavBarriers`.
* `bd_spaces`: `D3D12ShowsBindings`, `VulkanShowsBindings`, `D3D11ShowsBindings`,
  `LiveRangesDisjoint`, `ListsSeeDescriptors`.
* `do_objects`: `UsedStructuresAlive`, `StructureAccessesOrdered`, `UpdatesFitBuilds`,
  `TablesAsSet`, `ResourcesBacked`, `SlicesKeepData`.
* One type invariant in each of `st_resources`, `q_lifetimes` and `vk_recordings`, with the
  invariants of the structures' shape.

**Bounds.** `app.ops` bounds the recording calls per opening of a list in `StateTracking`;
`MaxRecordings` and `MaxOpens` the `open()` calls of a queue; `MaxAllocations` and `MaxWrites` a
list's allocations and writes; `MaxLayouts` (2, of `c_MaxBindingLayouts`) the layouts of a pipeline;
`MaxHeaps` (2) and `MaxOverlap` (2) the replacements of the heap and the calls that switch UAV
barriers off in `CommandStates`; `MaxCapacity` (2) and `MaxSize` (4) tables and heaps;
`MaxPending` (2) and `MaxQueue` (1) the commands recorded and the submissions not yet executed in
`AccelStructs`; `MaxTables`, `MaxVersion`, `MaxGeneration`, `MaxCommands` likewise in
`ShaderTables`. Words are scaled down: offsets wrap at `OffsetSize` (2^64 of a heap offset, 2^31 of
`off_t`), 16-bit fields at `WordSize`, D3D12 aligns to `PitchAlignment` and `PlacementAlignment`, and
`BindingOffsets` and `ApiSlots` leave 6 and 7 slots to a class of registers.

Two lists are enough for interference because the shared state of the tracker is per resource and
has two members; three uses let a resource leave a state, return and leave again. Two subresources
are the least for which whole and split tracking differ. Two or three recordings let a command
buffer or chunk be used, returned and used again, with another submission in flight. Two versions
with two writers make each search meet the other's pending, submitted and finished words, and wrap.
`CommandStates` has no bound on the number of calls: two values of everything a cache compares make
each comparison come out equal and unequal, in every order. Two layouts meet in every class of
registers, with gaps, arrays, spaces and disjoint stages; a third adds no pair. A heap that may grow
twice has heaps older than the last. A version, a copy and a build in flight beside the next one is
what a stale cache needs. The GPU's delays are bounded in no model of a queue: `Complete` and
`ExecuteOperation` may happen at any time after a submission.

The application is restricted where the API demands it: queues are not shared without
synchronisation, a handle is used only while held, a list is recorded by one thread.
`Applications` of `StateTracking` combines the optional features one at a time to keep the run in
minutes; each is crossed with all orders of recording and executing both lists, not with the other
features. `Disciplined` says in a formula what all of them have in common (section 4), and TLC
evaluates it for each. The symmetry sets permute command lists, threads or values between which neither the
specification nor a property distinguishes; no run with a temporal property uses one, but for
`EntersAsExpected`, which is an action property.

**Fairness** is assumed for `GarbageCollected` only (`vq_batches`, `dxv_signals`): `WF(Complete)` and
`WF(ExecuteOperation)`, since the GPU makes progress; `WF(Continue)`, since a call a thread has begun
goes on (nothing in it blocks for ever); `SF(RunGarbageCollection)`, since the guide says it "is
supposed to be called at least once per frame". Strong fairness is needed because collection is
enabled only when no other call of that thread is in progress. No fairness is assumed of the
application otherwise.

**Refinement.** `ResourceLifetime` says only that what is alive contains everything held, recorded
or executing, and that nothing comes back. `QueuesMC` maps the state of either queue to it
(`Recording`, `Executing`, `Alive` of `VulkanQueue` and `D3D12Queue`) and checks `Lifetimes!Spec` as a
property; `GarbageCollected` is its `Reclaimed` under the same mapping.

`CHECK_DEADLOCK FALSE` appears where the bounds on recordings let everything stop.

## 4. Proofs

`StateTrackingProofs` proves, for all sets of command lists,
textures, buffers, subresources, states and applications that satisfy `StateTrackingAssumption`:

* `TypeCorrect`: `Spec => []TypeOK`. One lemma per operation of the tracker gives its type.
* `BarrierChains`: `Spec => []BarriersFollowTracker`, and `NothingPendingWhenClosed`:
  `Spec => []CommittedUnlessOpen`. The inductive invariant is `ChainInv`: types, chains, and nothing
  pending unless open. The last is needed because `open()` of a list does not reset its tracker: the
  chain of a new recording begins with what the old one left. `Linked` is proved of each operation
  on one texture (`RequireTextureLinked`, `KeepTextureLinked`, `CommitTextureLinked`, ...) from
  `ChainAppend`, and `NextLinked` lifts it to the steps.
* `KeptTexturesReturn`: `Spec => []KeptTexturesInInitialState` for every application, under `InitializedTextures =
  Textures`, which is how D3D12 creates textures. `KeptTexturesInInitialState` alone is not
  inductive, as executing a list copies the state its tracker ended with: `KeptTextureInv` adds
  that a closed list without a permanent transition has ended in `initialState`, which needs the
  chains of `ChainInv` to equate the end of the barriers with the tracker's belief. For Vulkan the
  hypothesis is false (section 6).

It also proves what the barriers are for, for the same sets and all applications
that are `Disciplined`: `AccessesAlwaysCovered`, `ListsEnterAsExpected` (an action property),
`DisciplinedTexturesReturn` on either backend, `KeptBuffersReturn` and `PermanentStatesHold`. All
follow from one inductive invariant, because each needs the others: a list may enter a resource as
expected only if every list executed before it has returned the resource, and it does so only if its
own barriers began where the resource was. `StateInv` has five parts:

* `ChainInv`, and `Disciplined(app)`;
* `FreshInv`: a list that was never opened has tracked nothing;
* `TextureInv`: initialised textures stay so; `GoodTexture` of each list's tracker, which relates the
  recorded and pending barriers, the accesses, the entry state and the state believed; `ApartTexture`
  of each two lists' trackers, which says that a list that makes a resource permanent has it to
  itself; and what the GPU has left a texture in (`KeptTextures`, `PermanentTextures`);
* `BufferInv`: the same for tracked buffers, and untracked ones are never touched.

One lemma for each operation of the tracker shows `GoodTexture` or `GoodBuffer` kept, `Next...`
lemmas lift them to the steps. `Disciplined` is the hypothesis that the disagreements of section 6 do
not come into play: no two states of a draw that are not combined, no UAV barrier stacked behind a
pending one, no subset of an own permanent state, no first use side by side, and permanent states,
reopened recordings and switches of UAV barriers only with the kinds of resources for which the code
handles them. All applications of `st_resources` satisfy it.

`UnorderedAccessesOrdered`, `Spec => []UavOrdered`, needs neither `Disciplined` nor `StateInv`:
`UavInv` says that no permanent state has the bit, so that whoever requires it gets a barrier as long
as nobody switches barriers off, and that the unordered accesses of a list come after ever more of its
barriers.

`DescriptorHeapProofs` proves, for any threads, sets, tables, sizes and contents that satisfy
`HeapAssumption` (sizes are naturals, sets are not tables and consist of one resource or more):

* `DescriptorsOwnedOnce`: `Spec => []LiveRangesDisjoint`, with the heap growing any number of times.
  The property alone is not inductive: a thread that moves a table remembers the old range in its
  job, and which owner that is matters when the range is given up. `HeapInv` adds that every job is
  about an owner of the right kind on which no other thread works (`JobsOK`), that allocated indices
  lie within the heap, and that the allocated indices are partitioned into what owners hold and what
  threads are moving tables out of (`Partitioned`). A step changes a partition in one of four ways,
  an owner takes, gives up or exchanges a range or a thread drops one (`PartitionedTake`, `Give`,
  `Move`, `Drop`), and `Allocation` and `Releasing` show that first fit returns free indices and that
  growing keeps all others. The proof uses neither which size a heap grows to nor where the search
  begins, except that what is found is free and within the new size. None of the names of `Avoided`
  is needed.
* `DescriptorsSeen`: `Spec => []ListsSeeDescriptors` for applications that avoid the three orders of
  calls section 6 names (`Careful`); each of them breaks the property. `ShownInv` adds to `HeapInv`:
  an owner on which no thread works shows what it wants in both heaps (`Shows`); a thread that fills
  descriptors has a handle into the present heap unless it is about to take one, has written what it
  is done with, and shows what it will not write (`FillOK`); a table that moves has its contents in
  the old range (`MoveOK`); a list points to its owner's range, and to an older heap only when nobody
  works on the owner, and then that heap shows it, too (`ListOK`). `HeapStep` and `WorksOn` say that
  a step changes no descriptor but those of one owner or makes the heap grow; `Assembled` concludes
  that only that owner is left to be looked at, and each action has a lemma of its own.

`VulkanQueueProofs` proves, for any queues, threads, command lists, trackers, resources and numbers of
recordings that satisfy `VulkanQueueAssumption` and `NoneAssumption` (`None` is no command buffer), and
`OneThreadPerTracker`: whoever collects a tracker is the one thread that executes its lists. A
collection by another thread may come between `submit()` and `executed()` and reset the submission ID
that `executed()` asserts (section 6); the code does nothing against it.

* `QueueInvariant`: `Spec => []QueueInv`, from which `CommandBuffersStayExclusive`,
  `Spec => []CommandBuffersExclusive`, and `ExecutedAlwaysFinds`. That two lists never record into one
  buffer, nor a list into one the GPU runs, is not inductive: it depends on the way a buffer takes from
  the pool through a list into a tracker, and through the call of a thread that collects back to the
  pool, which it does only when the semaphore has passed its submission. `QueueInv` says so: no command
  buffer is in two places, or twice in one, of the pools, trackers, recorded lists and collecting calls
  (`Contents`, `PlacesOK`, `BuffersApart`); those a list holds are what the list was opened as
  (`RecordingsOK`); finished, completed, submitted and recording IDs are in order (`Numbers`); the lists
  a thread has submitted and not told of it have their buffers in their trackers (`TodoOK`); and what
  the GPU has not finished is in a tracker of that queue under its submission (`JobsInFlight`).
* `NothingIsDestroyedInUse`, `Spec => []NothingDestroyedInUse`, and `QueueImplementsLifetime`,
  `Spec => Lifetime!Spec`: the queue with its pools, trackers and references implements
  `ResourceLifetime`, every step being a step of it or a stutter. `RefsInv` adds to `QueueInv` that
  what a recording has used is referenced by its buffer, and by the job until the GPU is done with it.
  Both are for applications with `"clear" \notin Calls`, as a texture that is only cleared is not
  referenced (`vqv_clear`). That what is unused is destroyed eventually is liveness and left to TLC.
* `AnswersStayFinal`: `Spec => []AnswersFinal`. What `mapBuffer`, a poll or a wait returned is about a
  submission that the semaphore has reached, although threads submit, poll and wait side by side and
  `m_LastFinishedID` may go back. `AnswersInv` says that a recording's command buffer knows the staging
  buffers it accesses and an unused one none (`StagingRecorded`, `StagingCleared`), that a buffer an
  unfinished job accesses remembers a submission of this queue as late as the job, and is not mapped
  (`UsesCovered`), that a reported event lies behind its queue's semaphore (`EventsReached`) and that
  who waits does so for the submission that was remembered (`WaitsKnown`).
  Hypotheses: `"bind" \notin Calls`, as a bound CPU-visible buffer is not waited for, and
  `~SharedStaging`, as one used on two queues is waited for on one of them (section 6).

`UploadManagerProofs` and `VolatileBuffersProofs` begin with what their modules have in common, for any
queues, lists and numbers of recordings. `RecordingsInv` of `Recordings` says that a recording ID belongs to one recording of a queue,
which `executed()` has not seen (`RecordingsNumbered`); that a recording uses memory of its own, until
it is submitted (`UsesOwned`); and that what a submission still uses is not finished, and was not
submitted after the submission its list has yet to be told of (`WorkOwned`). The last is needed because
a list may be opened, recorded and submitted again while the GPU still works on what it submitted
before.

* `UploadManagerProofs`, for any requests, chunk sizes and limits that satisfy
  `UploadManagerAssumption`: `UploadsAreDisjoint`, `Spec => []AllocationsDisjoint`, and
  `ExecutedChunksWaitForSubmissions`, `Spec => []ExecutedChunksSubmitted`. That memory in use is given
  to nobody else depends on the chunk's version. `UploadsInv` adds to `RecordingsInv`: the chunks of a
  list, current or pooled, have different IDs, and those in use lie within their size (`PoolTypes`,
  `PoolsOK`); what a recording uses lies before the write pointer of a chunk that waits for a recording
  (`UsesHeld`); what a submission uses lies before that of a chunk that still waits for a recording or
  for this or a later submission (`WorkHeld`), so that `Reclaim` does not free it; and what is in use
  lies apart (`InUseApart`). At the limit, where a
  chunk in use may be taken on purpose, the proof shows that no chunk is large enough to be taken, as
  `m_AllocatedMemory` is never raised: whatever is refused would not fit in any chunk there is.
* `VolatileBuffersProofs`, for any buffers, numbers of versions and writes that satisfy
  `VolatileBuffersAssumption`: `BoundVersionsStay`, `SubmittedVersionsAreFlushed` and
  `ExecutedVersionsAreSubmitted`. `VolatilesInv` adds to `RecordingsInv`: a pending word belongs to a
  recording that is not executed, and lies in the range that list will flush and submit
  (`WordsOwned`); what a recording has bound has its pending word and its data, on the device, too,
  once closed (`UsesKept`); what a submission uses has the pending word of its list or a word that is
  submitted and not finished before it (`WorkKept`); the latest version of a written buffer is pending
  (`LatestOwned`); and the word a search has found was free by completion values that the GPU has
  reached (`SearchesOK`). A free word is nobody's, and stays so until it changes; the exchange compares
  it, so that stale completion values and a stale start do no harm.

`CommandStatesProofs` proves all six properties of `cs_lists`, on each of the three backends, for any
pipelines, framebuffers, vectors of binding sets, values, resources and slots, and any number of calls,
of heaps and of switches of UAV barriers: `DrawsSeeState`, `DrawsSeeBindings`, `DrawsSeeLatestData`,
`DrawsReachFramebuffer`, `DrawsFindReadyResources` and `DrawsFollowUavBarriers`. A property is about a
draw, and a draw about the calls since the state was set; nothing in it says why a set*State call may
leave something out. `CommandStatesInv`, which `CommandStatesInvariant` proves, does:

* What the caches of a list mean, whatever was set last (`ListInv`). `VulkanInv`: what a bind point is
  remembered to have, it has (`VulkanRemembers`); without a pipeline a cache is empty
  (`VulkanForgets`); a remembered framebuffer is that of the active render pass, with its texture in
  the state of a target (`VulkanPass`). `D3D12Inv`: the same for the caches whose `Valid` flag is set,
  except that of meshlets beside one of ray tracing, which the code leaves valid by mistake; the
  addresses of volatile buffers are the ones bound, or a write is marked; unless marked dirty, the
  resources are in the states the cached state needs; and nothing is valid before a heap is set.
  `D3D11Inv`: every cached set is in its slots for each stage that sees it.
* What the state set last has made of the list (`RequestInv`): it is the one remembered, is bound, and
  its resources are ready, as long as nothing came between (`VulkanSet`, `D3D12Set`, `D3D11Set`).

There is one lemma for each operator of a backend, which says what of the list it changes and that the
invariant is kept (`VulkanBarriers`, `RasterHolds`, `ComputeHolds`, `D3D12RasterHolds`, ...), one for
each backend that says what a set*State call establishes (`VulkanStateSet` and its like), and one for
each action. That the sets which stay in place on D3D11 are those whose slots nobody else writes
follows from `prepareToBindGraphicsResourceSets`' tests on the slots, for any numbers of sets.

The hypothesis is `Promised`: every order of calls that section 6 names for `CommandStates` is avoided,
as the run avoids them, and the assumptions on constants, which TLC evaluates: a vector has at most 8
sets (`c_MaxBindingLayouts`, `VectorsAssumption`), `None` names nothing (`NamesAssumption`), a state needs
each resource in one state only (`NeedsAssumption`, since a resource needed in two has no state to be
in), and the sets of one vector do not share slots a stage sees (`SlotsAssumption`, D3D11).
Looking for the invariant showed where the conditions of these orders had been drawn too wide or too
narrow: a meshlet state without bindings is set correctly after a compute state, a failed
`setRayTracingState` leaves the pipeline as well as the sets, and a clear of a buffer in a list without
a heap is no hazard.

`QueuesProofs` and `VulkanRecordingsProofs` state what the runs check of several modules at once. The
modules with the proofs are instantiated with the run's constants, the initial states and steps of both
instances are shown to be the same, and steps of the other parts change none of the variables.

* `QueuesProofs` first proves about `D3D12Queue`, for any queues, threads, lists, trackers, resources
  and numbers of `open()` calls that satisfy `D3D12QueueAssumption`:
  * `AllocatorsStayIdle`, `Spec => []AllocatorsIdle`. No lock orders what threads do between handing
    lists to the queue, counting and signalling, so that the fence may even be set backwards; what
    keeps an allocator from being reset too early is that the value its internal list remembers lies
    *behind* its submission. `Late` says so of a value: the fence, what the host read of it, and every
    signal queued before the submission are less. `QueueInv` has it of the last value as soon as a
    submission is counted (`CountedOK`), and of what its internal lists remember as soon as their
    lists are told (`CmdsOK`); until then their lists are still being told by the call that submitted
    them (`Tells`). Beside that: values are counted before they are signalled (`Numbers`), submissions
    have the numbers `executedOps + 1 .. submittedOps` in the order of the queue (`OpsNumbered`), calls
    tell lists of their own (`CallsOK`, `SubmittedOK`), internal lists are in one place (`PoolsOK`), and
    fewer have a number than were opened (`FewNumbered`), so that `createInternalCommandList` finds one.
    One step of the GPU may only make `Late` easier (`Follows`, `LateStays`), which every action uses.
    None of the names of `Avoided` is needed.
  * `AnswersStayFinal`, `Spec => []AnswersFinal`, for applications that avoid `"WaitsConcurrently"` and
    `"SharesQueues"`: with either, the property is false (section 6). `AnswersInv` adds that what an
    unfinished submission uses is not answered, and is either still to be told or remembers a value
    later than it (`UsesOK`); that an event covers the submissions made before it was set (`EventsOK`);
    and that what may wake the one thread that waits is the value it waits for.
  * `QueuesKeepLifetimes`, `Spec => Lifetime!Spec`, for applications that avoid `"ReleasesLists"`. What
    an unfinished submission uses is held, referenced by a recording that is being told, or by an
    instance that a tracker keeps under a later value (`RefsOK`), and a list that is not idle is held
    (`HeldOK`). The submissions the mapping shows as `Executing` are numbered by `OpsNumbered`, so that
    submitting appends, executing takes the first, and no other step changes them.

  Then it proves of the run, which explores `D3D12Queue` itself and an instance of `VulkanQueue`:
  `QueuesStayTyped`, `RecordingIsExclusive`, `ExecutedFindsItsRecording`, `AnswersStay` and
  `QueuesKeepTheirPromise`, that both backends implement the same `ResourceLifetime`. The hypotheses are
  `Constants` (the assumptions of both modules, which TLC evaluates) and the names `Avoided` must have.
* `OnlyExpectedCalls` and `ImmediateListsStayCounted` in `VulkanRecordingsProofs`, for any lists, queue
  types and sizes of push constants that satisfy `ValidationLayerAssumption`, of which the run has three
  lists. `ValidationInv`: the wrapper knows the phase of its backend list, except that one it takes to
  be executed may still be closed, after another list of its batch was refused (`WrapperKnows`); its
  flags of graphics and compute tell what the backend list was given last (`FlagsTell`, those of
  meshlets and ray tracing do not, section 6); and the count is that of the lists that are being opened,
  are being refused, or are open and not closing, of which all but one are being refused
  (`CountRight`).
* `WaitsStayFinal`, `UploadsStayDisjoint`, `UploadChunksWaitForSubmissions`, `VolatileVersionsStay`,
  `VolatileVersionsSeen`: what `VulkanQueueProofs`, `UploadManagerProofs` and `VolatileBuffersProofs`
  prove in general, of the other three parts, and `PartsTyped` the types of all four.

Only model-checked: everything about `BindingSpaces` but for its descriptor heap, and
`DeviceObjectsMC`. Liveness under fairness is out of the prover's
reach and stays with TLC, and so is what the recursive definitions compute.

## 5. Plan

Done: all modules of section 2, and the proofs of section 4. Left:

1. Proofs: the binding of `ResourcesBacked` and the bindings of `BindingSpaces`.
2. Modelling: semaphores between queues on Vulkan, timer queries' indices, compaction of acceleration
   structures, subresource resolution and set algebra against reference definitions, the weak caches
   of root signatures and texture views, which need destruction of objects.

## 6. Disagreements met

Checked by a run of their own (`findings` in `PROJECT.json`):

* `vqv_clear`: a texture that is only cleared is not referenced by the command buffer.
* `umv_scratch_limit`: the total of scratch memory is not limited.
* `csv_meshlet`: a meshlet state with the bindings of the compute state before it is not bound.
* `bdv_volatiles`: two volatile buffers listed out of slot order get each other's offsets.
* `dxv_signals`: two threads that execute lists on one D3D12 queue may signal its fence backwards.

Seen while modelling; the passing runs exclude the calls in question by `Avoided`, `Applications`,
`Calls`, `Collectors` or by the statement of the property, whose name is given where there is one.

State tracking and queues:

* a `keepInitialState` buffer made permanent is returned to `initialState`, as
  `setPermanentBufferState` never sets `permanentTransition`; two lists recorded side by side both
  start a new Vulkan texture as undefined, since `stateInitialized` is read while recording;
* a transition requested at `close()` is merged with a pending barrier of a buffer;
* the tracker of a recording that is dropped by reopening survives, with its first transitions and
  permanent states (`commandListSubmitted` alone clears them);
* of the subresources of a texture tracked separately only the first already in `UnorderedAccess`
  gets a UAV barrier, so `UavOrdered` is stated for the first one;
* the states of one draw are combined only if the first of them needed a barrier (`"combinesLate"`);
* a UAV barrier of a buffer is queued behind a pending barrier, and a later state of the same batch
  is merged into the first of the two, so that the second leaves from a state the first does not
  lead to (`"stacksUav"`);
* a list that made a resource permanent may go on to use it in a subset of that state (`"subset"`);
* a collector of the device's tracker that runs between `submit()` and `executed()` resets the
  submission ID `executed()` asserts; `Collectors` gives a tracker to the thread that executes;
* a CPU-visible buffer bound by a draw is not waited for by `mapBuffer`, and one used on two queues
  only for the later submission (`SharedStaging`, on D3D12 `SharesQueues`);
* `pollEventQuery` never answers for an event set before any submission; a Vulkan list dropped after
  `open()` references itself through its command buffer and is never destroyed; version words and
  chunks of a dropped recording stay pending for ever (`vulkan-backend.h` calls their release
  "currently not implemented"); a volatile buffer without a free version drops the write;
* D3D12 waits share one auto-reset event, so that one of two waits may miss it or return early
  (`WaitsConcurrently`); a list is not referenced by what it executes, so that releasing its handle
  destroys the scratch memory of its builds (`ReleasesLists`); a custom tracker for another queue is
  accepted, and reading a timer that never ran returns whatever its memory holds.

State caches (`CommandStates`):

* Vulkan and D3D12 place no UAV barrier when a state is set again with the bindings it has
  (`RepeatsUavs`), nor a transition when something else moved a resource of theirs
  (`RepeatsMoved`): Vulkan's `clearDepthStencilTexture` does not mark bindings dirty, D3D12 ignores
  the mark when the mask of changes is empty, and clears it;
* Vulkan: `setRayTracingState` inside of a render pass forgets that it is active (`RaysInPass`); when it
  fails, a new pipeline and new sets stay bound but are not remembered (`RaysAfterFailure`); its volatile buffers are
  rebound with the bindings of the compute state (`RaysRebind`);
* D3D12 and D3D11 update blend constants, scissors and strides only when the values differ, also under
  a new pipeline that is the first to use them (`PipelineAlone`); D3D12 keeps a meshlet state valid
  across `setRayTracingState` (`MeshletAfterRays`), and clears through descriptors ignore that the
  heaps were replaced (`ClearAfterGrow`);
* D3D11 counts calls that begin and end UAV overlap; `close()` resets the count, `open()` does not;
* the validation layer's `setRayTracingState` marks a meshlet state as set, and `open()` and `close()` do
  not reset the mark of ray tracing.

Bindings and descriptors (`BindingSpaces`, `DescriptorHeap`):

* accepted although ambiguous: arrays over the registers of other items (`OverlappingArrays`), layouts
  that share registers and are told apart by stages D3D12 cannot name together (`SharedVisibility`),
  slots of 128 and more on Vulkan, which reach the next class (`HighSlots`), sampler feedback where it
  is not supported (`SamplerFeedback`), another type of the class declared (`OtherType`);
* Vulkan: a null volatile buffer shifts the offsets after it (`NullVolatile`), and
  `writeDescriptorTable` of `None` returns true and erases nothing (`ErasedTableSlots`); a bindless
  table of another layout is accepted;
* D3D12: the heap's growth replaces both heaps while other threads write through handles into the old
  ones (`GrowWhileFilling`); a table is written after a list bound it and the heap grew
  (`WriteAfterGrow`); command lists do not reference descriptor tables on either API (`TableInUse`);
  a heap that cannot grow returns an invalid index which nobody checks; the cache of root signatures
  holds plain pointers without a lock.

Ray tracing (`AccelStructs`, `ShaderTables`):

* a structure in state Write is written again without a barrier (`WritesTwice`), and so is a D3D12
  micromap after its use (`RebuildsMicromap`); rays are traced in what a list has left in state Write
  (`TracesWritten`); Vulkan's barriers of BLASes do not wait for rays that may still run
  (`RebuildsTraced`);
* Vulkan's TLASes keep no BLAS alive, D3D12's those of the build recorded last (`ReleasesInstance`,
  `RebuildsTlas`); copies reference neither structure (`ReleasesCopied`), Vulkan's builds none of
  their inputs (`ReleasesInputs`), cluster operations no buffer (`ReleasesClusters`);
* the validation layer compares updates with what was recorded last: wrong after failed, dropped or
  reordered builds and after copies (`BuildFails`, `DropsBuild`, `BuildsConcurrently`,
  `CopiesOverBuild`), and compares a vertex format where the index format is meant (`Nonindexed`);
  it does not remember builds of instances from a buffer, so that a later update is compared with an
  older build (`RebuildsFromBuffer`);
* every update of instances from a buffer fails the assertion on the number of the structure's
  instances, which are cleared on entry on both APIs (`UpdatesFromBuffer`; `vulkan-raytracing.cpp:900`
  and `:1047`, `d3d12-raytracing.cpp:2192` and `:2321`); without assertions the update is recorded;
* a cached shader table is baked when it is recorded and copied in the order of execution
  (`SetsConcurrently`, `DropsBake`); changing a table releases local binding sets still in use
  (`ReleasesBindings`); D3D12 checks neither for a ray generation shader (`NoRayGen`) nor, other than
  by its address, whether the heap is the one of the bake.

Memory and staging textures:

* the sum of offset and size may wrap (`OffsetWraps`), a heap of the wrong memory type is accepted
  (`OtherMemoryType`), and so is use before binding (`UsesUnbound`); Vulkan leaks the object of a
  resource whose memory cannot be allocated (`AllocationFails`) and does not own a native one
  (`DestroysNative`); heaps of mapped tiles are not referenced (`ReleasesTiles`);
* mip chains that are too long, mips of multisampled textures, cubes that are not square and more
  than 65535 layers pass the validation layer (`TooManyMips`, `MultisampledMips`, `FlatCubes`,
  `LongArrays`);
* Vulkan's staging textures align the offset of each slice but not the sum of sizes, which is
  returned as the "total size in bytes of upload buffer" and is too small where the size of a slice
  is not a multiple of the alignment (`UnalignedSlices`; `SizeHoldsSlices` of `DeviceObjectsMC` shows
  it); the offset of a slice counts blocks as bytes (`CopiesWithinRow`), and rows shorter than a block
  have a row length that is not a multiple of it (`PartialBlocks`); D3D12 keeps an offset in `off_t`
  (`LargeOffsets`);
* `createSamplerFeedbackForNativeTexture` of the validation layer calls itself.

Validation layer: a batch it refuses leaves the lists before the offending one marked as executed
(`ExecuteCommandLists` of `ValidationLayer` does so, too); the calls on sampler feedback textures and
`convertCoopVecMatrices` are forwarded without `requireOpenState`; the count of open immediate lists
is not decremented when an open list is destroyed.

Documentation: `ProgrammingGuide.md:88` calls tiled textures unsupported and `cutie.h:3510` cluster
operations on Vulkan, both of which are implemented.

## 7. Not modelled

Device creation, feature queries, formats, pipeline creation, translation of descriptors into API
structures and shader handling have no protocol. OpenGL is largely stubs, Aftermath is I/O. Failing
calls of the graphics API other than those named above, loss of the device, 64-bit wrap of IDs (2^60
recordings) and destruction of the device are left out. Vulkan's semaphores between queues are not
modelled: which submission an external semaphore belongs to depends on callers outside of the
library. D3D12's `queueWaitForCommandList` is. Timer queries are modelled on D3D12 as far as their
fences go; the bit sets that hand out their indices are not. Data races on plain members
(`permanentState`, `stateInitialized`, `m_LastFinishedID`, `lastSubmittedInstance` read twice) are
modelled as atomic reads and writes in any order. Each component's note in `PROJECT.json` says what
of it is left out.
