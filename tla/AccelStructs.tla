----------------------------- MODULE AccelStructs -----------------------------
(***************************************************************************)
(* Acceleration structures: bottom-level structures (BLASes) are built     *)
(* from geometry, top-level ones (TLASes) from instances of BLASes, and    *)
(* rays are traced in a TLAS.  Lists record builds, copies and traces; the *)
(* GPU executes them in the order of submission, as they were recorded.    *)
(*                                                                         *)
(* Who keeps what alive, which barriers are placed and what the validation *)
(* layer remembers of the last build are the code's; only GPU time is not. *)
(***************************************************************************)
EXTENDS Naturals, Sequences, FiniteSets, SequencesExt, FiniteSetsExt, TLC

CONSTANTS
    Lists,
    Worlds,         \* [objects, releases, operations, geometries, instances]: what the application
                    \* works with, what of it it may release, the commands it records, the lists of
                    \* geometries BLASes are built of, and the sets of BLASes TLASes are built of
    Desc,           \* structure -> [level, update, compaction]
    None,
    MaxPending,     \* bound: commands recorded and not yet executed
    MaxQueue,       \* bound: submissions not yet executed
    Avoided         \* what the application avoids

VARIABLES
    api,            \* "VULKAN" or "D3D12"
    world,          \* the objects and geometries of this behaviour
    held,           \* objects the application has a handle of
    wrapper,        \* structure -> wasBuilt, buildGeometries, buildInstances of its AccelStructWrapper
    bottomLevelASes,\* TLAS -> BLASes it keeps alive
    list,           \* Lists -> [open, commands, refs, state, bound]
    queue,          \* submissions: [commands, refs]
    contents,       \* structure -> what the GPU built it of
    unordered       \* object -> accesses the GPU may not have finished: "r", "w" and, by
                    \* rays through a TLAS, "t"

vars == <<api, world, held, wrapper, bottomLevelASes, list, queue, contents, unordered>>

(* What the properties need applications to avoid: building an object twice
   without a use between (WritesTwice, RebuildsMicromap), or over rays that may
   still run (RebuildsTraced); updates of non-indexed triangles, after builds that
   failed, were dropped or recorded in another order than they execute, of copies,
   and after a build of another number of instances from a buffer (Nonindexed,
   BuildFails, DropsBuild, BuildsConcurrently, CopiesOverBuild, RebuildsFromBuffer);
   updates of instances from a buffer (UpdatesFromBuffer);
   tracing what is in state Write (TracesWritten); releasing or
   replacing what nobody keeps alive (ReleasesInstance, RebuildsTlas,
   ReleasesCopied, ReleasesInputs, ReleasesClusters). *)
Avoids(name, bad) == name \in Avoided => ~bad

Structures == DOMAIN Desc
Tlases == {s \in Structures : Desc[s].level = "top"}
Blases == Structures \ Tlases

(* Buffers.  A micromap is one too: its only state is that of its buffer. *)
Buffers == {"geometry", "instances", "micromap", "ommInput", "clusters", "addresses"}
Objects == Structures \cup Buffers

NotBuilt == [built |-> FALSE, geometry |-> None, instances |-> 0]
ClosedList == [open |-> FALSE, commands |-> <<>>, refs |-> {}, state |-> <<>>, bound |-> None]

Init ==
    /\ api \in {"VULKAN", "D3D12"}
    /\ world \in Worlds
    /\ held = world.objects \cap Buffers
    /\ wrapper = [s \in Structures |-> NotBuilt]
    /\ bottomLevelASes = [s \in Tlases |-> {}]
    /\ list = [l \in Lists |-> ClosedList]
    /\ queue = <<>>
    /\ contents = [s \in Structures |-> None]
    /\ unordered = [o \in Objects |-> {}]

---------------------------------------------------------------------------
(* States and barriers.                                                     *)

InitialState(o) ==
    CASE o \in Tlases -> "Read"
      [] o \in Blases -> "BuildBlas"
      [] o = "micromap" -> IF api = "D3D12" THEN "OmmWrite" ELSE "BuildBlas"
      [] o = "ommInput" -> "OmmBuildInput"
      [] o \in {"geometry", "instances"} -> "BuildInput"
      [] o = "clusters" -> "Write"
      [] o = "addresses" -> "Unordered"

(* States of D3D12 in which a buffer of an acceleration structure stays. *)
AccelStructStates == {"Read", "Write", "BuildBlas", "OmmWrite"}

(* The barriers of the state tracker that become barriers of the API. *)
PlacesBarrier(before, after) ==
    \/ api = "VULKAN"
    \/ {before, after} \cap AccelStructStates = {} /\ {before, after} # {"BuildInput", "OmmBuildInput"}
    \/ before = "Write" /\ after \in {"Read", "BuildBlas"}
    \/ after = "Write" /\ before \in {"Read", "BuildBlas"}
    \/ before = "OmmWrite" /\ after = "BuildInput"

PriorState(state, o) == IF o \in DOMAIN state THEN state[o] ELSE InitialState(o)
Transitions(state, needs) ==
    {o \in DOMAIN needs : PriorState(state, o) # needs[o] \/ needs[o] = "Unordered"}
Barriers(state, needs) ==
    {o \in Transitions(state, needs) : PlacesBarrier(PriorState(state, o), needs[o])}

(* The stages Vulkan waits for are those of the state before: builds for a
   BLAS, the shaders that trace rays for a TLAS. *)
WaitsForRays(state, needs) == \E o \in Barriers(state, needs) : PriorState(state, o) \in {"Read", "Unordered"}

(* keepInitialStates, when the list is closed. *)
KeptNothing(state) == <<>>      \* a mutant
Kept(state) == [o \in DOMAIN state |-> InitialState(o)]

---------------------------------------------------------------------------
(* Commands, and the objects that are alive.                                *)

Command(op, target, reads) ==
    [op |-> op, target |-> target, reads |-> reads, update |-> FALSE, geometry |-> None, instances |-> {},
     size |-> 0, barriers |-> {}, waits |-> FALSE]
After(command, state, needs) ==
    [command EXCEPT !.barriers = Barriers(state, needs), !.waits = WaitsForRays(state, needs)]
NoCommand == Command("none", None, {})

Submitted == FoldSeq(LAMBDA submission, commands : commands \o submission.commands, <<>>, Reverse(queue))
PendingOf(cs) == ToSet(cs)
Pending == PendingOf(Submitted) \cup UNION {PendingOf(list[l].commands) : l \in Lists}
Recorded(cs) == Len(SelectSeq(cs, LAMBDA c : c.op # "none"))
NumPending == Recorded(Submitted) + FoldSet(LAMBDA l, n : n + Recorded(list[l].commands), 0, Lists)

Referenced(lists, submissions) ==
    UNION {lists[l].refs : l \in Lists} \cup UNION {s.refs : s \in ToSet(submissions)}
AliveWith(handles, lists, submissions, keeps) ==
    LET roots == handles \cup Referenced(lists, submissions) IN
    roots \cup UNION {keeps[t] : t \in roots \cap Tlases}
Alive == AliveWith(held, list, queue, bottomLevelASes)

Usable(o) == o \in held

(* What the rays of a trace meet. *)
Instances(t) == IF contents[t] = None THEN {} ELSE contents[t]
Touched(c) == {c.target} \cup c.reads

(* The BLASes a TLAS was built of, or will be. *)
Reachable(t) == Instances(t) \cup UNION {c.instances : c \in {d \in Pending : d.op = "buildTop" /\ d.target = t}}

InFlight(o) == unordered[o] # {} \/ \E c \in Pending : o \in Touched(c)

---------------------------------------------------------------------------
(* Recording.  needs are the states required before the command, refs what  *)
(* the list keeps alive because of it.                                      *)

Records(l, command, needs, refs) ==
    /\ command.op \in world.operations
    /\ NumPending < MaxPending
    /\ Avoids("WritesTwice", \E o \in DOMAIN needs :
            needs[o] \in {"Write", "OmmWrite"} /\ PriorState(list[l].state, o) = needs[o] /\ InFlight(o))
    /\ Avoids("RebuildsMicromap", api = "D3D12" /\ "micromap" \in DOMAIN needs
            /\ needs["micromap"] = "OmmWrite" /\ InFlight("micromap"))
    /\ list' = [list EXCEPT
            ![l].commands = Append(@, After(command, list[l].state, needs)),
            ![l].refs = @ \cup refs,
            ![l].state = needs @@ @]

(* The backend gives up, as there is no scratch memory or the structure is too
   small, with the states required and the references made so far.  An
   application that avoids BuildFails may have this happen only where the
   validation layer remembers the same build as before. *)
Fails(l, needs, refs) ==
    /\ "failed" \in world.operations
    /\ NumPending < MaxPending
    /\ Avoids("BuildFails", wrapper' # wrapper)
    /\ list' = [list EXCEPT
            ![l].commands = Append(@, After(Command("failed", None, {}), list[l].state, needs)),
            ![l].refs = @ \cup refs,
            ![l].state = needs @@ @]

Open(l) ==
    /\ ~list[l].open /\ NumPending < MaxPending
    /\ Avoids("BuildsConcurrently", \E k \in Lists : list[k].open)
    /\ list' = [list EXCEPT ![l] = [ClosedList EXCEPT !.open = TRUE]]
    /\ UNCHANGED <<api, world, held, wrapper, bottomLevelASes, queue, contents, unordered>>

(* close() returns every object to its initial state; executeCommandLists
   hands the recording to the queue. *)
Submit(l) ==
    /\ list[l].open /\ Len(queue) < MaxQueue
    /\ LET closing == After(NoCommand, list[l].state, Kept(list[l].state))
       IN  queue' = Append(queue, [commands |-> Append(list[l].commands, closing), refs |-> list[l].refs])
    /\ list' = [list EXCEPT ![l] = ClosedList]
    /\ UNCHANGED <<api, world, held, wrapper, bottomLevelASes, contents, unordered>>

Drop(l) ==
    /\ list[l].open
    /\ Avoids("DropsBuild", list[l].commands # <<>>)
    /\ list' = [list EXCEPT ![l] = ClosedList]
    /\ UNCHANGED <<api, world, held, wrapper, bottomLevelASes, queue, contents, unordered>>

(* The validation layer's part of buildBottomLevelAccelStruct: what a build
   that updates is compared with. *)
ComparedNothing(g) == 0        \* a mutant
Nonindexed(g) == g.type = "triangles" /\ ~g.indexed
ComparedCount(g) == IF Nonindexed(g) THEN 0 ELSE g.count
ValidUpdateOf(b, geometries) ==
    /\ Desc[b].update
    /\ wrapper[b].built
    /\ Len(wrapper[b].geometry) = Len(geometries)
    /\ \A i \in DOMAIN geometries :
         /\ wrapper[b].geometry[i].type = geometries[i].type
         /\ ComparedCount(wrapper[b].geometry[i]) = ComparedCount(geometries[i])
ValidBuildOf(b, geometries, update) ==
    /\ update => ValidUpdateOf(b, geometries)
    /\ ~(Desc[b].compaction /\ wrapper[b].built)

GeometryInputs(withMicromap) == {"geometry"} \cup (IF withMicromap THEN {"micromap"} ELSE {})
AsBuildInputs(withMicromap) == [o \in GeometryInputs(withMicromap) |-> "BuildInput"]

RememberBuild(b, geometries) ==
    wrapper' = [wrapper EXCEPT ![b] = [NotBuilt EXCEPT !.built = TRUE, !.geometry = geometries]]

(* D3D12 references the inputs; both reference the target, if the build is recorded. *)
InputRefs(inputs) == IF api = "D3D12" THEN inputs ELSE {}
BottomLevelRefsOfInputs(b, inputs) == InputRefs(inputs)      \* a mutant
BottomLevelRefs(b, inputs) == {b} \cup InputRefs(inputs)

(* Where it fails Vulkan has required the state of the target, D3D12 has not. *)
BuildBottomLevelAccelStruct(l, b, geometries, update, withMicromap) ==
    LET inputs == GeometryInputs(withMicromap)
        asInputs == AsBuildInputs(withMicromap)
        all == (b :> "Write") @@ asInputs
    IN
    /\ list[l].open /\ Usable(b) /\ \A o \in inputs : Usable(o)
    /\ Avoids("Nonindexed", update /\ \E i \in DOMAIN geometries : Nonindexed(geometries[i]))
    /\ ValidBuildOf(b, geometries, update)
    /\ RememberBuild(b, geometries)
    /\ \/ Records(l, [Command("buildBottom", b, inputs) EXCEPT !.update = update, !.geometry = geometries],
                  all, BottomLevelRefs(b, inputs))
       \/ Fails(l, IF api = "VULKAN" THEN all ELSE asInputs, InputRefs(inputs))
    /\ UNCHANGED <<api, world, held, bottomLevelASes, queue, contents, unordered>>

ValidTopLevelBuild(t, n, update) ==
    update => Desc[t].update /\ wrapper[t].built /\ wrapper[t].instances = n

(* D3D12 keeps the BLASes of the build it records, Vulkan none. *)
KeptInstances(instances) == IF api = "D3D12" THEN instances ELSE {}

InstanceStates(instances) == [b \in instances |-> "BuildBlas"]

(* buildTopLevelAccelStructInternal, after the barriers: the list references
   the TLAS whether the build is recorded or not.  An update asserts that size,
   the length of as->instances, is the number of instances. *)
TopLevelBuild(t, reads, instances, update, size) ==
    [Command("buildTop", t, reads) EXCEPT !.update = update, !.instances = instances, !.size = size]
BuildTopLevelAccelStructInternal(l, build, needs) ==
    \/ Records(l, build, needs, {build.target})
    \/ Fails(l, needs, {build.target})

(* as->instances is resized to the instances given.  Memory for their upload is
   not limited and does not fail. *)
BuildTopLevelAccelStruct(l, t, instances, update) ==
    LET n == Cardinality(instances) IN
    /\ list[l].open /\ Usable(t) /\ \A b \in instances : Usable(b) /\ wrapper[b].built
    /\ ValidTopLevelBuild(t, n, update)
    /\ Avoids("RebuildsTlas", (Reachable(t) \ held) \ KeptInstances(instances) # {})
    /\ wrapper' = [wrapper EXCEPT ![t] = [NotBuilt EXCEPT !.built = TRUE, !.instances = n]]
    /\ bottomLevelASes' = [bottomLevelASes EXCEPT ![t] = KeptInstances(instances)]
    /\ BuildTopLevelAccelStructInternal(l, TopLevelBuild(t, instances, instances, update, n),
            (t :> "Write") @@ InstanceStates(instances))
    /\ UNCHANGED <<api, world, held, queue, contents, unordered>>

InstanceBufferState == "instances" :> "BuildInput"

(* The instances come from a buffer: neither their states nor their lives are
   tracked, the validation layer does not remember the build, and
   as->instances is empty. *)
BuildTopLevelAccelStructFromBuffer(l, t, instances, update) ==
    LET n == Cardinality(instances) IN
    /\ list[l].open /\ Usable(t) /\ Usable("instances")
    /\ \A b \in instances : Usable(b) /\ wrapper[b].built /\ PriorState(list[l].state, b) = "BuildBlas"
    /\ ValidTopLevelBuild(t, n, update)
    /\ Avoids("UpdatesFromBuffer", update /\ n # 0)
    /\ Avoids("RebuildsFromBuffer", wrapper[t].built /\ wrapper[t].instances # n)
    /\ Avoids("RebuildsTlas", Reachable(t) \ held # {})
    /\ bottomLevelASes' = [bottomLevelASes EXCEPT ![t] = {}]
    /\ UNCHANGED <<api, world, held, wrapper, queue, contents, unordered>>
    /\ BuildTopLevelAccelStructInternal(l, TopLevelBuild(t, {"instances"}, instances, update, 0),
            (t :> "Write") @@ InstanceBufferState)

CopyStates(destination, source) == (source :> "BuildBlas") @@ (destination :> "Write")

(* Neither structure is referenced, and the validation layer remembers
   nothing of the copy. *)
CopyRaytracingAccelerationStructure(l, destination, source) ==
    /\ list[l].open /\ Usable(destination) /\ Usable(source) /\ destination # source
    /\ Desc[destination].level = Desc[source].level
    /\ Avoids("CopiesOverBuild", wrapper[destination].built)
    /\ Records(l, Command("copy", destination, {source}),
               CopyStates(destination, source), {})
    /\ UNCHANGED <<api, world, held, wrapper, bottomLevelASes, queue, contents, unordered>>

MicromapStates == ("ommInput" :> "OmmBuildInput") @@ ("micromap" :> "OmmWrite")

BuildOpacityMicromap(l) ==
    LET refs == {"micromap", "ommInput"} IN
    /\ list[l].open /\ Usable("micromap") /\ Usable("ommInput")
    /\ UNCHANGED <<api, world, held, wrapper, bottomLevelASes, queue, contents, unordered>>
    /\ \/ Records(l, Command("buildMicromap", "micromap", {"ommInput"}), MicromapStates, refs)
       \/ Fails(l, MicromapStates, refs)

(* Vulkan references the buffers, D3D12 none of them; D3D12 takes scratch memory
   before it requires a state. *)
ClusterRefs == IF api = "VULKAN" THEN {"clusters", "addresses"} ELSE {}
ClusterStates == ("clusters" :> "Write") @@ ("addresses" :> "Unordered")
ExecuteMultiIndirectClusterOperation(l) ==
    /\ list[l].open /\ Usable("clusters") /\ Usable("addresses")
    /\ UNCHANGED <<api, world, held, wrapper, bottomLevelASes, queue, contents, unordered>>
    /\ \/ Records(l, Command("clusters", "clusters", {"addresses"}), ClusterStates, ClusterRefs)
       \/ Fails(l, IF api = "VULKAN" THEN ClusterStates ELSE <<>>, ClusterRefs)

(* setRayTracingState with a binding set of the TLAS.  D3D12 does not look
   again at a set that is bound already. *)
BindingNeeds(l, t) == IF api = "D3D12" /\ list[l].bound = t THEN <<>> ELSE t :> "Read"
SetRayTracingState(l, t) ==
    /\ list[l].open /\ Usable(t)
    /\ list[l].bound # t \/ Transitions(list[l].state, BindingNeeds(l, t)) # {}     \* else nothing changes
    /\ list' = [list EXCEPT
            ![l].commands = Append(@, After(NoCommand, list[l].state, BindingNeeds(l, t))),
            ![l].refs = @ \cup {t},
            ![l].state = BindingNeeds(l, t) @@ @,
            ![l].bound = t]
    /\ UNCHANGED <<api, world, held, wrapper, bottomLevelASes, queue, contents, unordered>>

(* dispatchRays places no barriers.  After a build the state is set again, on
   D3D12 with another binding set, before rays are traced. *)
TraceRays(l) ==
    /\ list[l].open /\ list[l].bound # None
    /\ Avoids("TracesWritten", \E s \in Structures : PriorState(list[l].state, s) = "Write")
    /\ NumPending < MaxPending
    /\ list' = [list EXCEPT ![l].commands = Append(@, Command("trace", None, {list[l].bound}))]
    /\ UNCHANGED <<api, world, held, wrapper, bottomLevelASes, queue, contents, unordered>>

---------------------------------------------------------------------------
(* The application.                                                         *)

Created(s) == s \in Alive \/ wrapper[s].built \/ contents[s] # None \/ InFlight(s)

(* The flags the validation layer accepts. *)
ValidDesc(s) == ~(Desc[s].compaction /\ (Desc[s].level = "top" \/ Desc[s].update))

CreateAccelStruct(s) ==
    /\ s \in world.objects \cap Structures /\ ~Created(s) /\ ValidDesc(s)
    /\ held' = held \cup {s}
    /\ UNCHANGED <<api, world, wrapper, bottomLevelASes, list, queue, contents, unordered>>

(* The last handle is given up.  What the APIs do not keep alive, the
   application keeps until the GPU is done with it. *)
Release(o) ==
    /\ o \in held \cap world.releases
    /\ Avoids("ReleasesInstance", \E t \in Tlases \cap Alive : o \in Reachable(t) \ bottomLevelASes[t])
    /\ Avoids("ReleasesCopied", \E c \in Pending : c.op = "copy" /\ o \in Touched(c))
    /\ Avoids("ReleasesInputs", \E c \in Pending :
            /\ o \in c.reads \cap Buffers
            /\ c.op = "buildTop" \/ (api = "VULKAN" /\ c.op = "buildBottom"))
    /\ Avoids("ReleasesClusters", api = "D3D12" /\ \E c \in Pending : c.op = "clusters" /\ o \in Touched(c))
    /\ held' = held \ {o}
    /\ UNCHANGED <<api, world, wrapper, bottomLevelASes, list, queue, contents, unordered>>

---------------------------------------------------------------------------
(* The GPU.                                                                 *)

NextCommand == Head(Head(queue).commands)

(* Rays read the BLASes, too. *)
TracedBlases(c) == IF c.op = "trace" THEN UNION {Instances(t) : t \in c.reads} ELSE {}
ReadBy(c) == c.reads \cup c.instances
WrittenBy(c) == {c.target} \ {None}

(* A barrier of a BLAS does not wait for rays on Vulkan.  Applications that
   avoid RebuildsTraced wait for the device before they build it again. *)
StillUnordered(c, o) ==
    {a \in unordered[o] :
        /\ a = "t" => ~c.waits /\ (o \in c.barriers => api = "VULKAN" /\ "RebuildsTraced" \notin Avoided)
        /\ a # "t" => o \notin c.barriers}

Execute ==
    /\ queue # <<>>
    /\ LET c == NextCommand
           rest == Tail(Head(queue).commands)
       IN  /\ unordered' = [o \in Objects |-> StillUnordered(c, o)
                    \cup (IF o \in ReadBy(c) THEN {"r"} ELSE {}) \cup (IF o \in WrittenBy(c) THEN {"w"} ELSE {})
                    \cup (IF o \in TracedBlases(c) THEN {"t"} ELSE {})]
           /\ contents' =
                CASE c.op = "buildBottom" -> [contents EXCEPT ![c.target] = c.geometry]
                  [] c.op = "buildTop" -> [contents EXCEPT ![c.target] = c.instances]
                  [] c.op = "copy" -> [contents EXCEPT ![c.target] = contents[CHOOSE s \in c.reads : TRUE]]
                  [] OTHER -> contents
           /\ queue' = IF rest = <<>> THEN Tail(queue) ELSE [queue EXCEPT ![1].commands = rest]
    /\ UNCHANGED <<api, world, held, wrapper, bottomLevelASes, list>>

(* Everything submitted has finished. *)
BecomesIdle ==
    /\ queue = <<>>
    /\ \E o \in Objects : unordered[o] # {}
    /\ unordered' = [o \in Objects |-> {}]
    /\ UNCHANGED <<api, world, held, wrapper, bottomLevelASes, list, queue, contents>>

Next ==
    \/ \E l \in Lists :
         \/ Open(l) \/ Submit(l) \/ Drop(l)
         \/ \E b \in Blases, geometries \in world.geometries, update \in BOOLEAN, withMicromap \in BOOLEAN :
                BuildBottomLevelAccelStruct(l, b, geometries, update, withMicromap)
         \/ \E t \in Tlases, instances \in world.instances, update \in BOOLEAN :
                \/ BuildTopLevelAccelStruct(l, t, instances, update)
                \/ BuildTopLevelAccelStructFromBuffer(l, t, instances, update)
         \/ \E s, d \in Structures : CopyRaytracingAccelerationStructure(l, d, s)
         \/ BuildOpacityMicromap(l)
         \/ ExecuteMultiIndirectClusterOperation(l)
         \/ \E t \in Tlases : SetRayTracingState(l, t)
         \/ TraceRays(l)
    \/ \E s \in Structures : CreateAccelStruct(s)
    \/ \E o \in Objects : Release(o)
    \/ Execute
    \/ BecomesIdle

Spec == Init /\ [][Next]_vars

---------------------------------------------------------------------------
(* Properties.                                                              *)

\* Whatever the application has released, the next command of the GPU, and
\* the rays it traces, touch only structures and buffers somebody keeps alive:
\* a handle, the list that was submitted, or the TLAS that refers to them.
StructuresAliveWhenUsed ==
    queue # <<>> =>
        WrittenBy(NextCommand) \cup ReadBy(NextCommand) \cup TracedBlases(NextCommand) \subseteq Alive

\* Between a build and what reads or writes its target before or after it, in
\* the same list or another one, the GPU executes a barrier of the target.
BuildsOrdered ==
    queue # <<>> =>
        /\ \A o \in WrittenBy(NextCommand) : StillUnordered(NextCommand, o) = {}
        /\ \A o \in ReadBy(NextCommand) \cup TracedBlases(NextCommand) : "w" \notin StillUnordered(NextCommand, o)

\* An update executes on a structure that was built of as many primitives or
\* instances, and a TLAS is built only of BLASes that were: the checks of the
\* validation layer, made when builds are recorded, hold when they are executed,
\* also after builds that failed.  Nor does an update disappoint the assertion of
\* the backend on the instances it has (buildTopLevelAccelStructInternal).
UpdatesMatchBuild ==
    /\ \A c \in Pending : c.op = "buildTop" /\ c.update => c.size = Cardinality(c.instances)
    /\ queue # <<>> =>
        LET c == NextCommand
            built == contents[c.target]
        IN
        /\ c.op = "buildBottom" /\ c.update =>
                /\ built # None /\ Len(built) = Len(c.geometry)
                /\ \A i \in DOMAIN built :
                     built[i].type = c.geometry[i].type /\ built[i].count = c.geometry[i].count
        /\ c.op = "buildTop" /\ c.update => built # None /\ Cardinality(built) = Cardinality(c.instances)
        /\ c.op = "buildTop" => \A b \in c.instances : contents[b] # None
=============================================================================
