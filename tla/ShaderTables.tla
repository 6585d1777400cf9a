----------------------------- MODULE ShaderTables -----------------------------
(***************************************************************************)
(* Shader tables: a pipeline's table names the shaders and the local       *)
(* binding sets of rays.  setRayTracingState bakes a table that changed    *)
(* into memory, of the recording's upload manager or, for a cached table,  *)
(* into the cache buffer by a copy the GPU executes later; dispatchRays    *)
(* points the GPU to the regions of what was baked last.                   *)
(***************************************************************************)
EXTENDS Naturals, Sequences, FiniteSets, SequencesExt, TLC

CONSTANTS
    Lists,
    Capacity,       \* table -> entries of its cache, Uncached for tables without one
    Uncached,
    Exports,        \* export of the pipeline -> [kind, layout]: the shader's, and of its local
                    \* bindings or None
    BindingSets,    \* binding set -> its layout
    None,
    MaxTables,      \* bound: tables created
    MaxVersion,     \* bound: changes of a table
    MaxGeneration,  \* bound: descriptor heaps in turn
    MaxCommands,    \* bound: commands recorded or submitted and not yet executed
    Avoided         \* what applications avoid, see Avoids

VARIABLES
    api,
    table,          \* table -> [version, rayGen, miss, hit, callable], None before it is created
    cacheState,     \* table -> ShaderTableState of its cache
    memory,         \* table -> entries in its cache buffer, as the GPU left them
    held,           \* tables and binding sets the application has handles of
    list,           \* Lists -> [open, commands, refs, states, current, expected]
    queue,          \* submissions: [commands, refs]
    generation      \* of the shader-visible descriptor heaps (D3D12)

vars == <<api, table, cacheState, memory, held, list, queue, generation>>

(* Avoided: setting a cached table that an open list has set (SetsConcurrently),
   dropping a list that bakes a cache (DropsBake), releasing local bindings the
   GPU still uses (ReleasesBindings), and tables without a ray generation
   shader on D3D12 (NoRayGen). *)
Avoids(name, bad) == name \in Avoided => ~bad

Tables == DOMAIN Capacity
Cached == {t \in Tables : Capacity[t] # Uncached}
Kinds == {"rayGen", "miss", "hit", "callable"}

NewTable == [version |-> 0] @@ [k \in Kinds |-> <<>>]
NoRegions == [k \in Kinds |-> [first |-> 0, size |-> 0]]
NewState == [version |-> 0, heap |-> 0, regions |-> NoRegions, data |-> <<>>]
ClosedList ==
    [open |-> FALSE, commands |-> <<>>, refs |-> {}, states |-> <<>>, current |-> None, expected |-> None]

Init ==
    /\ api \in {"VULKAN", "D3D12"}
    /\ table = [t \in Tables |-> None]
    /\ cacheState = [t \in Cached |-> NewState]
    /\ memory = [t \in Cached |-> <<>>]
    /\ held = DOMAIN BindingSets
    /\ list = [l \in Lists |-> ClosedList]
    /\ queue = <<>>
    /\ generation = 1

---------------------------------------------------------------------------
(* Who is alive.  Entries hold their binding sets, lists the tables they use. *)

Tabled(tables, t) == IF tables[t] = None THEN {} ELSE
    UNION {{e.bindings : e \in ToSet(tables[t][k])} : k \in Kinds} \ {None}
Created == {t \in Tables : table[t] # None}
Refs(lists, submissions) == UNION {lists[l].refs : l \in Lists} \cup UNION {s.refs : s \in ToSet(submissions)}
AliveWith(handles, tables) ==
    LET roots == handles \cup Refs(list, queue)
    IN  roots \cup UNION {Tabled(tables, t) : t \in roots \cap Created}
Alive == AliveWith(held, table)

Commands == FoldSeq(LAMBDA s, cs : cs \cup ToSet(s.commands), {}, queue) \cup UNION {ToSet(list[l].commands) : l \in Lists}
NumCommands == FoldSeq(LAMBDA s, n : n + Len(s.commands), 0, queue)
Shown ==
    {c.expected : c \in {d \in Commands : d.op = "dispatch"}}
    \cup {list[l].expected : l \in {k \in Lists : list[k].current # None}}
Used == UNION {{e.bindings : e \in ToSet(shown[k])} : k \in Kinds, shown \in Shown} \ {None}

---------------------------------------------------------------------------
(* Changes of a table.                                                      *)

(* verifyExport: local bindings are given when, and as, the export asks for
   them.  Vulkan supports none. *)
VerifyExport(e, s) ==
    IF api = "VULKAN" THEN s = None
    ELSE Exports[e].layout = (IF s = None THEN None ELSE BindingSets[s])
Entry(e, s) == [shader |-> e, bindings |-> s]

Changes(t, kind, entries) ==
    /\ t \in Created \cap held
    /\ table[t].version < MaxVersion
    /\ table' = [table EXCEPT ![t][kind] = entries, ![t].version = @ + 1]
    /\ Avoids("ReleasesBindings", Used \ AliveWith(held, table') # {})
    /\ UNCHANGED <<api, cacheState, memory, held, list, queue, generation>>

SetRayGenerationShader(t, e, s) ==
    /\ Exports[e].kind = "rayGen" /\ VerifyExport(e, s) /\ s \in held \cup {None}
    /\ Changes(t, "rayGen", <<Entry(e, s)>>)
AddShader(t, kind, e, s) ==
    /\ Exports[e].kind = kind /\ VerifyExport(e, s) /\ s \in held \cup {None}
    /\ Changes(t, kind, Append(table[t][kind], Entry(e, s)))
ClearShaders(t, kind) == Changes(t, kind, <<>>)

---------------------------------------------------------------------------
(* Baking.  Memory is a sequence of entries; an entry with local bindings    *)
(* holds their place in the descriptor heap of its day.                      *)

NumEntries(t) == 1 + Len(table[t].miss) + Len(table[t].hit) + Len(table[t].callable)
HasLocalResources == api = "D3D12" /\ \E e \in DOMAIN Exports : Exports[e].layout # None
HeapOf(gen) == IF HasLocalResources THEN gen ELSE 0

Written(entries, gen) ==
    [i \in DOMAIN entries |-> [shader |-> entries[i].shader, bindings |-> entries[i].bindings,
                               heap |-> IF entries[i].bindings = None THEN 0 ELSE gen]]
Region(first, entries) == [first |-> IF entries = <<>> THEN 0 ELSE first, size |-> Len(entries)]

Bake(t) ==
    LET T == table[t] IN
    [version |-> T.version,
     heap |-> HeapOf(generation),
     regions |-> [rayGen |-> [first |-> 1, size |-> 1],
                  miss |-> Region(2, T.miss),
                  hit |-> Region(2 + Len(T.miss), T.hit),
                  callable |-> Region(2 + Len(T.miss) + Len(T.hit), T.callable)],
     data |-> Written(T.rayGen \o T.miss \o T.hit \o T.callable, generation)]

IsStateOfVersion(t, state) == state.version = table[t].version     \* a mutant
IsStateValid(t, state) == state.version = table[t].version /\ state.heap = HeapOf(generation)

(* getShaderTableState *)
ShaderTableState(l, t) ==
    IF t \in Cached THEN cacheState[t]
    ELSE IF t \in DOMAIN list[l].states THEN list[l].states[t] ELSE NewState

---------------------------------------------------------------------------
(* Recording.                                                               *)

Open(l) ==
    /\ ~list[l].open
    /\ list' = [list EXCEPT ![l] = [ClosedList EXCEPT !.open = TRUE]]
    /\ UNCHANGED <<api, table, cacheState, memory, held, queue, generation>>

(* Before anything is baked Vulkan looks for a ray generation shader. *)
Settable(l, t) ==
    /\ list[l].open /\ t \in Created \cap held
    /\ (api = "VULKAN" \/ "NoRayGen" \in Avoided) => table[t].rayGen # <<>>
Rebuilds(l, t) == ~IsStateValid(t, ShaderTableState(l, t))
TooLarge(t) == t \in Cached /\ NumEntries(t) > Capacity[t]
UsedBy(l, t) == list[l].open /\ (list[l].current = t \/ \E c \in ToSet(list[l].commands) : c.table = t)

SetRayTracingState(l, t) ==
    /\ Settable(l, t)
    /\ ~(Rebuilds(l, t) /\ TooLarge(t))
    /\ Avoids("SetsConcurrently", t \in Cached /\ \E k \in Lists \ {l} : UsedBy(k, t))
    /\ Len(list[l].commands) < MaxCommands
    /\ LET baked == Bake(t)
           copy == IF t \in Cached /\ Rebuilds(l, t) THEN <<[op |-> "copy", table |-> t, data |-> baked.data]>> ELSE <<>>
       IN  /\ list' = [list EXCEPT
                    ![l].commands = @ \o copy,
                    ![l].refs = @ \cup (IF api = "VULKAN" \/ t \in Cached \/ Rebuilds(l, t) THEN {t} ELSE {}),
                    ![l].states = IF t \notin Cached /\ Rebuilds(l, t) THEN (t :> baked) @@ @ ELSE @,
                    ![l].current = t,
                    ![l].expected = [k \in Kinds |-> Written(table[t][k], generation)]]
           /\ cacheState' = IF t \in Cached /\ Rebuilds(l, t)
                            THEN [cacheState EXCEPT ![t] = [baked EXCEPT !.data = <<>>]] ELSE cacheState
    /\ UNCHANGED <<api, table, memory, held, queue, generation>>

(* The cache is too small, or there is no upload memory: an error, and the
   list keeps the state it had.  Vulkan has referenced the table by then. *)
FailRayTracingState(l, t) ==
    /\ Settable(l, t) /\ Rebuilds(l, t)
    /\ list' = [list EXCEPT ![l].refs = @ \cup (IF api = "VULKAN" THEN {t} ELSE {})]
    /\ UNCHANGED <<api, table, cacheState, memory, held, queue, generation>>

DispatchRays(l) ==
    LET t == list[l].current
        state == ShaderTableState(l, t)
    IN  /\ list[l].open /\ t # None
        /\ Len(list[l].commands) < MaxCommands
        /\ list' = [list EXCEPT ![l].commands = Append(@,
                [op |-> "dispatch", table |-> t, regions |-> state.regions, data |-> state.data,
                 expected |-> list[l].expected])]
        /\ UNCHANGED <<api, table, cacheState, memory, held, queue, generation>>

(* close() forgets the states of the list; the list is submitted. *)
Submit(l) ==
    /\ list[l].open /\ list[l].commands # <<>>
    /\ NumCommands + Len(list[l].commands) <= MaxCommands
    /\ queue' = Append(queue, [commands |-> list[l].commands, refs |-> list[l].refs])
    /\ list' = [list EXCEPT ![l] = ClosedList]
    /\ UNCHANGED <<api, table, cacheState, memory, held, generation>>

Drop(l) ==
    /\ list[l].open
    /\ Avoids("DropsBake", \E c \in ToSet(list[l].commands) : c.op = "copy")
    /\ list' = [list EXCEPT ![l] = ClosedList]
    /\ UNCHANGED <<api, table, cacheState, memory, held, queue, generation>>

---------------------------------------------------------------------------
(* The application, the descriptor heaps and the GPU.                       *)

CreateShaderTable(t) ==
    /\ t \notin Created /\ Capacity[t] # 0
    /\ Cardinality(Created) < MaxTables
    /\ table' = [table EXCEPT ![t] = NewTable]
    /\ held' = held \cup {t}
    /\ UNCHANGED <<api, cacheState, memory, list, queue, generation>>

Release(o) ==
    /\ o \in held
    /\ held' = held \ {o}
    /\ Avoids("ReleasesBindings", Used \ AliveWith(held', table) # {})
    /\ UNCHANGED <<api, table, cacheState, memory, list, queue, generation>>

(* Growing copies the descriptors to a new heap; lists that are recorded
   already keep the one they have set. *)
GrowDescriptorHeap ==
    /\ api = "D3D12" /\ generation < MaxGeneration
    /\ generation' = generation + 1
    /\ UNCHANGED <<api, table, cacheState, memory, held, list, queue>>

NextCommand == Head(Head(queue).commands)

Execute ==
    /\ queue # <<>>
    /\ memory' = IF NextCommand.op = "copy" THEN [memory EXCEPT ![NextCommand.table] = NextCommand.data] ELSE memory
    /\ LET rest == Tail(Head(queue).commands)
       IN  queue' = IF rest = <<>> THEN Tail(queue) ELSE [queue EXCEPT ![1].commands = rest]
    /\ UNCHANGED <<api, table, cacheState, held, list, generation>>

Next ==
    \/ \E t \in Tables :
         \/ CreateShaderTable(t)
         \/ \E e \in DOMAIN Exports, s \in DOMAIN BindingSets \cup {None} :
                SetRayGenerationShader(t, e, s) \/ \E kind \in Kinds \ {"rayGen"} : AddShader(t, kind, e, s)
         \/ \E kind \in Kinds \ {"rayGen"} : ClearShaders(t, kind)
    \/ \E l \in Lists :
         \/ Open(l) \/ DispatchRays(l) \/ Submit(l) \/ Drop(l)
         \/ \E t \in Tables : SetRayTracingState(l, t) \/ FailRayTracingState(l, t)
    \/ \E o \in held : Release(o)
    \/ GrowDescriptorHeap
    \/ Execute

Spec == Init /\ [][Next]_vars

---------------------------------------------------------------------------
(* Properties.                                                              *)

ReadBy(c) == IF c.table \in Cached THEN memory[c.table] ELSE c.data
RegionRead(c, kind) ==
    LET r == c.regions[kind]
    IN  [i \in 1..r.size |-> IF r.first + i - 1 <= Len(ReadBy(c)) THEN ReadBy(c)[r.first + i - 1] ELSE None]

\* Rays find in the regions of their dispatch the shaders and local bindings
\* the table had when their list set it, in the descriptor heap the list set,
\* whatever became of the table, its cache and the heap since; table and
\* bindings are still alive.
TablesAsSet ==
    queue # <<>> /\ NextCommand.op = "dispatch" =>
        LET c == NextCommand IN
        /\ \A kind \in Kinds : RegionRead(c, kind) = c.expected[kind]
        /\ c.table \in Alive
        /\ \A kind \in Kinds : {e.bindings : e \in ToSet(c.expected[kind])} \ {None} \subseteq Alive
=============================================================================
