-------------------------- MODULE ResourceLifetime --------------------------
(***************************************************************************)
(* What CUTIE promises of resource lifetimes, whatever the backend: a      *)
(* resource is destroyed only after the application has released it, no    *)
(* command list being recorded uses it and the GPU has finished all        *)
(* submitted work that does; and then it is destroyed eventually.          *)
(***************************************************************************)
EXTENDS Sequences

CONSTANTS Resources, Lists, Queues

VARIABLES
    held,       \* the resources the application has a handle of
    recording,  \* [Lists -> the resources the list uses, itself included]
    executing,  \* [Queues -> Seq of the resources each unfinished submission uses]
    alive       \* the resources not destroyed

vars == <<held, recording, executing, alive>>

Elements(seq) == {seq[i] : i \in DOMAIN seq}

InUse == UNION ({held} \cup {recording[l] : l \in Lists}
                       \cup {UNION Elements(executing[q]) : q \in Queues})

Begin(l) ==
    /\ l \in held
    /\ recording' = [recording EXCEPT ![l] = {l}]
    /\ UNCHANGED <<held, executing>>

Use(l, r) ==
    /\ l \in recording[l] /\ r \in held
    /\ recording' = [recording EXCEPT ![l] = @ \cup {r}]
    /\ UNCHANGED <<held, executing>>

Submit(q, S) ==
    /\ \A l \in S : l \in recording[l]
    /\ executing' = [executing EXCEPT ![q] = Append(@, UNION {recording[l] : l \in S})]
    /\ recording' = [l \in Lists |-> IF l \in S THEN {} ELSE recording[l]]
    /\ UNCHANGED held

Finish(q) ==
    /\ executing[q] # <<>>
    /\ executing' = [executing EXCEPT ![q] = Tail(@)]
    /\ UNCHANGED <<held, recording>>

Release(r) ==
    /\ held' = held \ {r}
    /\ UNCHANGED <<recording, executing>>

Init ==
    /\ held \subseteq Resources /\ alive = held
    /\ recording = [l \in Lists |-> {}]
    /\ executing = [q \in Queues |-> <<>>]

\* Any resources not in use may be destroyed in any step, or in one of their own.
Next ==
    /\ \/ \E l \in Lists : Begin(l) \/ (\E r \in Resources : Use(l, r))
       \/ \E q \in Queues : Finish(q) \/ (\E S \in SUBSET Lists : Submit(q, S))
       \/ \E r \in Resources : Release(r)
       \/ UNCHANGED <<held, recording, executing>>
    /\ InUse' \subseteq alive' /\ alive' \subseteq alive

Spec == Init /\ [][Next]_vars

\* Every resource no longer in use is eventually destroyed.
Reclaimed == \A r \in Resources : (r \notin InUse) ~> (r \notin alive)
=============================================================================
