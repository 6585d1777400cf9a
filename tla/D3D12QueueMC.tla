---------------------------- MODULE D3D12QueueMC ----------------------------
(* Two lists on one D3D12 queue, each executed and collected by a thread of its
   own with a lifetime tracker of its own. *)
EXTENDS D3D12Queue, TLC

CONSTANTS q1, t1, t2, l1, l2, s1, tq, e1, tr1, tr2

MCOneQueue == [x \in Lists \cup Trackers |-> q1]
MCTrackerOf == (l1 :> tr1) @@ (l2 :> tr2)
MCThreadOf == (l1 :> t1) @@ (l2 :> t2) @@ (tr1 :> t1) @@ (tr2 :> t2)
MCListsOnly == {{l1, l2, tq}}
MCTwo == [q \in Queues |-> 2]
=============================================================================
