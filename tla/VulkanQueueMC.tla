--------------------------- MODULE VulkanQueueMC ---------------------------
(* Small instances of VulkanQueue for TLC. *)
EXTENDS VulkanQueue, TLC

CONSTANTS q1, q2, t1, t2, l1, l2, r1, s1, e1, dev, own

\* both lists on one queue: l1 is tracked by the device, l2 by a tracker of the
\* application's
MCQueueOf   == [x \in Lists \cup Trackers |-> q1]
MCTrackerOf == (l1 :> dev) @@ (l2 :> own)

\* one thread executes both lists, in one call or two, and collects both trackers
MCOneExecutor == [l \in Lists |-> {t1}]
MCOneCollector == [tr \in Trackers |-> {t1}]

\* a list on each of two queues
MCTwoQueues == (l1 :> q1) @@ (l2 :> q2) @@ (dev :> q1) @@ (own :> q2)
MCTwo == [q \in Queues |-> 2]
MCTwoAndOne == (q1 :> 2) @@ (q2 :> 1)
============================================================================
