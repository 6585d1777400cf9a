CONSTANTS
    q1 = q1
    t1 = t1
    t2 = t2
    l1 = l1
    l2 = l2
    s1 = s1
    tq = tq
    e1 = e1
    tr1 = tr1
    tr2 = tr2
    None = None
    Queues = {q1}
    Threads = {t1, t2}
    Resources = {l1, l2, s1, tq, e1}
    Lists = {l1, l2}
    Staging = {s1}
    Timers = {tq}
    Events = {e1}
    Trackers = {tr1, tr2}
    QueueOf <- MCOneQueue
    Worlds <- MCListsOnly
    TrackerOf <- MCTrackerOf
    ThreadOf <- MCThreadOf
    Waiters = {t1}
    MaxOpens <- MCTwo
    Avoided = {"WaitsConcurrently", "ReleasesLists", "SharesQueues"}
SPECIFICATION FairSpec
CHECK_DEADLOCK FALSE
PROPERTIES
    GarbageCollected
