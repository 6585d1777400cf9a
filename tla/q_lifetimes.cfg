CONSTANTS
    Unused = Unused
    q1 = q1
    q2 = q2
    t1 = t1
    t2 = t2
    l1 = l1
    l2 = l2
    r1 = r1
    s1 = s1
    tq = tq
    e1 = e1
    tr1 = tr1
    tr2 = tr2
    dev = dev
    own = own
    None = None
    Queues = {q1, q2}
    Threads = {t1, t2}
    Resources = {l1, l2, s1, tq, e1}
    Lists = {l1, l2}
    Staging = {s1}
    Timers = {tq}
    Events = {e1}
    Worlds <- MCWorlds
    Trackers = {tr1, tr2}
    QueueOf <- MCQueueBy1And2
    TrackerOf <- MCTrackerOf
    ThreadOf <- MCThreadOf
    Waiters = {t1, t2}
    MaxOpens <- MCTwoAndOne
    Avoided = {"WaitsConcurrently", "ReleasesLists", "SharesQueues"}
SPECIFICATION MCSpec
CHECK_DEADLOCK FALSE
INVARIANTS
    TypesOK
    RecordsIntoIdleBuffers
    ExecutedFindsRecording
    AnswersStayTrue
PROPERTIES
    QueuesImplementLifetime
