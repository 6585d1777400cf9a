CONSTANTS
    q1 = q1
    q2 = q2
    t1 = t1
    t2 = t2
    l1 = l1
    l2 = l2
    r1 = r1
    s1 = s1
    e1 = e1
    dev = dev
    own = own
    None = None
    Queues = {q1, q2}
    Threads = {t1}
    Resources = {l1, l2, r1}
    Lists = {l1, l2}
    Staging = {}
    Events = {}
    Trackers = {dev, own}
    DeviceTrackers = {dev, own}
    QueueOf <- MCTwoQueues
    TrackerOf <- MCTrackerOf
    Executors <- MCOneExecutor
    Collectors <- MCOneCollector
    SharedStaging = FALSE
    Calls = {"clear"}
    MaxRecordings <- MCTwoAndOne
SPECIFICATION Spec
INVARIANTS NothingDestroyedInUse
CHECK_DEADLOCK FALSE
