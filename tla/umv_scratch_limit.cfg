CONSTANTS
    i1 = i1
    i2 = i2
    d1 = d1
    q1 = q1
    q2 = q2
    t1 = t1
    t2 = t2
    l1 = l1
    l2 = l2
    s1 = s1
    e1 = e1
    dev = dev
    own = own
    b1 = b1
    None = None
    Unused = Unused
    Parts = {"uploads"}
    Lists = {i1, i2, d1}
    Immediate = {i1, i2}
    QueueType <- MCQueueType
    PushSizes = {0, 4}
SYMMETRY Symmetry
SPECIFICATION MCSpec
CHECK_DEADLOCK FALSE
INVARIANTS
    ScratchWithinLimit
