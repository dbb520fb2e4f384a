SPECIFICATION Spec
CONSTANTS
    t1 = t1  t2 = t2
    m1 = m1  m2 = m2  m3 = m3
    NoMsg = NoMsg
    Threads <- NoThreads
    Msgs <- ThreeMsgs
    MAX_MSG_NUM = 1
    MaxBatch = 2
    FORCE = FALSE
    MaySuspend = FALSE
    MayPost = FALSE
    MayClose = TRUE
INVARIANTS RedispatchComes
CHECK_DEADLOCK FALSE
