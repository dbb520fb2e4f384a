SPECIFICATION Spec
CONSTANTS
    t1 = t1  t2 = t2
    m1 = m1  m2 = m2  m3 = m3
    NoMsg = NoMsg
    Threads <- TwoThreads
    Msgs <- ThreeMsgs
    MAX_MSG_NUM = 1
    MaxBatch = 2
    FORCE = FALSE
    MaySuspend = TRUE
    MayPost = TRUE
    MayClose = TRUE
SYMMETRY Symmetry
INVARIANTS EachOnce DispatchNotStuck OneReceiver
CHECK_DEADLOCK FALSE
