SPECIFICATION Spec
CONSTANTS
    t1 = t1  t2 = t2
    m1 = m1  m2 = m2  m3 = m3  m4 = m4
    NoMsg = NoMsg
    Threads <- TwoThreads
    Msgs <- FourMsgs
    OverflowMsgs <- NoMsgs
    MAX_MSG_NUM = 1
    MaySuspend = TRUE
    MaxLosses = 0
SYMMETRY Symmetry
VIEW WithoutHistory
INVARIANT OneWriteAtATime
CHECK_DEADLOCK FALSE
