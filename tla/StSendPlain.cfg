SPECIFICATION FairSpec
CONSTANTS
    t1 = t1  t2 = t2
    m1 = m1  m2 = m2  m3 = m3  m4 = m4
    NoMsg = NoMsg
    Threads <- TwoThreads
    Msgs <- FourMsgs
    OverflowMsgs <- LastMsg
    MAX_MSG_NUM = 1
    MaySuspend = FALSE
    MaxLosses = 0
INVARIANTS SentInOrder
PROPERTIES AcceptedIsSent
CHECK_DEADLOCK FALSE
