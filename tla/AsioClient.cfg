SPECIFICATION EchoFairSpec
CONSTANTS
    t1 = t1  t2 = t2
    NoMsg = NoMsg
    NoThread = NoThread
    IoThreads <- TwoThreads
    AppThreads <- NoThreads
    ClientMsgs <- ClientSends
    AppMsgs <- NoMsgs
    nTotalCnt = 1
    MayBreak = TRUE
VIEW WireUntilDoubled
INVARIANTS EchoMatches
PROPERTIES ClientEnds SessionFollows
CHECK_DEADLOCK FALSE
