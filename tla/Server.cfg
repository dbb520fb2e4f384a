SPECIFICATION FairSpec
CONSTANTS
    t1 = t1  t2 = t2
    s1 = s1  s2 = s2  s3 = s3  s4 = s4  s5 = s5  s6 = s6
    NoSession = NoSession
    IoThreads <- TwoThreads
    Sessions <- FourSessions
    MaxConn = 0
    MaxStarts = 2
    MaxId = 2
INVARIANTS AcceptingGoesOn ListIsBounded ListIsAccurate
PROPERTIES StopReturns
CHECK_DEADLOCK FALSE
