SPECIFICATION Spec
CONSTANTS
    t1 = t1  t2 = t2
    s1 = s1  s2 = s2  s3 = s3  s4 = s4  s5 = s5  s6 = s6
    NoSession = NoSession
    IoThreads <- TwoThreads
    Sessions <- SixSessions
    MaxConn = 1
    MaxStarts = 1
    MaxId = 3
SYMMETRY Symmetry
INVARIANT MaxConnRespected
CHECK_DEADLOCK FALSE
