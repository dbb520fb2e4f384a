SPECIFICATION Spec
CONSTANTS
    t1 = t1  t2 = t2  app = app
    m1 = m1  m2 = m2  m3 = m3  m4 = m4
    NoMsg = NoMsg
    NoThread = NoThread
    IoThreads <- TwoThreads
    AppThreads <- NoThreads
    ClientMsgs <- ThreeMsgs
    AppMsgs <- NoMsgs
INVARIANT OneWriteAtATime
CHECK_DEADLOCK FALSE
