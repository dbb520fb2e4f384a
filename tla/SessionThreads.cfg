SPECIFICATION FairSpec
CONSTANTS
    t1 = t1  t2 = t2  app = app
    m1 = m1  m2 = m2  m3 = m3  m4 = m4
    NoMsg = NoMsg
    NoThread = NoThread
    IoThreads <- TwoThreads
    AppThreads <- OneApp
    ClientMsgs <- TwoMsgs
    AppMsgs <- AppMsg
VIEW WireUntilDoubled
INVARIANTS WireIsFifo FreedAfterSent NoStrandedMessage
PROPERTIES ImplementsEchoChannel AcceptedIsReleased BrokenSessionLeaves
CHECK_DEADLOCK FALSE
