SPECIFICATION FairSpec
CONSTANTS
    io1 = io1
    io2 = io2
    app = app
    IoThreads <- TwoIo
    TICKS = 2
    MaxLost = 2
    MaxRefused = 1
    MaxMsgs = 1
    MaxCloses = 2
INVARIANTS OneChain LinkIsUsable ClosedStaysClosed
PROPERTIES Reconnects CloseEnds
CHECK_DEADLOCK FALSE
