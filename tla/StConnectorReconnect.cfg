SPECIFICATION FairSpec
CONSTANTS
    io1 = io1
    io2 = io2
    app = app
    IoThreads <- TwoIo
    TICKS = 2
    MaxLost = 1
    MaxRefused = 1
    MaxMsgs = 1
    MaxCloses = 2
PROPERTY CloseTrueReconnects
CHECK_DEADLOCK FALSE
