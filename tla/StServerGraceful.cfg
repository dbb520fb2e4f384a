SPECIFICATION Spec
CONSTANTS
    o1 = o1
    o2 = o2
    o3 = o3
    io1 = io1
    io2 = io2
    main = main
    NoObject = NoObject
    Objects <- ThreeObjects
    IoThreads <- OneIo
    Runners = {1, 2}
    MaxSlow = 1
    MAX_OBJECT_NUM = 1
    ENHANCED_STABILITY = TRUE
    MaxEvents = 0
    MaxRefused = 1
    MaxClients = 2
    MaxCalls = 3
INVARIANT ClosedIsReclaimed
CHECK_DEADLOCK FALSE
