SPECIFICATION Spec
CONSTANTS
    t1 = t1  t2 = t2
    b1 = b1  b2 = b2  b3 = b3  b4 = b4
    echo = echo  ping = ping
    NoBuffer = NoBuffer
    Threads <- TwoThreads
    Buffers <- FourBuffers
    Types <- TwoTypes
    Lengths <- AllLengths
    MaxBody = 2
    Capacity = 2
    MaxLeaked = 2
SYMMETRY Symmetry
INVARIANT EchoesOwnHeader
