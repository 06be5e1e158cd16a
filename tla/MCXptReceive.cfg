SPECIFICATION Spec
CONSTANTS
    InitialLimit <- MCInitialLimit
    SizeLimit <- MCSizeLimit
    Streams <- MCStreams
CHECK_DEADLOCK FALSE
INVARIANTS
    TypeOK
    BufferLargeEnough
    NoLostEdge
PROPERTIES
    Framing
    DrainsSocket
