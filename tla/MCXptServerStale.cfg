\* A miner is left on an old block.
SPECIFICATION Spec
CONSTANTS
    NThreads = 1
    c1 = c1
    c2 = c2
    Clients = {c1}
    NoClient = NoClient
    Solutions = {"chain"}
    MaxPayload = 1
    Garbage = {0}
    MaxHeight = 2
    MaxBlocks = 2
    MaxShares = 0
PROPERTIES
    NewBlocksPropagated
