\* A share submitted twice.
SPECIFICATION Spec
CONSTANTS
    NThreads = 1
    c1 = c1
    c2 = c2
    Clients = {c1}
    NoClient = NoClient
    Solutions = {"chain"}
    MaxPayload = 1
    Garbage = {0}
    MaxHeight = 1
    MaxBlocks = 1
    MaxShares = 2
INVARIANTS
    NoDoubleCredit
