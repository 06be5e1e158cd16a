\* One thread that serves two miners with two workloads each.
SPECIFICATION Spec
CONSTANTS
    NThreads = 1
    c1 = c1
    c2 = c2
    Clients = {c1, c2}
    NoClient = NoClient
    Solutions = {"chain"}
    MaxPayload = 2
    Garbage = {0, 9}
    MaxHeight = 3
    MaxBlocks = 3
    MaxShares = 1
INVARIANTS
    TypeOK
    NoFreedClient
    CurrentWorkIsSound
    SharesHaveTheirHeight
    BlocksHaveTheirHeight
PROPERTIES
    NotifiedAll
