SPECIFICATION Spec
CONSTANTS
    m1 = m1
    m2 = m2
    Clients <- MCClients
    Payloads <- MCPayloads
    BufferLimit = 4096
    MaxTemplates = 2
    MaxPackets <- ThreeOrFour
    MaxFailures = 1
    MaxShort = 1
INVARIANTS TypeOK PacketsAreTheirOwn SuccessMeansWork AnswersMatchShares
CHECK_DEADLOCK FALSE
