SPECIFICATION FairSpec
CONSTANTS
    m1 = m1
    m2 = m2
    m3 = m3
    short = short
    long = long
    cut = cut
    NThreads = 2
    Clients <- MCClients
    Names <- MCNames
    NameOf <- TwoWorkers
    Column <- FirstPart
    MaxFiles = 2
    MaxFailures = 1
    MaxLogins <- OnceOrTwice
    MaxRestarts = 1
INVARIANTS TypeOK NoForgottenConnection SameWorkerSameRow
PROPERTIES MinersGetIn
CHECK_DEADLOCK FALSE
