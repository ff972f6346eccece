SPECIFICATION FairSpec
CONSTANTS
    A = A
    B = B
    Repo = {A, B}
    Count <- MCCount
    ConfigMax = 2
    StartsCalm = FALSE
INVARIANTS
    TypeOK
    OneCapacity
    RegisteredOwnsSession
PROPERTIES
    StaleSessionRecovered
    ShutdownReturns
