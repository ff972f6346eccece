SPECIFICATION FairSpec
CONSTANTS
    r1 = r1
    p1 = p1
    p2 = p2
    s1 = s1
    Runner = {r1}
    Poll = {p1, p2}
    Subscriber = {s1}
    BufSize = 1
    MaxSize = 3
    MaxEvents = 4
    Setting <- MCSetting
    Listener = Listener
    None = None
INVARIANTS
    TypeOK
    NothingPassedOver
    PublishNeverBlocks
PROPERTIES
    CatchesUp
CHECK_DEADLOCK FALSE
