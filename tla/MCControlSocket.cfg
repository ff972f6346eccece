SPECIFICATION FairSpec
CONSTANTS
    d1 = d1
    d2 = d2
    Daemon = {d1, d2}
    c1 = c1
    Client = {c1}
    Overlap = FALSE
    Tcp = TRUE
    None = None
INVARIANTS
    SocketIsSound
PROPERTIES
    ServerRecovers
    StopIsCarriedOut
    ConnectionsEnd
CHECK_DEADLOCK FALSE
