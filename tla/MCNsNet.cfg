SPECIFICATION FairSpec
CONSTANTS
    Net = {c1, c2}
    DS = {d1}
    Client = Client
    NoDS = NoDS
    NoNet = NoNet
    Ring = Ring
    Null = Null
    Listen = Listen
    MapSize = 2
    RbufLen = 3
    SbufLen = 1
    Overlap = TRUE
    MaxAccept = 3
    MaxMsg = 2
    MaxTorn = 1
    MaxCmd = 1
    MaxBlock = 1
    MaxFault = 1
INVARIANTS MapLive PoolSound DelayComplete WholeKept
PROPERTIES InputRead
