SPECIFICATION FairSpec
CONSTANTS
    N = 2
    MaxPid = 4
    MaxConn = 2
    MaxCrash = 2
    MaxFault = 1
INVARIANTS OneAcceptor
PROPERTIES LockMoves CrashReplaced ClientsAccepted QuitEnds
CHECK_DEADLOCK FALSE
