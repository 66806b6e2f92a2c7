SPECIFICATION ServerSpec
CONSTANTS
    Put = {p1, p2}
    Get = {g1}
    Segs = 2
    Null = Null
    Requests <- Ranges
    MaxObj = 3
    MaxStart = 2
    MaxDel = 1
    MaxFail = 1
    MaxDead = 1
    Unset = Unset
    Reg = Reg
    Beat = Beat
    MaxResult = 2
    MaxTurn = 2
INVARIANTS StoredWhenReported GetHonest SentInOrder
PROPERTIES GetEnds ResultsLeave SessionReturns
CHECK_DEADLOCK FALSE
