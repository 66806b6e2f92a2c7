SPECIFICATION FairSpec
CONSTANTS
    Clients = {c1, c2}
    Bufs = {b1, b2, b3, b4}
    NoBuf = NoBuf
    Conns = 4
    Size = 3
    BufLen = 2
    MaxReq = 5
INVARIANTS BufsUnshared BufAtHand Watched StoredInOrder
PROPERTY RequestsSettle
