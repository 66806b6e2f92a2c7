SPECIFICATION StoreSpec
CONSTANTS
    Block = {b1, b2, b3}
    NoBlock = NoBlock
    N = 3
    MaxCrash = 3
    MaxFail = 0
    MaxPower = 0
SYMMETRY Sym
INVARIANTS Acknowledged CountDrift
PROPERTY StoreKeepsPromise
CHECK_DEADLOCK FALSE
