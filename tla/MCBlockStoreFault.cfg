SPECIFICATION StoreSpec
CONSTANTS
    Block = {b1, b2}
    NoBlock = NoBlock
    N = 3
    MaxCrash = 1
    MaxFail = 2
    MaxPower = 2
SYMMETRY Sym
INVARIANTS StoreTypeOK MapsAgree
CHECK_DEADLOCK FALSE
