SPECIFICATION MemSpec
CONSTANTS
    InitPages = 1
    Size = {16, 992, 2736, 3073}
    MaxLive = 3
    MaxPages = 2
INVARIANTS Tiled ListsExact LiveApart NeverCrossed
