SPECIFICATION MetaSpec
CONSTANTS
    NoHash = NoHash
    Hash = {h1}
    Fid = {1, 2, 3}
    Index = {0, 1, 2}
    BNum = {1, 2}
    DS = {d1, d2}
CONSTRAINT Bound
SYMMETRY Sym
INVARIANTS MetaTypeOK OneFilePerHash NoOrphanRows FinishedNumSound FinishedMeansComplete
