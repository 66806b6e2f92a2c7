SPECIFICATION ClusterSpec
CONSTANTS
    NoHash = NoHash
    Hash = {h1}
    Fid = {1}
    Index = {0}
    DS = {d1, d2}
    BNum = {1}
    Copies = 2
    PageSize = 3
    MaxUpload = 2
    MaxDelete = 1
    MaxFault = 1
    MaxQueue = 2
CONSTRAINT Bound
SYMMETRY Sym
INVARIANTS LiveRowHasBlock
PROPERTIES MetaSpec StrandedOnlyBySession
