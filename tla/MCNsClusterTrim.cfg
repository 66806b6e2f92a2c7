SPECIFICATION ClusterSpec
CONSTANTS
    NoHash = NoHash
    Hash = {h1}
    Fid = {1}
    Index = {0}
    DS = {d1, d2, d3}
    BNum = {1}
    Copies = 1
    PageSize = 10
    MaxUpload = 2
    MaxDelete = 1
    MaxFault = 0
    MaxQueue = 2
CONSTRAINT Bound
PROPERTIES TrimKeepsCopies
