SPECIFICATION ClusterFairSpec
CONSTANTS
    NoHash = NoHash
    Hash = {h1}
    Fid = {1}
    Index = {0}
    DS = {d1, d2}
    BNum = {1}
    Copies = 2
    PageSize = 10
    MaxUpload = 1
    MaxDelete = 2
    MaxFault = 0
    MaxQueue = 2
CONSTRAINT Bound
PROPERTIES MarkedRowGoes
