SPECIFICATION ClusterFairSpec
CONSTANTS
    NoHash = NoHash
    Hash = {h1}
    Fid = {1}
    Index = {0}
    DS = {d1, d2}
    BNum = {1}
    Copies = 2
    PageSize = 10
    MaxUpload = 2
    MaxDelete = 0
    MaxFault = 2
    MaxQueue = 2
PROPERTIES UnderReplicatedRepaired
