SPECIFICATION Spec
CONSTANTS
    s1 = s1
    u1 = u1
    w1 = w1
    disk = disk
    s3 = s3
    alias = alias
    w2 = w2
    NoPlace = NoPlace
    Places = {disk, s3, alias}
    Local = disk
    Stores = {"disk", "bucket"}
    At <- MCAt
    NumBlobs = 1
    PageSize = 1
    Servers = {s1}
    Uploads = {u1}
    Workers = {w1, w2}
    Damages = {"short", "none"}
    SlowRecords = FALSE
    LateDeletes = FALSE
    MaxVersion = 4
    MaxFaults = 1
INVARIANTS TypeOK NothingLost
SYMMETRY MCSymmetry
CHECK_DEADLOCK FALSE
