CONSTANTS
    ClusterCount = 5
    BytesPerSector = 4
    SectorsPerFat = 5
    Pointers = {0, 3, 4, 5}
    Marks = {8, 9}
    Starts = {1, 2, 5}
    DataStart = 10
    ClusterSectors = {1, 2}
    Offsets = {0, 4}
    Lengths = {4, 1000}
    UInt32 = 1002
SPECIFICATION FairSpec
INVARIANTS
    TypeOK
    ChainIsSimplePath
    VerdictIsReachability
    ReadFollowsChain
PROPERTY
    CallsReturn
