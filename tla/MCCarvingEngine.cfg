CONSTANTS
    Disks <- MCDisks
    SectorBytes = 4
    ChunkBytes = 12
SPECIFICATION Spec
INVARIANTS
    TypeOK
    FilesAreWellFormed
    DisjointFiles
    NothingMissed
    HonestResult
PROPERTIES
    NothingOverwritten
    CallReturns
