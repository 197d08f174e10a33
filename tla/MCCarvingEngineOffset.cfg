CONSTANTS
    Disks <- MCDisks
    SectorBytes = 4
    ChunkBytes = 12
SPECIFICATION Spec
INVARIANT SignatureBased
