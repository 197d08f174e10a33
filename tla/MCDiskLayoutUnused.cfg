SPECIFICATION Spec
CONSTANTS
    Layouts <- MCLayouts
    UInt32 = 1048576
    OtherDrivers = {"fat", "generic"}
    Claim <- MCClaim
    Supports <- MCSupports
    Confidence <- MCConfidence
    BootSectors <- MCBootSectors
    FATBoots <- MCFATBoots
    SectorSize = 512
    NTFSBoots <- MCNTFSBoots
INVARIANT
    UnusedEntriesIgnored
