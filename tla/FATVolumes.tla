----------------------------- MODULE FATVolumes -----------------------------
(***************************************************************************)
(* A FAT volume seen through FATFilesystem, the FATMetadata and FATVolume  *)
(* it hands out, and FATTableParser: four places that derive the FAT type  *)
(* from a boot sector, two of which cache the sector at their first use.   *)
(* The sector on the disk may be rewritten meanwhile.                      *)
(***************************************************************************)
EXTENDS Integers

CONSTANTS
    FATBoots,           \* the boot sectors a disk may have
    UInt32,             \* 2^32
    SectorSize          \* the sector size of the reader

VARIABLES
    boot,               \* the boot sector on the disk
    fs,                 \* FATFilesystem: initialized_, bootSector_, fatType_
    parser,             \* FATTableParser: bootSectorLoaded_, bootSector_
    view                \* what each object last said of the volume

fatVars == <<boot, fs, parser, view>>

FAT12_MAX_CLUSTERS == 4085
FAT16_MAX_CLUSTERS == 65525

TotalSectors(b) == IF b.totalSectors16 # 0 THEN b.totalSectors16 ELSE b.totalSectors32

RootDirSectors(b) ==
    (b.rootEntryCount * 32 + b.bytesPerSector - 1) \div b.bytesPerSector

TypeOfClusters(n) ==
    IF n < FAT12_MAX_CLUSTERS THEN "FAT12" ELSE IF n < FAT16_MAX_CLUSTERS THEN "FAT16" ELSE "FAT32"

SizeKnown(b) == b.fatCount = 2 /\ b.sectorsPerFat16 # 0

(* FATs of a FAT32 volume, or other than two, count as empty here.         *)
FatsSize(b) == IF SizeKnown(b) THEN b.fatCount * b.sectorsPerFat16 ELSE 0

DataSectors(b) ==
    (TotalSectors(b) - (b.reservedSectorCount + FatsSize(b) + RootDirSectors(b))) % UInt32

(* A zero divisor ends the process.                                        *)
Traps(b) == b.bytesPerSector = 0 \/ b.sectorsPerCluster = 0

FilesystemType(b) == TypeOfClusters(DataSectors(b) \div b.sectorsPerCluster)

(* Wrong variant: the boundary to FAT16 belongs to FAT12.                     *)
MetadataTypeAtMost(b) ==
    IF DataSectors(b) \div b.sectorsPerCluster <= FAT12_MAX_CLUSTERS THEN "FAT12"
    ELSE FilesystemType(b)

(* FATMetadata::initialize and FATVolume::getFilesystemType repeat it.     *)
MetadataType(b) ==
    TypeOfClusters(DataSectors(b) \div b.sectorsPerCluster)
VolumeType(b) == TypeOfClusters(DataSectors(b) \div b.sectorsPerCluster)

(* The parser divides all of a FAT32 volume's data area among its FATs.    *)
GetSectorsPerFat(b) ==
    IF SizeKnown(b) THEN b.sectorsPerFat16
    ELSE ((TotalSectors(b) - (b.reservedSectorCount + RootDirSectors(b))) % UInt32) \div b.fatCount

ParserDataSectors(b) ==
    (TotalSectors(b) - (b.reservedSectorCount + GetSectorsPerFat(b) * b.fatCount
                        + RootDirSectors(b))) % UInt32

GetClusterCount(b) == (ParserDataSectors(b) \div b.sectorsPerCluster + 2) % UInt32

ParserTraps(b) == Traps(b) \/ (~SizeKnown(b) /\ b.fatCount = 0)

ParserType(b) == TypeOfClusters(ParserDataSectors(b) \div b.sectorsPerCluster)

(* calculateFatParameters repeats getSectorsPerFat, getClusterCount and    *)
(* getFatType for the table it builds.                                     *)
CalculateFatParameters(b) ==
    LET size == GetSectorsPerFat(b)
        data == (TotalSectors(b) - (b.reservedSectorCount + size * b.fatCount
                                    + RootDirSectors(b))) % UInt32
    IN [sectorsPerFat |-> size, clusterCount |-> (data \div b.sectorsPerCluster + 2) % UInt32,
        type |-> TypeOfClusters(data \div b.sectorsPerCluster)]

PowersOf2 == {1, 2, 4, 8, 16, 32, 64, 128}

IsValid(b) ==
    /\ b.signature510
    /\ b.bytesPerSector \in {512, 1024, 2048, 4096}
    /\ b.sectorsPerCluster \in PowersOf2
    /\ b.reservedSectorCount >= 1
    /\ b.fatCount \in 1..10
    /\ b.rootEntryCount # 0
    /\ b.totalSectors16 # 0 \/ b.totalSectors32 # 0

VolumeSize(b) == TotalSectors(b) * SectorSize

(* The last byte of the volume; of an empty one at offset 0, 0.            *)
GetEndOffset(b, start) ==
    IF start = 0 /\ VolumeSize(b) = 0 THEN 0 ELSE start + VolumeSize(b) - 1

MetadataTotalSize(b) == TotalSectors(b) * b.bytesPerSector
GetBlockCount(b) == TotalSectors(b)

-----------------------------------------------------------------------------
None == [none |-> TRUE]
NoView == [filesystem |-> None, metadata |-> None, volume |-> None, parser |-> None]
Fresh == [loaded |-> FALSE, boot |-> None]

FATInit(boots) ==
    /\ boot \in boots
    /\ fs = Fresh
    /\ parser = Fresh
    /\ view = NoView

(* The process is gone and started again: the objects are new ones.        *)
Crash ==
    /\ fs' = Fresh
    /\ parser' = Fresh
    /\ view' = NoView
    /\ UNCHANGED boot

(* Wrong variant: the signature is not checked.                               *)
InitializedUnchecked == TRUE

(* initialize() runs at the first use that reads a sector with a signature *)
(* and then never again.  The call throws otherwise.  It has room for 512  *)
(* bytes of a sector: a larger one overruns it, and the process may die.   *)
Initialized == fs.loaded \/ boot.signature510
InUse == IF fs.loaded THEN fs.boot ELSE boot

BootSectorRoom == 512

UseFilesystem(object, says) ==
    \E survives \in BOOLEAN :
        /\ fs.loaded \/ SectorSize <= BootSectorRoom => survives
        /\ survives => Initialized
        /\ IF ~survives \/ Traps(InUse) THEN Crash
           ELSE /\ fs' = [loaded |-> TRUE, boot |-> InUse]
                /\ view' = [view EXCEPT ![object] = says]
                /\ UNCHANGED <<boot, parser>>

GetType == UseFilesystem("filesystem", [type |-> FilesystemType(InUse)])

(* getMetadata serves the cached sector through a reader of its own, which *)
(* needs sectors of 512 bytes.                                             *)
GetMetadata ==
    SectorSize >= 512 /\
    UseFilesystem("metadata",
        [type |-> MetadataType(InUse), size |-> MetadataTotalSize(InUse),
         blocks |-> GetBlockCount(InUse)])

GetVolume ==
    UseFilesystem("volume",
        [type |-> VolumeType(InUse), size |-> VolumeSize(InUse),
         end |-> GetEndOffset(InUse, 0), valid |-> IsValid(InUse)])

(* The parser keeps the first sector it reads, signature or not; what it   *)
(* makes of it is computed again at every call.  FATTable refuses a table  *)
(* without sectors or clusters.                                            *)
LoadBootSector(b) ==
    /\ b = IF parser.loaded THEN parser.boot ELSE boot
    /\ parser' = [loaded |-> TRUE, boot |-> b]

TableRefused(p) == p.sectorsPerFat = 0 \/ p.clusterCount < 2

ParseFatTable ==
    \E b \in FATBoots :
        \/ /\ ~b.signature510 \/ (~ParserTraps(b) /\ TableRefused(CalculateFatParameters(b)))
           /\ LoadBootSector(b)
           /\ UNCHANGED <<boot, fs, view>>
        \/ /\ b.signature510 /\ ~ParserTraps(b) /\ ~TableRefused(CalculateFatParameters(b))
           /\ LoadBootSector(b)
           /\ view' = [view EXCEPT !.parser = CalculateFatParameters(b)]
           /\ UNCHANGED <<boot, fs>>
        \/ /\ b.signature510 /\ ParserTraps(b)
           /\ b = IF parser.loaded THEN parser.boot ELSE boot
           /\ Crash

AskParser ==
    \E b \in FATBoots :
        /\ b = IF parser.loaded THEN parser.boot ELSE boot
        /\ IF ParserTraps(b) THEN Crash
           ELSE /\ LoadBootSector(b)
                /\ view' = [view EXCEPT !.parser =
                              [sectorsPerFat |-> GetSectorsPerFat(b),
                               clusterCount |-> GetClusterCount(b), type |-> ParserType(b)]]
                /\ UNCHANGED <<boot, fs>>

(* Another program writes the sector, to repair or to format the volume.   *)
WriteBootSector(b) ==
    /\ boot' = b
    /\ UNCHANGED <<fs, parser, view>>

FATNext ==
    \/ GetType \/ GetMetadata \/ GetVolume
    \/ ParseFatTable \/ AskParser
    \/ \E b \in FATBoots : WriteBootSector(b)

-----------------------------------------------------------------------------
(* The four derivations of a FAT volume agree, although the sector may be  *)
(* rewritten between their uses: the filesystem, its metadata and its      *)
(* volume name the same type; the parser names it too whenever it cached   *)
(* the same sector and the FAT size is the 16-bit one; a valid volume has  *)
(* bytes, the last of which lies inside the size the metadata reports if   *)
(* both use the same sector size (FATFilesystem.cpp:177-220, FATMetadata.  *)
(* cpp:150-183, FATVolume.cpp:27-75, FATTableParser.cpp:45-176).           *)
Says(object) == view[object] # None

FATViewsAgree ==
    /\ Says("filesystem") /\ Says("metadata") => view.filesystem.type = view.metadata.type
    /\ Says("metadata") /\ Says("volume") =>
          /\ view.metadata.type = view.volume.type
          /\ view.volume.valid => view.volume.end < view.volume.size /\ view.metadata.blocks > 0
          /\ fs.boot.bytesPerSector = SectorSize => view.volume.size = view.metadata.size
    /\ (Says("volume") /\ Says("parser") /\ parser.boot = fs.boot /\ SizeKnown(fs.boot)) =>
          view.parser.type = view.volume.type
=============================================================================
