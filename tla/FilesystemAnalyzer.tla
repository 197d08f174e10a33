------------------------- MODULE FilesystemAnalyzer -------------------------
(***************************************************************************)
(* FilesystemAnalyzer, and the DiskReaderAdapter through which it lets the *)
(* FAT and NTFS metadata classes read the boot sector once more.  It keeps *)
(* the start sector of the call in a member, which its range check and the *)
(* adapter use.                                                            *)
(***************************************************************************)
EXTENDS DiskReading, OperationValidation

IsSectorRangeValid(device, startSector_, numSectors) ==
    /\ device.present
    /\ numSectors # 0
    /\ startSector_ <= UInt64 - 1 - numSectors
    /\ startSector_ < device.total
    /\ startSector_ + numSectors <= device.total

DetectFilesystemType(boot, size) ==
    IF size >= 512 /\ boot.signature
    THEN IF boot.bytesPerSector # 512 \/ (boot.rootEntryCount = 0 /\ FatSize(boot) = 0) THEN "FAT"
         ELSE IF boot.rootEntryCount = 0 THEN "FAT32"
         ELSE IF boot.total < 4085 THEN "FAT12" ELSE "FAT16"
    ELSE IF size >= 1024 /\ boot.oemNTFS THEN "NTFS" ELSE ""

(* The sector the adapter turns sector 0 of the volume into.               *)
AdapterSector(device, startSector_) ==
    ((startSector_ * device.sectorSize) % UInt64) \div device.sectorSize

RootDirSectors(boot) ==
    (boot.rootEntryCount * 32 + boot.bytesPerSector - 1) \div boot.bytesPerSector

(* The boot sector alone.  A zero divisor ends the process; one is reached *)
(* only when the volume is larger than what precedes its data.             *)
AnalyzeFatFromBootSector(device, boot) ==
    IF device.sectorSize < 512 \/ ~boot.signature THEN "false"
    ELSE IF boot.bytesPerSector = 0 THEN "trap"
    ELSE IF /\ boot.sectorsPerCluster = 0
            /\ boot.total > boot.reserved + boot.fatCount * FatSize(boot) + RootDirSectors(boot)
    THEN "trap" ELSE "true"

AnalyzeNtfsFromBootSector(device, boot) ==
    IF device.sectorSize >= 1024 /\ boot.oemNTFS THEN "true" ELSE "false"

(* FATMetadata's constructor throws when the sector it reads again is not  *)
(* delivered, too small or unmarked; the boot sector already in hand is    *)
(* then analyzed.                                                          *)
AnalyzeFatFilesystem(device, startSector_, boot, again) ==
    LET volume == Sector(device, AdapterSector(device, startSector_), again)
    IN IF ~Delivers(again) \/ device.sectorSize < 512 \/ ~volume.signature
       THEN AnalyzeFatFromBootSector(device, boot)
       ELSE IF volume.bytesPerSector = 0 \/ volume.sectorsPerCluster = 0 THEN "trap" ELSE "true"

(* NTFSMetadata answers with defaults when a read fails.                   *)
AnalyzeNtfsFilesystem(device, startSector_, boot, again) ==
    IF again = "throws" THEN AnalyzeNtfsFromBootSector(device, boot) ELSE "true"

(* Both operations; only what they take the type from differs.             *)
Analysis(device, registry, failing, startSector_, numSectors, read, again, typeOf) ==
    IF \/ ~ValidationPassed(ValidateOperation(registry, {"FILESYSTEM_ANALYSIS"}, failing))
       \/ ~IsSectorRangeValid(device, startSector_, numSectors)
       \/ device.sectorSize = 0
    THEN NoAnswer
    ELSE LET boot == Sector(device, startSector_, read)
             type == IF typeOf = "detected" THEN DetectFilesystemType(boot, device.sectorSize)
                     ELSE typeOf
             twice == Delivers(read) /\ type \in {"FAT12", "FAT16", "FAT32", "NTFS"}
         IN [NoAnswer EXCEPT
                !.reads = {[from |-> startSector_, count |-> 1]}
                          \cup IF twice THEN {[from |-> AdapterSector(device, startSector_), count |-> 1]}
                               ELSE {},
                !.type = IF Delivers(read) THEN type ELSE "",
                !.result = IF ~Delivers(read) THEN Failure(read)
                           ELSE IF ~twice THEN "false"
                           ELSE IF type = "NTFS"
                           THEN AnalyzeNtfsFilesystem(device, startSector_, boot, again)
                           ELSE AnalyzeFatFilesystem(device, startSector_, boot, again)]

AnalyzeFilesystem(device, registry, failing, startSector_, numSectors, read, again) ==
    Analysis(device, registry, failing, startSector_, numSectors, read, again, "detected")

(* The caller's word is taken for the type.                                *)
GetFilesystemInfo(device, registry, failing, startSector_, numSectors, read, again, filesystemType) ==
    Analysis(device, registry, failing, startSector_, numSectors, read, again, filesystemType)

=============================================================================
