-------------------------- MODULE MetadataRecovery --------------------------
(***************************************************************************)
(* MetadataRecovery: the FAT copies and root directory, or the MFT, of the *)
(* filesystem at the start of a range; and any bytes of the disk named by  *)
(* an offset.                                                              *)
(***************************************************************************)
EXTENDS DiskReading, OperationValidation

IsSectorRangeValid(device, startSector, numSectors) ==
    /\ device.present
    /\ numSectors # 0
    /\ startSector <= UInt64 - 1 - numSectors
    /\ startSector < device.total
    /\ startSector + numSectors <= device.total

(* Wrong variant: a FAT32 volume is told by its 32-bit FAT size only.         *)
DetectBySize32(boot, size) ==
    IF size >= 512 /\ boot.signature
    THEN IF boot.bytesPerSector # 512 \/ (boot.rootEntryCount = 0 /\ boot.fatSize32 = 0) THEN "FAT"
         ELSE IF boot.rootEntryCount = 0 THEN "FAT32"
         ELSE IF boot.total < 4085 THEN "FAT12" ELSE "FAT16"
    ELSE IF size >= 1024 /\ boot.oemNTFS THEN "NTFS" ELSE ""

DetectFilesystemType(boot, size) ==
    IF size >= 512 /\ boot.signature
    THEN IF boot.bytesPerSector # 512 \/ (boot.rootEntryCount = 0 /\ FatSize(boot) = 0) THEN "FAT"
         ELSE IF boot.rootEntryCount = 0 THEN "FAT32"
         ELSE IF boot.total < 4085 THEN "FAT12" ELSE "FAT16"
    ELSE IF size >= 1024 /\ boot.oemNTFS THEN "NTFS" ELSE ""

(* The pieces are named and made up, not read: one FAT a copy, the root    *)
(* directory when its size is fixed.                                       *)
RecoverFatTables(device, boot) ==
    LET fatType == IF boot.rootEntryCount = 0
                   THEN IF FatSize(boot) > 0 THEN "FAT32" ELSE "FAT (Unknown)"
                   ELSE IF boot.total < 4085 THEN "FAT12" ELSE "FAT16"
    IN IF device.sectorSize < 512 \/ boot.bytesPerSector = 0 THEN {}
       ELSE {<<fatType, fatNum>> : fatNum \in 0..(boot.fatCount - 1)}
            \cup IF boot.rootEntryCount > 0 THEN {<<"RootDirectory", 0>>} ELSE {}

RecoverNtfsMft(device) ==
    IF device.sectorSize < 1024 THEN {} ELSE {<<"NTFS_MFT_Placeholder", 0>>, <<"NTFS_BootSector", 0>>}

RecoverMetadata(device, registry, failing, startSector, numSectors, read) ==
    IF \/ ~ValidationPassed(ValidateOperation(registry, {"METADATA_RECOVERY"}, failing))
       \/ ~IsSectorRangeValid(device, startSector, numSectors)
       \/ device.sectorSize = 0
    THEN NoAnswer
    ELSE LET boot == Sector(device, startSector, read)
             type == DetectFilesystemType(boot, device.sectorSize)
             tried == [NoAnswer EXCEPT !.reads = {[from |-> startSector, count |-> 1]}]
         IN IF ~Delivers(read) THEN [tried EXCEPT !.result = Failure(read)]
            ELSE IF type \in {"FAT12", "FAT16", "FAT32"}
            THEN [tried EXCEPT !.type = type, !.pieces = RecoverFatTables(device, boot),
                               !.result = IF boot.bytesPerSector = 0 THEN "false" ELSE "true"]
            ELSE IF type = "NTFS"
            THEN [tried EXCEPT !.type = type, !.pieces = RecoverNtfsMft(device), !.result = "true"]
            ELSE [tried EXCEPT !.type = type]

(* An offset counts 512-byte sectors from the start sector whatever the    *)
(* disk's sector size, the sum wraps, and the range of the call is not     *)
(* consulted.  The bytes are the first ones read.                          *)
RecoverMetadataType(device, registry, failing, startSector, offset, size, read) ==
    LET actualStartSector == (startSector + offset \div 512) % UInt64
        numSectorsNeeded == ((size + 511) % UInt64) \div 512
        totalBytes == numSectorsNeeded * device.sectorSize
        tried == [NoAnswer EXCEPT
                    !.reads = {[from |-> actualStartSector, count |-> numSectorsNeeded]}]
    IN IF \/ ~ValidationPassed(ValidateOperation(registry, {"METADATA_RECOVERY"}, failing))
          \/ ~IsSectorRangeValid(device, actualStartSector, numSectorsNeeded)
          \/ device.sectorSize = 0
       THEN NoAnswer
       ELSE IF ~Delivers(read) THEN [tried EXCEPT !.result = Failure(read)]
       ELSE [tried EXCEPT !.result = "true",
                          !.bytes = IF size < totalBytes THEN size ELSE totalBytes]

=============================================================================
