---------------------------- MODULE FileRecovery ----------------------------
(***************************************************************************)
(* FileRecovery: the files of the filesystem at the start of a range,      *)
(* after its metadata, through a MetadataRecovery of its own; and one file *)
(* named by its first sector and size.                                     *)
(***************************************************************************)
EXTENDS DiskReading, OperationValidation

Metadata == INSTANCE MetadataRecovery

IsSectorRangeValid(device, startSector, numSectors) ==
    /\ device.present
    /\ numSectors # 0
    /\ startSector <= UInt64 - 1 - numSectors
    /\ startSector < device.total
    /\ startSector + numSectors <= device.total

DetectFilesystemType(boot, size) ==
    IF size >= 512 /\ boot.signature
    THEN IF boot.bytesPerSector # 512 \/ (boot.rootEntryCount = 0 /\ FatSize(boot) = 0) THEN "FAT"
         ELSE IF boot.rootEntryCount = 0 THEN "FAT32"
         ELSE IF boot.total < 4085 THEN "FAT12" ELSE "FAT16"
    ELSE IF size >= 1024 /\ boot.oemNTFS THEN "NTFS" ELSE ""

(* Two made-up files stand for what a volume holds.                        *)
RecoverFatFiles(device) == IF device.sectorSize < 512 THEN {} ELSE {<<"README.TXT", 0>>, <<"BINARY.BIN", 0>>}
RecoverNtfsFiles(device) == IF device.sectorSize < 1024 THEN {} ELSE {<<"README.TXT", 0>>, <<"BINARY.BIN", 0>>}

(* The gate is passed twice, for two capabilities, and the boot sector     *)
(* read twice; the type of the first read decides what is recovered, that  *)
(* of the second whether the metadata is.                                  *)
RecoverFiles(device, registry, failing, startSector, numSectors, read, again) ==
    IF \/ ~ValidationPassed(ValidateOperation(registry, {"FILE_RECOVERY"}, failing))
       \/ ~IsSectorRangeValid(device, startSector, numSectors)
       \/ device.sectorSize = 0
    THEN NoAnswer
    ELSE LET type == DetectFilesystemType(Sector(device, startSector, read), device.sectorSize)
             metadata == Metadata!RecoverMetadata(device, registry, failing, startSector, numSectors, again)
             tried == [NoAnswer EXCEPT !.reads = {[from |-> startSector, count |-> 1]}]
         IN IF ~Delivers(read) THEN [tried EXCEPT !.result = Failure(read)]
            ELSE IF type \notin {"FAT12", "FAT16", "FAT32", "NTFS"} THEN [tried EXCEPT !.type = type]
            ELSE IF metadata.result # "true"
            THEN [tried EXCEPT !.type = type, !.reads = @ \cup metadata.reads,
                               !.result = metadata.result]
            ELSE [tried EXCEPT !.type = type, !.reads = @ \cup metadata.reads, !.result = "true",
                               !.pieces = IF type = "NTFS" THEN RecoverNtfsFiles(device)
                                          ELSE RecoverFatFiles(device)]

(* The range is checked in sectors of 512 bytes, the read made in the      *)
(* disk's sectors.  The bytes of the file are then copied whatever the     *)
(* reader left of the buffer: one that came up short may have shrunk it,   *)
(* and the process may not survive the copy.                               *)
RecoverFile(device, registry, failing, fileStartSector, fileSizeInBytes, read, survives) ==
    IF \/ ~ValidationPassed(ValidateOperation(registry, {"FILE_RECOVERY"}, failing))
       \/ ~IsSectorRangeValid(device, fileStartSector, ((fileSizeInBytes + 511) % UInt64) \div 512)
       \/ device.sectorSize = 0
    THEN NoAnswer
    ELSE LET sectorsRequired == (fileSizeInBytes + device.sectorSize - 1) \div device.sectorSize
             tried == [NoAnswer EXCEPT !.reads = {[from |-> fileStartSector, count |-> sectorsRequired]}]
         IN IF ~Delivers(read) THEN [tried EXCEPT !.result = Failure(read)]
            ELSE IF read = "short" /\ ~survives THEN [tried EXCEPT !.result = "trap"]
            ELSE [tried EXCEPT !.result = "true", !.bytes = fileSizeInBytes]

=============================================================================
