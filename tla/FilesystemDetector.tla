------------------------- MODULE FilesystemDetector -------------------------
(***************************************************************************)
(* FilesystemDetector: which filesystem the first sector of a range        *)
(* carries.                                                                *)
(***************************************************************************)
EXTENDS DiskReading, OperationValidation

(* The disk's size is not consulted.                                       *)
IsSectorRangeValid(startSector, numSectors) == numSectors # 0

(* The mark 55 AA is taken for FAT before the NTFS name is looked at, and  *)
(* the name counts only in sectors of 1 KiB and more.                      *)
DetectFilesystemType(boot, size) ==
    IF size >= 512 /\ boot.signature
    THEN IF boot.bytesPerSector # 512 \/ (boot.rootEntryCount = 0 /\ FatSize(boot) = 0) THEN "FAT"
         ELSE IF boot.rootEntryCount = 0 THEN "FAT32"
         ELSE IF boot.total < 4085 THEN "FAT12" ELSE "FAT16"
    ELSE IF size >= 1024 /\ boot.oemNTFS THEN "NTFS" ELSE ""

DetectFilesystems(device, registry, failing, startSector, numSectors, read) ==
    IF \/ ~ValidationPassed(ValidateOperation(registry, {"FILESYSTEM_DETECTION"}, failing))
       \/ ~device.present
       \/ ~IsSectorRangeValid(startSector, numSectors)
       \/ device.sectorSize = 0
    THEN NoAnswer
    ELSE LET tried == [NoAnswer EXCEPT !.reads = {[from |-> startSector, count |-> 1]}]
             type == DetectFilesystemType(Sector(device, startSector, read), device.sectorSize)
         IN IF ~Delivers(read) THEN [tried EXCEPT !.result = Failure(read)]
            ELSE [tried EXCEPT !.result = IF type = "" THEN "false" ELSE "true", !.type = type]

=============================================================================
