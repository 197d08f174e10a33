------------------------- MODULE MCRecoveryClients -------------------------
(* Small disks for RecoveryClients: 4 sectors, with boot sectors of every  *)
(* type in the first two, in sectors of 0 to 2048 bytes; on one the FATs   *)
(* behind them are damaged.                                                *)
EXTENDS RecoveryClients, TLC

Boot(bps, spc, roots, total, size16, size32) ==
    [signature |-> TRUE, oemNTFS |-> FALSE, bytesPerSector |-> bps, sectorsPerCluster |-> spc,
     reserved |-> 1, fatCount |-> 2, rootEntryCount |-> roots, total |-> total,
     fatSize16 |-> size16, fatSize32 |-> size32]

FAT12 == Boot(512, 1, 16, 4084, 12, 0)
FAT16 == Boot(512, 4, 16, 4085, 12, 0)
FAT32 == Boot(512, 8, 0, 70000, 0, 600)
FAT32By16 == Boot(512, 8, 0, 70000, 600, 0)
OddSectors == Boot(1024, 1, 16, 9000, 12, 0)
NoFAT == Boot(512, 1, 0, 9000, 0, 0)
NoClusters == Boot(512, 0, 16, 9000, 12, 0)
TinyVolume == Boot(512, 0, 16, 3, 12, 0)
NoSectors == Boot(0, 1, 16, 9000, 12, 0)

(* An NTFS boot sector, with its end mark as NTFSDriver wants it, and one  *)
(* whose end mark is gone.                                                 *)
NTFS == [Boot(512, 8, 0, 0, 0, 128) EXCEPT !.oemNTFS = TRUE]
NTFSUnmarked == [NTFS EXCEPT !.signature = FALSE]

Disk(size, b0, b1) ==
    [present |-> TRUE, sectorSize |-> size, total |-> 4, boots |-> <<b1>> @@ (0 :> b0),
     fatsIntact |-> TRUE]

MCDevices ==
    {Disk(512, FAT12, FAT16), [Disk(512, FAT12, FAT32) EXCEPT !.fatsIntact = FALSE],
     Disk(512, FAT32, FAT32By16), Disk(512, OddSectors, NoFAT),
     Disk(512, NoClusters, TinyVolume), Disk(512, NoSectors, NTFSUnmarked),
     Disk(2048, NTFS, NTFSUnmarked), Disk(2048, FAT32By16, FAT12), Disk(256, FAT16, FAT16),
     Disk(0, FAT16, FAT16), [Disk(512, FAT16, FAT16) EXCEPT !.present = FALSE]}

(* All capabilities, and the one that file recovery needs besides its own. *)
MCMasks ==
    {{"FILESYSTEM_DETECTION", "FILESYSTEM_ANALYSIS", "METADATA_RECOVERY",
      "FILE_RECOVERY", "CARVING", "OUTPUT_EXPORT"},
     {"METADATA_RECOVERY"}}
MCFailingSets == {{}, {"INVALID_SOURCE_RANGES"}}
MCExports == {<<>>, <<1, 511, 512>>, <<511, 513>>, <<1000, 24>>, <<513, 1023, 512>>}
MCRanges == {<<0, 2>>, <<3, 2>>}
MCTyped == {<<0, 0>>, <<1, 3>>, <<1, 4>>, <<4, 1>>, <<1, -1>>, <<-2, 5>>, <<65536, 1>>}
=============================================================================
