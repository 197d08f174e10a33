----------------------------- MODULE DiskLayout -----------------------------
(***************************************************************************)
(* What the suite makes of a disk before any recovery: its partition       *)
(* tables, the driver its boot sector gets, and the FAT or NTFS volume.    *)
(* No operation of one of the four parts reads the state of another, so a  *)
(* behaviour is about one of them and the parts add up instead of          *)
(* multiplying.                                                            *)
(***************************************************************************)
EXTENDS PartitionTables, FilesystemRegistry

CONSTANTS FATBoots, SectorSize, NTFSBoots

(* A boot sector is the numbers in its fields.  Smaller sectors than 512   *)
(* bytes have no room for one; an NTFS boot sector is a sector of its disk.*)
ASSUME VolumesAssumption ==
    /\ SectorSize \in Nat /\ SectorSize >= 512
    /\ FATBoots # {}
    /\ FATBoots \subseteq
          [bytesPerSector : Nat, sectorsPerCluster : Nat, reservedSectorCount : Nat,
           fatCount : Nat, rootEntryCount : Nat, totalSectors16 : Nat, totalSectors32 : Nat,
           sectorsPerFat16 : Nat, signature510 : BOOLEAN]
    /\ NTFSBoots # {}
    /\ \A b \in NTFSBoots : b.total64 \in Nat /\ b.total32 \in Nat /\ b.size = SectorSize

VARIABLES
    part,               \* the part this behaviour is about
    boot, fs, parser, view,
    ntfsBoot, said

FAT == INSTANCE FATVolumes
NTFS == INSTANCE NTFSVolumes WITH NTFSSectorSize <- SectorSize

fatVars == <<boot, fs, parser, view>>
ntfsVars == <<ntfsBoot, said>>
vars == <<part, partitionVars, registryVars, fatVars, ntfsVars>>

Parts == {"partitions", "registry", "fat", "ntfs"}

(* The disk a behaviour is about is any of its part's disks; for the other *)
(* parts one will do.                                                      *)
Some(S, p) == IF part = p THEN S ELSE {CHOOSE x \in S : TRUE}

Init ==
    /\ part \in Parts
    /\ PartitionInit(Some(Layouts, "partitions"))
    /\ RegistryInit
    /\ FAT!FATInit(Some(FATBoots, "fat"))
    /\ NTFS!NTFSInit(Some(NTFSBoots, "ntfs"))

Next ==
    /\ part' = part
    /\ \/ /\ part = "partitions"
          /\ PartitionNext
          /\ UNCHANGED <<registryVars, fatVars, ntfsVars>>
       \/ /\ part = "registry"
          /\ RegistryNext
          /\ UNCHANGED <<partitionVars, fatVars, ntfsVars>>
       \/ /\ part = "fat"
          /\ FAT!FATNext
          /\ UNCHANGED <<partitionVars, registryVars, ntfsVars>>
       \/ /\ part = "ntfs"
          /\ NTFS!NTFSNext
          /\ UNCHANGED <<partitionVars, registryVars, fatVars>>

Spec == Init /\ [][Next]_vars

-----------------------------------------------------------------------------
(* Every variable keeps the shape its class declares; the cached sectors   *)
(* and the header in use are ones that were on the disk.                   *)
TypeOK ==
    /\ layout \in Layouts
    /\ open \in BOOLEAN /\ refused \in BOOLEAN
    /\ step \in {"idle", "mbr", "primary", "backup", "array"}
    /\ header \in {NoHeader, layout.primary, layout.backup}
    /\ drivers \in Seq(Drivers)
    /\ detected.driver \in Drivers \cup {"none"}
    /\ fs.loaded => fs.boot \in FATBoots /\ fs.boot.signature510
    /\ parser.loaded => parser.boot \in FATBoots

FATViewsAgree == FAT!FATViewsAgree

(* The verdicts on one NTFS boot sector agree across the driver, the       *)
(* analyzer and the volume, each with its own copy of the test and each    *)
(* with reads that may fail: what passes analysis is what the driver       *)
(* recognises and a valid volume; analysis, repair and error count do not  *)
(* contradict it, and a size that is known is the same for volume and      *)
(* metadata (NTFSDriver.cpp:42-73, NTFSAnalyzer.cpp:55-134, NTFSVolume.cpp:*)
(* 32-72, NTFSMetadata.cpp:88-155).                                        *)
NTFSViewsAgree ==
    /\ said.analyze => NTFSProbe(ntfsBoot) = 4 /\ NTFS!IsValidVolume(ntfsBoot)
    /\ NTFSProbe(ntfsBoot) = 0 => said.needsRepair /\ said.errorCount
    /\ ~said.needsRepair => ~NTFS!NeedsRepair(ntfsBoot, TRUE) /\ NTFSProbe(ntfsBoot) = 4
    /\ said.endOffset # 0 /\ said.totalSize # 0 => said.endOffset = said.totalSize
    /\ said.blockCount # 0 /\ said.totalSize # 0 =>
          said.blockCount * SectorSize = said.totalSize
=============================================================================
