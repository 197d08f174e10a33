---------------------------- MODULE NTFSVolumes ----------------------------
(***************************************************************************)
(* An NTFS volume seen through NTFSAnalyzer, NTFSVolume and NTFSMetadata.  *)
(* None of them keeps anything: each call reads the boot sector again, and *)
(* each read may come up short.                                            *)
(***************************************************************************)
EXTENDS Integers

CONSTANT NTFSSectorSize

VARIABLES ntfsBoot, said

ntfsVars == <<ntfsBoot, said>>

BootSectorSize == 499

PowersOf2 == {1, 2, 4, 8, 16, 32, 64, 128, 256, 512, 1024, 2048, 4096}

(* Wrong variant: the analyzer takes every sector size from 256 to 4096.      *)
AnySectorSize(b) ==
    /\ b.size >= BootSectorSize
    /\ b.oemNTFS
    /\ b.bytesPerSector \in 256..4096
    /\ b.sectorsPerCluster \in PowersOf2 /\ b.sectorsPerCluster <= 128
    /\ b.signature497

(* NTFSAnalyzer's copy of the driver's test of a boot sector.              *)
ValidateBootSector_impl(b) ==
    /\ b.size >= BootSectorSize
    /\ b.oemNTFS
    /\ b.bytesPerSector \in PowersOf2 /\ b.bytesPerSector >= 256
    /\ b.sectorsPerCluster \in PowersOf2 /\ b.sectorsPerCluster <= 128
    /\ b.signature497

(* NTFSVolume looks at the two marks only.                                 *)
IsValidVolume(b) == b.oemNTFS /\ b.signature497

TotalSectorsOf(b) == IF b.total64 # 0 THEN b.total64 ELSE b.total32

(* validateMFT always passes and checkForCorruption never finds any.       *)
Analyze(b, read) == read /\ ValidateBootSector_impl(b)
NeedsRepair(b, read) == ~(read /\ ValidateBootSector_impl(b))
GetErrorCount(b, read) == IF read /\ ValidateBootSector_impl(b) THEN 0 ELSE 1

GetSize(b, read) == IF read THEN TotalSectorsOf(b) * NTFSSectorSize ELSE 0
GetEndOffset(b, read) == GetSize(b, read)
GetTotalSize(b, read) == IF read THEN TotalSectorsOf(b) * NTFSSectorSize ELSE 0
GetBlockCount(b, read) == GetTotalSize(b, read) \div NTFSSectorSize

Answer(op, b, read) ==
    CASE op = "analyze" -> Analyze(b, read)
      [] op = "needsRepair" -> NeedsRepair(b, read)
      [] op = "errorCount" -> GetErrorCount(b, read) > 0
      [] op = "isValid" -> read /\ IsValidVolume(b)
      [] op = "endOffset" -> GetEndOffset(b, read)
      [] op = "totalSize" -> GetTotalSize(b, read)
      [] op = "blockCount" -> GetBlockCount(b, read)

Verdicts == {"analyze", "needsRepair", "errorCount", "isValid"}
Ops == Verdicts \cup {"endOffset", "totalSize", "blockCount"}

NTFSInit(boots) ==
    /\ ntfsBoot \in boots
    /\ said = [op \in Ops |-> IF op \in {"needsRepair", "errorCount"} THEN TRUE
                              ELSE IF op \in Verdicts THEN FALSE ELSE 0]

AskVolume(op) ==
    \E read \in BOOLEAN :
        /\ said' = [said EXCEPT ![op] = Answer(op, ntfsBoot, read)]
        /\ UNCHANGED ntfsBoot

NTFSNext == \E op \in Ops : AskVolume(op)
=============================================================================
