-------------------------- MODULE RecoveryEngines --------------------------
(***************************************************************************)
(* The recovery engines on one disk, driven through their public           *)
(* operations in any order, while capabilities come and go.  The registry  *)
(* and the analyzer's start sector are all they share or keep; a caller    *)
(* looks at each answer before it makes the next call.                     *)
(***************************************************************************)
EXTENDS DiskReading, OperationValidation

CONSTANTS
    Devices,            \* the disks: [present, sectorSize, total, boots, fatsIntact]
    Masks,              \* the capability masks registered and unregistered
    FailingSets,        \* what a caller may fail to vouch for
    Starts, Counts,     \* first sectors and lengths of ranges
    Offsets, Sizes,     \* byte offsets and lengths
    Exports             \* the pieces to export: sequences of lengths

VARIABLES
    device,             \* diskReader_
    registry,           \* registeredCapabilities_
    startSector,        \* FilesystemAnalyzer::startSector_
    detected,           \* the caller's note of its last successful detection
    last                \* the last call and its answer

engineVars == <<device, registry, startSector, detected, last>>

Detector == INSTANCE FilesystemDetector
Analyzer == INSTANCE FilesystemAnalyzer
Metadata == INSTANCE MetadataRecovery
Files == INSTANCE FileRecovery
Exporter == INSTANCE OutputExporter

NoCall == [op |-> "none"]

(* A call and its answer, with what the properties need of its arguments.  *)
Call(op, start, num, open, whole, answer) ==
    [op |-> op, start |-> start, num |-> num, open |-> open, whole |-> whole, answer |-> answer]

(* Every assurance is given and the capabilities needed are there.         *)
Open(failing, needed) == failing = {} /\ needed \subseteq registry

(* Of some disk, which whoever makes the engines chooses.                  *)
EnginesInit ==
    /\ registry = {}
    /\ startSector = 0
    /\ detected = [sector |-> 0, type |-> ""]
    /\ last = NoCall

-----------------------------------------------------------------------------
Register(mask) ==
    /\ registry' = RegisterCapability(registry, mask)
    /\ UNCHANGED <<device, startSector, detected, last>>

Unregister(mask) ==
    /\ registry' = UnregisterCapability(registry, mask)
    /\ UNCHANGED <<device, startSector, detected, last>>

Clear ==
    /\ registry' = ClearCapabilities
    /\ UNCHANGED <<device, startSector, detected, last>>

Detect(start, num, failing, read) ==
    LET answer == Detector!DetectFilesystems(device, registry, failing, start, num, read)
    IN /\ detected' = IF answer.result = "true" THEN [sector |-> start, type |-> answer.type]
                      ELSE detected
       /\ last' = Call("detect", start, num, Open(failing, {"FILESYSTEM_DETECTION"}), read = "ok", answer)
       /\ UNCHANGED <<device, registry, startSector>>

(* Wrong variant: the start sector is noted after the range was checked.      *)
AnalyzeBeforeNoting(start, num, failing, read, again) ==
    /\ startSector' = start
    /\ last' = Call("analyze", start, num, Open(failing, {"FILESYSTEM_ANALYSIS"}),
                    read = "ok" /\ again = "ok",
                    [Analyzer!AnalyzeFilesystem(device, registry, failing, startSector, num, read, again)
                     EXCEPT !.reads = {[r EXCEPT !.from = start] : r \in @}])
    /\ UNCHANGED <<device, registry, detected>>

Analyze(start, num, failing, read, again) ==
    /\ startSector' = start
    /\ last' = Call("analyze", start, num, Open(failing, {"FILESYSTEM_ANALYSIS"}),
                    read = "ok" /\ again = "ok",
                    Analyzer!AnalyzeFilesystem(device, registry, failing, startSector', num, read, again))
    /\ UNCHANGED <<device, registry, detected>>

GetInfo(start, num, failing, read, again, type) ==
    /\ startSector' = start
    /\ last' = Call("info", start, num, Open(failing, {"FILESYSTEM_ANALYSIS"}),
                    read = "ok" /\ again = "ok",
                    Analyzer!GetFilesystemInfo(device, registry, failing, startSector', num,
                                               read, again, type))
    /\ UNCHANGED <<device, registry, detected>>

RecoverMetadata(start, num, failing, read) ==
    /\ last' = Call("metadata", start, num, Open(failing, {"METADATA_RECOVERY"}), read = "ok",
                    Metadata!RecoverMetadata(device, registry, failing, start, num, read))
    /\ UNCHANGED <<device, registry, startSector, detected>>

RecoverFiles(start, num, failing, read, again) ==
    /\ last' = Call("files", start, num, Open(failing, {"FILE_RECOVERY", "METADATA_RECOVERY"}),
                    read = "ok" /\ again = "ok",
                    Files!RecoverFiles(device, registry, failing, start, num, read, again))
    /\ UNCHANGED <<device, registry, startSector, detected>>

(* "start" and "num" of the two calls below are bytes.                     *)
RecoverMetadataType(start, offset, size, failing, read) ==
    /\ last' = Call("bytes", start * 512 + offset, size, Open(failing, {"METADATA_RECOVERY"}),
                    read = "ok",
                    Metadata!RecoverMetadataType(device, registry, failing, start, offset, size, read))
    /\ UNCHANGED <<device, registry, startSector, detected>>

RecoverFile(start, size, failing, read, survives) ==
    /\ last' = Call("file", start * device.sectorSize, size, Open(failing, {"FILE_RECOVERY"}),
                    read = "ok",
                    Files!RecoverFile(device, registry, failing, start, size, read, survives))
    /\ UNCHANGED <<device, registry, startSector, detected>>

ExportData(start, num, failing, sizes) ==
    /\ last' = Call("export", start, num, Open(failing, {"OUTPUT_EXPORT"}), TRUE,
                    Exporter!ExportData(device, registry, failing, start, num, sizes))
    /\ UNCHANGED <<device, registry, startSector, detected>>

ExportDataItem(start, size, failing) ==
    /\ last' = Call("item", start, 0, Open(failing, {"OUTPUT_EXPORT"}), TRUE,
                    Exporter!ExportDataItem(device, registry, failing, start, size))
    /\ UNCHANGED <<device, registry, startSector, detected>>

(* There is none of a call that ended the process.                         *)
TakeAnswer ==
    /\ last # NoCall /\ last.answer.result # "trap"
    /\ last' = NoCall
    /\ UNCHANGED <<device, registry, startSector, detected>>

EnginesNext ==
    \/ TakeAnswer
    \/ /\ last = NoCall
       /\ \/ \E mask \in Masks : Register(mask) \/ Unregister(mask)
          \/ Clear
          \/ \E start \in Starts, failing \in FailingSets, read \in Reads :
                \/ \E num \in Counts :
                      \/ Detect(start, num, failing, read)
                      \/ RecoverMetadata(start, num, failing, read)
                      \/ \E again \in Reads :
                            \/ Analyze(start, num, failing, read, again)
                            \/ \E type \in {"FAT16", "NTFS", "other"} :
                                  GetInfo(start, num, failing, read, again, type)
                            \/ RecoverFiles(start, num, failing, read, again)
                \/ \E size \in Sizes :
                      \/ \E offset \in Offsets : RecoverMetadataType(start, offset, size, failing, read)
                      \/ \E survives \in BOOLEAN : RecoverFile(start, size, failing, read, survives)
          \/ \E start \in Starts, failing \in FailingSets :
                \/ \E num \in Counts, sizes \in Exports : ExportData(start, num, failing, sizes)
                \/ \E size \in Sizes : ExportDataItem(start, size, failing)

-----------------------------------------------------------------------------
(* No engine reads outside the range it was asked for, nor outside the     *)
(* disk, whatever was asked before; and the bytes handed out as a file or  *)
(* a metadata extent are, on a disk whose sectors the range check counts,  *)
(* all on the disk and all read: FilesystemAnalyzer.cpp:318-351,           *)
(* FileRecovery.cpp:167-195, MetadataRecovery.cpp:136-189.                 *)
EnginesReadWhatIsAsked ==
    /\ last.op \in {"analyze", "info", "metadata", "files"} =>
          \A r \in last.answer.reads :
              r.from >= last.start /\ r.from + r.count <= last.start + last.num
              /\ r.from + r.count <= device.total
    /\ (last.op \in {"file", "bytes"} /\ last.answer.result = "true"
        /\ (last.op = "file" => device.sectorSize >= 512)
        /\ (last.op = "bytes" => device.sectorSize = 512 /\ last.start % 512 = 0
                                 /\ last.start \div 512 < UInt64)) =>
          /\ last.answer.bytes = last.num /\ last.num > 0
          /\ \A r \in last.answer.reads :
                /\ r.from + r.count <= device.total
                /\ r.from * device.sectorSize = last.start
                /\ r.count * device.sectorSize >= last.num

Recoverable == {"FAT12", "FAT16", "FAT32", "NTFS"}

(* What detection said of a boot sector is what the other engines go by:   *)
(* with the gate open, the range on the disk and its reads whole,          *)
(* analysis, metadata and file recovery succeed exactly for the types they *)
(* handle, and the FATs recovered are called by the detected type.  Four   *)
(* classes have each their own copy of the test (FilesystemDetector.cpp:   *)
(* 110, FilesystemAnalyzer.cpp:398, MetadataRecovery.cpp:279,              *)
(* FileRecovery.cpp:296).  A volume with zero sectors per cluster ends the *)
(* process in analysis.                                                    *)
(*                                                                         *)
(* Of a volume with damaged FATs nothing is claimed of the recoveries:     *)
(* they succeed there as well, since the FATs are made up and never read   *)
(* (MetadataRecovery.cpp:384-395), against                                 *)
(* tests/test_corrupted_filesystem.cpp:462.                                *)
DetectionAgrees ==
    /\ last.op \in {"analyze", "metadata", "files"}
    /\ last.open /\ last.whole
    /\ detected.type # "" /\ last.start = detected.sector
    /\ last.num > 0 /\ last.start + last.num <= device.total
    /\ last.answer.result # "trap"
    /\ last.op = "analyze" \/ device.fatsIntact
    => /\ last.answer.result = "true" <=> detected.type \in Recoverable
       /\ last.answer.type = detected.type
       /\ last.op = "metadata" =>
             \A p \in last.answer.pieces : p[1] \in Recoverable => p[1] = detected.type

(* What is exported stays inside the output range, although space is       *)
(* checked in bytes and written in whole sectors (OutputExporter.cpp:56-   *)
(* 87).                                                                    *)
ExportFits ==
    last.op = "export" =>
        \A i \in DOMAIN last.answer.writes :
            last.answer.writes[i].from + last.answer.writes[i].count <= last.start + last.num

=============================================================================
