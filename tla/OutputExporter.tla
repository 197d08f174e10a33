--------------------------- MODULE OutputExporter ---------------------------
(***************************************************************************)
(* OutputExporter: recovered pieces laid out one behind the other in a     *)
(* range of sectors of the output.  The writes are simulated; what is      *)
(* modelled is where they would go.                                        *)
(***************************************************************************)
EXTENDS DiskReading, OperationValidation, SequencesExt

IsSectorRangeValid(startSector, numSectors) == numSectors # 0

CalculateRequiredSectors(dataSizeBytes) == ((dataSizeBytes + 511) % UInt64) \div 512

(* Wrong variant: each piece starts behind the sectors of the last one.       *)
WholeSectorsBefore(sizes, i) ==
    FoldSeq(LAMBDA size, sum : sum + CalculateRequiredSectors(size) * 512, 0, SubSeq(sizes, 1, i - 1))

(* The lengths of the first i pieces added up, for each i.                 *)
BytesOf(sizes) ==
    LET bytes[i \in 0..Len(sizes)] == IF i = 0 THEN 0 ELSE bytes[i - 1] + sizes[i]
    IN bytes

(* currentOffset when piece i is written.                                  *)
CurrentOffset(sizes, i) == BytesOf(sizes)[i - 1] % UInt64

TotalBytesNeeded(sizes) == BytesOf(sizes)[Len(sizes)] % UInt64

ExportData(device, registry, failing, startSector, numSectors, sizes) ==
    IF \/ ~ValidationPassed(ValidateOperation(registry, {"OUTPUT_EXPORT"}, failing))
       \/ ~device.present
       \/ ~IsSectorRangeValid(startSector, numSectors)
       \/ TotalBytesNeeded(sizes) > (numSectors * 512) % UInt64
    THEN [result |-> "false", writes |-> <<>>]
    ELSE [result |-> "true",
          writes |-> [i \in 1..Len(sizes) |->
              [from |-> startSector + CurrentOffset(sizes, i) \div 512,
               count |-> CalculateRequiredSectors(sizes[i])]]]

(* One piece, at a sector of its own; the range of the call is not used.   *)
ExportDataItem(device, registry, failing, outputStartSector, size) ==
    IF \/ ~ValidationPassed(ValidateOperation(registry, {"OUTPUT_EXPORT"}, failing))
       \/ ~device.present
       \/ ~IsSectorRangeValid(outputStartSector, CalculateRequiredSectors(size))
    THEN [result |-> "false", writes |-> <<>>]
    ELSE [result |-> "true",
          writes |-> <<[from |-> outputStartSector, count |-> CalculateRequiredSectors(size)]>>]

=============================================================================
