---------------------------- MODULE CarvingEngine ----------------------------
(***************************************************************************)
(* Signature-based carving: CarvingEngine::carveFiles.                     *)
(*                                                                         *)
(* A call scans a range of sectors chunk by chunk; each chunk is searched  *)
(* three times, for JPEG, then PDF, then ZIP, and every hit is read from   *)
(* the disk a second time by extractFileData.  One action is one iteration *)
(* of one of the loops.  Offsets are bytes counted from 0; byte i of the   *)
(* disk is disk[i + 1].  Every read may fail.                              *)
(*                                                                         *)
(* Left out: the per-iteration test of cancellationStateIsValid, a bool    *)
(* passed by value that the validator has required to be TRUE; and the     *)
(* 64-bit overflow guards, which cannot bite on a range that lies within   *)
(* the disk.                                                               *)
(***************************************************************************)
EXTENDS Naturals, Sequences, FiniteSets, FiniteSetsExt

CONSTANTS
    Disks,        \* the possible contents of the disk: sequences of bytes
    SectorBytes,  \* getSectorSize()
    ChunkBytes    \* scanChunkSize

ASSUME SizesAssumption ==
    /\ SectorBytes \in Nat \ {0}
    /\ ChunkBytes \in Nat \ {0}

ASSUME DisksAssumption == \A d \in Disks : d \in Seq(STRING) /\ Len(d) % SectorBytes = 0

VARIABLES
    disk,         \* rigid
    startSector, numSectors,  \* arguments of the current call
    phase,        \* "idle", "chunk", a file type, or "true", "false": returned
    byteOffset,   \* of the current chunk, relative to the range
    searchPos,    \* jpegSearchPos, pdfSearchPos or zipSearchPos
    carvedFiles,  \* name -> [data, from, to]; from and to are the offsets
                  \* of the hit relative to the range, a history
    success,
    readFailed    \* history: some read of this call has failed

call == <<startSector, numSectors>>

vars == <<disk, call, phase, byteOffset, searchPos, carvedFiles, success, readFailed>>

FileTypes == {"JPEG", "PDF", "ZIP"}

Returned == {"true", "false"}

(* The byte strings searched for.  PDF and JPEG have an end; what the code *)
(* calls a PDF's %%EOF spells %%EF (CarvingEngine.cpp:203).                *)
StartSignature(t) ==
    CASE t = "JPEG" -> <<"FF", "D8", "FF">>
      [] t = "PDF"  -> <<"25", "50", "44", "46">>
      [] t = "ZIP"  -> <<"50", "4B", "03", "04">>

EndSignature(t) ==
    CASE t = "JPEG" -> <<"FF", "D9">>
      [] t = "PDF"  -> <<"25", "25", "45", "46">>

TypeOK ==
    /\ disk \in Disks
    /\ startSector \in Nat /\ numSectors \in Nat
    /\ phase \in {"idle", "chunk"} \cup FileTypes \cup Returned
    /\ byteOffset \in Nat
    /\ searchPos \in 0 .. ChunkBytes
    /\ DOMAIN carvedFiles \subseteq Nat \X FileTypes
    /\ IsFiniteSet(DOMAIN carvedFiles)
    /\ \A n \in DOMAIN carvedFiles :
           carvedFiles[n] \in [data : Seq(STRING), from : Nat, to : Nat]
    /\ success \in BOOLEAN
    /\ readFailed \in BOOLEAN

Init ==
    /\ disk \in Disks
    /\ startSector = 0 /\ numSectors = 0
    /\ phase = "idle"
    /\ byteOffset = 0
    /\ searchPos = 0
    /\ carvedFiles = <<>>
    /\ success = FALSE
    /\ readFailed = FALSE

-----------------------------------------------------------------------------
(* The disk and the current chunk.                                        *)

TotalSectors == Len(disk) \div SectorBytes

IsSectorRangeValid(start, num) ==
    /\ num # 0
    /\ start < TotalSectors
    /\ start + num <= TotalSectors

RoundUp(bytes) == (bytes + SectorBytes - 1) \div SectorBytes

ReadSectors(first, count) ==
    SubSeq(disk, first * SectorBytes + 1, (first + count) * SectorBytes)

TotalBytes == numSectors * SectorBytes

ScanSize == Min({ChunkBytes, TotalBytes - byteOffset})

ScanStartSector == startSector + byteOffset \div SectorBytes

ScanData ==
    LET count == Min({RoundUp(ScanSize), startSector + numSectors - ScanStartSector})
    IN  SubSeq(ReadSectors(ScanStartSector, count), 1, ScanSize)

(* std::search: where sig occurs in data, at or after a position.          *)
Occurrences(data, sig, from) ==
    {p \in from .. Len(data) : p + Len(sig) <= Len(data)
                                 /\ SubSeq(data, p + 1, p + Len(sig)) = sig}

(* Hits are starts of a file of type t not yet searched past.              *)
Hits(t) == Occurrences(ScanData, StartSignature(t), searchPos)

Ends(t, p) == Occurrences(ScanData, EndSignature(t), p + Len(StartSignature(t)))

(* Where the file that starts at p ends: behind its end signature, or, for *)
(* a PDF without one and for every ZIP, where the chunk ends - the caps of *)
(* 100 and 64 KB are no less than a chunk.                                 *)
EndOf(t, p) ==
    IF t # "ZIP" /\ Ends(t, p) # {}
    THEN Min(Ends(t, p)) + Len(EndSignature(t))
    ELSE Len(ScanData)

(* Wrong variant: the bytes before the file in its first sector are kept.  *)
ExtractFileDataUntrimmed(startOffset, fileSize) ==
    LET first == startOffset \div SectorBytes
    IN  SubSeq(disk, first * SectorBytes + 1, first * SectorBytes + fileSize)

(* The sectors startOffset .. startOffset + fileSize touches, less the      *)
(* bytes before and after.  startOffset counts from the start of the disk. *)
ExtractFileData(startOffset, fileSize) ==
    LET first == startOffset \div SectorBytes
        raw   == ReadSectors(first, RoundUp(startOffset + fileSize) - first)
        lead  == startOffset % SectorBytes
    IN  SubSeq(raw, lead + 1, Min({Len(raw), lead + fileSize}))

-----------------------------------------------------------------------------

(* A call: clear the results, validate, check the range.  valid is the     *)
(* verdict of the operation validator, and whether there is a reader.      *)
CarveFiles(start, num, valid) ==
    /\ phase \in {"idle"} \cup Returned
    /\ startSector' = start /\ numSectors' = num
    /\ phase' = (IF valid /\ IsSectorRangeValid(start, num) THEN "chunk" ELSE "false")
    /\ byteOffset' = 0
    /\ searchPos' = 0
    /\ carvedFiles' = <<>>
    /\ success' = FALSE
    /\ readFailed' = FALSE
    /\ UNCHANGED disk

(* A chunk that cannot be read ends the call, whatever has been carved.    *)
ReadChunk(ok) ==
    /\ phase = "chunk" /\ byteOffset < TotalBytes
    /\ phase' = (IF ok THEN "JPEG" ELSE "false")
    /\ readFailed' = (readFailed \/ ~ok)
    /\ searchPos' = 0
    /\ UNCHANGED <<disk, call, byteOffset, carvedFiles, success>>

(* Wrong variant: a call that has read everything succeeds.                *)
ReturnTrue ==
    /\ phase = "chunk" /\ byteOffset >= TotalBytes
    /\ phase' = "true"
    /\ UNCHANGED <<disk, call, byteOffset, searchPos, carvedFiles, success, readFailed>>

ReturnSuccess ==
    /\ phase = "chunk" /\ byteOffset >= TotalBytes
    /\ phase' = (IF success THEN "true" ELSE "false")
    /\ UNCHANGED <<disk, call, byteOffset, searchPos, carvedFiles, success, readFailed>>

(* No further start of this type: the next search, or the next chunk.      *)
SearchEnds(t) ==
    /\ phase = t /\ Hits(t) = {}
    /\ phase' = CASE t = "JPEG" -> "PDF" [] t = "PDF" -> "ZIP" [] t = "ZIP" -> "chunk"
    /\ byteOffset' = IF t = "ZIP" THEN byteOffset + ChunkBytes ELSE byteOffset
    /\ searchPos' = 0
    /\ UNCHANGED <<disk, call, carvedFiles, success, readFailed>>

(* Wrong variant: the search resumes at the start it has just given up.    *)
SkipEndlessInPlace ==
    /\ phase = "JPEG" /\ Hits("JPEG") # {}
    /\ Ends("JPEG", Min(Hits("JPEG"))) = {}
    /\ searchPos' = Min(Hits("JPEG"))
    /\ UNCHANGED <<disk, call, phase, byteOffset, carvedFiles, success, readFailed>>

(* A JPEG whose end is not in this chunk is skipped.                       *)
SkipEndless ==
    /\ phase = "JPEG" /\ Hits("JPEG") # {}
    /\ Ends("JPEG", Min(Hits("JPEG"))) = {}
    /\ searchPos' = Min(Hits("JPEG")) + 1
    /\ UNCHANGED <<disk, call, phase, byteOffset, carvedFiles, success, readFailed>>

CanExtract(t) ==
    /\ phase = t /\ Hits(t) # {}
    /\ t = "JPEG" => Ends(t, Min(Hits(t))) # {}

(* Wrong variant: files are numbered by chunk.                             *)
NameByChunk(t) == <<byteOffset \div ChunkBytes, t>>

(* "carved_" + carvedFiles.size() + extension.                             *)
NextName(t) == <<Cardinality(DOMAIN carvedFiles), t>>

Store(name, file) ==
    carvedFiles' = [n \in DOMAIN carvedFiles \cup {name} |->
                        IF n = name THEN file ELSE carvedFiles[n]]

(* Wrong variants: the search goes on one byte after the start, or one     *)
(* byte too late.                                                          *)
ResumeAtNextByte(p, end) == p + 1

ResumeOneByteLate(p, end) == end + 1

(* Where the search for the type goes on once a file is carved.            *)
ResumeAfter(p, end) == end

Extract(t) ==
    /\ CanExtract(t)
    /\ LET p    == Min(Hits(t))
           end  == EndOf(t, p)
           from == byteOffset + p
           to   == byteOffset + end
       IN  /\ Store(NextName(t), [data |-> ExtractFileData(from, to - from),
                                  from |-> from, to |-> to])
           /\ searchPos' = ResumeAfter(p, end)
    /\ success' = TRUE
    /\ UNCHANGED <<disk, call, phase, byteOffset, readFailed>>

(* A file that cannot be read back is dropped, and the search goes on      *)
(* within it.                                                              *)
ExtractFails(t) ==
    /\ CanExtract(t)
    /\ searchPos' = Min(Hits(t)) + 1
    /\ readFailed' = TRUE
    /\ UNCHANGED <<disk, call, phase, byteOffset, carvedFiles, success>>

Scan ==
    \/ \E ok \in BOOLEAN : ReadChunk(ok)
    \/ ReturnSuccess
    \/ \E t \in FileTypes : SearchEnds(t) \/ Extract(t) \/ ExtractFails(t)
    \/ SkipEndless

Next ==
    \/ \E start, num \in 0 .. TotalSectors, valid \in BOOLEAN :
           CarveFiles(start, num, valid)
    \/ Scan

(* A call that has begun keeps running.                                    *)
Spec == Init /\ [][Next]_vars /\ WF_vars(Scan)

-----------------------------------------------------------------------------
(* Properties.                                                            *)

Files == {<<n[2], carvedFiles[n]>> : n \in DOMAIN carvedFiles}

StartsWith(data, sig) == 0 \in Occurrences(data, sig, 0)

(* A file carved from a range at the start of the disk is a file of its    *)
(* type: it begins with the type's start signature, and a JPEG ends with   *)
(* its end signature and has none before - although the bytes are not the  *)
(* ones that were searched but are read again, through sector rounding.    *)
WellFormed(t, data) ==
    /\ StartsWith(data, StartSignature(t))
    /\ t = "JPEG" => Occurrences(data, EndSignature(t), Len(StartSignature(t)))
                         = {Len(data) - Len(EndSignature(t))}

FilesAreWellFormed == startSector = 0 => \A f \in Files : WellFormed(f[1], f[2].data)

(* Two files of one type never share a byte of the range.                  *)
DisjointFiles ==
    \A m, n \in DOMAIN carvedFiles : m # n /\ m[2] = n[2] =>
        \/ carvedFiles[m].to <= carvedFiles[n].from
        \/ carvedFiles[n].to <= carvedFiles[m].from

(* When every read succeeded and the scan has ended, nothing that lies     *)
(* within one chunk was missed: each start signature, for a JPEG with an   *)
(* end behind it, is inside some carved file of its type.                  *)
ChunkStarts == {k * ChunkBytes : k \in 0 .. TotalBytes \div ChunkBytes}

InChunk(c, sig, from) ==
    LET first == startSector * SectorBytes
        last  == first + Min({c + ChunkBytes, TotalBytes})
    IN  {p \in from .. TotalBytes : first + p + Len(sig) <= last
            /\ SubSeq(disk, first + p + 1, first + p + Len(sig)) = sig}

NothingMissed ==
    phase \in Returned /\ byteOffset >= TotalBytes /\ ~readFailed =>
        \A c \in ChunkStarts, t \in FileTypes :
            \A p \in InChunk(c, StartSignature(t), c) :
                \/ t = "JPEG" /\ InChunk(c, EndSignature(t), p + Len(StartSignature(t))) = {}
                \/ \E f \in Files : f[1] = t /\ f[2].from <= p /\ p < f[2].to

(* "Returns true if carving was successful" (CarvingEngine.h): true means  *)
(* there are files, and false, unless a read failed, that there are none.  *)
HonestResult ==
    /\ phase = "true" => carvedFiles # <<>>
    /\ phase = "false" /\ ~readFailed => carvedFiles = <<>>

(* While a call runs, a file that was carved stays as it is: no two hits   *)
(* are given the same name.                                                *)
NothingOverwritten ==
    [][phase \notin {"idle"} \cup Returned =>
           \A n \in DOMAIN carvedFiles :
               n \in DOMAIN carvedFiles' /\ carvedFiles'[n] = carvedFiles[n]]_vars

(* Every call returns, whatever the disk holds and whichever reads fail.   *)
CallReturns == phase = "chunk" ~> phase \in Returned

(* CarvingEngine "recovers files ... using signature-based carving"        *)
(* (CarvingEngine.h), from any valid range of sectors.                     *)
SignatureBased == \A f \in Files : StartsWith(f[2].data, StartSignature(f[1]))

=============================================================================
