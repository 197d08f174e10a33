------------------------- MODULE CarvingEngineProofs -------------------------
(***************************************************************************)
(* Theorems about CarvingEngine, for every disk, sector size and chunk     *)
(* size: types, names, results, disjoint files, and, with chunks of whole  *)
(* sectors, that files are what they are taken for and none is missed.     *)
(***************************************************************************)
EXTENDS CarvingEngine, NumberLemmas, SequenceTheorems

Active == phase \in {"chunk"} \cup FileTypes

(* A running call works on a valid range, and on a chunk that is inside.   *)
InRange ==
    /\ Active => IsSectorRangeValid(startSector, numSectors)
    /\ phase \in FileTypes => byteOffset < TotalBytes

(* Files are numbered by a counter that has passed all of them.            *)
Numbered == \A n \in DOMAIN carvedFiles : n[1] < Cardinality(DOMAIN carvedFiles)

(* The local success tells whether there are files.                        *)
Tally ==
    /\ success => carvedFiles # <<>>
    /\ ~success => carvedFiles = <<>>
    /\ phase \in {"idle", "false"} /\ ~readFailed => ~success
    /\ phase = "true" => success

(* How far the current chunk has been searched for files of type t.        *)
SearchedTo(t) ==
    IF phase = t THEN searchPos
    ELSE IF <<phase, t>> \in {<<"PDF", "JPEG">>, <<"ZIP", "JPEG">>, <<"ZIP", "PDF">>}
    THEN ChunkBytes
    ELSE 0

(* Every file of a type lies behind the search for that type.              *)
Behind ==
    Active => \A n \in DOMAIN carvedFiles : carvedFiles[n].to <= byteOffset + SearchedTo(n[2])

Ordered == \A n \in DOMAIN carvedFiles : carvedFiles[n].from <= carvedFiles[n].to

IInv == TypeOK /\ InRange /\ Numbered /\ Tally /\ Behind /\ Ordered /\ DisjointFiles

-----------------------------------------------------------------------------
(* Lemmas about the operators.                                             *)

LEMMA MinIsLeast ==
    ASSUME NEW S \in SUBSET Nat, S # {}
    PROVE  Min(S) \in S /\ \A n \in S : Min(S) <= n
  BY LeastElement DEF Min

LEMMA MinOfTwo ==
    ASSUME NEW a \in Nat, NEW b \in Nat
    PROVE  Min({a, b}) \in Nat /\ Min({a, b}) \in {a, b} /\ Min({a, b}) <= a /\ Min({a, b}) <= b
<1>1. {a, b} \in SUBSET Nat /\ {a, b} # {}
  OBVIOUS
<1>2. QED
  BY <1>1, MinIsLeast

(* The length of a prefix does not depend on what it is a prefix of.       *)
LEMMA PrefixLength ==
    ASSUME NEW s, NEW k \in Nat
    PROVE  Len(SubSeq(s, 1, k)) = k
<1> DEFINE S == {s[i] : i \in 1 .. k}
<1>1. \A i \in 1 .. k : s[i] \in S
  OBVIOUS
<1> HIDE DEF S
<1>2. Len(SubSeq(s, 1, k)) = IF 1 <= k THEN k - 1 + 1 ELSE 0
  BY <1>1, SubSeqProperties
<1>3. QED
  BY <1>2

LEMMA PiecesAreSequences ==
    ASSUME NEW S, NEW s \in Seq(S), NEW m \in Nat \ {0}, NEW n \in Nat, n <= Len(s)
    PROVE  SubSeq(s, m, n) \in Seq(S)
<1>1. \A i \in m .. n : s[i] \in S
  BY ElementOfSeq
<1>2. QED
  BY <1>1, SubSeqProperties

LEMMA Signatures ==
    ASSUME NEW t \in FileTypes
    PROVE  /\ Len(StartSignature(t)) \in {3, 4}
           /\ t # "ZIP" => Len(EndSignature(t)) \in {2, 4}
  BY DEF FileTypes, StartSignature, EndSignature

LEMMA OccurrencesFit ==
    ASSUME NEW data, NEW sig, NEW from \in Nat, Len(data) \in Nat
    PROVE  /\ Occurrences(data, sig, from) \in SUBSET Nat
           /\ \A p \in Occurrences(data, sig, from) :
                  from <= p /\ p + Len(sig) <= Len(data)
  BY DEF Occurrences

(* A chunk is as long as the loop computed, and within the range.          *)
LEMMA ScanDataLength ==
    ASSUME TypeOK, byteOffset < TotalBytes
    PROVE  /\ Len(ScanData) \in Nat
           /\ Len(ScanData) <= ChunkBytes
           /\ byteOffset + Len(ScanData) <= TotalBytes
<1>1. TotalBytes \in Nat
  BY SizesAssumption, Products DEF TypeOK, TotalBytes
<1>2. byteOffset \in Nat /\ TotalBytes - byteOffset \in Nat
  BY <1>1 DEF TypeOK
<1>3. ScanSize \in Nat /\ ScanSize <= ChunkBytes /\ ScanSize <= TotalBytes - byteOffset
  BY <1>2, SizesAssumption, MinOfTwo DEF ScanSize
<1>4. Len(ScanData) = ScanSize
  BY <1>3, PrefixLength DEF ScanData
<1>5. QED
  BY <1>1, <1>2, <1>3, <1>4

(* The next file: it starts where the search stands or later, and ends     *)
(* after its start and within the chunk.                                   *)
LEMMA NextFile ==
    ASSUME TypeOK, byteOffset < TotalBytes, NEW t \in FileTypes, Hits(t) # {}
    PROVE  LET p == Min(Hits(t))
           IN  /\ p \in Nat /\ searchPos <= p /\ p < Len(ScanData)
               /\ EndOf(t, p) \in Nat /\ p < EndOf(t, p) /\ EndOf(t, p) <= Len(ScanData)
<1> DEFINE p == Min(Hits(t))
           s == Len(StartSignature(t))
           z == Len(ScanData)
<1>1. z \in Nat
  BY ScanDataLength
<1>2. s \in {3, 4}
  BY Signatures
<1>3. searchPos \in Nat
  BY SizesAssumption DEF TypeOK
<1>4. p \in Nat /\ searchPos <= p /\ p + s <= z
  <2>1. Hits(t) \in SUBSET Nat
    BY <1>1, <1>3, OccurrencesFit DEF Hits
  <2>2. p \in Hits(t)
    BY <2>1, MinIsLeast
  <2>3. QED
    BY <1>1, <1>3, <2>1, <2>2, OccurrencesFit DEF Hits
<1> HIDE DEF p, s, z
<1>5. CASE t # "ZIP" /\ Ends(t, p) # {}
  <2> DEFINE e == Min(Ends(t, p))
             l == Len(EndSignature(t))
  <2>1. l \in {2, 4}
    BY <1>5, Signatures
  <2>2. p + s \in Nat
    BY <1>2, <1>4
  <2>3. Ends(t, p) \in SUBSET Nat
    BY <1>1, <2>2, OccurrencesFit DEF Ends, s, z
  <2>4. e \in Ends(t, p)
    BY <1>5, <2>3, MinIsLeast
  <2>5. e \in Nat /\ p + s <= e /\ e + l <= z
    BY <1>1, <2>2, <2>3, <2>4, OccurrencesFit DEF Ends, s, z
  <2>6. EndOf(t, p) = e + l
    BY <1>5 DEF EndOf
  <2> HIDE DEF e, l
  <2>7. EndOf(t, p) \in Nat /\ p < EndOf(t, p) /\ EndOf(t, p) <= z
    BY <1>1, <1>2, <1>4, <2>1, <2>5, <2>6
  <2>8. QED
    BY <1>1, <1>2, <1>3, <1>4, <2>7 DEF p, s, z
<1>6. CASE ~(t # "ZIP" /\ Ends(t, p) # {})
  <2>1. EndOf(t, p) = z
    BY <1>6 DEF EndOf, z
  <2>2. QED
    BY <1>1, <1>2, <1>3, <1>4, <2>1 DEF p, s, z
<1>7. QED
  BY <1>5, <1>6

(* What is carved lies in the range, and so is read from the disk: exactly *)
(* the bytes asked for, although whole sectors are read.                   *)
LEMMA ExtractedData ==
    ASSUME TypeOK, IsSectorRangeValid(startSector, numSectors),
           NEW from \in Nat, NEW to \in Nat, from < to, to <= TotalBytes
    PROVE  /\ ExtractFileData(from, to - from) \in Seq(STRING)
           /\ Len(ExtractFileData(from, to - from)) = to - from
           /\ \A i \in 1 .. to - from : ExtractFileData(from, to - from)[i] = disk[from + i]
<1> DEFINE first == from \div SectorBytes
           lead  == from % SectorBytes
           last  == RoundUp(from + (to - from))
           raw   == ReadSectors(first, last - first)
           stop  == Min({Len(raw), lead + (to - from)})
<1>1. SectorBytes \in Nat \ {0}
  BY SizesAssumption
<1>2. disk \in Seq(STRING) /\ Len(disk) \in Nat
  BY DisksAssumption, LenProperties DEF TypeOK
<1>3. first \in Nat /\ lead \in 0 .. SectorBytes - 1 /\ from = first * SectorBytes + lead
  BY <1>1, Division
<1>4. last \in Nat /\ to <= last * SectorBytes /\ last <= numSectors
  <2>1. from + (to - from) = to
    OBVIOUS
  <2>2. numSectors \in Nat
    BY DEF TypeOK
  <2>3. QED
    BY <1>1, <2>1, <2>2, Rounding DEF RoundUp, TotalBytes
<1>5. last * SectorBytes <= Len(disk)
  <2>1. TotalSectors \in Nat /\ TotalSectors * SectorBytes <= Len(disk)
    <3>1. /\ TotalSectors \in Nat
          /\ Len(disk) % SectorBytes \in 0 .. SectorBytes - 1
          /\ Len(disk) = TotalSectors * SectorBytes + (Len(disk) % SectorBytes)
      BY <1>1, <1>2, Division DEF TotalSectors
    <3>2. TotalSectors * SectorBytes \in Nat
      BY <1>1, <3>1, Products
    <3> HIDE DEF TotalSectors
    <3>3. QED
      BY <1>1, <1>2, <3>1, <3>2
  <2>2. last <= TotalSectors
    BY <1>4, <2>1 DEF IsSectorRangeValid, TypeOK
  <2>3. last * SectorBytes <= TotalSectors * SectorBytes /\ last * SectorBytes \in Nat
        /\ TotalSectors * SectorBytes \in Nat
    BY <1>1, <1>4, <2>1, <2>2, Products
  <2>4. QED
    BY <1>2, <2>1, <2>3
<1> DEFINE lo == first * SectorBytes
           hi == last * SectorBytes
<1>6. lo \in Nat /\ hi \in Nat /\ from = lo + lead /\ to <= hi /\ hi <= Len(disk)
  BY <1>1, <1>3, <1>4, <1>5, Products
<1>7. raw = SubSeq(disk, lo + 1, hi)
  <2>1. (first + (last - first)) * SectorBytes = last * SectorBytes
    BY <1>3, <1>4
  <2>2. QED
    BY <2>1 DEF ReadSectors
<1> HIDE DEF lo, hi, lead, raw
<1>8. /\ raw \in Seq(STRING) /\ Len(raw) = hi - lo
      /\ \A i \in 1 .. hi - lo : raw[i] = disk[lo + i]
  <2>1. lo + 1 \in Int /\ hi \in Int /\ lo + 1 <= hi
    BY <1>1, <1>3, <1>6
  <2>2. \A i \in lo + 1 .. hi : disk[i] \in STRING
    BY <1>2, <1>6, ElementOfSeq
  <2>3. /\ raw \in Seq(STRING)
        /\ Len(raw) = (IF lo + 1 <= hi THEN hi - (lo + 1) + 1 ELSE 0)
        /\ \A i \in 1 .. hi - (lo + 1) + 1 : raw[i] = disk[lo + 1 + i - 1]
    BY <1>7, <2>1, <2>2, SubSeqProperties
  <2>4. Len(raw) = hi - lo
    BY <2>1, <2>3, <1>6
  <2>5. ASSUME NEW i \in 1 .. hi - lo PROVE raw[i] = disk[lo + i]
    <3>1. i \in 1 .. hi - (lo + 1) + 1 /\ lo + 1 + i - 1 = lo + i
      BY <1>6
    <3>2. QED
      BY <2>3, <3>1
  <2>6. QED
    BY <2>3, <2>4, <2>5
<1>9. stop = lead + (to - from)
  <2>1. Len(raw) \in Nat /\ lead + (to - from) \in Nat /\ lead + (to - from) <= Len(raw)
    BY <1>1, <1>3, <1>6, <1>8
  <2>2. QED
    BY <2>1, MinOfTwo
<1>10. ExtractFileData(from, to - from) = SubSeq(raw, lead + 1, stop)
  BY DEF ExtractFileData, raw, lead
<1> HIDE DEF stop
<1> DEFINE d == SubSeq(raw, lead + 1, stop)
<1>11. /\ d \in Seq(STRING) /\ Len(d) = to - from
       /\ \A i \in 1 .. to - from : d[i] = raw[lead + i]
  <2>1. lead + 1 \in Int /\ stop \in Int /\ lead + 1 <= stop
    BY <1>1, <1>3, <1>9
  <2>2. \A i \in lead + 1 .. stop : raw[i] \in STRING
    <3>1. \A i \in lead + 1 .. stop : i \in 1 .. Len(raw)
      BY <1>1, <1>3, <1>6, <1>8, <1>9
    <3>2. QED
      BY <1>8, <3>1, ElementOfSeq
  <2>3. /\ d \in Seq(STRING)
        /\ Len(d) = (IF lead + 1 <= stop THEN stop - (lead + 1) + 1 ELSE 0)
        /\ \A i \in 1 .. stop - (lead + 1) + 1 : d[i] = raw[lead + 1 + i - 1]
    BY <2>1, <2>2, SubSeqProperties
  <2> HIDE DEF d
  <2>4. Len(d) = to - from
    BY <1>1, <1>3, <1>9, <2>1, <2>3
  <2>5. ASSUME NEW i \in 1 .. to - from PROVE d[i] = raw[lead + i]
    <3>1. i \in 1 .. stop - (lead + 1) + 1 /\ lead + 1 + i - 1 = lead + i
      BY <1>1, <1>3, <1>9
    <3>2. QED
      BY <2>3, <3>1
  <2>6. QED
    BY <2>3, <2>4, <2>5
<1> HIDE DEF d
<1>12. ASSUME NEW i \in 1 .. to - from PROVE d[i] = disk[from + i]
  <2>1. lead + i \in 1 .. hi - lo /\ lo + (lead + i) = from + i
    BY <1>1, <1>3, <1>6
  <2>2. QED
    BY <1>8, <1>11, <2>1
<1>13. QED
  BY <1>10, <1>11, <1>12 DEF d

-----------------------------------------------------------------------------
(* The inductive invariant.                                                *)

LEMMA NoFiles ==
    /\ DOMAIN (<<>>) = {}
    /\ IsFiniteSet(DOMAIN (<<>>))
<1>1. DOMAIN (<<>>) = {}
  OBVIOUS
<1>2. QED
  BY <1>1, FS_EmptySet

LEMMA InitInv == Init => IInv
<1> SUFFICES ASSUME Init PROVE IInv
  OBVIOUS
<1>1. DOMAIN carvedFiles = {} /\ IsFiniteSet(DOMAIN carvedFiles)
  BY NoFiles DEF Init
<1>2. TypeOK
  <2>1. /\ disk \in Disks /\ startSector \in Nat /\ numSectors \in Nat /\ byteOffset \in Nat
        /\ phase \in {"idle", "chunk"}
        /\ success \in BOOLEAN /\ readFailed \in BOOLEAN
    BY DEF Init
  <2>2. searchPos \in 0 .. ChunkBytes
    BY SizesAssumption DEF Init
  <2>3. QED
    BY <1>1, <2>1, <2>2 DEF TypeOK
<1>3. InRange /\ Behind
  BY DEF Init, InRange, Behind, Active, FileTypes
<1>4. Numbered /\ Ordered /\ DisjointFiles
  BY <1>1 DEF Numbered, Ordered, DisjointFiles
<1>5. Tally
  BY DEF Init, Tally
<1>6. QED
  BY <1>2, <1>3, <1>4, <1>5 DEF IInv

(* What does not concern the files, the range or the phase.                *)
LEMMA FilesUntouched ==
    ASSUME IInv, UNCHANGED carvedFiles
    PROVE  Numbered' /\ Ordered' /\ DisjointFiles'
  BY DEF IInv, Numbered, Ordered, DisjointFiles

LEMMA CarveFilesKeepsInv ==
    ASSUME IInv, NEW start \in 0 .. TotalSectors, NEW num \in 0 .. TotalSectors,
           NEW valid \in BOOLEAN, CarveFiles(start, num, valid)
    PROVE  IInv'
<1>1. carvedFiles' = <<>> /\ DOMAIN carvedFiles' = {} /\ IsFiniteSet(DOMAIN carvedFiles')
  BY NoFiles DEF CarveFiles
<1>2. phase' \in {"chunk", "false"}
      /\ (phase' = "chunk" => IsSectorRangeValid(start, num))
  BY DEF CarveFiles
<1>3. TypeOK'
  <2>1. start \in Nat /\ num \in Nat /\ 0 \in 0 .. ChunkBytes
    BY SizesAssumption
  <2>2. QED
    BY <1>1, <1>2, <2>1 DEF IInv, TypeOK, CarveFiles, Returned
<1>4. InRange'
  <2>1. IsSectorRangeValid(start, num) => IsSectorRangeValid(startSector, numSectors)'
    BY DEF CarveFiles, IsSectorRangeValid, TotalSectors
  <2>2. QED
    BY <1>2, <2>1 DEF InRange, Active, FileTypes
<1>5. Behind' /\ Numbered' /\ Ordered' /\ DisjointFiles'
  BY <1>1 DEF Behind, Numbered, Ordered, DisjointFiles
<1>6. Tally'
  BY <1>1, <1>2 DEF Tally, CarveFiles
<1>7. QED
  BY <1>3, <1>4, <1>5, <1>6 DEF IInv

LEMMA ReadChunkKeepsInv ==
    ASSUME IInv, NEW ok \in BOOLEAN, ReadChunk(ok)
    PROVE  IInv'
<1>1. phase = "chunk" /\ phase' \in {"JPEG", "false"}
      /\ byteOffset < TotalBytes /\ byteOffset' = byteOffset
      /\ UNCHANGED <<disk, call, carvedFiles, success>>
  BY DEF ReadChunk
<1>2. TypeOK'
  <2>1. 0 \in 0 .. ChunkBytes
    BY SizesAssumption
  <2>2. readFailed' \in BOOLEAN
    BY DEF ReadChunk, IInv, TypeOK
  <2>3. QED
    BY <1>1, <2>1, <2>2 DEF IInv, TypeOK, ReadChunk, FileTypes, Returned, call
<1>3. InRange'
  <2>1. IsSectorRangeValid(startSector, numSectors)
    BY <1>1 DEF IInv, InRange, Active
  <2>2. IsSectorRangeValid(startSector, numSectors)'
    BY <1>1, <2>1 DEF IsSectorRangeValid, TotalSectors, call
  <2>3. (byteOffset < TotalBytes)'
    BY <1>1 DEF TotalBytes, call
  <2>4. QED
    BY <2>2, <2>3 DEF InRange
<1>4. Numbered' /\ Ordered' /\ DisjointFiles'
  BY <1>1, FilesUntouched
<1>5. Behind'
  <2>1. \A n \in DOMAIN carvedFiles : SearchedTo(n[2]) = 0 /\ SearchedTo(n[2])' = 0
    <3>1. searchPos' = 0
      BY DEF ReadChunk
    <3>2. \A n \in DOMAIN carvedFiles : n[2] \in FileTypes
      BY DEF IInv, TypeOK
    <3>3. QED
      BY <1>1, <3>1, <3>2 DEF SearchedTo, FileTypes
  <2>2. \A n \in DOMAIN carvedFiles : carvedFiles[n].to <= byteOffset + SearchedTo(n[2])
    BY <1>1 DEF IInv, Behind, Active
  <2>3. QED
    BY <1>1, <2>1, <2>2 DEF Behind
<1>6. Tally'
  <2>1. phase' = "false" => readFailed'
    BY DEF ReadChunk
  <2>2. QED
    BY <1>1, <2>1 DEF IInv, Tally
<1>7. QED
  BY <1>2, <1>3, <1>4, <1>5, <1>6 DEF IInv

LEMMA ReturnSuccessKeepsInv ==
    ASSUME IInv, ReturnSuccess
    PROVE  IInv'
<1>1. phase' \in Returned /\ UNCHANGED <<disk, call, byteOffset, searchPos, carvedFiles, success, readFailed>>
  BY DEF ReturnSuccess, Returned
<1>2. TypeOK'
  BY <1>1 DEF IInv, TypeOK, call
<1>3. InRange' /\ Behind'
  BY <1>1 DEF InRange, Behind, Active, Returned, FileTypes
<1>4. Numbered' /\ Ordered' /\ DisjointFiles'
  BY <1>1, FilesUntouched
<1>5. Tally'
  <2>1. (phase' = "true" => success) /\ (phase' # "true" => ~success)
    BY DEF ReturnSuccess
  <2>2. QED
    BY <1>1, <2>1 DEF IInv, Tally, Returned
<1>6. QED
  BY <1>2, <1>3, <1>4, <1>5 DEF IInv

LEMMA SearchEndsKeepsInv ==
    ASSUME IInv, NEW t \in FileTypes, SearchEnds(t)
    PROVE  IInv'
<1>1. phase = t /\ UNCHANGED <<disk, call, carvedFiles, success, readFailed>> /\ searchPos' = 0
  BY DEF SearchEnds
<1>2. \/ t = "JPEG" /\ phase' = "PDF" /\ byteOffset' = byteOffset
      \/ t = "PDF" /\ phase' = "ZIP" /\ byteOffset' = byteOffset
      \/ t = "ZIP" /\ phase' = "chunk" /\ byteOffset' = byteOffset + ChunkBytes
  BY DEF SearchEnds, FileTypes
<1>3. byteOffset \in Nat /\ ChunkBytes \in Nat /\ searchPos \in 0 .. ChunkBytes
  BY SizesAssumption DEF IInv, TypeOK
<1>4. TypeOK'
  <2>1. byteOffset' \in Nat /\ searchPos' \in 0 .. ChunkBytes
    BY <1>1, <1>2, <1>3
  <2>2. phase' \in {"chunk"} \cup FileTypes
    BY <1>2 DEF FileTypes
  <2>3. QED
    BY <1>1, <2>1, <2>2 DEF IInv, TypeOK, call
<1>5. InRange'
  <2>1. IsSectorRangeValid(startSector, numSectors) /\ byteOffset < TotalBytes
    BY <1>1 DEF IInv, InRange, Active
  <2>2. IsSectorRangeValid(startSector, numSectors)' /\ TotalBytes' = TotalBytes
    BY <1>1, <2>1 DEF IsSectorRangeValid, TotalSectors, TotalBytes, call
  <2>3. phase' \in FileTypes => byteOffset' = byteOffset
    BY <1>2 DEF FileTypes
  <2>4. QED
    BY <2>1, <2>2, <2>3 DEF InRange
<1>6. Numbered' /\ Ordered' /\ DisjointFiles'
  BY <1>1, FilesUntouched
<1>7. Behind'
  <2> SUFFICES ASSUME NEW n \in DOMAIN carvedFiles
               PROVE  carvedFiles[n].to <= byteOffset' + SearchedTo(n[2])'
    BY <1>1 DEF Behind
  <2>1. n[2] \in FileTypes /\ carvedFiles[n].to \in Nat
    BY DEF IInv, TypeOK
  <2>2. carvedFiles[n].to <= byteOffset + SearchedTo(n[2])
    BY <1>1 DEF IInv, Behind, Active
  <2>3. /\ SearchedTo(n[2]) \in Nat /\ SearchedTo(n[2])' \in Nat
        /\ byteOffset + SearchedTo(n[2]) <= byteOffset' + SearchedTo(n[2])'
    BY <1>1, <1>2, <1>3, <2>1 DEF SearchedTo, FileTypes
  <2>4. byteOffset' \in Nat
    BY <1>2, <1>3
  <2>5. QED
    BY <1>3, <2>1, <2>2, <2>3, <2>4
<1>8. Tally'
  <2>1. phase' \notin {"idle"} \cup Returned
    BY <1>2 DEF Returned
  <2>2. QED
    BY <1>1, <2>1 DEF IInv, Tally, Returned
<1>9. QED
  BY <1>4, <1>5, <1>6, <1>7, <1>8 DEF IInv

(* The search moves on within the chunk, past a start that is given up.    *)
LEMMA MovingOnKeepsInv ==
    ASSUME IInv, NEW t \in FileTypes, phase = t, Hits(t) # {},
           searchPos' = Min(Hits(t)) + 1,
           UNCHANGED <<disk, call, phase, byteOffset, carvedFiles, success>>,
           readFailed' \in BOOLEAN, readFailed => readFailed'
    PROVE  IInv'
<1>1. byteOffset < TotalBytes /\ IsSectorRangeValid(startSector, numSectors)
  BY DEF IInv, InRange, Active
<1>2. byteOffset \in Nat /\ searchPos \in Nat /\ searchPos' \in Nat
      /\ searchPos <= searchPos' /\ searchPos' <= ChunkBytes
  <2>1. TypeOK
    BY DEF IInv
  <2>2. Min(Hits(t)) \in Nat /\ searchPos <= Min(Hits(t)) /\ Min(Hits(t)) < Len(ScanData)
    BY <1>1, <2>1, NextFile
  <2>3. Len(ScanData) \in Nat /\ Len(ScanData) <= ChunkBytes
    BY <1>1, <2>1, ScanDataLength
  <2>4. byteOffset \in Nat /\ searchPos \in Nat /\ ChunkBytes \in Nat
    BY <2>1, SizesAssumption DEF TypeOK
  <2>5. QED
    BY <2>2, <2>3, <2>4
<1>3. TypeOK'
  <2>1. searchPos' \in 0 .. ChunkBytes
    BY <1>2, SizesAssumption
  <2>2. QED
    BY <2>1 DEF IInv, TypeOK, call
<1>4. InRange'
  BY <1>1 DEF InRange, IsSectorRangeValid, TotalSectors, TotalBytes, call
<1>5. Numbered' /\ Ordered' /\ DisjointFiles'
  BY FilesUntouched
<1>6. Behind'
  <2> SUFFICES ASSUME NEW n \in DOMAIN carvedFiles
               PROVE  carvedFiles[n].to <= byteOffset + SearchedTo(n[2])'
    BY DEF Behind
  <2>1. carvedFiles[n].to \in Nat
    BY DEF IInv, TypeOK
  <2>2. carvedFiles[n].to <= byteOffset + SearchedTo(n[2])
    BY DEF IInv, Behind, Active
  <2>3. /\ SearchedTo(n[2]) \in Nat /\ SearchedTo(n[2])' \in Nat
        /\ SearchedTo(n[2]) <= SearchedTo(n[2])'
    BY <1>2, SizesAssumption DEF SearchedTo
  <2>4. QED
    BY <1>2, <2>1, <2>2, <2>3
<1>7. Tally'
  BY DEF IInv, Tally, FileTypes
<1>8. QED
  BY <1>3, <1>4, <1>5, <1>6, <1>7 DEF IInv

(* A new file: its name is new, and it starts where the search stood, that *)
(* is, behind every file of its type.                                      *)
LEMMA ExtractKeepsInv ==
    ASSUME IInv, NEW t \in FileTypes, Extract(t)
    PROVE  /\ IInv'
           /\ \A n \in DOMAIN carvedFiles :
                  n \in DOMAIN carvedFiles' /\ carvedFiles'[n] = carvedFiles[n]
<1> DEFINE p    == Min(Hits(t))
           end  == EndOf(t, p)
           from == byteOffset + p
           to   == byteOffset + end
           name == NextName(t)
           file == [data |-> ExtractFileData(from, to - from), from |-> from, to |-> to]
           D    == DOMAIN carvedFiles
<1>1. phase = t /\ Hits(t) # {} /\ success' = TRUE
      /\ UNCHANGED <<disk, call, phase, byteOffset, readFailed>>
  BY DEF Extract, CanExtract
<1>2. Store(name, file) /\ searchPos' = end
  BY DEF Extract, ResumeAfter
<1>3. TypeOK /\ byteOffset < TotalBytes /\ IsSectorRangeValid(startSector, numSectors)
  BY <1>1 DEF IInv, InRange, Active
<1>4. byteOffset \in Nat /\ ChunkBytes \in Nat /\ TotalBytes \in Nat /\ searchPos \in Nat
  BY <1>3, SizesAssumption, Products DEF TypeOK, TotalBytes
<1>5. p \in Nat /\ searchPos <= p /\ end \in Nat /\ p < end
      /\ end <= ChunkBytes /\ byteOffset + end <= TotalBytes
  <2>1. p \in Nat /\ searchPos <= p /\ end \in Nat /\ p < end /\ end <= Len(ScanData)
    BY <1>1, <1>3, NextFile
  <2>2. Len(ScanData) \in Nat /\ Len(ScanData) <= ChunkBytes
        /\ byteOffset + Len(ScanData) <= TotalBytes
    BY <1>3, ScanDataLength
  <2> HIDE DEF p, end
  <2>3. QED
    BY <1>4, <2>1, <2>2
<1> HIDE DEF p, end
<1>6. from \in Nat /\ to \in Nat /\ from < to /\ to <= TotalBytes
  BY <1>4, <1>5
<1>7. file.data \in Seq(STRING)
  <2> HIDE DEF from, to
  <2>1. QED
    BY <1>3, <1>6, ExtractedData
<1> HIDE DEF from, to
<1>8. file \in [data : Seq(STRING), from : Nat, to : Nat]
      /\ file.from = from /\ file.to = to
  BY <1>6, <1>7
<1> HIDE DEF file
<1>9. /\ IsFiniteSet(D) /\ Cardinality(D) \in Nat
      /\ D \subseteq Nat \X FileTypes
      /\ \A n \in D : n[1] \in Nat /\ n[1] < Cardinality(D)
  <2>1. IsFiniteSet(D) /\ D \subseteq Nat \X FileTypes
    BY <1>3 DEF TypeOK
  <2>2. Cardinality(D) \in Nat
    BY <2>1, FS_CardinalityType
  <2>3. \A n \in D : n[1] < Cardinality(D)
    BY DEF IInv, Numbered
  <2>4. QED
    BY <2>1, <2>2, <2>3
<1>10. name = <<Cardinality(D), t>> /\ name[1] = Cardinality(D) /\ name[2] = t
       /\ name \in Nat \X FileTypes
  BY <1>9 DEF NextName
<1> HIDE DEF name
<1>11. name \notin D
  BY <1>9, <1>10
<1>12. /\ DOMAIN carvedFiles' = D \cup {name}
       /\ carvedFiles'[name] = file
       /\ \A n \in D : carvedFiles'[n] = carvedFiles[n]
  BY <1>2, <1>11 DEF Store
<1>13. IsFiniteSet(DOMAIN carvedFiles') /\ Cardinality(DOMAIN carvedFiles') = Cardinality(D) + 1
  BY <1>9, <1>11, <1>12, FS_AddElement
<1>14. TypeOK'
  <2>1. DOMAIN carvedFiles' \subseteq Nat \X FileTypes
    BY <1>9, <1>10, <1>12
  <2>2. \A n \in DOMAIN carvedFiles' :
            carvedFiles'[n] \in [data : Seq(STRING), from : Nat, to : Nat]
    BY <1>3, <1>8, <1>12 DEF TypeOK
  <2>3. searchPos' \in 0 .. ChunkBytes
    BY <1>2, <1>4, <1>5
  <2>4. success' \in BOOLEAN
    BY <1>1
  <2>5. QED
    BY <1>1, <1>3, <1>13, <2>1, <2>2, <2>3, <2>4 DEF TypeOK, call
<1>15. InRange'
  BY <1>1, <1>3 DEF InRange, IsSectorRangeValid, TotalSectors, TotalBytes, call
<1>16. Numbered'
  <2>1. \A n \in DOMAIN carvedFiles' : n[1] < Cardinality(D) + 1
    BY <1>9, <1>10, <1>12
  <2>2. QED
    BY <1>13, <2>1 DEF Numbered
<1>17. Tally'
  <2>1. carvedFiles' # <<>>
    BY <1>12, NoFiles
  <2>2. QED
    BY <1>1, <2>1 DEF Tally, FileTypes
<1>18. \A n \in D : /\ carvedFiles[n].from \in Nat /\ carvedFiles[n].to \in Nat
                    /\ n[2] = t => carvedFiles[n].to <= byteOffset + searchPos
  <2>1. \A n \in D : carvedFiles[n].to <= byteOffset + SearchedTo(n[2])
    BY <1>1 DEF IInv, Behind, Active
  <2>2. SearchedTo(t) = searchPos
    BY <1>1 DEF SearchedTo
  <2>3. QED
    BY <1>3, <2>1, <2>2 DEF TypeOK
<1>19. Behind'
  <2> SUFFICES ASSUME NEW n \in DOMAIN carvedFiles'
               PROVE  carvedFiles'[n].to <= byteOffset + SearchedTo(n[2])'
    BY <1>1 DEF Behind
  <2>1. SearchedTo(t)' = end
    BY <1>1, <1>2 DEF SearchedTo
  <2>2. CASE n = name
    BY <1>8, <1>10, <1>12, <1>4, <1>5, <2>1, <2>2 DEF to
  <2>3. CASE n \in D /\ n[2] = t
    BY <1>4, <1>5, <1>12, <1>18, <2>1, <2>3
  <2>4. CASE n \in D /\ n[2] # t
    <3>1. SearchedTo(n[2])' = SearchedTo(n[2])
      BY <1>1, <2>4 DEF SearchedTo
    <3>2. QED
      BY <1>1, <1>12, <2>4, <3>1 DEF IInv, Behind, Active
  <2>5. QED
    BY <1>12, <2>2, <2>3, <2>4
<1>20. Ordered'
  <2>1. file.from <= file.to
    BY <1>6, <1>8
  <2>2. QED
    BY <1>12, <2>1 DEF IInv, Ordered
<1>21. DisjointFiles'
  <2>1. \A n \in D : n[2] = t => carvedFiles[n].to <= from
    BY <1>4, <1>5, <1>18 DEF from
  <2>2. \A m, n \in D : m # n /\ m[2] = n[2] =>
            carvedFiles[m].to <= carvedFiles[n].from \/ carvedFiles[n].to <= carvedFiles[m].from
    BY DEF IInv, DisjointFiles
  <2>3. QED
    BY <1>8, <1>10, <1>12, <2>1, <2>2 DEF DisjointFiles
<1>22. QED
  BY <1>12, <1>14, <1>15, <1>16, <1>17, <1>19, <1>20, <1>21 DEF IInv

LEMMA StutterKeepsInv ==
    ASSUME IInv, UNCHANGED vars
    PROVE  IInv'
<1>1. UNCHANGED <<disk, call, startSector, numSectors, phase, byteOffset, searchPos,
                  carvedFiles, success, readFailed>>
  BY DEF vars, call
<1>2. Numbered' /\ Ordered' /\ DisjointFiles'
  BY <1>1, FilesUntouched
<1>3. TypeOK' /\ Tally'
  BY <1>1 DEF IInv, TypeOK, Tally
<1>4. InRange'
  BY <1>1 DEF IInv, InRange, Active, IsSectorRangeValid, TotalSectors, TotalBytes
<1>5. Behind'
  BY <1>1 DEF IInv, Behind, Active, SearchedTo
<1>6. QED
  BY <1>2, <1>3, <1>4, <1>5 DEF IInv

LEMMA NextKeepsInv == IInv /\ [Next]_vars => IInv'
<1> SUFFICES ASSUME IInv, [Next]_vars PROVE IInv'
  OBVIOUS
<1>1. ASSUME NEW start \in 0 .. TotalSectors, NEW num \in 0 .. TotalSectors,
             NEW valid \in BOOLEAN, CarveFiles(start, num, valid)
      PROVE  IInv'
  BY <1>1, CarveFilesKeepsInv
<1>2. ASSUME NEW ok \in BOOLEAN, ReadChunk(ok) PROVE IInv'
  BY <1>2, ReadChunkKeepsInv
<1>3. CASE ReturnSuccess
  BY <1>3, ReturnSuccessKeepsInv
<1>4. ASSUME NEW t \in FileTypes, SearchEnds(t) PROVE IInv'
  BY <1>4, SearchEndsKeepsInv
<1>5. ASSUME NEW t \in FileTypes, Extract(t) PROVE IInv'
  BY <1>5, ExtractKeepsInv
<1>6. ASSUME NEW t \in FileTypes, ExtractFails(t) PROVE IInv'
  <2>1. phase = t /\ Hits(t) # {} /\ searchPos' = Min(Hits(t)) + 1 /\ readFailed' = TRUE
        /\ UNCHANGED <<disk, call, phase, byteOffset, carvedFiles, success>>
    BY <1>6 DEF ExtractFails, CanExtract
  <2>2. QED
    BY <2>1, MovingOnKeepsInv
<1>7. CASE SkipEndless
  <2>1. phase = "JPEG" /\ Hits("JPEG") # {} /\ searchPos' = Min(Hits("JPEG")) + 1
        /\ UNCHANGED <<disk, call, phase, byteOffset, carvedFiles, success>>
        /\ readFailed' = readFailed
    BY <1>7 DEF SkipEndless
  <2>2. readFailed' \in BOOLEAN /\ (readFailed => readFailed')
    BY <2>1 DEF IInv, TypeOK
  <2>3. QED
    BY <2>1, <2>2, MovingOnKeepsInv DEF FileTypes
<1>8. CASE UNCHANGED vars
  BY <1>8, StutterKeepsInv
<1>9. QED
  BY <1>1, <1>2, <1>3, <1>4, <1>5, <1>6, <1>7, <1>8 DEF Next, Scan

LEMMA Inductive == Spec => []IInv
  BY InitInv, NextKeepsInv, PTL DEF Spec

-----------------------------------------------------------------------------

(* The variables keep their types: in particular every byte carved is a    *)
(* byte of the disk.                                                       *)
THEOREM TypeCorrect == Spec => []TypeOK
<1>1. IInv => TypeOK
  BY DEF IInv
<1>2. QED
  BY <1>1, Inductive, PTL

(* Files of one type never overlap.                                        *)
THEOREM FilesAlwaysDisjoint == Spec => []DisjointFiles
<1>1. IInv => DisjointFiles
  BY DEF IInv
<1>2. QED
  BY <1>1, Inductive, PTL

(* The result tells whether files were carved, unless a read failed.       *)
THEOREM ResultAlwaysHonest == Spec => []HonestResult
<1>1. IInv => HonestResult
  BY DEF IInv, Tally, HonestResult
<1>2. QED
  BY <1>1, Inductive, PTL

(* No file is lost to a second one of the same name.                       *)
THEOREM FilesKept == Spec => NothingOverwritten
<1> DEFINE Kept == \A n \in DOMAIN carvedFiles :
                       n \in DOMAIN carvedFiles' /\ carvedFiles'[n] = carvedFiles[n]
           Step == phase \notin {"idle"} \cup Returned => Kept
<1>1. ASSUME IInv, [Next]_vars PROVE [Step]_vars
  <2>1. ASSUME NEW t \in FileTypes, Extract(t) PROVE Kept
    BY <1>1, <2>1, ExtractKeepsInv
  <2>2. CASE UNCHANGED carvedFiles
    BY <2>2
  <2>3. CASE phase \in {"idle"} \cup Returned
    BY <2>3
  <2> HIDE DEF Kept
  <2>4. QED
    BY <1>1, <2>1, <2>2, <2>3 DEF Next, Scan, CarveFiles, ReadChunk, ReturnSuccess,
       SearchEnds, ExtractFails, SkipEndless, vars
<1>2. QED
  BY <1>1, Inductive, PTL DEF Spec, NothingOverwritten

-----------------------------------------------------------------------------
(* The bytes of a chunk.  From here on a chunk is a whole number of        *)
(* sectors, so that no chunk begins within a sector.                       *)

Aligned == ChunkBytes % SectorBytes = 0

OnChunkStart == \E k \in Nat : byteOffset = k * ChunkBytes

(* e is the part of s that begins behind position f.                       *)
LEMMA EqualPieces ==
    ASSUME NEW S, NEW s \in Seq(S), NEW e \in Seq(S), NEW f \in Nat,
           f + Len(e) <= Len(s), \A i \in 1 .. Len(e) : e[i] = s[f + i],
           NEW a \in Nat, NEW b \in Nat, a + b <= Len(e)
    PROVE  SubSeq(e, a + 1, a + b) = SubSeq(s, f + a + 1, f + a + b)
<1> DEFINE u == SubSeq(e, a + 1, a + b)
           v == SubSeq(s, f + a + 1, f + a + b)
<1>1. Len(e) \in Nat /\ Len(s) \in Nat
  BY LenProperties
<1>2. /\ \A i \in a + 1 .. a + b : i \in 1 .. Len(e) /\ e[i] \in S
      /\ \A i \in f + a + 1 .. f + a + b : i \in 1 .. Len(s) /\ s[i] \in S
  BY <1>1, ElementOfSeq
<1>3. /\ u \in Seq(S) /\ Len(u) = (IF a + 1 <= a + b THEN a + b - (a + 1) + 1 ELSE 0)
      /\ \A i \in 1 .. a + b - (a + 1) + 1 : u[i] = e[a + 1 + i - 1]
  BY <1>2, SubSeqProperties
<1>4. /\ v \in Seq(S)
      /\ Len(v) = (IF f + a + 1 <= f + a + b THEN f + a + b - (f + a + 1) + 1 ELSE 0)
      /\ \A i \in 1 .. f + a + b - (f + a + 1) + 1 : v[i] = s[f + a + 1 + i - 1]
  <2>1. f + a + 1 \in Int /\ f + a + b \in Int
    OBVIOUS
  <2>2. QED
    BY <1>2, <2>1, SubSeqProperties
<1> HIDE DEF u, v
<1>5. Len(u) = b /\ Len(v) = b
  BY <1>3, <1>4
<1>6. ASSUME NEW i \in 1 .. b PROVE u[i] = v[i]
  <2>1. u[i] = e[a + i] /\ v[i] = s[f + (a + i)]
    <3>1. i \in 1 .. a + b - (a + 1) + 1 /\ i \in 1 .. f + a + b - (f + a + 1) + 1
      OBVIOUS
    <3>2. a + 1 + i - 1 = a + i /\ f + a + 1 + i - 1 = f + (a + i)
      OBVIOUS
    <3>3. QED
      BY <1>3, <1>4, <3>1, <3>2
  <2>2. a + i \in 1 .. Len(e)
    BY <1>1
  <2>3. QED
    BY <2>1, <2>2
<1>7. QED
  BY <1>3, <1>4, <1>5, <1>6, SeqEqual DEF u, v

LEMMA WholeSectors ==
    ASSUME Aligned, OnChunkStart
    PROVE  byteOffset \in Nat /\ (byteOffset \div SectorBytes) * SectorBytes = byteOffset
<1>1. SectorBytes \in Nat \ {0} /\ ChunkBytes \in Nat \ {0}
  BY SizesAssumption
<1>2. PICK k \in Nat : byteOffset = k * ChunkBytes
  BY DEF OnChunkStart
<1> DEFINE m == ChunkBytes \div SectorBytes
           n == k * m
           q == byteOffset \div SectorBytes
           r == byteOffset % SectorBytes
<1>3. m \in Nat /\ ChunkBytes = m * SectorBytes
  BY <1>1, Division DEF Aligned
<1> HIDE DEF m
<1>4. n \in Nat /\ byteOffset \in Nat /\ byteOffset = n * SectorBytes
  <2>1. n \in Nat /\ byteOffset \in Nat
    BY <1>1, <1>2, <1>3, Products
  <2>2. k * (m * SectorBytes) = (k * m) * SectorBytes
    BY <1>1, <1>3
  <2>3. QED
    BY <1>2, <1>3, <2>1, <2>2
<1> HIDE DEF n
<1>5. q \in Nat /\ r \in 0 .. SectorBytes - 1 /\ byteOffset = q * SectorBytes + r
  BY <1>1, <1>4, Division
<1> HIDE DEF q, r
<1>6. q * SectorBytes \in Nat /\ n * SectorBytes \in Nat
  BY <1>1, <1>4, <1>5, Products
<1>7. ~(q + 1 <= n)
  <2> SUFFICES ASSUME q + 1 <= n PROVE FALSE
    OBVIOUS
  <2>1. (q + 1) * SectorBytes <= n * SectorBytes
        /\ (q + 1) * SectorBytes = q * SectorBytes + 1 * SectorBytes
    <3>1. q + 1 \in Nat /\ SectorBytes \in Nat /\ 1 \in Nat
      BY <1>1, <1>5
    <3>2. QED
      BY <1>4, <1>5, <3>1, Products
  <2>2. QED
    BY <1>1, <1>4, <1>5, <1>6, <2>1
<1>8. q * SectorBytes <= byteOffset
  BY <1>1, <1>5, <1>6
<1>9. n <= q
  BY <1>4, <1>5, <1>7
<1>10. n * SectorBytes <= q * SectorBytes
  BY <1>1, <1>4, <1>5, <1>9, Products
<1>11. QED
  BY <1>4, <1>6, <1>8, <1>10 DEF q

(* What the range is on the disk, in bytes.                                *)
LEMMA RangeOnDisk ==
    ASSUME TypeOK, IsSectorRangeValid(startSector, numSectors)
    PROVE  /\ disk \in Seq(STRING) /\ Len(disk) \in Nat
           /\ startSector * SectorBytes \in Nat /\ TotalBytes \in Nat
           /\ startSector * SectorBytes + TotalBytes <= Len(disk)
<1>1. SectorBytes \in Nat \ {0} /\ SectorBytes \in Nat
  BY SizesAssumption
<1>2. disk \in Seq(STRING) /\ Len(disk) \in Nat
  BY DisksAssumption, LenProperties DEF TypeOK
<1>3. startSector \in Nat /\ numSectors \in Nat /\ startSector + numSectors \in Nat
  BY DEF TypeOK
<1>4. /\ TotalSectors \in Nat
      /\ Len(disk) % SectorBytes \in 0 .. SectorBytes - 1
      /\ Len(disk) = TotalSectors * SectorBytes + (Len(disk) % SectorBytes)
  BY <1>1, <1>2, Division DEF TotalSectors
<1>5. TotalSectors * SectorBytes \in Nat /\ startSector * SectorBytes \in Nat /\ TotalBytes \in Nat
  BY <1>1, <1>3, <1>4, Products DEF TotalBytes
<1>6. (startSector + numSectors) * SectorBytes <= TotalSectors * SectorBytes
  <2>1. startSector + numSectors <= TotalSectors
    BY DEF IsSectorRangeValid
  <2>2. QED
    BY <1>1, <1>3, <1>4, <2>1, Products
<1>7. (startSector + numSectors) * SectorBytes = startSector * SectorBytes + TotalBytes
  BY <1>1, <1>3, Products DEF TotalBytes
<1>8. TotalSectors * SectorBytes <= Len(disk)
  <2> HIDE DEF TotalSectors
  <2>1. QED
    BY <1>1, <1>2, <1>4, <1>5
<1>9. QED
  BY <1>2, <1>5, <1>6, <1>7, <1>8

(* A chunk holds the bytes of the disk at its offset in the range.         *)
LEMMA ScanDataBytes ==
    ASSUME Aligned, OnChunkStart, TypeOK, byteOffset < TotalBytes,
           IsSectorRangeValid(startSector, numSectors)
    PROVE  /\ ScanData \in Seq(STRING) /\ Len(ScanData) = ScanSize
           /\ ScanSize \in Nat /\ ScanSize <= ChunkBytes /\ byteOffset + ScanSize <= TotalBytes
           /\ ScanSize = ChunkBytes \/ byteOffset + ScanSize = TotalBytes
           /\ \A i \in 1 .. ScanSize :
                  ScanData[i] = disk[startSector * SectorBytes + byteOffset + i]
<1> DEFINE S == startSector * SectorBytes
           z == ScanSize
           a == byteOffset \div SectorBytes
           x == RoundUp(z)
           y == startSector + numSectors - ScanStartSector
           count == Min({x, y})
           raw == ReadSectors(ScanStartSector, count)
<1>1. /\ SectorBytes \in Nat \ {0} /\ SectorBytes \in Nat /\ ChunkBytes \in Nat
      /\ startSector \in Nat /\ numSectors \in Nat
  BY SizesAssumption DEF TypeOK
<1>2. /\ disk \in Seq(STRING) /\ Len(disk) \in Nat /\ S \in Nat /\ TotalBytes \in Nat
      /\ S + TotalBytes <= Len(disk)
  BY RangeOnDisk
<1>3. byteOffset \in Nat /\ a * SectorBytes = byteOffset /\ a \in Nat
  <2>1. byteOffset \in Nat /\ a * SectorBytes = byteOffset
    BY WholeSectors
  <2>2. QED
    BY <1>1, <2>1, Division
<1>4. /\ z \in Nat /\ z <= ChunkBytes /\ byteOffset + z <= TotalBytes
      /\ z = ChunkBytes \/ byteOffset + z = TotalBytes
  <2>1. TotalBytes - byteOffset \in Nat
    BY <1>2, <1>3
  <2>2. z \in Nat /\ z \in {ChunkBytes, TotalBytes - byteOffset} /\ z <= ChunkBytes
        /\ z <= TotalBytes - byteOffset
    BY <1>1, <2>1, MinOfTwo DEF ScanSize
  <2> HIDE DEF z
  <2>3. QED
    BY <1>1, <1>2, <1>3, <2>1, <2>2
<1> HIDE DEF a, z
<1>5. a <= numSectors
  <2>1. CASE numSectors + 1 <= a
    <3>1. numSectors * SectorBytes <= a * SectorBytes
      BY <1>1, <1>3, <2>1, Products
    <3>2. QED
      BY <1>2, <1>3, <3>1 DEF TotalBytes
  <2>2. QED
    BY <1>1, <1>3, <2>1
<1>6. ScanStartSector = startSector + a /\ ScanStartSector \in Nat /\ y \in Nat /\ y = numSectors - a
  BY <1>1, <1>3, <1>5 DEF ScanStartSector, a
<1>7. x \in Nat /\ z <= x * SectorBytes
  BY <1>1, <1>4, Rounding DEF RoundUp
<1>8. y * SectorBytes \in Nat /\ y * SectorBytes = TotalBytes - byteOffset
  <2>1. (numSectors - a) * SectorBytes = numSectors * SectorBytes - a * SectorBytes
    BY <1>1, <1>3, Products
  <2> HIDE DEF y
  <2>2. QED
    BY <1>1, <1>2, <1>3, <1>6, <2>1, Products DEF TotalBytes
<1> HIDE DEF x, y
<1>9. count \in Nat /\ count \in {x, y} /\ count <= y
  BY <1>6, <1>7, MinOfTwo
<1> HIDE DEF count
<1>10. count * SectorBytes \in Nat /\ z <= count * SectorBytes
       /\ count * SectorBytes <= y * SectorBytes
  <2>1. count * SectorBytes \in Nat /\ count * SectorBytes <= y * SectorBytes
    BY <1>1, <1>6, <1>9, Products
  <2>2. z <= count * SectorBytes
    BY <1>2, <1>3, <1>4, <1>7, <1>8, <1>9
  <2>3. QED
    BY <2>1, <2>2
<1>11. /\ ScanStartSector * SectorBytes = S + byteOffset
       /\ (ScanStartSector + count) * SectorBytes = S + byteOffset + count * SectorBytes
  <2>1. ScanStartSector * SectorBytes = S + byteOffset
    BY <1>1, <1>3, <1>6, Products
  <2>2. (ScanStartSector + count) * SectorBytes = ScanStartSector * SectorBytes + count * SectorBytes
    BY <1>1, <1>6, <1>9, Products
  <2>3. QED
    BY <2>1, <2>2
<1> DEFINE lo == S + byteOffset + 1
           hi == S + byteOffset + count * SectorBytes
<1>12. raw = SubSeq(disk, lo, hi)
  BY <1>11 DEF ReadSectors
<1>13. lo \in Int /\ hi \in Int /\ \A i \in lo .. hi : i \in 1 .. Len(disk) /\ disk[i] \in STRING
  <2>1. lo \in Int /\ hi \in Int /\ 1 <= lo /\ hi <= Len(disk)
    <3> HIDE DEF S
    <3>1. QED
      BY <1>2, <1>3, <1>8, <1>10
  <2> HIDE DEF lo, hi
  <2>2. \A i \in lo .. hi : i \in 1 .. Len(disk)
    BY <1>2, <2>1
  <2>3. QED
    BY <1>2, <2>1, <2>2, ElementOfSeq
<1> DEFINE w == hi - lo + 1
<1>14. /\ raw \in Seq(STRING) /\ Len(raw) = (IF lo <= hi THEN w ELSE 0)
       /\ \A i \in 1 .. w : raw[i] = disk[lo + i - 1]
  <2> HIDE DEF lo, hi
  <2>1. QED
    BY <1>12, <1>13, SubSeqProperties
<1>15. w = count * SectorBytes
  <2> HIDE DEF S
  <2>1. QED
    BY <1>2, <1>3, <1>10
<1>16. Len(raw) \in Nat /\ z <= Len(raw)
  <2> HIDE DEF lo, hi
  <2>1. w = hi - lo + 1 /\ lo \in Int /\ hi \in Int
    BY <1>13
  <2> HIDE DEF w
  <2>2. QED
    BY <1>4, <1>10, <1>14, <1>15, <2>1
<1>17. ScanData = SubSeq(raw, 1, z)
  BY DEF ScanData, x, y, z, count
<1> HIDE DEF raw
<1>18. \A i \in 1 .. z : raw[i] \in STRING /\ i \in 1 .. w
  <2> HIDE DEF w
  <2>1. QED
    BY <1>4, <1>10, <1>14, <1>15, <1>16, ElementOfSeq
<1>19. /\ ScanData \in Seq(STRING) /\ Len(ScanData) = (IF 1 <= z THEN z - 1 + 1 ELSE 0)
       /\ \A i \in 1 .. z - 1 + 1 : ScanData[i] = raw[1 + i - 1]
  BY <1>4, <1>17, <1>18, SubSeqProperties
<1>20. Len(ScanData) = z
  BY <1>4, <1>19
<1>21. ASSUME NEW i \in 1 .. z
       PROVE  ScanData[i] = disk[S + byteOffset + i]
  <2>1. i \in 1 .. z - 1 + 1 /\ 1 + i - 1 = i
    BY <1>4
  <2>2. ScanData[i] = raw[i]
    BY <1>19, <2>1
  <2>3. raw[i] = disk[lo + i - 1]
    <3> HIDE DEF w, lo
    <3>1. QED
      BY <1>14, <1>18
  <2>4. lo + i - 1 = S + byteOffset + i
    <3> HIDE DEF S
    <3>1. QED
      BY <1>2, <1>3
  <2>5. QED
    BY <2>2, <2>3, <2>4
<1>22. QED
  BY <1>4, <1>19, <1>20, <1>21 DEF z

(* Searching a chunk finds what lies there on the disk, and nothing else.  *)
LEMMA ChunkOccurrences ==
    ASSUME Aligned, OnChunkStart, TypeOK, byteOffset < TotalBytes,
           IsSectorRangeValid(startSector, numSectors),
           NEW sig, Len(sig) \in Nat, NEW from \in Nat, NEW q \in Nat
    PROVE  q \in Occurrences(ScanData, sig, from)
               <=> byteOffset + q \in InChunk(byteOffset, sig, byteOffset + from)
<1> DEFINE S == startSector * SectorBytes
           L == Len(sig)
           z == ScanSize
           end == Min({byteOffset + ChunkBytes, TotalBytes})
<1>1. /\ ScanData \in Seq(STRING) /\ Len(ScanData) = z
      /\ z \in Nat /\ z <= ChunkBytes /\ byteOffset + z <= TotalBytes
      /\ z = ChunkBytes \/ byteOffset + z = TotalBytes
      /\ \A i \in 1 .. z : ScanData[i] = disk[S + byteOffset + i]
  BY ScanDataBytes
<1>2. /\ disk \in Seq(STRING) /\ Len(disk) \in Nat /\ S \in Nat /\ TotalBytes \in Nat
      /\ S + TotalBytes <= Len(disk)
  BY RangeOnDisk
<1>3. byteOffset \in Nat /\ ChunkBytes \in Nat
  BY SizesAssumption DEF TypeOK
<1>4. end = byteOffset + z
  <2>1. end \in {byteOffset + ChunkBytes, TotalBytes}
        /\ end <= byteOffset + ChunkBytes /\ end <= TotalBytes
    BY <1>2, <1>3, MinOfTwo
  <2> HIDE DEF end, z
  <2>2. QED
    BY <1>1, <1>2, <1>3, <2>1
<1> HIDE DEF end, z, S, L
<1>5. q + L <= z => SubSeq(ScanData, q + 1, q + L)
                        = SubSeq(disk, S + (byteOffset + q) + 1, S + (byteOffset + q) + L)
  <2> SUFFICES ASSUME q + L <= z
               PROVE  SubSeq(ScanData, q + 1, q + L)
                          = SubSeq(disk, S + (byteOffset + q) + 1, S + (byteOffset + q) + L)
    OBVIOUS
  <2> DEFINE f == S + byteOffset
  <2>1. /\ f \in Nat /\ f + Len(ScanData) <= Len(disk)
        /\ L \in Nat /\ q + L <= Len(ScanData)
    BY <1>1, <1>2, <1>3 DEF L
  <2>2. \A i \in 1 .. Len(ScanData) : ScanData[i] = disk[f + i]
    BY <1>1
  <2>3. f + q = S + (byteOffset + q)
    BY <1>2, <1>3
  <2> HIDE DEF f
  <2>4. SubSeq(ScanData, q + 1, q + L) = SubSeq(disk, f + q + 1, f + q + L)
    BY <1>1, <1>2, <2>1, <2>2, EqualPieces
  <2>5. QED
    BY <2>3, <2>4
<1>6. Occurrences(ScanData, sig, from) =
          {p \in from .. z : p + L <= z /\ SubSeq(ScanData, p + 1, p + L) = sig}
  BY <1>1, Zenon DEF Occurrences, L
<1>7. InChunk(byteOffset, sig, byteOffset + from) =
          {p \in byteOffset + from .. TotalBytes :
              /\ S + p + L <= S + (byteOffset + z)
              /\ SubSeq(disk, S + p + 1, S + p + L) = sig}
  BY <1>4, Zenon DEF InChunk, L, S, end
<1>8. L \in Nat
  BY DEF L
<1>9. (q \in from .. z /\ q + L <= z) <=>
          (byteOffset + q \in byteOffset + from .. TotalBytes
              /\ S + (byteOffset + q) + L <= S + (byteOffset + z))
  BY <1>1, <1>2, <1>3, <1>8
<1>10. QED
  BY <1>5, <1>6, <1>7, <1>8, <1>9

(* A position is in one chunk only.                                        *)
LEMMA ChunksApart ==
    ASSUME OnChunkStart, NEW c \in ChunkStarts, TotalBytes \in Nat, NEW p \in Nat,
           c <= p, p < c + ChunkBytes, byteOffset <= p, p < byteOffset + ChunkBytes
    PROVE  c = byteOffset
<1>1. ChunkBytes \in Nat
  BY SizesAssumption
<1>2. PICK k \in Nat : byteOffset = k * ChunkBytes
  BY DEF OnChunkStart
<1>3. PICK m \in Nat : c = m * ChunkBytes
  BY DEF ChunkStarts
<1>4. ASSUME NEW i \in Nat, NEW j \in Nat, i + 1 <= j
      PROVE  i * ChunkBytes + ChunkBytes <= j * ChunkBytes
             /\ i * ChunkBytes \in Nat /\ j * ChunkBytes \in Nat
  <2>1. i + 1 \in Nat /\ 1 \in Nat
    OBVIOUS
  <2>2. (i + 1) * ChunkBytes <= j * ChunkBytes
        /\ (i + 1) * ChunkBytes = i * ChunkBytes + 1 * ChunkBytes
    BY <1>1, <1>4, <2>1, Products
  <2>3. QED
    BY <1>1, <2>2, Products
<1>5. ~(k + 1 <= m)
  BY <1>1, <1>2, <1>3, <1>4
<1>6. ~(m + 1 <= k)
  BY <1>1, <1>2, <1>3, <1>4
<1>7. k = m
  BY <1>5, <1>6
<1>8. QED
  BY <1>2, <1>3, <1>7

LEMMA PositionsAreNumbers ==
    ASSUME TotalBytes \in Nat, NEW c \in ChunkStarts, NEW sig, NEW p \in InChunk(c, sig, c)
    PROVE  c \in Nat /\ p \in Nat /\ c <= p /\ p <= TotalBytes
<1>1. ChunkBytes \in Nat
  BY SizesAssumption
<1>2. PICK m \in Nat : c = m * ChunkBytes
  BY DEF ChunkStarts
<1>3. c \in Nat
  BY <1>1, <1>2, Products
<1>4. p \in c .. TotalBytes
  BY Zenon DEF InChunk
<1>5. QED
  BY <1>3, <1>4

(* A signature within a chunk begins before the chunk ends.                *)
LEMMA WithinChunk ==
    ASSUME TypeOK, TotalBytes \in Nat, NEW c \in ChunkStarts, NEW t \in FileTypes,
           NEW p \in InChunk(c, StartSignature(t), c)
    PROVE  p < c + ChunkBytes /\ p < TotalBytes
<1> DEFINE S == startSector * SectorBytes
           L == Len(StartSignature(t))
           end == Min({c + ChunkBytes, TotalBytes})
<1>1. S \in Nat /\ ChunkBytes \in Nat
  BY SizesAssumption, Products DEF TypeOK
<1>2. c \in Nat /\ p \in Nat
  BY PositionsAreNumbers
<1>3. L \in Nat /\ L > 0
  BY Signatures
<1>4. end \in Nat /\ end <= c + ChunkBytes /\ end <= TotalBytes
  BY <1>1, <1>2, MinOfTwo
<1>5. S + p + L <= S + end
  BY Zenon DEF InChunk
<1> HIDE DEF S, L, end
<1>6. QED
  BY <1>1, <1>2, <1>3, <1>4, <1>5

-----------------------------------------------------------------------------
(* Nothing is missed.                                                      *)

Endless(c, t, p) ==
    t = "JPEG" /\ InChunk(c, EndSignature(t), p + Len(StartSignature(t))) = {}

Found(t, p) ==
    \E n \in DOMAIN carvedFiles :
        n[2] = t /\ carvedFiles[n].from <= p /\ p < carvedFiles[n].to

(* What the search for a type has passed, in this chunk and in those       *)
(* before, is in a file of that type.                                      *)
Complete ==
    Active /\ ~readFailed =>
        \A t \in FileTypes : \A c \in ChunkStarts : \A p \in InChunk(c, StartSignature(t), c) :
            p < byteOffset + SearchedTo(t) => Endless(c, t, p) \/ Found(t, p)

CInv == IInv /\ OnChunkStart /\ Complete /\ NothingMissed

LEMMA RangeKept ==
    ASSUME UNCHANGED <<disk, call>>
    PROVE  /\ TotalBytes' = TotalBytes /\ ChunkStarts' = ChunkStarts
           /\ \A c, sig, from : InChunk(c, sig, from)' = InChunk(c, sig, from)
           /\ \A c, t, p : Endless(c, t, p)' = Endless(c, t, p)
<1>1. UNCHANGED <<disk, startSector, numSectors>>
  BY DEF call
<1>2. TotalBytes' = TotalBytes
  BY <1>1 DEF TotalBytes
<1>3. ChunkStarts' = ChunkStarts
  BY <1>2, Zenon DEF ChunkStarts
<1>4. ASSUME NEW c, NEW sig, NEW from PROVE InChunk(c, sig, from)' = InChunk(c, sig, from)
  BY <1>1, <1>2, Zenon DEF InChunk
<1>5. ASSUME NEW c, NEW t, NEW p PROVE Endless(c, t, p)' = Endless(c, t, p)
  BY <1>4, Zenon DEF Endless
<1>6. QED
  BY <1>2, <1>3, <1>4, <1>5

(* A search moves on to position b of its chunk, when every hit before b   *)
(* is accounted for.                                                       *)
LEMMA SearchMovesOn ==
    ASSUME Aligned, IInv, OnChunkStart, Complete, ~readFailed, UNCHANGED <<disk, call>>,
           NEW t \in FileTypes, phase = t,
           \A n \in DOMAIN carvedFiles : n \in DOMAIN carvedFiles' /\ carvedFiles'[n] = carvedFiles[n],
           NEW b \in Nat, b <= ChunkBytes,
           \A q \in Hits(t), p \in Nat : q < b /\ p = byteOffset + q
                                            => Endless(byteOffset, t, p) \/ Found(t, p)',
           \A u \in FileTypes : byteOffset' + SearchedTo(u)'
                                    = byteOffset + (IF u = t THEN b ELSE SearchedTo(u))
    PROVE  Complete'
<1>1. /\ TypeOK /\ IsSectorRangeValid(startSector, numSectors) /\ byteOffset < TotalBytes
      /\ Active
  BY DEF IInv, InRange, Active
<1>2. TotalBytes \in Nat /\ byteOffset \in Nat /\ ChunkBytes \in Nat /\ searchPos \in Nat
  BY <1>1, RangeOnDisk, SizesAssumption DEF TypeOK
<1>3. SearchedTo(t) = searchPos
  BY DEF SearchedTo
<1>4. ASSUME NEW u \in FileTypes, NEW c \in ChunkStarts, NEW p \in InChunk(c, StartSignature(u), c),
             p < byteOffset' + SearchedTo(u)'
      PROVE  Endless(c, u, p) \/ Found(u, p)'
  <2>1. c \in Nat /\ p \in Nat /\ c <= p /\ p < c + ChunkBytes
    BY <1>1, <1>2, PositionsAreNumbers, WithinChunk
  <2>2. CASE p < byteOffset + SearchedTo(u)
    <3>1. Endless(c, u, p) \/ Found(u, p)
      BY <1>1, <2>2 DEF Complete
    <3>2. Found(u, p) => Found(u, p)'
      BY DEF Found
    <3>3. QED
      BY <3>1, <3>2
  <2>3. CASE ~(p < byteOffset + SearchedTo(u))
    <3>1. u = t /\ p < byteOffset + b
      BY <1>4, <2>3
    <3>2. byteOffset + searchPos <= p
      BY <1>2, <1>3, <2>1, <2>3, <3>1
    <3>3. c = byteOffset
      BY <1>2, <2>1, <3>1, <3>2, ChunksApart
    <3> DEFINE q == p - byteOffset
               sig == StartSignature(t)
    <3>4. q \in Nat /\ q < b /\ searchPos <= q /\ byteOffset + q = p
      BY <1>2, <2>1, <3>1, <3>2
    <3>5. p \in InChunk(byteOffset, sig, byteOffset + searchPos)
      <4>1. p \in byteOffset + searchPos .. TotalBytes
        BY <1>1, <1>2, <2>1, <3>2, WithinChunk
      <4>2. p \in InChunk(byteOffset, sig, byteOffset)
        BY <3>1, <3>3
      <4>3. QED
        BY <4>1, <4>2, Zenon DEF InChunk
    <3>6. Len(sig) \in Nat
      BY Signatures
    <3> HIDE DEF q, sig
    <3>7. q \in Occurrences(ScanData, sig, searchPos)
      BY <1>1, <1>2, <3>4, <3>5, <3>6, ChunkOccurrences
    <3>8. q \in Hits(t)
      BY <3>7 DEF Hits, sig
    <3>9. Endless(byteOffset, t, p) \/ Found(t, p)'
      BY <2>1, <3>4, <3>8
    <3>10. QED
      BY <3>1, <3>3, <3>9
  <2>4. QED
    BY <2>2, <2>3
<1>5. QED
  <2>1. \A c, u, p : Endless(c, u, p)' = Endless(c, u, p)
    BY RangeKept
  <2>2. ChunkStarts' = ChunkStarts
        /\ \A c, sig, from : InChunk(c, sig, from)' = InChunk(c, sig, from)
    BY RangeKept
  <2>3. QED
    BY <1>4, <2>1, <2>2, Zenon DEF Complete

(* Phases of a running call other than a search.                           *)
LEMMA NotReturned ==
    ASSUME phase \in {"chunk"} \cup FileTypes
    PROVE  NothingMissed
  BY DEF NothingMissed, Returned, FileTypes

LEMMA NotReturnedNext == (phase \in {"chunk"} \cup FileTypes => NothingMissed)'
  BY NotReturned, PTL

LEMMA InitComplete == Init => CInv
<1> SUFFICES ASSUME Init PROVE CInv
  OBVIOUS
<1>1. OnChunkStart
  <2>1. byteOffset = 0 * ChunkBytes /\ 0 \in Nat
    BY SizesAssumption DEF Init
  <2>2. QED
    BY <2>1 DEF OnChunkStart
<1>2. Complete
  BY DEF Init, Complete, Active, FileTypes
<1>3. NothingMissed
  BY DEF Init, NothingMissed, Returned
<1>4. QED
  BY <1>1, <1>2, <1>3, InitInv DEF CInv

LEMMA ChunkStartStep ==
    ASSUME IInv, OnChunkStart, [Next]_vars
    PROVE  OnChunkStart'
<1>1. ChunkBytes \in Nat /\ \A k \in Nat : k + 1 \in Nat /\ (k + 1) * ChunkBytes = k * ChunkBytes + ChunkBytes
  <2>1. ChunkBytes \in Nat /\ 1 \in Nat
    BY SizesAssumption
  <2>2. ASSUME NEW k \in Nat
        PROVE  k + 1 \in Nat /\ (k + 1) * ChunkBytes = k * ChunkBytes + ChunkBytes
    BY <2>1, Products
  <2>3. QED
    BY <2>1, <2>2
<1>2. CASE byteOffset' = byteOffset
  BY <1>2 DEF OnChunkStart
<1>3. CASE byteOffset' = 0
  <2>1. byteOffset' = 0 * ChunkBytes /\ 0 \in Nat
    BY <1>1, <1>3
  <2>2. QED
    BY <2>1 DEF OnChunkStart
<1>4. CASE byteOffset' = byteOffset + ChunkBytes
  <2>1. PICK k \in Nat : byteOffset = k * ChunkBytes
    BY DEF OnChunkStart
  <2>2. byteOffset' = (k + 1) * ChunkBytes /\ k + 1 \in Nat
    BY <1>1, <1>4, <2>1
  <2>3. QED
    BY <2>2 DEF OnChunkStart
<1>5. byteOffset' \in {byteOffset, 0, byteOffset + ChunkBytes}
  BY DEF Next, Scan, CarveFiles, ReadChunk, ReturnSuccess, SearchEnds, Extract, ExtractFails,
     SkipEndless, vars
<1>6. QED
  BY <1>2, <1>3, <1>4, <1>5

PositionsFit ==
    TypeOK /\ TotalBytes \in Nat =>
        \A c \in ChunkStarts, t \in FileTypes : \A p \in InChunk(c, StartSignature(t), c) :
            c \in Nat /\ p \in Nat /\ p < TotalBytes

LEMMA PositionsFitNext == PositionsFit'
<1>1. PositionsFit
  BY WithinChunk, PositionsAreNumbers DEF PositionsFit
<1>2. QED
  BY <1>1, PTL

LEMMA CarveFilesComplete ==
    ASSUME IInv, NEW start \in 0 .. TotalSectors, NEW num \in 0 .. TotalSectors,
           NEW valid \in BOOLEAN, CarveFiles(start, num, valid)
    PROVE  Complete' /\ NothingMissed'
<1>1. /\ byteOffset' = 0 /\ phase' \in {"chunk", "false"}
      /\ startSector' = start /\ numSectors' = num
  BY DEF CarveFiles
<1>2. num \in Nat /\ SectorBytes \in Nat /\ TypeOK'
  <2>1. IInv'
    BY CarveFilesKeepsInv
  <2>2. QED
    BY <2>1, SizesAssumption DEF IInv
<1>3. TotalBytes' \in Nat
  BY <1>1, <1>2, Products DEF TotalBytes
<1>4. ASSUME NEW c \in ChunkStarts', NEW t \in FileTypes,
             NEW p \in InChunk(c, StartSignature(t), c)'
      PROVE  c \in Nat /\ p \in Nat /\ p < TotalBytes'
  BY <1>2, <1>3, <1>4, PositionsFitNext DEF PositionsFit
<1>5. Complete'
  <2>1. \A t \in FileTypes : SearchedTo(t)' = 0
    BY <1>1 DEF SearchedTo, FileTypes
  <2>2. \A t \in FileTypes : \A c \in ChunkStarts' : \A p \in InChunk(c, StartSignature(t), c)' :
            ~(p < byteOffset' + SearchedTo(t)')
    BY <1>1, <1>4, <2>1
  <2>3. QED
    BY <2>2, Zenon DEF Complete
<1>6. NothingMissed'
  <2>1. CASE byteOffset' >= TotalBytes'
    <3>1. \A c \in ChunkStarts', t \in FileTypes : InChunk(c, StartSignature(t), c)' = {}
      BY <1>1, <1>3, <1>4, <2>1
    <3>2. QED
      BY <3>1, Zenon DEF NothingMissed
  <2>2. CASE ~(byteOffset' >= TotalBytes')
    BY <2>2, Zenon DEF NothingMissed
  <2>3. QED
    BY <2>1, <2>2
<1>7. QED
  BY <1>5, <1>6

LEMMA ReadChunkComplete ==
    ASSUME CInv, NEW ok \in BOOLEAN, ReadChunk(ok)
    PROVE  Complete' /\ NothingMissed'
<1>1. /\ phase = "chunk" /\ phase' = (IF ok THEN "JPEG" ELSE "false")
      /\ readFailed' = (readFailed \/ ~ok) /\ searchPos' = 0 /\ byteOffset' = byteOffset
      /\ UNCHANGED <<disk, call, carvedFiles>>
  BY DEF ReadChunk
<1>2. CASE readFailed'
  BY <1>2, Zenon DEF Complete, NothingMissed
<1>3. CASE ~readFailed'
  <2>1. ~readFailed /\ phase' = "JPEG"
    BY <1>1, <1>3
  <2>2. NothingMissed'
    BY <2>1, NotReturnedNext DEF FileTypes
  <2>3. \A t \in FileTypes : SearchedTo(t)' = SearchedTo(t)
    BY <1>1, <2>1 DEF SearchedTo, FileTypes
  <2>4. \A t \in FileTypes : \A c \in ChunkStarts : \A p \in InChunk(c, StartSignature(t), c) :
            p < byteOffset + SearchedTo(t) => Endless(c, t, p) \/ Found(t, p)
    BY <1>1, <2>1 DEF CInv, Complete, Active
  <2>5. \A t, p : Found(t, p)' = Found(t, p)
    BY <1>1, Zenon DEF Found
  <2>6. /\ ChunkStarts' = ChunkStarts
        /\ \A c, sig, from : InChunk(c, sig, from)' = InChunk(c, sig, from)
        /\ \A c, t, p : Endless(c, t, p)' = Endless(c, t, p)
    BY <1>1, RangeKept
  <2>7. Complete'
    BY <1>1, <2>3, <2>4, <2>5, <2>6, Zenon DEF Complete
  <2>8. QED
    BY <2>2, <2>7
<1>4. QED
  BY <1>2, <1>3

(* The scan is over: the last chunk's end is the range's.                  *)
LEMMA ReturnSuccessComplete ==
    ASSUME CInv, ReturnSuccess
    PROVE  Complete' /\ NothingMissed'
<1>1. /\ phase = "chunk" /\ phase' \in Returned /\ byteOffset >= TotalBytes
      /\ UNCHANGED <<disk, call, byteOffset, searchPos, carvedFiles, success, readFailed>>
  BY DEF ReturnSuccess, Returned
<1>2. Complete'
  BY <1>1 DEF Complete, Active, Returned, FileTypes
<1>3. /\ TypeOK /\ IsSectorRangeValid(startSector, numSectors)
  BY <1>1 DEF CInv, IInv, InRange, Active
<1>4. TotalBytes \in Nat /\ byteOffset \in Nat
  BY <1>3, RangeOnDisk DEF TypeOK
<1>5. ASSUME ~readFailed, NEW c \in ChunkStarts, NEW t \in FileTypes,
             NEW p \in InChunk(c, StartSignature(t), c)
      PROVE  Endless(c, t, p) \/ Found(t, p)
  <2>1. SearchedTo(t) = 0
    BY <1>1 DEF SearchedTo, FileTypes
  <2>2. p \in Nat /\ p < TotalBytes
    BY <1>3, <1>4, PositionsAreNumbers, WithinChunk
  <2>3. p < byteOffset + SearchedTo(t)
    BY <1>1, <1>4, <2>1, <2>2
  <2>4. QED
    BY <1>1, <1>5, <2>3 DEF CInv, Complete, Active
<1>6. ASSUME NEW t, NEW p, Found(t, p) PROVE \E f \in Files : f[1] = t /\ f[2].from <= p /\ p < f[2].to
  <2>1. PICK n \in DOMAIN carvedFiles : n[2] = t /\ carvedFiles[n].from <= p /\ p < carvedFiles[n].to
    BY <1>6 DEF Found
  <2>2. <<n[2], carvedFiles[n]>> \in Files
    BY DEF Files
  <2>3. QED
    BY <2>1, <2>2
<1> DEFINE Inside(t, p) == \E f \in Files : f[1] = t /\ f[2].from <= p /\ p < f[2].to
<1>7. ASSUME ~readFailed, NEW c \in ChunkStarts, NEW t \in FileTypes,
             NEW p \in InChunk(c, StartSignature(t), c)
      PROVE  Endless(c, t, p) \/ Inside(t, p)
  BY <1>5, <1>6, <1>7
<1>8. NothingMissed'
  <2>1. Files' = Files
    BY <1>1, Zenon DEF Files
  <2>2. /\ ChunkStarts' = ChunkStarts
        /\ \A c, sig, from : InChunk(c, sig, from)' = InChunk(c, sig, from)
        /\ \A c, t, p : Endless(c, t, p)' = Endless(c, t, p)
    BY <1>1, RangeKept
  <2>3. readFailed' = readFailed
    BY <1>1
  <2>4. ASSUME ~readFailed', NEW c \in ChunkStarts', NEW t \in FileTypes,
               NEW p \in InChunk(c, StartSignature(t), c)'
        PROVE  Endless(c, t, p)' \/ Inside(t, p)'
    <3>1. c \in ChunkStarts /\ p \in InChunk(c, StartSignature(t), c)
      BY <2>2, Zenon
    <3>2. ~readFailed
      BY <2>3, <2>4
    <3>3. Endless(c, t, p) \/ Inside(t, p)
      BY <1>7, <3>1, <3>2
    <3>4. Inside(t, p)' = Inside(t, p)
      BY <2>1, Zenon
    <3>5. QED
      BY <2>2, <3>3, <3>4
  <2>5. QED
    BY <2>4, Zenon DEF NothingMissed, Endless
<1>9. QED
  BY <1>2, <1>8

(* A search that finds nothing more has passed the rest of its chunk.      *)
LEMMA SearchEndsComplete ==
    ASSUME Aligned, CInv, NEW t \in FileTypes, SearchEnds(t)
    PROVE  Complete' /\ NothingMissed'
<1>1. /\ phase = t /\ Hits(t) = {} /\ searchPos' = 0
      /\ UNCHANGED <<disk, call, carvedFiles, success, readFailed>>
  BY DEF SearchEnds
<1>2. \/ t = "JPEG" /\ phase' = "PDF" /\ byteOffset' = byteOffset
      \/ t = "PDF" /\ phase' = "ZIP" /\ byteOffset' = byteOffset
      \/ t = "ZIP" /\ phase' = "chunk" /\ byteOffset' = byteOffset + ChunkBytes
  BY DEF SearchEnds, FileTypes
<1>3. NothingMissed'
  BY <1>2, NotReturnedNext DEF FileTypes
<1>4. byteOffset \in Nat /\ ChunkBytes \in Nat
  BY SizesAssumption DEF CInv, IInv, TypeOK
<1>5. ASSUME NEW u \in FileTypes
      PROVE  byteOffset' + SearchedTo(u)'
                 = byteOffset + (IF u = t THEN ChunkBytes ELSE SearchedTo(u))
  BY <1>1, <1>2, <1>4 DEF SearchedTo, FileTypes
<1>6. CASE readFailed
  <2>1. readFailed'
    BY <1>1, <1>6
  <2>2. Complete'
    BY <2>1, Zenon DEF Complete
  <2>3. QED
    BY <1>3, <2>2
<1>7. CASE ~readFailed
  <2>1. ChunkBytes <= ChunkBytes
    BY <1>4
  <2>2. Complete'
    BY <1>1, <1>4, <1>5, <1>7, <2>1, SearchMovesOn DEF CInv
  <2>3. QED
    BY <1>3, <2>2
<1>8. QED
  BY <1>6, <1>7

(* The next hit is the first from where the search stands.                 *)
LEMMA FirstHit ==
    ASSUME TypeOK, byteOffset < TotalBytes, NEW t \in FileTypes, Hits(t) # {}
    PROVE  /\ Min(Hits(t)) \in Hits(t) /\ Min(Hits(t)) \in Nat
           /\ Min(Hits(t)) + Len(StartSignature(t)) <= Len(ScanData)
           /\ \A q \in Hits(t) : q \in Nat /\ Min(Hits(t)) <= q
<1>1. Len(ScanData) \in Nat
  BY ScanDataLength
<1>2. searchPos \in Nat
  BY SizesAssumption DEF TypeOK
<1>3. /\ Hits(t) \in SUBSET Nat
      /\ \A p \in Hits(t) : p + Len(StartSignature(t)) <= Len(ScanData)
  BY <1>1, <1>2, OccurrencesFit DEF Hits
<1>4. QED
  BY <1>3, MinIsLeast

(* A start that is given up has no end in its chunk.                       *)
LEMMA SkipEndlessComplete ==
    ASSUME Aligned, CInv, SkipEndless
    PROVE  Complete' /\ NothingMissed'
<1> DEFINE m == Min(Hits("JPEG"))
           sig == EndSignature("JPEG")
           L == Len(StartSignature("JPEG"))
<1>1. /\ phase = "JPEG" /\ Hits("JPEG") # {} /\ Ends("JPEG", m) = {} /\ searchPos' = m + 1
      /\ UNCHANGED <<disk, call, phase, byteOffset, carvedFiles, readFailed>>
  BY DEF SkipEndless
<1>2. /\ TypeOK /\ IsSectorRangeValid(startSector, numSectors) /\ byteOffset < TotalBytes
      /\ IInv /\ OnChunkStart /\ Complete
  BY <1>1 DEF CInv, IInv, InRange, Active, FileTypes
<1>3. "JPEG" \in FileTypes
  BY DEF FileTypes
<1>4. /\ m \in Nat /\ \A q \in Hits("JPEG") : q \in Nat /\ m <= q
      /\ m + 1 <= ChunkBytes
  <2>1. m \in Nat /\ m < Len(ScanData)
    BY <1>1, <1>2, <1>3, NextFile
  <2>2. Len(ScanData) \in Nat /\ Len(ScanData) <= ChunkBytes
    BY <1>2, ScanDataLength
  <2>3. \A q \in Hits("JPEG") : q \in Nat /\ m <= q
    BY <1>1, <1>2, <1>3, FirstHit
  <2> HIDE DEF m
  <2>4. QED
    BY <2>1, <2>2, <2>3, SizesAssumption
<1>5. L \in Nat /\ Len(sig) \in Nat
  BY <1>3, Signatures
<1>6. byteOffset \in Nat /\ TotalBytes \in Nat
  BY <1>2, RangeOnDisk DEF TypeOK
<1> HIDE DEF m, sig, L
<1>7. InChunk(byteOffset, sig, byteOffset + (m + L)) = {}
  <2> SUFFICES ASSUME NEW p \in InChunk(byteOffset, sig, byteOffset + (m + L)) PROVE FALSE
    OBVIOUS
  <2>1. p \in byteOffset + (m + L) .. TotalBytes
    BY Zenon DEF InChunk
  <2> DEFINE q == p - byteOffset
  <2>2. q \in Nat /\ p = byteOffset + q /\ m + L \in Nat
    BY <1>4, <1>5, <1>6, <2>1
  <2> HIDE DEF q
  <2>3. q \in Occurrences(ScanData, sig, m + L)
    BY <1>2, <1>5, <2>2, ChunkOccurrences
  <2>4. q \in Ends("JPEG", m)
    BY <2>3 DEF Ends, sig, L
  <2>5. QED
    BY <1>1, <2>4 DEF m
<1>8. NothingMissed'
  BY <1>1, NotReturnedNext DEF FileTypes
<1>9. ASSUME NEW q \in Hits("JPEG"), NEW p \in Nat, q < m + 1, p = byteOffset + q
      PROVE  Endless(byteOffset, "JPEG", p)
  <2>1. q = m /\ p + L = byteOffset + (m + L)
    BY <1>4, <1>5, <1>6, <1>9
  <2>2. InChunk(byteOffset, sig, p + L) = {}
    BY <1>7, <2>1
  <2>3. QED
    BY <2>2 DEF Endless, sig, L
<1>10. CASE readFailed
  <2>1. readFailed'
    BY <1>1, <1>10
  <2>2. QED
    BY <1>8, <2>1, Zenon DEF Complete
<1>11. CASE ~readFailed
  <2>1. \A u \in FileTypes : byteOffset' + SearchedTo(u)'
                                 = byteOffset + (IF u = "JPEG" THEN m + 1 ELSE SearchedTo(u))
    BY <1>1 DEF SearchedTo, FileTypes, m
  <2>2. m + 1 \in Nat
    BY <1>4
  <2>3. \A q \in Hits("JPEG"), p \in Nat : q < m + 1 /\ p = byteOffset + q
            => Endless(byteOffset, "JPEG", p) \/ Found("JPEG", p)'
    BY <1>9
  <2>4. Complete'
    BY <1>1, <1>2, <1>3, <1>4, <1>11, <2>1, <2>2, <2>3, SearchMovesOn
  <2>5. QED
    BY <1>8, <2>4
<1>12. QED
  BY <1>10, <1>11

(* The hits up to the end of a carved file are inside that file.           *)
LEMMA ExtractComplete ==
    ASSUME Aligned, CInv, NEW t \in FileTypes, Extract(t)
    PROVE  Complete' /\ NothingMissed'
<1> DEFINE m == Min(Hits(t))
           end == EndOf(t, m)
           name == NextName(t)
           from == byteOffset + m
           to   == byteOffset + end
           file == [data |-> ExtractFileData(from, to - from), from |-> from, to |-> to]
<1>a. /\ phase = t /\ Hits(t) # {}
      /\ UNCHANGED <<disk, call, phase, byteOffset, readFailed>>
  BY DEF Extract, CanExtract
<1>b. Store(name, file) /\ searchPos' = end
  BY DEF Extract, ResumeAfter
<1>1. /\ phase = t /\ Hits(t) # {} /\ Store(name, file) /\ searchPos' = end
      /\ UNCHANGED <<disk, call, phase, byteOffset, readFailed>>
  BY <1>a, <1>b
<1>2. /\ TypeOK /\ IsSectorRangeValid(startSector, numSectors) /\ byteOffset < TotalBytes
      /\ IInv /\ OnChunkStart /\ Complete
  BY <1>1 DEF CInv, IInv, InRange, Active
<1>3. /\ \A n \in DOMAIN carvedFiles :
             n \in DOMAIN carvedFiles' /\ carvedFiles'[n] = carvedFiles[n]
      /\ name \in DOMAIN carvedFiles' /\ carvedFiles'[name] = file
  <2>1. \A n \in DOMAIN carvedFiles :
            n \in DOMAIN carvedFiles' /\ carvedFiles'[n] = carvedFiles[n]
    BY <1>2, ExtractKeepsInv
  <2> HIDE DEF name, file
  <2>2. QED
    BY <1>1, <2>1 DEF Store
<1>4. file.from = byteOffset + m /\ file.to = byteOffset + end
  BY Zenon
<1>5. name[2] = t
  BY DEF NextName
<1>6. /\ m \in Nat /\ end \in Nat /\ end <= ChunkBytes
      /\ \A q \in Hits(t) : q \in Nat /\ m <= q
  <2>1. m \in Nat /\ end \in Nat /\ end <= Len(ScanData)
    BY <1>1, <1>2, NextFile
  <2>2. Len(ScanData) \in Nat /\ Len(ScanData) <= ChunkBytes
    BY <1>2, ScanDataLength
  <2>3. \A q \in Hits(t) : q \in Nat /\ m <= q
    BY <1>1, <1>2, FirstHit
  <2> HIDE DEF m, end
  <2>4. QED
    BY <2>1, <2>2, <2>3, SizesAssumption
<1>7. byteOffset \in Nat
  BY <1>2 DEF TypeOK
<1> HIDE DEF m, end, name, file
<1>8. ASSUME NEW q \in Hits(t), NEW p \in Nat, q < end, p = byteOffset + q
      PROVE  Found(t, p)'
  <2>1. carvedFiles'[name].from <= p /\ p < carvedFiles'[name].to
    BY <1>3, <1>4, <1>6, <1>7, <1>8
  <2>2. QED
    BY <1>3, <1>5, <2>1, Zenon DEF Found
<1>9. NothingMissed'
  BY <1>1, NotReturnedNext
<1>10. CASE readFailed
  <2>1. readFailed'
    BY <1>1, <1>10
  <2>2. QED
    BY <1>9, <2>1, Zenon DEF Complete
<1>11. CASE ~readFailed
  <2>1. \A u \in FileTypes : byteOffset' + SearchedTo(u)'
                                 = byteOffset + (IF u = t THEN end ELSE SearchedTo(u))
    BY <1>1 DEF SearchedTo, FileTypes
  <2>2. \A q \in Hits(t), p \in Nat : q < end /\ p = byteOffset + q
            => Endless(byteOffset, t, p) \/ Found(t, p)'
    BY <1>8
  <2>3. Complete'
    BY <1>1, <1>2, <1>3, <1>6, <1>11, <2>1, <2>2, SearchMovesOn
  <2>4. QED
    BY <1>9, <2>3
<1>12. QED
  BY <1>10, <1>11

LEMMA StutterComplete ==
    ASSUME CInv, UNCHANGED vars
    PROVE  Complete' /\ NothingMissed'
<1>1. UNCHANGED <<disk, call, phase, byteOffset, searchPos, carvedFiles, readFailed>>
  BY DEF vars
<1>2. /\ TotalBytes' = TotalBytes /\ ChunkStarts' = ChunkStarts
      /\ \A c, sig, from : InChunk(c, sig, from)' = InChunk(c, sig, from)
      /\ \A c, t, p : Endless(c, t, p)' = Endless(c, t, p)
  BY <1>1, RangeKept
<1>3. Active' = Active /\ \A t : SearchedTo(t)' = SearchedTo(t)
  BY <1>1 DEF Active, SearchedTo
<1>4. \A t, p : Found(t, p)' = Found(t, p)
  BY <1>1, Zenon DEF Found
<1>5. Files' = Files
  BY <1>1, Zenon DEF Files
<1>6. Complete'
  BY <1>1, <1>2, <1>3, <1>4, Zenon DEF CInv, Complete
<1> DEFINE Inside(t, p) == \E f \in Files : f[1] = t /\ f[2].from <= p /\ p < f[2].to
<1>7. NothingMissed'
  <2>1. phase' = phase /\ byteOffset' = byteOffset /\ readFailed' = readFailed
    BY <1>1
  <2>2. ASSUME phase' \in Returned /\ byteOffset' >= TotalBytes' /\ ~readFailed',
               NEW c \in ChunkStarts', NEW t \in FileTypes,
               NEW p \in InChunk(c, StartSignature(t), c)'
        PROVE  Endless(c, t, p)' \/ Inside(t, p)'
    <3>1. c \in ChunkStarts /\ p \in InChunk(c, StartSignature(t), c)
      BY <1>2, Zenon
    <3>2. phase \in Returned /\ byteOffset >= TotalBytes /\ ~readFailed
      BY <1>2, <2>1, <2>2
    <3>3. Endless(c, t, p) \/ Inside(t, p)
      <4>1. NothingMissed
        BY DEF CInv
      <4>2. \A u \in FileTypes : \A r \in InChunk(c, StartSignature(u), c) :
                Endless(c, u, r) \/ Inside(u, r)
        BY <3>1, <3>2, <4>1, Zenon DEF NothingMissed, Endless
      <4>3. QED
        BY <3>1, <4>2
    <3>4. Inside(t, p)' = Inside(t, p)
      BY <1>5, Zenon
    <3>5. QED
      BY <1>2, <3>3, <3>4
  <2>3. QED
    BY <2>2, Zenon DEF NothingMissed, Endless
<1>8. QED
  BY <1>6, <1>7

LEMMA NextKeepsComplete == Aligned /\ CInv /\ [Next]_vars => CInv'
<1> SUFFICES ASSUME Aligned, CInv, [Next]_vars PROVE CInv'
  OBVIOUS
<1>1. IInv'
  BY NextKeepsInv DEF CInv
<1>2. OnChunkStart'
  BY ChunkStartStep DEF CInv
<1>3. Complete' /\ NothingMissed'
  <2>1. ASSUME NEW start \in 0 .. TotalSectors, NEW num \in 0 .. TotalSectors,
               NEW valid \in BOOLEAN, CarveFiles(start, num, valid)
        PROVE  Complete' /\ NothingMissed'
    BY <2>1, CarveFilesComplete DEF CInv
  <2>2. ASSUME NEW ok \in BOOLEAN, ReadChunk(ok) PROVE Complete' /\ NothingMissed'
    BY <2>2, ReadChunkComplete
  <2>3. CASE ReturnSuccess
    BY <2>3, ReturnSuccessComplete
  <2>4. ASSUME NEW t \in FileTypes, SearchEnds(t) PROVE Complete' /\ NothingMissed'
    BY <2>4, SearchEndsComplete
  <2>5. ASSUME NEW t \in FileTypes, Extract(t) PROVE Complete' /\ NothingMissed'
    BY <2>5, ExtractComplete
  <2>6. ASSUME NEW t \in FileTypes, ExtractFails(t) PROVE Complete' /\ NothingMissed'
    <3>1. readFailed'
      BY <2>6 DEF ExtractFails
    <3>2. QED
      BY <3>1, Zenon DEF Complete, NothingMissed
  <2>7. CASE SkipEndless
    BY <2>7, SkipEndlessComplete
  <2>8. CASE UNCHANGED vars
    BY <2>8, StutterComplete
  <2>9. QED
    BY <2>1, <2>2, <2>3, <2>4, <2>5, <2>6, <2>7, <2>8 DEF Next, Scan
<1>4. QED
  BY <1>1, <1>2, <1>3 DEF CInv

(* A scan of which every read succeeded has missed nothing that lies       *)
(* within a chunk: carveFiles restarts its three searches with every chunk *)
(* and goes on behind every file.                                          *)
THEOREM NothingEverMissed ==
    ASSUME Aligned
    PROVE  Spec => []NothingMissed
<1>1. CInv /\ [Next]_vars => CInv'
  BY NextKeepsComplete
<1>2. CInv => NothingMissed
  BY DEF CInv
<1>3. QED
  BY <1>1, <1>2, InitComplete, PTL DEF Spec

-----------------------------------------------------------------------------
(* Files are what they are taken for.                                      *)

WellFormedFiles ==
    startSector = 0 => \A n \in DOMAIN carvedFiles : WellFormed(n[2], carvedFiles[n].data)

WInv == IInv /\ OnChunkStart /\ WellFormedFiles

LEMMA InOccurrences ==
    ASSUME NEW data, Len(data) \in Nat, NEW sig, Len(sig) \in Nat, NEW from \in Nat, NEW p
    PROVE  p \in Occurrences(data, sig, from) <=>
               /\ p \in Nat /\ from <= p /\ p + Len(sig) <= Len(data)
               /\ SubSeq(data, p + 1, p + Len(sig)) = sig
  BY DEF Occurrences

(* What is cut out of a chunk from a start signature to the end that was   *)
(* found is well-formed.                                                   *)
LEMMA CutIsWellFormed ==
    ASSUME NEW chunk \in Seq(STRING), NEW data \in Seq(STRING), NEW t \in FileTypes,
           NEW p \in Nat, NEW end \in Nat, p < end, end <= Len(chunk),
           Len(data) = end - p, \A i \in 1 .. end - p : data[i] = chunk[p + i],
           p + Len(StartSignature(t)) <= end,
           SubSeq(chunk, p + 1, p + Len(StartSignature(t))) = StartSignature(t),
           t = "JPEG" =>
               LET ends == Occurrences(chunk, EndSignature(t), p + Len(StartSignature(t)))
               IN  /\ end - Len(EndSignature(t)) \in ends
                   /\ \A e \in ends : end - Len(EndSignature(t)) <= e
    PROVE  WellFormed(t, data)
<1> DEFINE L == Len(StartSignature(t))
           z == Len(data)
<1>1. L \in Nat /\ z \in Nat /\ Len(chunk) \in Nat
  BY Signatures, LenProperties
<1>2. \A a, b \in Nat : a + b <= z => SubSeq(data, a + 1, a + b) = SubSeq(chunk, p + a + 1, p + a + b)
  <2>1. p + Len(data) <= Len(chunk) /\ \A i \in 1 .. Len(data) : data[i] = chunk[p + i]
    BY <1>1
  <2>2. QED
    BY <2>1, EqualPieces
<1>3. StartsWith(data, StartSignature(t))
  <2>1. 0 + L <= z
    BY <1>1
  <2>2. SubSeq(data, 0 + 1, 0 + L) = SubSeq(chunk, p + 0 + 1, p + 0 + L)
    BY <1>1, <1>2, <2>1
  <2>3. p + 0 = p
    OBVIOUS
  <2>4. SubSeq(data, 0 + 1, 0 + L) = StartSignature(t)
    BY <2>2, <2>3
  <2> DEFINE sig == StartSignature(t)
  <2>5. 0 \in Nat /\ 0 <= 0 /\ Len(sig) \in Nat /\ 0 + Len(sig) <= Len(data)
        /\ Len(data) \in Nat /\ SubSeq(data, 0 + 1, 0 + Len(sig)) = sig
    BY <1>1, <2>1, <2>4
  <2> HIDE DEF sig
  <2>6. 0 \in Occurrences(data, sig, 0)
    BY <2>5, InOccurrences
  <2>7. QED
    BY <2>6 DEF StartsWith, sig
<1>4. ASSUME t = "JPEG"
      PROVE  Occurrences(data, EndSignature(t), L) = {z - Len(EndSignature(t))}
  <2> DEFINE sig == EndSignature(t)
             m == Len(sig)
             e == end - m
             ends == Occurrences(chunk, sig, p + L)
  <2>1. m \in Nat
    BY <1>4, Signatures
  <2>2. e \in ends /\ \A r \in ends : e <= r
    BY <1>4
  <2>3. e \in Nat /\ p + L <= e /\ e + m <= Len(chunk) /\ SubSeq(chunk, e + 1, e + m) = sig
    <3>1. p + L \in Nat
      BY <1>1
    <3> HIDE DEF e, m, L
    <3>2. QED
      BY <1>1, <2>1, <2>2, <3>1, InOccurrences DEF m
  <2>4. e + m = end
    BY <2>1
  <2> HIDE DEF sig, m, e, L
  <2>5. z - m \in Occurrences(data, sig, L)
    <3> DEFINE a == z - m
    <3>1. a \in Nat /\ L <= a /\ a + m <= z /\ p + a = e
      BY <1>1, <2>1, <2>3, <2>4
    <3> HIDE DEF a
    <3>2. SubSeq(data, a + 1, a + m) = SubSeq(chunk, p + a + 1, p + a + m)
      BY <1>2, <2>1, <3>1
    <3>3. SubSeq(data, a + 1, a + m) = sig
      BY <2>3, <3>1, <3>2
    <3>4. a \in Occurrences(data, sig, L)
      BY <1>1, <2>1, <3>1, <3>3, InOccurrences DEF m
    <3>5. QED
      BY <3>4 DEF a
  <2>6. ASSUME NEW a \in Occurrences(data, sig, L)
        PROVE  a = z - m
    <3>1. a \in Nat /\ L <= a /\ a + m <= z /\ SubSeq(data, a + 1, a + m) = sig
      BY <1>1, <2>1, InOccurrences DEF m
    <3>2. SubSeq(chunk, p + a + 1, p + a + m) = sig
      BY <1>2, <2>1, <3>1
    <3>3. p + a \in Nat /\ p + L \in Nat /\ p + L <= p + a /\ (p + a) + m <= Len(chunk)
      BY <1>1, <2>1, <3>1
    <3>4. p + a \in ends
      BY <1>1, <2>1, <3>2, <3>3, InOccurrences DEF m
    <3>5. e <= p + a
      BY <2>2, <3>4
    <3>6. QED
      BY <1>1, <2>1, <2>3, <2>4, <3>1, <3>5
  <2>7. Occurrences(data, sig, L) = {z - m}
    BY <2>5, <2>6
  <2>8. QED
    BY <2>7 DEF sig, m
<1>5. QED
  BY <1>3, <1>4 DEF WellFormed

(* A new file, cut out of the disk where the hit in the chunk was.         *)
LEMMA NewFileIsWellFormed ==
    ASSUME Aligned, IInv, OnChunkStart, NEW t \in FileTypes, CanExtract(t), startSector = 0
    PROVE  LET p    == Min(Hits(t))
               from == byteOffset + p
               to   == byteOffset + EndOf(t, p)
           IN  WellFormed(t, ExtractFileData(from, to - from))
<1> DEFINE p    == Min(Hits(t))
           end  == EndOf(t, p)
           from == byteOffset + p
           to   == byteOffset + end
           data == ExtractFileData(from, to - from)
           L    == Len(StartSignature(t))
           z    == Len(ScanData)
<1>1. phase = t /\ Hits(t) # {} /\ (t = "JPEG" => Ends(t, p) # {})
  BY DEF CanExtract
<1>2. TypeOK /\ byteOffset < TotalBytes /\ IsSectorRangeValid(startSector, numSectors)
  BY <1>1 DEF IInv, InRange, Active
<1>3. /\ ScanData \in Seq(STRING) /\ z \in Nat /\ byteOffset + z <= TotalBytes
      /\ \A i \in 1 .. z : ScanData[i] = disk[startSector * SectorBytes + byteOffset + i]
  <2>1. ScanData \in Seq(STRING) /\ z = ScanSize /\ ScanSize \in Nat
        /\ byteOffset + ScanSize <= TotalBytes
        /\ \A i \in 1 .. ScanSize : ScanData[i] = disk[startSector * SectorBytes + byteOffset + i]
    BY <1>2, ScanDataBytes
  <2>2. QED
    BY <2>1
<1>4. byteOffset \in Nat /\ TotalBytes \in Nat /\ startSector * SectorBytes = 0
  BY <1>2, RangeOnDisk, SizesAssumption DEF TypeOK
<1>5. p \in Nat /\ end \in Nat /\ p < end /\ end <= z
  BY <1>1, <1>2, NextFile
<1>6. L \in {3, 4}
  BY Signatures
<1>7. p \in Hits(t) /\ p + L <= z
  BY <1>1, <1>2, FirstHit
<1>8. SubSeq(ScanData, p + 1, p + L) = StartSignature(t)
  BY <1>7, Zenon DEF Hits, Occurrences
<1>9. t # "ZIP" /\ Ends(t, p) # {} =>
          /\ Min(Ends(t, p)) \in Ends(t, p) /\ Min(Ends(t, p)) \in Nat
          /\ \A e \in Ends(t, p) : Min(Ends(t, p)) <= e
          /\ p + L <= Min(Ends(t, p))
          /\ end = Min(Ends(t, p)) + Len(EndSignature(t))
          /\ Len(EndSignature(t)) \in Nat
  <2> SUFFICES ASSUME t # "ZIP", Ends(t, p) # {}
               PROVE  /\ Min(Ends(t, p)) \in Ends(t, p) /\ Min(Ends(t, p)) \in Nat
                      /\ \A e \in Ends(t, p) : Min(Ends(t, p)) <= e
                      /\ p + L <= Min(Ends(t, p))
                      /\ end = Min(Ends(t, p)) + Len(EndSignature(t))
                      /\ Len(EndSignature(t)) \in Nat
    OBVIOUS
  <2>1. end = Min(Ends(t, p)) + Len(EndSignature(t))
    BY DEF EndOf
  <2>2. Len(EndSignature(t)) \in Nat
    BY Signatures
  <2> HIDE DEF p, L, z
  <2>3. p + L \in Nat
    BY <1>5, <1>6
  <2>4. Ends(t, p) \in SUBSET Nat /\ \A e \in Ends(t, p) : p + L <= e
    BY <1>3, <2>3, OccurrencesFit DEF Ends, L, z
  <2>5. QED
    BY <2>1, <2>2, <2>4, MinIsLeast
<1>10. p + L <= end
  <2>1. CASE t # "ZIP" /\ Ends(t, p) # {}
    <3> DEFINE e == Min(Ends(t, p))
    <3>1. e \in Nat /\ p + L <= e /\ end = e + Len(EndSignature(t)) /\ Len(EndSignature(t)) \in Nat
      BY <1>9, <2>1
    <3> HIDE DEF e, p, end, L
    <3>2. QED
      BY <1>5, <1>6, <3>1
  <2>2. CASE ~(t # "ZIP" /\ Ends(t, p) # {})
    <3>1. end = z
      BY <2>2 DEF EndOf
    <3>2. QED
      BY <1>7, <3>1
  <2>3. QED
    BY <2>1, <2>2
<1> HIDE DEF p, end, L, z
<1>11. from \in Nat /\ to \in Nat /\ from < to /\ to <= TotalBytes /\ to - from = end - p
  BY <1>3, <1>4, <1>5
<1>12. /\ data \in Seq(STRING) /\ Len(data) = end - p
       /\ \A i \in 1 .. end - p : data[i] = disk[from + i]
  <2> HIDE DEF from, to
  <2>1. QED
    BY <1>2, <1>11, ExtractedData
<1>13. ASSUME NEW i \in 1 .. end - p
       PROVE  data[i] = ScanData[p + i]
  <2>1. p + i \in 1 .. z
    BY <1>3, <1>5
  <2>2. ScanData[p + i] = disk[startSector * SectorBytes + byteOffset + (p + i)]
    BY <1>3, <2>1
  <2>3. startSector * SectorBytes + byteOffset + (p + i) = from + i
    BY <1>4, <1>5
  <2>4. QED
    BY <1>12, <2>2, <2>3
<1>14. t = "JPEG" => LET ends == Occurrences(ScanData, EndSignature(t), p + L)
                     IN  /\ end - Len(EndSignature(t)) \in ends
                         /\ \A e \in ends : end - Len(EndSignature(t)) <= e
  <2> SUFFICES ASSUME t = "JPEG"
               PROVE  /\ end - Len(EndSignature(t)) \in Ends(t, p)
                      /\ \A e \in Ends(t, p) : end - Len(EndSignature(t)) <= e
    BY DEF Ends, L
  <2> DEFINE e == Min(Ends(t, p))
             m == Len(EndSignature(t))
  <2>1. e \in Ends(t, p) /\ e \in Nat /\ m \in Nat /\ end = e + m
        /\ \A r \in Ends(t, p) : e <= r
    BY <1>1, <1>9
  <2> HIDE DEF e, m
  <2>2. end - m = e
    BY <2>1
  <2>3. QED
    BY <2>1, <2>2 DEF m
<1> HIDE DEF data
<1>15. WellFormed(t, data)
  BY <1>3, <1>5, <1>8, <1>10, <1>12, <1>13, <1>14, CutIsWellFormed DEF L, z
<1>16. QED
  BY <1>15 DEF data, p, end

LEMMA NextKeepsWellFormed == Aligned /\ WInv /\ [Next]_vars => WInv'
<1> SUFFICES ASSUME Aligned, WInv, [Next]_vars PROVE WInv'
  OBVIOUS
<1>1. IInv'
  BY NextKeepsInv DEF WInv
<1>2. OnChunkStart'
  BY ChunkStartStep DEF WInv
<1>3. CASE UNCHANGED <<carvedFiles, startSector>>
  <2>1. WellFormedFiles'
    BY <1>3 DEF WInv, WellFormedFiles
  <2>2. QED
    BY <1>1, <1>2, <2>1 DEF WInv
<1>4. CASE carvedFiles' = <<>>
  <2>1. DOMAIN carvedFiles' = {}
    BY <1>4, NoFiles
  <2>2. QED
    BY <1>1, <1>2, <2>1 DEF WInv, WellFormedFiles
<1>5. ASSUME NEW t \in FileTypes, Extract(t) PROVE WellFormedFiles'
  <2> SUFFICES ASSUME startSector' = 0, NEW n \in DOMAIN carvedFiles'
               PROVE  WellFormed(n[2], carvedFiles'[n].data)
    BY DEF WellFormedFiles
  <2> DEFINE p    == Min(Hits(t))
             from == byteOffset + p
             to   == byteOffset + EndOf(t, p)
             file == [data |-> ExtractFileData(from, to - from), from |-> from, to |-> to]
             name == NextName(t)
  <2>1. CanExtract(t) /\ UNCHANGED call
    BY <1>5 DEF Extract
  <2>2. Store(name, file)
    BY <1>5 DEF Extract
  <2>3. startSector = 0
    BY <2>1 DEF call
  <2>4. WellFormed(t, file.data)
    <3>1. WellFormed(t, ExtractFileData(from, to - from))
      BY <2>1, <2>3, NewFileIsWellFormed DEF WInv
    <3>2. QED
      BY <3>1
  <2>5. name[2] = t
    BY DEF NextName
  <2> HIDE DEF file, name
  <2>6. CASE n = name
    <3>1. carvedFiles'[n] = file
      BY <2>2, <2>6 DEF Store
    <3>2. QED
      BY <2>4, <2>5, <2>6, <3>1
  <2>7. CASE n # name
    <3>1. n \in DOMAIN carvedFiles /\ carvedFiles'[n] = carvedFiles[n]
      BY <2>2, <2>7 DEF Store
    <3>2. QED
      BY <2>3, <3>1 DEF WInv, WellFormedFiles
  <2>8. QED
    BY <2>6, <2>7
<1>6. QED
  BY <1>1, <1>2, <1>3, <1>4, <1>5 DEF WInv, Next, Scan, CarveFiles, ReadChunk, ReturnSuccess,
     SearchEnds, ExtractFails, SkipEndless, vars, call

(* A file carved from the start of the disk is one of its type, although   *)
(* extractFileData reads it anew, in whole sectors, and for a JPEG the end *)
(* was looked for in the chunk.                                            *)
THEOREM FilesAlwaysWellFormed ==
    ASSUME Aligned
    PROVE  Spec => []FilesAreWellFormed
<1>1. Init => WInv
  <2>1. Init => OnChunkStart
    BY InitComplete DEF CInv
  <2>2. Init => WellFormedFiles
    BY NoFiles DEF Init, WellFormedFiles
  <2>3. QED
    BY <2>1, <2>2, InitInv DEF WInv
<1>2. WInv /\ [Next]_vars => WInv'
  BY NextKeepsWellFormed
<1>3. WInv => FilesAreWellFormed
  BY DEF WInv, WellFormedFiles, FilesAreWellFormed, Files
<1>4. QED
  BY <1>1, <1>2, <1>3, PTL DEF Spec

=============================================================================
