------------------------- MODULE DiskLayoutProofs -------------------------
(***************************************************************************)
(* Theorems about DiskLayout, for every disk and any number of drivers:    *)
(* the tables parseGPT hands out are sound, it finds the one that is       *)
(* there, and the 32-bit tests of an MBR accept what the same tests        *)
(* without wrap-around accept; the views of an NTFS and of a FAT volume    *)
(* agree; the registry chooses the right driver.                           *)
(***************************************************************************)
EXTENDS DiskLayout, NumberLemmas, TLAPS

-----------------------------------------------------------------------------
(* GPT.                                                                    *)

(* Validated arrays are what GPTTableIsSound says of them.                 *)
Sound(h, es) ==
    \A i \in UsedEntries(es) :
        /\ SectorsOf(es[i]) # {}
        /\ SectorsOf(es[i]) \subseteq h.firstUsable..h.lastUsable
        /\ \A j \in UsedEntries(es) \ {i} : SectorsOf(es[i]) \cap SectorsOf(es[j]) = {}

LEMMA DisjointSectors ==
    ASSUME NEW a \in GPTEntry, NEW b \in GPTEntry, ~Overlaps(a, b)
    PROVE  SectorsOf(a) \cap SectorsOf(b) = {} /\ SectorsOf(b) \cap SectorsOf(a) = {}
<1>1. a.first \in Nat /\ a.last \in Nat /\ b.first \in Nat /\ b.last \in Nat
  BY DEF GPTEntry
<1>2. a.last < b.first \/ b.last < a.first
  BY DEF Overlaps
<1>3. QED
  BY <1>1, <1>2 DEF SectorsOf

LEMMA ValidatedIsSound ==
    ASSUME NEW h, NEW es \in Seq(GPTEntry), ValidateEntryArray(h, es),
           h.firstUsable \in Nat, h.lastUsable \in Nat
    PROVE  Sound(h, es)
<1> SUFFICES ASSUME NEW i \in UsedEntries(es)
             PROVE  /\ SectorsOf(es[i]) # {}
                    /\ SectorsOf(es[i]) \subseteq h.firstUsable..h.lastUsable
                    /\ \A j \in UsedEntries(es) \ {i} : SectorsOf(es[i]) \cap SectorsOf(es[j]) = {}
  BY DEF Sound
<1>1. \A j \in UsedEntries(es) : j \in Nat /\ es[j] \in GPTEntry
  BY DEF UsedEntries
<1>2. es[i].first \in Nat /\ es[i].last \in Nat
  BY <1>1 DEF GPTEntry
<1>3. /\ es[i].first <= es[i].last
      /\ h.firstUsable <= es[i].first /\ es[i].last <= h.lastUsable
  BY DEF ValidateEntryArray
<1>4. SectorsOf(es[i]) # {}
  <2>1. es[i].first \in SectorsOf(es[i])
    BY <1>2, <1>3 DEF SectorsOf
  <2>2. QED
    BY <2>1
<1>5. SectorsOf(es[i]) \subseteq h.firstUsable..h.lastUsable
  BY <1>2, <1>3 DEF SectorsOf
<1>6. ASSUME NEW j \in UsedEntries(es) \ {i}
      PROVE  SectorsOf(es[i]) \cap SectorsOf(es[j]) = {}
  <2>1. i < j \/ j < i
    BY <1>1
  <2>2. ~Overlaps(es[i], es[j]) \/ ~Overlaps(es[j], es[i])
    BY <2>1 DEF ValidateEntryArray
  <2>3. QED
    BY <1>1, <2>2, DisjointSectors
<1>7. QED
  BY <1>4, <1>5, <1>6

(* The header in use is a valid one of the disk, from the time it is       *)
(* chosen; nothing is answered before the array has been validated, and    *)
(* the answer is judged by the header still in use.                        *)
Headed ==
    /\ layout \in Layouts
    /\ step = "array" => header \in {layout.primary, layout.backup} /\ header.signature
    /\ step # "idle" => answer = Nothing

Tabled == answer.op = "parseGPT" /\ answer.kind = "value" => Sound(header, answer.entries)

(* Entries copied at any size are entries.                                 *)
LEMMA EntriesTyped ==
    ASSUME layout \in Layouts, NEW h \in {layout.primary, layout.backup}, h.signature
    PROVE  EntriesOf(h) \in Seq(GPTEntry)
<1>1. h.num \in Nat /\ \A i \in 1..h.num : layout.arrays[h.array][i] \in GPTEntry
  BY LayoutAssumption
<1>2. ASSUME NEW e \in GPTEntry, NEW size
      PROVE  EntryData(e, size) \in GPTEntry
  BY DEF EntryData, GPTEntry
<1>3. \A i \in 1..h.num : EntryData(layout.arrays[h.array][i], h.size) \in GPTEntry
  BY <1>1, <1>2
<1>4. QED
  BY <1>1, <1>3 DEF EntriesOf

LEMMA ArraySound ==
    ASSUME Headed, ReadEntryArray
    PROVE  Tabled'
<1> DEFINE es == EntriesOf(header)
<1>1. header.firstUsable \in Nat /\ header.lastUsable \in Nat
  BY LayoutAssumption DEF Headed, ReadEntryArray
<1>2. es \in Seq(GPTEntry)
  BY EntriesTyped DEF Headed, ReadEntryArray
<1>3. header' = header
  BY DEF ReadEntryArray
<1>4. CASE answer' = Threw("parseGPT")
  <2>1. answer'.kind = "exception"
    BY <1>4 DEF Threw
  <2>2. QED
    BY <2>1 DEF Tabled
<1>5. CASE answer' = Returned("parseGPT", es) /\ ValidateEntryArray(header, es)
  <2>1. answer'.entries = es
    BY <1>5, Zenon DEF Returned
  <2>2. Sound(header, es)
    BY <1>1, <1>2, <1>5, ValidatedIsSound
  <2>3. QED
    BY <1>3, <2>1, <2>2, Zenon DEF Tabled
<1>6. QED
  BY <1>4, <1>5, Zenon DEF ReadEntryArray

(* The rest of parseGPT answers nothing, or with an exception.             *)
LEMMA OthersSound ==
    ASSUME Headed, Tabled,
           \/ ParseGPT \/ HasProtectiveMBR \/ ReadPrimaryHeader \/ ReadBackupHeader
           \/ OverrunEntry \/ ReadFails
    PROVE  Tabled'
<1>1. CASE answer' \in {Nothing, Threw("parseGPT"), Undefined("parseGPT")}
  <2>1. answer'.kind # "value"
    BY <1>1 DEF Nothing, Threw, Undefined
  <2>2. QED
    BY <2>1 DEF Tabled
<1>2. CASE answer' = answer /\ step # "idle"
  BY <1>1, <1>2 DEF Headed
<1>3. ParseGPT => answer' = Nothing \/ answer' = Threw("parseGPT")
  BY DEF ParseGPT, GPTThrows
<1>4. ReadFails => answer' = Threw("parseGPT")
  BY DEF ReadFails, GPTThrows
<1>5. HasProtectiveMBR => answer' = answer /\ step # "idle"
  BY DEF HasProtectiveMBR
<1>6. ReadPrimaryHeader => (answer' = answer /\ step # "idle") \/ answer' = Threw("parseGPT")
  BY DEF ReadPrimaryHeader, UseHeader, GPTThrows
<1>7. ReadBackupHeader => (answer' = answer /\ step # "idle") \/ answer' = Threw("parseGPT")
  BY DEF ReadBackupHeader, UseHeader, GPTThrows
<1>8. OverrunEntry => answer' = Nothing \/ answer' = Undefined("parseGPT")
  BY DEF OverrunEntry
<1>9. QED
  BY <1>1, <1>2, <1>3, <1>4, <1>5, <1>6, <1>7, <1>8

(* Readers of the MBR answer under names of their own.                     *)
LEMMA MBRSound ==
    ASSUME NEW op, NEW result, ParseMBR(op, result), op # "parseGPT", result.op # "parseGPT"
    PROVE  Tabled'
<1>1. answer' = result \/ answer' = Threw(op)
  BY Zenon DEF ParseMBR
<1>2. Threw(op).op = op
  BY DEF Threw
<1>3. answer'.op # "parseGPT"
  BY <1>1, <1>2
<1>4. QED
  BY <1>3 DEF Tabled

LEMMA HeadedStep ==
    ASSUME Headed, PartitionNext
    PROVE  Headed'
<1>1. layout' = layout
  BY DEF PartitionNext, ParseGPT, HasProtectiveMBR, ReadPrimaryHeader, ReadBackupHeader,
     ReadEntryArray, OverrunEntry, ReadFails, GPTThrows, UseHeader, ReadMBR, ValidatePartitions,
     GetPartitionGeometries, ParseMBR, SetOpen
<1>2. CASE step' = "idle"
  BY <1>1, <1>2 DEF Headed
<1>3. CASE ParseGPT
  BY <1>1, <1>2, <1>3 DEF ParseGPT, GPTThrows, Headed
<1>4. CASE HasProtectiveMBR
  BY <1>1, <1>4 DEF HasProtectiveMBR, Headed
<1>5. CASE ReadPrimaryHeader
  BY <1>1, <1>2, <1>5 DEF ReadPrimaryHeader, UseHeader, GPTThrows, ValidateHeader, Headed
<1>6. CASE ReadBackupHeader
  BY <1>1, <1>2, <1>6 DEF ReadBackupHeader, UseHeader, GPTThrows, ValidateHeader, Headed
<1>7. CASE ReadEntryArray \/ OverrunEntry \/ ReadFails
  BY <1>2, <1>7 DEF ReadEntryArray, OverrunEntry, ReadFails, GPTThrows
<1>8. CASE ReadMBR \/ ValidatePartitions \/ GetPartitionGeometries
  BY <1>2, <1>8 DEF ReadMBR, ValidatePartitions, GetPartitionGeometries, ParseMBR
<1>9. CASE SetOpen
  BY <1>1, <1>2, <1>9 DEF SetOpen
<1>10. QED
  BY <1>3, <1>4, <1>5, <1>6, <1>7, <1>8, <1>9 DEF PartitionNext

LEMMA TabledStep ==
    ASSUME Headed, Tabled, PartitionNext
    PROVE  Tabled'
<1>1. CASE \/ ParseGPT \/ HasProtectiveMBR \/ ReadPrimaryHeader \/ ReadBackupHeader
          \/ OverrunEntry \/ ReadFails
  BY <1>1, OthersSound
<1>2. CASE ReadEntryArray
  BY <1>2, ArraySound
<1>3. ASSUME NEW op \in {"readMBR", "validatePartitions", "getPartitionGeometries"}, NEW es,
             NEW result, result = Returned(op, es) \/ result = Threw(op), ParseMBR(op, result)
      PROVE  Tabled'
  <2>1. Returned(op, es).op = op /\ Threw(op).op = op
    BY DEF Returned, Threw
  <2>2. result.op = op
    BY <1>3, <2>1, Zenon
  <2>3. QED
    BY <1>3, <2>2, MBRSound
<1>4. CASE ReadMBR
  BY <1>3, <1>4 DEF ReadMBR
<1>5. CASE ValidatePartitions
  BY <1>3, <1>5 DEF ValidatePartitions
<1>6. CASE GetPartitionGeometries
  BY <1>3, <1>6 DEF GetPartitionGeometries
<1>7. CASE SetOpen
  BY <1>7 DEF SetOpen, Tabled
<1>8. QED
  BY <1>1, <1>2, <1>4, <1>5, <1>6, <1>7 DEF PartitionNext

LEMMA DiskStep == [Next]_vars => PartitionNext \/ UNCHANGED partitionVars
  BY DEF Next, vars

LEMMA TabledAlways == Spec => [](Headed /\ Tabled)
<1>1. Init => Headed /\ Tabled
  <2>1. ASSUME Init
        PROVE  layout \in Layouts /\ step = "idle" /\ answer = Nothing
    <3>1. layout \in Some(Layouts, "partitions") /\ step = "idle" /\ answer = Nothing
      BY <2>1 DEF Init, PartitionInit
    <3>2. layout \in Layouts
      BY <3>1, LayoutAssumption, Zenon DEF Some
    <3>3. QED
      BY <3>1, <3>2
  <2>2. Nothing.kind = "none"
    BY DEF Nothing
  <2>3. QED
    BY <2>1, <2>2 DEF Headed, Tabled
<1>2. (Headed /\ Tabled) /\ [Next]_vars => (Headed /\ Tabled)'
  <2>1. Headed /\ Tabled /\ UNCHANGED partitionVars => (Headed /\ Tabled)'
    BY DEF partitionVars, Headed, Tabled
  <2>2. QED
    BY <2>1, DiskStep, HeadedStep, TabledStep
<1>3. QED
  BY <1>1, <1>2, PTL DEF Spec

(* A GPT that parseGPT hands out is sound: every entry is a non-empty run  *)
(* of usable sectors and no two share one, for every disk, from whichever  *)
(* header (GPTValidator.cpp:108-141).                                      *)
THEOREM GPTTableAlwaysSound == Spec => []GPTTableIsSound
<1>1. Tabled => GPTTableIsSound
  BY Zenon DEF Tabled, Sound, GPTTableIsSound
<1>2. QED
  BY <1>1, TabledAlways, PTL

-----------------------------------------------------------------------------
(* The parser finds what is there: a whole copy passes its tests.          *)

LEMMA SectorsAreOrdered ==
    ASSUME NEW a \in GPTEntry, SectorsOf(a) # {}
    PROVE  /\ a.first \in Nat /\ a.last \in Nat /\ a.first <= a.last
           /\ a.first \in SectorsOf(a) /\ a.last \in SectorsOf(a)
<1>1. a.first \in Nat /\ a.last \in Nat
  BY DEF GPTEntry
<1>2. QED
  BY <1>1 DEF SectorsOf

LEMMA SharingNothingIsNoOverlap ==
    ASSUME NEW a \in GPTEntry, NEW b \in GPTEntry, SectorsOf(a) # {}, SectorsOf(b) # {},
           SectorsOf(a) \cap SectorsOf(b) = {}
    PROVE  ~Overlaps(a, b)
<1>1. /\ a.first \in Nat /\ a.last \in Nat /\ a.first <= a.last
      /\ b.first \in Nat /\ b.last \in Nat /\ b.first <= b.last
  BY SectorsAreOrdered
<1>2. SUFFICES ASSUME a.last >= b.first, b.last >= a.first
               PROVE  FALSE
  BY <1>1 DEF Overlaps
<1>3. CASE a.first <= b.first
  <2>1. b.first \in SectorsOf(a) \cap SectorsOf(b)
    BY <1>1, <1>2, <1>3 DEF SectorsOf
  <2>2. QED
    BY <2>1
<1>4. CASE b.first <= a.first
  <2>1. a.first \in SectorsOf(a) \cap SectorsOf(b)
    BY <1>1, <1>2, <1>4 DEF SectorsOf
  <2>2. QED
    BY <2>1
<1>5. QED
  BY <1>1, <1>3, <1>4

LEMMA OneSectorWorks ==
    ASSUME NEW h, ArrayBytes(h) \in 1..layout.sectorSize, layout.sectorSize \in Nat
    PROVE  ReadSectorsWorks(h)
<1> DEFINE n == ArrayBytes(h)
           m == layout.sectorSize
           q == (n + m - 1) \div m
<1>1. m \in Nat \ {0} /\ n \in Nat /\ n >= 1 /\ n <= m
  OBVIOUS
<1> HIDE DEF n, m
<1>2. /\ q \in Nat /\ n <= q * m
      /\ \A k \in Nat : n <= k * m => q <= k
  BY <1>1, Rounding
<1>3. q <= 1
  <2>1. n <= 1 * m
    BY <1>1
  <2> HIDE DEF q
  <2>2. QED
    BY <1>2, <2>1
<1>4. q # 0
  <2>1. ASSUME q = 0
        PROVE  n <= 0
    <3>1. 0 * m = 0
      BY <1>1
    <3> HIDE DEF q
    <3>2. QED
      BY <1>2, <2>1, <3>1
  <2>2. QED
    BY <1>1, <2>1
<1>5. q = 1
  <2> HIDE DEF q
  <2>1. QED
    BY <1>2, <1>3, <1>4
<1>6. QED
  BY <1>5 DEF ReadSectorsWorks, ArraySectors, n, m

(* The array of a copy that is whole has bytes.                            *)
LEMMA WholeHasBytes ==
    ASSUME layout \in Layouts, NEW h \in {layout.primary, layout.backup}, WholeCopy(h)
    PROVE  ArrayBytes(h) \in 1..layout.sectorSize
<1>1. /\ h.num \in Nat /\ h.num >= 1 /\ h.size \in Nat /\ h.size >= 128
      /\ layout.sectorSize \in Nat /\ ArrayBytes(h) <= layout.sectorSize
  BY LayoutAssumption DEF WholeCopy, IntactCopy, ValidateHeader, EntrySize
<1>2. PICK n \in Nat, k \in Nat : n = h.num /\ k = h.size
  BY <1>1
<1>3. n * k \in Nat /\ 1 * k <= n * k
  BY <1>1, <1>2, Products
<1>4. ArrayBytes(h) = n * k
  BY <1>2 DEF ArrayBytes
<1>5. QED
  BY <1>1, <1>2, <1>3, <1>4

LEMMA WholeIsAccepted ==
    ASSUME layout \in Layouts, NEW h \in {layout.primary, layout.backup}, WholeCopy(h)
    PROVE  ReadSectorsWorks(h) /\ ValidateEntryArray(h, EntriesOf(h))
<1> DEFINE es == EntriesOf(h)
<1>1. /\ h.firstUsable \in Nat /\ h.lastUsable \in Nat /\ h.size \in Nat
      /\ layout.sectorSize \in Nat
  BY LayoutAssumption DEF WholeCopy, IntactCopy, ValidateHeader
<1>2. es \in Seq(GPTEntry)
  BY EntriesTyped DEF WholeCopy, IntactCopy, ValidateHeader
<1>3. h.arrayCRC = es /\ h.size >= MinEntrySize
  BY <1>1 DEF WholeCopy, IntactCopy, EntrySize, MinEntrySize
<1>4. ASSUME NEW i \in UsedEntries(es)
      PROVE  /\ i \in Nat /\ es[i] \in GPTEntry
             /\ SectorsOf(es[i]) # {}
             /\ SectorsOf(es[i]) \subseteq h.firstUsable..h.lastUsable
             /\ \A j \in UsedEntries(es) \ {i} : SectorsOf(es[i]) \cap SectorsOf(es[j]) = {}
  <2>1. i \in Nat /\ es[i] \in GPTEntry
    BY <1>2 DEF UsedEntries
  <2> HIDE DEF es
  <2>2. UsedEntries(es) \subseteq PartitionEntries(es)
    BY <1>3 DEF WholeCopy, Blank
  <2>3. QED
    BY <1>3, <2>1, <2>2 DEF WholeCopy, IntactCopy
<1> HIDE DEF es
<1>5. ASSUME NEW i \in UsedEntries(es)
      PROVE  /\ es[i].first <= es[i].last
             /\ h.firstUsable <= es[i].first /\ es[i].last <= h.lastUsable
  <2>1. es[i].first \in h.firstUsable..h.lastUsable /\ es[i].last \in h.firstUsable..h.lastUsable
    BY <1>4, SectorsAreOrdered
  <2>2. QED
    BY <1>1, <1>4, <2>1, SectorsAreOrdered
<1>6. ASSUME NEW i \in UsedEntries(es), NEW j \in UsedEntries(es), i < j
      PROVE  ~Overlaps(es[i], es[j])
  <2>1. j \in UsedEntries(es) \ {i}
    BY <1>4, <1>6
  <2>2. QED
    BY <1>4, <2>1, SharingNothingIsNoOverlap
<1>7. ValidateEntryArray(h, es)
  BY <1>3, <1>5, <1>6 DEF ValidateEntryArray
<1>8. ReadSectorsWorks(h)
  BY <1>1, WholeHasBytes, OneSectorWorks DEF WholeCopy
<1>9. QED
  BY <1>7, <1>8 DEF es

(* Which header the parser has come to, and that it had no better one.     *)
Located ==
    /\ step = "backup" => ~ValidateHeader(layout.primary)
    /\ step = "array" =>
          \/ header = layout.primary /\ ValidateHeader(layout.primary)
          \/ header = layout.backup /\ ~ValidateHeader(layout.primary)

LEMMA LocatedStep ==
    ASSUME Located, PartitionNext
    PROVE  Located'
<1>1. layout' = layout
  BY DEF PartitionNext, ParseGPT, HasProtectiveMBR, ReadPrimaryHeader, ReadBackupHeader,
     ReadEntryArray, OverrunEntry, ReadFails, GPTThrows, UseHeader, ReadMBR, ValidatePartitions,
     GetPartitionGeometries, ParseMBR, SetOpen
<1>2. CASE step' \in {"idle", "mbr", "primary"}
  BY <1>2 DEF Located
<1>3. CASE ReadPrimaryHeader
  BY <1>1, <1>3 DEF ReadPrimaryHeader, UseHeader, GPTThrows, Located, ValidateHeader
<1>4. CASE ReadBackupHeader
  BY <1>1, <1>4 DEF ReadBackupHeader, UseHeader, GPTThrows, Located, ValidateHeader
<1>5. CASE \/ ParseGPT \/ HasProtectiveMBR \/ ReadEntryArray \/ OverrunEntry \/ ReadFails
          \/ SetOpen
  BY <1>2, <1>5 DEF ParseGPT, HasProtectiveMBR, ReadEntryArray, OverrunEntry, ReadFails,
                    GPTThrows, SetOpen
<1>6. CASE ReadMBR \/ ValidatePartitions \/ GetPartitionGeometries
  BY <1>2, <1>6 DEF ReadMBR, ValidatePartitions, GetPartitionGeometries, ParseMBR
<1>7. QED
  BY <1>3, <1>4, <1>5, <1>6 DEF PartitionNext

(* Why an exception is right: the copies the parser had are not whole.     *)
NoneWhole ==
    /\ ~WholeCopy(layout.primary)
    /\ ~ValidateHeader(layout.primary) => ~WholeCopy(layout.backup)

LEMMA UseHeaderRight ==
    ASSUME layout \in Layouts, NEW h \in {layout.primary, layout.backup}, UseHeader(h),
           answer = Nothing
    PROVE  answer' = Nothing \/ ~WholeCopy(h)
<1>1. ArrayBytes(h) = 0 => ~WholeCopy(h)
  BY WholeHasBytes DEF WholeCopy
<1>2. QED
  BY <1>1 DEF UseHeader

LEMMA PrimaryRight ==
    ASSUME Headed, ReadPrimaryHeader, layout.total >= 2
    PROVE  answer' = Nothing \/ NoneWhole
<1>a. answer = Nothing
  BY DEF Headed, ReadPrimaryHeader
<1>1. CASE ValidateHeader(layout.primary)
  <2>1. UseHeader(layout.primary)
    BY <1>1 DEF ReadPrimaryHeader
  <2>2. QED
    BY <1>a, <1>1, <2>1, UseHeaderRight DEF NoneWhole, Headed
<1>2. CASE ~ValidateHeader(layout.primary)
  <2>1. ~(layout.total < 2)
    BY LayoutAssumption DEF Headed
  <2>2. QED
    BY <1>a, <1>2, <2>1 DEF ReadPrimaryHeader
<1>3. QED
  BY <1>1, <1>2

LEMMA BackupRight ==
    ASSUME Headed, Located, ReadBackupHeader
    PROVE  answer' = Nothing \/ NoneWhole
<1>1. answer = Nothing /\ ~ValidateHeader(layout.primary)
  BY DEF Headed, Located, ReadBackupHeader
<1>2. ~WholeCopy(layout.primary)
  BY <1>1 DEF WholeCopy, IntactCopy
<1>3. CASE UseHeader(layout.backup)
  BY <1>1, <1>2, <1>3, UseHeaderRight DEF NoneWhole, Headed
<1>4. CASE ~ValidateHeader(layout.backup)
  BY <1>2, <1>4 DEF NoneWhole, WholeCopy, IntactCopy
<1>5. QED
  BY <1>3, <1>4 DEF ReadBackupHeader

LEMMA ArrayRight ==
    ASSUME Headed, Located, ReadEntryArray
    PROVE  answer'.kind = "value" \/ NoneWhole
<1> DEFINE es == EntriesOf(header)
<1>1. CASE ReadSectorsWorks(header) /\ ValidateEntryArray(header, es)
  <2>1. answer' = Returned("parseGPT", es)
    BY <1>1, Zenon DEF ReadEntryArray
  <2>2. QED
    BY <2>1, Zenon DEF Returned
<1>2. CASE ~(ReadSectorsWorks(header) /\ ValidateEntryArray(header, es))
  <2>1. ~WholeCopy(header)
    BY <1>2, WholeIsAccepted DEF Headed, ReadEntryArray
  <2>2. CASE header = layout.primary /\ ValidateHeader(layout.primary)
    BY <2>1, <2>2 DEF NoneWhole
  <2>3. CASE header = layout.backup /\ ~ValidateHeader(layout.primary)
    BY <2>1, <2>3 DEF NoneWhole, WholeCopy, IntactCopy
  <2>4. QED
    BY <2>2, <2>3 DEF Located, ReadEntryArray
<1>3. QED
  BY <1>1, <1>2

LEMMA CopiesKept ==
    ASSUME layout' = layout
    PROVE  /\ WholeCopy(layout.primary)' = WholeCopy(layout.primary)
           /\ WholeCopy(layout.backup)' = WholeCopy(layout.backup)
           /\ ValidateHeader(layout.primary)' = ValidateHeader(layout.primary)
<1>1. EntriesOf(layout.primary)' = EntriesOf(layout.primary)
  BY Zenon DEF EntriesOf
<1>2. EntriesOf(layout.backup)' = EntriesOf(layout.backup)
  BY Zenon DEF EntriesOf
<1>3. IntactCopy(layout.primary)' = IntactCopy(layout.primary)
  BY <1>1, Zenon DEF IntactCopy, ValidateHeader
<1>4. IntactCopy(layout.backup)' = IntactCopy(layout.backup)
  BY <1>2, Zenon DEF IntactCopy, ValidateHeader
<1>5. WholeCopy(layout.primary)' = WholeCopy(layout.primary)
  BY <1>3, Zenon DEF WholeCopy, Blank, ArrayBytes
<1>6. WholeCopy(layout.backup)' = WholeCopy(layout.backup)
  BY <1>4, Zenon DEF WholeCopy, Blank, ArrayBytes
<1>7. QED
  BY <1>5, <1>6 DEF ValidateHeader

LEMMA FindsStep ==
    ASSUME Headed, Located, GPTFindsTable, PartitionNext
    PROVE  GPTFindsTable'
<1>a. layout' = layout
  BY DEF PartitionNext, ParseGPT, HasProtectiveMBR, ReadPrimaryHeader, ReadBackupHeader,
     ReadEntryArray, OverrunEntry, ReadFails, GPTThrows, UseHeader, ReadMBR, ValidatePartitions,
     GetPartitionGeometries, ParseMBR, SetOpen
<1>b. NoneWhole => GPTFindsTable'
  <2>1. /\ WholeCopy(layout.primary)' = WholeCopy(layout.primary)
        /\ WholeCopy(layout.backup)' = WholeCopy(layout.backup)
        /\ ValidateHeader(layout.primary)' = ValidateHeader(layout.primary)
    BY <1>a, CopiesKept
  <2>2. QED
    BY <2>1 DEF NoneWhole, GPTFindsTable
<1>c. answer'.kind # "exception" => GPTFindsTable'
  BY DEF GPTFindsTable, GaveUp
<1>d. Nothing.kind # "exception"
  BY DEF Nothing
<1>e. answer'.op # "parseGPT" => GPTFindsTable'
  BY DEF GPTFindsTable, GaveUp
<1>1. CASE ParseGPT
  <2>1. answer' = Nothing \/ refused' \/ ~(layout.sectorSize >= 512)
    BY <1>1 DEF ParseGPT
  <2>2. QED
    BY <1>a, <1>c, <1>d, <2>1, Zenon DEF GPTFindsTable, GaveUp
<1>2. CASE HasProtectiveMBR
  BY <1>2, <1>c, <1>d DEF HasProtectiveMBR, Headed
<1>3. CASE ReadPrimaryHeader
  <2>1. CASE layout.total >= 2
    BY <1>3, <1>b, <1>c, <1>d, <2>1, PrimaryRight
  <2>2. CASE ~(layout.total >= 2)
    BY <1>a, <2>2, Zenon DEF GPTFindsTable, GaveUp
  <2>3. QED
    BY <2>1, <2>2
<1>4. CASE ReadBackupHeader
  BY <1>4, <1>b, <1>c, <1>d, BackupRight
<1>5. CASE ReadEntryArray
  BY <1>5, <1>b, <1>c, ArrayRight
<1>o. CASE OverrunEntry
  <2>1. answer' = Nothing \/ answer' = Undefined("parseGPT")
    BY <1>o DEF OverrunEntry
  <2>2. Undefined("parseGPT").kind = "undefined"
    BY DEF Undefined
  <2>3. QED
    BY <1>c, <1>d, <2>1, <2>2
<1>6. CASE ReadFails
  BY <1>6 DEF ReadFails, GPTFindsTable, GaveUp
<1>7. ASSUME NEW op \in {"readMBR", "validatePartitions", "getPartitionGeometries"}, NEW es,
             NEW result, result = Returned(op, es) \/ result = Threw(op), ParseMBR(op, result)
      PROVE  GPTFindsTable'
  <2>1. Returned(op, es).op = op /\ Threw(op).op = op
    BY DEF Returned, Threw
  <2>2. answer' = result \/ answer' = Threw(op)
    BY <1>7, Zenon DEF ParseMBR
  <2>3. answer'.op = op
    BY <1>7, <2>1, <2>2, Zenon
  <2>4. QED
    BY <1>e, <2>3
<1>8. CASE ReadMBR
  BY <1>7, <1>8 DEF ReadMBR
<1>9. CASE ValidatePartitions
  BY <1>7, <1>9 DEF ValidatePartitions
<1>10. CASE GetPartitionGeometries
  BY <1>7, <1>10 DEF GetPartitionGeometries
<1>11. CASE SetOpen
  <2>1. GaveUp' = GaveUp
    BY <1>11, <1>a DEF SetOpen, GaveUp
  <2>2. QED
    BY <1>a, <2>1, CopiesKept DEF GPTFindsTable
<1>12. QED
  BY <1>1, <1>2, <1>3, <1>4, <1>5, <1>o, <1>6, <1>8, <1>9, <1>10, <1>11 DEF PartitionNext

(* A GPT is found whenever it should be: if the disk is readable, parseGPT *)
(* gives up only when the primary copy is not whole and neither, if the    *)
(* primary header is damaged, is the backup copy (GPTParser.cpp:36-113): a *)
(* copy is whole if its entries of 128 bytes or more fill at most a sector,*)
(* match their checksum, describe partitions apart or are blank.           *)
THEOREM GPTIsAlwaysFound == Spec => []GPTFindsTable
<1>1. Init => Located /\ GPTFindsTable
  <2>1. Nothing.op = "none"
    BY DEF Nothing
  <2>2. QED
    BY <2>1 DEF Init, PartitionInit, Located, GPTFindsTable, GaveUp
<1>2. Headed /\ Located /\ GPTFindsTable /\ [Next]_vars => (Located /\ GPTFindsTable)'
  <2>1. Located /\ GPTFindsTable /\ UNCHANGED partitionVars => (Located /\ GPTFindsTable)'
    <3>1. Located /\ UNCHANGED partitionVars => Located'
      BY DEF partitionVars, Located, ValidateHeader
    <3>3. ASSUME GPTFindsTable, UNCHANGED partitionVars
          PROVE  GPTFindsTable'
      <4>1. answer' = answer /\ refused' = refused /\ layout' = layout
        BY <3>3 DEF partitionVars
      <4>2. GaveUp' = GaveUp
        BY <4>1 DEF GaveUp
      <4>3. QED
        BY <3>3, <4>1, <4>2, CopiesKept DEF GPTFindsTable
    <3>4. QED
      BY <3>1, <3>3
  <2>2. QED
    BY <2>1, DiskStep, LocatedStep, FindsStep
<1>3. QED
  BY <1>1, <1>2, TabledAlways, PTL DEF Spec

-----------------------------------------------------------------------------
(* MBR.                                                                    *)

(* What validatePartitions means, said of sectors and without wrap-around. *)
Acceptable(es) ==
    /\ \A i \in UsedMBREntries(es) :
          es[i].type # 0 /\ es[i].count > 0 /\ es[i].start + es[i].count <= UInt32
    /\ \A i, j \in UsedMBREntries(es) :
          i # j => MBRSectors(es[i]) \cap MBRSectors(es[j]) = {}

LEMMA GeometryTyped ==
    ASSUME NEW g \in MBREntry
    PROVE  /\ UInt32 \in Nat \ {0}
           /\ g.start \in Nat /\ g.start < UInt32 /\ g.count \in Nat /\ g.count < UInt32
  BY PartitionAssumption DEF MBREntry

(* The limit the start is compared with wraps for an empty range only.     *)
LEMMA NoWrap ==
    ASSUME NEW g \in MBREntry, g.count > 0
    PROVE  ~RangeWraps(g) <=> g.start + g.count <= UInt32
<1> DEFINE limit == UInt32 - g.count
<1>1. limit \in 0..(UInt32 - 1) /\ UInt32 - 1 - g.count + 1 = limit
  BY GeometryTyped
<1>2. limit % UInt32 = limit
  BY <1>1, GeometryTyped
<1>3. RangeWraps(g) <=> g.start > limit
  BY <1>1, <1>2 DEF RangeWraps
<1>4. QED
  BY <1>3, GeometryTyped

LEMMA EndOf ==
    ASSUME NEW g \in MBREntry, g.count > 0, g.start + g.count <= UInt32
    PROVE  GetEndLBA(g) = g.start + g.count - 1
<1> DEFINE last == g.start + g.count - 1
<1>1. last \in 0..(UInt32 - 1)
  BY GeometryTyped
<1>2. last % UInt32 = last
  <2> HIDE DEF last
  <2>1. QED
    BY <1>1, GeometryTyped
<1>3. GetEndLBA(g) = last % UInt32
  BY GeometryTyped DEF GetEndLBA
<1>4. QED
  BY <1>2, <1>3

LEMMA OverlapIsSharing ==
    ASSUME NEW g \in MBREntry, g.count > 0, g.start + g.count <= UInt32,
           NEW h \in MBREntry, h.count > 0, h.start + h.count <= UInt32
    PROVE  ~RangesOverlap(g, h) <=> MBRSectors(g) \cap MBRSectors(h) = {}
<1>1. /\ g.start \in Nat /\ g.count \in Nat /\ h.start \in Nat /\ h.count \in Nat
      /\ GetEndLBA(g) = g.start + g.count - 1 /\ GetEndLBA(h) = h.start + h.count - 1
  BY GeometryTyped, EndOf
<1>2. ~RangesOverlap(g, h) <=> g.start + g.count - 1 < h.start \/ h.start + h.count - 1 < g.start
  BY <1>1 DEF RangesOverlap
<1>3. ASSUME g.start + g.count - 1 < h.start \/ h.start + h.count - 1 < g.start
      PROVE  MBRSectors(g) \cap MBRSectors(h) = {}
  BY <1>1, <1>3 DEF MBRSectors
<1>4. ASSUME g.start + g.count - 1 >= h.start, h.start + h.count - 1 >= g.start
      PROVE  MBRSectors(g) \cap MBRSectors(h) # {}
  <2>1. CASE g.start <= h.start
    <3>1. h.start \in MBRSectors(g) \cap MBRSectors(h)
      BY <1>1, <1>4, <2>1 DEF MBRSectors
    <3>2. QED
      BY <3>1
  <2>2. CASE h.start <= g.start
    <3>1. g.start \in MBRSectors(g) \cap MBRSectors(h)
      BY <1>1, <1>4, <2>2 DEF MBRSectors
    <3>2. QED
      BY <3>1
  <2>3. QED
    BY <1>1, <2>1, <2>2
<1>5. QED
  BY <1>1, <1>2, <1>3, <1>4

LEMMA ValidateIsAcceptable ==
    ASSUME NEW es \in Seq(MBREntry)
    PROVE  Validate(es) <=> Acceptable(es)
<1> DEFINE used == UsedMBREntries(es)
           Fits(i) == es[i].type # 0 /\ es[i].count > 0 /\ es[i].start + es[i].count <= UInt32
<1>1. \A i \in used : i \in Nat /\ es[i] \in MBREntry
  BY DEF UsedMBREntries
<1>2. ASSUME NEW i \in used
      PROVE  IsValidGeometry(es[i]) /\ ~RangeWraps(es[i]) <=> Fits(i)
  <2>1. es[i] \in MBREntry /\ es[i].count \in Nat
    BY <1>1, GeometryTyped
  <2>2. QED
    BY <2>1, NoWrap DEF IsValidGeometry
<1>3. ASSUME \A i \in used : Fits(i)
      PROVE  (\A i, j \in used : i < j => ~RangesOverlap(es[i], es[j]))
             <=> (\A i, j \in used : i # j => MBRSectors(es[i]) \cap MBRSectors(es[j]) = {})
  <2>1. ASSUME NEW i \in used, NEW j \in used
        PROVE  ~RangesOverlap(es[i], es[j]) <=> MBRSectors(es[i]) \cap MBRSectors(es[j]) = {}
    BY <1>1, <1>3, OverlapIsSharing
  <2>2. ASSUME NEW i \in used, NEW j \in used, i # j
        PROVE  i < j \/ j < i
    BY <1>1, <2>2
  <2>3. \A i, j \in used : i < j => i # j
    BY <1>1
  <2> HIDE DEF used
  <2>4. QED
    BY <2>1, <2>2, <2>3
<1>4. QED
  <2> HIDE DEF used, Fits
  <2>1. QED
    BY <1>2, <1>3, Zenon DEF Validate, Acceptable, used, Fits

(* The last verdict on an MBR that could be read is that of the test.      *)
Judged ==
    (answer.op = "validatePartitions" /\ layout.mbr.signature /\ ~refused)
    => (answer.kind = "value" <=> Validate(layout.mbr.entries))

LEMMA VerdictJudged ==
    ASSUME ValidatePartitions
    PROVE  Judged'
<1> DEFINE yes == Returned("validatePartitions", <<>>)
           no == Threw("validatePartitions")
<1>1. PICK readable \in BOOLEAN :
        /\ refused' = ~readable /\ layout' = layout
        /\ answer' = IF readable /\ layout.mbr.signature
                       THEN IF Validate(layout.mbr.entries) THEN yes ELSE no ELSE no
  BY Zenon DEF ValidatePartitions, ParseMBR
<1>2. yes.kind = "value" /\ no.kind = "exception"
  BY DEF Returned, Threw
<1>3. Validate(layout.mbr.entries)' = Validate(layout.mbr.entries)
  BY <1>1, Zenon DEF Validate, UsedMBREntries
<1> HIDE DEF yes, no
<1>4. CASE readable /\ layout.mbr.signature
  <2>1. answer' = IF Validate(layout.mbr.entries) THEN yes ELSE no
    BY <1>1, <1>4
  <2>2. answer'.kind = "value" <=> Validate(layout.mbr.entries)
    BY <1>2, <2>1
  <2>3. QED
    BY <1>3, <2>2, Zenon DEF Judged
<1>5. CASE ~(readable /\ layout.mbr.signature)
  BY <1>1, <1>5, Zenon DEF Judged
<1>6. QED
  BY <1>4, <1>5

LEMMA JudgedKept ==
    ASSUME Judged, UNCHANGED <<layout, answer, refused>>
    PROVE  Judged'
  BY Zenon DEF Judged, Validate, UsedMBREntries

LEMMA JudgedStep ==
    ASSUME Judged, PartitionNext
    PROVE  Judged'
<1>1. CASE UNCHANGED <<layout, answer, refused>>
  BY <1>1, JudgedKept
<1>2. CASE answer' \in {Nothing, Threw("parseGPT"), Undefined("parseGPT")}
  <2>1. answer'.op # "validatePartitions"
    BY <1>2 DEF Nothing, Threw, Undefined
  <2>2. QED
    BY <2>1 DEF Judged
<1>3. CASE ParseGPT \/ OverrunEntry \/ ReadFails
  BY <1>2, <1>3 DEF ParseGPT, OverrunEntry, ReadFails, GPTThrows
<1>4. CASE HasProtectiveMBR \/ SetOpen
  BY <1>1, <1>4 DEF HasProtectiveMBR, SetOpen
<1>5. CASE ReadPrimaryHeader
  BY <1>1, <1>2, <1>5 DEF ReadPrimaryHeader, UseHeader, GPTThrows
<1>6. CASE ReadBackupHeader
  BY <1>1, <1>2, <1>6 DEF ReadBackupHeader, UseHeader, GPTThrows
<1>7. CASE ReadEntryArray
  <2>1. \E es : answer' = Returned("parseGPT", es) \/ answer' = Threw("parseGPT")
    BY <1>7, Zenon DEF ReadEntryArray
  <2>2. answer'.op = "parseGPT"
    BY <2>1 DEF Returned, Threw
  <2>3. QED
    BY <2>2 DEF Judged
<1>8. ASSUME NEW op, NEW es, op # "validatePartitions", ParseMBR(op, Returned(op, es))
      PROVE  Judged'
  <2>1. answer' = Returned(op, es) \/ answer' = Threw(op)
    BY <1>8, Zenon DEF ParseMBR
  <2>2. Returned(op, es).op = op /\ Threw(op).op = op
    BY DEF Returned, Threw
  <2>3. answer'.op # "validatePartitions"
    BY <1>8, <2>1, <2>2, Zenon
  <2>4. QED
    BY <2>3 DEF Judged
<1>9. CASE ReadMBR \/ GetPartitionGeometries
  BY <1>8, <1>9 DEF ReadMBR, GetPartitionGeometries
<1>10. QED
  BY <1>3, <1>4, <1>5, <1>6, <1>7, <1>9, VerdictJudged DEF PartitionNext

(* validatePartitions accepts an MBR exactly when its used entries are     *)
(* typed, non-empty, end within 2^32 and share no sector, for every table   *)
(* and every word size: the tests never wrap (PartitionValidator.cpp:44-79)*)
THEOREM MBRAlwaysAccepted == Spec => []MBRAccepted
<1>1. Init => Judged
  <2>1. Nothing.op = "none"
    BY DEF Nothing
  <2>2. QED
    BY <2>1 DEF Init, PartitionInit, Judged
<1>2. Judged /\ [Next]_vars => Judged'
  <2>1. Judged /\ UNCHANGED partitionVars => Judged'
    BY JudgedKept DEF partitionVars
  <2>2. QED
    BY <2>1, DiskStep, JudgedStep
<1>3. Headed /\ Judged => MBRAccepted
  <2>1. Headed => (Validate(layout.mbr.entries) <=> Acceptable(layout.mbr.entries))
    BY LayoutAssumption, ValidateIsAcceptable DEF Headed
  <2>2. QED
    BY <2>1, Zenon DEF Judged, Acceptable, MBRAccepted
<1>4. QED
  BY <1>1, <1>2, <1>3, TabledAlways, PTL DEF Spec

-----------------------------------------------------------------------------
(* NTFS.                                                                   *)

NTFSValid == NTFS!ValidateBootSector_impl(ntfsBoot)
Bytes == NTFS!TotalSectorsOf(ntfsBoot) * SectorSize

(* A favourable verdict is about this boot sector, for it never changes,   *)
(* and every known size is the same product.                               *)
VerdictsHold ==
    /\ said.analyze => NTFSValid
    /\ ~said.needsRepair => NTFSValid
    /\ ~said.errorCount => NTFSValid

SizesHold ==
    /\ said.endOffset \in {0, Bytes}
    /\ said.totalSize \in {0, Bytes}
    /\ said.blockCount \in {0, Bytes \div SectorSize}

NTFSInv ==
    /\ ntfsBoot \in NTFSBoots
    /\ DOMAIN said = NTFS!Ops
    /\ VerdictsHold
    /\ SizesHold

LEMMA NTFSBegins == Init => NTFSInv
<1> SUFFICES ASSUME Init PROVE NTFSInv
  OBVIOUS
<1>1. NTFS!NTFSInit(Some(NTFSBoots, "ntfs"))
  BY DEF Init
<1>2. ntfsBoot \in NTFSBoots
  BY <1>1, VolumesAssumption, Zenon DEF NTFS!NTFSInit, Some
<1>3. said = [op \in NTFS!Ops |-> IF op \in {"needsRepair", "errorCount"} THEN TRUE
                                 ELSE IF op \in NTFS!Verdicts THEN FALSE ELSE 0]
  BY <1>1, Zenon DEF NTFS!NTFSInit
<1>4. /\ said.analyze = FALSE /\ said.needsRepair = TRUE /\ said.errorCount = TRUE
      /\ said.endOffset = 0 /\ said.totalSize = 0 /\ said.blockCount = 0
      /\ DOMAIN said = NTFS!Ops
  BY <1>3 DEF NTFS!Ops, NTFS!Verdicts
<1>5. QED
  BY <1>2, <1>4, Zenon DEF NTFSInv, VerdictsHold, SizesHold

LEMMA NTFSAnswers ==
    ASSUME NEW read \in BOOLEAN
    PROVE  /\ NTFS!Answer("analyze", ntfsBoot, read) => NTFSValid
           /\ ~NTFS!Answer("needsRepair", ntfsBoot, read) => NTFSValid
           /\ ~NTFS!Answer("errorCount", ntfsBoot, read) => NTFSValid
           /\ NTFS!Answer("endOffset", ntfsBoot, read) \in {0, Bytes}
           /\ NTFS!Answer("totalSize", ntfsBoot, read) \in {0, Bytes}
           /\ NTFS!Answer("blockCount", ntfsBoot, read) \in {0, Bytes \div SectorSize}
<1>1. 0 \div SectorSize = 0
  BY VolumesAssumption
<1>2. NTFS!Answer("analyze", ntfsBoot, read) => NTFSValid
  BY DEF NTFS!Answer, NTFS!Analyze, NTFSValid
<1>3. ~NTFS!Answer("needsRepair", ntfsBoot, read) => NTFSValid
  BY DEF NTFS!Answer, NTFS!NeedsRepair, NTFSValid
<1>4. ~NTFS!Answer("errorCount", ntfsBoot, read) => NTFSValid
  BY DEF NTFS!Answer, NTFS!GetErrorCount, NTFSValid
<1>5. NTFS!Answer("endOffset", ntfsBoot, read) \in {0, Bytes}
  BY DEF NTFS!Answer, NTFS!GetEndOffset, NTFS!GetSize, Bytes
<1>6. NTFS!Answer("totalSize", ntfsBoot, read) \in {0, Bytes}
  BY DEF NTFS!Answer, NTFS!GetTotalSize, Bytes
<1>7. NTFS!Answer("blockCount", ntfsBoot, read) \in {0, Bytes \div SectorSize}
  BY <1>1 DEF NTFS!Answer, NTFS!GetBlockCount, NTFS!GetTotalSize, Bytes
<1>8. QED
  BY <1>2, <1>3, <1>4, <1>5, <1>6, <1>7

LEMMA NTFSKept ==
    ASSUME NTFSInv, UNCHANGED ntfsVars
    PROVE  NTFSInv'
  BY Zenon DEF NTFSInv, ntfsVars, VerdictsHold, SizesHold, NTFSValid, Bytes

LEMMA NTFSStep ==
    ASSUME NTFSInv, NTFS!NTFSNext
    PROVE  NTFSInv'
<1>1. PICK op \in NTFS!Ops, read \in BOOLEAN :
         /\ said' = [said EXCEPT ![op] = NTFS!Answer(op, ntfsBoot, read)]
         /\ ntfsBoot' = ntfsBoot
  BY Zenon DEF NTFS!NTFSNext, NTFS!AskVolume
<1> DEFINE answered == NTFS!Answer(op, ntfsBoot, read)
<1>2. /\ op = "analyze" => (answered => NTFSValid)
      /\ op = "needsRepair" => (~answered => NTFSValid)
      /\ op = "errorCount" => (~answered => NTFSValid)
      /\ op = "endOffset" => answered \in {0, Bytes}
      /\ op = "totalSize" => answered \in {0, Bytes}
      /\ op = "blockCount" => answered \in {0, Bytes \div SectorSize}
  BY NTFSAnswers, Zenon
<1> HIDE DEF answered
<1>3. DOMAIN said' = NTFS!Ops
  BY <1>1 DEF NTFSInv
<1>4. \A o \in NTFS!Ops : said'[o] = IF o = op THEN answered ELSE said[o]
  BY <1>1, Zenon DEF NTFSInv, answered
<1>5. NTFSValid' = NTFSValid /\ Bytes' = Bytes
  BY <1>1, Zenon DEF NTFSValid, Bytes
<1>6. VerdictsHold'
  <2>1. \A o \in {"analyze", "needsRepair", "errorCount"} : o \in NTFS!Ops
    BY DEF NTFS!Ops, NTFS!Verdicts
  <2>2. QED
    BY <1>2, <1>4, <1>5, <2>1, Zenon DEF NTFSInv, VerdictsHold
<1>7. SizesHold'
  <2>1. \A o \in {"endOffset", "totalSize", "blockCount"} : o \in NTFS!Ops
    BY DEF NTFS!Ops
  <2>2. QED
    BY <1>2, <1>4, <1>5, <2>1, Zenon DEF NTFSInv, SizesHold
<1>8. QED
  BY <1>1, <1>3, <1>6, <1>7 DEF NTFSInv

(* The driver's copy of the test of a boot sector is the analyzer's.       *)
LEMMA OneNTFSTest == NTFSProbe(ntfsBoot) = IF NTFSValid THEN 4 ELSE 0
<1>1. PowersOf2 = NTFS!PowersOf2 /\ BootSectorSize = NTFS!BootSectorSize
  BY Zenon DEF PowersOf2, NTFS!PowersOf2, BootSectorSize, NTFS!BootSectorSize
<1>2. QED
  BY <1>1, Zenon DEF NTFSProbe, ValidateBootSector, NTFSValid, NTFS!ValidateBootSector_impl

LEMMA NTFSAgrees == NTFSInv => NTFSViewsAgree
<1> SUFFICES ASSUME NTFSInv PROVE NTFSViewsAgree
  OBVIOUS
<1>1. NTFSProbe(ntfsBoot) = IF NTFSValid THEN 4 ELSE 0
  BY OneNTFSTest
<1>2. said.analyze => NTFSProbe(ntfsBoot) = 4 /\ NTFS!IsValidVolume(ntfsBoot)
  BY <1>1, Zenon DEF NTFSInv, VerdictsHold, NTFSValid, NTFS!ValidateBootSector_impl,
                     NTFS!IsValidVolume
<1>3. NTFSProbe(ntfsBoot) = 0 => said.needsRepair /\ said.errorCount
  <2>1. NTFSProbe(ntfsBoot) = 0 => ~NTFSValid
    BY <1>1
  <2>2. QED
    BY <2>1, Zenon DEF NTFSInv, VerdictsHold
<1>4. ~said.needsRepair => ~NTFS!NeedsRepair(ntfsBoot, TRUE) /\ NTFSProbe(ntfsBoot) = 4
  BY <1>1, Zenon DEF NTFSInv, VerdictsHold, NTFSValid, NTFS!NeedsRepair
<1>5. said.endOffset # 0 /\ said.totalSize # 0 => said.endOffset = said.totalSize
  BY Zenon DEF NTFSInv, SizesHold
<1>6. said.blockCount # 0 /\ said.totalSize # 0 => said.blockCount * SectorSize = said.totalSize
  <2>1. PICK n \in Nat : n = NTFS!TotalSectorsOf(ntfsBoot)
    BY VolumesAssumption DEF NTFSInv, NTFS!TotalSectorsOf
  <2>2. (n * SectorSize + 0) \div SectorSize = n
    BY Quotient, VolumesAssumption
  <2>3. n * SectorSize + 0 = n * SectorSize
    BY VolumesAssumption
  <2>4. Bytes \div SectorSize = n /\ Bytes = n * SectorSize
    BY <2>1, <2>2, <2>3, Zenon DEF Bytes
  <2>5. QED
    BY <2>4, Zenon DEF NTFSInv, SizesHold
<1>7. QED
  BY <1>2, <1>3, <1>4, <1>5, <1>6, Zenon DEF NTFSViewsAgree

(* The driver, the analyzer, the volume and the metadata of an NTFS volume *)
(* never contradict each other about one boot sector, however often each   *)
(* is asked and whichever of their reads fail (NTFSDriver.cpp:42-73,       *)
(* NTFSAnalyzer.cpp:55-134, NTFSVolume.cpp:32-72, NTFSMetadata.cpp:88-155).*)
THEOREM NTFSViewsAlwaysAgree == Spec => []NTFSViewsAgree
<1>1. NTFSInv /\ [Next]_vars => NTFSInv'
  <2>1. [Next]_vars => NTFS!NTFSNext \/ UNCHANGED ntfsVars
    BY DEF Next, vars, NTFS!ntfsVars, ntfsVars
  <2>2. QED
    BY <2>1, NTFSStep, NTFSKept
<1>2. QED
  BY NTFSBegins, <1>1, NTFSAgrees, PTL DEF Spec

-----------------------------------------------------------------------------
(* FAT.                                                                    *)

(* What each object says of a boot sector.                                 *)
FilesystemSays(b) == [type |-> FAT!FilesystemType(b)]
MetadataSays(b) ==
    [type |-> FAT!MetadataType(b), size |-> FAT!MetadataTotalSize(b),
     blocks |-> FAT!GetBlockCount(b)]
VolumeSays(b) ==
    [type |-> FAT!VolumeType(b), size |-> FAT!VolumeSize(b),
     end |-> FAT!GetEndOffset(b, 0), valid |-> FAT!IsValid(b)]

Objects == {"filesystem", "metadata", "volume", "parser"}

(* What an object of a filesystem s, a parser p and the views v said is    *)
(* what it says of the sector its owner has kept since.                    *)
Cached(s, p) ==
    /\ s.loaded => s.boot \in FATBoots /\ s.boot.signature510
    /\ p.loaded => p.boot \in FATBoots

Spoken(s, p, v) ==
    /\ DOMAIN v = Objects
    /\ v["filesystem"] # FAT!None => s.loaded /\ v["filesystem"] = FilesystemSays(s.boot)
    /\ v["metadata"] # FAT!None => s.loaded /\ v["metadata"] = MetadataSays(s.boot)
    /\ v["volume"] # FAT!None => s.loaded /\ v["volume"] = VolumeSays(s.boot)
    /\ v["parser"] # FAT!None => p.loaded /\ v["parser"] = FAT!CalculateFatParameters(p.boot)

FATInv ==
    /\ boot \in FATBoots
    /\ Cached(fs, parser)
    /\ Spoken(fs, parser, view)

LEMMA FreshVolume ==
    /\ Cached(FAT!Fresh, FAT!Fresh)
    /\ Spoken(FAT!Fresh, FAT!Fresh, FAT!NoView)
<1>1. FAT!Fresh.loaded = FALSE
  BY DEF FAT!Fresh
<1>2. DOMAIN FAT!NoView = Objects /\ \A o \in Objects : FAT!NoView[o] = FAT!None
  BY DEF FAT!NoView, Objects
<1>3. QED
  BY <1>1, <1>2, Zenon DEF Cached, Spoken, Objects

LEMMA FATBegins == Init => FATInv
<1> SUFFICES ASSUME Init PROVE FATInv
  OBVIOUS
<1>1. FAT!FATInit(Some(FATBoots, "fat"))
  BY DEF Init
<1>2. fs = FAT!Fresh /\ parser = FAT!Fresh /\ view = FAT!NoView
  BY <1>1 DEF FAT!FATInit
<1>3. boot \in FATBoots
  BY <1>1, VolumesAssumption, Zenon DEF FAT!FATInit, Some
<1>4. QED
  BY <1>2, <1>3, FreshVolume, Zenon DEF FATInv

LEMMA FATCrash == FATInv /\ FAT!Crash => FATInv'
<1> SUFFICES ASSUME FATInv, FAT!Crash PROVE FATInv'
  OBVIOUS
<1>1. fs' = FAT!Fresh /\ parser' = FAT!Fresh /\ view' = FAT!NoView /\ boot' = boot
  BY DEF FAT!Crash
<1>2. QED
  BY <1>1, FreshVolume, Zenon DEF FATInv

(* A filesystem in use keeps its sector, so an answer about the sector in  *)
(* use joins earlier ones about the same.                                  *)
LEMMA FATUse ==
    ASSUME FATInv, NEW says,
           \/ FAT!UseFilesystem("filesystem", says) /\ says = FilesystemSays(FAT!InUse)
           \/ FAT!UseFilesystem("metadata", says) /\ says = MetadataSays(FAT!InUse)
           \/ FAT!UseFilesystem("volume", says) /\ says = VolumeSays(FAT!InUse)
    PROVE  FATInv'
<1>1. CASE FAT!Crash
  BY <1>1, FATCrash
<1>2. CASE ~FAT!Crash
  <2>1. PICK object \in {"filesystem", "metadata", "volume"} :
          /\ FAT!UseFilesystem(object, says)
          /\ object = "filesystem" => says = FilesystemSays(FAT!InUse)
          /\ object = "metadata" => says = MetadataSays(FAT!InUse)
          /\ object = "volume" => says = VolumeSays(FAT!InUse)
    OBVIOUS
  <2>2. PICK b : b = FAT!InUse
    OBVIOUS
  <2>3. /\ FAT!Initialized
        /\ fs' = [loaded |-> TRUE, boot |-> b]
        /\ view' = [view EXCEPT ![object] = says]
        /\ boot' = boot /\ parser' = parser
    <3>1. PICK survives \in BOOLEAN :
            /\ survives => FAT!Initialized
            /\ IF ~survives \/ FAT!Traps(FAT!InUse) THEN FAT!Crash
               ELSE /\ fs' = [loaded |-> TRUE, boot |-> FAT!InUse]
                    /\ view' = [view EXCEPT ![object] = says]
                    /\ UNCHANGED <<boot, parser>>
      BY <2>1, Zenon DEF FAT!UseFilesystem
    <3>2. QED
      BY <1>2, <2>2, <3>1, Zenon
  <2>4. b \in FATBoots /\ b.signature510
    BY <2>2, <2>3 DEF FATInv, Cached, FAT!Initialized, FAT!InUse
  <2>5. fs'.loaded = TRUE /\ fs'.boot = b /\ (fs.loaded => fs.boot = b)
    BY <2>2, <2>3 DEF FAT!InUse
  <2>6. DOMAIN view' = Objects
    BY <2>3 DEF FATInv, Spoken
  <2>7. \A o \in Objects : view'[o] = IF o = object THEN says ELSE view[o]
    BY <2>3, Zenon DEF FATInv, Spoken
  <2>8. Spoken(fs', parser', view')
    <3>1. \A o \in {"filesystem", "metadata", "volume", "parser"} : o \in Objects
      BY DEF Objects
    <3>2. object # "parser"
      BY <2>1
    <3>3. view'["filesystem"] # FAT!None => view'["filesystem"] = FilesystemSays(b)
      BY <2>1, <2>2, <2>5, <2>7, <3>1, Zenon DEF FATInv, Spoken
    <3>4. view'["metadata"] # FAT!None => view'["metadata"] = MetadataSays(b)
      BY <2>1, <2>2, <2>5, <2>7, <3>1, Zenon DEF FATInv, Spoken
    <3>5. view'["volume"] # FAT!None => view'["volume"] = VolumeSays(b)
      BY <2>1, <2>2, <2>5, <2>7, <3>1, Zenon DEF FATInv, Spoken
    <3>6. view'["parser"] = view["parser"]
      BY <2>7, <3>1, <3>2, Zenon
    <3>7. QED
      BY <2>3, <2>5, <2>6, <3>3, <3>4, <3>5, <3>6, Zenon DEF FATInv, Spoken
  <2>9. Cached(fs', parser')
    BY <2>3, <2>4, <2>5, Zenon DEF FATInv, Cached
  <2>10. QED
    BY <2>3, <2>8, <2>9, Zenon DEF FATInv
<1>3. QED
  BY <1>1, <1>2

(* A parser keeps the first sector it reads.                               *)
LEMMA FATParser ==
    ASSUME FATInv, NEW b \in FATBoots, FAT!LoadBootSector(b), UNCHANGED <<boot, fs>>,
           \/ view' = view
           \/ view' = [view EXCEPT !["parser"] = FAT!CalculateFatParameters(b)]
    PROVE  FATInv'
<1>1. parser' = [loaded |-> TRUE, boot |-> b] /\ b = IF parser.loaded THEN parser.boot ELSE boot
  BY DEF FAT!LoadBootSector
<1>2. parser'.loaded = TRUE /\ parser'.boot = b /\ (parser.loaded => parser.boot = b)
  BY <1>1
<1>3. Cached(fs', parser')
  BY <1>2, Zenon DEF FATInv, Cached
<1>4. DOMAIN view' = Objects
  BY DEF FATInv, Spoken
<1>5. \A o \in Objects : \/ view'[o] = view[o]
                         \/ o = "parser" /\ view'[o] = FAT!CalculateFatParameters(b)
  BY Zenon DEF FATInv, Spoken
<1>6. \A o \in {"filesystem", "metadata", "volume", "parser"} : o \in Objects
  BY DEF Objects
<1>7. /\ view'["filesystem"] = view["filesystem"] /\ view'["metadata"] = view["metadata"]
      /\ view'["volume"] = view["volume"]
  BY <1>5, <1>6
<1>8. view'["parser"] # FAT!None => view'["parser"] = FAT!CalculateFatParameters(b)
  BY <1>2, <1>5, <1>6, Zenon DEF FATInv, Spoken
<1>9. Spoken(fs', parser', view')
  BY <1>2, <1>4, <1>7, <1>8, Zenon DEF FATInv, Spoken
<1>10. QED
  BY <1>3, <1>9, Zenon DEF FATInv

LEMMA FATKept ==
    ASSUME FATInv, UNCHANGED <<fs, parser, view>>, boot' \in FATBoots
    PROVE  FATInv'
  BY Zenon DEF FATInv

LEMMA FATStep ==
    ASSUME FATInv, FAT!FATNext
    PROVE  FATInv'
<1>1. CASE FAT!GetType
  <2>1. PICK says : says = FilesystemSays(FAT!InUse)
    OBVIOUS
  <2>2. FAT!UseFilesystem("filesystem", says)
    BY <1>1, <2>1, Zenon DEF FAT!GetType, FilesystemSays
  <2>3. QED
    BY <2>1, <2>2, FATUse, Zenon
<1>2. CASE FAT!GetMetadata
  <2>1. PICK says : says = MetadataSays(FAT!InUse)
    OBVIOUS
  <2>2. FAT!UseFilesystem("metadata", says)
    BY <1>2, <2>1, Zenon DEF FAT!GetMetadata, MetadataSays
  <2>3. QED
    BY <2>1, <2>2, FATUse, Zenon
<1>3. CASE FAT!GetVolume
  <2>1. PICK says : says = VolumeSays(FAT!InUse)
    OBVIOUS
  <2>2. FAT!UseFilesystem("volume", says)
    BY <1>3, <2>1, Zenon DEF FAT!GetVolume, VolumeSays
  <2>3. QED
    BY <2>1, <2>2, FATUse, Zenon
<1>4. CASE FAT!ParseFatTable
  <2>1. PICK b \in FATBoots :
          \/ FAT!Crash
          \/ /\ FAT!LoadBootSector(b)
             /\ boot' = boot /\ fs' = fs
             /\ view' = view \/ view' = [view EXCEPT !["parser"] = FAT!CalculateFatParameters(b)]
    BY <1>4, Zenon DEF FAT!ParseFatTable
  <2>2. QED
    BY <2>1, FATCrash, FATParser, Zenon
<1>5. CASE FAT!AskParser
  <2>1. PICK b \in FATBoots :
          \/ FAT!Crash
          \/ /\ FAT!LoadBootSector(b)
             /\ boot' = boot /\ fs' = fs
             /\ view' = [view EXCEPT !["parser"] =
                           [sectorsPerFat |-> FAT!GetSectorsPerFat(b),
                            clusterCount |-> FAT!GetClusterCount(b), type |-> FAT!ParserType(b)]]
    BY <1>5, Zenon DEF FAT!AskParser
  <2>2. FAT!CalculateFatParameters(b) =
          [sectorsPerFat |-> FAT!GetSectorsPerFat(b),
           clusterCount |-> FAT!GetClusterCount(b), type |-> FAT!ParserType(b)]
    BY Zenon DEF FAT!CalculateFatParameters, FAT!GetClusterCount, FAT!ParserType,
                 FAT!ParserDataSectors
  <2>3. QED
    BY <2>1, <2>2, FATCrash, FATParser, Zenon
<1>6. CASE \E b \in FATBoots : FAT!WriteBootSector(b)
  BY <1>6, FATKept DEF FAT!WriteBootSector
<1>7. QED
  BY <1>1, <1>2, <1>3, <1>4, <1>5, <1>6, Zenon DEF FAT!FATNext

(* With a known size the parser counts the same data sectors.              *)
LEMMA ParserAgrees ==
    ASSUME NEW b \in FATBoots, FAT!SizeKnown(b)
    PROVE  FAT!CalculateFatParameters(b).type = FAT!VolumeType(b)
<1>1. PICK spf \in Nat : spf = b.sectorsPerFat16
  BY VolumesAssumption
<1>2. b.fatCount = 2
  BY DEF FAT!SizeKnown
<1>3. FAT!GetSectorsPerFat(b) = spf /\ FAT!FatsSize(b) = 2 * spf
  BY <1>1, <1>2, Zenon DEF FAT!GetSectorsPerFat, FAT!FatsSize
<1>4. spf * 2 = 2 * spf
  OBVIOUS
<1>5. FAT!ParserDataSectors(b) = FAT!DataSectors(b)
  BY <1>2, <1>3, <1>4, Zenon DEF FAT!ParserDataSectors, FAT!DataSectors
<1>6. FAT!ParserType(b) = FAT!VolumeType(b)
  BY <1>5, Zenon DEF FAT!ParserType, FAT!VolumeType
<1>7. FAT!CalculateFatParameters(b) =
          [sectorsPerFat |-> FAT!GetSectorsPerFat(b),
           clusterCount |-> FAT!GetClusterCount(b), type |-> FAT!ParserType(b)]
  BY Zenon DEF FAT!CalculateFatParameters, FAT!GetClusterCount, FAT!ParserType,
               FAT!ParserDataSectors
<1>8. QED
  BY <1>6, <1>7

LEMMA ValidVolume ==
    ASSUME NEW b \in FATBoots, FAT!IsValid(b)
    PROVE  FAT!GetEndOffset(b, 0) < FAT!VolumeSize(b) /\ FAT!GetBlockCount(b) > 0
<1>1. PICK n \in Nat : n = FAT!TotalSectors(b) /\ n > 0
  BY VolumesAssumption DEF FAT!IsValid, FAT!TotalSectors
<1>2. PICK v \in Nat : v = n * SectorSize
  BY VolumesAssumption
<1>3. FAT!VolumeSize(b) = v
  BY <1>1, <1>2 DEF FAT!VolumeSize
<1>4. v > 0
  <2>1. 1 * SectorSize <= n * SectorSize
    BY <1>1, Products, VolumesAssumption
  <2>2. QED
    BY <1>2, <2>1, VolumesAssumption
<1>5. QED
  BY <1>1, <1>3, <1>4 DEF FAT!GetEndOffset, FAT!GetBlockCount

LEMMA FATAgrees == FATInv => FATViewsAgree
<1> SUFFICES ASSUME FATInv PROVE FAT!FATViewsAgree
  BY DEF FATViewsAgree
<1> DEFINE b == fs.boot
<1>1. FAT!Says("filesystem") => view.filesystem.type = FAT!FilesystemType(b)
  <2>1. FilesystemSays(b).type = FAT!FilesystemType(b)
    BY DEF FilesystemSays
  <2>2. QED
    BY <2>1, Zenon DEF FATInv, Spoken, FAT!Says
<1>2. FAT!Says("metadata") => /\ view.metadata.type = FAT!MetadataType(b)
                              /\ view.metadata.size = FAT!MetadataTotalSize(b)
                              /\ view.metadata.blocks = FAT!GetBlockCount(b)
  <2>1. /\ MetadataSays(b).type = FAT!MetadataType(b)
        /\ MetadataSays(b).size = FAT!MetadataTotalSize(b)
        /\ MetadataSays(b).blocks = FAT!GetBlockCount(b)
    BY DEF MetadataSays
  <2>2. QED
    BY <2>1, Zenon DEF FATInv, Spoken, FAT!Says
<1>3. FAT!Says("volume") => /\ b \in FATBoots
                            /\ view.volume.type = FAT!VolumeType(b)
                            /\ view.volume.size = FAT!VolumeSize(b)
                            /\ view.volume.end = FAT!GetEndOffset(b, 0)
                            /\ view.volume.valid = FAT!IsValid(b)
  <2>1. /\ VolumeSays(b).type = FAT!VolumeType(b)
        /\ VolumeSays(b).size = FAT!VolumeSize(b)
        /\ VolumeSays(b).end = FAT!GetEndOffset(b, 0)
        /\ VolumeSays(b).valid = FAT!IsValid(b)
    BY Zenon DEF VolumeSays
  <2>2. QED
    BY <2>1, Zenon DEF FATInv, Cached, Spoken, FAT!Says
<1>4. FAT!Says("parser") /\ parser.boot = b => view.parser.type = FAT!CalculateFatParameters(b).type
  BY Zenon DEF FATInv, Spoken, FAT!Says
<1>5. FAT!FilesystemType(b) = FAT!MetadataType(b) /\ FAT!MetadataType(b) = FAT!VolumeType(b)
  BY Zenon DEF FAT!FilesystemType, FAT!MetadataType, FAT!VolumeType
<1>6. b.bytesPerSector = SectorSize => FAT!VolumeSize(b) = FAT!MetadataTotalSize(b)
  BY Zenon DEF FAT!VolumeSize, FAT!MetadataTotalSize
<1>7. b \in FATBoots /\ FAT!IsValid(b) =>
         FAT!GetEndOffset(b, 0) < FAT!VolumeSize(b) /\ FAT!GetBlockCount(b) > 0
  BY ValidVolume
<1>8. b \in FATBoots /\ FAT!SizeKnown(b) =>
         FAT!CalculateFatParameters(b).type = FAT!VolumeType(b)
  BY ParserAgrees
<1>9. FAT!Says("filesystem") /\ FAT!Says("metadata") => view.filesystem.type = view.metadata.type
  BY <1>1, <1>2, <1>5, Zenon
<1>10. FAT!Says("metadata") /\ FAT!Says("volume") =>
          /\ view.metadata.type = view.volume.type
          /\ view.volume.valid => view.volume.end < view.volume.size /\ view.metadata.blocks > 0
          /\ b.bytesPerSector = SectorSize => view.volume.size = view.metadata.size
  BY <1>2, <1>3, <1>5, <1>6, <1>7, Zenon
<1>11. (FAT!Says("volume") /\ FAT!Says("parser") /\ parser.boot = b /\ FAT!SizeKnown(b)) =>
          view.parser.type = view.volume.type
  BY <1>3, <1>4, <1>8, Zenon
<1>12. QED
  BY <1>9, <1>10, <1>11, Zenon DEF FAT!FATViewsAgree

LEMMA FATAlways == Spec => []FATInv
<1>1. FATInv /\ [Next]_vars => FATInv'
  <2>1. [Next]_vars => FAT!FATNext \/ UNCHANGED fatVars
    BY DEF Next, vars
  <2>2. FATInv /\ UNCHANGED fatVars => FATInv'
    BY FATKept DEF FATInv, fatVars
  <2>3. QED
    BY <2>1, <2>2, FATStep
<1>2. QED
  BY FATBegins, <1>1, PTL DEF Spec

(* The filesystem, its metadata, its volume and the parser describe the    *)
(* same FAT volume although the sector is rewritten between their uses and *)
(* the process may die on a zero divisor, for every set of boot sectors    *)
(* and every reader (FATFilesystem.cpp:177-220, FATMetadata.cpp:150-183,   *)
(* FATVolume.cpp:27-75, FATTableParser.cpp:45-176).                        *)
THEOREM FATViewsAlwaysAgree == Spec => []FATViewsAgree
  BY FATAlways, FATAgrees, PTL

-----------------------------------------------------------------------------
(* The registry.                                                           *)

(* The steps of Without are those of a function that exists.               *)
Leaving(d, s, f) ==
    f = [i \in 0..Len(s) |->
            IF i = 0 THEN <<>>
            ELSE IF s[i] = d THEN f[i - 1] ELSE Append(f[i - 1], s[i])]

LEMMA LeavingExists ==
    ASSUME NEW d, NEW S, NEW s \in Seq(S)
    PROVE  \E f : Leaving(d, s, f)
<1> DEFINE Begun(n) == \E f : f = [i \in 0..n |->
                                     IF i = 0 THEN <<>>
                                     ELSE IF s[i] = d THEN f[i - 1] ELSE Append(f[i - 1], s[i])]
           T == {n \in Nat : Begun(n)}
<1>1. Begun(0)
  <2>1. PICK f : f = [i \in 0..0 |-> <<>>]
    OBVIOUS
  <2>2. \A i \in 0..0 : i = 0
    OBVIOUS
  <2>3. f = [i \in 0..0 |-> IF i = 0 THEN <<>>
                            ELSE IF s[i] = d THEN f[i - 1] ELSE Append(f[i - 1], s[i])]
    BY <2>1, <2>2
  <2>4. QED
    BY <2>3
<1>2. ASSUME NEW n \in Nat, Begun(n)
      PROVE  Begun(n + 1)
  <2>1. PICK f : f = [i \in 0..n |->
                        IF i = 0 THEN <<>>
                        ELSE IF s[i] = d THEN f[i - 1] ELSE Append(f[i - 1], s[i])]
    BY <1>2
  <2> DEFINE h == [i \in 0..n + 1 |->
                     IF i <= n THEN f[i]
                     ELSE IF s[i] = d THEN f[i - 1] ELSE Append(f[i - 1], s[i])]
  <2>2. \A i \in 0..n + 1 : i # 0 => i - 1 \in 0..n + 1 /\ i - 1 <= n
    OBVIOUS
  <2>3. \A i \in 0..n + 1 : i # 0 => h[i - 1] = f[i - 1]
    BY <2>2
  <2>4. \A i \in 0..n : f[i] = IF i = 0 THEN <<>>
                               ELSE IF s[i] = d THEN f[i - 1] ELSE Append(f[i - 1], s[i])
    BY <2>1, Zenon
  <2>5. \A i \in 0..n + 1 : h[i] = IF i = 0 THEN <<>>
                                   ELSE IF s[i] = d THEN h[i - 1] ELSE Append(h[i - 1], s[i])
    <3> TAKE i \in 0..n + 1
    <3>1. CASE i <= n
      <4>1. i \in 0..n
        BY <3>1
      <4>2. h[i] = f[i]
        BY <3>1
      <4>3. QED
        BY <2>3, <2>4, <4>1, <4>2, Zenon
    <3>2. CASE ~(i <= n)
      <4>1. i # 0
        BY <3>2
      <4>2. h[i] = IF s[i] = d THEN f[i - 1] ELSE Append(f[i - 1], s[i])
        BY <3>2, Zenon
      <4>3. QED
        BY <2>3, <4>1, <4>2, Zenon
    <3>3. QED
      BY <3>1, <3>2
  <2>6. h = [i \in 0..n + 1 |-> h[i]]
    BY Zenon
  <2> HIDE DEF h
  <2>7. h = [i \in 0..n + 1 |-> IF i = 0 THEN <<>>
                               ELSE IF s[i] = d THEN h[i - 1] ELSE Append(h[i - 1], s[i])]
    BY <2>5, <2>6, Zenon
  <2>8. QED
    BY <2>7
<1> HIDE DEF Begun
<1>3. \A n \in Nat : n \in T
  <2>1. 0 \in T /\ \A n \in Nat : n \in T => n + 1 \in T
    BY <1>1, <1>2
  <2> HIDE DEF T
  <2>2. QED
    BY <2>1, Induction
<1>4. Len(s) \in Nat
  OBVIOUS
<1>5. Begun(Len(s))
  BY <1>3, <1>4
<1>6. QED
  BY <1>5, Zenon DEF Begun, Leaving

LEMMA WithoutLeaves ==
    ASSUME NEW d, NEW S, NEW s \in Seq(S)
    PROVE  \E f : Leaving(d, s, f) /\ Without(d, s) = f[Len(s)]
<1> DEFINE f == CHOOSE g : Leaving(d, s, g)
<1>1. Leaving(d, s, f)
  BY LeavingExists, Zenon
<1>2. Without(d, s) = f[Len(s)]
  BY Zenon DEF Without, Leaving
<1>3. QED
  BY <1>1, <1>2, Zenon

(* What is left are drivers of the list, each as often as before at most.  *)
LEMMA WithoutKeeps ==
    ASSUME NEW d, NEW S, NEW s \in Seq(S), IsInjective(s)
    PROVE  Without(d, s) \in Seq(S) /\ IsInjective(Without(d, s))
<1>1. PICK f : Leaving(d, s, f) /\ Without(d, s) = f[Len(s)]
  BY WithoutLeaves
<1>2. Len(s) \in Nat /\ DOMAIN s = 1..Len(s) /\ \A i \in 1..Len(s) : s[i] \in S
  OBVIOUS
<1>3. \A i \in 0..Len(s) : f[i] = IF i = 0 THEN <<>>
                                  ELSE IF s[i] = d THEN f[i - 1] ELSE Append(f[i - 1], s[i])
  BY <1>1, Zenon DEF Leaving
<1>4. \A i, j \in 1..Len(s) : s[i] = s[j] => i = j
  BY <1>2 DEF IsInjective
<1> DEFINE From(i) == \A j \in 1..Len(f[i]) : \E k \in 1..i : f[i][j] = s[k]
           Once(i) == \A j, k \in 1..Len(f[i]) : f[i][j] = f[i][k] => j = k
           Kept(i) == f[i] \in Seq(S) /\ From(i) /\ Once(i)
           T == {i \in Nat : i <= Len(s) => Kept(i)}
<1>5. Kept(0)
  <2>1. f[0] = <<>>
    BY <1>2, <1>3
  <2>2. QED
    BY <2>1
<1>6. ASSUME NEW i \in Nat, i + 1 <= Len(s), Kept(i)
      PROVE  Kept(i + 1)
  <2>1. i + 1 \in 0..Len(s) /\ i + 1 # 0 /\ i + 1 - 1 = i /\ i + 1 \in 1..Len(s)
    BY <1>2, <1>6
  <2>2. f[i + 1] = IF s[i + 1] = d THEN f[i] ELSE Append(f[i], s[i + 1])
    BY <1>3, <2>1
  <2>3. CASE f[i + 1] = f[i]
    BY <1>6, <2>1, <2>3
  <2>4. CASE f[i + 1] = Append(f[i], s[i + 1])
    <3> DEFINE n == Len(f[i])
    <3>1. f[i] \in Seq(S) /\ s[i + 1] \in S
      BY <1>2, <1>6, <2>1
    <3>2. /\ f[i + 1] \in Seq(S)
          /\ Len(f[i + 1]) = n + 1 /\ n \in Nat
          /\ \A j \in 1..n : f[i + 1][j] = f[i][j]
          /\ f[i + 1][n + 1] = s[i + 1]
      BY <2>4, <3>1
    <3>3. \A j \in 1..n + 1 : j \in 1..n \/ j = n + 1
      BY <3>2
    <3>4. From(i + 1)
      <4>1. \A j \in 1..n : \E k \in 1..i : f[i][j] = s[k]
        BY <1>6
      <4> HIDE DEF n
      <4>2. \A j \in 1..n : \E k \in 1..i + 1 : f[i + 1][j] = s[k]
        <5> TAKE j \in 1..n
        <5>1. PICK k \in 1..i : f[i][j] = s[k]
          BY <4>1
        <5>2. f[i + 1][j] = s[k]
          BY <3>2, <5>1, Zenon
        <5>3. k \in 1..i + 1
          OBVIOUS
        <5>4. QED
          BY <5>2, <5>3, Zenon
      <4>3. i + 1 \in 1..i + 1
        BY <2>1
      <4>4. \A j \in 1..n + 1 : \E k \in 1..i + 1 : f[i + 1][j] = s[k]
        <5> TAKE j \in 1..n + 1
        <5>1. CASE j \in 1..n
          BY <4>2, <5>1, Zenon
        <5>2. CASE j = n + 1
          BY <3>2, <4>3, <5>2, Zenon
        <5>3. QED
          BY <3>3, <5>1, <5>2, Zenon
      <4>5. QED
        BY <3>2, <4>4, Zenon
    <3>5. \A j \in 1..n : f[i + 1][j] # s[i + 1]
      <4> TAKE j \in 1..n
      <4>1. PICK k \in 1..i : f[i][j] = s[k]
        BY <1>6
      <4>2. k \in 1..Len(s) /\ k # i + 1
        BY <1>2, <2>1
      <4>3. QED
        BY <1>4, <2>1, <3>2, <4>1, <4>2
    <3>6. Once(i + 1)
      <4> HIDE DEF n
      <4>1. \A j, k \in 1..n : f[i][j] = f[i][k] => j = k
        BY <1>6 DEF n
      <4>2. \A j, k \in 1..n + 1 : f[i + 1][j] = f[i + 1][k] => j = k
        BY <3>2, <3>3, <3>5, <4>1
      <4>3. QED
        BY <3>2, <4>2
    <3>7. QED
      BY <3>2, <3>4, <3>6
  <2>5. QED
    BY <2>2, <2>3, <2>4
<1> HIDE DEF Kept
<1>7. 0 \in T
  BY <1>5
<1>8. \A i \in Nat : i \in T => i + 1 \in T
  BY <1>2, <1>6
<1>9. Kept(Len(s))
  <2>1. \A i \in Nat : i \in T
    <3> HIDE DEF T
    <3>1. QED
      BY <1>7, <1>8, Induction
  <2>2. QED
    BY <1>2, <2>1
<1>10. QED
  BY <1>1, <1>9 DEF Kept, IsInjective

LEMMA MinOfNaturals ==
    ASSUME NEW S \in SUBSET Nat, S # {}
    PROVE  Min(S) \in S /\ \A n \in S : Min(S) <= n
<1>1. \E m \in S : \A n \in S : m <= n
  BY LeastElement
<1>2. QED
  BY <1>1, Zenon DEF Min

LEMMA GreatestIndex ==
    ASSUME NEW n \in Nat, NEW p \in [1..n + 1 -> Nat]
    PROVE  \E m \in 1..n + 1 : \A i \in 1..n + 1 : p[i] <= p[m]
<1> DEFINE Best(k) == \E m \in 1..k + 1 : \A i \in 1..k + 1 : p[i] <= p[m]
           T == {k \in Nat : k <= n => Best(k)}
<1>1. Best(0)
  <2>1. 1 \in 1..0 + 1 /\ \A i \in 1..0 + 1 : i = 1
    OBVIOUS
  <2>2. p[1] \in Nat
    OBVIOUS
  <2>3. QED
    BY <2>1, <2>2
<1>2. ASSUME NEW k \in Nat, k + 1 <= n, Best(k)
      PROVE  Best(k + 1)
  <2>1. PICK m \in 1..k + 1 : \A i \in 1..k + 1 : p[i] <= p[m]
    BY <1>2
  <2>2. \A i \in 1..k + 1 + 1 : i \in 1..k + 1 \/ i = k + 2
    OBVIOUS
  <2>3. /\ m \in 1..k + 1 + 1 /\ k + 2 \in 1..k + 1 + 1
        /\ \A i \in 1..k + 1 + 1 : p[i] \in Nat
    BY <1>2
  <2>4. CASE p[k + 2] <= p[m]
    BY <2>1, <2>2, <2>3, <2>4
  <2>5. CASE ~(p[k + 2] <= p[m])
    <3>1. \A i \in 1..k + 1 + 1 : p[i] <= p[k + 2]
      <4> TAKE i \in 1..k + 1 + 1
      <4>1. CASE i = k + 2
        BY <2>3, <4>1
      <4>2. CASE i \in 1..k + 1
        BY <2>1, <2>3, <2>5, <4>2
      <4>3. QED
        BY <2>2, <4>1, <4>2
    <3>2. QED
      BY <2>3, <3>1
  <2>6. QED
    BY <2>4, <2>5
<1> HIDE DEF Best
<1>3. 0 \in T /\ \A k \in Nat : k \in T => k + 1 \in T
  BY <1>1, <1>2
<1>4. n \in T
  <2> HIDE DEF T
  <2>1. QED
    BY <1>3, Induction
<1>5. QED
  BY <1>4 DEF Best

Registered ==
    /\ drivers \in Seq(Drivers)
    /\ IsInjective(drivers)

LEMMA ProbeIsNatural ==
    ASSUME NEW d \in Drivers, NEW b \in BootSectors
    PROVE  Probe(d, b) \in Nat
<1>1. NTFSProbe(b) \in Nat
  <2>1. NTFSProbe(b) = 4 \/ NTFSProbe(b) = 0
    BY Zenon DEF NTFSProbe
  <2>2. QED
    BY <2>1
<1>2. d # NTFSDriver => Confidence[d][b.kind] \in Nat
  BY DriversAssumption, Zenon DEF Drivers
<1>3. QED
  BY <1>1, <1>2, Zenon DEF Probe

LEMMA NoneIsNoDriver == "none" \notin Drivers
  BY DriversAssumption DEF Drivers, NTFSDriver

(* The prober found is the right one; none is found when none has any      *)
(* confidence.                                                             *)
LEMMA ProberFound ==
    ASSUME Registered, NEW b \in BootSectors
    PROVE  /\ FindProber(b) \in Drivers \cup {"none"}
           /\ FindProber(b) = "none" => \A i \in DOMAIN drivers : Probe(drivers[i], b) = 0
           /\ FindProber(b) # "none" => RightDriver(b, FindProber(b))
<1> DEFINE D == DOMAIN drivers
           best == {i \in D : /\ Probe(drivers[i], b) > 0
                              /\ \A j \in D : Probe(drivers[j], b) <= Probe(drivers[i], b)}
<1>1. /\ D = 1..Len(drivers) /\ Len(drivers) \in Nat
      /\ \A i \in D : i \in Nat /\ drivers[i] \in Drivers
  BY DEF Registered
<1>2. \A i \in D : Probe(drivers[i], b) \in Nat
  BY <1>1, ProbeIsNatural
<1>3. FindProber(b) = IF best = {} THEN "none" ELSE drivers[Min(best)]
  BY Zenon DEF FindProber
<1>4. CASE best = {}
  <2>1. FindProber(b) = "none"
    BY <1>3, <1>4
  <2>2. ASSUME NEW k \in D PROVE Probe(drivers[k], b) = 0
    <3> PICK n \in Nat : Len(drivers) = n + 1
      <4>1. Len(drivers) - 1 \in Nat /\ Len(drivers) = Len(drivers) - 1 + 1
        BY <1>1
      <4>2. QED
        BY <4>1
    <3> DEFINE p == [i \in 1..n + 1 |-> Probe(drivers[i], b)]
    <3>1. p \in [1..n + 1 -> Nat]
      BY <1>1, <1>2
    <3>2. \A i \in D : p[i] = Probe(drivers[i], b)
      BY <1>1
    <3> HIDE DEF p
    <3>3. PICK m \in 1..n + 1 : \A i \in 1..n + 1 : p[i] <= p[m]
      BY <3>1, GreatestIndex
    <3>4. m \in D /\ \A j \in D : Probe(drivers[j], b) <= Probe(drivers[m], b)
      BY <1>1, <3>2, <3>3
    <3>5. ~(Probe(drivers[m], b) > 0)
      BY <1>4, <3>4
    <3>6. QED
      BY <1>2, <3>4, <3>5
  <2>3. QED
    BY <2>1, <2>2
<1>5. CASE best # {}
  <2>1. PICK m : m = Min(best)
    OBVIOUS
  <2>2. m \in best /\ \A n \in best : m <= n
    <3>1. best \in SUBSET Nat
      BY <1>1
    <3> HIDE DEF best
    <3>2. QED
      BY <1>5, <2>1, <3>1, MinOfNaturals
  <2>3. FindProber(b) = drivers[m]
    BY <1>3, <1>5, <2>1
  <2>4. m \in D /\ Probe(drivers[m], b) > 0 /\ \A j \in D : Probe(drivers[j], b) <= Probe(drivers[m], b)
    BY <2>2
  <2>5. ASSUME NEW k \in D
        PROVE  \/ Probe(drivers[k], b) < Probe(drivers[m], b)
               \/ Probe(drivers[k], b) = Probe(drivers[m], b) /\ m <= k
    <3>1. CASE Probe(drivers[k], b) = Probe(drivers[m], b)
      <4>1. k \in best
        BY <2>4, <3>1
      <4> HIDE DEF best
      <4>2. QED
        BY <2>2, <3>1, <4>1
    <3>2. CASE Probe(drivers[k], b) # Probe(drivers[m], b)
      BY <1>2, <2>4, <3>2
    <3>3. QED
      BY <3>1, <3>2
  <2> HIDE DEF best
  <2>6. RightDriver(b, drivers[m])
    BY <2>4, <2>5 DEF RightDriver
  <2>7. drivers[m] # "none"
    BY <1>1, <2>4, NoneIsNoDriver
  <2>8. QED
    BY <1>1, <2>3, <2>4, <2>6, <2>7
<1>6. QED
  BY <1>4, <1>5

(* The driver found by type: the first that supports it.                   *)
LEMMA DriverFound ==
    ASSUME Registered, NEW t
    PROVE  /\ FindDriver(t) \in Drivers \cup {"none"}
           /\ \A k \in DOMAIN drivers : t \in GetSupportedTypes(drivers[k]) =>
                 \E i \in DOMAIN drivers : i <= k /\ FindDriver(t) = drivers[i]
<1> DEFINE fit == {i \in DOMAIN drivers : t \in GetSupportedTypes(drivers[i])}
<1>1. \A i \in DOMAIN drivers : i \in Nat /\ drivers[i] \in Drivers
  BY DEF Registered
<1>2. FindDriver(t) = IF fit = {} THEN "none" ELSE drivers[Min(fit)]
  BY Zenon DEF FindDriver
<1>3. CASE fit = {}
  BY <1>2, <1>3
<1>4. CASE fit # {}
  <2>1. fit \in SUBSET Nat /\ fit \subseteq DOMAIN drivers
    BY <1>1
  <2>2. \A k \in DOMAIN drivers : t \in GetSupportedTypes(drivers[k]) => k \in fit
    OBVIOUS
  <2> HIDE DEF fit
  <2>3. PICK m : m = Min(fit)
    OBVIOUS
  <2>4. m \in fit /\ \A n \in fit : m <= n
    BY <1>4, <2>1, <2>3, MinOfNaturals
  <2>5. FindDriver(t) = drivers[m] /\ m \in DOMAIN drivers
    BY <1>2, <1>4, <2>1, <2>3, <2>4
  <2>6. QED
    BY <1>1, <2>2, <2>4, <2>5
<1>5. QED
  BY <1>3, <1>4

LEMMA ClaimIsSupported ==
    ASSUME NEW d \in Drivers
    PROVE  GetFilesystemType(d) \in GetSupportedTypes(d)
<1>1. d # NTFSDriver => Claim[d] \in Supports[d]
  BY DriversAssumption, Zenon DEF Drivers
<1>2. QED
  BY <1>1, Zenon DEF GetFilesystemType, GetSupportedTypes

LEMMA DetectionIs ==
    ASSUME NEW op, NEW b, NEW d, d = FindProber(b)
    PROVE  Detection(op, b) =
             [op |-> op, boot |-> b, type |-> IF d = "none" THEN "UNKNOWN" ELSE GetFilesystemType(d),
              confidence |-> IF d = "none" THEN 0 ELSE Probe(d, b), driver |-> d]
<1>1. Detection(op, b) = IF d = "none" THEN [Nobody EXCEPT !.op = op, !.boot = b]
                         ELSE [op |-> op, boot |-> b, type |-> GetFilesystemType(d),
                               confidence |-> Probe(d, b), driver |-> d]
  BY Zenon DEF Detection
<1>2. [Nobody EXCEPT !.op = op, !.boot = b] =
        [op |-> op, boot |-> b, type |-> "UNKNOWN", confidence |-> 0, driver |-> "none"]
  <2>1. PICK k : Nobody = [op |-> "none", boot |-> k, type |-> "UNKNOWN", confidence |-> 0,
                           driver |-> "none"]
    BY Zenon DEF Nobody
  <2>2. PICK r : r = [Nobody EXCEPT !.op = op]
    OBVIOUS
  <2>3. r = [op |-> op, boot |-> k, type |-> "UNKNOWN", confidence |-> 0, driver |-> "none"]
    BY <2>1, <2>2
  <2>4. [r EXCEPT !.boot = b] =
          [op |-> op, boot |-> b, type |-> "UNKNOWN", confidence |-> 0, driver |-> "none"]
    BY <2>3
  <2>5. [[Nobody EXCEPT !.op = op] EXCEPT !.boot = b] = [r EXCEPT !.boot = b]
    BY <2>2, Zenon
  <2>6. [Nobody EXCEPT !.op = op, !.boot = b] = [[Nobody EXCEPT !.op = op] EXCEPT !.boot = b]
    BY Zenon
  <2>7. QED
    BY <2>4, <2>5, <2>6
<1>3. QED
  BY <1>1, <1>2

LEMMA DetectRight ==
    ASSUME Registered, NEW b \in BootSectors, DetectFilesystem(b)
    PROVE  ChoiceIsRight /\ detected'.driver \in Drivers \cup {"none"}
<1>1. PICK d : d = FindProber(b)
  OBVIOUS
<1>2. detected' = Detection("detectFilesystem", b)
  BY DEF DetectFilesystem
<1>3. detected'.op = "detectFilesystem" /\ detected'.boot = b /\ detected'.driver = d
  <2>1. detected' = [op |-> "detectFilesystem", boot |-> b,
                     type |-> IF d = "none" THEN "UNKNOWN" ELSE GetFilesystemType(d),
                     confidence |-> IF d = "none" THEN 0 ELSE Probe(d, b), driver |-> d]
    BY <1>1, <1>2, DetectionIs, Zenon
  <2>2. QED
    BY <2>1, Zenon
<1>4. /\ d \in Drivers \cup {"none"}
      /\ d = "none" => \A i \in DOMAIN drivers : Probe(drivers[i], b) = 0
      /\ d # "none" => RightDriver(b, d)
  BY <1>1, ProberFound, Zenon
<1>5. detected'.op # "createFilesystemFromBootSector"
  BY <1>3
<1>6. QED
  BY <1>3, <1>4, <1>5, Zenon DEF ChoiceIsRight, Registered

LEMMA CreateRight ==
    ASSUME Registered, NEW b \in BootSectors, CreateFilesystemFromBootSector(b)
    PROVE  ChoiceIsRight /\ detected'.driver \in Drivers \cup {"none"}
<1>1. PICK d : d = FindProber(b)
  OBVIOUS
<1>2. PICK found : found = Detection("createFilesystemFromBootSector", b)
  OBVIOUS
<1>3. /\ found.op = "createFilesystemFromBootSector" /\ found.boot = b
      /\ found.type = IF d = "none" THEN "UNKNOWN" ELSE GetFilesystemType(d)
      /\ found.confidence = IF d = "none" THEN 0 ELSE Probe(d, b)
      /\ DOMAIN found = {"op", "boot", "type", "confidence", "driver"}
  <2>1. found = [op |-> "createFilesystemFromBootSector", boot |-> b,
                 type |-> IF d = "none" THEN "UNKNOWN" ELSE GetFilesystemType(d),
                 confidence |-> IF d = "none" THEN 0 ELSE Probe(d, b), driver |-> d]
    BY <1>1, <1>2, DetectionIs, Zenon
  <2>2. QED
    BY <2>1, Zenon
<1>4. detected' = [found EXCEPT !.driver =
                     IF found.confidence < 2 THEN "none" ELSE CreateFilesystem(found.type)]
  BY <1>2, Zenon DEF CreateFilesystemFromBootSector
<1>5. PICK made : made = IF found.confidence < 2 THEN "none" ELSE CreateFilesystem(found.type)
  OBVIOUS
<1>6. /\ detected'.op = "createFilesystemFromBootSector" /\ detected'.boot = b
      /\ detected'.driver = made
  <2>1. detected' = [found EXCEPT !.driver = made]
    BY <1>4, <1>5, Zenon
  <2>2. QED
    BY <1>3, <2>1
<1>7. detected'.op # "detectFilesystem"
  BY <1>6
<1>8. /\ FindDriver(found.type) \in Drivers \cup {"none"}
      /\ \A k \in DOMAIN drivers : found.type \in GetSupportedTypes(drivers[k]) =>
            \E i \in DOMAIN drivers : i <= k /\ FindDriver(found.type) = drivers[i]
  BY DriverFound
<1>9. made = "none" \/ made = FindDriver(found.type)
  BY <1>5, Zenon DEF CreateFilesystem
<1>10. made \in Drivers \cup {"none"}
  BY <1>8, <1>9
<1>11. ASSUME made # "none"
       PROVE  \/ RightDriver(b, made)
              \/ \E i, j \in DOMAIN drivers :
                    i < j /\ drivers[i] = made /\ RightDriver(b, drivers[j])
  <2>1. d # "none"
    BY <1>3, <1>5, <1>11
  <2>2. RightDriver(b, d)
    BY <1>1, <2>1, ProberFound, Zenon
  <2>3. PICK k \in DOMAIN drivers : drivers[k] = d
    BY <2>2, Zenon DEF RightDriver
  <2>4. d \in Drivers
    BY <2>3 DEF Registered
  <2>5. found.type \in GetSupportedTypes(drivers[k])
    BY <1>3, <2>1, <2>3, <2>4, ClaimIsSupported, Zenon
  <2>6. PICK i \in DOMAIN drivers : i <= k /\ FindDriver(found.type) = drivers[i]
    BY <1>8, <2>5
  <2>7. drivers[i] = made
    BY <1>9, <1>11, <2>6
  <2>8. i \in Nat /\ k \in Nat
    BY DEF Registered
  <2>9. CASE i = k
    BY <2>2, <2>3, <2>7, <2>9, Zenon
  <2>10. CASE i < k
    BY <2>2, <2>3, <2>7, <2>10, Zenon
  <2>11. QED
    BY <2>6, <2>8, <2>9, <2>10
<1>12. QED
  BY <1>6, <1>7, <1>10, <1>11, Zenon DEF ChoiceIsRight, Registered

RegistryInv ==
    /\ Registered
    /\ detected.driver \in Drivers \cup {"none"}

LEMMA RegistryStep ==
    ASSUME RegistryInv, RegistryNext
    PROVE  RegistryInv' /\ ChoiceIsRight
<1>1. ASSUME detected' = detected
      PROVE  ChoiceIsRight /\ detected'.driver \in Drivers \cup {"none"}
  <2>1. detected'.op = "createFilesystemFromBootSector" /\ detected' # detected => FALSE
    BY <1>1
  <2>2. QED
    BY <1>1, <2>1, Zenon DEF ChoiceIsRight, RegistryInv, Registered
<1>2. CASE \E d \in Drivers : RegisterDriver(d)
  <2>1. PICK d \in Drivers : RegisterDriver(d)
    BY <1>2
  <2>2. detected' = detected
    BY <2>1 DEF RegisterDriver
  <2>3. CASE drivers' = drivers
    BY <1>1, <2>2, <2>3, Zenon DEF RegistryInv, Registered, IsInjective
  <2>4. CASE drivers' = Append(drivers, d) /\ ~ \E i \in DOMAIN drivers : drivers[i] = d
    <3>1. drivers \in Seq(Drivers) /\ \A i, j \in DOMAIN drivers : drivers[i] = drivers[j] => i = j
      BY DEF RegistryInv, Registered, IsInjective
    <3>2. drivers' \in Seq(Drivers)
      BY <2>4, <3>1
    <3>3. \A i, j \in DOMAIN drivers' : drivers'[i] = drivers'[j] => i = j
      BY <2>4, <3>1
    <3>4. Registered'
      BY <3>2, <3>3 DEF Registered, IsInjective
    <3>5. QED
      BY <1>1, <2>2, <3>4 DEF RegistryInv
  <2>5. QED
    BY <2>1, <2>3, <2>4 DEF RegisterDriver
<1>3. CASE \E d \in Drivers : UnregisterDriver(d)
  <2>1. PICK d \in Drivers : drivers' = Without(d, drivers) /\ detected' = detected
    BY <1>3 DEF UnregisterDriver
  <2>2. PICK s : s = drivers
    OBVIOUS
  <2>3. s \in Seq(Drivers) /\ IsInjective(s)
    BY <2>2 DEF RegistryInv, Registered
  <2>4. PICK left : left = Without(d, s)
    OBVIOUS
  <2>5. left \in Seq(Drivers) /\ IsInjective(left)
    BY <2>3, <2>4, WithoutKeeps
  <2>6. drivers' = left
    BY <2>1, <2>2, <2>4
  <2>7. Registered'
    BY <2>5, <2>6, Zenon DEF Registered, IsInjective
  <2>8. QED
    BY <1>1, <2>1, <2>7 DEF RegistryInv
<1>4. CASE ClearDrivers
  <2>1. drivers' = <<>> /\ detected' = detected
    BY <1>4 DEF ClearDrivers
  <2>2. Registered'
    BY <2>1 DEF Registered, IsInjective
  <2>3. QED
    BY <1>1, <2>1, <2>2 DEF RegistryInv
<1>5. ASSUME drivers' = drivers
      PROVE  Registered'
  BY <1>5, Zenon DEF RegistryInv, Registered, IsInjective
<1>6. CASE \E b \in BootSectors : DetectFilesystem(b) \/ CreateFilesystemFromBootSector(b)
  <2>1. PICK b \in BootSectors : DetectFilesystem(b) \/ CreateFilesystemFromBootSector(b)
    BY <1>6
  <2>2. drivers' = drivers
    BY <2>1 DEF DetectFilesystem, CreateFilesystemFromBootSector
  <2>3. QED
    BY <1>5, <2>1, <2>2, DetectRight, CreateRight, Zenon DEF RegistryInv
<1>7. CASE \E t \in GetSupportedTypesOfAll \cup {"UNKNOWN"} : CreateFilesystemOfType(t)
  <2>1. PICK t : CreateFilesystemOfType(t)
    BY <1>7, Zenon
  <2>2. PICK d : d = CreateFilesystem(t)
    OBVIOUS
  <2>3. /\ detected' = [Nobody EXCEPT !.op = "createFilesystem", !.type = t, !.driver = d]
        /\ drivers' = drivers
    BY <2>1, <2>2, Zenon DEF CreateFilesystemOfType
  <2>4. /\ [Nobody EXCEPT !.op = "createFilesystem", !.type = t, !.driver = d].driver = d
        /\ [Nobody EXCEPT !.op = "createFilesystem", !.type = t, !.driver = d].op = "createFilesystem"
    BY Zenon DEF Nobody
  <2>5. detected'.driver = d /\ detected'.op = "createFilesystem"
    BY <2>3, <2>4, Zenon
  <2>6. d \in Drivers \cup {"none"}
    <3>1. FindDriver(t) \in Drivers \cup {"none"}
      BY DriverFound DEF RegistryInv
    <3>2. d = "none" \/ d = FindDriver(t)
      BY <2>2, Zenon DEF CreateFilesystem
    <3>3. QED
      BY <3>1, <3>2
  <2>7. detected'.op # "detectFilesystem" /\ detected'.op # "createFilesystemFromBootSector"
    BY <2>5
  <2>8. ChoiceIsRight
    BY <2>7, Zenon DEF ChoiceIsRight, RegistryInv, Registered
  <2>9. QED
    BY <1>5, <2>3, <2>5, <2>6, <2>8, Zenon DEF RegistryInv
<1>8. QED
  BY <1>2, <1>3, <1>4, <1>6, <1>7 DEF RegistryNext

LEMMA RegistryAlways == Spec => []RegistryInv
<1>1. Init => RegistryInv
  <2>1. Init => drivers = <<>> /\ detected = Nobody
    BY DEF Init, RegistryInit
  <2>2. Nobody.driver = "none"
    BY Zenon DEF Nobody
  <2>3. <<>> \in Seq(Drivers) /\ IsInjective(<<>>)
    BY DEF IsInjective
  <2>4. QED
    BY <2>1, <2>2, <2>3 DEF RegistryInv, Registered
<1>2. RegistryInv /\ [Next]_vars => RegistryInv'
  <2>1. [Next]_vars => RegistryNext \/ UNCHANGED registryVars
    BY DEF Next, vars
  <2>2. RegistryInv /\ UNCHANGED registryVars => RegistryInv'
    BY Zenon DEF RegistryInv, registryVars, Registered, IsInjective
  <2>3. QED
    BY <2>1, <2>2, RegistryStep
<1>3. QED
  BY <1>1, <1>2, PTL DEF Spec

(* Whatever was registered and unregistered before, detection names the    *)
(* most confident driver, the earliest of equals, and a filesystem made    *)
(* from a boot sector is made by that driver or by an earlier one that     *)
(* supports the type it claims, for any number of drivers                  *)
(* (SimpleFilesystemRegistry.cpp:7-65, FilesystemManager.cpp:10-54).       *)
THEOREM DriverChoiceRight == Spec => DriverChoice
<1>1. RegistryInv /\ [Next]_vars => [ChoiceIsRight]_registryVars
  <2>1. [Next]_vars => RegistryNext \/ UNCHANGED registryVars
    BY DEF Next, vars
  <2>2. QED
    BY <2>1, RegistryStep
<1>2. QED
  BY <1>1, RegistryAlways, PTL DEF Spec, DriverChoice

-----------------------------------------------------------------------------
(* Types.                                                                  *)

PartitionTyped ==
    /\ layout \in Layouts
    /\ open \in BOOLEAN /\ refused \in BOOLEAN
    /\ step \in {"idle", "mbr", "primary", "backup", "array"}
    /\ header \in {NoHeader, layout.primary, layout.backup}

LEMMA PartitionTypes ==
    ASSUME PartitionTyped, PartitionNext
    PROVE  PartitionTyped'
<1>1. CASE ParseGPT
  BY <1>1 DEF ParseGPT, GPTThrows, PartitionTyped
<1>2. CASE HasProtectiveMBR \/ ReadEntryArray \/ OverrunEntry \/ ReadFails \/ SetOpen
  BY <1>2 DEF HasProtectiveMBR, ReadEntryArray, OverrunEntry, ReadFails, SetOpen, GPTThrows,
              PartitionTyped
<1>3. CASE ReadPrimaryHeader
  BY <1>3 DEF ReadPrimaryHeader, UseHeader, GPTThrows, PartitionTyped
<1>4. CASE ReadBackupHeader
  BY <1>4 DEF ReadBackupHeader, UseHeader, GPTThrows, PartitionTyped
<1>5. CASE ReadMBR \/ ValidatePartitions \/ GetPartitionGeometries
  <2>1. \E opened, readable \in BOOLEAN : open' = opened /\ refused' = ~readable
    BY <1>5 DEF ReadMBR, ValidatePartitions, GetPartitionGeometries, ParseMBR
  <2>2. layout' = layout /\ step' = step /\ header' = header
    BY <1>5 DEF ReadMBR, ValidatePartitions, GetPartitionGeometries, ParseMBR
  <2>3. QED
    BY <2>1, <2>2 DEF PartitionTyped
<1>6. QED
  BY <1>1, <1>2, <1>3, <1>4, <1>5 DEF PartitionNext

(* Every variable keeps the shape its class declares; the sectors cached   *)
(* and the header in use are ones that were on the disk.                   *)
THEOREM TypeCorrect == Spec => []TypeOK
<1>1. Init => PartitionTyped
  <2> SUFFICES ASSUME Init PROVE PartitionTyped
    OBVIOUS
  <2>1. /\ layout \in Some(Layouts, "partitions")
        /\ open = FALSE /\ step = "idle" /\ header = NoHeader /\ refused = FALSE
    BY DEF Init, PartitionInit
  <2>2. layout \in Layouts
    BY <2>1, LayoutAssumption, Zenon DEF Some
  <2>3. QED
    BY <2>1, <2>2 DEF PartitionTyped
<1>2. PartitionTyped /\ [Next]_vars => PartitionTyped'
  <2>1. PartitionTyped /\ UNCHANGED partitionVars => PartitionTyped'
    BY DEF PartitionTyped, partitionVars
  <2>2. QED
    BY <2>1, DiskStep, PartitionTypes
<1>3. PartitionTyped /\ RegistryInv /\ FATInv => TypeOK
  BY Zenon DEF PartitionTyped, RegistryInv, Registered, FATInv, Cached, TypeOK
<1>4. QED
  BY <1>1, <1>2, <1>3, RegistryAlways, FATAlways, PTL DEF Spec

=============================================================================
