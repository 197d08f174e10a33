-------------------------- MODULE PartitionTables --------------------------
(***************************************************************************)
(* Reading the partition tables of a disk: GPTParser with its validator,   *)
(* one action per sector the parser reads, and MBParser behind the three   *)
(* calls of PartitionManager.                                              *)
(*                                                                         *)
(* A layout is what is on the disk.  A checksum is the content it was      *)
(* computed over, so that checksums are equal exactly when contents are.   *)
(***************************************************************************)
EXTENDS Integers, Sequences, FiniteSets

CONSTANTS
    Layouts,            \* the disks the callers open
    UInt32              \* 2^32

ASSUME PartitionAssumption == UInt32 \in Nat \ {0}

(* The bytes of a GPTPartitionEntry, and of what its SIZE is stored in.    *)
EntrySize == 128
MinEntrySize == 8

(* An identifier is told apart by its first 8 bytes; guid, the unique one, *)
(* stands for the attributes and the name behind it too.                   *)
GPTEntry == [type : Nat, guid : Nat, first : Nat, last : Nat]
MBREntry == [boot : Nat, type : Nat, start : 0..(UInt32 - 1), count : 0..(UInt32 - 1)]

(* An array lies where a header that may be used says, and is long enough: *)
(* the entries laid out at the size the header gives.  No entry is cut in  *)
(* the middle of a number.                                                 *)
ASSUME LayoutAssumption ==
    /\ Layouts # {}
    /\ \A l \in Layouts :
          /\ l.total \in Nat /\ l.sectorSize \in Nat
          /\ l.mbr.entries \in Seq(MBREntry)
          /\ \A h \in {l.primary, l.backup} :
                h.signature =>
                    /\ h.firstUsable \in Nat /\ h.lastUsable \in Nat
                    /\ h.size \in Nat /\ (h.size < MinEntrySize \/ h.size % 8 = 0)
                    /\ h.num \in 0..Len(l.arrays[h.array])
                    /\ l.arrays[h.array] \in Seq(GPTEntry)

VARIABLES
    layout,             \* the disk
    open,               \* IDiskReader::isOpen
    step,               \* the sector parseGPT reads next, or "idle"
    header,             \* headerToUse
    refused,            \* whether the reader refused the current call: closed,
                        \* or a sector unreadable
    answer              \* what the last call returned or threw

partitionVars == <<layout, open, step, header, refused, answer>>

Nothing == [op |-> "none", kind |-> "none", entries |-> <<>>]
Threw(op) == [op |-> op, kind |-> "exception", entries |-> <<>>]
Returned(op, es) == [op |-> op, kind |-> "value", entries |-> es]
Undefined(op) == [op |-> op, kind |-> "undefined", entries |-> <<>>]
NoHeader == [none |-> TRUE]

PartitionInit(disks) ==
    /\ layout \in disks
    /\ open = FALSE
    /\ step = "idle"
    /\ header = NoHeader
    /\ refused = FALSE
    /\ answer = Nothing

-----------------------------------------------------------------------------
(* GPT.                                                                    *)

(* The entry is the zero entry: every byte of it is zero.                  *)
IsEmpty(e) == e.type = 0 /\ e.guid = 0 /\ e.first = 0 /\ e.last = 0

(* The checksum covers the whole block, not the headerSize bytes of it.    *)
ValidateHeader(h) == h.signature /\ h.crc = "block"

UsedEntries(es) == {i \in 1..Len(es) : ~IsEmpty(es[i])}

(* Wrong variant: partitions that touch with their first sectors may share one.*)
OverlapsStrictly(a, b) == ~(a.last <= b.first \/ b.last <= a.first)

Overlaps(a, b) == ~(a.last < b.first \/ b.last < a.first)

(* What copying size bytes over a zeroed entry makes of it: the fields     *)
(* behind them stay zero.                                                  *)
EntryData(e, size) ==
    [type |-> e.type,
     guid |-> IF size >= 24 THEN e.guid ELSE 0,
     first |-> IF size >= 40 THEN e.first ELSE 0,
     last |-> IF size >= 48 THEN e.last ELSE 0]

EntriesOf(h) == [i \in 1..h.num |-> EntryData(layout.arrays[h.array][i], h.size)]

ValidateEntryArray(h, es) ==
    /\ h.arrayCRC = es
    /\ h.size >= MinEntrySize
    /\ \A i \in UsedEntries(es) :
          /\ es[i].first <= es[i].last
          /\ h.firstUsable <= es[i].first /\ es[i].last <= h.lastUsable
    /\ \A i, j \in UsedEntries(es) : i < j => ~Overlaps(es[i], es[j])

(* The sectors read are counted with a bool: more than one is a failure.   *)
ArrayBytes(h) == h.num * h.size
ArraySectors(h) == (ArrayBytes(h) + layout.sectorSize - 1) \div layout.sectorSize
ReadSectorsWorks(h) == ArraySectors(h) = 1

(* Copies of more bytes than an entry has overrun it on the stack.         *)
Overruns(h) ==
    ReadSectorsWorks(h) /\ h.arrayCRC = EntriesOf(h) /\ h.size > EntrySize

GPTThrows ==
    /\ step' = "idle"
    /\ answer' = Threw("parseGPT")
    /\ UNCHANGED <<layout, open, header>>

(* Any sector may be unreadable; readSector then throws.                   *)
ReadFails ==
    /\ step # "idle"
    /\ refused' = TRUE
    /\ GPTThrows

ParseGPT ==
    /\ step = "idle"
    /\ refused' = ~open
    /\ IF open /\ layout.sectorSize >= 512
         THEN step' = "mbr" /\ answer' = Nothing /\ UNCHANGED <<layout, open, header>>
         ELSE GPTThrows

(* The protective MBR is looked for, and the finding is dropped.           *)
HasProtectiveMBR ==
    /\ step = "mbr"
    /\ step' = "primary"
    /\ UNCHANGED <<layout, open, header, refused, answer>>

UseHeader(h) ==
    /\ header' = h
    /\ UNCHANGED <<layout, open, refused>>
    /\ IF ArrayBytes(h) = 0 THEN step' = "idle" /\ answer' = Threw("parseGPT")
                            ELSE step' = "array" /\ UNCHANGED answer

(* Wrong variant: the backup header is never tried.                           *)
ReadPrimaryHeaderOnly ==
    /\ step = "primary"
    /\ IF ValidateHeader(layout.primary) THEN UseHeader(layout.primary)
                                         ELSE GPTThrows /\ UNCHANGED refused

ReadPrimaryHeader ==
    /\ step = "primary"
    /\ IF ValidateHeader(layout.primary) THEN UseHeader(layout.primary)
       ELSE IF layout.total < 2 THEN GPTThrows /\ UNCHANGED refused
       ELSE step' = "backup" /\ UNCHANGED <<layout, open, header, refused, answer>>

ReadBackupHeader ==
    /\ step = "backup"
    /\ IF ValidateHeader(layout.backup) THEN UseHeader(layout.backup)
                                        ELSE GPTThrows /\ UNCHANGED refused

ReadEntryArray ==
    /\ step = "array" /\ ~Overruns(header)
    /\ step' = "idle"
    /\ LET es == EntriesOf(header)
       IN answer' = IF ReadSectorsWorks(header) /\ ValidateEntryArray(header, es)
                      THEN Returned("parseGPT", es) ELSE Threw("parseGPT")
    /\ UNCHANGED <<layout, open, header, refused>>

(* Nothing is known of a call that overran the entry, except that it ends, *)
(* or that the process does and is started again.                          *)
OverrunEntry ==
    /\ step = "array" /\ Overruns(header)
    /\ step' = "idle"
    /\ \/ answer' = Undefined("parseGPT") /\ UNCHANGED <<layout, open, header, refused>>
       \/ answer' = Nothing /\ open' = FALSE /\ header' = NoHeader /\ refused' = FALSE
          /\ UNCHANGED layout

-----------------------------------------------------------------------------
(* MBR.                                                                    *)

IsEmptyMBREntry(e) == e.boot = 0 /\ e.type = 0 /\ e.start = 0 /\ e.count = 0

UsedMBREntries(es) == {i \in 1..Len(es) : ~IsEmptyMBREntry(es[i])}

GetEndLBA(g) == IF g.count = 0 THEN 0 ELSE (g.start + g.count - 1) % UInt32

IsValidGeometry(g) == g.count > 0 /\ g.type # 0

RangesOverlap(g, h) == ~(GetEndLBA(g) < h.start \/ GetEndLBA(h) < g.start)

(* Wrong variant: a range may end one sector behind the last one.             *)
RangeWrapsLate(g) == g.start > (UInt32 - 1 - g.count + 2) % UInt32

RangeWraps(g) == g.start > (UInt32 - 1 - g.count + 1) % UInt32

Validate(es) ==
    /\ \A i \in UsedMBREntries(es) : IsValidGeometry(es[i]) /\ ~RangeWraps(es[i])
    /\ \A i, j \in UsedMBREntries(es) : i < j => ~RangesOverlap(es[i], es[j])

(* parseMBR opens the reader it finds closed, and leaves it open; opening  *)
(* and reading may fail.                                                   *)
ParseMBR(op, result) ==
    /\ step = "idle"
    /\ \E opened, readable \in BOOLEAN :
          /\ open => opened
          /\ readable => opened
          /\ open' = opened
          /\ refused' = ~readable
          /\ answer' = IF readable /\ layout.mbr.signature
                         THEN result ELSE Threw(op)
    /\ UNCHANGED <<layout, step, header>>

ReadMBR == ParseMBR("readMBR", Returned("readMBR", layout.mbr.entries))

ValidatePartitions ==
    ParseMBR("validatePartitions",
             IF Validate(layout.mbr.entries)
               THEN Returned("validatePartitions", <<>>) ELSE Threw("validatePartitions"))

GetPartitionGeometries ==
    ParseMBR("getPartitionGeometries",
             Returned("getPartitionGeometries",
                      SelectSeq(layout.mbr.entries, LAMBDA e : ~IsEmptyMBREntry(e))))

(* The owner of the reader opens and closes it between calls.              *)
SetOpen ==
    /\ step = "idle"
    /\ open' = ~open
    /\ UNCHANGED <<layout, step, header, refused, answer>>

PartitionNext ==
    \/ ParseGPT \/ HasProtectiveMBR \/ ReadPrimaryHeader \/ ReadBackupHeader
    \/ ReadEntryArray \/ OverrunEntry \/ ReadFails
    \/ ReadMBR \/ ValidatePartitions \/ GetPartitionGeometries
    \/ SetOpen

-----------------------------------------------------------------------------
(* A GPT that parseGPT hands out describes partitions: each is a non-empty *)
(* run of usable sectors and no sector belongs to two of them.  The file   *)
(* recovery built on it addresses sectors by partition (GPTValidator.cpp:  *)
(* 108-141).                                                               *)
SectorsOf(e) == e.first..e.last

GPTTableIsSound ==
    answer.op = "parseGPT" /\ answer.kind = "value" =>
        \A i \in UsedEntries(answer.entries) :
            LET e == answer.entries[i]
            IN /\ SectorsOf(e) # {}
               /\ SectorsOf(e) \subseteq header.firstUsable..header.lastUsable
               /\ \A j \in UsedEntries(answer.entries) \ {i} :
                     SectorsOf(e) \cap SectorsOf(answer.entries[j]) = {}

(* A GPT is found whenever one should be: with an open reader and every    *)
(* sector readable, parseGPT throws only if the primary copy is not whole  *)
(* and neither, when the primary header is damaged, is the backup copy     *)
(* (GPTParser.cpp:36-113).  A copy is whole if it is intact and its unused *)
(* entries are blank, in one sector: longer ones are never read, since the *)
(* count of sectors read is a bool (GPTParser.cpp:171-172).                *)
PartitionEntries(es) == {i \in 1..Len(es) : es[i].type # 0}

IntactCopy(h) ==
    /\ ValidateHeader(h)
    /\ h.size >= EntrySize /\ h.num >= 1
    /\ h.arrayCRC = EntriesOf(h)
    /\ \A i \in PartitionEntries(h.arrayCRC) :
          /\ SectorsOf(h.arrayCRC[i]) # {}
          /\ SectorsOf(h.arrayCRC[i]) \subseteq h.firstUsable..h.lastUsable
          /\ \A j \in PartitionEntries(h.arrayCRC) \ {i} :
                SectorsOf(h.arrayCRC[i]) \cap SectorsOf(h.arrayCRC[j]) = {}

Blank(h) == UsedEntries(h.arrayCRC) \subseteq PartitionEntries(h.arrayCRC)

WholeCopy(h) == IntactCopy(h) /\ Blank(h) /\ ArrayBytes(h) <= layout.sectorSize

GaveUp ==
    /\ answer.op = "parseGPT" /\ answer.kind = "exception"
    /\ ~refused /\ layout.sectorSize >= 512 /\ layout.total >= 2

GPTFindsTable ==
    GaveUp => /\ ~WholeCopy(layout.primary)
              /\ ~ValidateHeader(layout.primary) => ~WholeCopy(layout.backup)

DeletedCopy(h) == IntactCopy(h) /\ ArrayBytes(h) <= layout.sectorSize

(* An entry is unused if all of it or its type is zero, as the comment on  *)
(* isEmpty says (GPTPartitionEntry.hpp:25), so whatever else a deleted     *)
(* entry still holds, a copy intact in the entries in use is found.        *)
(* Violated: isEmpty wants all bytes zero (GPTPartitionEntry.cpp:14-22),   *)
(* and a deleted entry that keeps its range fails as if it were in use.    *)
UnusedEntriesIgnored ==
    GaveUp => /\ ~DeletedCopy(layout.primary)
              /\ ~ValidateHeader(layout.primary) => ~DeletedCopy(layout.backup)

(* validatePartitions accepts exactly the partition tables whose used      *)
(* entries are typed, non-empty, end below 2^32 and share no sector: the   *)
(* 32-bit tests of PartitionValidator.cpp:44-79 say what the same tests    *)
(* without wrap-around say.                                                *)
MBRSectors(g) == g.start..(g.start + g.count - 1)

MBRAccepted ==
    (answer.op = "validatePartitions" /\ layout.mbr.signature /\ ~refused) =>
        LET es == layout.mbr.entries
            used == UsedMBREntries(es)
        IN answer.kind = "value" <=>
             /\ \A i \in used :
                   es[i].type # 0 /\ es[i].count > 0 /\ es[i].start + es[i].count <= UInt32
             /\ \A i, j \in used :
                   i # j => MBRSectors(es[i]) \cap MBRSectors(es[j]) = {}
=============================================================================
