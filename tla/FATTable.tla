------------------------------ MODULE FATTable ------------------------------
(***************************************************************************)
(* The file allocation table of a FAT volume: decoding of its entries,     *)
(* the classification of a cluster, the loop that follows a cluster chain, *)
(* and the verdicts of FATTable and FATValidator about it.                 *)
(*                                                                         *)
(* raw holds the entries as a formatter wrote them; everything the code    *)
(* sees of them goes through GetEntry, with the losses of its decoders.    *)
(* Following a chain is one action per turn of the code's loop.            *)
(***************************************************************************)
EXTENDS Integers, Sequences, FiniteSets

CONSTANTS
    ClusterCount,       \* highest cluster number + 1
    BytesPerSector,
    SectorsPerFat,
    Pointers,           \* the small entry values a table may hold
    Marks,              \* the special ones, counted down from 2^12, 2^16 or 2^28
    Starts              \* the clusters the callers start from

ASSUME FATAssumption ==
    /\ ClusterCount \in Nat \ {0, 1}
    /\ BytesPerSector \in Nat \ {0}
    /\ SectorsPerFat \in Nat \ {0}
    /\ Pointers \subseteq 0..4000
    /\ Marks \subseteq 1..16
    /\ Starts \subseteq Nat

Clusters == 0..(ClusterCount - 1)
FATTypes == {"FAT12", "FAT16", "FAT32"}

VARIABLES
    fatType,            \* FATTable::fatType_
    raw,                \* the entries on the disk
    loaded,             \* FATTable::fatDataLoaded_
    pc,                 \* "idle", or the loop the current call is in
    call,               \* the current or last call: operation and arguments
    chain,              \* the vector followClusterChain builds
    current,            \* its currentCluster
    result              \* what the last call returned or threw

tableVars == <<fatType, raw, loaded, pc, call, chain, current, result>>

-----------------------------------------------------------------------------
(* Entries.  2^12, 2^16 and 2^28 values; the last sixteen are special.     *)

Top(t) == IF t = "FAT12" THEN 4096 ELSE IF t = "FAT16" THEN 65536 ELSE 268435456

BadMark(t) == Top(t) - 9

IsFree(v) == v = 0
IsBad(t, v) == v = BadMark(t)
IsEndOfChain(t, v) == v >= Top(t) - 8

(* FAT16 counts 0xFFF8 .. 0xFFFE, ends of a chain, as reserved too.        *)
IsReserved(t, v) ==
    IF t = "FAT16" THEN v \in (Top(t) - 16)..(Top(t) - 2)
                   ELSE v \in (Top(t) - 16)..(Top(t) - 10)

(* An entry outside the table, or one that straddles two sectors, reads as *)
(* the last end-of-chain mark.                                             *)
InOneSector(offset, size) ==
    /\ offset \div BytesPerSector < SectorsPerFat
    /\ (offset % BytesPerSector) + size <= BytesPerSector

(* The value of an odd entry keeps its top four bits only.                 *)
FAT12GetEntry(c) ==
    IF ~InOneSector((c * 3) \div 2, 2) THEN Top("FAT12") - 1
    ELSE IF c % 2 = 0 THEN raw[c] ELSE (raw[c] \div 256) * 256

FAT16GetEntry(c) == IF InOneSector(2 * c, 2) THEN raw[c] ELSE Top("FAT16") - 1

FAT32GetEntry(c) ==
    IF InOneSector(4 * c, 4) THEN raw[c] % Top("FAT32") ELSE Top("FAT32") - 1

GetEntry(c) == IF fatType = "FAT12" THEN FAT12GetEntry(c)
               ELSE IF fatType = "FAT16" THEN FAT16GetEntry(c) ELSE FAT32GetEntry(c)

IsValidClusterNumber(c) == c < 2 \/ c < ClusterCount

IsValidEntry(c) == GetEntry(c) < Top(fatType) /\ IsValidClusterNumber(c)

(* The order of the tests is the code's: reserved goes before end of chain.*)
StateOf(v) ==
    IF IsFree(v) THEN "FREE"
    ELSE IF IsBad(fatType, v) THEN "BAD"
    ELSE IF IsReserved(fatType, v) THEN "RESERVED"
    ELSE IF IsEndOfChain(fatType, v) THEN "END_OF_CHAIN" ELSE "ALLOCATED"

GetClusterState(c) == StateOf(GetEntry(c))

Stops(c) == GetClusterState(c) # "ALLOCATED"

(* Wrong variant: any chain that is not empty is accepted.                    *)
EndsWellIfAny(ch) == Len(ch) > 0

(* The verdict on a chain looks at the state of its last cluster only.     *)
EndsWell(ch) == Len(ch) > 0 /\ IsValidEntry(ch[Len(ch)]) /\ Stops(ch[Len(ch)])

ValidateClusterChain(ch) ==
    /\ Len(ch) > 0
    /\ IsValidEntry(ch[Len(ch)])
    /\ GetClusterState(ch[Len(ch)]) \in {"END_OF_CHAIN", "BAD", "FREE", "RESERVED"}

(* What FATValidator::validate may report about one entry.                 *)
EntryErrors(c) ==
    \/ ~IsValidEntry(c)
    \/ IsReserved(fatType, GetEntry(c)) # (GetClusterState(c) = "RESERVED")
    \/ IsBad(fatType, GetEntry(c)) /\ GetClusterState(c) = "ALLOCATED"

-----------------------------------------------------------------------------
(* Calls.                                                                  *)

NoResult == [kind |-> "none", ok |-> FALSE, bytes |-> 0]
Thrown == [kind |-> "exception", ok |-> FALSE, bytes |-> 0]
Verdict(b) == [kind |-> "verdict", ok |-> b, bytes |-> 0]

(* Entries 0 and 1 hold the media descriptor and an end mark.              *)
RawEntries(t) == Pointers \cup {Top(t) - m : m \in Marks}
                          \cup (IF t = "FAT32" THEN {Top(t) + 2} ELSE {})

TableInit ==
    /\ fatType \in FATTypes
    /\ \E entries \in [Clusters \ {0, 1} -> RawEntries(fatType)] :
          raw = [c \in Clusters |-> IF c < 2 THEN Top(fatType) - (IF c = 0 THEN 8 ELSE 1)
                                            ELSE entries[c]]
    /\ loaded = FALSE
    /\ pc = "idle"
    /\ call = [op |-> "none", start |-> 0]
    /\ chain = <<>>
    /\ current = 0
    /\ result = NoResult

(* loadFatData runs once; a short read of any sector throws and leaves the *)
(* table unloaded, so that the next call reads it again.                   *)
ThrowOnLoad(op, start) ==
    /\ ~loaded
    /\ call' = [op |-> op, start |-> start]
    /\ chain' = <<>>
    /\ current' = 0
    /\ result' = Thrown
    /\ UNCHANGED <<fatType, raw, loaded, pc>>

Return(r) == pc' = "idle" /\ result' = r

BeginFollow(op, start) ==
    /\ pc = "idle"
    /\ call' = [op |-> op, start |-> start]
    /\ chain' = <<>>
    /\ current' = start
    /\ IF IsValidClusterNumber(start)
         THEN pc' = "following" /\ loaded' = TRUE /\ UNCHANGED result
         ELSE UNCHANGED loaded /\ Return(Verdict(FALSE))
    /\ UNCHANGED <<fatType, raw>>

FollowFails(op, start) ==
    /\ pc = "idle"
    /\ IsValidClusterNumber(start)
    /\ ThrowOnLoad(op, start)

Visited(c) == \E i \in 1..Len(chain) : chain[i] = c

(* Wrong variant: visited clusters are not looked up.                         *)
ChainDoneUnvisited ==
    \/ ~IsValidClusterNumber(current)
    \/ Len(chain) > 0 /\ Stops(chain[Len(chain)])
    \/ Len(chain) > ClusterCount * 2

(* The loop is over when it leaves the table, meets a visited cluster or   *)
(* has just added a cluster that ends the chain.                           *)
ChainDone ==
    \/ ~IsValidClusterNumber(current)
    \/ Visited(current)
    \/ Len(chain) > 0 /\ Stops(chain[Len(chain)])
    \/ Len(chain) > ClusterCount * 2

(* One turn: the cluster joins the chain, its entry names the next one.    *)
FollowClusterChain ==
    /\ pc = "following"
    /\ ~ChainDone
    /\ chain' = Append(chain, current)
    /\ current' = IF Stops(current) THEN current ELSE GetEntry(current)
    /\ UNCHANGED <<fatType, raw, loaded, pc, call, result>>

(* isValidClusterChain, FATChainReader::isValidChain and FATValidator::    *)
(* validateClusterChain all judge the chain by its end.                    *)
FinishChainVerdict ==
    /\ pc = "following"
    /\ ChainDone
    /\ call.op \in {"isValidClusterChain", "validateClusterChain"}
    /\ Return(Verdict(IF call.op = "isValidClusterChain" THEN EndsWell(chain)
                                                         ELSE ValidateClusterChain(chain)))
    /\ UNCHANGED <<fatType, raw, loaded, call, chain, current>>

(* FATTable::validate turns the exception of a failed load into false;     *)
(* FATValidator::validate lets it through.                                 *)
ValidateTable ==
    /\ pc = "idle"
    /\ call' = [op |-> "validate", start |-> 0]
    /\ \E ok \in BOOLEAN :
          /\ loaded => ok
          /\ loaded' = ok
          /\ result' = Verdict(ok /\ \A c \in Clusters : IsValidEntry(c))
    /\ chain' = <<>>
    /\ current' = 0
    /\ UNCHANGED <<fatType, raw, pc>>

ValidatorValidate ==
    /\ pc = "idle"
    /\ \/ ThrowOnLoad("validator", 0)
       \/ /\ call' = [op |-> "validator", start |-> 0]
          /\ loaded' = TRUE
          /\ result' = Verdict(\A c \in Clusters : ~EntryErrors(c))
          /\ chain' = <<>>
          /\ current' = 0
          /\ UNCHANGED <<fatType, raw, pc>>

TableCalls ==
    \/ \E op \in {"isValidClusterChain", "validateClusterChain"}, s \in Starts :
          BeginFollow(op, s) \/ FollowFails(op, s)
    \/ ValidateTable
    \/ ValidatorValidate

TableTurns == FollowClusterChain \/ FinishChainVerdict
-----------------------------------------------------------------------------
(* Followed chains are simple paths: no cluster is met twice, every        *)
(* cluster but the last is allocated and its entry names the next one.     *)
(* FATTable.cpp:216-248 promises this for every table, cyclic, cross-      *)
(* linked or corrupt, and it bounds the vector the callers allocate from.  *)
ChainIsSimplePath ==
    /\ \A i, j \in 1..Len(chain) : chain[i] = chain[j] => i = j
    /\ \A i \in 1..(Len(chain) - 1) :
          ~Stops(chain[i]) /\ chain[i + 1] = GetEntry(chain[i])

(* What a chain verdict means, said of the disk and without following: the *)
(* walk from the start reaches a cluster whose entry is not a pointer.  A  *)
(* cycle and a pointer out of the table are thereby both invalid.          *)
DiskEntry(c) == raw[c] % Top(fatType)
EndsOnDisk(c) == DiskEntry(c) = 0 \/ DiskEntry(c) >= Top(fatType) - 16

Reaches(s, c) ==
    \E n \in 1..ClusterCount : \E p \in [1..n -> Clusters] :
        /\ p[1] = s /\ p[n] = c
        /\ \A i \in 1..(n - 1) : ~EndsOnDisk(p[i]) /\ p[i + 1] = DiskEntry(p[i])

(* Both verdicts on a chain, FATTable::isValidClusterChain and FATValidator::*)
(* validateClusterChain, have that meaning on every FAT16 and FAT32 table; *)
(* the FAT12 decoder loses bits and is left out.                           *)
VerdictIsReachability ==
    (/\ pc = "idle"
     /\ fatType # "FAT12"
     /\ call.op \in {"isValidClusterChain", "validateClusterChain"}
     /\ result.kind = "verdict")
    => (result.ok <=> \E c \in Clusters : EndsOnDisk(c) /\ Reaches(call.start, c))
=============================================================================
