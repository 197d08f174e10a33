--------------------------- MODULE FATTableProofs ---------------------------
(***************************************************************************)
(* Theorems about FATTable and FATChainReader, for every table, every      *)
(* number of clusters and every size of sector, cluster and FAT: types,    *)
(* that a followed chain is a simple path, what a verdict on a chain       *)
(* means, and what a read delivers.                                        *)
(***************************************************************************)
EXTENDS FATChainReader, NumberLemmas, TLAPS

-----------------------------------------------------------------------------
(* Entries are numbers, and stay as they are: no call writes the table.    *)

LEMMA EntryIsNumber ==
    ASSUME fatType \in FATTypes, raw \in [Clusters -> Nat], NEW c \in Clusters
    PROVE  GetEntry(c) \in Nat
<1>1. raw[c] \in Nat
  OBVIOUS
<1>2. (raw[c] \div 256) * 256 \in Nat
  BY <1>1
<1>3. raw[c] % 268435456 \in Nat
  BY <1>1
<1>4. QED
  BY <1>1, <1>2, <1>3 DEF GetEntry, FAT12GetEntry, FAT16GetEntry, FAT32GetEntry, Top, FATTypes

LEMMA EntriesKept ==
    ASSUME UNCHANGED <<fatType, raw>>, NEW c
    PROVE  GetEntry(c)' = GetEntry(c) /\ Stops(c)' = Stops(c)
<1>1. GetEntry(c)' = GetEntry(c)
  BY Zenon DEF GetEntry, FAT12GetEntry, FAT16GetEntry, FAT32GetEntry, InOneSector
<1>2. QED
  BY <1>1, Zenon DEF Stops, GetClusterState, StateOf, IsFree, IsBad, IsReserved, IsEndOfChain

-----------------------------------------------------------------------------
(* Types.                                                                  *)

LEMMA RawTyped ==
    ASSUME NEW t \in FATTypes
    PROVE  RawEntries(t) \subseteq Nat /\ Top(t) - 8 \in Nat /\ Top(t) - 1 \in Nat
<1>1. Top(t) \in Nat /\ Top(t) >= 16
  BY DEF Top
<1>2. \A m \in Marks : Top(t) - m \in Nat
  BY <1>1, FATAssumption
<1>3. Pointers \subseteq Nat
  BY FATAssumption
<1>4. (IF t = "FAT32" THEN {Top(t) + 2} ELSE {}) \subseteq Nat
  BY <1>1
<1>5. RawEntries(t) \subseteq Nat
  BY <1>2, <1>3, <1>4, Zenon DEF RawEntries
<1>6. QED
  BY <1>1, <1>5

LEMMA ValidIsCluster ==
    ASSUME NEW c \in Nat, IsValidClusterNumber(c)
    PROVE  c \in Clusters
  BY FATAssumption DEF IsValidClusterNumber, Clusters

LEMMA SizesTyped ==
    ASSUME TypeOK
    PROVE  BytesPerCluster \in Nat /\ ChainSize \in Nat /\ ClusterStart \in Nat /\ BytesRead \in Nat
<1>1. BytesPerSector \in Nat /\ sectorsPerCluster \in Nat /\ Len(chain) \in Nat
      /\ next - 1 \in Nat /\ Len(data) \in Nat
  <2>1. BytesPerSector \in Nat
    BY FATAssumption
  <2>2. sectorsPerCluster \in Nat
    BY ReaderAssumption DEF TypeOK
  <2>3. Len(chain) \in Nat /\ Len(data) \in Nat
    BY DEF TypeOK
  <2>4. next - 1 \in Nat
    BY <2>3 DEF TypeOK
  <2>5. QED
    BY <2>1, <2>2, <2>3, <2>4
<1>2. BytesPerCluster \in Nat
  BY <1>1, Products DEF BytesPerCluster
<1>3. ChainSize \in Nat
  BY <1>1, <1>2, Products DEF ChainSize
<1>4. ClusterStart \in Nat
  <2>1. ASSUME NEW n \in Nat PROVE n * BytesPerCluster \in Nat
    BY <1>2, Products
  <2>2. QED
    BY <1>1, <2>1 DEF ClusterStart
<1>5. BytesRead \in Nat
  BY <1>1, Products DEF BytesRead
<1>6. QED
  BY <1>2, <1>3, <1>4, <1>5

LEMMA SectorTyped ==
    ASSUME TypeOK, NEW c \in Clusters
    PROVE  ClusterToSector(c) \in Nat
<1>1. DataStart \in Nat /\ sectorsPerCluster \in Nat
  BY ReaderAssumption DEF TypeOK
<1>2. CASE c >= 2
  <2>1. c - 2 \in Nat
    BY <1>2 DEF Clusters
  <2>2. (c - 2) * sectorsPerCluster \in Nat
    BY <1>1, <2>1, Products
  <2>3. QED
    BY <1>1, <1>2, <2>2 DEF ClusterToSector
<1>3. CASE c < 2
  BY <1>3 DEF ClusterToSector
<1>4. QED
  BY <1>2, <1>3 DEF Clusters

LEMMA TypeInit == Init => TypeOK
<1> SUFFICES ASSUME Init PROVE TypeOK
  OBVIOUS
<1>1. fatType \in FATTypes
  BY DEF Init, TableInit
<1>2. raw \in [Clusters -> Nat]
  <2>1. PICK entries \in [Clusters \ {0, 1} -> RawEntries(fatType)] :
           raw = [c \in Clusters |-> IF c < 2 THEN Top(fatType) - (IF c = 0 THEN 8 ELSE 1)
                                             ELSE entries[c]]
    BY DEF Init, TableInit
  <2>2. ASSUME NEW c \in Clusters
        PROVE  raw[c] \in Nat
    <3>1. CASE c < 2
      BY <1>1, <2>1, <3>1, RawTyped
    <3>2. CASE ~(c < 2)
      <4>1. entries[c] \in RawEntries(fatType)
        BY <3>2
      <4>2. QED
        BY <1>1, <2>1, <3>2, <4>1, RawTyped
    <3>3. QED
      BY <3>1, <3>2
  <2>3. QED
    BY <2>1, <2>2
<1>3. loaded \in BOOLEAN /\ pc = "idle" /\ sectorsPerCluster \in ClusterSectors
  BY Zenon DEF Init, TableInit
<1>4. call.start = 0 /\ result.kind = "none" /\ result.bytes = 0
  BY DEF Init, TableInit, NoResult
<1>5. chain = <<>> /\ current = 0 /\ next = 1 /\ data = <<>> /\ failed = {}
      /\ range = [offset |-> 0, length |-> 0]
  BY DEF Init, TableInit
<1>6. chain \in Seq(Clusters) /\ data \in Seq(Nat) /\ next \in 1..(Len(chain) + 1)
      /\ failed \subseteq Clusters /\ range \in [offset : Nat, length : Nat]
  BY <1>5
<1>7. QED
  BY <1>1, <1>2, <1>3, <1>4, <1>5, <1>6 DEF TypeOK

(* A call that begins, whichever it is, with the locals it resets.         *)
LEMMA TypeCall ==
    ASSUME TypeOK, UNCHANGED <<fatType, raw, sectorsPerCluster>>,
           loaded' \in BOOLEAN, pc' \in {"idle", "following"}, call'.start \in Nat,
           chain' = <<>>, current' \in Nat,
           result'.kind \in {"none", "exception", "verdict", "bytes"}, result'.bytes \in Nat,
           NEW off \in Nat, NEW len \in Nat, FreshLocals(off, len)
    PROVE  TypeOK'
  BY DEF TypeOK, FreshLocals

LEMMA TypeStep ==
    ASSUME TypeOK, [Next]_vars
    PROVE  TypeOK'
<1>a. 0 \in Nat
  OBVIOUS
<1>1. ASSUME NEW op, NEW s \in Starts, NEW off \in Nat, NEW len \in Nat,
             BeginFollow(op, s), FreshLocals(off, len)
      PROVE  TypeOK'
  <2>1. /\ UNCHANGED <<fatType, raw, sectorsPerCluster>> /\ chain' = <<>>
        /\ current' = s
    BY <1>1 DEF BeginFollow, FreshLocals
  <2>2. loaded' \in BOOLEAN
    BY <1>1, Zenon DEF BeginFollow, TypeOK
  <2>3. pc' \in {"idle", "following"}
    BY <1>1, Zenon DEF BeginFollow, Return
  <2>4. call'.start = s
    BY <1>1, Zenon DEF BeginFollow
  <2>5. s \in Nat
    BY FATAssumption
  <2>6. result'.kind \in {"none", "exception", "verdict", "bytes"} /\ result'.bytes \in Nat
    BY <1>1 DEF BeginFollow, Return, Verdict, TypeOK
  <2>7. QED
    BY <1>1, <2>1, <2>2, <2>3, <2>4, <2>5, <2>6, TypeCall
<1>2. ASSUME NEW op, NEW s \in Nat, ThrowOnLoad(op, s), pc = "idle", FreshLocals(0, 0)
      PROVE  TypeOK'
  <2>1. /\ UNCHANGED <<fatType, raw, sectorsPerCluster, loaded, pc>>
        /\ chain' = <<>> /\ current' = 0
    BY <1>2 DEF ThrowOnLoad, FreshLocals
  <2>2. call'.start \in Nat
    <3>1. call'.start = s
      BY <1>2, Zenon DEF ThrowOnLoad
    <3>2. QED
      BY <3>1
  <2>3. result'.kind = "exception" /\ result'.bytes = 0
    BY <1>2 DEF ThrowOnLoad, Thrown
  <2>4. QED
    BY <1>2, <2>1, <2>2, <2>3, TypeCall DEF TypeOK
<1>3. CASE ValidateTable /\ FreshLocals(0, 0)
  BY <1>3, TypeCall DEF ValidateTable, Verdict, FreshLocals, TypeOK
<1>4. CASE ValidatorValidate /\ FreshLocals(0, 0)
  <2>1. CASE ThrowOnLoad("validator", 0)
    BY <1>4, <1>2, <2>1 DEF ValidatorValidate
  <2>2. CASE ~ThrowOnLoad("validator", 0)
    <3>1. /\ pc = "idle" /\ loaded' = TRUE /\ chain' = <<>> /\ current' = 0
          /\ UNCHANGED <<fatType, raw, pc, sectorsPerCluster>>
      BY <1>4, <2>2 DEF ValidatorValidate, FreshLocals
    <3>2. call' = [op |-> "validator", start |-> 0]
      BY <1>4, <2>2, Zenon DEF ValidatorValidate
    <3>3. \E b : result' = Verdict(b)
      BY <1>4, <2>2, Zenon DEF ValidatorValidate
    <3>4. call'.start = 0
      BY ONLY <3>2
    <3>5. PICK b : result' = Verdict(b)
      BY <3>3
    <3>6. result'.kind = "verdict" /\ result'.bytes = 0
      BY <3>5, Zenon DEF Verdict
    <3>7. QED
      BY <1>4, <3>1, <3>4, <3>6, TypeCall DEF TypeOK
  <2>3. QED
    BY <2>1, <2>2
<1>5. CASE ReadNothing
  BY <1>5, TypeCall DEF ReadNothing, FreshLocals, TypeOK
<1>6. CASE FollowClusterChain /\ UNCHANGED readerVars
  <2>1. current \in Clusters
    BY <1>6, ValidIsCluster DEF FollowClusterChain, ChainDone, TypeOK
  <2>2. GetEntry(current) \in Nat
    BY <2>1, EntryIsNumber DEF TypeOK
  <2>3. chain' \in Seq(Clusters) /\ Len(chain') = Len(chain) + 1
    BY <1>6, <2>1 DEF FollowClusterChain, TypeOK
  <2>4. current' \in Nat
    BY <1>6, <2>2 DEF FollowClusterChain, TypeOK
  <2>5. QED
    BY <1>6, <2>3, <2>4 DEF FollowClusterChain, readerVars, TypeOK
<1>7. CASE FinishChainVerdict /\ UNCHANGED readerVars
  BY <1>7 DEF FinishChainVerdict, Return, Verdict, readerVars, TypeOK
<1>8. CASE StartReading
  <2>1. range' \in [offset : Nat, length : Nat]
    BY <1>8, SizesTyped DEF StartReading, TypeOK
  <2>2. QED
    BY <1>8, <2>1 DEF StartReading, Return, TypeOK
<1>9. CASE ReadCluster
  <2>1. chain[next] \in Clusters /\ next' = next + 1 /\ next <= Len(chain)
    BY <1>9 DEF ReadCluster, ReadingDone, TypeOK
  <2>2. data' \in Seq(Nat) /\ failed' \subseteq Clusters
    <3>1. CASE UNCHANGED <<data, failed>>
      BY <3>1 DEF TypeOK
    <3>2. CASE ReadClusterSectors
      <4> DEFINE inside == IF range.offset > ClusterStart THEN range.offset - ClusterStart ELSE 0
      <4>1. inside \in Nat
        BY SizesTyped DEF TypeOK
      <4>2. ClusterToSector(chain[next]) + inside \in Nat
        BY <2>1, <4>1, SectorTyped
      <4> HIDE DEF inside
      <4>3. \/ data' = Append(data, ClusterToSector(chain[next]) + inside) /\ failed' = failed
            \/ data' = data /\ failed' = failed \cup {chain[next]}
        BY <3>2 DEF ReadClusterSectors, inside
      <4>4. QED
        <5>1. data \in Seq(Nat) /\ failed \subseteq Clusters
          BY DEF TypeOK
        <5> DEFINE sector == ClusterToSector(chain[next]) + inside
        <5>2. sector \in Nat /\ (data' = Append(data, sector) \/ data' = data)
          BY <4>2, <4>3
        <5> HIDE DEF sector
        <5>3. data' \in Seq(Nat)
          BY <5>1, <5>2
        <5>4. failed' \subseteq Clusters
          BY <2>1, <4>3, <5>1, Zenon
        <5>5. QED
          BY <5>3, <5>4
    <3>3. QED
      BY <1>9, <3>1, <3>2 DEF ReadCluster
  <2>3. QED
    BY <1>9, <2>1, <2>2 DEF ReadCluster, tableVars, TypeOK
<1>10. CASE FinishReading
  <2>1. result'.bytes \in Nat /\ result'.kind = "bytes"
    BY <1>10, SizesTyped DEF FinishReading, Return
  <2>2. QED
    BY <1>10, <2>1 DEF FinishReading, Return, readerVars, TypeOK
<1>11. CASE UNCHANGED vars
  BY <1>11 DEF vars, tableVars, readerVars, TypeOK
<1>12. ASSUME NEW s \in Starts, ReadChainThrows(s)
       PROVE  TypeOK'
  BY <1>2, <1>12, FATAssumption DEF ReadChainThrows, FollowFails
<1>13. ASSUME NEW s \in Starts, NEW off \in Offsets, NEW len \in Lengths,
              BeginReadChain(s, off, len)
       PROVE  TypeOK'
  BY <1>1, <1>13, ReaderAssumption DEF BeginReadChain
<1>14. CASE TableCalls /\ FreshLocals(0, 0)
  BY <1>a, <1>1, <1>2, <1>3, <1>4, <1>14, FATAssumption DEF TableCalls, FollowFails
<1>15. QED
  BY <1>5, <1>6, <1>7, <1>8, <1>9, <1>10, <1>11, <1>12, <1>13, <1>14
     DEF Next, Continue, TableTurns

(* Every variable keeps its type, for every table: in particular the chain *)
(* holds clusters of the volume only, and the read loop's index never      *)
(* leaves it.                                                              *)
THEOREM TypeCorrect == Spec => []TypeOK
<1>1. QED
  BY TypeInit, TypeStep, PTL DEF Spec

-----------------------------------------------------------------------------
(* Chains.                                                                 *)

(* While the chain is followed, the cluster to come is the one the entry   *)
(* of the last cluster names.                                              *)
NextFollows ==
    (pc = "following" /\ Len(chain) > 0 /\ ~Stops(chain[Len(chain)]))
    => current = GetEntry(chain[Len(chain)])

Chained == ChainIsSimplePath /\ NextFollows

LEMMA EmptyIsChained == chain = <<>> => Chained
<1> SUFFICES ASSUME chain = <<>> PROVE Chained
  OBVIOUS
<1>1. Len(chain) = 0 /\ 1..Len(chain) = {} /\ 1..(Len(chain) - 1) = {}
  OBVIOUS
<1>2. QED
  BY <1>1 DEF Chained, ChainIsSimplePath, NextFollows

LEMMA EmptiedIsChained == (chain = <<>> => Chained)'
  BY EmptyIsChained, PTL

(* A step that writes neither the chain nor the table, and starts no chain.*)
LEMMA ChainedKept ==
    ASSUME Chained, UNCHANGED <<fatType, raw, chain>>,
           pc' = "following" => pc = "following" /\ current' = current
    PROVE  Chained'
<1>1. \A c : GetEntry(c)' = GetEntry(c) /\ Stops(c)' = Stops(c)
  BY EntriesKept
<1>2. ChainIsSimplePath'
  BY <1>1, Zenon DEF Chained, ChainIsSimplePath
<1>3. NextFollows'
  BY <1>1, Zenon DEF Chained, NextFollows
<1>4. QED
  BY <1>2, <1>3 DEF Chained

(* A turn of the loop appends a cluster that is not in the chain, and the  *)
(* one its predecessor names.                                              *)
LEMMA TurnChained ==
    ASSUME TypeOK, Chained, FollowClusterChain
    PROVE  Chained'
<1>1. \A c : GetEntry(c)' = GetEntry(c) /\ Stops(c)' = Stops(c)
  BY EntriesKept DEF FollowClusterChain
<1> DEFINE n == Len(chain)
<1>2. /\ pc = "following" /\ chain' = Append(chain, current)
      /\ current' = IF Stops(current) THEN current ELSE GetEntry(current)
  BY DEF FollowClusterChain
<1>3. /\ \A i \in 1..n : chain[i] # current
      /\ n > 0 => ~Stops(chain[n])
  BY DEF FollowClusterChain, ChainDone, Visited
<1>4. chain \in Seq(Clusters) /\ n \in Nat /\ current \in Clusters
  BY ValidIsCluster DEF FollowClusterChain, ChainDone, TypeOK
<1>5. Len(chain') = n + 1 /\ chain'[n + 1] = current /\ \A i \in 1..n : chain'[i] = chain[i]
  BY <1>2, <1>4
<1>6. n > 0 => current = GetEntry(chain[n])
  BY <1>2, <1>3 DEF Chained, NextFollows
<1> HIDE DEF n
<1>7. \A i, j \in 1..(n + 1) : chain'[i] = chain'[j] => i = j
  <2>1. \A i, j \in 1..n : chain[i] = chain[j] => i = j
    BY DEF Chained, ChainIsSimplePath, n
  <2>2. QED
    BY <1>3, <1>4, <1>5, <2>1
<1>8. ASSUME NEW i \in 1..n
      PROVE  ~Stops(chain[i]) /\ chain'[i + 1] = GetEntry(chain[i])
  <2>1. CASE i = n
    BY <1>3, <1>4, <1>5, <1>6, <2>1
  <2>2. CASE i < n
    <3>1. i \in 1..(n - 1) /\ i + 1 \in 1..n
      BY <1>4, <2>2
    <3>2. ~Stops(chain[i]) /\ chain[i + 1] = GetEntry(chain[i])
      BY <3>1 DEF Chained, ChainIsSimplePath, n
    <3>3. QED
      BY <1>5, <3>1, <3>2
  <2>3. QED
    BY <1>4, <2>1, <2>2
<1>9. ChainIsSimplePath'
  <2>1. Len(chain') = n + 1 /\ 1..(Len(chain') - 1) = 1..n
    BY <1>4, <1>5
  <2>2. \A i, j \in 1..Len(chain') : chain'[i] = chain'[j] => i = j
    BY <1>7, <2>1
  <2>3. ASSUME NEW i \in 1..n
        PROVE  ~Stops(chain'[i]) /\ chain'[i + 1] = GetEntry(chain'[i])
    BY <1>5, <1>8
  <2>4. QED
    BY <1>1, <2>1, <2>2, <2>3 DEF ChainIsSimplePath
<1>10. NextFollows'
  BY <1>1, <1>2, <1>5 DEF NextFollows
<1>11. QED
  BY <1>9, <1>10 DEF Chained

LEMMA ChainedStep ==
    ASSUME TypeOK, Chained, [Next]_vars
    PROVE  Chained'
<1>1. chain' = <<>> => Chained'
  BY EmptiedIsChained
<1>2. CASE FollowClusterChain
  BY <1>2, TurnChained
<1>3. (UNCHANGED <<fatType, raw, chain>> /\ pc' # "following") => Chained'
  BY ChainedKept
<1>4. CASE UNCHANGED vars
  BY <1>4, ChainedKept DEF vars, tableVars
<1>5. CASE TableCalls
  <2>1. chain' = <<>>
    BY <1>5, Zenon DEF TableCalls, BeginFollow, FollowFails, ThrowOnLoad, ValidateTable,
       ValidatorValidate
  <2>2. QED
    BY <1>1, <2>1
<1>6. ASSUME NEW s \in Starts, NEW off \in Offsets, NEW len \in Lengths,
             BeginReadChain(s, off, len)
      PROVE  Chained'
  BY <1>1, <1>6 DEF BeginReadChain, BeginFollow
<1>7. CASE ReadNothing
  BY <1>1, <1>7 DEF ReadNothing
<1>8. CASE FinishChainVerdict
  BY <1>3, <1>8 DEF FinishChainVerdict, Return
<1>9. CASE StartReading
  BY <1>3, <1>9 DEF StartReading, Return
<1>10. CASE ReadCluster
  BY <1>10, ChainedKept DEF ReadCluster, tableVars
<1>11. CASE FinishReading
  BY <1>3, <1>11 DEF FinishReading, Return
<1>12. ASSUME NEW s \in Starts, ReadChainThrows(s)
       PROVE  Chained'
  BY <1>1, <1>12 DEF ReadChainThrows, FollowFails, ThrowOnLoad
<1>13. QED
  BY <1>2, <1>4, <1>5, <1>6, <1>7, <1>8, <1>9, <1>10, <1>11, <1>12
     DEF Next, Continue, TableTurns

(* On every table, cyclic, cross-linked or corrupt, the chain that is      *)
(* followed is a simple path: no cluster twice, and every cluster but the  *)
(* last is allocated and names the next (FATTable.cpp:216-248).            *)
THEOREM ChainIsAlwaysSimplePath == Spec => []ChainIsSimplePath
<1>1. Init => Chained
  BY EmptyIsChained DEF Init, TableInit
<1>2. TypeOK /\ Chained /\ [Next]_vars => Chained'
  BY ChainedStep
<1>3. Chained => ChainIsSimplePath
  BY DEF Chained
<1>4. QED
  BY <1>1, <1>2, <1>3, TypeCorrect, PTL DEF Spec

-----------------------------------------------------------------------------
(* Verdicts.                                                               *)

(* The FAT has room for the entries of all clusters, none across sectors.  *)
(* A table without that loses entries to the default of the decoders.      *)
EntrySize == IF fatType = "FAT16" THEN 2 ELSE 4

EveryEntryFits ==
    /\ BytesPerSector % EntrySize = 0
    /\ EntrySize * ClusterCount <= BytesPerSector * SectorsPerFat

LEMMA FitsInOneSector ==
    ASSUME NEW b \in Nat \ {0}, NEW s \in {2, 4}, b % s = 0,
           NEW k \in Nat, NEW n \in Nat, NEW c \in 0..(n - 1), s * n <= b * k
    PROVE  (s * c) \div b < k /\ ((s * c) % b) + s <= b
<1> DEFINE x == s * c
           q == x \div b
           r == x % b
           u == b \div s
<1>1. x \in Nat /\ x < s * n
  OBVIOUS
<1>2. q \in Nat /\ r \in 0 .. b - 1 /\ x = q * b + r
  <2> HIDE DEF x
  <2> QED
    BY <1>1, Division
<1>3. u \in Nat /\ b = u * s
  <2>1. u \in Nat /\ b = u * s + (b % s)
    BY Division
  <2>2. QED
    BY <2>1
<1> HIDE DEF q, r, u
<1>4. q < k
  <2>1. x < b * k
    BY <1>1
  <2>2. q * b < k * b
    BY <1>2, <2>1
  <2>3. k <= q => k * b <= q * b
    BY <1>2, Products
  <2>4. k * b \in Nat /\ q * b \in Nat
    BY <1>2, Products
  <2>5. QED
    BY <1>2, <2>2, <2>3, <2>4
<1>5. r + s <= b
  <2> DEFINE w == c - q * u
  <2>1. q * u \in Nat
    BY <1>2, <1>3, Products
  <2>2. w \in Int
    BY <2>1
  <2>3. q * b = (q * u) * s
    BY <1>2, <1>3
  <2>4. r = w * s
    BY <1>2, <2>1, <2>3
  <2>5. w < u
    <3>1. w * s < u * s
      BY <1>2, <1>3, <2>4
    <3>2. QED
      BY <1>3, <2>2, <3>1
  <2>6. QED
    <3> HIDE DEF w
    <3>1. CASE s = 2
      BY <1>2, <1>3, <2>2, <2>4, <2>5, <3>1
    <3>2. CASE s = 4
      BY <1>2, <1>3, <2>2, <2>4, <2>5, <3>2
    <3>3. QED
      BY <3>1, <3>2
<1>6. QED
  BY <1>4, <1>5 DEF q, r

LEMMA SmallRemainder ==
    ASSUME NEW v \in Nat, NEW m \in Nat, v < m
    PROVE  v % m = v /\ v \in 0 .. m - 1
  OBVIOUS

(* More places than values: two places hold the same one.                  *)
LEMMA ManyToOne ==
    ASSUME NEW n \in Nat, NEW m \in Nat, NEW f \in [1..n -> 0..(m - 1)],
           \A i, j \in 1..n : f[i] = f[j] => i = j
    PROVE  n <= m
<1>1. IsFiniteSet(1..n) /\ Cardinality(1..n) = n
  <2>1. Cardinality(1..n) = IF 1 > n THEN 0 ELSE n - 1 + 1
    BY FS_Interval
  <2>2. IsFiniteSet(1..n)
    BY FS_Interval
  <2>3. QED
    BY <2>1, <2>2
<1>2. IsFiniteSet(0..(m - 1)) /\ Cardinality(0..(m - 1)) = m
  <2>1. Cardinality(0..(m - 1)) = IF 0 > m - 1 THEN 0 ELSE (m - 1) - 0 + 1
    BY FS_Interval
  <2>2. IsFiniteSet(0..(m - 1))
    BY FS_Interval
  <2>3. QED
    BY <2>1, <2>2
<1>3. ASSUME Cardinality(0..(m - 1)) < Cardinality(1..n) PROVE FALSE
  <2>1. \E x, y \in 1..n : x # y /\ f[x] = f[y]
    BY <1>1, <1>2, <1>3, FS_PigeonHole
  <2>2. QED
    BY <2>1
<1>4. QED
  BY <1>1, <1>2, <1>3

(* FAT16 entries are 16 bits wide.                                         *)
EntriesInRange == fatType = "FAT16" => \A c \in Clusters : raw[c] < Top(fatType)

LEMMA DecodedIsOnDisk ==
    ASSUME TypeOK, EntriesInRange, EveryEntryFits, fatType # "FAT12", NEW c \in Clusters
    PROVE  /\ GetEntry(c) = DiskEntry(c) /\ DiskEntry(c) \in 0 .. Top(fatType) - 1
           /\ Stops(c) <=> EndsOnDisk(c)
<1>1. raw[c] \in Nat /\ fatType \in {"FAT16", "FAT32"}
  BY DEF TypeOK, FATTypes
<1>2. InOneSector(EntrySize * c, EntrySize)
  <2>1. EntrySize \in {2, 4} /\ BytesPerSector \in Nat \ {0} /\ SectorsPerFat \in Nat
        /\ ClusterCount \in Nat /\ c \in 0..(ClusterCount - 1)
    BY FATAssumption DEF EntrySize, Clusters
  <2>2. QED
    BY <2>1, FitsInOneSector DEF EveryEntryFits, InOneSector
<1>3. GetEntry(c) = DiskEntry(c) /\ DiskEntry(c) \in 0 .. Top(fatType) - 1
  <2>1. CASE fatType = "FAT16"
    <3>1. Top(fatType) \in Nat
      BY <2>1, SMT DEF Top
    <3>2. InOneSector(2 * c, 2)
      BY <1>2, <2>1 DEF EntrySize
    <3>3. GetEntry(c) = raw[c]
      BY <2>1, <3>2 DEF GetEntry, FAT16GetEntry
    <3>4. raw[c] < Top(fatType)
      BY <2>1 DEF EntriesInRange
    <3>5. raw[c] % Top(fatType) = raw[c] /\ raw[c] \in 0 .. Top(fatType) - 1
      BY <1>1, <3>1, <3>4, SmallRemainder
    <3>6. QED
      BY <3>3, <3>5 DEF DiskEntry
  <2>2. CASE fatType = "FAT32"
    <3>1. Top("FAT32") = 268435456 /\ Top(fatType) = Top("FAT32")
      BY <2>2, SMT DEF Top
    <3>2. InOneSector(4 * c, 4)
      BY <1>2, <2>2 DEF EntrySize
    <3>3. GetEntry(c) = raw[c] % Top("FAT32")
      BY <2>2, <3>2 DEF GetEntry, FAT32GetEntry
    <3>4. DiskEntry(c) = raw[c] % Top("FAT32")
      BY <3>1 DEF DiskEntry
    <3>5. raw[c] % Top("FAT32") \in 0 .. Top("FAT32") - 1
      BY <1>1, <3>1, SMT
    <3>6. QED
      BY <3>1, <3>3, <3>4, <3>5, SMT
  <2>3. QED
    BY <1>1, <2>1, <2>2
<1>4. Stops(c) <=> EndsOnDisk(c)
  <2> DEFINE v == DiskEntry(c)
  <2>1. v \in Nat /\ v < Top(fatType)
    BY <1>1, <1>3, SMT DEF Top
  <2>2. Stops(c) <=> StateOf(v) # "ALLOCATED"
    BY <1>3, Zenon DEF Stops, GetClusterState
  <2>3. EndsOnDisk(c) <=> (v = 0 \/ v >= Top(fatType) - 16)
    BY DEF EndsOnDisk
  <2> HIDE DEF v
  <2>4. QED
    BY <1>1, <2>1, <2>2, <2>3, SMT
       DEF StateOf, IsFree, IsBad, BadMark, IsReserved, IsEndOfChain, Top
<1>5. QED
  BY <1>3, <1>4

(* The loop starts where the caller said.                                  *)
FromStart ==
    pc = "following" => /\ IsValidClusterNumber(call.start)
                        /\ IF chain = <<>> THEN current = call.start ELSE chain[1] = call.start

(* Every cluster of the chain is another one: it has no more than there    *)
(* are, and the loop never stops for its length.                           *)
LEMMA ChainIsShort ==
    ASSUME TypeOK, ChainIsSimplePath
    PROVE  Len(chain) <= ClusterCount
<1> DEFINE n == Len(chain)
           f == [i \in 1..n |-> chain[i]]
<1>1. n \in Nat /\ \A i \in 1..n : chain[i] \in Clusters
  BY DEF TypeOK
<1>2. ClusterCount \in Nat
  BY FATAssumption
<1>3. \A i, j \in 1..n : chain[i] = chain[j] => i = j
  BY DEF ChainIsSimplePath
<1> HIDE DEF n
<1>4. f \in [1..n -> 0..(ClusterCount - 1)] /\ \A i, j \in 1..n : f[i] = f[j] => i = j
  BY <1>1, <1>3 DEF Clusters
<1> HIDE DEF f
<1>5. n <= ClusterCount
  BY <1>1, <1>2, <1>4, ManyToOne
<1>6. QED
  BY <1>5 DEF n

DiskWalk(p, n) == \A i \in 1..(n - 1) : ~EndsOnDisk(p[i]) /\ p[i + 1] = DiskEntry(p[i])

VInv == TypeOK /\ Chained /\ EntriesInRange /\ FromStart

(* The chain itself is a walk to its last cluster.                         *)
LEMMA ChainIsWalk ==
    ASSUME VInv, EveryEntryFits, fatType # "FAT12", pc = "following", Len(chain) > 0
    PROVE  Reaches(call.start, chain[Len(chain)])
<1> DEFINE n == Len(chain)
           p == [i \in 1..n |-> chain[i]]
<1>1. TypeOK /\ ChainIsSimplePath /\ EntriesInRange
  BY DEF VInv, Chained
<1>2. n \in Nat /\ n <= ClusterCount /\ n > 0 /\ \A i \in 1..n : chain[i] \in Clusters
  BY <1>1, ChainIsShort DEF TypeOK
<1>3. chain # <<>>
  BY <1>2
<1>4. chain[1] = call.start
  BY <1>3 DEF VInv, FromStart
<1> HIDE DEF n
<1>5. n \in 1..ClusterCount /\ 1 \in 1..n /\ n \in 1..n
  BY <1>2, FATAssumption
<1>6. p \in [1..n -> Clusters] /\ p[1] = call.start /\ p[n] = chain[n]
  BY <1>2, <1>4, <1>5
<1>7. ASSUME NEW i \in 1..(n - 1)
      PROVE  ~EndsOnDisk(p[i]) /\ p[i + 1] = DiskEntry(p[i])
  <2>1. i \in 1..n /\ i + 1 \in 1..n
    BY <1>2
  <2>2. p[i] = chain[i] /\ p[i + 1] = chain[i + 1] /\ chain[i] \in Clusters
    BY <1>2, <2>1
  <2>3. ~Stops(chain[i]) /\ chain[i + 1] = GetEntry(chain[i])
    BY <1>1, <1>7 DEF ChainIsSimplePath, n
  <2>4. QED
    BY <1>1, <2>2, <2>3, DecodedIsOnDisk
<1> HIDE DEF p
<1>8. QED
  BY <1>5, <1>6, <1>7 DEF Reaches, n

(* No walk leaves a chain whose last cluster does not end it: the cluster  *)
(* that comes next is in the chain or outside the table.                   *)
LEMMA WalkStaysInChain ==
    ASSUME VInv, EveryEntryFits, fatType # "FAT12", pc = "following",
           Len(chain) > 0, ChainDone, ~Stops(chain[Len(chain)]),
           NEW n \in Nat \ {0}, NEW p \in [1..n -> Clusters],
           p[1] = call.start, DiskWalk(p, n), NEW m \in 1..n
    PROVE  Visited(p[m])
<1> DEFINE l == Len(chain)
           Strays == {i \in 1..n : ~Visited(p[i])}
<1>1. TypeOK /\ ChainIsSimplePath /\ EntriesInRange
  BY DEF VInv, Chained
<1>2. l \in Nat /\ l <= ClusterCount /\ l > 0 /\ \A i \in 1..l : chain[i] \in Clusters
  BY <1>1, ChainIsShort DEF TypeOK
<1>3. ~IsValidClusterNumber(current) \/ Visited(current)
  <2>1. ~(Len(chain) > ClusterCount * 2)
    BY <1>2, FATAssumption
  <2>2. QED
    BY <2>1 DEF ChainDone
<1>4. current = GetEntry(chain[l])
  BY DEF VInv, Chained, NextFollows
<1>5. chain[1] = call.start
  <2>1. chain # <<>>
    BY <1>2
  <2>2. QED
    BY <2>1 DEF VInv, FromStart
<1>6. Visited(p[1])
  BY <1>2, <1>5 DEF Visited
<1> SUFFICES ASSUME Strays # {} PROVE FALSE
  BY Zenon
<1>7. Strays \in SUBSET Nat
  OBVIOUS
<1>8. PICK k \in Strays : \A i \in Strays : k <= i
  <2> HIDE DEF Strays
  <2> QED
    BY <1>7, LeastElement
<1>9. k \in 1..n /\ ~Visited(p[k])
  OBVIOUS
<1>10. k # 1
  BY <1>6, <1>9
<1>11. k - 1 \in 1..n /\ k - 1 \in 1..(n - 1) /\ (k - 1) + 1 = k
  BY <1>9, <1>10
<1>12. Visited(p[k - 1])
  <2>1. k - 1 \notin Strays
    <3> HIDE DEF Strays
    <3> QED
      BY <1>8, <1>9
  <2>2. QED
    BY <1>11, <2>1, Zenon
<1> HIDE DEF l, Strays
<1>13. PICK j \in 1..l : chain[j] = p[k - 1]
  BY <1>12 DEF Visited, l
<1>14. p[k] = GetEntry(chain[j])
  <2>1. p[k] = DiskEntry(p[k - 1])
    BY <1>11 DEF DiskWalk
  <2>2. QED
    BY <1>1, <1>2, <1>13, <2>1, DecodedIsOnDisk
<1>15. CASE j = l
  <2>1. IsValidClusterNumber(p[k])
    BY <1>9, FATAssumption DEF Clusters, IsValidClusterNumber
  <2>2. p[k] = current
    BY <1>4, <1>14, <1>15
  <2>3. QED
    BY <1>3, <1>9, <2>1, <2>2
<1>16. CASE j # l
  <2>1. j \in 1..(l - 1) /\ j + 1 \in 1..l
    BY <1>2, <1>16
  <2>2. chain[j + 1] = GetEntry(chain[j])
    BY <1>1, <2>1 DEF ChainIsSimplePath, l
  <2>3. QED
    BY <1>9, <1>14, <2>1, <2>2 DEF Visited, l
<1>17. QED
  BY <1>15, <1>16

LEMMA FinishedVerdict ==
    ASSUME VInv, FinishChainVerdict
    PROVE  (EveryEntryFits /\ fatType # "FAT12")
           => /\ result'.kind = "verdict"
              /\ result'.ok <=> \E c \in Clusters : EndsOnDisk(c) /\ Reaches(call.start, c)
<1> SUFFICES ASSUME EveryEntryFits, fatType # "FAT12"
             PROVE  /\ result'.kind = "verdict"
                    /\ result'.ok <=> \E c \in Clusters : EndsOnDisk(c) /\ Reaches(call.start, c)
  OBVIOUS
<1> DEFINE l == Len(chain)
           e == chain[l]
<1>1. TypeOK /\ ChainIsSimplePath /\ EntriesInRange /\ pc = "following" /\ ChainDone
  BY DEF VInv, Chained, FinishChainVerdict
<1>2. l \in Nat /\ l <= ClusterCount /\ \A i \in 1..l : chain[i] \in Clusters
  BY <1>1, ChainIsShort DEF TypeOK
<1>3. l > 0
  <2> SUFFICES ASSUME chain = <<>> PROVE FALSE
    BY <1>1 DEF TypeOK
  <2>1. IsValidClusterNumber(current)
    BY <1>1 DEF VInv, FromStart
  <2>2. ~Visited(current) /\ ~(Len(chain) > ClusterCount * 2) /\ ~(Len(chain) > 0)
    BY FATAssumption DEF Visited
  <2>3. QED
    BY <1>1, <2>1, <2>2 DEF ChainDone
<1>4. e \in Clusters
  BY <1>2, <1>3
<1> HIDE DEF l, e
<1>5. IsValidEntry(e)
  <2>1. GetEntry(e) < Top(fatType)
    <3>1. GetEntry(e) \in 0 .. Top(fatType) - 1 /\ Top(fatType) \in Nat
      BY <1>1, <1>4, DecodedIsOnDisk, SMT DEF Top
    <3>2. QED
      BY <3>1
  <2>2. IsValidClusterNumber(e)
    BY <1>4, FATAssumption DEF Clusters, IsValidClusterNumber
  <2>3. QED
    BY <2>1, <2>2 DEF IsValidEntry
<1>6. Stops(e) <=> EndsOnDisk(e)
  BY <1>1, <1>4, DecodedIsOnDisk
<1>7. result'.kind = "verdict" /\ (result'.ok <=> Stops(e))
  <2>1. EndsWell(chain) <=> Stops(e)
    BY <1>3, <1>5 DEF EndsWell, e, l
  <2>2. ValidateClusterChain(chain) <=> Stops(e)
    <3>1. GetClusterState(e) \in {"FREE", "BAD", "RESERVED", "END_OF_CHAIN", "ALLOCATED"}
      BY Zenon DEF GetClusterState, StateOf
    <3>2. Stops(e) <=> GetClusterState(e) \in {"END_OF_CHAIN", "BAD", "FREE", "RESERVED"}
      BY <3>1 DEF Stops
    <3>3. QED
      BY <1>3, <1>5, <3>2 DEF ValidateClusterChain, e, l
  <2>3. result' = Verdict(EndsWell(chain)) \/ result' = Verdict(ValidateClusterChain(chain))
    BY Zenon DEF FinishChainVerdict, Return
  <2>4. ASSUME NEW b \in BOOLEAN, result' = Verdict(b)
        PROVE  result'.kind = "verdict" /\ (result'.ok <=> b)
    BY <2>4 DEF Verdict
  <2>5. CASE result' = Verdict(EndsWell(chain))
    <3>1. EndsWell(chain) \in BOOLEAN
      BY Zenon DEF EndsWell
    <3>2. QED
      BY <2>1, <2>4, <2>5, <3>1, Zenon
  <2>6. CASE result' = Verdict(ValidateClusterChain(chain))
    <3>1. ValidateClusterChain(chain) \in BOOLEAN
      BY Zenon DEF ValidateClusterChain
    <3>2. QED
      BY <2>2, <2>4, <2>6, <3>1, Zenon
  <2>7. QED
    BY <2>3, <2>5, <2>6, Zenon
<1>8. ASSUME Stops(e)
      PROVE  \E c \in Clusters : EndsOnDisk(c) /\ Reaches(call.start, c)
  BY <1>1, <1>3, <1>4, <1>6, <1>8, ChainIsWalk DEF e, l
<1>9. ASSUME ~Stops(e), NEW c \in Clusters, EndsOnDisk(c), Reaches(call.start, c)
      PROVE  FALSE
  <2>1. PICK n \in 1..ClusterCount : \E p \in [1..n -> Clusters] :
            p[1] = call.start /\ p[n] = c /\ DiskWalk(p, n)
    BY <1>9 DEF Reaches, DiskWalk
  <2>2. PICK p \in [1..n -> Clusters] : p[1] = call.start /\ p[n] = c /\ DiskWalk(p, n)
    BY <2>1
  <2>3. n \in Nat \ {0} /\ n \in 1..n
    OBVIOUS
  <2>4. Visited(c)
    <3>1. ~Stops(chain[Len(chain)]) /\ Len(chain) > 0
      BY <1>3, <1>9 DEF e, l
    <3>2. Visited(p[n])
      BY <1>1, <2>2, <2>3, <3>1, WalkStaysInChain
    <3>3. QED
      BY <2>2, <3>2
  <2>5. PICK j \in 1..l : chain[j] = c
    BY <2>4 DEF Visited, l
  <2>6. Stops(c)
    BY <1>1, <1>9, DecodedIsOnDisk
  <2>7. j # l
    BY <1>9, <2>5, <2>6 DEF e
  <2>8. j \in 1..(l - 1)
    BY <1>2, <2>7
  <2>9. ~Stops(chain[j])
    BY <1>1, <2>8 DEF ChainIsSimplePath, l
  <2>10. QED
    BY <2>5, <2>6, <2>9
<1>10. QED
  BY <1>7, <1>8, <1>9, Zenon

LEMMA TableKept ==
    ASSUME [Next]_vars
    PROVE  UNCHANGED <<fatType, raw>>
<1>1. CASE TableCalls
  BY <1>1, Zenon DEF TableCalls, BeginFollow, FollowFails, ThrowOnLoad, ValidateTable,
     ValidatorValidate
<1>2. CASE Continue
  <2>1. CASE FollowClusterChain
    BY <2>1 DEF FollowClusterChain
  <2>2. CASE FinishChainVerdict
    BY <2>2, Zenon DEF FinishChainVerdict
  <2>3. CASE StartReading
    BY <2>3, Zenon DEF StartReading
  <2>4. CASE ReadCluster
    BY <2>4 DEF ReadCluster, tableVars
  <2>5. CASE FinishReading
    BY <2>5, Zenon DEF FinishReading
  <2>6. QED
    BY <1>2, <2>1, <2>2, <2>3, <2>4, <2>5, Zenon DEF Continue, TableTurns
<1>3. ASSUME NEW s \in Starts, ReadChainThrows(s) PROVE UNCHANGED <<fatType, raw>>
  BY <1>3, Zenon DEF ReadChainThrows, FollowFails, ThrowOnLoad
<1>4. ASSUME NEW s \in Starts, NEW off \in Offsets, NEW len \in Lengths,
             BeginReadChain(s, off, len)
      PROVE  UNCHANGED <<fatType, raw>>
  BY <1>4, Zenon DEF BeginReadChain, BeginFollow
<1>5. CASE ReadNothing
  BY <1>5, Zenon DEF ReadNothing
<1>6. CASE UNCHANGED vars
  BY <1>6 DEF vars, tableVars
<1>7. QED
  BY <1>1, <1>2, <1>3, <1>4, <1>5, <1>6, Zenon DEF Next

LEMMA DiskKept ==
    ASSUME UNCHANGED <<fatType, raw>>
    PROVE  /\ EveryEntryFits' = EveryEntryFits
           /\ EntriesInRange' = EntriesInRange
           /\ \A c : EndsOnDisk(c)' = EndsOnDisk(c)
           /\ \A s, c : Reaches(s, c)' = Reaches(s, c)
<1>1. fatType' = fatType /\ raw' = raw
  OBVIOUS
<1>2. \A c : DiskEntry(c)' = DiskEntry(c) /\ EndsOnDisk(c)' = EndsOnDisk(c)
  <2> TAKE c
  <2>1. DiskEntry(c)' = DiskEntry(c)
    BY <1>1, Zenon DEF DiskEntry
  <2>2. QED
    BY <1>1, <2>1, Zenon DEF EndsOnDisk
<1>3. \A s, c : Reaches(s, c)' = Reaches(s, c)
  BY <1>2, Zenon DEF Reaches
<1>4. QED
  <2>1. EveryEntryFits' = EveryEntryFits
    BY <1>1, Zenon DEF EveryEntryFits, EntrySize
  <2>2. EntriesInRange' = EntriesInRange
    BY <1>1, Zenon DEF EntriesInRange
  <2>3. QED
    BY <1>2, <1>3, <2>1, <2>2

(* A start that is no cluster reaches nothing, and is refused.             *)
LEMMA BeginVerdict ==
    ASSUME NEW op, NEW s \in Starts, BeginFollow(op, s)
    PROVE  FromStart' /\ VerdictIsReachability'
<1>1. call'.start = s /\ chain' = <<>> /\ current' = s
  BY DEF BeginFollow
<1>2. IsValidClusterNumber(s) => pc' = "following"
  BY Zenon DEF BeginFollow
<1>3. ~IsValidClusterNumber(s) => pc' = "idle" /\ result' = Verdict(FALSE)
  BY Zenon DEF BeginFollow, Return
<1>4. FromStart'
  <2>1. pc' = "following" => IsValidClusterNumber(s)
    BY <1>3
  <2>2. IsValidClusterNumber(call.start)' <=> IsValidClusterNumber(s)
    BY <1>1 DEF IsValidClusterNumber
  <2>3. QED
    BY <1>1, <2>1, <2>2 DEF FromStart
<1>5. VerdictIsReachability'
  <2>1. CASE IsValidClusterNumber(s)
    BY <1>2, <2>1, Zenon DEF VerdictIsReachability
  <2>2. CASE ~IsValidClusterNumber(s)
    <3>1. s \notin Clusters
      BY <2>2, FATAssumption DEF IsValidClusterNumber, Clusters
    <3>2. ~(result'.ok)
      BY <1>3, <2>2 DEF Verdict
    <3>3. ASSUME NEW c, Reaches(call.start, c)' PROVE FALSE
      <4>1. PICK n \in 1..ClusterCount : \E p \in [1..n -> Clusters] : p[1] = call'.start
        BY <3>3, Zenon DEF Reaches
      <4>2. PICK p \in [1..n -> Clusters] : p[1] = s
        BY <1>1, <4>1
      <4>3. 1 \in 1..n
        OBVIOUS
      <4>4. QED
        BY <3>1, <4>2, <4>3
    <3>4. QED
      BY <3>2, <3>3, Zenon DEF VerdictIsReachability
  <2>3. QED
    BY <2>1, <2>2
<1>6. QED
  BY <1>4, <1>5

LEMMA VerdictStep ==
    ASSUME VInv, EveryEntryFits => VerdictIsReachability, [Next]_vars
    PROVE  FromStart' /\ (EveryEntryFits' => VerdictIsReachability')
<1>1. /\ EveryEntryFits' = EveryEntryFits
      /\ \A c : EndsOnDisk(c)' = EndsOnDisk(c)
      /\ \A s, c : Reaches(s, c)' = Reaches(s, c)
      /\ fatType' = fatType
  BY TableKept, DiskKept
<1>2. (pc' # "following") => FromStart'
  BY DEF FromStart
<1>3. (pc' # "idle" \/ result'.kind # "verdict"
        \/ call'.op \notin {"isValidClusterChain", "validateClusterChain"})
      => VerdictIsReachability'
  BY Zenon DEF VerdictIsReachability
<1>4. ASSUME NEW op, NEW s, ThrowOnLoad(op, s), pc = "idle"
      PROVE  FromStart' /\ VerdictIsReachability'
  <2>1. pc' = "idle" /\ result'.kind # "verdict"
    BY <1>4 DEF ThrowOnLoad, Thrown
  <2>2. QED
    BY <1>2, <1>3, <2>1
<1>5. CASE UNCHANGED vars
  <2>1. UNCHANGED <<pc, call, chain, current, result>>
    BY <1>5 DEF vars, tableVars
  <2>2. FromStart'
    BY <2>1 DEF VInv, FromStart, IsValidClusterNumber
  <2>3. \A s : (call.start = s) => \A c : Reaches(call.start, c)' = Reaches(call.start, c)
    <3> SUFFICES ASSUME NEW s, call.start = s, NEW c
                 PROVE  Reaches(call.start, c)' = Reaches(call.start, c)
      OBVIOUS
    <3>1. Reaches(call.start, c)' = Reaches(s, c)'
      BY <2>1, Zenon DEF Reaches
    <3>2. QED
      BY <1>1, <3>1, Zenon
  <2>4. VerdictIsReachability' = VerdictIsReachability
    BY <1>1, <2>1, <2>3, Zenon DEF VerdictIsReachability
  <2>5. QED
    BY <1>1, <2>2, <2>4
<1>6. CASE TableCalls
  <2>1. ASSUME NEW op, NEW s \in Starts, FollowFails(op, s)
        PROVE  FromStart' /\ VerdictIsReachability'
    BY <1>4, <2>1 DEF FollowFails
  <2>2. CASE ValidateTable
    <3>1. pc' = "idle" /\ call'.op = "validate"
      BY <2>2, Zenon DEF ValidateTable
    <3>2. QED
      BY <1>2, <1>3, <3>1
  <2>3. CASE ValidatorValidate
    <3>1. CASE ThrowOnLoad("validator", 0)
      BY <1>4, <2>3, <3>1 DEF ValidatorValidate
    <3>2. CASE ~ThrowOnLoad("validator", 0)
      <4>1. pc' = "idle" /\ call' = [op |-> "validator", start |-> 0]
        BY <2>3, <3>2, Zenon DEF ValidatorValidate
      <4>2. call'.op = "validator"
        BY <4>1
      <4>3. QED
        BY <1>2, <1>3, <4>1, <4>2
    <3>3. QED
      BY <3>1, <3>2
  <2>4. QED
    BY <1>6, <2>1, <2>2, <2>3, BeginVerdict, Zenon DEF TableCalls
<1>7. ASSUME NEW s \in Starts, ReadChainThrows(s)
      PROVE  FromStart' /\ VerdictIsReachability'
  BY <1>4, <1>7 DEF ReadChainThrows, FollowFails
<1>8. ASSUME NEW s \in Starts, NEW off \in Offsets, NEW len \in Lengths,
             BeginReadChain(s, off, len)
      PROVE  FromStart' /\ VerdictIsReachability'
  BY <1>8, BeginVerdict DEF BeginReadChain
<1>9. CASE ReadNothing
  <2>1. pc' = "idle" /\ call'.op = "readNothing"
    BY <1>9 DEF ReadNothing
  <2>2. QED
    BY <1>2, <1>3, <2>1
<1>10. CASE FollowClusterChain
  <2>1. /\ pc = "following" /\ pc' = "following" /\ call' = call
        /\ chain' = Append(chain, current) /\ chain \in Seq(Clusters)
    BY <1>10 DEF FollowClusterChain, VInv, TypeOK
  <2>2. chain' # <<>> /\ chain'[1] = IF chain = <<>> THEN current ELSE chain[1]
    BY <2>1
  <2>3. FromStart'
    BY <2>1, <2>2 DEF VInv, FromStart, IsValidClusterNumber
  <2>4. QED
    BY <1>3, <2>1, <2>3
<1>11. CASE FinishChainVerdict
  <2>1. pc' = "idle" /\ call' = call
    BY <1>11, Zenon DEF FinishChainVerdict, Return
  <2>2. ASSUME EveryEntryFits PROVE VerdictIsReachability'
    <3>1. CASE fatType = "FAT12"
      BY <1>1, <3>1 DEF VerdictIsReachability
    <3>2. CASE fatType # "FAT12"
      <4>1. PICK s : s = call.start
        OBVIOUS
      <4>2. result'.ok <=> \E c \in Clusters : EndsOnDisk(c) /\ Reaches(s, c)
        BY <1>11, <2>2, <3>2, <4>1, FinishedVerdict
      <4>3. \A c : Reaches(call.start, c)' = Reaches(s, c)'
        BY <2>1, <4>1, Zenon DEF Reaches
      <4>4. QED
        BY <1>1, <4>2, <4>3, Zenon DEF VerdictIsReachability
    <3>3. QED
      BY <3>1, <3>2
  <2>3. QED
    BY <1>1, <1>2, <2>1, <2>2
<1>12. CASE StartReading
  <2>1. pc' # "following" /\ call'.op = "readChain"
    <3>1. pc' \in {"idle", "reading"}
      BY <1>12, Zenon DEF StartReading, Return
    <3>2. call'.op = "readChain"
      BY <1>12, Zenon DEF StartReading
    <3>3. QED
      BY <3>1, <3>2
  <2>2. QED
    BY <1>2, <1>3, <2>1
<1>13. CASE ReadCluster
  <2>1. pc' = "reading"
    BY <1>13 DEF ReadCluster, tableVars
  <2>2. QED
    BY <1>2, <1>3, <2>1
<1>14. CASE FinishReading
  <2>1. pc' = "idle" /\ result'.kind = "bytes"
    BY <1>14 DEF FinishReading, Return
  <2>2. QED
    BY <1>2, <1>3, <2>1
<1>15. QED
  BY <1>5, <1>6, <1>7, <1>8, <1>9, <1>10, <1>11, <1>12, <1>13, <1>14, Zenon
     DEF Next, Continue, TableTurns

LEMMA PointersSmall ==
    ASSUME NEW t \in Nat, t > 4000
    PROVE  \A v \in Pointers : v < t
<1> SUFFICES ASSUME NEW v \in Pointers PROVE v < t
  OBVIOUS
<1>1. v \in 0..4000
  BY FATAssumption
<1>2. QED
  BY <1>1

LEMMA EntriesInitially == Init => EntriesInRange
<1> SUFFICES ASSUME Init, fatType = "FAT16", NEW c \in Clusters
             PROVE  raw[c] < Top(fatType)
  BY DEF EntriesInRange
<1>1. PICK entries \in [Clusters \ {0, 1} -> RawEntries(fatType)] :
          raw = [d \in Clusters |-> IF d < 2 THEN Top(fatType) - (IF d = 0 THEN 8 ELSE 1)
                                            ELSE entries[d]]
  BY Zenon DEF Init, TableInit
<1>2. Top(fatType) \in Nat /\ Top(fatType) > 4000
  BY SMT DEF Top
<1>3. CASE c < 2
  BY <1>1, <1>2, <1>3
<1>4. CASE ~(c < 2)
  <2>1. raw[c] = entries[c] /\ c \in Clusters \ {0, 1}
    BY <1>1, <1>4
  <2>2. raw[c] \in RawEntries(fatType)
    BY <2>1
  <2>3. raw[c] \in Pointers \cup {Top(fatType) - m : m \in Marks}
    BY <2>2 DEF RawEntries
  <2>4. CASE raw[c] \in Pointers
    <3>1. \A v \in Pointers : v < Top(fatType)
      BY <1>2, PointersSmall
    <3>2. QED
      BY <2>4, <3>1, Zenon
  <2>5. ASSUME NEW m \in Marks, raw[c] = Top(fatType) - m
        PROVE  raw[c] < Top(fatType)
    BY <1>2, <2>5, FATAssumption, SMT
  <2>6. QED
    BY <2>3, <2>4, <2>5
<1>5. QED
  BY <1>3, <1>4

(* Where every entry fits, both chain verdicts are true exactly of the     *)
(* starts from which the disk leads to a cluster that ends a chain: though *)
(* the loop stops on a repetition, on an invalid number and on a length,   *)
(* and the verdict looks at the last cluster only (FATTable.cpp:253-283).  *)
THEOREM VerdictsAreReachability == Spec => [](EveryEntryFits => VerdictIsReachability)
<1>1. Init => FromStart /\ VerdictIsReachability
  BY DEF Init, TableInit, FromStart, VerdictIsReachability
<1>2. Init => Chained
  BY EmptyIsChained DEF Init, TableInit
<1>3. TypeOK /\ Chained /\ [Next]_vars => Chained'
  BY ChainedStep
<1>4. EntriesInRange /\ [Next]_vars => EntriesInRange'
  BY TableKept, DiskKept
<1>5. TypeOK /\ Chained /\ EntriesInRange /\ FromStart
        /\ (EveryEntryFits => VerdictIsReachability) /\ [Next]_vars
      => (FromStart /\ (EveryEntryFits => VerdictIsReachability))'
  BY VerdictStep DEF VInv
<1>6. QED
  BY <1>1, <1>2, <1>3, <1>4, <1>5, EntriesInitially, TypeCorrect, PTL DEF Spec

-----------------------------------------------------------------------------
(* Reading.                                                                *)

AtBoundary ==
    /\ range.offset % BytesPerCluster = 0
    /\ range.offset + range.length < UInt32
    /\ range.offset < ChainSize

(* The clusters of the window that lie before n and could be read.         *)
Fetched(n) == {i \in Window : i < n /\ chain[i] >= 2 /\ chain[i] \notin failed}

(* The buffer holds one sector for each of them, in chain order.           *)
Filled ==
    /\ Len(data) = Cardinality(Fetched(next))
    /\ \A i \in Fetched(next) :
           data[Cardinality({j \in Fetched(next) : j <= i})]
               = DataStart + (chain[i] - 2) * sectorsPerCluster

(* A cluster that failed is one the loop has passed.                       *)
Reading ==
    /\ pc = "following" => next = 1 /\ data = <<>> /\ failed = {}
    /\ pc = "reading" => /\ \A c \in failed : \E i \in 1..(next - 1) : c = chain[i]
                         /\ AtBoundary => Filled

RInv == TypeOK /\ ChainIsSimplePath /\ Reading /\ ReadFollowsChain

(* The clusters of the chain, and where the n-th ends in the file.         *)
LEMMA ClusterSizes ==
    ASSUME TypeOK
    PROVE  /\ BytesPerCluster \in Nat \ {0} /\ BytesPerSector \in Nat
           /\ BytesPerSector <= BytesPerCluster
           /\ Len(chain) \in Nat /\ range.offset \in Nat /\ range.length \in Nat
           /\ next \in Nat \ {0} /\ next <= Len(chain) + 1
<1>1. BytesPerSector \in Nat \ {0} /\ sectorsPerCluster \in Nat \ {0}
  BY FATAssumption, ReaderAssumption DEF TypeOK
<1>2. 1 * BytesPerSector <= sectorsPerCluster * BytesPerSector
      /\ sectorsPerCluster * BytesPerSector \in Nat
  <2>1. 1 \in Nat /\ 1 <= sectorsPerCluster /\ sectorsPerCluster \in Nat /\ BytesPerSector \in Nat
    BY <1>1
  <2>2. QED
    BY <2>1, Products
<1>3. BytesPerCluster = sectorsPerCluster * BytesPerSector
  BY <1>1 DEF BytesPerCluster
<1>4. BytesPerCluster \in Nat \ {0} /\ BytesPerSector <= BytesPerCluster
  BY <1>1, <1>2, <1>3
<1>5. chain \in Seq(Clusters) /\ next \in 1..(Len(chain) + 1) /\ range \in [offset : Nat, length : Nat]
  BY DEF TypeOK
<1>6. Len(chain) \in Nat
  BY <1>5
<1>7. QED
  BY <1>1, <1>4, <1>5, <1>6

LEMMA WindowFinite ==
    ASSUME TypeOK, NEW n
    PROVE  /\ IsFiniteSet(Window) /\ Window \subseteq 1..Len(chain)
           /\ IsFiniteSet(Fetched(n)) /\ Fetched(n) \subseteq Window
           /\ Cardinality(Fetched(n)) \in Nat
<1>1. Len(chain) \in Nat
  BY ClusterSizes
<1>2. IsFiniteSet(1..Len(chain))
  BY <1>1, FS_Interval
<1>3. Window \subseteq 1..Len(chain) /\ Fetched(n) \subseteq Window
  BY Zenon DEF Window, Fetched
<1>4. IsFiniteSet(Window) /\ IsFiniteSet(Fetched(n))
  BY <1>2, <1>3, FS_Subset
<1>5. QED
  BY <1>3, <1>4, FS_CardinalityType

(* The state parts the window and the buffer depend on.                    *)
LEMMA FilledKept ==
    ASSUME UNCHANGED <<chain, sectorsPerCluster, range, data, failed>>
    PROVE  /\ BytesPerCluster' = BytesPerCluster /\ ChainSize' = ChainSize
           /\ Window' = Window /\ AtBoundary' = AtBoundary
           /\ \A n : Fetched(n)' = Fetched(n)
<1>1. BytesPerCluster' = BytesPerCluster
  BY DEF BytesPerCluster
<1>2. ChainSize' = ChainSize
  BY <1>1 DEF ChainSize
<1>3. Window' = Window
  BY <1>1, Zenon DEF Window
<1>4. AtBoundary' = AtBoundary
  BY <1>1, <1>2, Zenon DEF AtBoundary
<1>5. ASSUME NEW n PROVE Fetched(n)' = Fetched(n)
  BY <1>3, Zenon DEF Fetched
<1>6. QED
  BY <1>1, <1>2, <1>3, <1>4, <1>5

(* Clusters before the range are passed over.                              *)
LEMMA PassedOver ==
    ASSUME TypeOK, ClusterEnd <= range.offset
    PROVE  Fetched(next + 1) = Fetched(next)
<1>1. next \notin Window
  <2>1. next * BytesPerCluster <= range.offset
    BY DEF ClusterEnd
  <2>2. next * BytesPerCluster \in Nat /\ range.offset \in Nat
    BY ClusterSizes, Products
  <2>3. ~(next * BytesPerCluster > range.offset)
    BY <2>1, <2>2
  <2>4. QED
    BY <2>3 DEF Window
<1>2. \A i \in Window : i < next + 1 <=> i < next
  <2>1. Window \subseteq Nat /\ next \in Nat
    BY WindowFinite, ClusterSizes
  <2>2. QED
    BY <1>1, <2>1
<1>3. QED
  BY <1>2 DEF Fetched

(* A cluster the loop reads is in the window, and is read from its first   *)
(* sector.                                                                 *)
LEMMA ReadInWindow ==
    ASSUME TypeOK, AtBoundary, ~ReadingDone, ClusterEnd > range.offset
    PROVE  next \in Window /\ ~(range.offset > ClusterStart)
<1> DEFINE B == BytesPerCluster
           q == range.offset \div B
<1>1. /\ B \in Nat \ {0} /\ B \in Nat /\ Len(chain) \in Nat
      /\ range.offset \in Nat /\ range.length \in Nat /\ next \in Nat \ {0}
      /\ next - 1 \in Nat
  BY ClusterSizes
<1>2. q \in Nat /\ range.offset = q * B
  <2>1. range.offset = q * B + (range.offset % B) /\ q \in Nat
    BY <1>1, Division
  <2>2. range.offset % B = 0
    BY DEF AtBoundary
  <2>3. q * B \in Nat
    BY <1>1, <2>1, Products
  <2> HIDE DEF q, B
  <2>4. QED
    BY <2>1, <2>2, <2>3
<1> HIDE DEF q
<1>3. next <= Len(chain)
  BY <1>1 DEF ReadingDone
<1>4. (next - 1) * B < range.offset + range.length
  <2>1. (next - 1) * B < RangeEnd
    <3>1. ~(ClusterStart >= RangeEnd)
      BY DEF ReadingDone
    <3>2. RangeEnd \in Nat /\ ClusterStart \in Nat
      <4>1. range.offset + range.length \in Nat /\ UInt32 \in Nat \ {0}
        BY <1>1, ReaderAssumption
      <4>2. QED
        BY <4>1, SizesTyped DEF RangeEnd
    <3>3. ClusterStart = (next - 1) * B
      BY DEF ClusterStart
    <3>4. QED
      BY <3>1, <3>2, <3>3
  <2>2. RangeEnd = range.offset + range.length
    <3>1. range.offset + range.length \in Nat /\ UInt32 \in Nat \ {0}
          /\ range.offset + range.length < UInt32
      BY <1>1, ReaderAssumption DEF AtBoundary
    <3>2. QED
      BY <3>1 DEF RangeEnd
  <2>3. QED
    BY <2>1, <2>2
<1>5. next * B > range.offset
  BY DEF ClusterEnd
<1>6. next \in Window
  BY <1>1, <1>3, <1>4, <1>5 DEF Window
<1>7. ~(range.offset > ClusterStart)
  <2>1. ~(next <= q)
    <3> SUFFICES ASSUME next <= q PROVE FALSE
      OBVIOUS
    <3>1. next * B <= q * B /\ next * B \in Nat /\ q * B \in Nat
      BY <1>1, <1>2, Products
    <3>2. QED
      BY <1>2, <1>5, <3>1
  <2>2. q <= next - 1
    BY <1>1, <1>2, <2>1
  <2>3. q * B <= (next - 1) * B /\ q * B \in Nat /\ (next - 1) * B \in Nat
    BY <1>1, <1>2, <2>2, Products
  <2>4. QED
    BY <1>2, <2>3 DEF ClusterStart
<1>8. QED
  BY <1>6, <1>7

LEMMA ReadClusterReading ==
    ASSUME RInv, ReadCluster
    PROVE  Reading'
<1> SUFFICES ASSUME NEW n, n = next, NEW k, k = n + 1
             PROVE  Reading'
  OBVIOUS
<1> DEFINE F == Fetched(n)
           B == BytesPerCluster
<1>1. /\ TypeOK /\ pc = "reading" /\ ~ReadingDone /\ next' = k
      /\ UNCHANGED <<tableVars, sectorsPerCluster, range>>
  BY DEF RInv, ReadCluster
<1>2. /\ n \in Nat \ {0} /\ k \in Nat /\ k - 1 = n /\ n <= Len(chain) /\ Len(chain) \in Nat /\ chain \in Seq(Clusters)
      /\ data \in Seq(Nat) /\ failed \subseteq Clusters
  BY <1>1, ClusterSizes DEF ReadingDone, TypeOK
<1>3. \A c \in failed : \E i \in 1..(n - 1) : c = chain[i]
  BY <1>1 DEF RInv, Reading
<1>4. UNCHANGED <<chain, pc, sectorsPerCluster, range>> /\ pc' = "reading"
  BY <1>1 DEF tableVars
<1>5. B' = B /\ ChainSize' = ChainSize /\ Window' = Window /\ AtBoundary' = AtBoundary
  <2>1. B' = B
    BY <1>4 DEF BytesPerCluster
  <2>2. ChainSize' = ChainSize
    BY <1>4, <2>1 DEF ChainSize
  <2>3. Window' = Window
    BY <1>4, <2>1, Zenon DEF Window
  <2>4. QED
    BY <1>4, <2>1, <2>2, <2>3, Zenon DEF AtBoundary
<1>6. CASE UNCHANGED <<data, failed>> /\ ClusterEnd <= range.offset
  <2>1. \A c \in failed' : \E i \in 1..n : c = chain'[i]
    <3>1. \A i \in 1..(n - 1) : i \in 1..n
      BY <1>2
    <3>2. QED
      BY <1>3, <1>4, <1>6, <3>1, Zenon
  <2>2. \A m : Fetched(m)' = Fetched(m)
    BY <1>4, <1>6, FilledKept
  <2>3. Fetched(k) = F
    BY <1>1, <1>6, PassedOver
  <2>4. AtBoundary => Filled
    BY <1>1 DEF RInv, Reading
  <2>5. AtBoundary => Filled'
    BY <1>1, <1>4, <1>6, <2>2, <2>3, <2>4, Zenon DEF Filled
  <2>6. QED
    <3>1. next' - 1 = n
      BY <1>1, <1>2
    <3>2. QED
      BY <1>4, <1>5, <2>1, <2>5, <3>1 DEF Reading
<1>7. CASE ClusterEnd > range.offset /\ ReadClusterSectors
  <2> DEFINE c == chain[n]
             inside == IF range.offset > ClusterStart THEN range.offset - ClusterStart ELSE 0
             sector == ClusterToSector(c) + inside
  <2>1. c \in Clusters /\ c \in Nat
    <3>1. c \in Clusters
      BY <1>2
    <3>2. QED
      BY <3>1, FATAssumption DEF Clusters
  <2>2. \/ c >= 2 /\ data' = Append(data, sector) /\ failed' = failed
        \/ failed' = failed \cup {c} /\ data' = data
    BY <1>7 DEF ReadClusterSectors
  <2>3. \A x \in failed' : \E i \in 1..n : x = chain'[i]
    <3>1. \A i \in 1..(n - 1) : i \in 1..n
      BY <1>2
    <3>2. n \in 1..n
      BY <1>2
    <3>3. QED
      BY <1>3, <1>4, <2>2, <3>1, <3>2, Zenon
  (* No cluster before this one is this one. *)
  <2>4. \A i \in 1..(n - 1) : chain[i] # c
    <3>1. \A i \in 1..(n - 1) : i \in 1..Len(chain) /\ i # n
      BY <1>2
    <3>2. n \in 1..Len(chain)
      BY <1>2
    <3>3. QED
      BY <3>1, <3>2 DEF RInv, ChainIsSimplePath
  <2>5. c \notin failed
    BY <1>3, <2>4
  <2>6. ASSUME AtBoundary PROVE Filled'
    <3>1. n \in Window /\ inside = 0
      BY <1>1, <1>7, <2>6, ReadInWindow
    <3>2. Filled
      BY <1>1, <2>6 DEF RInv, Reading
    <3>3. /\ IsFiniteSet(F) /\ F \subseteq Window /\ Window \subseteq 1..Len(chain)
          /\ Cardinality(F) \in Nat
      BY <1>1, WindowFinite
    <3>4. \A i \in Window : i \in Nat /\ (i < k <=> i < n \/ i = n)
      BY <1>2, <3>3
    <3>5. F = {i \in Window : i < n /\ chain[i] >= 2 /\ chain[i] \notin failed}
      BY Zenon DEF Fetched
    <3>6. Fetched(k)' = {i \in Window : i < k /\ chain[i] >= 2 /\ chain[i] \notin failed'}
      BY <1>4, <1>5, Zenon DEF Fetched
    <3> HIDE DEF F
    <3>7. n \notin F
      BY <1>2, <3>5
    <3>8. CASE failed' = failed \cup {c} /\ data' = data
      <4>1. \A i \in Window : i < n => chain[i] # c
        <5>1. \A i \in Window : i < n => i \in 1..(n - 1)
          BY <1>2, <3>3
        <5>2. QED
          BY <2>4, <5>1
      <4>2. Fetched(k)' = F
        BY <3>4, <3>5, <3>6, <3>8, <4>1
      <4>3. /\ Len(data') = Cardinality(F)
            /\ \A i \in F : data'[Cardinality({j \in F : j <= i})]
                                = DataStart + (chain[i] - 2) * sectorsPerCluster
        BY <3>2, <3>8, Zenon DEF Filled, F
      <4>4. QED
        BY <1>1, <1>4, <4>2, <4>3, Zenon DEF Filled
    <3>9. CASE c >= 2 /\ data' = Append(data, sector) /\ failed' = failed
      <4> DEFINE G == F \cup {n}
      <4>1. Fetched(k)' = G
        BY <2>5, <3>1, <3>4, <3>5, <3>6, <3>9
      <4>2. Cardinality(G) = Cardinality(F) + 1
        BY <3>3, <3>7, FS_AddElement
      <4>3. Len(data) = Cardinality(F)
            /\ \A i \in F : data[Cardinality({j \in F : j <= i})]
                                = DataStart + (chain[i] - 2) * sectorsPerCluster
        BY <3>2, Zenon DEF Filled, F
      <4>4. sector = DataStart + (c - 2) * sectorsPerCluster
        <5>1. ClusterToSector(c) = DataStart + (c - 2) * sectorsPerCluster
          BY <2>1, <3>9 DEF ClusterToSector
        <5>2. ClusterToSector(c) \in Nat
          BY <1>1, <2>1, SectorTyped
        <5> HIDE DEF inside
        <5>3. QED
          BY <3>1, <5>1, <5>2
      <4>5. sector \in Nat
        <5>1. ClusterToSector(c) \in Nat
          BY <1>1, <2>1, SectorTyped
        <5> HIDE DEF inside
        <5>2. QED
          BY <3>1, <5>1
      <4> HIDE DEF sector
      <4>6. /\ Len(data') = Len(data) + 1 /\ data'[Len(data) + 1] = sector
            /\ \A i \in 1..Len(data) : data'[i] = data[i]
        BY <1>2, <3>9, <4>5
      <4>7. ASSUME NEW i \in G
            PROVE  data'[Cardinality({j \in G : j <= i})]
                       = DataStart + (chain[i] - 2) * sectorsPerCluster
        <5>1. CASE i = n
          <6>1. {j \in G : j <= i} = G
            <7>1. \A j \in F : j \in Nat /\ j < n
              BY <3>4, <3>5
            <7>2. \A j \in G : j <= i
              BY <1>2, <5>1, <7>1
            <7>3. QED
              BY <7>2
          <6>2. QED
            BY <4>2, <4>3, <4>4, <4>6, <5>1, <6>1
        <5>2. CASE i \in F
          <6> DEFINE K == {j \in F : j <= i}
          <6>1. {j \in G : j <= i} = K
            <7>1. i \in Nat /\ i < n
              BY <3>4, <3>5, <5>2
            <7>2. ~(n <= i)
              BY <1>2, <7>1
            <7>3. QED
              BY <7>2
          <6>2. K \subseteq F /\ i \in K
            BY <3>4, <3>3, <5>2
          <6>3. IsFiniteSet(K) /\ Cardinality(K) \in Nat /\ Cardinality(K) <= Cardinality(F)
            BY <3>3, <6>2, FS_Subset, FS_CardinalityType
          <6>4. Cardinality(K) # 0
            BY <6>2, <6>3, FS_EmptySet
          <6> HIDE DEF K
          <6>5. Cardinality(K) \in 1..Len(data)
            BY <3>3, <4>3, <6>3, <6>4
          <6>6. data[Cardinality(K)] = DataStart + (chain[i] - 2) * sectorsPerCluster
            BY <4>3, <5>2 DEF K
          <6>7. QED
            BY <4>6, <6>1, <6>5, <6>6
        <5>3. QED
          BY <5>1, <5>2
      <4>8. Len(data') = Cardinality(G)
        BY <4>2, <4>3, <4>6
      <4>9. QED
        BY <1>1, <1>4, <4>1, <4>7, <4>8, Zenon DEF Filled
    <3>10. QED
      BY <2>2, <3>8, <3>9
  <2>7. next' - 1 = n
    BY <1>1, <1>2
  <2>8. QED
    BY <1>4, <1>5, <2>3, <2>6, <2>7 DEF Reading
<1>8. QED
  <2>1. ClusterEnd \in Nat /\ range.offset \in Nat
    BY <1>1, ClusterSizes, Products DEF ClusterEnd
  <2>2. IF ClusterEnd <= range.offset THEN UNCHANGED <<data, failed>> ELSE ReadClusterSectors
    BY DEF ReadCluster
  <2>3. QED
    BY <1>6, <1>7, <2>1, <2>2

(* The loop stops when the window is behind it: in particular it does not  *)
(* stop early for having enough bytes, as the clusters read so far would   *)
(* have to hold more than lies between the first of them and this one.     *)
LEMMA NothingLeft ==
    ASSUME TypeOK, AtBoundary, ReadingDone, Len(data) = Cardinality(Fetched(next)),
           NEW i \in Window
    PROVE  i < next
<1> DEFINE B == BytesPerCluster
           q == range.offset \div B
           F == Fetched(next)
           k == Cardinality(F)
<1>1. /\ B \in Nat \ {0} /\ B \in Nat /\ BytesPerSector \in Nat /\ BytesPerSector <= B
      /\ Len(chain) \in Nat /\ range.offset \in Nat /\ range.length \in Nat
      /\ next \in Nat \ {0} /\ next - 1 \in Nat
  BY ClusterSizes
<1>2. i \in 1..Len(chain) /\ i * B > range.offset
      /\ (i - 1) * B < range.offset + range.length
  BY DEF Window
<1>3. i \in Nat /\ i - 1 \in Nat /\ i * B \in Nat /\ (i - 1) * B \in Nat
      /\ (next - 1) * B \in Nat
  BY <1>1, <1>2, Products
<1>4. q \in Nat /\ q * B \in Nat /\ range.offset = q * B
  <2>1. range.offset = q * B + (range.offset % B) /\ q \in Nat
    BY <1>1, Division
  <2>2. range.offset % B = 0
    BY DEF AtBoundary
  <2>3. q * B \in Nat
    BY <1>1, <2>1, Products
  <2> HIDE DEF q, B
  <2>4. QED
    BY <2>1, <2>2, <2>3
<1> HIDE DEF q, B
<1> SUFFICES ASSUME next <= i PROVE FALSE
  BY <1>1, <1>3
<1>5. CASE next > Len(chain)
  BY <1>1, <1>2, <1>5
<1>6. CASE ClusterEnd > range.offset /\ ClusterStart >= RangeEnd
  <2>1. RangeEnd = range.offset + range.length
    <3>1. range.offset + range.length \in Nat /\ UInt32 \in Nat \ {0}
          /\ range.offset + range.length < UInt32
      BY <1>1, ReaderAssumption DEF AtBoundary
    <3>2. QED
      BY <3>1 DEF RangeEnd
  <2>2. ClusterStart = (next - 1) * B
    BY DEF ClusterStart, B
  <2>3. (next - 1) * B <= (i - 1) * B
    <3>1. next - 1 <= i - 1
      BY <1>1, <1>3
    <3>2. QED
      BY <1>1, <1>3, <3>1, Products
  <2>4. QED
    BY <1>1, <1>2, <1>3, <1>6, <2>1, <2>2, <2>3
<1>7. CASE BytesRead >= range.length
  <2>1. q < i
    <3>1. CASE i <= q
      <4>1. i * B <= q * B
        BY <1>1, <1>3, <1>4, <3>1, Products
      <4>2. QED
        BY <1>2, <1>3, <1>4, <4>1
    <3>2. QED
      BY <1>3, <1>4, <3>1
  (* The clusters fetched lie between the start of the range and i. *)
  <2>2. F \subseteq q + 1 .. i - 1
    <3> SUFFICES ASSUME NEW j \in F PROVE j \in q + 1 .. i - 1
      OBVIOUS
    <3>1. j \in Window /\ j < next
      BY Zenon DEF Fetched
    <3>2. j \in Nat /\ j * B > range.offset
      BY <1>1, <3>1 DEF Window, B
    <3>3. CASE j <= q
      <4>1. j * B <= q * B /\ j * B \in Nat
        BY <1>1, <1>4, <3>2, <3>3, Products
      <4>2. QED
        BY <1>4, <3>2, <4>1
    <3>4. QED
      BY <1>1, <1>3, <1>4, <3>1, <3>2, <3>3
  <2>3. k \in Nat /\ k <= i - 1 - q
    <3>1. IsFiniteSet(q + 1 .. i - 1)
          /\ Cardinality(q + 1 .. i - 1) = (IF q + 1 > i - 1 THEN 0 ELSE i - 1 - (q + 1) + 1)
      <4>1. q + 1 \in Int /\ i - 1 \in Int
        BY <1>3, <1>4
      <4>2. QED
        BY <4>1, FS_Interval
    <3>2. k <= Cardinality(q + 1 .. i - 1) /\ k \in Nat
      BY <2>2, <3>1, FS_Subset, WindowFinite
    <3> HIDE DEF k
    <3>3. QED
      BY <1>3, <1>4, <2>1, <3>1, <3>2
  <2> HIDE DEF k
  <2>4. /\ k * BytesPerSector \in Nat /\ k * BytesPerSector <= k * B
        /\ k * B \in Nat /\ k * B <= (i - 1 - q) * B
        /\ (i - 1 - q) * B = (i - 1) * B - q * B
    <3>1. i - 1 - q \in Nat
      BY <1>3, <1>4, <2>1
    <3>2. k * BytesPerSector \in Nat /\ k * B \in Nat /\ k * B <= (i - 1 - q) * B
      BY <1>1, <2>3, <3>1, Products
    <3>3. k * BytesPerSector <= k * B
      <4>1. BytesPerSector * k <= B * k
        BY <1>1, <2>3, Products
      <4>2. BytesPerSector * k = k * BytesPerSector /\ B * k = k * B
        BY <1>1, <2>3
      <4>3. QED
        BY <4>1, <4>2
    <3>4. (i - 1 - q) * B = (i - 1) * B - q * B
      BY <1>1, <1>3, <1>4, Products
    <3>5. QED
      BY <3>2, <3>3, <3>4
  <2>5. BytesRead = k * BytesPerSector
    BY DEF BytesRead, k
  <2>6. QED
    BY <1>1, <1>2, <1>3, <1>4, <1>7, <2>4, <2>5
<1>8. QED
  BY <1>5, <1>6, <1>7 DEF ReadingDone

LEMMA FinishReadingFollows ==
    ASSUME RInv, FinishReading
    PROVE  ReadFollowsChain'
<1>1. /\ TypeOK /\ pc = "reading" /\ ReadingDone /\ result'.bytes = BytesRead
      /\ UNCHANGED <<chain, sectorsPerCluster, range, next, data, failed>>
  BY DEF RInv, FinishReading, Return, readerVars
<1> DEFINE readable == {i \in Window : chain[i] >= 2 /\ chain[i] \notin failed}
<1> SUFFICES ASSUME AtBoundary'
             PROVE  /\ result'.bytes = Cardinality(readable') * BytesPerSector
                    /\ \A i \in readable' :
                          data'[Cardinality({j \in readable' : j <= i})]
                              = DataStart + (chain'[i] - 2) * sectorsPerCluster'
  BY Zenon DEF ReadFollowsChain, AtBoundary
<1>2. AtBoundary /\ Window' = Window
  BY <1>1, FilledKept
<1>3. readable' = readable
  BY <1>1, <1>2, Zenon
<1>4. Filled
  BY <1>1, <1>2 DEF RInv, Reading
<1>5. Len(data) = Cardinality(Fetched(next))
  BY <1>4, Zenon DEF Filled
<1>6. readable = Fetched(next)
  <2>1. \A i \in Window : i < next
    BY <1>1, <1>2, <1>5, NothingLeft
  <2>2. QED
    BY <2>1 DEF Fetched
<1> HIDE DEF readable
<1>7. result'.bytes = Cardinality(readable') * BytesPerSector
  BY <1>1, <1>3, <1>5, <1>6, Zenon DEF BytesRead
<1>8. \A i \in readable : data[Cardinality({j \in readable : j <= i})]
                              = DataStart + (chain[i] - 2) * sectorsPerCluster
  BY <1>4, <1>6, Zenon DEF Filled
<1>9. \A i \in readable' : data'[Cardinality({j \in readable' : j <= i})]
                               = DataStart + (chain'[i] - 2) * sectorsPerCluster'
  BY <1>1, <1>3, <1>8, Zenon
<1>10. QED
  BY <1>7, <1>9

(* The loop starts with an empty buffer.                                   *)
LEMMA StartReadingReading ==
    ASSUME RInv, StartReading
    PROVE  Reading' /\ ReadFollowsChain'
<1>1. /\ TypeOK /\ pc = "following" /\ UNCHANGED <<chain, sectorsPerCluster, next, data, failed>>
      /\ pc' \in {"idle", "reading"}
      /\ pc' = "idle" => range' = range /\ range.offset >= ChainSize
  BY DEF RInv, StartReading, Return
<1>2. next = 1 /\ data = <<>> /\ failed = {}
  BY <1>1 DEF RInv, Reading
<1>3. Reading'
  <2>1. Fetched(next)' = {}
    <3>1. Window' \subseteq 1..Len(chain')
      BY Zenon DEF Window
    <3>2. \A i \in 1..Len(chain') : ~(i < 1)
      OBVIOUS
    <3>3. next' = 1
      BY <1>1, <1>2
    <3>4. QED
      BY <3>1, <3>2, <3>3 DEF Fetched
  <2>2. Filled'
    <3>1. Len(data') = 0
      BY <1>1, <1>2
    <3>2. QED
      BY <2>1, <3>1, FS_EmptySet DEF Filled
  <2>3. QED
    BY <1>1, <1>2, <2>2 DEF Reading
<1>4. ReadFollowsChain'
  <2>1. CASE pc' = "idle"
    <3>1. BytesPerCluster' = BytesPerCluster
      BY <1>1 DEF BytesPerCluster
    <3>2. ChainSize' = ChainSize
      BY <1>1, <3>1 DEF ChainSize
    <3>3. range'.offset >= ChainSize' /\ ChainSize' \in Nat /\ range'.offset \in Nat
      BY <1>1, <2>1, <3>2, SizesTyped, ClusterSizes
    <3>4. ~(range'.offset < ChainSize')
      BY <3>3
    <3>5. QED
      BY <3>4, Zenon DEF ReadFollowsChain
  <2>2. CASE pc' # "idle"
    BY <2>2, Zenon DEF ReadFollowsChain
  <2>3. QED
    BY <2>1, <2>2
<1>5. QED
  BY <1>3, <1>4

(* A call that begins, or ends without having read.                        *)
LEMMA CallReading ==
    ASSUME NEW off, NEW len, FreshLocals(off, len),
           pc' \in {"idle", "following"},
           pc' = "idle" => call'.op # "readChain" \/ result'.kind # "bytes"
    PROVE  Reading' /\ ReadFollowsChain'
<1>1. next' = 1 /\ data' = <<>> /\ failed' = {}
  BY DEF FreshLocals
<1>2. Reading'
  BY <1>1 DEF Reading
<1>3. ReadFollowsChain'
  BY Zenon DEF ReadFollowsChain
<1>4. QED
  BY <1>2, <1>3

LEMMA StutterReading ==
    ASSUME RInv, UNCHANGED <<pc, call, result, chain, sectorsPerCluster, range, next, data, failed>>
    PROVE  Reading' /\ ReadFollowsChain'
<1>1. /\ BytesPerCluster' = BytesPerCluster /\ ChainSize' = ChainSize
      /\ Window' = Window /\ AtBoundary' = AtBoundary
      /\ \A n : Fetched(n)' = Fetched(n)
  BY FilledKept
<1>2. Filled' = Filled
  BY <1>1, Zenon DEF Filled
<1>3. Reading'
  BY <1>1, <1>2 DEF RInv, Reading
<1>4. ReadFollowsChain'
  BY <1>1, Zenon DEF RInv, ReadFollowsChain
<1>5. QED
  BY <1>3, <1>4

LEMMA BeginReading ==
    ASSUME NEW op, NEW s, NEW off, NEW len, BeginFollow(op, s), FreshLocals(off, len)
    PROVE  Reading' /\ ReadFollowsChain'
<1>1. /\ pc' \in {"idle", "following"}
      /\ pc' = "idle" => result' = Verdict(FALSE)
  BY Zenon DEF BeginFollow, Return
<1>2. Verdict(FALSE).kind # "bytes"
  BY DEF Verdict
<1>3. QED
  BY <1>1, <1>2, CallReading

LEMMA ThrownReading ==
    ASSUME NEW op, NEW s, pc = "idle", ThrowOnLoad(op, s), FreshLocals(0, 0)
    PROVE  Reading' /\ ReadFollowsChain'
<1>1. pc' = "idle" /\ result'.kind # "bytes"
  BY DEF ThrowOnLoad, Thrown
<1>2. QED
  BY <1>1, CallReading

LEMMA ReaderStep ==
    ASSUME RInv, [Next]_vars
    PROVE  Reading' /\ ReadFollowsChain'
<1>1. CASE UNCHANGED vars
  BY <1>1, StutterReading DEF vars, tableVars, readerVars
<1>2. CASE TableCalls /\ FreshLocals(0, 0)
  <2>1. ASSUME NEW op, NEW s, BeginFollow(op, s) PROVE Reading' /\ ReadFollowsChain'
    BY <1>2, <2>1, BeginReading
  <2>2. ASSUME NEW op, NEW s, FollowFails(op, s) PROVE Reading' /\ ReadFollowsChain'
    BY <1>2, <2>2, ThrownReading DEF FollowFails
  <2>3. CASE ValidateTable
    <3>1. pc' = "idle" /\ \E b : result' = Verdict(b)
      BY <2>3, Zenon DEF ValidateTable
    <3>2. \A b : Verdict(b).kind # "bytes"
      BY DEF Verdict
    <3>3. QED
      BY <1>2, <3>1, <3>2, CallReading
  <2>4. CASE ValidatorValidate
    <3>1. CASE ThrowOnLoad("validator", 0)
      BY <1>2, <2>4, <3>1, ThrownReading DEF ValidatorValidate
    <3>2. CASE ~ThrowOnLoad("validator", 0)
      <4>1. pc' = "idle" /\ \E b : result' = Verdict(b)
        BY <2>4, <3>2, Zenon DEF ValidatorValidate
      <4>2. \A b : Verdict(b).kind # "bytes"
        BY DEF Verdict
      <4>3. QED
        BY <1>2, <4>1, <4>2, CallReading
    <3>3. QED
      BY <3>1, <3>2
  <2>5. QED
    BY <1>2, <2>1, <2>2, <2>3, <2>4, Zenon DEF TableCalls
<1>3. ASSUME NEW s \in Starts, ReadChainThrows(s)
      PROVE  Reading' /\ ReadFollowsChain'
  BY <1>3, ThrownReading DEF ReadChainThrows, FollowFails
<1>4. ASSUME NEW s \in Starts, NEW off \in Offsets, NEW len \in Lengths,
             BeginReadChain(s, off, len)
      PROVE  Reading' /\ ReadFollowsChain'
  BY <1>4, BeginReading DEF BeginReadChain
<1>5. CASE ReadNothing
  <2>1. pc' = "idle" /\ call'.op # "readChain" /\ FreshLocals(0, 0)
    BY <1>5 DEF ReadNothing
  <2>2. QED
    BY <2>1, CallReading
<1>6. CASE FollowClusterChain /\ UNCHANGED readerVars
  <2>1. pc = "following" /\ pc' = "following" /\ UNCHANGED <<next, data, failed>>
    BY <1>6 DEF FollowClusterChain, readerVars
  <2>2. Reading'
    BY <2>1 DEF RInv, Reading
  <2>3. ReadFollowsChain'
    BY <2>1, Zenon DEF ReadFollowsChain
  <2>4. QED
    BY <2>2, <2>3
<1>7. CASE FinishChainVerdict
  <2>1. pc' = "idle" /\ \E b : result' = Verdict(b)
    BY <1>7, Zenon DEF FinishChainVerdict, Return
  <2>2. \A b : Verdict(b).kind # "bytes"
    BY DEF Verdict
  <2>3. Reading'
    BY <2>1 DEF Reading
  <2>4. ReadFollowsChain'
    BY <2>1, <2>2, Zenon DEF ReadFollowsChain
  <2>5. QED
    BY <2>3, <2>4
<1>8. CASE StartReading
  BY <1>8, StartReadingReading
<1>9. CASE ReadCluster
  <2>1. pc' = "reading"
    BY <1>9 DEF ReadCluster, tableVars
  <2>2. ReadFollowsChain'
    BY <2>1, Zenon DEF ReadFollowsChain
  <2>3. QED
    BY <1>9, <2>2, ReadClusterReading
<1>10. CASE FinishReading
  <2>1. Reading'
    BY <1>10 DEF FinishReading, Return, Reading
  <2>2. QED
    BY <1>10, <2>1, FinishReadingFollows
<1>11. QED
  BY <1>1, <1>2, <1>3, <1>4, <1>5, <1>6, <1>7, <1>8, <1>9, <1>10, Zenon
     DEF Next, Continue, TableTurns

(* A read from a cluster boundary delivers the sectors of the clusters it  *)
(* asks for, in chain order and without gaps: readChain counts bytes, and  *)
(* its three ways to stop amount to the end of the window.                 *)
THEOREM ReadAlwaysFollowsChain == Spec => []ReadFollowsChain
<1>1. Init => Reading /\ ReadFollowsChain
  <2> SUFFICES ASSUME Init PROVE Reading /\ ReadFollowsChain
    OBVIOUS
  <2>1. pc = "idle" /\ call.op # "readChain"
    BY DEF Init, TableInit
  <2>2. QED
    BY <2>1 DEF Reading, ReadFollowsChain
<1>2. TypeOK /\ ChainIsSimplePath /\ Reading /\ ReadFollowsChain /\ [Next]_vars
          => Reading' /\ ReadFollowsChain'
  BY ReaderStep DEF RInv
<1>3. QED
  BY <1>1, <1>2, TypeCorrect, ChainIsAlwaysSimplePath, PTL DEF Spec

=============================================================================
