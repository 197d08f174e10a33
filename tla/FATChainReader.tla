--------------------------- MODULE FATChainReader ---------------------------
(***************************************************************************)
(* FATChainReader: reads a byte range of a file by following its cluster   *)
(* chain, on top of FATTable.  Sector reads may fail at any cluster.  The  *)
(* buffer is the sequence of the sectors that were copied into it.         *)
(***************************************************************************)
EXTENDS FATTable

CONSTANTS
    DataStart,          \* dataRegionStartSector_: the first sector of cluster 2
    ClusterSectors,     \* the values of sectorsPerCluster_ in question
    Offsets, Lengths,   \* the byte ranges the callers ask for
    UInt32              \* 2^32, the modulus of the code's offset arithmetic

ASSUME ReaderAssumption ==
    /\ DataStart \in Nat \ {0}
    /\ ClusterSectors \subseteq Nat \ {0}
    /\ UInt32 \in Nat \ {0}
    /\ Offsets \subseteq 0..(UInt32 - 1)
    /\ Lengths \subseteq 0..(UInt32 - 1)

VARIABLES
    sectorsPerCluster,
    range,              \* the offset and the length of the read, once trimmed
    next,               \* index in the chain of the cluster the loop is at
    data,               \* the sectors in the buffer, in buffer order
    failed              \* the clusters whose read failed in this call

readerVars == <<sectorsPerCluster, range, next, data, failed>>
vars == <<tableVars, readerVars>>

BytesPerCluster == BytesPerSector * sectorsPerCluster

(* Wrong variant: the data region is taken to start at cluster 0.             *)
ClusterToSectorFromZero(c) == IF c < 2 THEN 0 ELSE DataStart + c * sectorsPerCluster

(* Clusters 0 and 1 have no sectors; 0 stands for that.                    *)
ClusterToSector(c) == IF c < 2 THEN 0 ELSE DataStart + (c - 2) * sectorsPerCluster

ChainSize == Len(chain) * BytesPerCluster
BytesRead == Len(data) * BytesPerSector

Init ==
    /\ TableInit
    /\ sectorsPerCluster \in ClusterSectors
    /\ range = [offset |-> 0, length |-> 0]
    /\ next = 1
    /\ data = <<>>
    /\ failed = {}

(* Wrong variant: the loop starts where the last call's loop stopped.         *)
FreshLocalsKeepingNext(off, len) ==
    /\ range' = [offset |-> off, length |-> len]
    /\ data' = <<>>
    /\ failed' = {}
    /\ UNCHANGED <<sectorsPerCluster, next>>

(* The locals of a read begin afresh with every call.                      *)
FreshLocals(off, len) ==
    /\ range' = [offset |-> off, length |-> len]
    /\ next' = 1
    /\ data' = <<>>
    /\ failed' = {}
    /\ UNCHANGED sectorsPerCluster

BeginReadChain(s, off, len) ==
    /\ len > 0
    /\ BeginFollow("readChain", s)
    /\ FreshLocals(off, len)

ReadChainThrows(s) == FollowFails("readChain", s) /\ FreshLocals(0, 0)

(* A read of no bytes returns before the table is touched.                 *)
ReadNothing ==
    /\ pc = "idle"
    /\ call' = [op |-> "readNothing", start |-> 0]
    /\ result' = [kind |-> "bytes", ok |-> TRUE, bytes |-> 0]
    /\ chain' = <<>>
    /\ current' = 0
    /\ UNCHANGED <<fatType, raw, loaded, pc>>
    /\ FreshLocals(0, 0)

(* The range is trimmed to the chain; offset + length is a 32-bit sum.     *)
StartReading ==
    /\ pc = "following"
    /\ ChainDone
    /\ call.op = "readChain"
    /\ IF range.offset >= ChainSize
         THEN Return([kind |-> "bytes", ok |-> TRUE, bytes |-> 0]) /\ UNCHANGED range
         ELSE /\ pc' = "reading"
              /\ range' = IF (range.offset + range.length) % UInt32 > ChainSize
                            THEN [offset |-> range.offset, length |-> ChainSize - range.offset]
                            ELSE range
              /\ UNCHANGED result
    /\ UNCHANGED <<fatType, raw, loaded, call, chain, current,
                   sectorsPerCluster, next, data, failed>>

ClusterStart == (next - 1) * BytesPerCluster
ClusterEnd == next * BytesPerCluster
RangeEnd == (range.offset + range.length) % UInt32

ReadingDone ==
    \/ next > Len(chain)
    \/ BytesRead >= range.length
    \/ ClusterEnd > range.offset /\ ClusterStart >= RangeEnd

(* One sector is read from each cluster, at a sector number the byte       *)
(* offset inside the cluster is added to.  A cluster that cannot be read   *)
(* contributes nothing, and the next one takes its place in the buffer.    *)
ReadClusterSectors ==
    LET inside == IF range.offset > ClusterStart THEN range.offset - ClusterStart ELSE 0
        sector == ClusterToSector(chain[next]) + inside
    IN  \/ /\ chain[next] >= 2
           /\ data' = Append(data, sector)
           /\ UNCHANGED failed
        \/ /\ failed' = failed \cup {chain[next]}
           /\ UNCHANGED data

(* Wrong variant: a cluster that cannot be read is tried again at once.       *)
ReadClusterRetrying ==
    /\ pc = "reading"
    /\ ~ReadingDone
    /\ IF ClusterEnd <= range.offset
         THEN UNCHANGED <<data, failed>>
         ELSE ReadClusterSectors
    /\ next' = IF data' = data /\ ClusterEnd > range.offset THEN next ELSE next + 1
    /\ UNCHANGED <<tableVars, sectorsPerCluster, range>>

ReadCluster ==
    /\ pc = "reading"
    /\ ~ReadingDone
    /\ next' = next + 1
    /\ IF ClusterEnd <= range.offset
         THEN UNCHANGED <<data, failed>>
         ELSE ReadClusterSectors
    /\ UNCHANGED <<tableVars, sectorsPerCluster, range>>

FinishReading ==
    /\ pc = "reading"
    /\ ReadingDone
    /\ Return([kind |-> "bytes", ok |-> TRUE, bytes |-> BytesRead])
    /\ UNCHANGED <<fatType, raw, loaded, call, chain, current, readerVars>>

Continue ==
    \/ TableTurns /\ UNCHANGED readerVars
    \/ StartReading
    \/ ReadCluster
    \/ FinishReading

Next ==
    \/ TableCalls /\ FreshLocals(0, 0)
    \/ \E s \in Starts : ReadChainThrows(s)
    \/ \E s \in Starts, off \in Offsets, len \in Lengths : BeginReadChain(s, off, len)
    \/ ReadNothing
    \/ Continue

Spec == Init /\ [][Next]_vars

(* A call runs on its caller's thread until it returns.                    *)
FairSpec == Spec /\ WF_vars(Continue)

-----------------------------------------------------------------------------
TypeOK ==
    /\ fatType \in FATTypes
    /\ raw \in [Clusters -> Nat]
    /\ loaded \in BOOLEAN
    /\ pc \in {"idle", "following", "reading"}
    /\ call.start \in Nat
    /\ chain \in Seq(Clusters)
    /\ current \in Nat
    /\ result.kind \in {"none", "exception", "verdict", "bytes"}
    /\ result.bytes \in Nat
    /\ sectorsPerCluster \in ClusterSectors
    /\ range \in [offset : Nat, length : Nat]
    /\ next \in 1..(Len(chain) + 1)
    /\ data \in Seq(Nat)
    /\ failed \subseteq Clusters

(* The clusters of the chain that a range asks for.                        *)
Window == {i \in 1..Len(chain) : /\ i * BytesPerCluster > range.offset
                                 /\ (i - 1) * BytesPerCluster < range.offset + range.length}

(* A read from a cluster boundary and within 32 bits delivers the first    *)
(* sector of every cluster of the window, in chain order, those of         *)
(* unreadable and of reserved clusters left out without a gap.             *)
(* FATChainReader.cpp:53-92 gets there by counting bytes, not clusters.    *)
ReadFollowsChain ==
    (/\ pc = "idle" /\ call.op = "readChain" /\ result.kind = "bytes"
     /\ range.offset % BytesPerCluster = 0
     /\ range.offset + range.length < UInt32
     /\ range.offset < ChainSize)
    => LET readable == {i \in Window : chain[i] >= 2 /\ chain[i] \notin failed}
       IN  /\ result.bytes = Cardinality(readable) * BytesPerSector
           /\ \A i \in readable :
                 data[Cardinality({j \in readable : j <= i})]
                     = DataStart + (chain[i] - 2) * sectorsPerCluster

(* Every call returns: no table makes the chain loop or the read loop run  *)
(* for ever.                                                               *)
CallsReturn == (pc # "idle") ~> (pc = "idle")
=============================================================================
