---------------------------- MODULE DiskReading ----------------------------
(***************************************************************************)
(* What the recovery engines see of a disk: an IDiskReader, which may be   *)
(* missing, and whose reads may work, fail, throw, or come up short while  *)
(* reporting success, in a buffer of the size asked for or a smaller one.  *)
(* Of a sector only its fields as a boot sector count.                     *)
(***************************************************************************)
EXTENDS Integers

CONSTANT UInt64         \* 2^64, the range of sector numbers and offsets

Reads == {"ok", "fails", "throws", "short"}

NoBoot == [signature |-> FALSE, oemNTFS |-> FALSE, bytesPerSector |-> 0, sectorsPerCluster |-> 0,
           reserved |-> 0, fatCount |-> 0, rootEntryCount |-> 0, total |-> 0, fatSize16 |-> 0, fatSize32 |-> 0]

Delivers(read) == read \in {"ok", "short"}

(* A short read leaves the second half of the buffer at zero, and with it  *)
(* the mark at offset 510 when the sector is a small one.                  *)
Sector(device, number, read) ==
    LET boot == IF number \in DOMAIN device.boots THEN device.boots[number] ELSE NoBoot
    IN [boot EXCEPT !.signature = @ /\ (read = "ok" \/ device.sectorSize \div 2 >= 512)]

Failure(read) == IF read = "throws" THEN "throws" ELSE "false"

FatSize(boot) == IF boot.fatSize16 # 0 THEN boot.fatSize16 ELSE boot.fatSize32

(* The answer of an engine: how the call ended, what it read, and what it  *)
(* found: a type, named pieces, or an extent of the disk.                  *)
NoAnswer == [result |-> "false", reads |-> {}, type |-> "", pieces |-> {}, bytes |-> 0]

=============================================================================
