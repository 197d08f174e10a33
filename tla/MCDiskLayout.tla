---------------------------- MODULE MCDiskLayout ----------------------------
(* Small disks for DiskLayout: GPT disks of 12 sectors, MBR disks whose    *)
(* partitions lie at both ends of the 32-bit range, boot sectors around    *)
(* the limits of the tests, and three drivers whose types overlap.         *)
EXTENDS DiskLayout

NoEntry == [type |-> 0, guid |-> 0, first |-> 0, last |-> 0]
Gpt(f, l) == [type |-> 1, guid |-> 1, first |-> f, last |-> l]
Deleted(f, l) == [type |-> 0, guid |-> 1, first |-> f, last |-> l]

Arrays == {<<NoEntry, NoEntry>>, <<Gpt(4, 5), Gpt(6, 6)>>, <<Gpt(4, 6), Gpt(6, 8)>>,
           <<NoEntry, Gpt(3, 4)>>, <<Gpt(5, 4), NoEntry>>, <<Gpt(5, 5), Gpt(4, 8)>>,
           <<Gpt(4, 6), Deleted(4, 5)>>, <<Deleted(7, 8), Gpt(4, 6)>>}

(* Sizes and numbers of entries on either side of one sector of 512 bytes  *)
(* and of the sizes a copied entry can have.                               *)
Shapes == {<<0, 2>>, <<128, 0>>, <<4, 2>>, <<8, 2>>, <<40, 2>>, <<48, 2>>, <<120, 5>>,
           <<128, 2>>, <<128, 4>>, <<128, 5>>, <<256, 2>>, <<264, 2>>}

Slots(es) == es \o [i \in 1..(5 - Len(es)) |-> NoEntry]

Header(signature, crc, shape, array, over) ==
    [signature |-> signature, crc |-> crc, firstUsable |-> 4, lastUsable |-> 8,
     size |-> shape[1], num |-> shape[2], array |-> array,
     arrayCRC |-> [i \in 1..shape[2] |-> EntryData(Slots(over)[i], shape[1])]]

NoMBR == [signature |-> FALSE, entries |-> [i \in 1..4 |-> [boot |-> 0, type |-> 0, start |-> 0, count |-> 0]]]

GptDisk(primary, backup, content, total, sectorSize) ==
    [mbr |-> NoMBR, total |-> total, sectorSize |-> sectorSize, primary |-> primary,
     backup |-> backup, arrays |-> [l \in {2, 10} |-> Slots(content)]]

(* The damage a disk has, and the shapes an array has.                     *)
GptLayouts ==
    {GptDisk(Header(s, c, <<128, 2>>, 2, IF good THEN a ELSE <<NoEntry, Gpt(9, 9)>>),
             Header(b, "block", <<128, 2>>, 10, a), a, total, size) :
        s \in BOOLEAN, c \in {"block", "header"}, b \in BOOLEAN, good \in BOOLEAN,
        a \in Arrays, total \in {1, 12}, size \in {256, 512}}
    \cup
    {GptDisk(Header(s, "block", shape, 2, a), Header(TRUE, "block", other, 10, a), a, 12, size) :
        s \in BOOLEAN, shape \in Shapes, other \in {<<128, 4>>, <<48, 2>>, <<256, 2>>},
        a \in Arrays, size \in {512, 1024}}

Mbr(t, s, c) == [boot |-> 128, type |-> t, start |-> s, count |-> c]
Free == [boot |-> 0, type |-> 0, start |-> 0, count |-> 0]

MbrLayouts ==
    {[mbr |-> [signature |-> sig, entries |-> <<Mbr(7, s, c), Free, Mbr(t, s2, c2), Free>>],
      total |-> 12, sectorSize |-> 512, primary |-> Header(FALSE, "block", <<128, 0>>, 2, <<>>),
      backup |-> Header(FALSE, "block", <<128, 0>>, 2, <<>>), arrays |-> [l \in {2} |-> Slots(<<>>)]] :
        sig \in BOOLEAN, t \in {0, 12}, s \in {0, 1, UInt32 - 4, UInt32 - 1}, c \in {0, 1, 4},
        s2 \in {4, 5, UInt32 - 4}, c2 \in {1, 4, 5}}

MCLayouts == GptLayouts \cup MbrLayouts

MCClaim == [d \in OtherDrivers |-> "FAT32"]
MCSupports == [d \in OtherDrivers |-> IF d = "fat" THEN {"FAT12", "FAT16", "FAT32"}
                                                   ELSE {"FAT32", "NTFS"}]
MCConfidence == [d \in OtherDrivers |->
    [k \in {"ntfs", "fat", "other"} |->
        CASE k = "fat" -> IF d = "fat" THEN 4 ELSE 2
          [] k = "ntfs" -> IF d = "fat" THEN 0 ELSE 4
          [] k = "other" -> 1]]

MCNTFSBoots ==
    {[kind |-> "ntfs", size |-> 512, oemNTFS |-> oem, bytesPerSector |-> bps, sectorsPerCluster |-> spc,
      signature497 |-> sig, total64 |-> t64, total32 |-> t32] :
        oem \in BOOLEAN, bps \in {0, 128, 256, 512, 768, 8192}, spc \in {0, 3, 8, 128, 255},
        sig \in BOOLEAN, t64 \in {0, 3}, t32 \in {5}}

MCBootSectors ==
    {b \in MCNTFSBoots : b.total64 = 0 /\ b.total32 = 5 /\ b.bytesPerSector \in {512, 768}
                         /\ b.sectorsPerCluster \in {3, 8} /\ b.oemNTFS}
    \cup {[kind |-> "ntfs", size |-> 498, oemNTFS |-> TRUE, bytesPerSector |-> 512,
           sectorsPerCluster |-> 8, signature497 |-> TRUE, total64 |-> 0, total32 |-> 5]}
    \cup {[kind |-> k, size |-> 512, oemNTFS |-> FALSE, bytesPerSector |-> 512, sectorsPerCluster |-> 1,
           signature497 |-> FALSE, total64 |-> 0, total32 |-> 0] : k \in {"fat", "other"}}

FATBoot(bps, spc, res, fats, roots, t16, t32, spf, sig) ==
    [bytesPerSector |-> bps, sectorsPerCluster |-> spc, reservedSectorCount |-> res,
     fatCount |-> fats, rootEntryCount |-> roots, totalSectors16 |-> t16,
     totalSectors32 |-> t32, sectorsPerFat16 |-> spf, signature510 |-> sig]

MCFATBoots ==
    {FATBoot(512, 1, 1, 2, 16, 0, t, 12, TRUE) : t \in {20, 4110, 4111, 65549, 65550}}
    \cup {FATBoot(512, 8, 1, 2, 512, 40000, 0, 20, sig) : sig \in BOOLEAN}
    \cup {FATBoot(512, 8, 32, 2, 0, 0, 600000, 0, TRUE),
          FATBoot(512, 1, 1, 1, 16, 9000, 0, 12, TRUE),
          FATBoot(512, 1, 1, 0, 16, 9000, 0, 12, TRUE),
          FATBoot(1024, 1, 1, 2, 16, 9000, 0, 12, TRUE),
          FATBoot(0, 1, 1, 2, 16, 9000, 0, 12, TRUE),
          FATBoot(512, 0, 1, 2, 16, 9000, 0, 12, FALSE)}
=============================================================================
