--------------------------- MODULE MCCarvingEngine ---------------------------
(***************************************************************************)
(* Small disks for CarvingEngine: every arrangement of three fragments,    *)
(* padded with zeroes to the size of the disk.  The fragments - a zero,    *)
(* every signature, %%EOF, and a whole JPEG, of which two fit in a chunk   *)
(* of 12 bytes - have 1, 2, 3, 4 and 5 bytes, so that files begin and end  *)
(* at every position of a sector, and signatures straddle sectors and      *)
(* chunks.                                                                 *)
(***************************************************************************)
EXTENDS CarvingEngine

DiskBytes == 16

Fragments ==
    { <<"00">>,
      <<"FF", "D8", "FF">>, <<"FF", "D9">>, <<"FF", "D8", "FF", "FF", "D9">>,
      <<"25", "50", "44", "46">>, <<"25", "25", "45", "46">>,
      <<"25", "25", "45", "4F", "46">>,
      <<"50", "4B", "03", "04">> }

Zeroes == [i \in 1 .. DiskBytes |-> "00"]

MCDisks ==
    {SubSeq(a \o b \o c \o Zeroes, 1, DiskBytes) : a, b, c \in Fragments}

=============================================================================
