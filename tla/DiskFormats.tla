---------------------------- MODULE DiskFormats ----------------------------
(***************************************************************************)
(* The conversions limine.c makes for the device: positions of a seek, CHS *)
(* addresses, byte orders, partition types and the split of stage 2.       *)
(***************************************************************************)
EXTENDS Integers, Sequences, SequencesExt

DIV_ROUNDUP(a, b) == (a + (b - 1)) \div b
AlignDown(x, n) == x - (x % n)

\* set_pos: the offsets of its fseek calls when a long is too short for pos.
jump_size(LONG_MAX) == (LONG_MAX \div 2) + 1
SeekJumps(pos, LONG_MAX) == [i \in 1..(pos \div jump_size(LONG_MAX)) |-> jump_size(LONG_MAX)]

\* Mutant: the last jump is left out when it is a whole one.
SeeksWithoutRest(pos, LONG_MAX) == SeekJumps(pos, LONG_MAX)

Seeks(pos, LONG_MAX) == Append(SeekJumps(pos, LONG_MAX), pos % jump_size(LONG_MAX))

\* lba2chs: three bytes, the cylinder's high two bits packed with the sector.
TooBig == <<254, 255, 255>>

\* Mutant: the high bits of the cylinder are lost.
PackedNoHighBits(cylinder, sector) == sector

Packed(cylinder, sector) == 64 * ((cylinder \div 256) % 4) + sector

lba2chs(lba) ==
    LET cylinder == lba \div (255 * 63)
        head == (lba \div 63) % 255
        sector == (lba % 63) + 1
    IN  IF lba > 63 * 255 * 1024 \/ cylinder >= 1024 THEN TooBig
        ELSE <<head, Packed(cylinder, sector), cylinder % 256>>

\* endswap16, 32 and 64 on the bytes of a value, lowest first: each line of
\* the source moves one byte by its shift, in bytes.
Shifts(n) == [j \in 1..n |-> n + 1 - 2 * j]
endswap(bytes) == [j \in DOMAIN bytes |-> bytes[j + Shifts(Len(bytes))[j]]]

\* The bytes of a value, lowest first, in the order the CPU stores them.
Stored(bytes, bigendian) == IF bigendian THEN Reverse(bytes) ELSE bytes

ENDSWAP(value, bigendian) == IF bigendian THEN endswap(value) ELSE value

\* Partition type GUIDs the conversion knows, and the MBR types for them.
EfiSystem == 1
MicrosoftBasicData == 2
Hfs == 3
gpt2mbr_type_conv_table == <<<<EfiSystem, 239>>, <<MicrosoftBasicData, 7>>, <<Hfs, 175>>>>
gpt2mbr_type(guid) ==
    LET hits == {k \in DOMAIN gpt2mbr_type_conv_table : gpt2mbr_type_conv_table[k][1] = guid}
    IN  IF hits = {} THEN -1 ELSE gpt2mbr_type_conv_table[Min(hits)][2]

\* The halves of stage 2, in uint16_t.
stage2_sects(size) == DIV_ROUNDUP(size, 512)

\* Mutant: the odd sector is forgotten.
EvenHalf(size) == ((stage2_sects(size) \div 2) * 512) % 65536

stage2_size_a(size) ==
    ((stage2_sects(size) \div 2) * 512 + (IF stage2_sects(size) % 2 = 1 THEN 512 ELSE 0)) % 65536
stage2_size_b(size) == ((stage2_sects(size) \div 2) * 512) % 65536
=============================================================================
