--------------------------- MODULE MCDiskFormats ---------------------------
(* Walks the conversions of DiskFormats and Crc32 over bounded inputs.     *)
EXTENDS DiskWalk, Crc32

Bytes(word) == <<word[2] % 256, word[2] \div 256, word[1] % 256, word[1] \div 256>>

\* The sum a GPT header gets on the device, from a host of either byte order,
\* is CRC-32 as firmware computes and reads it: for every byte, which uses
\* every word of the table, and for longer streams (crc32, ENDSWAP).
SumIsRemainder ==
    \A s \in {<<n % 256>>, [k \in 1..(n % 9) |-> (k * n) % 256]}, bigendian \in BOOLEAN :
        Stored(ENDSWAP(Bytes(crc32(s)), bigendian), bigendian) = Bytes(Xor32(Remainder(s), Ones))
=============================================================================
