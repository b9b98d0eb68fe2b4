------------------------------ MODULE DiskWalk ------------------------------
(***************************************************************************)
(* The conversions of DiskFormats met one input after the other: what each *)
(* must give the device, stated of the n-th input.                         *)
(***************************************************************************)
EXTENDS DiskFormats

CONSTANTS
    LONG_MAX,   \* largest offset of one fseek
    MaxInput    \* the inputs derived from 0..MaxInput are checked

\* The last sector a CHS address can name.
LastChs == 63 * 255 * 1024 - 1

ASSUME InputAssumption ==
    LONG_MAX \in Nat \ {0} /\ MaxInput \in Nat \ {0} /\ MaxInput <= LastChs

VARIABLE n

WalkInit == n = 0
WalkNext == n < MaxInput /\ n' = n + 1
WalkSpec == WalkInit /\ [][WalkNext]_n

SumOf(s) == LET sum[k \in 0..Len(s)] == IF k = 0 THEN 0 ELSE sum[k - 1] + s[k] IN sum[Len(s)]

\* set_pos reaches every position, and no single fseek is out of range.
SeekReaches ==
    /\ SumOf(Seeks(n, LONG_MAX)) = n
    /\ \A k \in DOMAIN Seeks(n, LONG_MAX) : Seeks(n, LONG_MAX)[k] <= LONG_MAX

Decoded(chs) == ((((chs[2] \div 64) * 256 + chs[3]) * 255) + chs[1]) * 63 + (chs[2] % 64) - 1

\* A partition table's CHS fields name the sector of its LBA fields up to the
\* last one 24 bits can name, and the agreed maximum beyond: near 0, near the
\* limit and over the whole range (lba2chs).
ChsDecodes ==
    \A lba \in {n, LastChs + n - (MaxInput \div 2), (LastChs \div MaxInput) * n} :
        IF lba <= LastChs THEN Decoded(lba2chs(lba)) = lba ELSE lba2chs(lba) = TooBig

\* The halves a and b hold all of a stage 2 of this size, the second no more
\* than its field says, and a half is a whole number of sectors.
Covers(size, a, b) ==
    a + b >= size /\ a <= size + 511 /\ size - a <= b /\ a % 512 = 0 /\ b % 512 = 0

\* Every stage 2 whose halves fit uint16_t is covered by them, whatever its
\* size: whole sectors, the byte on either side of them and the size of the
\* repository's own image are all among the inputs (bios_install).
StageTwoCovered ==
    \A size \in (64 * n)..(64 * n + 63) :
        size <= 254 * 512 => Covers(size, stage2_size_a(size), stage2_size_b(size))
=============================================================================
