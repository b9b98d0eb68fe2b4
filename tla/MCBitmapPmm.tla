---------------------------- MODULE MCBitmapPmm ----------------------------
(* Instances of BitmapPmm for TLC.                                         *)
EXTENDS BitmapPmm

Entries(bases, lengths) == [base : bases, length : lengths, usable : {TRUE}]
Reserved == [base |-> 4, length |-> 8, usable |-> FALSE]

\* One entry anywhere, with any length; and pairs that overlap, touch, nest,
\* are unaligned, cross the limit or wrap around.
SomeMaps ==
    {<<e>> : e \in Entries(0..(ADDR - 1), {0, 1, 3, 4, 5, 7, 8, 9, 15, 16, 17, 27, 31})}
    \cup {<<Reserved, e>> : e \in Entries({0, 3, 4}, {8, 13})}
    \cup {<<e, d>> : e, d \in Entries({0, 2, 4, 7, 12, 15}, {4, 9, 16, 30})}

\* Every frame, and numbers beyond the bitmap.
SomeNumbers == 0..(MAX_FRAMES + 1)
=============================================================================
