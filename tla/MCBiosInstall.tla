--------------------------- MODULE MCBiosInstall ---------------------------
(* An instance of BiosInstall for TLC.                                     *)
EXTENDS BiosInstall

CONSTANT Numbers   \* which partition numbers to try

Opts(force, allowed, indexes) ==
    [force_mbr : force, gpt2mbr_allowed : allowed, part_ndx : indexes, uninstall_file : BOOLEAN]
NoIndex == -1

\* Contents nobody looks at, different in every cell of a kind.
Plain(c) ==
    CASE c[1] \in {"flag", "type", "start", "count"} -> Zero
      [] c[1] \in {"sig", "fat16", "fat32", "ext", "hdr"} -> <<8>>
      [] OTHER -> <<5, c[2]>>

\* MBR disks: entries 1 and 4 in many ways, and each file system on a plain disk.
MbrEntries ==
    {<<0, 0, 0>>, <<128, 7, 63>>, <<0, 131, 63>>, <<0, 7, 62>>, <<0, 7, 37>>, <<127, 7, 63>>, <<129, 7, 63>>}
MbrDisk(first, fourth, fs) ==
    [c \in Cells |->
        LET e == IF c[2] = 0 THEN first ELSE fourth
        IN  IF c[1] \in {"flag", "type", "start", "count"} /\ c[2] \in {0, 3}
            THEN CASE c[1] = "flag" -> <<e[1]>> [] c[1] = "type" -> <<e[2]>>
                   [] c[1] = "start" -> <<e[3]>> [] c[1] = "count" -> <<IF e[2] = 0 THEN 0 ELSE 2>>
            ELSE IF fs # <<>> /\ c[1] = fs[1] THEN <<fs[2]>> ELSE Plain(c)]
SomeMbrDisks ==
    {MbrDisk(first, fourth, <<>>) : first \in MbrEntries, fourth \in MbrEntries \ {<<127, 7, 63>>, <<0, 131, 63>>}}
    \cup {MbrDisk(<<0, 131, 63>>, <<0, 0, 0>>, FileSystems[k]) : k \in 1..6}

\* GPT disks: both copies list the entries; the second header may be invalid.
GptDiskOf(entries, iso, signed2) ==
    LET bare == [c \in Cells |->
                    CASE c[1] \in {"ent1", "ent2"} -> IF c[2] \in DOMAIN entries THEN entries[c[2]] ELSE Zero
                      [] c[1] = "iso" -> <<iso>>
                      [] c[1] = "lba" /\ (\E n \in {EntryLba1, EntryLba2} : c[2] \in n..(n + 31)) -> Zero
                      [] OTHER -> Plain(c)]
        sum == SumOf(bare, EntryLba1, NumEntries)
    IN  [c \in Cells |-> IF c[1] = "hdr" /\ (c[2] = 1 \/ signed2) THEN Header(NumEntries, sum) ELSE bare[c]]

Part(id, type, first, last) == <<id, type, first, last>>
Stale == <<0, EfiSystem, 50, 60>>            \* not used, not zero
Low == Part(1, EfiSystem, 35, 40)
Wide == Part(2, MicrosoftBasicData, 41, 104)
EntryLists ==
    {<<>>, (0 :> Low), (0 :> Low @@ 1 :> Wide), (0 :> Wide @@ 12 :> Low), (0 :> Wide @@ 13 :> Low),
     (0 :> Wide @@ 5 :> Stale), (13 :> Wide @@ 14 :> Stale)}
SomeGptDisks == {GptDiskOf(es, 1, TRUE) : es \in EntryLists} \cup {GptDiskOf(0 :> Low, 1, FALSE)}

\* ISOHYBRIDs: up to five partitions, one too low for an MBR, one that cannot
\* be converted, one beyond what an MBR can name, and one that is no ISO.
Iso(k, type, first) == Part(k, type, first, first + 3)
Three == (0 :> Iso(1, EfiSystem, 66) @@ 2 :> Iso(2, Hfs, 70) @@ 3 :> Iso(3, MicrosoftBasicData, 74))
IsoLists ==
    {<<>>, Three, Three @@ (1 :> Iso(4, EfiSystem, 80)), Three @@ (1 :> Iso(4, 0, 80)),
     Three @@ (5 :> Iso(4, EfiSystem, 36)), Three @@ (5 :> Iso(4, Hfs, UINT32)),
     Three @@ (4 :> Part(4, Hfs, 200, UINT32))}
FiveParts == Three @@ (4 :> Iso(4, EfiSystem, 80) @@ 5 :> Iso(5, EfiSystem, 84))
SomeIsoDisks == {GptDiskOf(es, 1, TRUE) : es \in IsoLists \cup {FiveParts}} \cup {GptDiskOf(Three, 0, TRUE)}

SomeStarts ==
    (SomeMbrDisks \X Opts(BOOLEAN, {TRUE}, {NoIndex}))
    \cup (SomeGptDisks \X Opts(BOOLEAN, {FALSE}, {NoIndex} \cup Numbers))
    \cup (SomeIsoDisks \X Opts({FALSE}, {TRUE}, {NoIndex}))
=============================================================================
