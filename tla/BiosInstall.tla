---------------------------- MODULE BiosInstall ----------------------------
(***************************************************************************)
(* limine.c's bios_install after its arguments are parsed: find the        *)
(* partition table, convert an ISOHYBRID's GPT, check an MBR, make room    *)
(* for stage 2, write it, and undo everything when a step fails.           *)
(*                                                                         *)
(* The device is UndoDisk's, which DeviceCache implements.  Its addresses  *)
(* are cells: the fields and blocks the program tells apart, each with its *)
(* place on the device in bytes; a write reaches every cell it overlaps.   *)
(* A cell's value is a tuple: <<n>> for a field with value n (<<0>> for    *)
(* zeroed bytes), <<-1, k>> for the boot image's bytes from offset k.      *)
(*                                                                         *)
(* `view` is what the completed writes and put-backs make of the device;   *)
(* where a failing call, or the block cache dropped at cleanup, may have   *)
(* left something else, the cell is `damaged`.  Nothing is damaged while   *)
(* the install reads, so what it reads is in `view`.                       *)
(***************************************************************************)
EXTENDS DiskFormats

CONSTANTS
    BlockSize,                  \* the device layer's block_size
    LbSize, EntrySize,          \* block size, and size_of_partition_entry of a GPT
    NumEntries,                 \* number_of_partition_entries
    EntryLba1, EntryLba2,       \* partition_entry_lba of the two headers
    LastLba,                    \* alternate_lba, the last block
    BootloaderFileSize,         \* sizeof(binary_limine_hdd_bin_data)
    UNINSTALL_DATA_MAX, UINT32, \* number of values of a uint32_t
    Beyond,                     \* what follows the array, read as an entry
    Starts,                     \* pairs of contents and command line to start from
    MaxFaults                   \* failing device calls

Zero == <<0>>
Used(entry) == entry[1] # 0     \* the unique GUID is not zero

-----------------------------------------------------------------------------
(* The cells and their places.                                             *)
MbrCells ==
    ({"sig", "code", "fat16", "fat32", "time", "size_a", "size_b", "loc_a", "loc_b", "magic"} \X {0})
    \cup ({"id", "flag", "chs_start", "type", "chs_end", "start", "count"} \X (0..3))
FineCells ==
    MbrCells \cup {<<"hdr", 1>>, <<"hdr", 2>>, <<"ext", 0>>, <<"iso", 0>>}
             \cup ({"ent1", "ent2"} \X (0..(NumEntries - 1)))

MbrPlace ==
    [sig |-> <<3, 9>>, code |-> <<16, 30>>, fat16 |-> <<54, 5>>, fat32 |-> <<82, 5>>, time |-> <<218, 6>>,
     size_a |-> <<420, 2>>, size_b |-> <<422, 2>>, loc_a |-> <<424, 8>>, loc_b |-> <<432, 8>>,
     magic |-> <<510, 2>>, ext |-> <<1080, 2>>, iso |-> <<32769, 5>>]
EntryField ==
    [flag |-> <<0, 1>>, chs_start |-> <<1, 3>>, type |-> <<4, 1>>, chs_end |-> <<5, 3>>,
     start |-> <<8, 4>>, count |-> <<12, 4>>]

Place(c) ==
    CASE c[1] \in DOMAIN MbrPlace -> MbrPlace[c[1]]
      [] c[1] = "id" -> <<440 + c[2], 1>>
      [] c[1] \in DOMAIN EntryField -> <<446 + 16 * c[2] + EntryField[c[1]][1], EntryField[c[1]][2]>>
      [] c[1] = "hdr" -> <<IF c[2] = 1 THEN LbSize ELSE LastLba * LbSize, 96>>
      [] c[1] = "ent1" -> <<EntryLba1 * LbSize + c[2] * EntrySize, EntrySize>>
      [] c[1] = "ent2" -> <<EntryLba2 * LbSize + c[2] * EntrySize, EntrySize>>
      [] c[1] = "sec" -> <<c[2] * 512, 512>>
      [] c[1] = "lba" -> <<c[2] * LbSize, LbSize>>

Overlap(p, q) == p[1] < q[1] + q[2] /\ q[1] < p[1] + p[2]

\* The blocks that no field divides, whole.
Cells ==
    LET blocks == ({"sec"} \X (1..(LbSize \div 512 - 1))) \cup ({"lba"} \X (1..LastLba))
    IN  FineCells \cup {b \in blocks : \A c \in FineCells : ~Overlap(Place(b), Place(c))}
Placed == {<<c, Place(c)>> : c \in Cells}
Touched(loc, count) == {x[1] : x \in {y \in Placed : Overlap(y[2], <<loc, count>>)}}

Disks == {s[1] : s \in Starts}

ASSUME DisksAssumption == \A d \in Disks : d = [c \in Cells |-> d[c]]
\* lb_guesses, and the geometry of a GPT: whole entries in a block, arrays of
\* 32 blocks between block 0 and the second header.
ASSUME GeometryAssumption ==
    /\ BlockSize \in Nat \ {0}
    /\ LbSize \in Nat /\ LbSize >= 512 /\ LbSize % 512 = 0
    /\ EntrySize \in 1..LbSize /\ LbSize % EntrySize = 0 /\ NumEntries \in Nat
    /\ EntryLba1 \in Nat \ {0} /\ EntryLba2 \in Nat /\ EntryLba1 + 32 <= EntryLba2
    /\ LastLba \in Nat \ {0}
\* The halves of stage 2 fit their 16-bit fields and neither is negative.
ASSUME StageAssumption ==
    BootloaderFileSize \in Nat /\ 1024 <= BootloaderFileSize /\ BootloaderFileSize <= 130560
\* A boot flag is a byte, a GPT header counts its entries and no partition
\* starts at block 0.
ASSUME FieldAssumption ==
    /\ \A d \in Disks :
        /\ \A k \in 0..3 : d[<<"flag", k>>] \in {<<b>> : b \in 0..255}
        /\ d[<<"hdr", 1>>][1] = 1 =>
             /\ d[<<"hdr", 1>>][2] \in Nat
             /\ \A k \in 0..(NumEntries - 1) :
                   Used(d[<<"ent1", k>>]) => d[<<"ent1", k>>][3] \in Nat \ {0}
    /\ Used(Beyond) => Beyond[3] \in Nat \ {0}

VARIABLES orig, view, log, phase, damaged, failed   \* the device, see UndoDisk
VARIABLES
    pc, i,      \* the step of bios_install, and its loop index
    opts,       \* the command line
    v,          \* the local variables
    faults

INSTANCE UndoDisk WITH Addr <- Cells, Value <- UNION {{d[c] : c \in Cells} : d \in Disks}

device == <<orig, view, log, phase, damaged, failed>>
vars == <<device, pc, i, opts, v, faults>>

Locals ==
    [gpt |-> FALSE, mbr |-> FALSE, any_active |-> FALSE, part_to_conv |-> <<>>, converting |-> FALSE,
     header1 |-> Zero, header2 |-> Zero, partition |-> -1, max_used |-> -1,
     new_count |-> 0, loc_a |-> 0, loc_b |-> 0, saved |-> <<>>]

Init ==
    /\ \E s \in Starts : orig = s[1] /\ opts = s[2]
    /\ view = orig /\ log = <<>> /\ phase = "install" /\ damaged = {} /\ failed = FALSE
    /\ pc = "probe" /\ i = 0 /\ v = Locals /\ faults = 0

-----------------------------------------------------------------------------
(* device_write, and the steps that write nothing.                         *)
Fill(loc, count, value) == [c \in Touched(loc, count) |-> value]
SetCell(c, value) == Fill(Place(c)[1], Place(c)[2], value)
Image(loc, from, count) == [c \in Touched(loc, count) |-> <<-1, Place(c)[1] - loc + from>>]

FirstBlock(c) == Place(c)[1] \div BlockSize
LastBlock(c) == (Place(c)[1] + Place(c)[2] - 1) \div BlockSize

\* The cells of a block of the device.
InDeviceBlock(b) == {c \in Cells : FirstBlock(c) <= b /\ b <= LastBlock(c)}

Fault == faults < MaxFaults /\ faults' = faults + 1

\* A write that fails when the blocks before `cut` are out: they are not in
\* the log.
TornWrite(p, cut) == Drop({c \in DOMAIN p : FirstBlock(c) < cut})
Cuts(p) == {0} \cup {LastBlock(c) : c \in DOMAIN p}

DeviceWrite(p, next, n) ==
    /\ IF Len(log) < UNINSTALL_DATA_MAX
       THEN \/ Write(p) /\ pc' = next /\ i' = n /\ UNCHANGED faults
            \/ (\E cut \in Cuts(p) : TornWrite(p, cut)) /\ pc' = "cleanup" /\ i' = 0 /\ Fault
       ELSE UNCHANGED <<device, faults>> /\ pc' = "cleanup" /\ i' = 0
    /\ UNCHANGED opts

Goto(next, n) ==
    pc' = next /\ i' = n /\ UNCHANGED <<device, opts, faults>>

\* A loop of writes: the next iteration, or the step after the loop.
Loop(p, times, after) ==
    DeviceWrite(p, IF i + 1 < times THEN pc ELSE after, IF i + 1 < times THEN i + 1 ELSE 0)

-----------------------------------------------------------------------------
(* The partition table.                                                    *)
HasSignature(header) == header[1] = 1
Entry(k) == IF <<"ent1", k>> \in Cells THEN view[<<"ent1", k>>] ELSE Beyond

ProbeGpt ==
    /\ pc = "probe"
    /\ IF ~HasSignature(view[<<"hdr", 1>>]) THEN Goto("flag", 0) /\ UNCHANGED v
       ELSE IF opts.force_mbr THEN Goto("cleanup", 0) /\ UNCHANGED v
       ELSE Goto("secondary", 0) /\ v' = [v EXCEPT !.gpt = TRUE, !.header1 = view[<<"hdr", 1>>]]

ReadSecondary ==
    /\ pc = "secondary"
    /\ IF HasSignature(view[<<"hdr", 2>>])
       THEN Goto("iso", 0) /\ v' = [v EXCEPT !.header2 = view[<<"hdr", 2>>]]
       ELSE Goto("cleanup", 0) /\ UNCHANGED v

DetectIso ==
    /\ pc = "iso" /\ UNCHANGED v
    /\ IF opts.gpt2mbr_allowed /\ view[<<"iso", 0>>] = <<1>> THEN Goto("gather", 0) ELSE Goto("layout", 0)

\* One GPT entry: <<unique GUID, type GUID, first block, last block>>.  The
\* slot of part_to_conv is written before the check that there is one, and a
\* fifth one is undefined behaviour: nothing is claimed from there on.
GatherEntry ==
    /\ pc = "gather"
    /\ LET e == Entry(i)
           full == Len(v.part_to_conv) = 4
       IN  IF i >= v.header1[2] THEN Goto("nuke1", 0) /\ UNCHANGED v
           ELSE IF ~Used(e) THEN Goto("gather", i + 1) /\ UNCHANGED v
           ELSE IF e[3] >= UINT32 THEN Goto("layout", 0) /\ UNCHANGED v
           ELSE IF full THEN Goto("undefined", 0) /\ UNCHANGED v
           ELSE IF e[4] >= UINT32 \/ gpt2mbr_type(e[2]) = -1 THEN Goto("layout", 0) /\ UNCHANGED v
           ELSE /\ Goto("gather", i + 1)
                /\ v' = [v EXCEPT !.part_to_conv = Append(@,
                            [type |-> gpt2mbr_type(e[2]), lba_start |-> e[3], lba_end |-> e[4],
                             chs_start |-> lba2chs(e[3]), chs_end |-> lba2chs(e[4])])]

NukePrimary ==
    /\ pc = "nuke1" /\ Loop(Fill(i * LbSize, LbSize, Zero), 34, "nuke2")
    /\ v' = [v EXCEPT !.converting = TRUE]

NukeSecondary ==
    pc = "nuke2" /\ Loop(Fill((LastLba - 32 + i) * LbSize, LbSize, Zero), 33, "diskid") /\ UNCHANGED v

WriteDiskId ==
    /\ pc = "diskid" /\ v' = [v EXCEPT !.gpt = FALSE]
    /\ Loop(SetCell(<<"id", i>>, <<3>>), 4, IF v.part_to_conv = <<>> THEN "flag" ELSE "convert")

\* Mutant: the last block is not counted.
BlocksBetween(part) == part.lba_end - part.lba_start

sect_count(part) == (part.lba_end - part.lba_start + 1) % UINT32

\* Five fields of each gathered partition, in the order of the source.
ConvertPartition ==
    /\ pc = "convert" /\ UNCHANGED v
    /\ LET part == v.part_to_conv[(i \div 5) + 1]
           fields == <<<<"type", <<part.type>>>>, <<"start", <<part.lba_start>>>>,
                       <<"count", <<sect_count(part)>>>>,
                       <<"chs_start", part.chs_start>>, <<"chs_end", part.chs_end>>>>
           f == fields[(i % 5) + 1]
       IN  Loop(SetCell(<<f[1], i \div 5>>, f[2]), 5 * Len(v.part_to_conv), "flag")

-----------------------------------------------------------------------------
(* The sanity checks on an MBR.                                            *)
CheckFlag ==
    /\ pc = "flag"
    /\ LET flag == view[<<"flag", i>>][1]
           masked == IF flag >= 128 THEN 128 ELSE 0
           ok == flag \in {0, 128}
       IN  /\ IF ~ok /\ opts.force_mbr THEN DeviceWrite(SetCell(<<"flag", i>>, <<masked>>), "first", i)
              ELSE Goto("first", i)
           /\ v' = [v EXCEPT !.mbr = (i = 0 \/ @) /\ (ok \/ opts.force_mbr),
                             !.any_active = @ \/ masked = 128]

\* Mutant: the first block is not checked.
AnyStart(k) == FALSE

TooLow(k) == view[<<"type", k>>] # Zero /\ view[<<"start", k>>][1] < 63

CheckFirstSector ==
    /\ pc = "first" /\ UNCHANGED v
    /\ IF TooLow(i) THEN Goto("cleanup", 0)
       ELSE IF i < 3 THEN Goto("flag", i + 1) ELSE Goto("fs", 0)

\* Where the magic of a file system would be, and which: _ECH_FS_, NTFS, FAT
\* twice, FAT32, ext.
FileSystems == <<<<"sig", 1>>, <<"sig", 2>>, <<"fat16", 1>>, <<"fat32", 1>>, <<"sig", 3>>, <<"ext", 1>>>>

CheckFileSystem ==
    /\ pc = "fs"
    /\ LET c == <<FileSystems[i + 1][1], 0>>
           found == view[c] = <<FileSystems[i + 1][2]>>
           next == IF i < 5 THEN <<"fs", i + 1>> ELSE <<"active", 0>>
       IN  IF found /\ opts.force_mbr
           THEN DeviceWrite(SetCell(c, Zero), next[1], next[2]) /\ UNCHANGED v
           ELSE Goto(next[1], next[2]) /\ v' = [v EXCEPT !.mbr = @ /\ ~found]

SetActive ==
    /\ pc = "active" /\ UNCHANGED v
    /\ IF v.mbr /\ ~v.any_active THEN DeviceWrite(SetCell(<<"flag", 0>>, <<128>>), "layout", 0)
       ELSE Goto("layout", 0)

-----------------------------------------------------------------------------
(* Room for stage 2.                                                       *)
stage2_size == BootloaderFileSize - 512
size_a == stage2_size_a(stage2_size)
size_b == stage2_size_b(stage2_size)

\* Mutant: the second half starts too early.
AfterSmallerHalf(a) == a + size_b

AfterFirstHalf(a) == a + size_a

ChooseLayout ==
    /\ pc = "layout"
    /\ v' = [v EXCEPT !.loc_a = 512, !.loc_b = AfterFirstHalf(512)]
    /\ IF v.gpt THEN IF opts.part_ndx >= 0 THEN Goto("partition", 0) ELSE Goto("embed", 0)
       ELSE IF v.mbr THEN Goto("save", 0) ELSE Goto("cleanup", 0)

TooSmall(e) == (e[4] - e[3] + 1) * LbSize < 32768

\* sscanf of the index may fail and leave the number unset: any part_ndx.
UsePartition ==
    /\ pc = "partition"
    /\ LET num == (opts.part_ndx - 1) % UINT32
           e == Entry(num)
           loc == e[3] * LbSize
           rest == AfterFirstHalf(loc)
       IN  IF num > v.header1[2] \/ ~Used(e) \/ TooSmall(e)
           THEN Goto("cleanup", 0) /\ UNCHANGED v
           ELSE /\ Goto("save", 0)
                /\ v' = [v EXCEPT !.partition = num, !.loc_a = loc,
                           !.loc_b = IF rest % LbSize = 0 THEN rest ELSE AlignDown(rest + LbSize, LbSize)]

\* Mutant: one entry too many is taken for stage 2.
EnoughBut1(count, max_used) == count >= max_used

Enough(count, max_used) == count > max_used

PlanEmbedding ==
    /\ pc = "embed"
    /\ LET max_used == Max({-1} \cup {k \in 0..(v.header1[2] - 1) : Used(Entry(k))})
           a == AlignDown((EntryLba1 + 32) * LbSize - size_a, LbSize)
           b == AlignDown((EntryLba2 + 32) * LbSize - size_b, LbSize)
           count == (a \div LbSize - EntryLba1) * (LbSize \div EntrySize)
       IN  IF ~Enough(count, max_used) THEN Goto("cleanup", 0) /\ UNCHANGED v
           ELSE /\ IF max_used + 1 < count THEN Goto("zero1", max_used + 1) ELSE Goto("header1", 0)
                /\ v' = [v EXCEPT !.max_used = max_used, !.new_count = count, !.loc_a = a, !.loc_b = b]

ZeroUnused ==
    /\ pc \in {"zero1", "zero2"} /\ UNCHANGED v
    /\ LET base == (IF pc = "zero1" THEN EntryLba1 ELSE EntryLba2) * LbSize
           more == i + 1 < v.new_count
       IN  DeviceWrite(Fill(base + i * EntrySize, EntrySize, Zero),
                       IF more THEN pc ELSE IF pc = "zero1" THEN "zero2" ELSE "header1",
                       IF more THEN i + 1 ELSE IF pc = "zero1" THEN v.max_used + 1 ELSE 0)

\* The sum of the first n entries of an array: it tells their contents apart.
SumOf(d, lba, n) ==
    <<n, {<<Place(c)[1] - lba * LbSize, d[c]>> :
            c \in {x \in Touched(lba * LbSize, n * EntrySize) : d[x] # Zero}}>>
ArraySum(lba, n) == SumOf(view, lba, n)

\* A header: signature, number of entries, sum of the array, sum of itself.
Header(count, sum) == <<1, count, sum, <<count, sum>>>>

WriteHeader1 ==
    /\ pc = "header1"
    /\ LET header == Header(v.new_count, ArraySum(EntryLba1, v.new_count))
       IN  /\ DeviceWrite(SetCell(<<"hdr", 1>>, header), "header2", 0)
           /\ v' = [v EXCEPT !.header1 = header]

WriteHeader2 ==
    /\ pc = "header2"
    /\ LET header == Header(v.new_count, v.header1[3])
       IN  /\ DeviceWrite(SetCell(<<"hdr", 2>>, header), "save", 0)
           /\ v' = [v EXCEPT !.header2 = header]

-----------------------------------------------------------------------------
(* The boot sector and stage 2.                                            *)
SaveTable ==
    /\ pc = "save" /\ Goto("write", 0)
    /\ v' = [v EXCEPT !.saved = [c \in Touched(218, 6) \cup Touched(440, 70) |-> view[c]]]

\* The nine writes: the image, where its halves are, what must survive it.
Saved(loc, count) == [c \in Touched(loc, count) |-> v.saved[c]]
ImageWrites ==
    <<Image(0, 0, 512), Image(v.loc_a, 512, size_a), Image(v.loc_b, 512 + size_a, stage2_size - size_a),
      SetCell(<<"size_a", 0>>, <<size_a>>), SetCell(<<"size_b", 0>>, <<size_b>>),
      SetCell(<<"loc_a", 0>>, <<v.loc_a>>), SetCell(<<"loc_b", 0>>, <<v.loc_b>>)>>
WriteBacks == <<Saved(218, 6), Saved(440, 70)>>

\* Mutant: the saved fields are written back before the boot sector.
WriteBackFirst == WriteBacks \o ImageWrites

Writes == ImageWrites \o WriteBacks

WriteStages == pc = "write" /\ Loop(Writes[i + 1], Len(Writes), "flush") /\ UNCHANGED v

\* The block that was written last, by the newest entry's write, and the
\* logged data in it.
LastWritten ==
    IF log = <<>> \/ DOMAIN log[Len(log)] = {} THEN {}
    ELSE InDeviceBlock(Max({LastBlock(c) : c \in DOMAIN log[Len(log)]}))
Pending == {c \in LastWritten : Covered(c)}

\* The last flush, a failing one being an IoError, and fclose, which may lose
\* the last block: its result is ignored.
FlushAll ==
    /\ pc = "flush" /\ pc' = "installed"
    /\ \/ Commit /\ UNCHANGED faults
       \/ CommitLosing(Pending) /\ Fault
    /\ UNCHANGED <<i, opts, v>>

-----------------------------------------------------------------------------
(* Failure, cleanup, and a later --uninstall.                              *)
IoPoints ==
    {"probe", "secondary", "iso", "gather", "nuke1", "nuke2", "diskid", "convert", "flag", "first", "fs",
     "active", "partition", "embed", "zero1", "zero2", "header1", "header2", "save", "write", "flush"}

\* Any device_read or flush may fail, and so may a malloc; DeviceWrite has the
\* failing writes.
IoError ==
    /\ pc \in IoPoints /\ pc' = "cleanup" /\ Fault
    /\ UNCHANGED <<device, i, opts, v>>

\* The last block may still be in the cache, which uninstall drops.
Cleanup ==
    /\ pc = "cleanup" /\ pc' = "undo" /\ (\E D \in {{}, Pending} : Drop(D))
    /\ UNCHANGED <<i, opts, v, faults>>

\* With a file for the uninstall data a later run can take it all back.
UninstallRun ==
    /\ pc = "installed" /\ opts.uninstall_file /\ pc' = "undo" /\ Drop({})
    /\ UNCHANGED <<i, opts, v, faults>>

\* An entry goes back; or it fails twice, which uninstall reports before it
\* goes on with the older ones; or stdio loses the entry's last block later,
\* when it seeks or closes, which nobody notices.
PutBack ==
    /\ pc = "undo" /\ log # <<>>
    /\ \/ UndoEntry /\ UNCHANGED faults
       \/ EntrySkipped /\ Fault
       \/ EntryBack(LastWritten) /\ Fault
    /\ UNCHANGED <<pc, i, opts, v>>

\* The last flush of uninstall, whose failure it reports.
UndoReturn ==
    /\ pc = "undo" /\ log = <<>>
    /\ \/ EndUndo /\ pc' = "undone" /\ UNCHANGED faults
       \/ FlushFails /\ UNCHANGED pc /\ Fault
    /\ UNCHANGED <<i, opts, v>>

Next ==
    \/ ProbeGpt \/ ReadSecondary \/ DetectIso \/ GatherEntry
    \/ NukePrimary \/ NukeSecondary \/ WriteDiskId \/ ConvertPartition
    \/ CheckFlag \/ CheckFirstSector \/ CheckFileSystem \/ SetActive
    \/ ChooseLayout \/ UsePartition \/ PlanEmbedding \/ ZeroUnused \/ WriteHeader1 \/ WriteHeader2
    \/ SaveTable \/ WriteStages \/ FlushAll
    \/ IoError \/ Cleanup \/ UninstallRun \/ PutBack \/ UndoReturn

Spec == Init /\ [][Next]_vars

-----------------------------------------------------------------------------
\* The properties of a finished install speak of what bios_install wrote, all
\* of which is on the device unless fclose lost the block that is `damaged`.
Installed == pc = "installed"

\* A failed install and one taken back by --uninstall leave the device as it
\* was when uninstall reports no error, except where a torn write was not
\* logged or a block that stdio took was lost; and where no call failed, but
\* the install was refused or its log full, there is no exception (cleanup,
\* reverse_uninstall_data, uninstall).
InstallUndone ==
    pc = "undone" /\ ~failed =>
        /\ \A c \in Cells \ damaged : view[c] = orig[c]
        /\ faults = 0 => damaged = {}

GptDisk == HasSignature(orig[<<"hdr", 1>>])
OrigFlag(k) == orig[<<"flag", k>>][1]
Masked(flag) == IF flag >= 128 THEN 128 ELSE 0
NoneActive == \A k \in 0..3 : OrigFlag(k) < 128

\* Installing over the boot sector keeps the time stamp, the disk ID and the
\* partition table; only the boot flags of an MBR may be put in order
\* (timestamp, orig_mbr and the writes of the sanity checks).
TableKept ==
    Installed /\ ~v.converting =>
        /\ \A c \in Cells : c[1] \in {"time", "id", "type", "start", "count", "chs_start", "chs_end"}
                => view[c] = orig[c]
        /\ \A k \in 0..3 :
              view[<<"flag", k>>] =
                  IF v.gpt THEN orig[<<"flag", k>>]
                  ELSE IF k = 0 /\ NoneActive THEN <<128>> ELSE <<Masked(OrigFlag(k))>>

\* The used GPT entries of the device as it was, in order.
OrigParts ==
    LET used == {k \in 0..(NumEntries - 1) : GptDisk /\ Used(orig[<<"ent1", k>>])}
    IN  [j \in 1..Cardinality(used) |->
            orig[<<"ent1", CHOOSE k \in used : Cardinality({x \in used : x < k}) = j - 1>>]]

\* A converted ISOHYBRID's MBR lists exactly the GPT's partitions, each with
\* its extent and with CHS fields for the same blocks, and one is active.
ConvertedTable ==
    Installed /\ v.converting =>
        /\ Len(OrigParts) <= 4 /\ view[<<"flag", 0>>] = <<128>>
        /\ \A k \in 0..3 :
              IF k >= Len(OrigParts) THEN view[<<"type", k>>] = Zero
              ELSE LET e == OrigParts[k + 1]
                   IN  /\ view[<<"type", k>>] = <<gpt2mbr_type(e[2])>> /\ gpt2mbr_type(e[2]) > 0
                       /\ view[<<"start", k>>] = <<e[3]>> /\ view[<<"count", k>>] = <<e[4] - e[3] + 1>>
                       /\ view[<<"chs_start", k>>] = lba2chs(e[3]) /\ view[<<"chs_end", k>>] = lba2chs(e[4])

\* The extents of the partitions, in bytes.
MbrExtents ==
    {<<512 * orig[<<"start", k>>][1], 512 * orig[<<"count", k>>][1]>> :
        k \in {x \in 0..3 : orig[<<"type", x>>] # Zero}}
Extent(e) == <<e[3] * LbSize, (e[4] - e[3] + 1) * LbSize>>
Extents ==
    IF GptDisk THEN {Extent(OrigParts[j]) : j \in {x \in DOMAIN OrigParts : OrigParts[x][3] < UINT32}}
    ELSE MbrExtents
Chosen(c) == v.partition >= 0 /\ Overlap(Place(c), Extent(orig[<<"ent1", v.partition>>]))

\* No byte of a partition changes, except in the partition the user names for
\* stage 2, nor does the ISO 9660 volume (the checks for sector 63, 32 KiB and
\* used entries, the places of stage 2).
PartitionsKept ==
    Installed =>
        /\ \A x \in Extents : \A c \in Touched(x[1], x[2]) : view[c] = orig[c] \/ Chosen(c)
        /\ view[<<"iso", 0>>] = orig[<<"iso", 0>>] \/ Chosen(<<"iso", 0>>)

\* What the firmware loads finds all of stage 2: the boot sector is the
\* image's, and the places in it hold the two halves, complete and not
\* overwritten by a later write.
StageTwoComplete ==
    Installed =>
        LET at(field) == view[<<field, 0>>][1]
            holds(loc, from, count) ==
                \A c \in Touched(loc, count) :
                    view[c] = <<-1, Place(c)[1] - loc + from>> \/ c[1] \in {"size_a", "size_b"}
        IN  /\ view[<<"code", 0>>] = <<-1, 16>> /\ view[<<"magic", 0>>] = <<-1, 510>>
            /\ at("size_a") + at("size_b") >= stage2_size
            /\ holds(at("loc_a"), 512, at("size_a"))
            /\ holds(at("loc_b"), 512 + at("size_a"), stage2_size - at("size_a"))

\* What the device holds, which is anything where it is damaged.
Garbled == <<-2>>
Held == [c \in Cells |-> IF c \in damaged THEN Garbled ELSE view[c]]

ArrayLba(c) == IF c = 1 THEN EntryLba1 ELSE EntryLba2

\* None of a copy's header and of the entries it counts is damaged.
Sane(c) ==
    /\ <<"hdr", c>> \notin damaged
    /\ Touched(ArrayLba(c) * LbSize, view[<<"hdr", c>>][2] * EntrySize) \cap damaged = {}

ValidCopy(c) ==
    LET header == Held[<<"hdr", c>>]
        ent == IF c = 1 THEN "ent1" ELSE "ent2"
    IN  /\ HasSignature(header) /\ header[4] = <<header[2], header[3]>>
        /\ header[3] = SumOf(Held, ArrayLba(c), header[2])
        /\ \A k \in 0..(NumEntries - 1) :
              Used(orig[<<ent, k>>]) => k < header[2] /\ Held[<<ent, k>>] = orig[<<ent, k>>]
UnusedWereZero ==
    \A k \in 0..(NumEntries - 1) : Used(orig[<<"ent1", k>>]) \/ orig[<<"ent1", k>>] = Zero

\* A valid GPT: both headers have the sums of their arrays, both arrays hold
\* the same entries and nothing else, and a partition lies between the arrays
\* or beyond the device.
Sound(e) ==
    /\ e[3] \in Nat /\ e[4] \in Nat /\ EntryLba1 + 32 <= e[3] /\ e[3] <= e[4]
    /\ e[4] < EntryLba2 \/ LastLba < e[3]
InArray(c) == \E lba \in {EntryLba1, EntryLba2} : Overlap(Place(c), <<lba * LbSize, 32 * LbSize>>)
ValidGpt(d) ==
    /\ d[<<"hdr", 1>>] = Header(NumEntries, SumOf(d, EntryLba1, NumEntries))
    /\ d[<<"hdr", 2>>] = Header(NumEntries, SumOf(d, EntryLba2, NumEntries))
    /\ \A k \in 0..(NumEntries - 1) :
          /\ d[<<"ent2", k>>] = d[<<"ent1", k>>]
          /\ Used(d[<<"ent1", k>>]) => Sound(d[<<"ent1", k>>])
    /\ \A c \in {<<"ext", 0>>, <<"iso", 0>>} : InArray(c) => d[c] = Zero

\* The disks with two signed headers have a valid GPT, the arrays lie between
\* the headers, and a partition that is not refused as too small has room for
\* stage 2 with its halves on block edges.
ASSUME GptAssumption ==
    /\ 2 <= EntryLba1 /\ EntryLba2 + 32 <= LastLba /\ NumEntries * EntrySize <= 32 * LbSize
    /\ stage2_size + LbSize <= 32768
    /\ \A d \in Disks : HasSignature(d[<<"hdr", 1>>]) /\ HasSignature(d[<<"hdr", 2>>]) => ValidGpt(d)
\* Nobody asks for the partition after the last one, which the check of the
\* number lets through, unless what is read there is no partition.
ASSUME BeyondAssumption ==
    /\ UINT32 \in Nat \ {0}
    /\ \A s \in Starts : s[2].part_ndx \in Int
    /\ Used(Beyond) => \A s \in Starts : (s[2].part_ndx - 1) % UINT32 # NumEntries
\* Stage 2 behind the boot sector leaves a block of the 63 sectors in front of
\* the first partition (lb_guesses, limine-bios-hdd.h), and an MBR counts its
\* sectors.
ASSUME FrontAssumption ==
    /\ LbSize <= 4096 /\ BootloaderFileSize + LbSize <= 63 * 512
    /\ \A d \in Disks : \A k \in 0..3 : d[<<"start", k>>][1] \in Nat
\* The ISO 9660 volume descriptor of a disk with a GPT lies between the arrays,
\* which it does with blocks of 512 bytes.
ASSUME VolumeAssumption ==
    \A d \in Disks : HasSignature(d[<<"hdr", 1>>]) /\ HasSignature(d[<<"hdr", 2>>]) =>
        (EntryLba1 + 32) * LbSize <= 32769 /\ 32774 <= EntryLba2 * LbSize

\* After an embedding install both copies of the GPT are valid and list every
\* partition; and when the unused entries were zero, so is each copy after
\* every completed write and put-back, as long as uninstall reported no error
\* and nothing the copy consists of is damaged (headers are shrunk before
\* stage 2 takes their blocks).  It is damaged until the undo gets to what the
\* cache dropped, and for good when a stage 2 was torn in the array's tail,
\* which the old header counts and the log does not have.
GptStaysValid ==
    GptDisk /\ ~v.converting /\ (UnusedWereZero \/ Installed) /\ HasSignature(orig[<<"hdr", 2>>]) /\ ~failed
        => \A c \in 1..2 : Sane(c) => ValidCopy(c)
=============================================================================
