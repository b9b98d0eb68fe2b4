---------------------------- MODULE DeviceCache ----------------------------
(***************************************************************************)
(* The device layer of limine.c: a cache of one block in front of the      *)
(* device, byte-range reads and writes through it, the log of overwritten  *)
(* data (uninstall_data) and the undo that puts it back, at once after a   *)
(* failed install or by a later `--uninstall` run from the stored log.     *)
(*                                                                         *)
(* The device is a stdio stream: fwrite may leave the block in the stream's *)
(* buffer, whence it goes to the device at the next fseek or at fclose and *)
(* is dropped when that fails.  Every fread, fwrite and write of the       *)
(* buffer may fail, at most MaxFaults times.  A step is one iteration of a *)
(* loop that does I/O.                                                     *)
(***************************************************************************)
EXTENDS Integers, Sequences, SequencesExt

CONSTANTS
    NumBytes,             \* size of the device
    Guesses,              \* the block sizes device_init tries, in order
    UNINSTALL_DATA_MAX,
    Requests,             \* the byte ranges <<loc, count>> bios_install uses
    MaxFaults,            \* how often an I/O call fails once
    MayVanish             \* whether the device may go away for good

Bytes == 0..(NumBytes - 1)
Junk == -1                \* what a failed fread leaves in the cache
Orig == [a \in Bytes |-> a]
Datum(n, k) == n * (NumBytes + 1) + k     \* byte k of write n, unlike any other
NewData(n, count) == [k \in 1..count |-> Datum(n, k)]
Values == Bytes \cup {Junk} \cup {Datum(n, k) : n \in 1..(UNINSTALL_DATA_MAX + 1), k \in 1..NumBytes}

ASSUME SizeAssumption ==
    /\ NumBytes \in Nat \ {0} /\ MaxFaults \in Nat /\ UNINSTALL_DATA_MAX \in Nat
    /\ Guesses \in Seq(Nat \ {0})
    /\ Requests \subseteq {r \in Bytes \X (1..NumBytes) : r[1] + r[2] <= NumBytes}

VARIABLES
    dev,           \* the statics of the cache and the stream, faults so far:
                   \* `disk` is what the system was given, `file` what the
                   \* stream holds, its buffered block included
    uninstall_data,
    pc,            \* where bios_install or uninstall stands
    op,            \* the range being read or written, and how far
    got,           \* what the running _device_read has copied out
    undo,          \* uninstall's index, retry flag and failure flags
    damaged        \* bytes where the stream does not hold what the completed
                   \* writes and put-backs made of them

vars == <<dev, uninstall_data, pc, op, got, undo, damaged>>

Idle == [loc |-> 0, data |-> <<>>, count |-> 0, progress |-> 0]
NoUndo == [i |-> 1, retry |-> FALSE, write_fail |-> FALSE, flush_fail |-> FALSE]

Init ==
    /\ dev = [disk |-> Orig, file |-> Orig, cache |-> <<>>, cached_block |-> -1, cache_state |-> "clean",
              block_size |-> 0, faults |-> 0, gone |-> FALSE]
    /\ uninstall_data = <<>> /\ pc = "init" /\ op = Idle /\ got = <<>>
    /\ undo = NoUndo /\ damaged = {}

-----------------------------------------------------------------------------
(* The cache.  A call's possible outcomes: its result and the device then. *)
Outcome(ok, d) == [ok |-> ok, dev |-> d]

\* I/O that leaves `done` when it works and one of `after` when it fails.
Outcomes(d, done, after) ==
    IF d.gone THEN {Outcome(FALSE, d)}
    ELSE {Outcome(TRUE, done)}
         \cup {Outcome(FALSE, [x EXCEPT !.faults = @ + 1]) : x \in {y \in after : d.faults < MaxFaults}}

InBlock(d, a) == a \div d.block_size = d.cached_block
BlockData(d, b) == [k \in 1..d.block_size |-> d.file[b * d.block_size + k - 1]]

\* The buffered block goes to the device: all of it, or up to a byte `cut`
\* when that fails, and then the rest is forgotten (fseek, fclose).
Drained(d, cut) ==
    LET written == [a \in Bytes |-> IF a < cut THEN d.file[a] ELSE d.disk[a]]
    IN  [d EXCEPT !.disk = written, !.file = written]
Drain(d) ==
    IF d.file = d.disk THEN {Outcome(TRUE, d)}
    ELSE IF d.gone THEN {Outcome(FALSE, Drained(d, 0))}
    ELSE Outcomes(d, Drained(d, NumBytes), {Drained(d, cut) : cut \in 0..NumBytes})

\* The stream with the first n bytes of the cached block written to it.
Flushed(d, n) ==
    [d EXCEPT !.file = [a \in Bytes |-> IF InBlock(d, a) /\ (a % d.block_size) < n
                                        THEN d.cache[(a % d.block_size) + 1] ELSE @[a]]]

\* fwrite of the cached block: it stays in the buffer, goes to the device, or
\* fails after some bytes.
WriteBlock(d) ==
    LET clean(x) == [x EXCEPT !.cache_state = "clean"]
        through(n) == [Flushed(d, n) EXCEPT !.disk = Flushed(d, n).file]
    IN  {Outcome(TRUE, clean(Flushed(d, d.block_size)))}
        \cup Outcomes(d, clean(through(d.block_size)), {through(n) : n \in 0..d.block_size})

device_flush_cache(d) ==
    IF d.cache_state = "clean" THEN {Outcome(TRUE, d)}
    ELSE UNION {IF s.ok THEN WriteBlock(s.dev) ELSE {s} : s \in Drain(d)}

\* fread of block b: it fails past the end, and a fault may spoil the cache.
FetchBlock(d, b) ==
    LET spoiled == {d, [d EXCEPT !.cache = [k \in 1..d.block_size |-> Junk]]}
    IN  IF (b + 1) * d.block_size > NumBytes THEN {Outcome(FALSE, x) : x \in spoiled}
        ELSE Outcomes(d, [d EXCEPT !.cache = BlockData(d, b), !.cached_block = b], spoiled)

\* set_pos, which writes the buffered block, and the fread.
ReadBlock(d, b) == UNION {IF s.ok THEN FetchBlock(s.dev, b) ELSE {s} : s \in Drain(d)}

\* Mutant: the dirty block is dropped when another one is needed.
CacheBlockNoFlush(d, b) ==
    IF d.cached_block = b THEN {Outcome(TRUE, d)} ELSE ReadBlock([d EXCEPT !.cache_state = "clean"], b)

device_cache_block(d, b) ==
    IF d.cached_block = b THEN {Outcome(TRUE, d)}
    ELSE UNION {IF f.ok THEN ReadBlock(f.dev, b) ELSE {f} : f \in device_flush_cache(d)}

\* uninstall's reset of the cache: what it holds is forgotten.
Drop(d) == [d EXCEPT !.cache_state = "clean", !.cached_block = -1]

\* What a reader sees: the stream under the dirty block.
View(d) ==
    [a \in Bytes |-> IF d.cache_state = "dirty" /\ InBlock(d, a)
                     THEN d.cache[(a % d.block_size) + 1] ELSE d.file[a]]

\* The first guess whose read of block 0 works; a guess that fits the device
\* is passed over only by a fault.
device_init(d) ==
    LET fits(k) == Guesses[k] <= NumBytes
        faults(g) == d.faults + Cardinality({k \in 1..(g - 1) : fits(k) /\ ~d.gone})
        taken(g) == [d EXCEPT !.block_size = Guesses[g], !.faults = faults(g), !.cached_block = 0,
                              !.cache_state = "clean", !.cache = [k \in 1..Guesses[g] |-> d.file[k - 1]]]
        n == Len(Guesses)
    IN  {Outcome(TRUE, taken(g)) : g \in {k \in 1..n : fits(k) /\ ~d.gone /\ faults(k) <= MaxFaults}}
        \cup {Outcome(FALSE, [d EXCEPT !.faults = faults(k)]) :
                 k \in {j \in {n + 1} : faults(j) <= MaxFaults}}

DeviceInit ==
    /\ pc \in {"init", "reinit"}
    /\ \E r \in device_init(dev) :
         /\ dev' = r.dev
         /\ pc' = IF ~r.ok THEN IF pc = "init" THEN "init_failed" ELSE "load_failed"
                  ELSE IF pc = "init" THEN "ready" ELSE "load"
    /\ UNCHANGED <<uninstall_data, op, got, undo, damaged>>

-----------------------------------------------------------------------------
(* _device_read and _device_write, one block an iteration.                 *)
Block == (op.loc + op.progress) \div dev.block_size
Offset == (op.loc + op.progress) % dev.block_size
Chunk == IF op.count - op.progress > dev.block_size - Offset
         THEN dev.block_size - Offset ELSE op.count - op.progress
Done == op.progress + Chunk = op.count

\* Mutant: the chunk is copied to the start of the cached block.
CopyInAtStart(d, offset) ==
    [d EXCEPT !.cache_state = "dirty",
              !.cache = [k \in 1..d.block_size |->
                            IF k \in 1..Chunk THEN op.data[op.progress + k] ELSE @[k]]]

CopyIn(d, offset) ==
    [d EXCEPT !.cache_state = "dirty",
              !.cache = [k \in 1..d.block_size |->
                            IF k \in (offset + 1)..(offset + Chunk)
                            THEN op.data[op.progress + k - offset] ELSE @[k]]]

Extent(e) == e.loc..(e.loc + e.count - 1)

\* What the completed writes and put-backs made of the device: what a reader
\* sees, without the write in progress and what a failed install drops.
Contents ==
    IF pc = "cleanup" THEN dev.file
    ELSE IF pc = "write" THEN [a \in Bytes |-> IF a \in Extent(op) THEN got[a - op.loc + 1] ELSE View(dev)[a]]
    ELSE View(dev)

\* goto cleanup: the dirty block will be dropped, and what the device has of
\* a write that failed half way stays.
Fail(d) ==
    /\ dev' = d /\ pc' = "cleanup" /\ op' = Idle /\ got' = <<>>
    /\ damaged' = {a \in Bytes : d.file[a] # Contents[a]}
    /\ UNCHANGED <<uninstall_data, undo>>

StartRead(r) ==
    /\ pc = "ready" /\ pc' = "read"
    /\ op' = [Idle EXCEPT !.loc = r[1], !.count = r[2]] /\ got' = <<>>
    /\ UNCHANGED <<dev, uninstall_data, undo, damaged>>

HasRoom == Len(uninstall_data) < UNINSTALL_DATA_MAX

StartWrite(r) ==
    /\ pc = "ready" /\ HasRoom
    /\ pc' = "save" /\ got' = <<>>
    /\ op' = [loc |-> r[1], count |-> r[2], progress |-> 0,
              data |-> NewData(Len(uninstall_data) + 1, r[2])]
    /\ UNCHANGED <<dev, uninstall_data, undo, damaged>>

TooManyEntries ==
    pc = "ready" /\ ~HasRoom /\ Fail(dev)

ReadStep ==
    /\ pc \in {"read", "save"}
    /\ \E r \in device_cache_block(dev, Block) :
         IF ~r.ok THEN Fail(r.dev)
         ELSE /\ dev' = r.dev
              /\ got' = got \o SubSeq(r.dev.cache, Offset + 1, Offset + Chunk)
              /\ op' = [op EXCEPT !.progress = IF pc = "save" /\ Done THEN 0 ELSE @ + Chunk]
              /\ pc' = IF ~Done THEN pc ELSE IF pc = "save" THEN "write" ELSE "ready"
              /\ UNCHANGED <<uninstall_data, undo, damaged>>

\* Mutant: what is logged is what was written.
EntryOfNewData == [loc |-> op.loc, count |-> op.count, data |-> op.data]

NewEntry == [loc |-> op.loc, count |-> op.count, data |-> got]

\* The write is logged only when its last chunk is in the cache.
WriteStep ==
    /\ pc = "write"
    /\ \E r \in device_cache_block(dev, Block) :
         IF ~r.ok THEN Fail(r.dev)
         ELSE /\ dev' = CopyIn(r.dev, Offset)
              /\ IF Done
                 THEN /\ pc' = "ready" /\ op' = Idle /\ got' = <<>>
                      /\ uninstall_data' = Append(uninstall_data, NewEntry)
                 ELSE /\ op' = [op EXCEPT !.progress = @ + Chunk]
                      /\ UNCHANGED <<pc, got, uninstall_data>>
              /\ UNCHANGED <<undo, damaged>>

\* The last flush of bios_install, after which it reports success.
FinalFlush ==
    /\ pc = "ready" /\ uninstall_data # <<>>
    /\ \E r \in device_flush_cache(dev) :
         IF ~r.ok THEN Fail(r.dev)
         ELSE /\ dev' = r.dev /\ pc' = "store" /\ got' = <<>>
              /\ UNCHANGED <<uninstall_data, op, undo, damaged>>

-----------------------------------------------------------------------------
(* Cleanup, the stored log, and uninstall.                                 *)

reverse_uninstall_data(log) == Reverse(log)

\* A failed install is undone at once.
Cleanup ==
    /\ pc = "cleanup" /\ pc' = "undo"
    /\ uninstall_data' = reverse_uninstall_data(uninstall_data)
    /\ dev' = Drop(dev)
    /\ UNCHANGED <<op, got, undo, damaged>>

\* What a call that left the device as d lost without putting it right.
Lost(d) == {a \in Bytes : View(d)[a] # View(dev)[a]}

\* fclose(device): nobody looks at its result.
CloseDevice ==
    \E r \in Drain(dev) : dev' = r.dev /\ damaged' = damaged \cup Lost(r.dev)

\* store_uninstall_data, whose failure bios_install ignores: then no log is
\* left for a later run.
Store ==
    /\ pc = "store" /\ CloseDevice
    /\ pc' \in {"installed", "installed_no_log"}
    /\ uninstall_data' = reverse_uninstall_data(uninstall_data)
    /\ UNCHANGED <<op, got, undo>>

\* A later run with --uninstall starts with device_init.
UninstallRun ==
    /\ pc = "installed" /\ pc' = "reinit"
    /\ UNCHANGED <<dev, uninstall_data, op, got, undo, damaged>>

\* load_uninstall_data, then uninstall; when the load fails the run ends
\* before it touches the device.
Load ==
    /\ pc = "load"
    /\ \/ pc' = "undo" /\ dev' = Drop(dev)
       \/ pc' = "load_failed" /\ UNCHANGED dev
    /\ UNCHANGED <<uninstall_data, op, got, undo, damaged>>

UndoNext ==
    /\ pc = "undo" /\ undo.i <= Len(uninstall_data) /\ pc' = "uwrite"
    /\ LET ud == uninstall_data[undo.i]
       IN  op' = [loc |-> ud.loc, count |-> ud.count, data |-> ud.data, progress |-> 0]
    /\ UNCHANGED <<dev, uninstall_data, got, undo, damaged>>

\* Mutant: an entry is retried until it works.
NeverGivesUp == FALSE

GivesUp == undo.retry

UndoStep ==
    /\ pc = "uwrite"
    /\ \E r \in device_cache_block(dev, Block) :
         IF r.ok
         THEN /\ dev' = CopyIn(r.dev, Offset)
              /\ op' = IF Done THEN Idle ELSE [op EXCEPT !.progress = @ + Chunk]
              /\ pc' = IF Done THEN "undo" ELSE pc
              /\ undo' = IF Done THEN [undo EXCEPT !.i = @ + 1, !.retry = FALSE] ELSE undo
              /\ damaged' = IF Done THEN damaged \ Extent(op) ELSE damaged
         ELSE /\ dev' = r.dev /\ op' = Idle /\ damaged' = damaged \cup Lost(r.dev)
              /\ pc' = IF GivesUp THEN "undo" ELSE "retry"
              /\ undo' = IF GivesUp
                         THEN [undo EXCEPT !.i = @ + 1, !.retry = FALSE, !.write_fail = TRUE]
                         ELSE undo
    /\ UNCHANGED <<uninstall_data, got>>

\* Mutant: the retry starts from the cache as the failed attempt left it.
KeepCache(d) == d

ForgetCache(d) == Drop(d)

UndoRetry ==
    /\ pc = "retry" /\ pc' = "undo"
    /\ \E r \in device_flush_cache(dev) :
         /\ dev' = ForgetCache(r.dev)
         /\ undo' = [undo EXCEPT !.retry = TRUE, !.flush_fail = @ \/ ~r.ok]
    /\ UNCHANGED <<uninstall_data, op, got, damaged>>

UndoFlush ==
    /\ pc = "undo" /\ undo.i > Len(uninstall_data) /\ pc' = "flushed"
    /\ \E r \in device_flush_cache(dev) :
         /\ dev' = r.dev
         /\ undo' = [undo EXCEPT !.flush_fail = @ \/ ~r.ok]
    /\ UNCHANGED <<uninstall_data, op, got, damaged>>

UndoReturn ==
    /\ pc = "flushed" /\ pc' = "undone" /\ CloseDevice
    /\ UNCHANGED <<uninstall_data, op, got, undo>>

Vanish ==
    /\ MayVanish /\ pc # "init" /\ ~dev.gone
    /\ dev' = [dev EXCEPT !.gone = TRUE]
    /\ UNCHANGED <<uninstall_data, pc, op, got, undo, damaged>>

Next ==
    \/ DeviceInit \/ Vanish
    \/ \E r \in Requests : StartRead(r) \/ StartWrite(r)
    \/ TooManyEntries \/ ReadStep \/ WriteStep \/ FinalFlush
    \/ Cleanup \/ Store \/ UninstallRun \/ Load
    \/ UndoNext \/ UndoStep \/ UndoRetry \/ UndoFlush \/ UndoReturn

UndoWork == Cleanup \/ UndoNext \/ UndoStep \/ UndoRetry \/ UndoFlush \/ UndoReturn

\* The program runs on: an undo that has begun is not suspended for ever.
Spec == Init /\ [][Next]_vars /\ WF_vars(UndoWork)

-----------------------------------------------------------------------------
\* What the writes so far, later ones over earlier ones, make of byte a.
Written(a) ==
    LET on == {i \in DOMAIN uninstall_data : a \in Extent(uninstall_data[i])}
        last == uninstall_data[Max(on)]
    IN  IF on = {} THEN Orig[a] ELSE NewData(Max(on), last.count)[a - last.loc + 1]

\* Which write a value on the disk came from; 0 for the original contents.
Writer(v) == IF v > NumBytes THEN v \div (NumBytes + 1) ELSE 0

\* Writes reach the system in the order they were made, so that a process
\* that is killed in the middle of an install leaves a prefix of them: when
\* the disk shows one write, it shows all earlier ones (the flush and the
\* set_pos in device_cache_block).  What a power cut leaves is not claimed:
\* nothing here calls fsync.
WritesReachDiskInOrder ==
    pc \in {"ready", "read", "save", "write", "store"} =>
        \A a \in Bytes : \A j \in 1..Len(uninstall_data) :
            j < Writer(dev.disk[a]) => \A b \in Extent(uninstall_data[j]) : Writer(dev.disk[b]) >= j

\* When success is reported, stdio has every write, later ones over earlier
\* ones, and the device all of it but at most the block that was flushed last:
\* no more than that block is lost when the unchecked fclose fails (the flush
\* before ok = EXIT_SUCCESS).
SuccessIsHandedOver ==
    pc = "store" =>
        \A a \in Bytes : dev.file[a] = Written(a) /\ (dev.disk[a] = Written(a) \/ InBlock(dev, a))

NoErrors == ~undo.write_fail /\ ~undo.flush_fail

\* When uninstall returns true and the stream is closed, every byte of the
\* disk is what it was before the install, but for those that a torn write
\* changed without logging them or that a failed write of stdio's buffer lost
\* after they were put back; without a failing call there are none.
UndoRestoresDisk ==
    pc = "undone" /\ NoErrors =>
        /\ \A a \in Bytes \ damaged : dev.disk[a] = Orig[a]
        /\ dev.faults = 0 /\ ~dev.gone => damaged = {}

\* limine.c:1254: "If we failed, attempt to reverse install process"; the
\* same without the exceptions for torn writes and lost blocks.
FailedInstallIsReversed == pc = "undone" /\ NoErrors => dev.disk = Orig

\* uninstall ends, even with the device gone (one retry per entry).
UndoEnds == pc = "cleanup" ~> pc = "undone"

-----------------------------------------------------------------------------
(* The layer keeps the promise of UndoDisk.                                *)
Pairs(e) == [a \in Extent(e) |-> e.data[a - e.loc + 1]]
Installed == {"store", "installed", "installed_no_log", "reinit", "load", "load_failed"}
Undoing == pc \in {"undo", "uwrite", "retry", "flushed", "undone"}
LogOldestFirst ==
    LET left == IF Undoing THEN SubSeq(uninstall_data, undo.i, Len(uninstall_data)) ELSE uninstall_data
        log == IF Undoing \/ pc \in Installed \ {"store"} THEN Reverse(left) ELSE left
    IN  [i \in DOMAIN log |-> Pairs(log[i])]
Phase ==
    CASE pc \in Installed -> "installed"
      [] pc = "undone" -> "undone"
      [] pc = "cleanup" \/ (Undoing /\ pc # "undone") -> "undo"
      [] OTHER -> "install"

Promise == INSTANCE UndoDisk WITH
    Addr <- Bytes, Value <- Values, orig <- Orig, view <- Contents, log <- LogOldestFirst,
    phase <- Phase, failed <- undo.write_fail \/ undo.flush_fail

\* Every step of the layer is a step UndoDisk allows, or none.
KeepsPromise == Promise!UndoSpec
=============================================================================
