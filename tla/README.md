# CELL: TLA+ models, checks and proofs

CELL is an experimental dataflow kernel in Rust. The bootstrap processor (BSP)
sends packets and one tensor to a second core (AP) through lock-free
single-producer single-consumer queues, and the AP sends results back. The
repository carries the host tool that makes its images bootable, `limine`, as C
source (`.tools/limine/Limine-9.6.7-binary/limine.c`). This directory models
the kernel and the tool in TLA+, checks them with TLC, and proves with TLAPS the
safety of the queue, the kernel, the allocator and the tool's device layer,
what an install keeps, puts in place and takes back, what the command line
means, and the arithmetic the two programs rest on.

## The system's parts

| Part | Source | State | Operations | Talks to |
|---|---|---|---|---|
| SPSC queue | `cell-queue/src/lib.rs` | `buffer`, atomics `head`, `tail` | `push`, `pop`, `is_full`, `is_empty`, `split`, `drop` | one producer thread, one consumer thread |
| Kernel, BSP | `cell-baremetal/src/main.rs`, `_start` | locals of the batch, `Supervisor` | boot, probe, prepare tensor, start AP, send, wait, drain, verdict | AP through three queues and four atomics |
| Kernel, AP | same, `ap_entry` | `AP_PROCESSED`, locals | online, packet loop, tensor reduction, frame release | BSP, allocator |
| Serial output | same, `serial_write` | `SERIAL_LOCK`, `SERIAL` | print a line under a spin lock | both cores |
| Physical memory manager | `cell-baremetal/src/pmm.rs` | two bitmaps, three counters | `initialize`, `allocate_frame`, `free_frame` | both cores, without a lock |
| Supervisor | `cell-supervisor/src/lib.rs` | `records`, `len` | `observe`, `failure_count`, `find_trace`, `reset_failed_node` | BSP |
| Payload typestate | `cell-core/src/lib.rs` | values only | `RawPayload::new`, `validate`, `WorkResult` | both cores |
| Tensor chunk | `cell-core/src/tensor.rs` | shape, buffer pointer, `byte_len` | `new`, `as_mut_slice`, `freeze`, `as_slice`, `deconstruct` | both cores |
| Simulation harness | `tests/simulation_harness` | tests | two pipelines over the queue | |
| Limine device layer | `limine.c`, lines 39-599 | one cached block, log of overwritten data | `_device_read`, `_device_write`, flush, `uninstall`, store and load of the log | the device through `fread`/`fwrite` |
| Limine disk formats | `limine.c`, lines 53-271 | none | `set_pos`, `lba2chs`, `crc32`, `endswap`, `gpt2mbr_type` | |
| Limine bios-install | `limine.c`, lines 613-1268 | the device, locals | probe, ISOHYBRID conversion, sanity checks, embedding, stage 2, cleanup | device layer |
| Limine command line | `limine.c`, lines 1394-1479 | arguments | `main`, `version`, `print_datadir`, options of `bios_install` | bios-install, enroll-config |
| Limine enroll-config | `limine.c`, lines 1271-1392 | the executable and its copy | search for the signature, rewrite of the slot | the executable |
| Boot files | `limine-bios-hdd.h`, `limine.h`, `scripts` | an image as bytes, struct layouts, build files | | |

What is hard here: two cores on weakly ordered memory, loads that return old
values, counters that wrap, plain memory (slots, tensor frame, allocator, UART)
whose only protection is the order that atomics build, two cores that each spin
on what the other does next, and a memory map that may be anything. In the
tool: I/O that fails at any call, a write-back cache and stdio's own buffer
between the program and the device, an undo that has to work after any prefix of
an install, and arithmetic on sizes at their limits.
`PROJECT.json` lists each such hazard at its line with the properties that
cover it.

What makes each part correct:

- queue: no data race on a slot, no unread item overwritten, every item handed
  over once and in order, `drop` leaves nothing behind;
- kernel: every trace reported once, in order, with the right verdict; the
  tensor's frame has one owner and comes back; the sum is the AP's; both cores
  halt;
- allocator: only frames wholly inside usable memory, none handed out twice,
  counters that agree with the bitmaps;
- device layer: writes are handed to the system in order, success leaves at most
  the last block behind in stdio, an undo ends and restores the disk or says that
  it did not, but for what a torn write left and what stdio lost;
- bios-install: partitions and partition tables survive, stage 2 is where the
  boot sector looks for it, and a failed or uninstalled install changes nothing,
  with the same two exceptions;
- enroll-config: one slot of the executable changes and nothing else.

## Modules

### `SpscQueue`: the ring under release/acquire memory

`head` and `tail` are not numbers but the *stores the other side may still
read*. Each counter has one writer, so its modification order is the writer's
program order; a load by the other side returns any store not older than the
one it read last, so stale loads are explored exhaustively. Each store carries
the set `hb` of slots whose latest access by the storing side is ordered before
a load that acquires it; `pHB` and `cHB` are the same for the two sides' next
steps. A slot touched outside that set is a data race, and a racing read
returns anything, `Uninit` included. `push_inner` and `pop_inner` are three
steps each: the two loads with the full or empty check (`PushLoad`/`PushFull`,
`PopLoad`/`PopEmpty`), the access to the slot (`PushWrite`, `PopRead`) and the
Release store (`PushStore`, `PopStore`). `Drop` is the start of
`drop(&mut self)`: the exclusive borrow orders everything before it; the loop
is then `PopStep`. The handles `Producer` and `Consumer` forward to the same
functions. `proom` and `csome` remember that `is_full` or `is_empty` said no.
`is_empty` and `is_full` are asked by the side that then acts on the answer
(`Consumer::is_empty` is the consumer's); asked by a third thread they promise
nothing.

### `BoundedFifo`: what the queue promises

A sequence of at most `CAP` items. `freed` and `fresh` are the removals and
additions the other side has not noticed yet; they delay a call and lose
nothing. `SpscQueue!FifoSafety` maps the ring onto it: the contents are the
slots from `T` to `H`, `freed` and `fresh` the distances between the newest
store and the last one read.

### `Kernel`: the two cores

One action per stage of `_start` and `ap_entry`, in the code's order, with
every early halt but one: the halt after `RawPayload::new` (`main.rs:224`) is
left out, because the payloads sent have at most nine bytes and cannot reach it.
The queues are FIFO sequences of messages. A `push` or `pop` in a spin loop that
fails changes nothing, so `Push` and `Pop` simply wait; the one push that is not retried, of the tensor, meets a queue from which nothing
was ever popped, so its view cannot be stale. `boot` holds Limine's answers and
is chosen arbitrarily. Each core prints through the spin lock of
`serial_write`: an action that prints leaves its lines in `todo`, and the core
goes on only after every line has been through `SerialLock`, `SerialWrite` and
`SerialUnlock`, so the other core's lines may come between.

Ordering is kept by vector clocks: `clock[c][d]` counts the accesses of core
`d` to plain shared memory that happen before core `c`'s next step, Release
stores and pushes carry the clock, Acquire loads and pops join it. An access
is race-free when the other core's latest access to the same location is
within the clock. Nothing is assumed of `goto_address.write`, so the orderings
shown come from the kernel's own atomics.

Abstracted: payload bytes (only whether a payload is empty), the tensor's
numbers (1024 ones, or something else), the wording of lines. The AP's
`fetch_add` on `AP_PROCESSED` is joined with the push before it, as no other
core reads it. Observing a completed result is a no-op in `Supervisor::observe`,
so `Drain` calls it for every result although the code calls it for failures.
`Verdict`'s literals 9 and 1 are `PACKET_COUNT - 1` and 1.

### `FrameAllocator` and `BitmapPmm`: the allocator

`FrameAllocator` is the promise: a set of usable frames, lowest free one first.
`Kernel` uses it; `BitmapPmm` is the code: words as sets of bits, counters,
`initialize`'s loops a step at a time, `checked_add`, rounding and clipping.
`AllocatorSafety` maps the bitmaps onto the sets; while `initialize` runs the
abstract allocator is still uninitialised. Frame numbers passed to `free`
include reserved ones, free ones and numbers beyond the bitmap.

### `Supervisor`

`observe` and `failure_count` over the log of failures, used by `Kernel`.

### `TensorChunk`: shapes and slices

`total_elements` with its saturating product, `new`'s unchecked multiplication
(a build panics or wraps), `freeze`, `as_slice` with its three assertions and
`deconstruct`, over a `usize` with `WORD` values.

### `UndoDisk`: what the device layer promises

A device that reads back what was written, and a log of what each write
replaced. A write and a log entry are both *patches*, functions from some
addresses to values. `WriteTo`, `Commit`, `GiveUp`, `Lose`, `UndoEntry`,
`UndoPart`, `UndoFails` and `Finish` are what an install and an undo may do;
`Write`, `CommitLosing`, `Drop`, `EntryBack`, `EntrySkipped`, `FlushFails` and
`EndUndo` are the more exact steps that `BiosInstall` takes. Two exceptions are
part of the promise because they are part of the code. `damaged` is the set of
addresses where the device may hold something other than what the completed
writes and put-backs made of it: a write that failed half way is there without
being in the log, and a block that stdio accepted may never arrive. An entry that
is put back takes its addresses out of the set again. `failed` says that
`uninstall` has reported an error, after which nothing is promised.

### `DeviceCache`: the device layer

`cached_block`, `cache_state` and the cache over a stdio stream over a disk of
bytes. The stream is fully buffered (`fopen` at line 690, no `setvbuf` and no
`fflush`), so there are two contents: `dev.file` is what the program gave to the
stream, `dev.disk` what the stream gave to the system. A successful `fwrite` may
stay in the buffer or go out at once (`WriteBlock`); what stays goes out at the
next `fseek` (`Drain`, in `device_flush_cache` and `ReadBlock`) or at the
unchecked `fclose` (`CloseDevice`), in whole or up to any byte, and is forgotten
when that fails, although the cache is marked clean by then. Every `fread`,
`fwrite` and write of the buffer may fail (at most `MaxFaults` times, or for good
once the device has gone away); a failed `fread` leaves junk in the cache, as the
code does. `damaged` records where the stream does not hold what the completed
writes and put-backs made of it; no guard reads it.

`_device_read` and `_device_write` go block by block; `_device_write` reads the
old data first, and counts its log entry last. `Cleanup`, `Store`,
`UninstallRun`, `Load` and the undo with its one retry per entry follow the code;
a later `--uninstall` starts with an empty cache. The stored log is read back as
it was written or not at all: the bytes of its file are left out. `KeepsPromise`
is the refinement of `UndoDisk`; the mapping takes the stream under the dirty
block as the contents and the log oldest first, and an entry that stdio loses
without a report is a `Lose` or part of `Finish`.

### `DiskFormats`, `Crc32`, `DiskWalk`: pure functions

Each as an operator; the operators of `DiskFormats` are the ones `BiosInstall`
uses. `DiskWalk` goes through inputs one after the other and states what each
function should compute of them.

### `BiosInstall`: bios_install over `UndoDisk`

The composition of the install procedure with the device: `BiosInstall` takes
the actions of `UndoDisk` by `INSTANCE`, and every `device_write` is one
`Write`. The disk is divided into *cells*: each field that the code reads or
writes by itself (a flag or an extent of a partition entry, a GPT entry, a
header, the fields of the boot sector) is one cell with its byte position, and
the rest of each block another. A write touches the cells its byte range
overlaps, so a range computed wrongly hits its neighbours. A GPT header is its
count, the sum of the array and its own sum, where a sum is an injective
function of what it covers. One action per stage of the procedure, one step per
`device_write`; any device call may fail (`IoError`) and jumps to `cleanup`.

What goes wrong between the program and the device is modelled as a write or a
put-back at a time. A failing `device_write` leaves any number of its first
blocks on the device and no log entry (`TornWrite`, `BlockSize`); `Cleanup` drops
the block that was written last with the cache, or not (`Pending`); `fclose`
after a reported success may lose it too (`FlushAll`). In the undo an entry goes
back, or fails twice and is skipped with a report, or goes back and loses its
last block in stdio without one (`PutBack`), and the last flush may fail
(`UndoReturn`). `view` is what the completed writes and put-backs make of the
device, `damaged` the cells where it may hold something else. The install never
reads a damaged cell, because nothing is damaged before the step to `cleanup`.
A read that succeeds in the middle of an entry and the bytes of a half-written
cell are `DeviceCache`'s subject.

`sscanf` failing leaves the partition number unset: any number is tried.
Storing a fifth partition past `part_to_conv` is undefined and ends the
behaviour.

### `LimineCli` and `EnrollConfig`: the command line

`main`, `version`, `print_datadir` and the argument loop of `bios_install`; on
`enroll-config` it calls `EnrollConfig`, and `limine` may be started again on
the executable the last run left. `EnrollConfig` keeps the naive search of the
code, its bound, `remove_arg` under the running loop, and reads and writes that
fail; an `fwrite` stops after any number of characters. An argument is its head
and, for the one option with a value, what follows the 21 characters compared.

How the parts of `limine.c` fit: `DeviceCache` refines `UndoDisk`,
`BiosInstall` runs on `UndoDisk`. `WritesReachDiskInOrder` says that what the
system holds when the tool is killed is a prefix of the writes, up to the block
being written, and `GptStaysValid` that after every prefix both copies of the GPT
are valid, if its unused entries were zero. Nothing is claimed of a power cut: the code calls no `fsync`, so
nothing orders what the system has accepted on its way to the medium.

Each module `XProofs` holds the theorems about `X`, `LimineCliProofs` also those
about `EnrollConfig`, and `ArithmeticProofs` those about `TensorChunk` and
`DiskWalk`; see "What is proved".

Definitions whose comment starts with "Mutant" are wrong versions of the
definition below them. They are used by no specification: each shows that a
property notices the corresponding mistake.

## Runs

| Run | Instance | Shows |
|---|---|---|
| `queue` | `CAP = 4`, counters modulo 8, two items; about 105,000 states | the inductive invariant, no data race, no overwrite, check-then-act is safe, the ring implements `BoundedFifo`, `drop` empties the ring and ends |
| `queue_wrap` | `CAP = 3`, counters modulo 8 | the overwrite at the counter's wrap (finding) |
| `kernel` | the kernel's constants (10 packets, capacities 16, 32, 2), three frames, all 192 boot answers; about 7,400 states | `Lineage`, `NoDataRace`, `FrameOwnership`, `SumAgrees`, `ErrorsUnreachable`, `ConsoleOrder`, and that the batch completes and both cores halt |
| `kernel_tight` | 4 packets, capacities 1, 4, 1 | the same pipeline under back-pressure: `INTER_CORE_QUEUE` is full after every push, `COMPLETION_QUEUE` full at the end |
| `kernel_pmm_comment` | the kernel's constants | the AP uses the allocator (finding) |
| `pmm` | 2 words of 2 bits, frames of 4 bytes, addresses below 32, about 1,000 memory maps; about 35,000 states | counters, exactness of the usable set, reserved frames, refinement of `FrameAllocator` |
| `tensor` | `usize` with 64 values, dimensions 0, 3, 16, 63; about 28,000 states | a slice of a tensor that fits has all its elements, also after a product saturated |
| `device` | 6 bytes, blocks of 2 (or 4, when the first guess fails), a log of 3 entries, 2 failing calls, a device that may vanish; about 554,000 states | writes reach the system in order, success leaves at most the last block in stdio, an undo ends and restores the disk but for torn and lost bytes, refinement of `UndoDisk` |
| `device_torn` | the same layer | a torn write is not undone (finding) |
| `formats` | 2,101 inputs | seeks, CHS addresses near 0, near the limit and between, halves of a stage 2 of every size up to 130,048 bytes, where the width of their fields ends, CRC-32 for every word of the table and streams of up to 8 bytes on both byte orders |
| `bios` | 438 pairs of disk and command line, one failing call; about 205,000 states | `InstallUndone`, `TableKept`, `ConvertedTable`, `PartitionsKept`, `StageTwoComplete`, `GptStaysValid` |
| `limine` | every `bios-install` line of up to 4 of 11 words, all other commands, about 6,700 executables, two runs, one failing call; about 685,000 states | options mean the same in any place and `--uninstall` never installs; over both runs only one slot of the executable changes |

Bounds. The queue needs no bound on operations: with counters modulo 8 its
state space is finite, and a behaviour wraps the slots and the counters any
number of times. `WORD` is the smallest multiple of `CAP` above it, so that a
wrap happens in the middle of the ring's life; two items are enough to tell
items apart, since the code never looks at them. The kernel runs with its real
constants; three frames let the probe's and the tensor's frame be chosen among
several. The allocator's words, frames and address space are the smallest with
two words of more than one bit, several frames per word, unaligned bases and
room above the limit for sums that overflow.

The device needs three blocks so that a write may cover one partly and another
wholly, and two faults so that a retry may fail as well. `bios` has one failing
call, which may be a torn write, a lost block or an entry given up; two, such as
a torn write and then a lost put-back, take longer than five minutes, and the
theorems hold for any number. `formats` takes 64 sizes of stage 2 per input, so
that whole sectors and the 18,738 bytes of the repository's image are among them.
`bios` keeps the real 512-byte blocks, the real sector numbers (63, 32 KiB) and a stage 2 of 37
sectors, odd so that its halves differ; 16 entries of one block each leave room
for stage 2 beside 12 or 13 used ones and not beside 14, and partition numbers
reach past the table. The array starts at block 3 so that the ext magic at byte
1080 lies outside it. `UINT32` is 2^16, so that a partition can lie beyond what
an MBR can name. `limine`'s signature of three characters starts and ends with
the same one, as the code's does, and one of the sums *is* the signature, so
that a second search may be misled.

Deadlock checking is off for the programs that end, and for the kernel, which
stops by design: `halt()` on both cores. Stopping anywhere else is excluded by `Halts` and
`BatchCompletes`.

Fairness. `SpscQueue!FairSpec`: the thread that runs `drop` keeps running; no
caller is obliged to call. `Kernel!FairSpec`: weak fairness of each core, which
stands for a core that keeps executing and stores that become visible in finite
time. No fairness of the spin lock is assumed: each core prints finitely often,
so a waiting core finds the lock free in the end. `DeviceCache!Spec`: weak
fairness of the cleanup's own steps, which is a process that keeps running; no
I/O is assumed to succeed.

The assumption `PACKET_COUNT <= COMPLETION_CAP` of `Kernel` is a real
condition on the constants, not checked anywhere in the code: the BSP drains
`COMPLETION_QUEUE` only after `TENSOR_COMPLETE`, which the AP stores only after
the whole batch. With a smaller queue both cores wait for ever.

## Findings

- `push_inner` takes the slot `head % CAP` of a wrapping counter. If `CAP` does
  not divide 2^64 (2^32 on 32-bit targets), the slots jump when the counter
  wraps and a push may overwrite an item not yet popped, against the SAFETY
  comment above the write. The kernel's capacities are powers of two and not
  affected; the test harness uses 10.
- The comment on `pmm::initialize` says that APs do not access the allocator,
  and the repository's README that only the BSP calls it; `ap_entry` calls
  `free_frame`. The `kernel` run shows that the call is ordered after the BSP's.
- `_device_write` counts its log entry after its last block. If a write over
  several blocks fails half way, the first ones may be on the disk and no entry
  covers them, so the undo that "attempts to reverse" leaves them changed and
  reports no error.

Seen while modelling, without a run of their own:

- "Limine BIOS stages installed successfully!" is printed while the last block is
  still in stdio's buffer, and the result of `fclose` is ignored (lines
  1246-1265). In an undo, a block that fails on its way out of that buffer at the
  seek of line 345 makes the write of the *next* entry fail; the retry finds the
  cache clean, and "Uninstall data restored successfully." is printed although
  the entry before it is lost (lines 568-596). `UndoRestoresDisk` and
  `InstallUndone` state these losses as their exception `damaged`.
- Embedding takes one log entry for every unused GPT entry it zeroes, in both
  arrays. With 512-byte blocks that is at most about 115; with 4096-byte blocks
  29 blocks of 32 entries remain, so 1,600 and more writes meet a log of 256 and
  every such install is refused and undone (lines 503, 1149).
- The partition number is decremented before it is compared with
  `> number_of_partition_entries`: the number after the last one is accepted and
  what follows the array is taken for its entry (line 1074).
- A fifth partition of an ISOHYBRID is stored in `part_to_conv[4]` before it is
  refused (lines 811-832); the model ends there.
- 21 characters of `--uninstall-data-file=` are compared and skipped, so the
  name keeps its `=` (lines 678-682). Install and uninstall agree on it.
- `version -h` prints the version, not the help (line 1409).
- The search of `enroll_config` starts over *after* the mismatching character
  and its bound is for a signature's start while `i` is at its end, so it misses
  `+++CONFIG...` and a slot near the end; for files shorter than 153 bytes the
  bound wraps and the search leaves the buffer (lines 1345-1357).
- After `remove_arg` the loop skips an argument, so of `--quiet --reset` the
  second is taken for the executable (line 1297).
- `TensorChunk::new` multiplies a saturated count without a check: in a release
  build `byte_len` wraps and the slice is shorter than the shape says
  (`tensor.rs:103`).

## What is proved

`SpscQueueProofs` proves, for every `CAP` that divides `WORD` (the assumption
`CapDividesWord`, without which `queue_wrap` is a counterexample), every set of
items, every interleaving and every choice of stale loads:

- `QueueInvariant`: `Spec => []IInv`, and from it `QueueTypeOK`,
  `QueueRaceFree` (`NoDataRace`), `QueueSlotsSafe` (`NoOverwrite` and
  `ReadsInitialised`), `QueueCheckThenAct` (`CheckThenAct`) and
  `QueueDropDrains` (`DropDrains`);
- `QueueImplementsFifo`: `Spec => FifoSafety`.

None of the properties is inductive by itself. `IInv` adds: every store the
consumer may read lies between `T` and `H` in order, and every store the
producer may read between `H - CAP` and `T`, so an old load errs on the safe
side (`CountersInv`); what a call has checked still holds until it ends, because
the other side only moves away (`LocalsInv`); the slots from `T` to `H` hold
items (`SlotsInv`); each visible store orders the accesses to all slots it hands
over (`OrderInv`); `drop` sees the newest `head` (`DropInv`). The arithmetic
rests on one lemma, `IndexDistinct`: fewer than `CAP` consecutive counter values
have different slots, across the wrap, when `CAP` divides `WORD`. There is one
lemma per action and conjunct, and for the refinement one lemma per action that
names the abstract step it is.

`UndoDiskProofs` proves for every set of addresses and values, every capacity
of the log and every history of writes, failures and undo steps:

- `UndoInvariant`: `UndoSpec => []UndoInv`;
- `UndoRestoresTheDevice`: an undo that ended without an error restores every
  address that is not `damaged`.

The property is about the end of an undo and not inductive. `UndoInv` adds the
two facts that survive every step: the *oldest* entry that covers an address
holds its original value (`OldestIsOriginal`; a new entry is newer, and the undo
removes the newest), and an address that no entry covers and no failure damaged
has its original value until an entry is given up (`UncoveredIsOriginal`;
removing an entry that was the oldest for an address puts back exactly that
value). When the log is empty nothing is covered. That `damaged` is not a way out
is the other half of it: it is empty while the install runs, and a put-back takes
its addresses out again, so an address stays in it only when it was torn without
an entry or lost after its last put-back.

`BiosInstallProofs` proves `InstallIsUndone` (`Spec => []InstallUndone`) for
every geometry, every contents of the disk, every command line and any number
of failing calls, each with any of the outcomes above: a write torn at any block,
an entry given up, a block lost when the stream drains. Every action of the
install procedure is a step of `UndoDisk` or leaves the device alone, so the same
two facts are invariants of it, together with what `pc` says about the phase of
the device, and that without a failing call everything `damaged` is still covered
by the log (`Repairable`). The proof does not depend on what is written where.

`KernelProofs` proves, for every batch size, faulty
packet, queue capacity, number of frames and answer of Limine that satisfy
`BatchAssumption`, `CompletionAssumption` and `BootAssumption`:

- `KernelInvariant`: `Spec => []KInv`, and from it `KernelTypeOK`,
  `KernelRaceFree` (`NoDataRace`), `KernelLineage`, `KernelFrameOwnership`,
  `KernelSumAgrees` and `KernelErrorsUnreachable`;
- `KernelConsoleOrder`: `Spec => []ConsoleOrder`.

`KInv` says where one core can be while the other is somewhere (`Handshakes`),
when the tensor's descriptor is under way (`Descriptor`), who holds the frame
(`Ledger`), what is in it and in the sum (`Reduction`), who holds the serial
lock and which accesses its last release orders (`SerialInv`), that the clocks
carried by the tensor's message and by `TENSOR_COMPLETE` cover the accesses they
hand over (`StampsPast`, `TensorKnown`, `SumKnown`), and at which place each
trace is: reported, completed, in the AP's hand or sent (`Places`, `Progress`,
`Tallies`). No race then follows place by place: every access is by a core that
has acquired a clock covering the other's last one. `CInv` adds what has been
printed, or is the core's next line, when a core is at its program counter
(`Announced`), and that the trace lines on the UART and the one pending are as
many as the reports (`Counted`); it needs `KInv` because one core's line is
ordered before the other's only by the handshake between them.

`BitmapPmmProofs` proves, for every word size, bitmap size, frame size and
memory map (`SizeAssumption`, `MapAssumption`), `PmmInvariant` (`PInv`), and
from it `PmmTypeOK`, `PmmCountersAgree`, `PmmUsableExact` and
`PmmImplementsAllocator` (`Spec => AllocatorSafety`). `UsableExact` speaks only
of the finished bitmap; `PInv` adds what holds in the middle of `initialize`: the
usable frames are exactly those inside the entries read so far, except the ones
of the current entry that are still to be marked (`Progress`). The rest is
arithmetic: a word and a bit name one frame, and setting or clearing a bit
changes the count of its word by one.

`DeviceCacheProofs` proves, for every size of the device, of its blocks and of
the log, any requests and any number of failing calls, `DeviceInvariant`
(`DInv`), and from it `DeviceWritesInOrder`, `DeviceSuccessIsHandedOver`,
`DeviceUndoRestoresDisk` and the refinement `DeviceKeepsPromise`
(`Spec => KeepsPromise`): every step of the code is a step of `UndoDisk` or
leaves its state alone. `DInv` says that a clean cache holds what the stream
holds as long as it can be trusted, which it cannot after a failed `fread`, and
where the stream may be ahead of the disk (`DevInv`); which part of the running
operation is done (`OpInv`); that entries of the log lie on the device
(`LogInv`); that the contents are what the completed writes make of them, and
what the stream holds of them (`WrittenInv`, `FileInv`); that without a failing
call everything `damaged` is covered by the log (`CalmInv`); and `UndoInv` of
`UndoDisk` under the mapping, which the refinement carries over without proving
it again.

`BiosInstallProofs` also proves what a successful install writes, for every disk,
command line and number of failing calls. All of it is on the device unless the
ignored `fclose` lost the block that is then `damaged`:

- `InstallKeepsTable`: `Spec => []TableKept`, from the invariant `TabInv`: until
  the boot sector is written the table on the device is the original one, with
  the flags the checks have passed put in order (`Checked`); from then on it is
  in the copy, and it is back on the device after the last write. The cells of
  the table are shown to lie in the two ranges saved and outside every other
  range written;
- `InstallPlacesStageTwo`: `Spec => []StageTwoComplete`, from `StagesInv`: the
  places chosen lie behind the boot sector, the second one at the end of the
  first half or at a block edge after it (`Fits`), and after n of the last nine
  writes the first n have their effect (`Landed`). No cell lies across the end
  of the boot sector or across a block edge, so a write to one place never
  reaches a cell of the other unless the image continues there.

- `GptIsNeverLost`: `Spec => []GptStaysValid`, from `GptInv` (`GptInvariant`).
  At every write of the embedding the stage says which arrays are already
  shrunk to the entries that stay, that a copy whose header is still the old one
  has its old array, and that everything stage 2 will overwrite lies behind the
  entries the new headers count (`StageOf`). The undo needs more: `Trail` says
  that putting entries back one by one passes through exactly the contents that
  the writes produced, so each of them is valid again, until an entry is given
  up. The property speaks of a copy none of whose cells is damaged: a stage 2 torn
  in the array's tail leaves blocks that the old header, once put back, counts
  again, and TLC finds the property violated without that condition.
- `ConversionIsExact`: `Spec => []ConvertedTable`, from `ConvInv`
  (`ConversionInvariant`). After n entries of the loop the list holds the used
  ones among them, each at its *rank*, the number of used entries before it
  (`Gathered`); then the table is cleared with block 0, later blocks miss it, and
  its twenty fields are filled in one by one (`Filled`); the sanity checks find
  no flag set, so the first partition becomes active, and the finished table
  survives the boot sector in the copy. `OrigParts` chooses entries by the same
  rank, so no induction over the array is needed: the loop is the induction.
- `InstallKeepsPartitions`: `Spec => []PartitionsKept`, from two more
  invariants. `KeptInv` (`ReachInvariant`) says that whatever is changed so far
  lies in what the path taken may reach (`Reach`): the cells that end before
  sector 63 for an MBR; the boot sector, the headers, the arrays and the cells
  of the partition the user names for a GPT; the zeroed blocks and the sectors in
  front for a conversion; and that the places chosen for stage 2 lie there too.
  `HighInv` (`HighInvariant`) says that every partition of a table that passed
  the sanity checks starts behind sector 62, through the copy of the table to
  the end. With `TabInv` that holds of the table the disk had, with `ConvInv` of
  the GPT's own partitions after a conversion; a block edge then separates each
  partition from what is reached (`ReachApart`, `FrontApart`).

They rest on `GeometryAssumption` (blocks of whole sectors as in `lb_guesses`,
entries that divide a block, two arrays of 32 blocks that do not overlap, behind
block 0), which is what a valid GPT has and what the embedding takes for
granted; on `StageAssumption`, that the halves of stage 2 fit the 16-bit fields
they are stored in (the repository's image has 19,250 bytes); and on
`FieldAssumption`, that a flag is a byte, a count a number, and no used
partition starts at block 0. `GptIsNeverLost`, `ConversionIsExact` and
`InstallKeepsPartitions` also need `GptAssumption`: the arrays lie between the
headers, a disk with two signed headers has a valid GPT (right sums, equal
arrays, partitions between the arrays or beyond the device), and stage 2 plus one block fits the 32 KiB for which `bios_install` checks a
partition; and `BeyondAssumption`: the partition number after the last, which
the check `num > number_of_partition_entries` lets through, is not asked for
unless what is read there is unused. `InstallKeepsPartitions` needs two more:
`FrontAssumption`, that the image and one block, of at most 4096 bytes as in
`lb_guesses`, fit the 63 sectors in front of the first partition (19,250 + 4096
bytes of 32,256); and `VolumeAssumption`, that byte 32,769, where the ISO 9660
volume descriptor's name stands, lies between the arrays of a disk with a GPT.
It does with blocks of 512 bytes; with blocks of 4096 bytes a GPT's first array
covers it, so there is no such volume to keep, and the theorem says nothing of
such a disk (its part about the partitions, step `<1>5` of `KeptHolds`, does not
use the assumption). TLC evaluates all of them on the disks of `bios`.

`LimineCliProofs` proves, for command lines of every length and executables,
signatures and sums of every size (`LinesAssumption`, `SigAssumption`):

- `OptionsTheorem`: `Spec => []PlaceOfOptionsIrrelevant`. The property speaks of
  the finished line; `LineInv` says of every prefix of it that the loop has read
  the flags, the name of the device and the other arguments in it
  (`FlagsRead` and its companions), whatever order they stand in;
- `SlotTheorem`: `Spec => []OnlyOneSlotChanges`, over any number of runs, each
  of which may stop after any character. `FileInv` says that the file on the
  disk is the first one with part of one slot replaced. The heart of it is that
  a later run finds the slot the first one wrote (`FoundStays`, `SameScan`): the
  search is a function of what lies before the place it finds.

`ArithmeticProofs` proves `SliceTheorem` (`SliceIsWhole`) for every width of
`usize` and every shape (`ShapesAssumption`): a product that saturated stays
saturated, so a tensor that fits never did. For every input it proves
`ChsExact`, and with it `ChsTheorem` (`ChsDecodes`), `SeekTheorem`
(`SeekReaches`) and `HalvesTheorem` (`StageTwoCovered`), under
`InputAssumption`.

These are inductions over sequences and products. The library's induction
theorems cannot be cited with this prover, so the scans, sums and products are
recursive *functions* in a `LET`, which are shown to exist and then reasoned
about with the principle `Least` (a nonempty set of numbers has a smallest
element) and its consequence `Induct`.

Only model-checked:

- liveness (`DropEnds`, `BatchCompletes`, `Halts`, `UndoEnds`), which is out of
  the prover's reach;
- `SumIsRemainder`: `Crc32` works on bits with `Bitwise`, which no module with a
  theorem can use.

## Plan

1. Done: queue, kernel, allocator and device layer with their abstract
   specifications, all their safety properties proved; the tensor's arithmetic;
   all of `limine.c`, with every safety property of `BiosInstall` proved, and
   the arithmetic of `DiskFormats` except the sums.
2. `Pipeline`: the dataflow of the simulation harness over `BoundedFifo`, with
   `find_trace`, `reset_failed_node` and the validator's token.

## What is not modelled

- `limine-bios-hdd.h` is a generated array of bytes: the boot sector and stage 2
  as machine code, which the model tells apart by their offsets only.
- `limine.h` is the protocol's struct layouts and constants. It has no
  operations, and the kernel takes Limine's answers through a Rust crate.
- The bytes of the uninstall data file, messages and help texts (only which one
  is printed), Windows' pauses.
- UART port I/O, the panic handler (nothing modelled panics), formatting, the
  build and QEMU scripts, and the test harness: its push and pop loops are
  behaviours of `SpscQueue`.
- `split` called twice, or `push` from two threads, is outside the queue's
  contract and no caller does it.
