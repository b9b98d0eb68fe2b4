------------------------- MODULE DeviceCacheProofs -------------------------
(***************************************************************************)
(* Proofs about the device layer, for every size of the device, of its     *)
(* blocks and of the log, and every number of faults: it implements        *)
(* UndoDisk, writes reach the system in order, when success is reported    *)
(* stdio has every write and the device all but the last block, and an     *)
(* undo without errors restores what no failing call lost.                 *)
(***************************************************************************)
EXTENDS DeviceCache, TLAPS, SequenceTheorems, FiniteSetTheorems, WellFoundedInduction

\* UndoDisk again, with what is proved about it.
P == INSTANCE UndoDiskProofs WITH
    Addr <- Bytes, Value <- Values, orig <- Orig, view <- Contents, log <- LogOldestFirst,
    phase <- Phase, failed <- undo.write_fail \/ undo.flush_fail

-----------------------------------------------------------------------------
(* The inductive invariant.                                                *)

DevType ==
    [disk : [Bytes -> Values], file : [Bytes -> Values], cache : Seq(Values), cached_block : Int,
     cache_state : {"clean", "dirty"}, block_size : Nat, faults : Nat, gone : BOOLEAN]

\* Block b lies inside the device.
BlockFits(b, size) == (b + 1) * size <= NumBytes

\* A device after device_init: a cached block is as long as a block and lies
\* inside the device.
Shape(d) ==
    /\ d \in DevType /\ d.block_size # 0
    /\ d.cached_block # -1 => Len(d.cache) = d.block_size /\ BlockFits(d.cached_block, d.block_size)
    /\ d.cache_state = "dirty" => d.cached_block # -1

\* A clean block holds what the stream holds.
Coherent(d) ==
    d.cache_state = "clean" /\ d.cached_block # -1 =>
        \A a \in Bytes : InBlock(d, a) => d.cache[(a % d.block_size) + 1] = d.file[a]

Begun == pc \notin {"init", "init_failed"}
Writing == {"ready", "read", "save", "write", "store"}

\* Where stdio may hold a block the device does not have.
Buffering == {"store", "undo", "uwrite", "retry", "flushed"}

\* Nothing has failed so far.
Calm(d) == d.faults = 0 /\ ~d.gone

\* After a failed fread the cache may hold junk: only a fresh one is trusted.
Trusted ==
    \/ pc \in {"ready", "read", "save", "write"}
    \/ pc \in {"undo", "uwrite"} /\ ~undo.write_fail

DevInv ==
    /\ dev \in DevType /\ damaged \subseteq Bytes
    /\ Begun => Shape(dev)
    /\ ~Begun => dev.file = Orig /\ uninstall_data = <<>>
    /\ ~Begun \/ pc \in Installed => dev.cache_state = "clean"
    /\ pc \notin Buffering => dev.file = dev.disk
    /\ pc = "store" => \A a \in Bytes : dev.disk[a] = dev.file[a] \/ InBlock(dev, a)
    /\ pc \in {"flushed", "undone"} /\ ~undo.flush_fail => dev.cache_state = "clean"
    /\ Trusted => Coherent(dev)

OpType == [loc : Nat, data : Seq(Values), count : Nat, progress : Nat]

\* Byte k of the running operation, as a reader sees it.
Seen(k) == View(dev)[op.loc + k - 1]

\* The block of that byte lies inside the device.
FitsAt(k) == BlockFits((op.loc + k - 1) \div dev.block_size, dev.block_size)

OpInv ==
    /\ op \in OpType
    /\ pc \in {"read", "save", "write", "uwrite"} =>
         op.progress < op.count /\ op.loc + op.count <= NumBytes
    /\ pc \in {"save", "write"} =>
         op.data = NewData(Len(uninstall_data) + 1, op.count) /\ HasRoom /\ got \in Seq(Values)
    /\ pc = "save" =>
         /\ Len(got) = op.progress /\ \A k \in 1..op.progress : got[k] = Seen(k)
         /\ \A k \in 1..op.progress : FitsAt(k)
    /\ pc = "write" =>
         /\ Len(got) = op.count
         /\ \A k \in (op.progress + 1)..op.count : got[k] = Seen(k)
         /\ \A k \in 1..op.count : FitsAt(k)
    /\ pc = "uwrite" =>
         /\ undo.i <= Len(uninstall_data)
         /\ LET ud == uninstall_data[undo.i]
            IN  op.loc = ud.loc /\ op.count = ud.count /\ op.data = ud.data
    /\ pc = "write" \/ (pc = "uwrite" /\ ~undo.write_fail) =>
         \A k \in 1..op.progress : Seen(k) = op.data[k]

EntryType ==
    {e \in [loc : Nat, count : Nat, data : Seq(Values)] :
        e.count # 0 /\ e.loc + e.count <= NumBytes /\ Len(e.data) = e.count}

LogInv ==
    /\ uninstall_data \in Seq(EntryType) /\ Len(uninstall_data) <= UNINSTALL_DATA_MAX
    /\ undo \in [i : Nat, retry : BOOLEAN, write_fail : BOOLEAN, flush_fail : BOOLEAN]
    /\ undo.i \in 1..(Len(uninstall_data) + 1)
    /\ ~Undoing => undo = NoUndo
    /\ pc \in {"flushed", "undone"} => undo.i = Len(uninstall_data) + 1
    /\ pc = "retry" => undo.i <= Len(uninstall_data)
    /\ pc \in {"init", "init_failed", "cleanup"} \cup Writing \cup Installed \/ Undoing

\* The contents are what the completed writes make of them, and no value on
\* the disk comes from a write that was not begun.
WrittenInv ==
    pc \in Writing =>
        /\ \A a \in Bytes : Contents[a] = Written(a)
        /\ \A a \in Bytes : Writer(dev.disk[a]) <= Len(uninstall_data) + 1

\* What no entry covers and no running write touches is on the device as it
\* was.
FileInv ==
    pc \in {"ready", "read", "save", "write"} =>
        \A a \in Bytes : \/ dev.file[a] = Orig[a] \/ P!Covered(a)
                         \/ pc = "write" /\ a \in Extent(op)

\* Without a failing call nothing is damaged that will not be put back.
CalmInv == Calm(dev) /\ NoErrors => \A a \in damaged : P!Covered(a)

Own ==
    /\ DevInv /\ OpInv /\ LogInv /\ WrittenInv /\ WritesReachDiskInOrder
    /\ FileInv /\ CalmInv

DInv == Own /\ P!UndoInv

-----------------------------------------------------------------------------
(* Arithmetic.                                                             *)

\* A product with a larger factor is larger by at least the other factor.
LEMMA Product ==
    ASSUME NEW a \in Int, NEW b \in Int, NEW d \in Nat, a < b
    PROVE  a * d \in Int /\ b * d \in Int /\ a * d + d <= b * d
<1>1. (b - a) * d >= d OBVIOUS
<1> QED BY <1>1

\* Quotient and remainder.
LEMMA Quotient ==
    ASSUME NEW a \in Nat, NEW d \in Nat \ {0}
    PROVE  /\ a \div d \in Nat /\ a % d \in 0..(d - 1)
           /\ a = (a \div d) * d + (a % d)
<1>1. a % d \in 0..(d - 1) OBVIOUS
<1>2. a \div d \in Nat OBVIOUS
<1>3. a = (a \div d) * d + (a % d) OBVIOUS
<1> QED BY <1>1, <1>2, <1>3

\* There is one quotient and one remainder.
LEMMA QuotientUnique ==
    ASSUME NEW w \in Nat, NEW d \in Nat \ {0}, NEW b \in 0..(d - 1)
    PROVE  (w * d + b) \div d = w /\ (w * d + b) % d = b
<1> DEFINE a == w * d + b
<1>0. a \in Nat OBVIOUS
<1>1. a \div d \in Nat /\ a % d \in 0..(d - 1) /\ a = (a \div d) * d + (a % d) BY <1>0, Quotient
<1> DEFINE q == a \div d
           r == a % d
<1> HIDE DEF q, r
<1>2. q \in Nat /\ r \in 0..(d - 1) /\ w * d + b = q * d + r BY <1>1 DEF q, r
<1>3. ~(q < w)
  <2>1. q < w => q * d + d <= w * d /\ q * d \in Int /\ w * d \in Int BY <1>2, Product
  <2> QED BY <1>2, <2>1
<1>4. ~(w < q)
  <2>1. w < q => w * d + d <= q * d /\ q * d \in Int /\ w * d \in Int BY <1>2, Product
  <2> QED BY <1>2, <2>1
<1>5. q = w BY <1>2, <1>3, <1>4
<1>6. r = b BY <1>2, <1>5
<1> QED BY <1>5, <1>6 DEF q, r

\* The sizes and the values.
LEMMA Sizes ==
    /\ NumBytes \in Nat /\ NumBytes >= 1 /\ UNINSTALL_DATA_MAX \in Nat
    /\ Bytes \subseteq Nat /\ Bytes \subseteq Values /\ Junk \in Values /\ Values \subseteq Int
    /\ Orig \in [Bytes -> Values]
<1>1. /\ NumBytes \in Nat /\ NumBytes >= 1 /\ UNINSTALL_DATA_MAX \in Nat
  BY SizeAssumption
<1>2. Bytes \subseteq Nat BY <1>1 DEF Bytes
<1>3. Bytes \subseteq Values /\ Junk \in Values BY DEF Values
<1>4. Values \subseteq Int
  <2> SUFFICES ASSUME NEW x \in Values PROVE x \in Int OBVIOUS
  <2>1. CASE x \in Bytes BY <1>2, <2>1
  <2>2. CASE x = Junk BY <2>2 DEF Junk
  <2>3. CASE \E n \in 1..(UNINSTALL_DATA_MAX + 1), k \in 1..NumBytes : x = Datum(n, k)
    BY <1>1, <2>3 DEF Datum
  <2> QED BY <2>1, <2>2, <2>3 DEF Values
<1>5. Orig \in [Bytes -> Values] BY <1>3 DEF Orig
<1> QED BY <1>1, <1>2, <1>3, <1>4, <1>5

-----------------------------------------------------------------------------
(* The cache.                                                              *)

\* The parts of a device's shape.
LEMMA ShapeParts ==
    ASSUME NEW d, Shape(d)
    PROVE  /\ d.disk \in [Bytes -> Values] /\ d.file \in [Bytes -> Values]
           /\ d.cache \in Seq(Values) /\ d.cached_block \in Int
           /\ d.cache_state \in {"clean", "dirty"} /\ d.block_size \in Nat \ {0}
           /\ d.faults \in Nat /\ d.gone \in BOOLEAN
           /\ d.cached_block # -1 => Len(d.cache) = d.block_size /\ BlockFits(d.cached_block, d.block_size)
           /\ d.cache_state = "dirty" => d.cached_block # -1
BY DEF Shape, DevType

\* A reader sees a value in every byte.
LEMMA ViewType ==
    ASSUME NEW d, Shape(d) PROVE View(d) \in [Bytes -> Values]
<1>1. ASSUME NEW a \in Bytes, d.cache_state = "dirty" PROVE d.cache[(a % d.block_size) + 1] \in Values
  <2>1. a \in Nat BY Sizes
  <2>2. (a % d.block_size) \in 0..(d.block_size - 1) BY <2>1, ShapeParts, Quotient
  <2>3. (a % d.block_size) + 1 \in 1..Len(d.cache) BY <1>1, <2>2, ShapeParts
  <2> QED BY <2>3, ShapeParts, ElementOfSeq
<1> QED BY <1>1, ShapeParts DEF View

\* With a clean cache a reader sees the stream.
LEMMA CleanView ==
    ASSUME NEW d, d.file \in [Bytes -> Values], d.cache_state = "clean" PROVE View(d) = d.file
BY DEF View

\* The view depends on five fields only, and so does coherence.
LEMMA SameView ==
    ASSUME NEW d, NEW e, e.file = d.file, e.cache = d.cache, e.cached_block = d.cached_block,
           e.cache_state = d.cache_state, e.block_size = d.block_size
    PROVE  View(e) = View(d) /\ (Coherent(d) => Coherent(e))
<1>1. \A a \in Bytes : InBlock(e, a) <=> InBlock(d, a) BY DEF InBlock
<1>2. View(e) = View(d) BY <1>1 DEF View
<1>3. Coherent(d) => Coherent(e) BY <1>1 DEF Coherent
<1> QED BY <1>2, <1>3

\* r is d for a reader.
Kept(d, r) == Shape(r) /\ r.block_size = d.block_size /\ View(r) = View(d)

\* The fields of the cache.
SameCache(d, r) ==
    /\ r.cache = d.cache /\ r.cached_block = d.cached_block
    /\ r.cache_state = d.cache_state /\ r.block_size = d.block_size

Fault(d) == [d EXCEPT !.faults = @ + 1]

\* The outcomes of an I/O call.
LEMMA OutcomesAre ==
    ASSUME NEW d, NEW done, NEW after, NEW r \in Outcomes(d, done, after)
    PROVE  \/ r.ok = FALSE /\ r.dev = d /\ d.gone
           \/ r.ok = TRUE /\ r.dev = done
           \/ r.ok = FALSE /\ \E x \in after : r.dev = Fault(x)
BY DEF Outcomes, Outcome, Fault

\* Counting a fault changes nothing else.
LEMMA Faulted ==
    ASSUME NEW d, Shape(d)
    PROVE  /\ Kept(d, Fault(d)) /\ Fault(d).file = d.file /\ Fault(d).disk = d.disk
           /\ SameCache(d, Fault(d)) /\ ~Calm(Fault(d))
<1> DEFINE e == Fault(d)
<1>1. Shape(e) /\ e.file = d.file /\ e.disk = d.disk /\ e.cache = d.cache /\ e.cached_block = d.cached_block
      /\ e.cache_state = d.cache_state /\ e.block_size = d.block_size
  BY DEF Shape, DevType, Fault
<1>2. ~Calm(e)
  <2>1. d.faults \in Nat /\ e.faults = d.faults + 1 BY DEF Shape, DevType, Fault
  <2> QED BY <2>1 DEF Calm
<1> HIDE DEF e
<1>3. View(e) = View(d) BY <1>1, SameView
<1>4. Kept(d, e) BY <1>1, <1>3 DEF Kept
<1> QED BY <1>1, <1>2, <1>4 DEF e, SameCache

\* Other contents in the same cache.
Holding(d, disk, file) == [d EXCEPT !.disk = disk, !.file = file]

\* They keep the shape.
LEMMA HoldingShape ==
    ASSUME NEW d, Shape(d), NEW disk \in [Bytes -> Values], NEW file \in [Bytes -> Values]
    PROVE  /\ Shape(Holding(d, disk, file)) /\ SameCache(d, Holding(d, disk, file))
           /\ Holding(d, disk, file).disk = disk /\ Holding(d, disk, file).file = file
           /\ Calm(Holding(d, disk, file)) <=> Calm(d)
<1> DEFINE e == [d EXCEPT !.disk = disk]
           h == [e EXCEPT !.file = file]
<1>0. d \in DevType BY DEF Shape
<1>1. Holding(d, disk, file) = h BY <1>0 DEF Holding, DevType
<1>2. /\ e \in DevType /\ e.disk = disk /\ SameCache(d, e)
      /\ e.faults = d.faults /\ e.gone = d.gone
  BY <1>0 DEF DevType, SameCache
<1> HIDE DEF e
<1>3. /\ h \in DevType /\ h.disk = disk /\ h.file = file /\ SameCache(e, h)
      /\ h.faults = e.faults /\ h.gone = e.gone
  BY <1>2 DEF DevType, SameCache
<1> HIDE DEF h
<1>4. SameCache(d, h) BY <1>2, <1>3 DEF SameCache
<1>5. Shape(h) BY <1>3, <1>4 DEF Shape, SameCache
<1> QED BY <1>1, <1>2, <1>3, <1>4, <1>5 DEF Calm

\* The buffered block on its way to the device, all of it or up to a byte.
LEMMA DrainedShape ==
    ASSUME NEW d, Shape(d), NEW cut \in Nat
    PROVE  /\ Shape(Drained(d, cut)) /\ SameCache(d, Drained(d, cut))
           /\ Drained(d, cut).disk = Drained(d, cut).file
           /\ cut = NumBytes => Drained(d, cut).file = d.file
           /\ Calm(Drained(d, cut)) <=> Calm(d)
<1> DEFINE w == [a \in Bytes |-> IF a < cut THEN d.file[a] ELSE d.disk[a]]
<1>1. w \in [Bytes -> Values] BY ShapeParts
<1>2. cut = NumBytes => w = d.file
  <2>1. \A a \in Bytes : a < NumBytes BY Sizes DEF Bytes
  <2> QED BY <2>1, ShapeParts
<1>3. Drained(d, cut) = Holding(d, w, w) BY DEF Drained, Holding
<1> HIDE DEF w
<1> QED BY <1>1, <1>2, <1>3, HoldingShape

\* fseek and fclose: the buffered block goes out, or what has not gone out is
\* forgotten, which only a failing call can do.
LEMMA DrainOutcome ==
    ASSUME NEW d, Shape(d), NEW r \in Drain(d)
    PROVE  /\ r.ok \in BOOLEAN /\ Shape(r.dev) /\ SameCache(d, r.dev)
           /\ r.dev.disk = r.dev.file
           /\ r.ok => r.dev.file = d.file
           /\ Calm(r.dev) => Calm(d) /\ r.ok
<1>1. CASE d.file = d.disk
  <2>1. r.ok = TRUE /\ r.dev = d BY <1>1 DEF Drain, Outcome
  <2> QED BY <1>1, <2>1 DEF SameCache
<1>2. CASE d.file # d.disk /\ d.gone
  <2>1. r.ok = FALSE /\ r.dev = Drained(d, 0) BY <1>2 DEF Drain, Outcome
  <2>2. ~Calm(d) BY <1>2 DEF Calm
  <2>3. /\ Shape(Drained(d, 0)) /\ SameCache(d, Drained(d, 0))
        /\ Drained(d, 0).disk = Drained(d, 0).file /\ (Calm(Drained(d, 0)) <=> Calm(d))
    BY DrainedShape
  <2> QED BY <2>1, <2>2, <2>3
<1>3. CASE d.file # d.disk /\ ~d.gone
  <2> DEFINE done == Drained(d, NumBytes)
             after == {Drained(d, cut) : cut \in 0..NumBytes}
  <2>1. r \in Outcomes(d, done, after) BY <1>3 DEF Drain
  <2>2. /\ Shape(done) /\ SameCache(d, done) /\ done.disk = done.file /\ done.file = d.file
        /\ Calm(done) <=> Calm(d)
    <3>1. NumBytes \in Nat BY Sizes
    <3> QED BY <3>1, DrainedShape
  <2>3. ASSUME NEW x \in after
        PROVE  /\ Shape(Fault(x)) /\ SameCache(d, Fault(x)) /\ Fault(x).disk = Fault(x).file
               /\ ~Calm(Fault(x))
    <3>1. PICK cut \in 0..NumBytes : x = Drained(d, cut) OBVIOUS
    <3>2. cut \in Nat BY Sizes
    <3>3. Shape(x) /\ SameCache(d, x) /\ x.disk = x.file BY <3>1, <3>2, DrainedShape
    <3>4. /\ Kept(x, Fault(x)) /\ Fault(x).file = x.file /\ Fault(x).disk = x.disk
          /\ SameCache(x, Fault(x)) /\ ~Calm(Fault(x))
      BY <3>3, Faulted
    <3> QED BY <3>3, <3>4 DEF Kept, SameCache
  <2> HIDE DEF done, after
  <2>4. \/ r.ok = FALSE /\ r.dev = d /\ d.gone
        \/ r.ok = TRUE /\ r.dev = done
        \/ r.ok = FALSE /\ \E x \in after : r.dev = Fault(x)
    BY <2>1, OutcomesAre
  <2> QED BY <1>3, <2>2, <2>3, <2>4
<1> QED BY <1>1, <1>2, <1>3

\* A write of the cached block, complete or cut short, is not seen by a
\* reader; a complete one makes the stream what the reader sees.
LEMMA FlushedView ==
    ASSUME NEW d, Shape(d), d.cache_state = "dirty", NEW n \in 0..d.block_size
    PROVE  /\ Kept(d, Flushed(d, n)) /\ SameCache(d, Flushed(d, n))
           /\ Flushed(d, n).disk = d.disk
           /\ n = d.block_size => Flushed(d, n).file = View(d)
           /\ Calm(Flushed(d, n)) <=> Calm(d)
<1> DEFINE new == [a \in Bytes |-> IF InBlock(d, a) /\ (a % d.block_size) < n
                                   THEN d.cache[(a % d.block_size) + 1] ELSE d.file[a]]
           e == Holding(d, d.disk, new)
<1>1. Flushed(d, n) = e
  <2>1. d \in DevType BY DEF Shape
  <2> QED BY <2>1 DEF Flushed, Holding, DevType
<1>2. new \in [Bytes -> Values]
  <2> SUFFICES ASSUME NEW a \in Bytes, InBlock(d, a) PROVE d.cache[(a % d.block_size) + 1] \in Values
    BY ShapeParts
  <2>1. View(d)[a] = d.cache[(a % d.block_size) + 1] BY DEF View
  <2> QED BY <2>1, ViewType
<1>3. /\ Shape(e) /\ SameCache(d, e) /\ e.disk = d.disk /\ e.file = new
      /\ Calm(e) <=> Calm(d)
  <2> HIDE DEF new
  <2> QED BY <1>2, ShapeParts, HoldingShape
<1> HIDE DEF e
<1>4. \A a \in Bytes : InBlock(e, a) <=> InBlock(d, a) BY <1>3 DEF InBlock, SameCache
<1>5. View(e) = View(d)
  <2>1. \A a \in Bytes : ~InBlock(d, a) => new[a] = d.file[a] OBVIOUS
  <2> HIDE DEF new
  <2> QED BY <1>3, <1>4, <2>1 DEF View, SameCache
<1>6. n = d.block_size => new = View(d)
  <2>1. \A a \in Bytes : (a % d.block_size) < d.block_size
    <3> SUFFICES ASSUME NEW a \in Bytes PROVE (a % d.block_size) < d.block_size OBVIOUS
    <3>1. (a % d.block_size) \in 0..(d.block_size - 1) BY Sizes, ShapeParts, Quotient
    <3> QED BY <3>1, ShapeParts
  <2> QED BY <2>1 DEF View
<1> HIDE DEF new
<1> QED BY <1>1, <1>3, <1>5, <1>6 DEF Kept, SameCache

\* The cache after a complete write: clean, and coherent.
LEMMA CleanedView ==
    ASSUME NEW d, Shape(d), d.cache_state = "dirty", NEW w, Kept(d, w), SameCache(d, w), w.file = View(d)
    PROVE  LET done == [w EXCEPT !.cache_state = "clean"]
           IN  /\ Kept(d, done) /\ done.cache_state = "clean" /\ done.file = View(d)
               /\ done.disk = w.disk /\ Coherent(done) /\ done.cached_block = d.cached_block
               /\ Calm(done) <=> Calm(w)
<1> DEFINE done == [w EXCEPT !.cache_state = "clean"]
<1>1. /\ Shape(done) /\ done.file = View(d) /\ done.cache = d.cache
      /\ done.cached_block = d.cached_block /\ done.cache_state = "clean"
      /\ done.block_size = d.block_size /\ done.disk = w.disk
      /\ Calm(done) <=> Calm(w)
  BY DEF Kept, SameCache, Shape, DevType, Calm
<1> HIDE DEF done
<1>2. View(done) = View(d) BY <1>1, ViewType, CleanView
<1>3. \A a \in Bytes : InBlock(done, a) <=> InBlock(d, a) BY <1>1 DEF InBlock
<1>4. \A a \in Bytes : InBlock(d, a) => View(d)[a] = d.cache[(a % d.block_size) + 1] BY DEF View
<1>5. Coherent(done) BY <1>1, <1>3, <1>4 DEF Coherent
<1> QED BY <1>1, <1>2, <1>5 DEF Kept, done

\* The fwrite of the dirty block, which stdio keeps, passes on or fails to.
LEMMA WriteOutcome ==
    ASSUME NEW d, Shape(d), d.cache_state = "dirty", d.disk = d.file, NEW r \in WriteBlock(d)
    PROVE  /\ Kept(d, r.dev) /\ r.ok \in BOOLEAN /\ r.dev.cached_block = d.cached_block
           /\ r.ok => /\ r.dev.cache_state = "clean" /\ r.dev.file = View(d) /\ Coherent(r.dev)
                      /\ r.dev.disk = d.disk \/ r.dev.disk = View(d)
           /\ ~r.ok => r.dev.disk = r.dev.file
           /\ Calm(r.dev) => Calm(d) /\ r.ok
<1> DEFINE bs == d.block_size
           whole == Flushed(d, bs)
           through(n) == [Flushed(d, n) EXCEPT !.disk = Flushed(d, n).file]
           buffered == [whole EXCEPT !.cache_state = "clean"]
           done == [through(bs) EXCEPT !.cache_state = "clean"]
           after == {through(n) : n \in 0..bs}
           Fine(x) == /\ Kept(d, x) /\ x.cache_state = "clean" /\ x.file = View(d) /\ Coherent(x)
                      /\ x.disk = d.disk \/ x.disk = View(d)
                      /\ x.cached_block = d.cached_block /\ (Calm(x) => Calm(d))
<1>0. bs \in 0..bs BY ShapeParts
<1>1. r = Outcome(TRUE, buffered) \/ r \in Outcomes(d, done, after) BY DEF WriteBlock
<1>2. ASSUME NEW n \in 0..bs
      PROVE  /\ Kept(d, through(n)) /\ SameCache(d, through(n)) /\ through(n).disk = through(n).file
             /\ n = bs => through(n).file = View(d)
             /\ Calm(through(n)) <=> Calm(d)
  <2> DEFINE f == Flushed(d, n)
             t == [f EXCEPT !.disk = f.file]
  <2>1. /\ Kept(d, f) /\ SameCache(d, f) /\ (n = bs => f.file = View(d)) /\ (Calm(f) <=> Calm(d))
    BY FlushedView
  <2> HIDE DEF f
  <2>2. Shape(f) BY <2>1 DEF Kept
  <2>3. t = Holding(f, f.file, f.file)
    <3>1. f \in DevType BY <2>2 DEF Shape
    <3> QED BY <3>1 DEF Holding, DevType
  <2>4. /\ Shape(t) /\ SameCache(f, t) /\ t.disk = f.file /\ t.file = f.file /\ (Calm(t) <=> Calm(f))
    BY <2>2, <2>3, ShapeParts, HoldingShape
  <2> HIDE DEF t
  <2>5. View(t) = View(f) BY <2>4, SameView DEF SameCache
  <2>6. Kept(d, t) /\ SameCache(d, t) BY <2>1, <2>4, <2>5 DEF Kept, SameCache
  <2> QED BY <2>1, <2>4, <2>6 DEF t, f
<1>3. Fine(buffered)
  <2>1. Kept(d, whole) /\ SameCache(d, whole) /\ whole.file = View(d) /\ whole.disk = d.disk
        /\ (Calm(whole) <=> Calm(d))
    BY <1>0, FlushedView
  <2> HIDE DEF whole
  <2> QED BY <2>1, CleanedView
<1>4. Fine(done)
  <2> DEFINE t == through(bs)
  <2>1. Kept(d, t) /\ SameCache(d, t) /\ t.disk = t.file /\ t.file = View(d) /\ (Calm(t) <=> Calm(d))
    BY <1>0, <1>2
  <2>2. done = [t EXCEPT !.cache_state = "clean"] OBVIOUS
  <2> HIDE DEF t, through, done
  <2> QED BY <2>1, <2>2, CleanedView
<1>5. ASSUME NEW x \in after
      PROVE  /\ Kept(d, Fault(x)) /\ Fault(x).disk = Fault(x).file
             /\ Fault(x).cached_block = d.cached_block /\ ~Calm(Fault(x))
  <2>1. PICK n \in 0..bs : x = through(n) OBVIOUS
  <2> HIDE DEF through
  <2>2. Kept(d, x) /\ SameCache(d, x) /\ x.disk = x.file BY <1>2, <2>1
  <2>3. /\ Kept(x, Fault(x)) /\ Fault(x).file = x.file /\ Fault(x).disk = x.disk
        /\ SameCache(x, Fault(x)) /\ ~Calm(Fault(x))
    BY <2>2, Faulted DEF Kept
  <2> QED BY <2>2, <2>3 DEF Kept, SameCache
<1> HIDE DEF buffered, done, after, Fine
<1>6. CASE r = Outcome(TRUE, buffered)
  <2>1. r.ok = TRUE /\ r.dev = buffered BY <1>6 DEF Outcome
  <2> QED BY <1>3, <2>1 DEF Fine
<1>7. CASE r \in Outcomes(d, done, after)
  <2>1. \/ r.ok = FALSE /\ r.dev = d /\ d.gone
        \/ r.ok = TRUE /\ r.dev = done
        \/ r.ok = FALSE /\ \E x \in after : r.dev = Fault(x)
    BY <1>7, OutcomesAre
  <2>2. CASE r.ok = FALSE /\ r.dev = d /\ d.gone
    <3>1. Kept(d, d) /\ ~Calm(d) BY <2>2 DEF Kept, Calm
    <3> QED BY <2>2, <3>1
  <2>3. CASE r.ok = TRUE /\ r.dev = done BY <1>4, <2>3 DEF Fine
  <2>4. CASE r.ok = FALSE /\ \E x \in after : r.dev = Fault(x) BY <1>5, <2>4
  <2> QED BY <2>1, <2>2, <2>3, <2>4
<1> QED BY <1>1, <1>6, <1>7

\* device_flush_cache: after a success a reader notices nothing and the stream
\* is what it sees; the device has it all but for one block, which a failing
\* call may lose later.
LEMMA FlushOutcome ==
    ASSUME NEW d, Shape(d), NEW r \in device_flush_cache(d)
    PROVE  /\ Shape(r.dev) /\ r.dev.block_size = d.block_size /\ r.ok \in BOOLEAN
           /\ r.ok => /\ Kept(d, r.dev) /\ r.dev.cache_state = "clean" /\ r.dev.file = View(d)
                      /\ Coherent(d) => Coherent(r.dev)
                      /\ d.disk = d.file =>
                           /\ r.dev.disk = d.disk \/ r.dev.disk = View(d)
                           /\ \A a \in Bytes : r.dev.disk[a] = r.dev.file[a] \/ InBlock(r.dev, a)
           /\ ~r.ok => r.dev.disk = r.dev.file
           /\ Calm(r.dev) => Calm(d) /\ r.ok
<1>1. CASE d.cache_state = "clean"
  <2>1. r.ok = TRUE /\ r.dev = d BY <1>1 DEF device_flush_cache, Outcome
  <2>2. View(d) = d.file BY <1>1, ShapeParts, CleanView
  <2> QED BY <1>1, <2>1, <2>2 DEF Kept
<1>2. CASE d.cache_state # "clean"
  <2>0. d.cache_state = "dirty" BY <1>2, ShapeParts
  <2>1. PICK s \in Drain(d) : r \in IF s.ok THEN WriteBlock(s.dev) ELSE {s}
    BY <1>2 DEF device_flush_cache
  <2>2. /\ s.ok \in BOOLEAN /\ Shape(s.dev) /\ SameCache(d, s.dev) /\ s.dev.disk = s.dev.file
        /\ s.ok => s.dev.file = d.file
        /\ Calm(s.dev) => Calm(d) /\ s.ok
    BY DrainOutcome
  <2>3. CASE ~s.ok
    <3>1. r = s BY <2>1, <2>3
    <3> QED BY <2>2, <2>3, <3>1 DEF SameCache
  <2>4. CASE s.ok
    <3> DEFINE e == s.dev
    <3>1. r \in WriteBlock(e) /\ e.cache_state = "dirty" BY <2>0, <2>1, <2>2, <2>4 DEF SameCache
    <3>2. View(e) = View(d) /\ e.block_size = d.block_size BY <2>2, <2>4, SameView DEF SameCache
    <3> HIDE DEF e
    <3>3. /\ Kept(e, r.dev) /\ r.ok \in BOOLEAN /\ r.dev.cached_block = e.cached_block
          /\ r.ok => /\ r.dev.cache_state = "clean" /\ r.dev.file = View(e) /\ Coherent(r.dev)
                     /\ r.dev.disk = e.disk \/ r.dev.disk = View(e)
          /\ ~r.ok => r.dev.disk = r.dev.file
          /\ Calm(r.dev) => Calm(e) /\ r.ok
      BY <2>2, <3>1, WriteOutcome DEF e
    <3>4. Kept(d, r.dev) BY <3>2, <3>3 DEF Kept
    <3>5. ASSUME r.ok, d.disk = d.file
          PROVE  /\ r.dev.disk = d.disk \/ r.dev.disk = View(d)
                 /\ \A a \in Bytes : r.dev.disk[a] = r.dev.file[a] \/ InBlock(r.dev, a)
      <4>1. e.disk = d.disk BY <2>2, <2>4, <3>5 DEF e
      <4>2. r.dev.disk = d.disk \/ r.dev.disk = View(d) BY <3>2, <3>3, <3>5, <4>1
      <4>3. \A a \in Bytes : InBlock(r.dev, a) <=> InBlock(d, a)
        BY <2>2, <3>3, <3>4 DEF InBlock, SameCache, Kept, e
      <4>4. \A a \in Bytes : d.disk[a] = View(d)[a] \/ InBlock(d, a) BY <3>5 DEF View
      <4> QED BY <3>2, <3>3, <3>5, <4>2, <4>3, <4>4
    <3> QED BY <2>2, <3>2, <3>3, <3>4, <3>5 DEF Kept, e
  <2> QED BY <2>2, <2>3, <2>4
<1> QED BY <1>1, <1>2

\* A cache filled by a function is a sequence of one block.
LEMMA CacheOf ==
    ASSUME NEW n \in Nat \ {0}, NEW F \in [1..n -> Values]
    PROVE  F \in Seq(Values) /\ Len(F) = n
OBVIOUS

\* The fread of a block: the stream does not change, and after a success the
\* cache holds the block; it fails when a call does, or past the end.
LEMMA FetchOutcome ==
    ASSUME NEW d, Shape(d), d.cache_state = "clean", NEW b \in Nat, NEW r \in FetchBlock(d, b)
    PROVE  /\ Kept(d, r.dev) /\ r.ok \in BOOLEAN
           /\ r.dev.file = d.file /\ r.dev.disk = d.disk /\ r.dev.cache_state = "clean"
           /\ r.ok => r.dev.cached_block = b /\ Coherent(r.dev)
           /\ Calm(r.dev) => Calm(d) /\ (r.ok \/ ~BlockFits(b, d.block_size))
<1> DEFINE bs == d.block_size
           junk == [k \in 1..d.block_size |-> Junk]
           bad == [d EXCEPT !.cache = junk]
           spoiled == {d, bad}
           data == BlockData(d, b)
           done == [d EXCEPT !.cache = data, !.cached_block = b]
           Fine(x) == /\ Kept(d, x) /\ x.file = d.file /\ x.disk = d.disk /\ x.cache_state = "clean"
                      /\ Calm(x) => Calm(d)
<1>0. bs \in Nat \ {0} /\ d.file \in [Bytes -> Values] BY ShapeParts
<1>1. \A x : (/\ Shape(x) /\ x.file = d.file /\ x.disk = d.disk /\ x.cache_state = "clean"
              /\ x.block_size = d.block_size /\ (Calm(x) => Calm(d))) => Fine(x)
  <2> SUFFICES ASSUME NEW x, Shape(x), x.file = d.file, x.disk = d.disk, x.cache_state = "clean",
                      x.block_size = d.block_size, Calm(x) => Calm(d)
               PROVE  Fine(x)
    OBVIOUS
  <2>1. View(x) = x.file /\ View(d) = d.file BY <1>0, CleanView
  <2> QED BY <2>1 DEF Kept
<1>2. Fine(d) BY <1>1
<1>3. Fine(bad)
  <2>1. junk \in Seq(Values) /\ Len(junk) = bs
    <3>1. junk \in [1..bs -> Values] BY Sizes
    <3> QED BY <1>0, <3>1, CacheOf
  <2> HIDE DEF junk
  <2>2. /\ Shape(bad) /\ bad.file = d.file /\ bad.disk = d.disk /\ bad.cache_state = "clean"
        /\ bad.block_size = bs /\ (Calm(bad) => Calm(d))
    BY <2>1 DEF Shape, DevType, Calm
  <2> HIDE DEF bad, Fine
  <2> QED BY <1>1, <2>2
<1>4. \A x \in spoiled : Fine(x) BY <1>2, <1>3
<1>5. \A x : Fine(x) => Fine(Fault(x)) /\ ~Calm(Fault(x))
  <2> SUFFICES ASSUME NEW x, Fine(x) PROVE Fine(Fault(x)) /\ ~Calm(Fault(x)) OBVIOUS
  <2>1. Shape(x) BY DEF Kept
  <2>2. /\ Kept(x, Fault(x)) /\ Fault(x).file = x.file /\ Fault(x).disk = x.disk
        /\ Fault(x).cache_state = x.cache_state /\ ~Calm(Fault(x))
    BY <2>1, Faulted DEF SameCache
  <2> QED BY <2>2 DEF Kept
<1>6. ASSUME ~((b + 1) * bs > NumBytes) PROVE Fine(done) /\ done.cached_block = b /\ Coherent(done)
  <2>0. \A k \in 1..bs : b * bs + k - 1 \in Bytes
    <3> DEFINE start == b * bs
    <3>1. (b + 1) * bs = start + bs /\ start \in Nat BY <1>0
    <3>2. start + bs <= NumBytes /\ NumBytes \in Nat BY <1>0, <1>6, <3>1, Sizes
    <3> HIDE DEF start
    <3>3. \A k \in 1..bs : start + k - 1 \in 0..(NumBytes - 1) BY <1>0, <3>1, <3>2
    <3> QED BY <3>3 DEF Bytes, start
  <2>1. data \in Seq(Values) /\ Len(data) = bs
    <3>1. data \in [1..bs -> Values] BY <1>0, <2>0 DEF BlockData
    <3> QED BY <1>0, <3>1, CacheOf
  <2>2. \A k \in 1..bs : data[k] = d.file[b * bs + k - 1] BY DEF BlockData
  <2> HIDE DEF data
  <2>3. /\ Shape(done) /\ done.file = d.file /\ done.disk = d.disk /\ done.cache_state = "clean"
        /\ done.block_size = bs /\ done.cached_block = b /\ done.cache = data
        /\ Calm(done) => Calm(d)
    <3>1. d \in DevType /\ d.block_size # 0 BY DEF Shape
    <3>2. done \in DevType
      <4> DEFINE e == [d EXCEPT !.cache = data]
      <4>1. e \in DevType BY <2>1, <3>1 DEF DevType
      <4>2. done = [e EXCEPT !.cached_block = b] BY <3>1 DEF DevType
      <4> HIDE DEF e, done
      <4>3. b \in Int OBVIOUS
      <4> QED BY <4>1, <4>2, <4>3 DEF DevType
    <3>3. /\ done.file = d.file /\ done.disk = d.disk /\ done.cache_state = "clean"
          /\ done.block_size = bs /\ done.cached_block = b /\ done.cache = data
          /\ done.faults = d.faults /\ done.gone = d.gone
      BY <3>1 DEF DevType
    <3>4. BlockFits(b, bs)
      <4>1. (b + 1) * bs \in Nat BY <1>0
      <4> QED BY <1>6, <4>1, Sizes DEF BlockFits
    <3>5. Calm(done) => Calm(d) BY <3>3 DEF Calm
    <3> HIDE DEF done
    <3> QED BY <2>1, <3>1, <3>2, <3>3, <3>4, <3>5 DEF Shape
  <2> HIDE DEF done
  <2>4. Coherent(done)
    <3> SUFFICES ASSUME NEW a \in Bytes, a \div bs = b PROVE data[(a % bs) + 1] = d.file[a]
      <4>1. \A a \in Bytes : InBlock(done, a) <=> a \div bs = b BY <2>3 DEF InBlock
      <4> QED BY <2>3, <4>1 DEF Coherent
    <3>1. a \in Nat BY Sizes
    <3>2. (a % bs) \in 0..(bs - 1) /\ a = b * bs + (a % bs) BY <1>0, <3>1, Quotient
    <3> DEFINE m == a % bs
    <3>3. m \in 0..(bs - 1) /\ a = b * bs + m BY <3>2
    <3> HIDE DEF m
    <3>4. m + 1 \in 1..bs /\ b * bs + (m + 1) - 1 = a
      <4>1. b * bs \in Nat BY <1>0
      <4> QED BY <1>0, <3>3, <4>1
    <3>5. data[m + 1] = d.file[a] BY <2>2, <3>4
    <3> QED BY <3>5 DEF m
  <2>5. Fine(done)
    <3> HIDE DEF Fine
    <3> QED BY <1>1, <2>3
  <2> QED BY <2>3, <2>4, <2>5
<1> HIDE DEF spoiled, done, Fine
<1>7. CASE (b + 1) * bs > NumBytes
  <2>1. r \in {Outcome(FALSE, x) : x \in spoiled} BY <1>7 DEF FetchBlock, spoiled
  <2>2. r.ok = FALSE /\ Fine(r.dev) BY <1>4, <2>1 DEF Outcome
  <2>3. ~BlockFits(b, bs)
    <3>1. (b + 1) * bs \in Nat BY <1>0
    <3> QED BY <1>7, <3>1, Sizes DEF BlockFits
  <2> QED BY <2>2, <2>3 DEF Fine
<1>8. CASE ~((b + 1) * bs > NumBytes)
  <2>1. r \in Outcomes(d, done, spoiled) BY <1>8 DEF FetchBlock, spoiled, done
  <2>2. \/ r.ok = FALSE /\ r.dev = d /\ d.gone
        \/ r.ok = TRUE /\ r.dev = done
        \/ r.ok = FALSE /\ \E x \in spoiled : r.dev = Fault(x)
    BY <2>1, OutcomesAre
  <2>3. (\E x \in spoiled : r.dev = Fault(x)) => Fine(r.dev) /\ ~Calm(r.dev) BY <1>4, <1>5
  <2>4. CASE r.ok = TRUE /\ r.dev = done BY <1>6, <1>8, <2>4 DEF Fine
  <2>5. CASE r.ok = FALSE /\ Fine(r.dev) /\ ~Calm(r.dev) BY <2>5 DEF Fine
  <2>6. d.gone => ~Calm(d) BY DEF Calm
  <2> QED BY <1>2, <2>2, <2>3, <2>4, <2>5, <2>6
<1> QED BY <1>7, <1>8

\* set_pos and fread: after a success the stream is what it was and the cache
\* holds the block; a failing call may lose the buffered block.
LEMMA ReadOutcome ==
    ASSUME NEW d, Shape(d), d.cache_state = "clean", NEW b \in Nat, NEW r \in ReadBlock(d, b)
    PROVE  /\ Shape(r.dev) /\ r.dev.block_size = d.block_size /\ r.ok \in BOOLEAN
           /\ r.dev.disk = r.dev.file
           /\ r.ok => /\ Kept(d, r.dev) /\ r.dev.file = d.file /\ r.dev.cached_block = b /\ Coherent(r.dev)
           /\ Calm(r.dev) => /\ Calm(d) /\ Kept(d, r.dev) /\ r.dev.file = d.file
                             /\ r.ok \/ ~BlockFits(b, d.block_size)
<1>1. PICK s \in Drain(d) : r \in IF s.ok THEN FetchBlock(s.dev, b) ELSE {s} BY DEF ReadBlock
<1>2. /\ s.ok \in BOOLEAN /\ Shape(s.dev) /\ SameCache(d, s.dev) /\ s.dev.disk = s.dev.file
      /\ s.ok => s.dev.file = d.file
      /\ Calm(s.dev) => Calm(d) /\ s.ok
  BY DrainOutcome
<1>3. CASE ~s.ok
  <2>1. r = s BY <1>1, <1>3
  <2> QED BY <1>2, <1>3, <2>1 DEF SameCache
<1>4. CASE s.ok
  <2> DEFINE e == s.dev
  <2>1. r \in FetchBlock(e, b) /\ e.cache_state = "clean" /\ e.block_size = d.block_size
    BY <1>1, <1>2, <1>4 DEF SameCache
  <2>2. View(e) = View(d) BY <1>2, <1>4, SameView DEF SameCache
  <2> HIDE DEF e
  <2>3. /\ Kept(e, r.dev) /\ r.ok \in BOOLEAN
        /\ r.dev.file = e.file /\ r.dev.disk = e.disk
        /\ r.ok => r.dev.cached_block = b /\ Coherent(r.dev)
        /\ Calm(r.dev) => Calm(e) /\ (r.ok \/ ~BlockFits(b, e.block_size))
    BY <1>2, <2>1, FetchOutcome DEF e
  <2>4. Kept(d, r.dev) /\ Shape(r.dev) /\ r.dev.block_size = d.block_size BY <2>1, <2>2, <2>3 DEF Kept
  <2>5. r.dev.file = d.file /\ r.dev.disk = r.dev.file BY <1>2, <1>4, <2>3 DEF e
  <2> QED BY <1>2, <2>1, <2>3, <2>4, <2>5 DEF e
<1> QED BY <1>2, <1>3, <1>4

\* device_cache_block: after a success a reader notices nothing, the stream
\* stays as it was or becomes what the reader sees, and what is in the cache
\* then may be trusted when it could be before.  Without a failing call it
\* fails only past the end, and loses nothing.
LEMMA CacheOutcome ==
    ASSUME NEW d, Shape(d), NEW b \in Nat, NEW r \in device_cache_block(d, b)
    PROVE  /\ Shape(r.dev) /\ r.dev.block_size = d.block_size /\ r.ok \in BOOLEAN
           /\ d.disk = d.file => r.dev.disk = r.dev.file
           /\ r.ok => /\ Kept(d, r.dev) /\ r.dev.cached_block = b
                      /\ Coherent(d) => Coherent(r.dev)
                      /\ r.dev.file = d.file \/ r.dev.file = View(d)
           /\ Calm(r.dev) => /\ Calm(d)
                             /\ r.ok \/ /\ Kept(d, r.dev) /\ r.dev.file = View(d)
                                        /\ ~BlockFits(b, d.block_size)
<1>1. CASE d.cached_block = b
  <2>1. r.ok = TRUE /\ r.dev = d BY <1>1 DEF device_cache_block, Outcome
  <2> QED BY <1>1, <2>1 DEF Kept
<1>2. CASE d.cached_block # b
  <2>1. PICK f \in device_flush_cache(d) : r \in IF f.ok THEN ReadBlock(f.dev, b) ELSE {f}
    BY <1>2 DEF device_cache_block
  <2>2. /\ Shape(f.dev) /\ f.dev.block_size = d.block_size /\ f.ok \in BOOLEAN
        /\ f.ok => Kept(d, f.dev) /\ f.dev.cache_state = "clean" /\ f.dev.file = View(d)
        /\ ~f.ok => f.dev.disk = f.dev.file
        /\ Calm(f.dev) => Calm(d) /\ f.ok
    BY FlushOutcome
  <2>3. CASE f.ok
    <3>1. r \in ReadBlock(f.dev, b) BY <2>1, <2>3
    <3>2. /\ Shape(r.dev) /\ r.dev.block_size = f.dev.block_size /\ r.ok \in BOOLEAN
          /\ r.dev.disk = r.dev.file
          /\ r.ok => /\ Kept(f.dev, r.dev) /\ r.dev.file = f.dev.file
                     /\ r.dev.cached_block = b /\ Coherent(r.dev)
          /\ Calm(r.dev) => /\ Calm(f.dev) /\ Kept(f.dev, r.dev) /\ r.dev.file = f.dev.file
                            /\ r.ok \/ ~BlockFits(b, f.dev.block_size)
      BY <2>2, <2>3, <3>1, ReadOutcome
    <3>3. Kept(f.dev, r.dev) => Kept(d, r.dev) BY <2>2, <2>3 DEF Kept
    <3> QED BY <2>2, <2>3, <3>2, <3>3
  <2>4. CASE ~f.ok
    <3>1. r = f BY <2>1, <2>4
    <3> QED BY <2>2, <2>4, <3>1
  <2> QED BY <2>2, <2>3, <2>4
<1> QED BY <1>1, <1>2

\* uninstall's reset of the cache: the reader sees the stream.
LEMMA Dropped ==
    ASSUME NEW d, Shape(d)
    PROVE  /\ Shape(Drop(d)) /\ Coherent(Drop(d)) /\ Drop(d).file = d.file
           /\ Drop(d).cache_state = "clean" /\ View(Drop(d)) = d.file
           /\ Drop(d).disk = d.disk /\ (Calm(Drop(d)) <=> Calm(d))
<1>1. /\ Shape(Drop(d)) /\ Drop(d).file = d.file /\ Drop(d).cache_state = "clean"
      /\ Drop(d).cached_block = -1 /\ Drop(d).disk = d.disk /\ (Calm(Drop(d)) <=> Calm(d))
  <2>1. d \in DevType /\ d.block_size # 0 BY DEF Shape
  <2>2. Drop(d) \in DevType
    <3> DEFINE e == [d EXCEPT !.cache_state = "clean"]
    <3>1. e \in DevType BY <2>1 DEF DevType
    <3>2. Drop(d) = [e EXCEPT !.cached_block = -1] BY <2>1 DEF DevType, Drop
    <3> HIDE DEF e
    <3>3. -1 \in Int OBVIOUS
    <3> QED BY <3>1, <3>2, <3>3 DEF DevType
  <2>3. /\ Drop(d).file = d.file /\ Drop(d).cache_state = "clean" /\ Drop(d).cached_block = -1
        /\ Drop(d).block_size = d.block_size /\ Drop(d).disk = d.disk
        /\ Drop(d).faults = d.faults /\ Drop(d).gone = d.gone
    BY <2>1 DEF DevType, Drop
  <2> QED BY <2>1, <2>2, <2>3 DEF Shape, Calm
<1>2. View(Drop(d)) = d.file BY <1>1, ShapeParts, CleanView
<1> QED BY <1>1, <1>2 DEF Coherent

-----------------------------------------------------------------------------
(* One iteration of _device_read and _device_write.                        *)

\* The operation and the device of a running loop.
Running ==
    /\ Shape(dev) /\ op \in OpType
    /\ op.progress < op.count /\ op.loc + op.count <= NumBytes

\* The bytes of the chunk.
Now == (op.loc + op.progress)..(op.loc + op.progress + Chunk - 1)

\* The chunk lies in one block and inside the range.
LEMMA ChunkFacts ==
    ASSUME Running
    PROVE  /\ op.loc \in Nat /\ op.count \in Nat /\ op.progress \in Nat /\ dev.block_size \in Nat \ {0}
           /\ Block \in Nat /\ Offset \in 0..(dev.block_size - 1)
           /\ op.loc + op.progress = Block * dev.block_size + Offset
           /\ Block * dev.block_size \in Nat
           /\ Chunk \in Nat \ {0} /\ Offset + Chunk <= dev.block_size
           /\ op.progress + Chunk <= op.count
           /\ Done <=> op.progress + Chunk = op.count
<1>1. op.loc \in Nat /\ op.count \in Nat /\ op.progress \in Nat /\ dev.block_size \in Nat \ {0}
  BY ShapeParts DEF Running, OpType
<1>2. op.loc + op.progress \in Nat BY <1>1
<1>3. /\ Block \in Nat /\ Offset \in 0..(dev.block_size - 1)
      /\ op.loc + op.progress = Block * dev.block_size + Offset
  BY <1>1, <1>2, Quotient DEF Block, Offset
<1>4. Block * dev.block_size \in Nat BY <1>1, <1>3
<1>5. Chunk \in Nat \ {0} /\ Offset + Chunk <= dev.block_size /\ op.progress + Chunk <= op.count
  BY <1>1, <1>3 DEF Chunk, Running
<1> QED BY <1>1, <1>3, <1>4, <1>5 DEF Done

\* The bytes of the chunk are the ones of the block from the offset on.
LEMMA ChunkPlace ==
    ASSUME Running, NEW a \in Bytes
    PROVE  LET m == a % dev.block_size
           IN  /\ m \in 0..(dev.block_size - 1)
               /\ a \in Now <=> a \div dev.block_size = Block /\ m + 1 \in (Offset + 1)..(Offset + Chunk)
               /\ a \in Now => a - op.loc + 1 = op.progress + (m + 1) - Offset
<1> DEFINE bs == dev.block_size
           m == a % bs
           q == a \div bs
<1>0. a \in Nat BY Sizes
<1>1. /\ op.loc \in Nat /\ op.progress \in Nat /\ bs \in Nat \ {0}
      /\ Block \in Nat /\ Offset \in 0..(bs - 1) /\ op.loc + op.progress = Block * bs + Offset
      /\ Block * bs \in Nat /\ Chunk \in Nat \ {0} /\ Offset + Chunk <= bs
  BY ChunkFacts
<1>2. q \in Nat /\ m \in 0..(bs - 1) /\ a = q * bs + m BY <1>0, <1>1, Quotient
<1> HIDE DEF bs, m, q
<1>3. ASSUME q = Block PROVE /\ a \in Now <=> m + 1 \in (Offset + 1)..(Offset + Chunk)
                             /\ a - op.loc + 1 = op.progress + (m + 1) - Offset
  <2> DEFINE p == Block * bs
  <2>1. a = p + m /\ p \in Nat /\ op.loc + op.progress = p + Offset BY <1>1, <1>2, <1>3
  <2> HIDE DEF p
  <2> QED BY <1>1, <1>2, <2>1 DEF Now
<1>4. ASSUME a \in Now PROVE q = Block
  <2> DEFINE o == a - Block * bs
  <2>1. o \in 0..(bs - 1) /\ a = Block * bs + o BY <1>0, <1>1, <1>4 DEF Now
  <2> HIDE DEF o
  <2>2. (Block * bs + o) \div bs = Block BY <1>1, <2>1, QuotientUnique
  <2> QED BY <2>1, <2>2 DEF q
<1> QED BY <1>2, <1>3, <1>4 DEF bs, m, q

\* Copying the chunk into the cached block changes what a reader sees in its
\* bytes and nowhere else.
LEMMA CopyOutcome ==
    ASSUME Running, NEW d, Shape(d), d.block_size = dev.block_size, d.cached_block = Block,
           Len(op.data) = op.count
    PROVE  /\ Shape(CopyIn(d, Offset)) /\ Coherent(CopyIn(d, Offset))
           /\ CopyIn(d, Offset).file = d.file /\ CopyIn(d, Offset).block_size = d.block_size
           /\ CopyIn(d, Offset).disk = d.disk /\ (Calm(CopyIn(d, Offset)) => Calm(d))
           /\ Coherent(d) =>
                \A a \in Bytes : View(CopyIn(d, Offset))[a] =
                                     IF a \in Now THEN op.data[a - op.loc + 1] ELSE View(d)[a]
<1> DEFINE new == [k \in 1..d.block_size |->
                      IF k \in (Offset + 1)..(Offset + Chunk)
                      THEN op.data[op.progress + k - Offset] ELSE d.cache[k]]
           e == [d EXCEPT !.cache_state = "dirty", !.cache = new]
<1>0. CopyIn(d, Offset) = e BY DEF CopyIn
<1>1. /\ d.file \in [Bytes -> Values] /\ d.cache \in Seq(Values) /\ Len(d.cache) = d.block_size
      /\ d.cache_state \in {"clean", "dirty"} /\ op.data \in Seq(Values)
  <2>1. d.cached_block # -1 BY ChunkFacts
  <2> QED BY <2>1, ShapeParts DEF Running, OpType
<1>2. /\ op.count \in Nat /\ op.progress \in Nat /\ dev.block_size \in Nat \ {0}
      /\ Offset \in 0..(dev.block_size - 1) /\ Chunk \in Nat \ {0} /\ op.progress + Chunk <= op.count
  BY ChunkFacts
<1>3. new \in [1..d.block_size -> Values]
  <2> SUFFICES ASSUME NEW k \in 1..d.block_size PROVE new[k] \in Values OBVIOUS
  <2>1. CASE k \in (Offset + 1)..(Offset + Chunk)
    <3>1. op.progress + k - Offset \in 1..Len(op.data) BY <1>2, <2>1
    <3>2. op.data[op.progress + k - Offset] \in Values BY <1>1, <3>1, ElementOfSeq
    <3> QED BY <2>1, <3>2
  <2>2. CASE k \notin (Offset + 1)..(Offset + Chunk)
    <3>1. d.cache[k] \in Values BY <1>1, ElementOfSeq
    <3> QED BY <2>2, <3>1
  <2> QED BY <2>1, <2>2
<1>4. new \in Seq(Values) /\ Len(new) = d.block_size BY <1>2, <1>3, CacheOf
<1>5. \A k \in 1..d.block_size : new[k] = IF k \in (Offset + 1)..(Offset + Chunk)
                                           THEN op.data[op.progress + k - Offset] ELSE d.cache[k]
  OBVIOUS
<1> HIDE DEF new
<1>6. /\ Shape(e) /\ e.file = d.file /\ e.cache = new /\ e.cached_block = Block
      /\ e.cache_state = "dirty" /\ e.block_size = d.block_size
      /\ e.disk = d.disk /\ (Calm(e) => Calm(d))
  <2>1. d.cached_block # -1 BY ChunkFacts
  <2> QED BY <1>4, <2>1 DEF Shape, DevType, Calm
<1> HIDE DEF e
<1>7. ASSUME Coherent(d), NEW a \in Bytes
      PROVE  View(e)[a] = IF a \in Now THEN op.data[a - op.loc + 1] ELSE View(d)[a]
  <2> DEFINE m == a % dev.block_size
  <2>1. /\ m \in 0..(dev.block_size - 1)
        /\ a \in Now <=> a \div dev.block_size = Block /\ m + 1 \in (Offset + 1)..(Offset + Chunk)
        /\ a \in Now => a - op.loc + 1 = op.progress + (m + 1) - Offset
    BY ChunkPlace
  <2>2. m + 1 \in 1..d.block_size BY <1>2, <2>1
  <2>3. CASE a \div dev.block_size = Block
    <3>1. View(e)[a] = new[m + 1] BY <1>6, <2>3 DEF View, InBlock
    <3>2. View(d)[a] = d.cache[m + 1]
      <4>1. InBlock(d, a) BY <2>3 DEF InBlock
      <4>2. CASE d.cache_state = "dirty" BY <4>1, <4>2 DEF View
      <4>3. CASE d.cache_state = "clean"
        <5>1. d.cached_block # -1 BY ChunkFacts
        <5>2. d.cache[m + 1] = d.file[a] BY <1>7, <4>1, <4>3, <5>1 DEF Coherent
        <5>3. View(d)[a] = d.file[a] BY <4>3 DEF View
        <5> QED BY <5>2, <5>3
      <4> QED BY <1>1, <4>2, <4>3
    <3> HIDE DEF m
    <3>3. CASE a \in Now
      <4>1. new[m + 1] = op.data[op.progress + (m + 1) - Offset] BY <1>5, <2>1, <2>2, <3>3
      <4> QED BY <2>1, <3>1, <3>3, <4>1
    <3>4. CASE a \notin Now
      <4>1. new[m + 1] = d.cache[m + 1] BY <1>5, <2>1, <2>2, <2>3, <3>4
      <4> QED BY <3>1, <3>2, <3>4, <4>1
    <3> QED BY <3>3, <3>4
  <2>4. CASE a \div dev.block_size # Block
    <3>1. ~InBlock(e, a) /\ ~InBlock(d, a) BY <1>6, <2>4 DEF InBlock
    <3>2. View(e)[a] = d.file[a] /\ View(d)[a] = d.file[a] BY <1>6, <3>1 DEF View
    <3> QED BY <2>1, <2>4, <3>2
  <2> QED BY <2>3, <2>4
<1> QED BY <1>0, <1>6, <1>7 DEF Coherent

-----------------------------------------------------------------------------
(* Who wrote what.                                                         *)

\* A set of numbers with an upper bound has a greatest one.
LEMMA Greatest ==
    ASSUME NEW n \in Nat, NEW S \in SUBSET (1..n), S # {}
    PROVE  /\ Max(S) \in S /\ \A x \in S : Max(S) >= x
           /\ \A m \in S : (\A x \in S : m >= x) => Max(S) = m
<1> DEFINE R == OpToRel(<, Nat)
           T == {n - x : x \in S}
<1>1. IsWellFoundedOn(R, Nat) BY NatLessThanWellFounded
<1>2. R = {ss \in Nat \X Nat : ss[1] < ss[2]} BY DEF OpToRel
<1>3. T \in SUBSET Nat /\ T # {}
  <2>1. \A x \in S : n - x \in Nat OBVIOUS
  <2> QED BY <2>1, Zenon
<1> HIDE DEF R, T
<1>4. PICK t \in T : \A k \in T : ~(<<k, t>> \in R) BY <1>1, <1>3, WFMin
<1>5. \A k \in T : t <= k
  <2> SUFFICES ASSUME NEW k \in T PROVE t <= k OBVIOUS
  <2>1. <<k, t>> \notin R BY <1>4
  <2>2. ~(k < t) BY <1>2, <1>3, <2>1
  <2> QED BY <1>3, <2>2
<1>6. PICK m \in S : t = n - m BY DEF T
<1>7. \A x \in S : n - x \in T BY DEF T
<1>8. \A x \in S : m >= x BY <1>5, <1>6, <1>7
<1>9. Max(S) \in S /\ \A x \in S : Max(S) >= x BY <1>8 DEF Max
<1>10. ASSUME NEW g \in S, \A x \in S : g >= x PROVE Max(S) = g
  <2>1. Max(S) >= g /\ g >= Max(S) BY <1>9, <1>10
  <2>2. \A x \in S : x \in Nat OBVIOUS
  <2>3. Max(S) \in Nat /\ g \in Nat BY <1>9, <2>2, Zenon
  <2> QED BY <2>1, <2>3
<1> QED BY <1>9, <1>10

OrderedOn(disk, u) ==
    \A a \in Bytes : \A j \in 1..Len(u) :
        j < Writer(disk[a]) => \A b \in Extent(u[j]) : Writer(disk[b]) >= j
BoundedBy(disk, n) == \A a \in Bytes : Writer(disk[a]) <= n
On(u, a) == {i \in DOMAIN u : a \in Extent(u[i])}
WrittenBy(u, a) ==
    IF On(u, a) = {} THEN Orig[a]
    ELSE NewData(Max(On(u, a)), u[Max(On(u, a))].count)[a - u[Max(On(u, a))].loc + 1]

\* The properties in these terms.
LEMMA Terms ==
    /\ \A a : Written(a) = WrittenBy(uninstall_data, a)
    /\ WritesReachDiskInOrder <=> (pc \in Writing => OrderedOn(dev.disk, uninstall_data))
BY DEF Written, WrittenBy, On, WritesReachDiskInOrder, OrderedOn, Writing

\* The parts of a log entry.
LEMMA EntryParts ==
    ASSUME NEW e \in EntryType
    PROVE  /\ e.loc \in Nat /\ e.count \in Nat \ {0} /\ e.data \in Seq(Values)
           /\ e.loc + e.count <= NumBytes /\ Len(e.data) = e.count
           /\ Extent(e) \subseteq Bytes
           /\ \A a \in Extent(e) : a - e.loc + 1 \in 1..e.count
BY Sizes DEF EntryType, Extent, Bytes

\* The value a write puts somewhere names the write.
LEMMA WriterOfNew ==
    ASSUME NEW n \in Nat \ {0}, NEW count \in Nat, count <= NumBytes, NEW k \in 1..count
    PROVE  Writer(NewData(n, count)[k]) = n
<1>1. NewData(n, count)[k] = Datum(n, k) BY DEF NewData
<1>2. NumBytes + 1 \in Nat \ {0} /\ k \in 0..(NumBytes + 1 - 1) BY Sizes
<1>3. Datum(n, k) \div (NumBytes + 1) = n
  <2> DEFINE d == NumBytes + 1
  <2>1. d \in Nat \ {0} /\ k \in 0..(d - 1) BY <1>2, Sizes
  <2> HIDE DEF d
  <2>2. (n * d + k) \div d = n BY <2>1, QuotientUnique
  <2> QED BY <2>2 DEF Datum, d
<1>4. Datum(n, k) > NumBytes
  <2>1. 0 * (NumBytes + 1) + (NumBytes + 1) <= n * (NumBytes + 1) /\ n * (NumBytes + 1) \in Int
    BY <1>2, Product
  <2> QED BY <1>2, <2>1, Sizes DEF Datum
<1> QED BY <1>1, <1>3, <1>4 DEF Writer

\* The original contents name no write.
LEMMA WriterOfOrig == ASSUME NEW a \in Bytes PROVE Writer(Orig[a]) = 0
<1>1. Orig[a] = a /\ a \in Int /\ a < NumBytes BY Sizes DEF Orig, Bytes
<1> QED BY <1>1, Sizes DEF Writer

\* The value the completed writes give a byte names the last one over it.
LEMMA WriterOfWritten ==
    ASSUME NEW u \in Seq(EntryType), NEW a \in Bytes
    PROVE  /\ Writer(WrittenBy(u, a)) \in 0..Len(u)
           /\ \A j \in 1..Len(u) : a \in Extent(u[j]) => Writer(WrittenBy(u, a)) >= j
<1>0. Len(u) \in Nat /\ DOMAIN u = 1..Len(u) BY LenProperties
<1>1. CASE On(u, a) = {}
  <2>1. Writer(WrittenBy(u, a)) = 0 BY <1>1, WriterOfOrig DEF WrittenBy
  <2> QED BY <1>0, <1>1, <2>1 DEF On
<1>2. CASE On(u, a) # {}
  <2> DEFINE m == Max(On(u, a))
  <2>1. On(u, a) \in SUBSET (1..Len(u)) BY <1>0 DEF On
  <2>2. m \in On(u, a) /\ \A x \in On(u, a) : m >= x BY <1>0, <1>2, <2>1, Greatest
  <2>3. WrittenBy(u, a) = NewData(m, u[m].count)[a - u[m].loc + 1] BY <1>2 DEF WrittenBy
  <2> HIDE DEF m
  <2>4. m \in 1..Len(u) /\ a \in Extent(u[m]) BY <1>0, <2>2 DEF On
  <2>5. u[m] \in EntryType BY <2>4, ElementOfSeq
  <2>6. u[m].count \in Nat /\ u[m].count <= NumBytes /\ a - u[m].loc + 1 \in 1..u[m].count
    BY <2>4, <2>5, EntryParts, Sizes
  <2>7. Writer(WrittenBy(u, a)) = m
    <3>1. m \in Nat \ {0} BY <1>0, <2>4
    <3>2. Writer(NewData(m, u[m].count)[a - u[m].loc + 1]) = m BY <2>6, <3>1, WriterOfNew
    <3> QED BY <2>3, <3>2
  <2> QED BY <1>0, <2>2, <2>4, <2>7 DEF On
<1> QED BY <1>1, <1>2

\* The entries of an appended log.
LEMMA AppendedLog ==
    ASSUME NEW u \in Seq(EntryType), NEW e \in EntryType
    PROVE  /\ Append(u, e) \in Seq(EntryType) /\ Len(u) \in Nat /\ Len(Append(u, e)) = Len(u) + 1
           /\ DOMAIN u = 1..Len(u) /\ DOMAIN Append(u, e) = 1..(Len(u) + 1)
           /\ Append(u, e)[Len(u) + 1] = e /\ \A k \in 1..Len(u) : Append(u, e)[k] = u[k]
BY AppendProperties, LenProperties

\* One more write.
LEMMA AppendWritten ==
    ASSUME NEW u \in Seq(EntryType), NEW e \in EntryType, NEW a \in Bytes
    PROVE  WrittenBy(Append(u, e), a) =
               IF a \in Extent(e) THEN NewData(Len(u) + 1, e.count)[a - e.loc + 1]
               ELSE WrittenBy(u, a)
<1> DEFINE w == Append(u, e)
           n == Len(u)
<1>0. /\ n \in Nat /\ DOMAIN u = 1..n /\ DOMAIN w = 1..(n + 1)
      /\ w[n + 1] = e /\ \A k \in 1..n : w[k] = u[k]
  BY AppendedLog
<1> HIDE DEF w, n
<1>1. On(u, a) \in SUBSET (1..n) BY <1>0 DEF On
<1>2. CASE a \in Extent(e)
  <2>1. On(w, a) \in SUBSET (1..(n + 1)) /\ n + 1 \in On(w, a) BY <1>0, <1>2 DEF On
  <2>2. \A x \in On(w, a) : n + 1 >= x BY <1>0, <2>1
  <2>3. Max(On(w, a)) = n + 1
    <3>1. n + 1 \in Nat /\ On(w, a) # {} BY <1>0, <2>1
    <3> QED BY <2>1, <2>2, <3>1, Greatest
  <2>4. On(w, a) # {} BY <2>1
  <2> QED BY <1>0, <1>2, <2>3, <2>4 DEF WrittenBy, w, n
<1>3. CASE a \notin Extent(e)
  <2>1. On(w, a) = On(u, a)
    <3>1. \A k \in 1..(n + 1) : a \in Extent(w[k]) <=> k \in 1..n /\ a \in Extent(u[k])
      BY <1>0, <1>3
    <3>2. On(w, a) = {k \in 1..(n + 1) : k \in 1..n /\ a \in Extent(u[k])} BY <1>0, <3>1 DEF On
    <3> QED BY <1>0, <3>2 DEF On
  <2>2. On(u, a) # {} => w[Max(On(u, a))] = u[Max(On(u, a))]
    <3>1. On(u, a) # {} => Max(On(u, a)) \in On(u, a) BY <1>0, <1>1, Greatest
    <3> QED BY <1>0, <1>1, <3>1
  <2> QED BY <1>3, <2>1, <2>2 DEF WrittenBy, w
<1> QED BY <1>2, <1>3

\* Completing a write that is under way keeps the order.
LEMMA AppendOrdered ==
    ASSUME NEW u \in Seq(EntryType), NEW e \in EntryType, NEW disk \in [Bytes -> Values],
           OrderedOn(disk, u), BoundedBy(disk, Len(u) + 1)
    PROVE  OrderedOn(disk, Append(u, e)) /\ BoundedBy(disk, Len(Append(u, e)) + 1)
<1>0. /\ Len(u) \in Nat /\ Len(Append(u, e)) = Len(u) + 1
      /\ \A k \in 1..Len(u) : Append(u, e)[k] = u[k]
  BY AppendedLog
<1>1. \A a \in Bytes : Writer(disk[a]) \in Int
  <2> SUFFICES ASSUME NEW a \in Bytes PROVE Writer(disk[a]) \in Int OBVIOUS
  <2>1. disk[a] \in Int BY Sizes
  <2>2. \A v \in Nat : v \div (NumBytes + 1) \in Int BY Sizes, Quotient
  <2> QED BY <2>1, <2>2, Sizes DEF Writer
<1>2. BoundedBy(disk, Len(u) + 1 + 1) BY <1>0, <1>1 DEF BoundedBy
<1>3. OrderedOn(disk, Append(u, e))
  <2> SUFFICES ASSUME NEW a \in Bytes, NEW j \in 1..(Len(u) + 1), j < Writer(disk[a])
               PROVE  \A b \in Extent(Append(u, e)[j]) : Writer(disk[b]) >= j
    BY <1>0 DEF OrderedOn
  <2>1. j \in 1..Len(u) BY <1>0, <1>1 DEF BoundedBy
  <2> QED BY <1>0, <2>1 DEF OrderedOn
<1> QED BY <1>0, <1>2, <1>3

-----------------------------------------------------------------------------
(* The log, oldest entry first.                                            *)

UndoPcs == {"undo", "uwrite", "retry", "flushed", "undone"}
Stored == Installed \ {"store"}

\* LogOldestFirst of a step p, a log u and an index i.
LogOf(p, u, i) ==
    LET left == IF p \in UndoPcs THEN SubSeq(u, i, Len(u)) ELSE u
        log == IF p \in UndoPcs \/ p \in Stored THEN Reverse(left) ELSE left
    IN  [k \in DOMAIN log |-> Pairs(log[k])]

\* It is the log as it is written, and the log read backwards once it is
\* reversed.
Forward(u) == [k \in 1..Len(u) |-> Pairs(u[k])]
Backward(u, i) == [k \in 1..(Len(u) - i + 1) |-> Pairs(u[Len(u) + 1 - k])]

\* The state's log in these terms.
LEMMA LogTerms == LogOldestFirst = LogOf(pc, uninstall_data, undo.i)
BY DEF LogOldestFirst, LogOf, Undoing, UndoPcs, Stored

\* The log of each step.
LEMMA LogShape ==
    ASSUME NEW u \in Seq(EntryType), NEW i \in 1..(Len(u) + 1), NEW p
    PROVE  /\ p \notin UndoPcs /\ p \notin Stored => LogOf(p, u, i) = Forward(u)
           /\ p \in UndoPcs => LogOf(p, u, i) = Backward(u, i)
           /\ p \in Stored => LogOf(p, u, i) = Backward(u, 1)
<1>0. Len(u) \in Nat /\ DOMAIN u = 1..Len(u) BY LenProperties
<1>1. p \notin UndoPcs /\ p \notin Stored => LogOf(p, u, i) = Forward(u)
  BY <1>0 DEF LogOf, Forward
<1>2. ASSUME p \in UndoPcs PROVE LogOf(p, u, i) = Backward(u, i)
  <2> DEFINE left == SubSeq(u, i, Len(u))
             n == Len(u) - i + 1
  <2>1. \A k \in i..Len(u) : u[k] \in EntryType BY <1>0, ElementOfSeq
  <2>2. i \in Int /\ Len(u) \in Int BY <1>0
  <2>3. /\ Len(left) = IF i <= Len(u) THEN Len(u) - i + 1 ELSE 0
        /\ \A k \in 1..(Len(u) - i + 1) : left[k] = u[i + k - 1]
    BY <2>1, <2>2, SubSeqProperties
  <2>4. Len(left) = n /\ n \in Nat BY <1>0, <2>3
  <2>5. LogOf(p, u, i) = [k \in DOMAIN Reverse(left) |-> Pairs(Reverse(left)[k])]
    BY <1>2 DEF LogOf
  <2> HIDE DEF left
  <2>6. Reverse(left) = [k \in 1..n |-> left[(n - k) + 1]] BY <2>4 DEF Reverse
  <2>7. \A k \in 1..n : left[(n - k) + 1] = u[Len(u) + 1 - k]
    <3> SUFFICES ASSUME NEW k \in 1..n PROVE left[(n - k) + 1] = u[Len(u) + 1 - k] OBVIOUS
    <3>1. (n - k) + 1 \in 1..(Len(u) - i + 1) BY <2>4
    <3>2. i + ((n - k) + 1) - 1 = Len(u) + 1 - k BY <1>0, <2>4
    <3> HIDE DEF n
    <3> QED BY <2>3, <3>1, <3>2
  <2> HIDE DEF n
  <2>8. LogOf(p, u, i) = [k \in 1..n |-> Pairs(u[Len(u) + 1 - k])] BY <2>5, <2>6, <2>7
  <2> QED BY <2>8 DEF Backward, n
<1>3. ASSUME p \in Stored PROVE LogOf(p, u, i) = Backward(u, 1)
  <2>1. p \notin UndoPcs BY <1>3 DEF Stored, Installed, UndoPcs
  <2>2. LogOf(p, u, i) = [k \in DOMAIN Reverse(u) |-> Pairs(Reverse(u)[k])]
    BY <1>3, <2>1 DEF LogOf
  <2>3. Reverse(u) = [k \in 1..Len(u) |-> u[(Len(u) - k) + 1]] BY DEF Reverse
  <2>4. \A k \in 1..Len(u) : (Len(u) - k) + 1 = Len(u) + 1 - k BY <1>0
  <2>5. LogOf(p, u, i) = [k \in 1..Len(u) |-> Pairs(u[Len(u) + 1 - k])] BY <2>2, <2>3, <2>4
  <2>6. Len(u) - 1 + 1 = Len(u) BY <1>0
  <2> QED BY <2>5, <2>6 DEF Backward
<1> QED BY <1>1, <1>2, <1>3

\* Reversing the log turns the reading around.
LEMMA ReversedLog ==
    ASSUME NEW u \in Seq(EntryType)
    PROVE  /\ Reverse(u) \in Seq(EntryType) /\ Len(Reverse(u)) = Len(u)
           /\ Backward(Reverse(u), 1) = Forward(u)
<1>0. Len(u) \in Nat BY LenProperties
<1> DEFINE n == Len(u)
           w == Reverse(u)
<1>1. w = [k \in 1..n |-> u[(n - k) + 1]] BY DEF Reverse
<1>2. \A k \in 1..n : u[(n - k) + 1] \in EntryType
  <2>1. \A k \in 1..n : (n - k) + 1 \in 1..n BY <1>0
  <2> QED BY <2>1, ElementOfSeq
<1> HIDE DEF n, w
<1>3. w \in Seq(EntryType) /\ Len(w) = n BY <1>0, <1>1, <1>2 DEF n
<1>4. \A k \in 1..n : w[n + 1 - k] = u[k]
  <2> SUFFICES ASSUME NEW k \in 1..n PROVE w[n + 1 - k] = u[k] OBVIOUS
  <2>1. n + 1 - k \in 1..n /\ (n - (n + 1 - k)) + 1 = k BY <1>0 DEF n
  <2> QED BY <1>1, <2>1
<1>5. Backward(w, 1) = [k \in 1..n |-> Pairs(w[n + 1 - k])]
  <2>1. n - 1 + 1 = n BY <1>0 DEF n
  <2> QED BY <1>3, <2>1 DEF Backward
<1>6. Backward(w, 1) = Forward(u) BY <1>4, <1>5 DEF Forward, n
<1> QED BY <1>3, <1>6 DEF w, n

\* An entry is a patch of its extent.
LEMMA PairsType ==
    ASSUME NEW e \in EntryType
    PROVE  /\ Pairs(e) \in P!Patch /\ DOMAIN Pairs(e) = Extent(e) /\ Extent(e) \in SUBSET Bytes
           /\ \A a \in Extent(e) : Pairs(e)[a] = e.data[a - e.loc + 1] /\ Pairs(e)[a] \in Values
<1>1. \A a \in Extent(e) : e.data[a - e.loc + 1] \in Values
  <2> SUFFICES ASSUME NEW a \in Extent(e) PROVE e.data[a - e.loc + 1] \in Values OBVIOUS
  <2>1. a - e.loc + 1 \in 1..Len(e.data) BY EntryParts
  <2> QED BY <2>1, EntryParts, ElementOfSeq
<1>2. Pairs(e) \in [Extent(e) -> Values] BY <1>1 DEF Pairs
<1>3. Extent(e) \in SUBSET Bytes BY EntryParts
<1> QED BY <1>1, <1>2, <1>3 DEF P!Patch, Pairs

\* The log while it is written.
LEMMA ForwardLog ==
    ASSUME NEW u \in Seq(EntryType)
    PROVE  /\ Forward(u) \in Seq(P!Patch) /\ Len(Forward(u)) = Len(u) /\ Len(u) \in Nat
           /\ \A k \in 1..Len(u) : u[k] \in EntryType /\ Forward(u)[k] = Pairs(u[k])
           /\ \A e \in EntryType : Forward(Append(u, e)) = Append(Forward(u), Pairs(e))
<1>0. Len(u) \in Nat /\ \A k \in 1..Len(u) : u[k] \in EntryType BY LenProperties, ElementOfSeq
<1>1. Forward(u) \in Seq(P!Patch) /\ Len(Forward(u)) = Len(u)
  <2>1. \A k \in 1..Len(u) : Pairs(u[k]) \in P!Patch BY <1>0, PairsType
  <2> QED BY <1>0, <2>1 DEF Forward
<1>2. \A k \in 1..Len(u) : Forward(u)[k] = Pairs(u[k]) BY DEF Forward
<1>3. ASSUME NEW e \in EntryType PROVE Forward(Append(u, e)) = Append(Forward(u), Pairs(e))
  <2> DEFINE w == Append(u, e)
             f == Append(Forward(u), Pairs(e))
  <2>1. /\ Len(w) = Len(u) + 1 /\ w[Len(u) + 1] = e /\ \A k \in 1..Len(u) : w[k] = u[k]
    BY AppendedLog
  <2>2. Pairs(e) \in P!Patch BY PairsType
  <2>3. /\ f \in Seq(P!Patch) /\ Len(f) = Len(u) + 1 /\ f[Len(u) + 1] = Pairs(e)
        /\ \A k \in 1..Len(u) : f[k] = Forward(u)[k]
    BY <1>1, <2>2, AppendProperties
  <2> HIDE DEF w, f
  <2>4. f = [k \in 1..(Len(u) + 1) |-> f[k]] BY <2>3
  <2>5. Forward(w) = [k \in 1..(Len(u) + 1) |-> Pairs(w[k])] BY <2>1 DEF Forward
  <2>6. \A k \in 1..(Len(u) + 1) : Pairs(w[k]) = f[k]
    <3> SUFFICES ASSUME NEW k \in 1..(Len(u) + 1) PROVE Pairs(w[k]) = f[k] OBVIOUS
    <3>1. k \in 1..Len(u) \/ k = Len(u) + 1 BY <1>0
    <3> QED BY <1>2, <2>1, <2>3, <3>1
  <2>7. Forward(w) = f BY <2>4, <2>5, <2>6
  <2> QED BY <2>7 DEF w, f
<1> QED BY <1>0, <1>1, <1>2, <1>3

\* The log while it is put back: its last entry is the next one to go.
LEMMA BackwardLog ==
    ASSUME NEW u \in Seq(EntryType), NEW i \in 1..Len(u)
    PROVE  LET log == Backward(u, i)
           IN  /\ log # <<>> /\ log[Len(log)] = Pairs(u[i]) /\ u[i] \in EntryType
               /\ Backward(u, i + 1) = SubSeq(log, 1, Len(log) - 1)
<1> DEFINE log == Backward(u, i)
           n == Len(u) - i + 1
<1>0. Len(u) \in Nat /\ n \in Nat \ {0} BY LenProperties
<1>1. \A k \in 1..n : Pairs(u[Len(u) + 1 - k]) \in P!Patch
  <2> SUFFICES ASSUME NEW k \in 1..n PROVE Pairs(u[Len(u) + 1 - k]) \in P!Patch OBVIOUS
  <2>1. Len(u) + 1 - k \in 1..Len(u) BY <1>0
  <2> QED BY <2>1, ElementOfSeq, PairsType
<1>2. log = [k \in 1..n |-> Pairs(u[Len(u) + 1 - k])] BY DEF Backward
<1>3. Backward(u, i + 1) = [k \in 1..(n - 1) |-> Pairs(u[Len(u) + 1 - k])]
  <2>1. Len(u) - (i + 1) + 1 = n - 1 BY <1>0
  <2> QED BY <2>1 DEF Backward
<1>4. u[i] \in EntryType BY ElementOfSeq
<1>5. Len(u) + 1 - n = i BY <1>0
<1> HIDE DEF log, n
<1>6. log \in Seq(P!Patch) /\ Len(log) = n BY <1>0, <1>1, <1>2
<1>7. log # <<>> BY <1>0, <1>6, EmptySeq
<1>8. log[n] = Pairs(u[i]) BY <1>0, <1>2, <1>5
<1>9. SubSeq(log, 1, n - 1) = [k \in 1..(n - 1) |-> log[k]]
  <2>1. \A k \in 1..(n - 1) : log[k] \in P!Patch BY <1>0, <1>6, ElementOfSeq
  <2>2. 1 \in Int /\ n - 1 \in Int BY <1>0
  <2>3. /\ SubSeq(log, 1, n - 1) \in Seq(P!Patch)
        /\ Len(SubSeq(log, 1, n - 1)) = IF 1 <= n - 1 THEN n - 1 - 1 + 1 ELSE 0
        /\ \A k \in 1..(n - 1 - 1 + 1) : SubSeq(log, 1, n - 1)[k] = log[1 + k - 1]
    BY <2>1, <2>2, SubSeqProperties
  <2>4. Len(SubSeq(log, 1, n - 1)) = n - 1 /\ n - 1 - 1 + 1 = n - 1 BY <1>0, <2>3
  <2>5. \A k \in 1..(n - 1) : 1 + k - 1 = k OBVIOUS
  <2>6. \A k \in 1..(n - 1) : SubSeq(log, 1, n - 1)[k] = log[k] BY <2>3, <2>4, <2>5
  <2> DEFINE z == SubSeq(log, 1, n - 1)
  <2>7. z \in Seq(P!Patch) /\ Len(z) = n - 1 /\ \A k \in 1..(n - 1) : z[k] = log[k]
    BY <2>3, <2>4, <2>6
  <2> HIDE DEF z
  <2>8. z = [k \in 1..(n - 1) |-> z[k]] BY <2>7
  <2>9. z = [k \in 1..(n - 1) |-> log[k]] BY <2>7, <2>8
  <2> QED BY <2>9 DEF z
<1>10. Backward(u, i + 1) = SubSeq(log, 1, n - 1)
  <2>1. \A k \in 1..(n - 1) : log[k] = Pairs(u[Len(u) + 1 - k]) BY <1>0, <1>2
  <2> QED BY <1>3, <1>9, <2>1
<1> QED BY <1>4, <1>6, <1>7, <1>8, <1>10 DEF log

\* Nothing is left when the index has passed the end.
LEMMA BackwardEmpty ==
    ASSUME NEW u \in Seq(EntryType) PROVE Backward(u, Len(u) + 1) = <<>>
<1>0. Len(u) \in Nat BY LenProperties
<1>1. Len(u) - (Len(u) + 1) + 1 = 0 BY <1>0
<1>2. Backward(u, Len(u) + 1) = [k \in 1..0 |-> Pairs(u[Len(u) + 1 - k])] BY <1>1 DEF Backward
<1>3. 1..0 = {} OBVIOUS
<1> QED BY <1>2, <1>3

-----------------------------------------------------------------------------
(* device_init.                                                            *)

\* device_init changes no byte; after a success block 0 is in the cache.
LEMMA InitOutcome ==
    ASSUME NEW d \in DevType, d.cache_state = "clean", NEW r \in device_init(d)
    PROVE  /\ r.ok \in BOOLEAN /\ r.dev \in DevType /\ r.dev.file = d.file /\ r.dev.disk = d.disk
           /\ r.dev.cache_state = "clean" /\ (Calm(r.dev) => Calm(d))
           /\ r.ok => Shape(r.dev) /\ Coherent(r.dev)
           /\ Shape(d) => Shape(r.dev)
<1> DEFINE n == Len(Guesses)
           Passed(g) == {k \in 1..(g - 1) : Guesses[k] <= NumBytes /\ ~d.gone}
           faults(g) == d.faults + Cardinality(Passed(g))
           block(g) == [k \in 1..Guesses[g] |-> d.file[k - 1]]
           taken(g) == [d EXCEPT !.block_size = Guesses[g], !.faults = faults(g), !.cached_block = 0,
                                 !.cache_state = "clean", !.cache = block(g)]
           lost(g) == [d EXCEPT !.faults = faults(g)]
<1>0. n \in Nat /\ \A g \in 1..n : Guesses[g] \in Nat \ {0}
  BY SizeAssumption, LenProperties, ElementOfSeq
<1>1. \A g \in 1..(n + 1) : faults(g) \in Nat /\ (faults(g) = 0 => d.faults = 0)
  <2> SUFFICES ASSUME NEW g \in 1..(n + 1) PROVE faults(g) \in Nat /\ (faults(g) = 0 => d.faults = 0)
    OBVIOUS
  <2>1. IsFiniteSet(1..(g - 1))
    <3>1. 1 \in Int /\ g - 1 \in Int BY <1>0
    <3> QED BY <3>1, FS_Interval
  <2>2. IsFiniteSet(Passed(g))
    <3>1. Passed(g) \subseteq 1..(g - 1) OBVIOUS
    <3> QED BY <2>1, <3>1, FS_Subset
  <2>3. Cardinality(Passed(g)) \in Nat BY <2>2, FS_CardinalityType
  <2> HIDE DEF Passed
  <2> QED BY <2>3 DEF DevType
<1>2. \/ \E g \in 1..n : Guesses[g] <= NumBytes /\ r = Outcome(TRUE, taken(g))
      \/ r = Outcome(FALSE, lost(n + 1))
  BY DEF device_init
<1> HIDE DEF faults
<1>3. CASE r = Outcome(FALSE, lost(n + 1))
  <2> DEFINE e == lost(n + 1)
  <2>1. faults(n + 1) \in Nat /\ (faults(n + 1) = 0 => d.faults = 0) BY <1>0, <1>1
  <2>2. /\ e \in DevType /\ e.file = d.file /\ e.disk = d.disk /\ e.cache_state = "clean"
        /\ (Shape(d) => Shape(e)) /\ e.faults = faults(n + 1) /\ e.gone = d.gone
    BY <2>1 DEF DevType, Shape
  <2>3. r.ok = FALSE /\ r.dev = e BY <1>3 DEF Outcome
  <2> HIDE DEF e, lost
  <2> QED BY <2>1, <2>2, <2>3 DEF Calm
<1>4. ASSUME NEW g \in 1..n, Guesses[g] <= NumBytes, r = Outcome(TRUE, taken(g))
      PROVE  /\ r.ok = TRUE /\ r.dev \in DevType /\ r.dev.file = d.file
             /\ r.dev.cache_state = "clean" /\ Shape(r.dev) /\ Coherent(r.dev)
             /\ r.dev.disk = d.disk /\ (Calm(r.dev) => Calm(d))
  <2> DEFINE bs == Guesses[g]
             t == taken(g)
  <2>1. /\ bs \in Nat \ {0} /\ faults(g) \in Nat /\ d.file \in [Bytes -> Values]
        /\ faults(g) = 0 => d.faults = 0
    BY <1>0, <1>1 DEF DevType
  <2>2. \A k \in 1..bs : k - 1 \in Bytes BY <1>4, <2>1, Sizes DEF Bytes
  <2>3. block(g) \in Seq(Values) /\ Len(block(g)) = bs
    <3>1. block(g) \in [1..bs -> Values] BY <2>1, <2>2
    <3> QED BY <2>1, <3>1, CacheOf
  <2>4. \A k \in 1..bs : block(g)[k] = d.file[k - 1] OBVIOUS
  <2> HIDE DEF block, bs
  <2>5. /\ t.file = d.file /\ t.cache = block(g) /\ t.cached_block = 0 /\ t.cache_state = "clean"
        /\ t.block_size = bs /\ t.disk = d.disk /\ t.faults = faults(g) /\ t.gone = d.gone
    BY DEF DevType, bs
  <2>6. t \in DevType
    <3> DEFINE e1 == [d EXCEPT !.block_size = bs]
               e2 == [e1 EXCEPT !.faults = faults(g)]
               e3 == [e2 EXCEPT !.cached_block = 0]
               e4 == [e3 EXCEPT !.cache_state = "clean"]
    <3>0. t = [e4 EXCEPT !.cache = block(g)] BY DEF DevType, bs
    <3> HIDE DEF t
    <3>1. e1 \in DevType BY <2>1 DEF DevType
    <3> HIDE DEF e1
    <3>2. e2 \in DevType BY <2>1, <3>1 DEF DevType
    <3> HIDE DEF e2
    <3>3. e3 \in DevType
      <4>1. 0 \in Int OBVIOUS
      <4> QED BY <3>2, <4>1 DEF DevType
    <3> HIDE DEF e3
    <3>4. e4 \in DevType BY <3>3 DEF DevType
    <3> HIDE DEF e4
    <3> QED BY <2>3, <3>0, <3>4 DEF DevType
  <2>7. r.ok = TRUE /\ r.dev = t BY <1>4 DEF Outcome
  <2> HIDE DEF t
  <2>8. Shape(t)
    <3>1. BlockFits(0, bs)
      <4>1. (0 + 1) * bs = bs BY <2>1
      <4> QED BY <1>4, <4>1 DEF BlockFits, bs
    <3> QED BY <2>1, <2>3, <2>5, <2>6, <3>1 DEF Shape
  <2>9. Coherent(t)
    <3> SUFFICES ASSUME NEW a \in Bytes, a \div bs = 0 PROVE block(g)[(a % bs) + 1] = d.file[a]
      <4>1. \A a \in Bytes : InBlock(t, a) <=> a \div bs = 0 BY <2>5 DEF InBlock
      <4> QED BY <2>5, <4>1 DEF Coherent
    <3> DEFINE m == a % bs
               q == a \div bs
    <3>1. m \in 0..(bs - 1) /\ a = q * bs + m BY <2>1, Sizes, Quotient
    <3> HIDE DEF m
    <3>2. a = m
      <4>1. q * bs = 0 BY <2>1
      <4> QED BY <3>1, <4>1
    <3>3. m + 1 \in 1..bs /\ (m + 1) - 1 = m BY <2>1, <3>1
    <3>4. block(g)[m + 1] = d.file[m] BY <2>4, <3>3
    <3> QED BY <3>2, <3>4 DEF m
  <2>10. Calm(t) => Calm(d) BY <2>1, <2>5 DEF Calm
  <2> QED BY <2>5, <2>6, <2>7, <2>8, <2>9, <2>10
<1> HIDE DEF taken, lost
<1> QED BY <1>2, <1>3, <1>4

-----------------------------------------------------------------------------
(* What every step needs.                                                  *)

\* The steps of an install.
Busy == {"ready", "read", "save", "write"}

\* Phase of a step p.
PhaseOf(p) ==
    CASE p \in Installed -> "installed"
      [] p = "undone" -> "undone"
      [] p = "cleanup" \/ (p \in UndoPcs /\ p # "undone") -> "undo"
      [] OTHER -> "install"

\* The phases, step by step.
LEMMA Phases ==
    ASSUME NEW p
    PROVE  /\ p \in Installed => PhaseOf(p) = "installed"
           /\ p = "undone" => PhaseOf(p) = "undone"
           /\ p \in {"cleanup", "undo", "uwrite", "retry", "flushed"} => PhaseOf(p) = "undo"
           /\ p \in {"init", "init_failed"} \cup Busy => PhaseOf(p) = "install"
BY DEF PhaseOf, Installed, UndoPcs, Busy

\* The mapping to UndoDisk, before and after a step.
LEMMA Mapping ==
    /\ Phase = PhaseOf(pc) /\ Phase' = PhaseOf(pc')
    /\ LogOldestFirst' = LogOf(pc', uninstall_data', undo'.i)
    /\ pc \notin {"cleanup", "write"} => Contents = View(dev)
    /\ pc' \notin {"cleanup", "write"} => Contents' = View(dev')
    /\ pc' = "cleanup" => Contents' = dev'.file
BY DEF Phase, PhaseOf, Undoing, UndoPcs, LogOldestFirst, LogOf, Stored, Contents

\* The log as UndoDisk sees it.
LEMMA LogNow ==
    ASSUME LogInv
    PROVE  /\ pc \notin UndoPcs /\ pc \notin Stored => LogOldestFirst = Forward(uninstall_data)
           /\ pc \in UndoPcs => LogOldestFirst = Backward(uninstall_data, undo.i)
           /\ pc \in Stored => LogOldestFirst = Backward(uninstall_data, 1)
<1>1. uninstall_data \in Seq(EntryType) /\ undo.i \in 1..(Len(uninstall_data) + 1) BY DEF LogInv
<1> QED BY <1>1, LogShape, LogTerms

\* The same after a step.
LEMMA LogNext ==
    ASSUME LogInv'
    PROVE  /\ pc' \notin UndoPcs /\ pc' \notin Stored => LogOldestFirst' = Forward(uninstall_data')
           /\ pc' \in UndoPcs => LogOldestFirst' = Backward(uninstall_data', undo'.i)
           /\ pc' \in Stored => LogOldestFirst' = Backward(uninstall_data', 1)
<1>1. uninstall_data' \in Seq(EntryType) /\ undo'.i \in 1..(Len(uninstall_data') + 1) BY DEF LogInv
<1> QED BY <1>1, LogShape, Mapping

\* A step UndoDisk does not see.
LEMMA Unseen ==
    ASSUME Contents' = Contents, LogOldestFirst' = LogOldestFirst, Phase' = Phase, damaged' = damaged,
           undo'.write_fail = undo.write_fail, undo'.flush_fail = undo.flush_fail
    PROVE  UNCHANGED P!undoVars
BY DEF P!undoVars, Orig

\* Nothing is damaged and nothing fails.
LEMMA CalmKept ==
    ASSUME Own, LogOldestFirst' = LogOldestFirst, damaged' = damaged, Calm(dev') => Calm(dev),
           undo'.write_fail = undo.write_fail, undo'.flush_fail = undo.flush_fail
    PROVE  CalmInv'
<1>1. \A a : P!Covered(a)' <=> P!Covered(a) BY DEF P!Covered
<1> QED BY <1>1 DEF Own, CalmInv, NoErrors

\* While the install writes, a reader sees in every byte a write that was
\* begun, and none older than the last completed one over it.
LEMMA ViewWriter ==
    ASSUME Own, pc \in Writing, NEW a \in Bytes
    PROVE  /\ Writer(View(dev)[a]) \in 0..(Len(uninstall_data) + 1)
           /\ \A j \in 1..Len(uninstall_data) :
                a \in Extent(uninstall_data[j]) => Writer(View(dev)[a]) >= j
<1> DEFINE u == uninstall_data
<1>0. u \in Seq(EntryType) /\ Len(u) \in Nat BY LenProperties DEF Own, LogInv
<1>1. Contents[a] = WrittenBy(u, a) BY Terms DEF Own, WrittenInv
<1>2. /\ Writer(WrittenBy(u, a)) \in 0..Len(u)
      /\ \A j \in 1..Len(u) : a \in Extent(u[j]) => Writer(WrittenBy(u, a)) >= j
  BY <1>0, WriterOfWritten
<1>3. CASE View(dev)[a] = Contents[a] BY <1>0, <1>1, <1>2, <1>3
<1>4. CASE pc # "write"
  <2>1. Contents = View(dev) BY <1>4, Mapping DEF Writing
  <2> QED BY <1>3, <2>1
<1>5. CASE pc = "write"
  <2> DEFINE k == a - op.loc + 1
  <2>1. Contents[a] = IF a \in Extent(op) THEN got[k] ELSE View(dev)[a] BY <1>5 DEF Contents
  <2>2. CASE a \notin Extent(op) BY <1>3, <2>1, <2>2
  <2>3. CASE a \in Extent(op)
    <3>1. /\ op.loc \in Nat /\ op.count \in Nat /\ op.progress \in Nat /\ op.count <= NumBytes
      BY <1>5, Sizes DEF Own, OpInv, OpType
    <3>2. k \in 1..op.count /\ op.loc + k - 1 = a BY <2>3, <3>1, Sizes DEF Extent
    <3> HIDE DEF k
    <3>3. Seen(k) = View(dev)[a] BY <3>2 DEF Seen
    <3>4. CASE k <= op.progress
      <4>1. k \in 1..op.progress BY <3>1, <3>2, <3>4
      <4>2. Seen(k) = op.data[k] BY <1>5, <4>1 DEF Own, OpInv
      <4>3. op.data = NewData(Len(u) + 1, op.count) BY <1>5 DEF Own, OpInv
      <4>4. Len(u) + 1 \in Nat \ {0} BY <1>0
      <4>5. Writer(NewData(Len(u) + 1, op.count)[k]) = Len(u) + 1 BY <3>1, <3>2, <4>4, WriterOfNew
      <4>6. Writer(View(dev)[a]) = Len(u) + 1 BY <3>3, <4>2, <4>3, <4>5
      <4> QED BY <1>0, <4>6
    <3>5. CASE ~(k <= op.progress)
      <4>1. k \in (op.progress + 1)..op.count BY <3>1, <3>2, <3>5
      <4>2. got[k] = Seen(k) BY <1>5, <4>1 DEF Own, OpInv
      <4> QED BY <1>3, <2>1, <2>3, <3>3, <4>2
    <3> QED BY <3>4, <3>5
  <2> QED BY <2>2, <2>3
<1> QED BY <1>4, <1>5

\* Writing the cached block out while the install writes keeps the order.
LEMMA DiskKeeps ==
    ASSUME Own, pc \in Writing, NEW disk, disk = dev.disk \/ disk = View(dev)
    PROVE  OrderedOn(disk, uninstall_data) /\ BoundedBy(disk, Len(uninstall_data) + 1)
<1>0. Len(uninstall_data) \in Nat /\ uninstall_data \in Seq(EntryType)
  BY LenProperties DEF Own, LogInv
<1>1. CASE disk = dev.disk BY <1>1, Terms DEF Own, WrittenInv, BoundedBy
<1>2. CASE disk = View(dev)
  <2>1. BoundedBy(disk, Len(uninstall_data) + 1) BY <1>0, <1>2, ViewWriter DEF BoundedBy
  <2>2. OrderedOn(disk, uninstall_data)
    <3> SUFFICES ASSUME NEW j \in 1..Len(uninstall_data), NEW b \in Extent(uninstall_data[j])
                 PROVE  Writer(disk[b]) >= j
      BY DEF OrderedOn
    <3>1. b \in Bytes BY <1>0, ElementOfSeq, EntryParts
    <3> QED BY <1>2, <3>1, ViewWriter
  <2> QED BY <2>1, <2>2
<1> QED BY <1>1, <1>2

\* What the invariant says of the log and the contents in UndoDisk's terms.
LEMMA InstallFacts ==
    ASSUME DInv, pc \in Busy
    PROVE  /\ Shape(dev) /\ Contents \in [Bytes -> Values] /\ dev.file = dev.disk
           /\ undo = NoUndo /\ damaged = {}
           /\ uninstall_data \in Seq(EntryType)
           /\ LogOldestFirst = Forward(uninstall_data) /\ Phase = "install"
           /\ \A a \in Bytes : P!Covered(a) \/ Contents[a] = Orig[a]
<1>1. Shape(dev) /\ dev.file = dev.disk BY DEF DInv, Own, DevInv, Begun, Buffering, Busy
<1>2. Phase = "install" BY Mapping, Phases
<1>3. undo = NoUndo /\ uninstall_data \in Seq(EntryType) BY DEF DInv, Own, LogInv, Undoing, Busy
<1>4. LogOldestFirst = Forward(uninstall_data)
  BY LogNow DEF DInv, Own, Busy, UndoPcs, Stored, Installed
<1>5. Contents \in [Bytes -> Values] BY DEF DInv, P!UndoInv, P!UndoTypeOK
<1>6. damaged = {} BY <1>2 DEF DInv, P!UndoInv, P!SoundUntilUndo
<1>7. ~(undo.write_fail \/ undo.flush_fail) BY <1>3 DEF NoUndo
<1>8. \A a \in Bytes : P!Covered(a) \/ Contents[a] = Orig[a]
  BY <1>6, <1>7, Zenon DEF DInv, P!UndoInv, P!UncoveredIsOriginal
<1> QED BY <1>1, <1>2, <1>3, <1>4, <1>5, <1>6, <1>8

\* The stream takes over what a reader sees, or does not: what no entry covers
\* stays as it was, outside a running write.
LEMMA FileKeeps ==
    ASSUME DInv, pc \in Busy, pc' \in Busy, dev'.file = dev.file \/ dev'.file = View(dev),
           \A a : P!Covered(a) => P!Covered(a)',
           pc = "write" => \A a \in Extent(op) : P!Covered(a)' \/ (pc' = "write" /\ a \in Extent(op'))
    PROVE  FileInv'
<1> SUFFICES ASSUME NEW a \in Bytes, ~P!Covered(a)', ~(pc' = "write" /\ a \in Extent(op'))
             PROVE  dev'.file[a] = Orig[a]
  BY DEF FileInv
<1>1. ~P!Covered(a) /\ ~(pc = "write" /\ a \in Extent(op)) OBVIOUS
<1>2. dev.file[a] = Orig[a] BY <1>1 DEF DInv, Own, FileInv, Busy
<1>3. Contents[a] = Orig[a] BY <1>1, InstallFacts
<1>4. View(dev)[a] = Contents[a] BY <1>1 DEF Contents, Busy
<1> QED BY <1>2, <1>3, <1>4

\* The install fails: the pending block is dropped, which is UndoDisk's
\* GiveUp, with damage where the device has part of the failed write or lost
\* part of an earlier one.
LEMMA FailStep ==
    ASSUME DInv, pc \in Busy, NEW d, Shape(d), d.file = d.disk, Fail(d),
           Calm(d) => \A a \in Bytes : d.file[a] = Contents[a] \/ P!Covered(a)
    PROVE  Own' /\ P!GiveUp
<1>0. /\ dev' = d /\ pc' = "cleanup" /\ op' = Idle /\ got' = <<>>
      /\ damaged' = {a \in Bytes : d.file[a] # Contents[a]}
      /\ uninstall_data' = uninstall_data /\ undo' = undo
  BY DEF Fail
<1>1. /\ undo = NoUndo /\ uninstall_data \in Seq(EntryType) /\ damaged = {}
      /\ LogOldestFirst = Forward(uninstall_data) /\ Phase = "install"
  BY InstallFacts
<1>2. d.file \in [Bytes -> Values] BY ShapeParts
<1>3. damaged' \subseteq Bytes BY <1>0
<1>4. DevInv'
  <2>1. Shape(dev') /\ dev' \in DevType BY <1>0 DEF Shape
  <2> QED BY <1>0, <1>3, <2>1 DEF DevInv, Begun, Trusted, Installed
<1>5. OpInv'
  <2>1. <<>> \in Seq(Values) BY EmptySeq, Zenon
  <2>2. Idle \in OpType BY <2>1 DEF Idle, OpType
  <2> QED BY <1>0, <2>2 DEF OpInv
<1>6. LogInv' BY <1>0, <1>1 DEF DInv, Own, LogInv, Undoing
<1>7. WrittenInv' /\ WritesReachDiskInOrder' /\ FileInv'
  BY <1>0 DEF WrittenInv, WritesReachDiskInOrder, Writing, FileInv
<1>8. LogOldestFirst' = LogOldestFirst BY <1>0, <1>1, <1>6, LogNext DEF UndoPcs, Stored, Installed
<1>9. CalmInv'
  <2>1. \A a : P!Covered(a)' <=> P!Covered(a) BY <1>8 DEF P!Covered
  <2> QED BY <1>0, <2>1 DEF CalmInv
<1>10. P!GiveUp
  <2>1. Phase' = "undo" BY <1>0, Mapping, Phases
  <2>2. Contents' = d.file BY <1>0, Mapping
  <2>3. \A a \in Bytes \ damaged' : Contents'[a] = Contents[a] BY <1>0, <2>2
  <2>4. (undo'.write_fail \/ undo'.flush_fail) = (undo.write_fail \/ undo.flush_fail) BY <1>0
  <2> QED BY <1>1, <1>2, <1>3, <1>8, <2>1, <2>2, <2>3, <2>4 DEF P!GiveUp, P!Damage, Orig
<1> QED BY <1>4, <1>5, <1>6, <1>7, <1>9, <1>10 DEF Own

-----------------------------------------------------------------------------
(* The steps of an install.                                                *)

Step == Own' /\ [P!UndoNext]_(P!undoVars)

\* A step of the promise.
LEMMA Allowed ==
    ASSUME P!Commit \/ P!GiveUp \/ P!Lose \/ P!UndoPart \/ P!UndoEntry \/ P!UndoFails \/ P!Finish
    PROVE  P!UndoNext
BY DEF P!UndoNext

\* Outside the write loop the log and the flags decide what UndoDisk sees.
LEMMA DeviceInitStep == ASSUME DInv, DeviceInit PROVE Step
<1>0. PICK r \in device_init(dev) :
         /\ dev' = r.dev
         /\ pc' = IF ~r.ok THEN IF pc = "init" THEN "init_failed" ELSE "load_failed"
                  ELSE IF pc = "init" THEN "ready" ELSE "load"
  BY DEF DeviceInit
<1>1. /\ pc \in {"init", "reinit"}
      /\ uninstall_data' = uninstall_data /\ op' = op /\ got' = got /\ undo' = undo /\ damaged' = damaged
  BY DEF DeviceInit
<1>2. dev \in DevType /\ dev.cache_state = "clean" /\ (pc = "reinit" => Shape(dev))
  BY <1>1 DEF DInv, Own, DevInv, Begun, Installed
<1>3. /\ r.ok \in BOOLEAN /\ dev' \in DevType /\ dev'.file = dev.file /\ dev'.cache_state = "clean"
      /\ dev'.disk = dev.disk /\ (Calm(dev') => Calm(dev))
      /\ r.ok => Shape(dev') /\ Coherent(dev')
      /\ Shape(dev) => Shape(dev')
  BY <1>0, <1>2, InitOutcome
<1>4. \/ pc = "init" /\ pc' \in {"ready", "init_failed"}
      \/ pc = "reinit" /\ pc' \in {"load", "load_failed"}
  BY <1>0, <1>1
<1>5. pc' \in {"ready", "load"} => r.ok BY <1>0, <1>1
<1>6. /\ pc = "init" => dev.file = Orig /\ uninstall_data = <<>>
      /\ dev.file = dev.disk
  BY <1>1 DEF DInv, Own, DevInv, Begun, Buffering
<1>7. DevInv'
  <2>1. Begun' => Shape(dev') BY <1>2, <1>3, <1>4, <1>5 DEF Begun
  <2>2. pc' = "ready" => Coherent(dev') BY <1>3, <1>5
  <2>3. damaged' \subseteq Bytes BY <1>1 DEF DInv, Own, DevInv
  <2> QED BY <1>1, <1>3, <1>4, <1>6, <2>1, <2>2, <2>3 DEF DevInv, Begun, Trusted, Installed, Buffering
<1>8. OpInv' BY <1>1, <1>4 DEF DInv, Own, OpInv
<1>9. LogInv' BY <1>1, <1>4 DEF DInv, Own, LogInv, Undoing, Writing, Installed
<1>10. Contents' = Contents
  <2>1. Contents = View(dev) /\ Contents' = View(dev') BY <1>1, <1>4, Mapping
  <2>2. View(dev) = dev.file /\ View(dev') = dev'.file BY <1>2, <1>3, CleanView DEF DevType
  <2> QED BY <1>3, <2>1, <2>2
<1>11. WrittenInv' /\ WritesReachDiskInOrder'
  <2>1. CASE pc' # "ready"
    BY <1>4, <2>1 DEF WrittenInv, WritesReachDiskInOrder, Writing
  <2>2. CASE pc' = "ready"
    <3>1. pc = "init" /\ dev'.disk = Orig /\ dev'.file = Orig /\ uninstall_data' = <<>>
      BY <1>1, <1>3, <1>4, <1>6, <2>2
    <3>2. Contents' = Orig
      <4>1. Contents' = View(dev') BY <2>2, Mapping
      <4> QED BY <1>3, <3>1, <4>1, CleanView DEF DevType
    <3>3. Len(uninstall_data') = 0 /\ DOMAIN uninstall_data' = {} BY <3>1
    <3>4. \A a \in Bytes : Written(a)' = Orig[a] BY <3>3 DEF Written
    <3>5. \A a \in Bytes : Writer(dev'.disk[a]) = 0 BY <3>1, WriterOfOrig
    <3>6. WrittenInv' BY <3>2, <3>3, <3>4, <3>5 DEF WrittenInv
    <3>7. WritesReachDiskInOrder' BY <3>3 DEF WritesReachDiskInOrder
    <3> QED BY <3>6, <3>7
  <2> QED BY <2>1, <2>2
<1>12. Phase' = Phase BY <1>4, Mapping, Phases DEF Busy, Installed
<1>13. LogOldestFirst' = LogOldestFirst
  BY <1>1, <1>4, <1>9, LogNow, LogNext DEF DInv, Own, UndoPcs, Stored, Installed
<1>14. UNCHANGED P!undoVars BY <1>1, <1>10, <1>12, <1>13, Unseen
<1>15. CalmInv' BY <1>1, <1>3, <1>13, CalmKept DEF DInv
<1>16. FileInv' BY <1>3, <1>4, <1>6 DEF FileInv
<1> QED BY <1>7, <1>8, <1>9, <1>11, <1>14, <1>15, <1>16 DEF Step, Own

\* The device goes away; only `gone` changes.
LEMMA VanishStep == ASSUME DInv, Vanish PROVE Step
<1> DEFINE e == dev'
<1>0. /\ pc # "init" /\ dev' = [dev EXCEPT !.gone = TRUE] /\ pc' = pc
      /\ uninstall_data' = uninstall_data /\ op' = op /\ got' = got /\ undo' = undo /\ damaged' = damaged
  BY DEF Vanish
<1>1. dev \in DevType BY DEF DInv, Own, DevInv
<1>2. /\ e \in DevType /\ e.disk = dev.disk /\ e.file = dev.file /\ e.cache = dev.cache
      /\ e.cached_block = dev.cached_block /\ e.cache_state = dev.cache_state
      /\ e.block_size = dev.block_size /\ ~Calm(e)
  BY <1>0, <1>1 DEF DevType, Calm
<1> HIDE DEF e
<1>3. View(e) = View(dev) BY <1>2, SameView
<1>4. Shape(dev) => Shape(e) BY <1>2 DEF Shape
<1>5. /\ Coherent(dev) => Coherent(e)
      /\ \A a \in Bytes : InBlock(e, a) <=> InBlock(dev, a)
  BY <1>2, SameView DEF InBlock
<1>6. DevInv' BY <1>0, <1>2, <1>4, <1>5 DEF DInv, Own, DevInv, Begun, Trusted, e
<1>7. OpInv'
  <2>1. \A k : FitsAt(k)' <=> FitsAt(k) BY <1>0, <1>2 DEF FitsAt, e
  <2>2. \A k : Seen(k)' = Seen(k) BY <1>0, <1>3 DEF Seen, e
  <2> QED BY <1>0, <2>1, <2>2 DEF DInv, Own, OpInv, HasRoom
<1>8. LogInv' BY <1>0 DEF DInv, Own, LogInv, Undoing
<1>9. Contents' = Contents BY <1>0, <1>2, <1>3 DEF Contents, e
<1>10. WrittenInv' BY <1>0, <1>2, <1>9 DEF DInv, Own, WrittenInv, Written, e
<1>11. WritesReachDiskInOrder' BY <1>0, <1>2 DEF DInv, Own, WritesReachDiskInOrder, e
<1>12. Phase' = Phase BY <1>0, Mapping
<1>13. LogOldestFirst' = LogOldestFirst BY <1>0, LogTerms, Mapping
<1>14. UNCHANGED P!undoVars BY <1>0, <1>9, <1>12, <1>13, Unseen
<1>15. CalmInv' BY <1>2 DEF CalmInv, e
<1>16. FileInv'
  <2>1. \A a : P!Covered(a)' <=> P!Covered(a) BY <1>13 DEF P!Covered
  <2> QED BY <1>0, <1>2, <2>1 DEF DInv, Own, FileInv, e
<1> QED BY <1>6, <1>7, <1>8, <1>10, <1>11, <1>14, <1>15, <1>16 DEF Step, Own

\* A read or a write begins.
LEMMA StartStep ==
    ASSUME DInv, NEW r \in Requests, StartRead(r) \/ StartWrite(r) PROVE Step
<1>0. /\ pc = "ready" /\ pc' \in {"read", "save"} /\ got' = <<>>
      /\ dev' = dev /\ uninstall_data' = uninstall_data /\ undo' = undo /\ damaged' = damaged
  BY DEF StartRead, StartWrite
<1>1. r[1] \in Nat /\ r[2] \in 1..NumBytes /\ r[1] + r[2] <= NumBytes
  BY SizeAssumption, Sizes
<1>2. <<>> \in Seq(Values) /\ Len(<<>>) = 0 BY EmptySeq
<1>3. /\ op'.loc = r[1] /\ op'.count = r[2] /\ op'.progress = 0
      /\ pc' = "save" => HasRoom /\ op'.data = NewData(Len(uninstall_data) + 1, r[2])
  <2>1. CASE StartRead(r)
    <3>1. pc' = "read" /\ op' = [loc |-> r[1], data |-> <<>>, count |-> r[2], progress |-> 0]
      BY <2>1 DEF StartRead, Idle
    <3> QED BY <3>1
  <2>2. CASE StartWrite(r)
    <3> DEFINE data == NewData(Len(uninstall_data) + 1, r[2])
    <3>1. HasRoom /\ op' = [loc |-> r[1], count |-> r[2], progress |-> 0, data |-> data]
      BY <2>2 DEF StartWrite
    <3> HIDE DEF data
    <3>2. op'.loc = r[1] /\ op'.count = r[2] /\ op'.progress = 0 /\ op'.data = data BY <3>1
    <3> QED BY <3>1, <3>2 DEF data
  <2> QED BY <2>1, <2>2
<1>4. op' \in OpType
  <2>1. CASE StartRead(r)
    <3>1. op' = [loc |-> r[1], data |-> <<>>, count |-> r[2], progress |-> 0]
      BY <2>1 DEF StartRead, Idle
    <3> QED BY <1>1, <1>2, <3>1, Sizes DEF OpType
  <2>2. CASE StartWrite(r)
    <3> DEFINE n == Len(uninstall_data) + 1
               data == NewData(n, r[2])
    <3>1. n \in 1..(UNINSTALL_DATA_MAX + 1)
      BY <2>2, Sizes, LenProperties DEF DInv, Own, LogInv, StartWrite, HasRoom
    <3>2. \A k \in 1..r[2] : k \in 1..NumBytes BY <1>1, Sizes
    <3>3. \A k \in 1..r[2] : Datum(n, k) \in Values BY <3>1, <3>2 DEF Values
    <3> HIDE DEF n
    <3>4. data \in Seq(Values)
      <4>1. data \in [1..r[2] -> Values] BY <3>3 DEF NewData
      <4>2. r[2] \in Nat \ {0} BY <1>1, Sizes
      <4> QED BY <4>1, <4>2, CacheOf
    <3>5. op' = [loc |-> r[1], count |-> r[2], progress |-> 0, data |-> data]
      BY <2>2 DEF StartWrite, n
    <3> HIDE DEF data
    <3> QED BY <1>1, <3>4, <3>5, Sizes DEF OpType
  <2> QED BY <2>1, <2>2
<1>5. DevInv' BY <1>0 DEF DInv, Own, DevInv, Begun, Trusted, Installed, Buffering
<1>6. OpInv'
  <2>1. \A k \in 1..0 : FALSE OBVIOUS
  <2>2. op'.progress < op'.count /\ op'.loc + op'.count <= NumBytes BY <1>1, <1>3, Sizes
  <2>3. HasRoom' <=> HasRoom BY <1>0 DEF HasRoom
  <2> QED BY <1>0, <1>2, <1>3, <1>4, <2>1, <2>2, <2>3 DEF OpInv
<1>7. LogInv' BY <1>0 DEF DInv, Own, LogInv, Undoing, Writing
<1>8. Contents' = Contents BY <1>0, Mapping
<1>9. WrittenInv' BY <1>0, <1>8 DEF DInv, Own, WrittenInv, Written, Writing
<1>10. WritesReachDiskInOrder' BY <1>0 DEF DInv, Own, WritesReachDiskInOrder
<1>11. Phase' = Phase BY <1>0, Mapping, Phases DEF Busy
<1>12. LogOldestFirst' = LogOldestFirst
  BY <1>0, <1>7, LogNow, LogNext DEF DInv, Own, UndoPcs, Stored, Installed
<1>13. UNCHANGED P!undoVars BY <1>0, <1>8, <1>11, <1>12, Unseen
<1>14. CalmInv' BY <1>0, <1>12, CalmKept DEF DInv
<1>15. FileInv'
  <2>1. \A a : P!Covered(a) => P!Covered(a)' BY <1>12 DEF P!Covered
  <2> QED BY <1>0, <2>1, FileKeeps DEF Busy
<1> QED BY <1>5, <1>6, <1>7, <1>9, <1>10, <1>13, <1>14, <1>15 DEF Step, Own

\* No room for another entry.
LEMMA TooManyStep == ASSUME DInv, TooManyEntries PROVE Step
<1>1. pc = "ready" /\ Fail(dev) BY DEF TooManyEntries
<1>2. /\ Shape(dev) /\ dev.file = dev.disk
      /\ \A a \in Bytes : P!Covered(a) \/ Contents[a] = Orig[a]
  BY <1>1, InstallFacts DEF Busy
<1>3. \A a \in Bytes : dev.file[a] = Contents[a] \/ P!Covered(a)
  BY <1>1, <1>2 DEF DInv, Own, FileInv
<1>4. Own' /\ P!GiveUp BY <1>1, <1>2, <1>3, FailStep DEF Busy
<1> QED BY <1>4, Allowed DEF Step

\* The bytes of the running operation and the ones of the chunk.
LEMMA ChunkBytes ==
    ASSUME Running
    PROVE  /\ \A k \in 1..op.count :
                /\ op.loc + k - 1 \in Bytes /\ op.loc + k - 1 \in Extent(op)
                /\ (op.loc + k - 1) - op.loc + 1 = k
                /\ op.loc + k - 1 \in Now <=> k \in (op.progress + 1)..(op.progress + Chunk)
           /\ \A a \in Extent(op) : a \in Bytes /\ a - op.loc + 1 \in 1..op.count
                                    /\ op.loc + (a - op.loc + 1) - 1 = a
           /\ \A a \in Now : a \in Extent(op)
<1>1. /\ op.loc \in Nat /\ op.count \in Nat /\ op.progress \in Nat /\ Chunk \in Nat
      /\ op.progress + Chunk <= op.count
  BY ChunkFacts
<1>2. op.loc + op.count <= NumBytes BY DEF Running
<1>3. ASSUME NEW k \in 1..op.count
      PROVE  /\ op.loc + k - 1 \in Bytes /\ op.loc + k - 1 \in Extent(op)
             /\ (op.loc + k - 1) - op.loc + 1 = k
             /\ op.loc + k - 1 \in Now <=> k \in (op.progress + 1)..(op.progress + Chunk)
  <2>1. op.loc + k - 1 \in Bytes BY <1>1, <1>2, Sizes DEF Bytes
  <2>2. op.loc + k - 1 \in Extent(op) /\ (op.loc + k - 1) - op.loc + 1 = k BY <1>1 DEF Extent
  <2>3. op.loc + k - 1 \in Now <=> k \in (op.progress + 1)..(op.progress + Chunk) BY <1>1 DEF Now
  <2> QED BY <2>1, <2>2, <2>3
<1>4. \A a \in Extent(op) : a \in Bytes /\ a - op.loc + 1 \in 1..op.count
                            /\ op.loc + (a - op.loc + 1) - 1 = a
  BY <1>1, <1>2, Sizes DEF Bytes, Extent
<1>5. \A a \in Now : a \in Extent(op) BY <1>1 DEF Extent, Now
<1> QED BY <1>3, <1>4, <1>5

\* The operation with another progress.
Advanced(n) == [op EXCEPT !.progress = n]

\* Nothing else changes.
LEMMA AdvancedOp ==
    ASSUME op \in OpType, NEW n \in Nat
    PROVE  /\ Advanced(n) \in OpType /\ Advanced(n).progress = n /\ Advanced(n).loc = op.loc
           /\ Advanced(n).count = op.count /\ Advanced(n).data = op.data
BY DEF Advanced, OpType

\* What a read copies out of the cache is what a reader sees.
LEMMA Gathered ==
    ASSUME Running, NEW d, Shape(d), d.block_size = dev.block_size, d.cached_block = Block,
           Coherent(d), got \in Seq(Values), Len(got) = op.progress,
           \A k \in 1..op.progress : got[k] = View(d)[op.loc + k - 1]
    PROVE  LET g == got \o SubSeq(d.cache, Offset + 1, Offset + Chunk)
           IN  /\ g \in Seq(Values) /\ Len(g) = op.progress + Chunk
               /\ \A k \in 1..(op.progress + Chunk) : g[k] = View(d)[op.loc + k - 1]
<1> DEFINE part == SubSeq(d.cache, Offset + 1, Offset + Chunk)
           g == got \o part
<1>1. /\ op.loc \in Nat /\ op.count \in Nat /\ op.progress \in Nat /\ dev.block_size \in Nat \ {0}
      /\ Offset \in 0..(dev.block_size - 1) /\ Chunk \in Nat \ {0} /\ Offset + Chunk <= dev.block_size
      /\ op.progress + Chunk <= op.count /\ Block \in Nat
  BY ChunkFacts
<1>2. d.cached_block # -1 /\ d.cache \in Seq(Values) /\ Len(d.cache) = dev.block_size
  <2>1. d.cached_block # -1 BY <1>1
  <2> QED BY <2>1, ShapeParts
<1>3. part \in Seq(Values) /\ Len(part) = Chunk /\ \A m \in 1..Chunk : part[m] = d.cache[Offset + m]
  <2>1. \A k \in (Offset + 1)..(Offset + Chunk) : d.cache[k] \in Values
    BY <1>1, <1>2, ElementOfSeq
  <2> DEFINE lo == Offset + 1
             hi == Offset + Chunk
  <2>2. lo \in Int /\ hi \in Int /\ part = SubSeq(d.cache, lo, hi)
        /\ \A k \in lo..hi : d.cache[k] \in Values
    BY <1>1, <2>1
  <2>4. hi - lo + 1 = Chunk /\ lo <= hi BY <1>1
  <2>5. \A m \in 1..Chunk : lo + m - 1 = Offset + m BY <1>1
  <2> HIDE DEF part, lo, hi
  <2>3. /\ part \in Seq(Values)
        /\ Len(part) = IF lo <= hi THEN hi - lo + 1 ELSE 0
        /\ \A m \in 1..(hi - lo + 1) : part[m] = d.cache[lo + m - 1]
    BY <2>2, SubSeqProperties
  <2> QED BY <2>3, <2>4, <2>5
<1> HIDE DEF part
<1>4. /\ g \in Seq(Values) /\ Len(g) = op.progress + Chunk
      /\ \A k \in 1..(op.progress + Chunk) :
            g[k] = IF k <= op.progress THEN got[k] ELSE part[k - op.progress]
  <2>1. got \in Seq(Values) /\ part \in Seq(Values) BY <1>3
  <2>2. /\ g \in Seq(Values) /\ Len(g) = Len(got) + Len(part)
        /\ \A k \in 1..(Len(got) + Len(part)) :
              g[k] = IF k <= Len(got) THEN got[k] ELSE part[k - Len(got)]
    BY <2>1, ConcatProperties
  <2> HIDE DEF g
  <2> QED BY <1>3, <2>2
<1> HIDE DEF g
<1>5. ASSUME NEW k \in 1..(op.progress + Chunk) PROVE g[k] = View(d)[op.loc + k - 1]
  <2>1. CASE k <= op.progress
    <3>1. k \in 1..op.progress BY <1>1, <2>1
    <3>2. g[k] = got[k] BY <1>4, <2>1
    <3> QED BY <3>1, <3>2
  <2>2. CASE ~(k <= op.progress)
    <3> DEFINE m == k - op.progress
               a == op.loc + k - 1
               rem == a % dev.block_size
    <3>1. m \in 1..Chunk /\ k \in (op.progress + 1)..(op.progress + Chunk) /\ k \in 1..op.count
      BY <1>1, <2>2
    <3>2. g[k] = d.cache[Offset + m] BY <1>3, <1>4, <2>2, <3>1
    <3>3. a \in Bytes /\ a \in Now /\ a - op.loc + 1 = k BY <3>1, ChunkBytes
    <3> HIDE DEF a
    <3>4. rem \in 0..(dev.block_size - 1) /\ a \div dev.block_size = Block
          /\ a - op.loc + 1 = op.progress + (rem + 1) - Offset
      BY <3>3, ChunkPlace
    <3> HIDE DEF rem
    <3>5. rem + 1 = Offset + m BY <1>1, <3>3, <3>4
    <3>6. InBlock(d, a) BY <3>4 DEF InBlock
    <3>7. View(d)[a] = d.cache[rem + 1]
      <4>1. CASE d.cache_state = "dirty" BY <3>3, <3>6, <4>1 DEF View, rem
      <4>2. CASE d.cache_state = "clean"
        <5>1. d.cache[rem + 1] = d.file[a] BY <1>2, <3>3, <3>6, <4>2 DEF Coherent, rem
        <5>2. View(d)[a] = d.file[a] BY <3>3, <4>2 DEF View
        <5> QED BY <5>1, <5>2
      <4> QED BY <4>1, <4>2, ShapeParts
    <3> QED BY <3>2, <3>5, <3>7 DEF a
  <2> QED BY <2>1, <2>2
<1> QED BY <1>4, <1>5 DEF g, part

\* The properties in the terms above, after a step.
LEMMA TermsNext ==
    /\ \A a \in Bytes : Written(a)' = WrittenBy(uninstall_data', a)
    /\ WritesReachDiskInOrder' <=> (pc' \in Writing => OrderedOn(dev'.disk, uninstall_data'))
    /\ WrittenInv' <=> (pc' \in Writing =>
                            /\ \A a \in Bytes : Contents'[a] = WrittenBy(uninstall_data', a)
                            /\ BoundedBy(dev'.disk, Len(uninstall_data') + 1))
BY DEF Written, WrittenBy, On, WritesReachDiskInOrder, OrderedOn, Writing, WrittenInv, BoundedBy

\* The contents as the install leaves them, with no entry added.
LEMMA SameWrites ==
    ASSUME Own, pc \in Writing, uninstall_data' = uninstall_data, Contents' = Contents,
           dev'.disk = dev.disk \/ dev'.disk = View(dev)
    PROVE  WrittenInv' /\ WritesReachDiskInOrder'
<1>1. /\ OrderedOn(dev'.disk, uninstall_data) /\ BoundedBy(dev'.disk, Len(uninstall_data) + 1)
  BY DiskKeeps
<1>2. \A a \in Bytes : Contents[a] = WrittenBy(uninstall_data, a) BY Terms DEF Own, WrittenInv
<1> QED BY <1>1, <1>2, TermsNext

\* One iteration of _device_read, for a caller or to save what a write will
\* replace.
LEMMA ReadStepStep == ASSUME DInv, ReadStep PROVE Step
<1>0. PICK r \in device_cache_block(dev, Block) :
         IF ~r.ok THEN Fail(r.dev)
         ELSE /\ dev' = r.dev
              /\ got' = got \o SubSeq(r.dev.cache, Offset + 1, Offset + Chunk)
              /\ op' = [op EXCEPT !.progress = IF pc = "save" /\ Done THEN 0 ELSE @ + Chunk]
              /\ pc' = IF ~Done THEN pc ELSE IF pc = "save" THEN "write" ELSE "ready"
              /\ UNCHANGED <<uninstall_data, undo, damaged>>
  BY DEF ReadStep
<1>1. pc \in {"read", "save"} BY DEF ReadStep
<1>2. /\ Shape(dev) /\ undo = NoUndo /\ LogOldestFirst = Forward(uninstall_data)
      /\ Phase = "install" /\ dev.file = dev.disk
  BY <1>1, InstallFacts DEF Busy
<1>3. Running BY <1>1, <1>2 DEF DInv, Own, OpInv, Running
<1>4. Coherent(dev) BY <1>1 DEF DInv, Own, DevInv, Trusted
<1>5. Block \in Nat BY <1>3, ChunkFacts
<1>6. /\ Shape(r.dev) /\ r.ok \in BOOLEAN /\ r.dev.disk = r.dev.file
      /\ r.ok => /\ Kept(dev, r.dev) /\ r.dev.cached_block = Block /\ Coherent(r.dev)
                 /\ r.dev.file = dev.file \/ r.dev.file = View(dev)
      /\ Calm(r.dev) => Calm(dev) /\ (r.ok \/ r.dev.file = View(dev))
  BY <1>2, <1>4, <1>5, CacheOutcome
<1>7. CASE ~r.ok
  <2>1. Fail(r.dev) BY <1>0, <1>7
  <2>2. Contents = View(dev) BY <1>1, Mapping
  <2>3. Own' /\ P!GiveUp BY <1>1, <1>6, <1>7, <2>1, <2>2, FailStep DEF Busy
  <2> QED BY <2>3, Allowed DEF Step
<1>8. CASE r.ok
  <2> DEFINE n == IF pc = "save" /\ Done THEN 0 ELSE op.progress + Chunk
  <2>0. /\ dev' = r.dev /\ got' = got \o SubSeq(r.dev.cache, Offset + 1, Offset + Chunk)
        /\ op' = Advanced(n)
        /\ pc' = IF ~Done THEN pc ELSE IF pc = "save" THEN "write" ELSE "ready"
        /\ uninstall_data' = uninstall_data /\ undo' = undo /\ damaged' = damaged
    BY <1>0, <1>8 DEF Advanced
  <2>1. /\ op.progress \in Nat /\ op.count \in Nat /\ Chunk \in Nat \ {0} /\ op.loc \in Nat
        /\ op.progress + Chunk <= op.count
        /\ Done <=> op.progress + Chunk = op.count
    BY <1>3, ChunkFacts
  <2>2. /\ op' \in OpType /\ op'.progress = n /\ op'.loc = op.loc /\ op'.count = op.count
        /\ op'.data = op.data
    <3>1. op \in OpType /\ n \in Nat BY <1>3, <2>1 DEF Running
    <3> HIDE DEF n
    <3> QED BY <2>0, <3>1, AdvancedOp
  <2>3. Shape(dev') /\ View(dev') = View(dev) /\ Coherent(dev') BY <1>6, <1>8, <2>0 DEF Kept
  <2>4. /\ (pc = "read" /\ pc' \in {"read", "ready"}) \/ (pc = "save" /\ pc' \in {"save", "write"})
        /\ pc' \in {"read", "save"} => ~Done
        /\ pc' = "write" => Done
    <3>1. CASE pc = "read" BY <2>0, <3>1
    <3>2. CASE pc = "save" BY <2>0, <3>2
    <3> QED BY <1>1, <3>1, <3>2
  <2>5. DevInv'
    <3>1. dev' \in DevType /\ damaged' \subseteq Bytes BY <2>0, <2>3 DEF Shape, DInv, Own, DevInv
    <3> QED BY <1>6, <2>0, <2>3, <2>4, <3>1 DEF DevInv, Begun, Installed
  <2>6. LogInv'
    <3>1. ~Undoing' /\ pc' \in Writing /\ ~Undoing BY <2>4 DEF Undoing, Writing
    <3> QED BY <2>0, <2>4, <3>1 DEF DInv, Own, LogInv
  <2>7. ASSUME pc = "save"
        PROVE  /\ got' \in Seq(Values) /\ Len(got') = op.progress + Chunk
               /\ \A k \in 1..(op.progress + Chunk) : got'[k] = View(dev')[op.loc + k - 1]
    <3>1. /\ got \in Seq(Values) /\ Len(got) = op.progress
          /\ \A k \in 1..op.progress : got[k] = View(r.dev)[op.loc + k - 1]
      BY <1>6, <1>8, <2>7 DEF DInv, Own, OpInv, Seen, Kept
    <3>2. Shape(r.dev) /\ r.dev.block_size = dev.block_size BY <1>6, <1>8 DEF Kept
    <3> QED BY <1>3, <1>6, <1>8, <2>0, <3>1, <3>2, Gathered
  <2>15. ASSUME pc = "save" PROVE \A k \in 1..(op.progress + Chunk) : FitsAt(k)'
    <3> SUFFICES ASSUME NEW k \in 1..(op.progress + Chunk) PROVE FitsAt(k)' OBVIOUS
    <3>1. r.dev.block_size = dev.block_size BY <1>6, <1>8 DEF Kept
    <3>2. FitsAt(k)' <=> FitsAt(k) BY <2>0, <2>2, <3>1 DEF FitsAt
    <3>3. CASE k \in 1..op.progress BY <2>15, <3>2, <3>3 DEF DInv, Own, OpInv
    <3>4. CASE k \notin 1..op.progress
      <4>1. k \in 1..op.count /\ k \in (op.progress + 1)..(op.progress + Chunk) BY <2>1, <3>4
      <4>2. op.loc + k - 1 \in Bytes /\ op.loc + k - 1 \in Now BY <1>3, <4>1, ChunkBytes
      <4>3. (op.loc + k - 1) \div dev.block_size = Block BY <1>3, <4>2, ChunkPlace
      <4>4. Block # -1 BY <1>5
      <4>5. BlockFits(Block, dev.block_size) BY <1>6, <1>8, <3>1, <4>4, ShapeParts
      <4> QED BY <3>2, <4>3, <4>5 DEF FitsAt
    <3> QED BY <3>3, <3>4
  <2>8. OpInv'
    <3>1. op.progress < op.count /\ op.loc + op.count <= NumBytes BY <1>3 DEF Running
    <3>2. /\ pc' \in {"read", "save"} => n = op.progress + Chunk /\ n < op.count
          /\ pc' = "write" => n = 0 /\ n < op.count /\ op.progress + Chunk = op.count
      BY <2>1, <2>4, <3>1
    <3>3. pc' \in {"save", "write"} => /\ op.data = NewData(Len(uninstall_data) + 1, op.count)
                                       /\ HasRoom
      BY <2>4 DEF DInv, Own, OpInv
    <3>4. HasRoom' <=> HasRoom BY <2>0 DEF HasRoom
    <3>5. \A k \in 1..0 : FALSE OBVIOUS
    <3> HIDE DEF n
    <3>6. pc' = "write" =>
            /\ Len(got') = op'.count
            /\ \A k \in (op'.progress + 1)..op'.count : got'[k] = Seen(k)'
            /\ \A k \in 1..op'.progress : Seen(k)' = op'.data[k]
            /\ \A k \in 1..op'.count : FitsAt(k)'
      <4> SUFFICES ASSUME pc' = "write"
                   PROVE  /\ Len(got') = op'.count
                          /\ \A k \in (op'.progress + 1)..op'.count : got'[k] = Seen(k)'
                          /\ \A k \in 1..op'.progress : Seen(k)' = op'.data[k]
                          /\ \A k \in 1..op'.count : FitsAt(k)'
        OBVIOUS
      <4>1. pc = "save" /\ op'.progress = 0 /\ op.progress + Chunk = op.count
        BY <2>2, <2>4, <3>2
      <4>2. \A k \in (op'.progress + 1)..op'.count : got'[k] = View(dev')[op'.loc + k - 1]
        BY <2>1, <2>2, <2>7, <4>1
      <4> QED BY <2>2, <2>7, <2>15, <3>5, <4>1, <4>2 DEF Seen
    <3>7. pc' = "save" =>
            /\ Len(got') = op'.progress /\ \A k \in 1..op'.progress : got'[k] = Seen(k)'
            /\ \A k \in 1..op'.progress : FitsAt(k)'
      BY <2>2, <2>4, <2>7, <2>15, <3>2 DEF Seen
    <3>8. pc' \in {"save", "write"} => got' \in Seq(Values) BY <2>4, <2>7
    <3>9. pc' # "uwrite" BY <2>4
    <3>10. pc' \in {"read", "save", "write"} => op'.progress < op'.count /\ op'.loc + op'.count <= NumBytes
      BY <2>2, <3>1, <3>2
    <3>11. pc' \in {"save", "write"} =>
             op'.data = NewData(Len(uninstall_data') + 1, op'.count) /\ HasRoom'
      BY <2>0, <2>2, <3>3, <3>4
    <3> QED BY <2>2, <3>6, <3>7, <3>8, <3>9, <3>10, <3>11 DEF OpInv
  <2>9. Contents' = Contents
    <3>1. Contents = View(dev) BY <1>1, Mapping
    <3>2. CASE pc' # "write"
      <4>1. Contents' = View(dev') BY <2>4, <3>2, Mapping
      <4> QED BY <2>3, <3>1, <4>1
    <3>3. CASE pc' = "write"
      <4>1. pc = "save" /\ op.progress + Chunk = op.count BY <2>1, <2>4, <3>3
      <4>2. Extent(op') = Extent(op) BY <2>2 DEF Extent
      <4>3. Contents' = [a \in Bytes |-> IF a \in Extent(op') THEN got'[a - op'.loc + 1] ELSE View(dev')[a]]
        BY <3>3 DEF Contents
      <4>4. \A a \in Extent(op) : got'[a - op.loc + 1] = View(dev')[a]
        BY <1>3, <2>7, <4>1, ChunkBytes
      <4>5. Contents' = [a \in Bytes |-> View(dev)[a]] BY <2>2, <2>3, <4>2, <4>3, <4>4
      <4>6. View(dev) \in [Bytes -> Values] BY <1>2, ViewType
      <4> QED BY <3>1, <4>5, <4>6
    <3> QED BY <3>2, <3>3
  <2>10. WrittenInv' /\ WritesReachDiskInOrder'
    BY <1>1, <1>2, <1>6, <1>8, <2>0, <2>9, SameWrites DEF DInv, Writing
  <2>11. Phase' = Phase BY <1>2, <2>4, Mapping, Phases DEF Busy
  <2>12. LogOldestFirst' = LogOldestFirst BY <1>2, <2>0, <2>4, <2>6, LogNext DEF UndoPcs, Stored, Installed
  <2>13. UNCHANGED P!undoVars BY <2>0, <2>9, <2>11, <2>12, Unseen
  <2>14. CalmInv' BY <1>6, <2>0, <2>12, CalmKept DEF DInv
  <2>16. FileInv'
    <3>1. \A a : P!Covered(a) => P!Covered(a)' BY <2>12 DEF P!Covered
    <3>2. pc # "write" /\ pc \in Busy /\ pc' \in Busy BY <1>1, <2>4 DEF Busy
    <3> QED BY <1>6, <1>8, <2>0, <3>1, <3>2, FileKeeps
  <2> QED BY <2>5, <2>6, <2>8, <2>10, <2>13, <2>14, <2>16 DEF Step, Own
<1> QED BY <1>7, <1>8

\* The chunk is in the cache: a reader sees the data in its bytes, and
\* nothing else changes for it.
LEMMA CopiedSeen ==
    ASSUME Running, Coherent(dev), NEW r \in device_cache_block(dev, Block), r.ok,
           Len(op.data) = op.count, NEW e, e = CopyIn(r.dev, Offset)
    PROVE  /\ Shape(e) /\ Coherent(e)
           /\ e.file = dev.file \/ e.file = View(dev)
           /\ dev.disk = dev.file => e.disk = e.file
           /\ e.block_size = dev.block_size /\ (Calm(e) => Calm(dev))
           /\ \A a \in Bytes : View(e)[a] = IF a \in Now THEN op.data[a - op.loc + 1] ELSE View(dev)[a]
<1>1. Block \in Nat /\ Shape(dev) BY ChunkFacts DEF Running
<1>2. /\ Kept(dev, r.dev) /\ r.dev.cached_block = Block /\ Coherent(r.dev)
      /\ r.dev.file = dev.file \/ r.dev.file = View(dev)
      /\ dev.disk = dev.file => r.dev.disk = r.dev.file
      /\ Calm(r.dev) => Calm(dev)
  BY <1>1, CacheOutcome
<1>3. Shape(r.dev) /\ r.dev.block_size = dev.block_size /\ View(r.dev) = View(dev) BY <1>2 DEF Kept
<1>4. /\ Shape(e) /\ Coherent(e) /\ e.file = r.dev.file /\ e.disk = r.dev.disk
      /\ e.block_size = dev.block_size /\ (Calm(e) => Calm(r.dev))
      /\ \A a \in Bytes : View(e)[a] = IF a \in Now THEN op.data[a - op.loc + 1] ELSE View(r.dev)[a]
  BY <1>2, <1>3, CopyOutcome
<1> QED BY <1>2, <1>3, <1>4

\* So it is with the bytes of the operation, one by one.
LEMMA CopiedBytes ==
    ASSUME Running, NEW e,
           \A a \in Bytes : View(e)[a] = IF a \in Now THEN op.data[a - op.loc + 1] ELSE View(dev)[a],
           NEW k \in 1..op.count
    PROVE  View(e)[op.loc + k - 1] = IF k \in (op.progress + 1)..(op.progress + Chunk)
                                     THEN op.data[k] ELSE Seen(k)
<1> DEFINE a == op.loc + k - 1
<1>1. a \in Bytes /\ a - op.loc + 1 = k /\ (a \in Now <=> k \in (op.progress + 1)..(op.progress + Chunk))
  BY ChunkBytes
<1>2. Seen(k) = View(dev)[a] BY DEF Seen
<1> HIDE DEF a
<1>3. View(e)[a] = IF k \in (op.progress + 1)..(op.progress + Chunk) THEN op.data[k] ELSE Seen(k)
  BY <1>1, <1>2
<1> QED BY <1>3 DEF a

\* One iteration of _device_write; the last one logs the write, which is
\* UndoDisk's WriteTo.
LEMMA WriteStepStep == ASSUME DInv, WriteStep PROVE Step
<1> DEFINE u == uninstall_data
<1>0. PICK r \in device_cache_block(dev, Block) :
         IF ~r.ok THEN Fail(r.dev)
         ELSE /\ dev' = CopyIn(r.dev, Offset)
              /\ IF Done
                 THEN /\ pc' = "ready" /\ op' = Idle /\ got' = <<>>
                      /\ uninstall_data' = Append(uninstall_data, NewEntry)
                 ELSE /\ op' = [op EXCEPT !.progress = @ + Chunk]
                      /\ UNCHANGED <<pc, got, uninstall_data>>
              /\ UNCHANGED <<undo, damaged>>
  BY DEF WriteStep
<1>1. pc = "write" BY DEF WriteStep
<1>2. /\ Shape(dev) /\ undo = NoUndo /\ LogOldestFirst = Forward(u) /\ damaged = {}
      /\ Phase = "install" /\ u \in Seq(EntryType) /\ Contents \in [Bytes -> Values]
      /\ dev.file = dev.disk
  BY <1>1, InstallFacts DEF Busy
<1>3. Running BY <1>1, <1>2 DEF DInv, Own, OpInv, Running
<1>4. Coherent(dev) BY <1>1 DEF DInv, Own, DevInv, Trusted
<1>5. Block \in Nat BY <1>3, ChunkFacts
<1>6. /\ Shape(r.dev) /\ r.ok \in BOOLEAN /\ r.dev.disk = r.dev.file
      /\ Calm(r.dev) => r.ok
  <2>1. BlockFits(Block, dev.block_size)
    <3>1. /\ op.progress + 1 \in 1..op.count /\ op.loc + (op.progress + 1) - 1 = op.loc + op.progress
      BY <1>3, ChunkFacts DEF Running
    <3>2. FitsAt(op.progress + 1) BY <1>1, <3>1 DEF DInv, Own, OpInv
    <3> QED BY <3>1, <3>2 DEF FitsAt, Block
  <2> QED BY <1>2, <1>5, <2>1, CacheOutcome
<1>7. CASE ~r.ok
  <2>1. Fail(r.dev) BY <1>0, <1>7
  <2>2. Own' /\ P!GiveUp BY <1>1, <1>6, <1>7, <2>1, FailStep DEF Busy
  <2> QED BY <2>2, Allowed DEF Step
<1>8. CASE r.ok
  <2>0. dev' = CopyIn(r.dev, Offset) /\ undo' = undo /\ damaged' = damaged BY <1>0, <1>8
  <2>1. /\ op.progress \in Nat /\ op.count \in Nat /\ Chunk \in Nat \ {0} /\ op.loc \in Nat
        /\ op.progress + Chunk <= op.count
        /\ Done <=> op.progress + Chunk = op.count
        /\ Len(u) \in Nat
    BY <1>2, <1>3, ChunkFacts, LenProperties
  <2>2. /\ op.data = NewData(Len(u) + 1, op.count) /\ HasRoom /\ got \in Seq(Values)
        /\ Len(got) = op.count
        /\ \A k \in (op.progress + 1)..op.count : got[k] = Seen(k)
        /\ \A k \in 1..op.progress : Seen(k) = op.data[k]
        /\ \A k \in 1..op.count : FitsAt(k)
    BY <1>1 DEF DInv, Own, OpInv
  <2>3. Len(op.data) = op.count BY <2>1, <2>2 DEF NewData
  <2>4. /\ Shape(dev') /\ Coherent(dev')
        /\ dev'.file = dev.file \/ dev'.file = View(dev)
        /\ dev'.disk = dev'.file /\ dev'.block_size = dev.block_size /\ (Calm(dev') => Calm(dev))
        /\ \A a \in Bytes : View(dev')[a] = IF a \in Now THEN op.data[a - op.loc + 1] ELSE View(dev)[a]
    BY <1>2, <1>3, <1>4, <1>8, <2>0, <2>3, CopiedSeen
  <2>5. \A k \in 1..op.count :
           View(dev')[op.loc + k - 1] = IF k \in (op.progress + 1)..(op.progress + Chunk)
                                        THEN op.data[k] ELSE Seen(k)
    BY <1>3, <2>4, CopiedBytes
  <2>6. /\ Contents = [a \in Bytes |-> IF a \in Extent(op) THEN got[a - op.loc + 1] ELSE View(dev)[a]]
    BY <1>1 DEF Contents
  <2>7. \A a \in Bytes \ Extent(op) : View(dev')[a] = View(dev)[a] BY <1>3, <2>4, ChunkBytes
  <2>8. dev' \in DevType /\ damaged' \subseteq Bytes BY <1>2, <2>0, <2>4 DEF Shape
  <2>9. CASE ~Done
    <3>0. /\ op' = Advanced(op.progress + Chunk) /\ pc' = "write" /\ got' = got
          /\ uninstall_data' = u
      BY <1>0, <1>1, <1>8, <2>9 DEF Advanced
    <3>1. /\ op' \in OpType /\ op'.progress = op.progress + Chunk /\ op'.loc = op.loc
          /\ op'.count = op.count /\ op'.data = op.data
      <4>1. op \in OpType /\ op.progress + Chunk \in Nat BY <1>3, <2>1 DEF Running
      <4> QED BY <3>0, <4>1, AdvancedOp
    <3>2. op.progress + Chunk < op.count BY <2>1, <2>9
    <3>3. DevInv' BY <2>4, <2>8, <3>0 DEF DevInv, Begun, Installed
    <3>4. OpInv'
      <4>1. op'.progress < op'.count /\ op'.loc + op'.count <= NumBytes
        BY <1>3, <3>1, <3>2 DEF Running
      <4>2. HasRoom' BY <2>2, <3>0 DEF HasRoom
      <4>3. op'.data = NewData(Len(uninstall_data') + 1, op'.count) BY <2>2, <3>0, <3>1
      <4>4. \A k : Seen(k)' = View(dev')[op.loc + k - 1] BY <3>1 DEF Seen
      <4>5. \A k \in (op'.progress + 1)..op'.count : got'[k] = Seen(k)'
        <5> SUFFICES ASSUME NEW k \in (op'.progress + 1)..op'.count PROVE got'[k] = Seen(k)'
          OBVIOUS
        <5>1. /\ k \in 1..op.count /\ k \in (op.progress + 1)..op.count
              /\ k \notin (op.progress + 1)..(op.progress + Chunk)
          BY <2>1, <3>1
        <5>2. Seen(k)' = Seen(k) BY <2>5, <4>4, <5>1
        <5> QED BY <2>2, <3>0, <5>1, <5>2
      <4>6. \A k \in 1..op'.progress : Seen(k)' = op'.data[k]
        <5> SUFFICES ASSUME NEW k \in 1..op'.progress PROVE Seen(k)' = op'.data[k] OBVIOUS
        <5>1. /\ k \in 1..op.count
              /\ k \in 1..op.progress \/ k \in (op.progress + 1)..(op.progress + Chunk)
          BY <2>1, <3>1
        <5>2. Seen(k)' = op.data[k] BY <2>2, <2>5, <4>4, <5>1
        <5> QED BY <3>1, <5>2
      <4>7. pc' = "write" /\ got' \in Seq(Values) /\ Len(got') = op'.count
        BY <2>2, <3>0, <3>1
      <4>8. \A k \in 1..op'.count : FitsAt(k)' BY <2>2, <2>4, <3>1 DEF FitsAt
      <4> QED BY <3>0, <3>1, <4>1, <4>2, <4>3, <4>5, <4>6, <4>7, <4>8 DEF OpInv
    <3>5. LogInv' BY <1>1, <2>0, <3>0 DEF DInv, Own, LogInv, Undoing
    <3>6. Contents' = Contents
      <4>1. Extent(op') = Extent(op) BY <3>1 DEF Extent
      <4>2. Contents' = [a \in Bytes |-> IF a \in Extent(op') THEN got'[a - op'.loc + 1] ELSE View(dev')[a]]
        BY <3>0 DEF Contents
      <4> QED BY <2>6, <2>7, <3>0, <3>1, <4>1, <4>2
    <3>7. WrittenInv' /\ WritesReachDiskInOrder'
      BY <1>1, <1>2, <2>4, <3>0, <3>6, SameWrites DEF DInv, Writing
    <3>8. Phase' = Phase BY <1>1, <3>0, Mapping
    <3>9. LogOldestFirst' = LogOldestFirst BY <1>1, <2>0, <3>0, LogTerms, Mapping
    <3>10. UNCHANGED P!undoVars BY <2>0, <3>6, <3>8, <3>9, Unseen
    <3>11. CalmInv' BY <2>0, <2>4, <3>9, CalmKept DEF DInv
    <3>12. FileInv'
      <4>1. \A a : P!Covered(a) => P!Covered(a)' BY <3>9 DEF P!Covered
      <4>2. Extent(op') = Extent(op) BY <3>1 DEF Extent
      <4> QED BY <1>1, <2>4, <3>0, <4>1, <4>2, FileKeeps DEF Busy
    <3> QED BY <3>3, <3>4, <3>5, <3>7, <3>10, <3>11, <3>12 DEF Step, Own
  <2>10. CASE Done
    <3> DEFINE e == NewEntry
               S == Extent(op)
    <3>0. pc' = "ready" /\ op' = Idle /\ got' = <<>> /\ uninstall_data' = Append(u, e)
      BY <1>0, <1>8, <2>10
    <3>1. e.loc = op.loc /\ e.count = op.count /\ e.data = got /\ Extent(e) = S
      BY DEF NewEntry, Extent
    <3>2. e \in EntryType
      BY <1>3, <2>1, <2>2 DEF EntryType, NewEntry, Running
    <3>3. \A a \in S : a \in Bytes /\ a - op.loc + 1 \in 1..op.count /\ op.loc + (a - op.loc + 1) - 1 = a
      BY <1>3, ChunkBytes
    <3> HIDE DEF e, S
    <3>4. \A a \in S : View(dev')[a] = op.data[a - op.loc + 1]
      <4> SUFFICES ASSUME NEW a \in S PROVE View(dev')[a] = op.data[a - op.loc + 1] OBVIOUS
      <4> DEFINE k == a - op.loc + 1
      <4>1. k \in 1..op.count /\ op.loc + k - 1 = a BY <3>3
      <4> HIDE DEF k
      <4>2. k \in 1..op.progress \/ k \in (op.progress + 1)..(op.progress + Chunk)
        BY <2>1, <2>10, <4>1
      <4>3. View(dev')[a] = op.data[k] BY <2>2, <2>5, <4>1, <4>2
      <4> QED BY <4>3 DEF k
    <3>5. \A a \in Bytes \ S : View(dev')[a] = Contents[a] BY <2>6, <2>7 DEF S
    <3>6. Contents' = View(dev') BY <3>0, Mapping
    <3>7. DevInv' BY <2>4, <2>8, <3>0 DEF DevInv, Begun, Installed
    <3>8. OpInv'
      <4>1. <<>> \in Seq(Values) BY EmptySeq, Zenon
      <4>2. Idle \in OpType BY <4>1 DEF Idle, OpType
      <4> QED BY <3>0, <4>2 DEF OpInv
    <3>9. /\ Append(u, e) \in Seq(EntryType) /\ Len(Append(u, e)) = Len(u) + 1
      BY <1>2, <3>2, AppendedLog
    <3>10. LogInv'
      <4>1. Len(uninstall_data') <= UNINSTALL_DATA_MAX BY <2>1, <2>2, <3>0, <3>9, Sizes DEF HasRoom
      <4>2. ~Undoing' /\ pc' \in Writing BY <3>0 DEF Undoing, Writing
      <4>3. undo' = NoUndo BY <1>2, <2>0
      <4>4. /\ undo' \in [i : Nat, retry : BOOLEAN, write_fail : BOOLEAN, flush_fail : BOOLEAN]
            /\ undo'.i = 1
        BY <4>3 DEF NoUndo
      <4>5. undo'.i \in 1..(Len(uninstall_data') + 1) BY <2>1, <3>0, <3>9, <4>4
      <4> QED BY <3>0, <3>9, <4>1, <4>2, <4>3, <4>4, <4>5 DEF LogInv
    <3>11. WrittenInv' /\ WritesReachDiskInOrder'
      <4>1. dev'.disk \in [Bytes -> Values] BY <2>4, ShapeParts
      <4>2. OrderedOn(dev'.disk, u) /\ BoundedBy(dev'.disk, Len(u) + 1)
        BY <1>1, <1>2, <2>4, DiskKeeps DEF DInv, Writing
      <4>3. /\ OrderedOn(dev'.disk, Append(u, e)) /\ BoundedBy(dev'.disk, Len(Append(u, e)) + 1)
        BY <1>2, <3>2, <4>1, <4>2, AppendOrdered
      <4>4. \A a \in Bytes : Contents[a] = WrittenBy(u, a)
        BY <1>1, Terms DEF DInv, Own, WrittenInv, Writing
      <4>5. \A a \in Bytes : Contents'[a] = WrittenBy(Append(u, e), a)
        <5> SUFFICES ASSUME NEW a \in Bytes PROVE Contents'[a] = WrittenBy(Append(u, e), a) OBVIOUS
        <5>1. WrittenBy(Append(u, e), a) =
                 IF a \in S THEN NewData(Len(u) + 1, op.count)[a - op.loc + 1] ELSE WrittenBy(u, a)
          BY <1>2, <3>1, <3>2, AppendWritten
        <5>2. CASE a \in S BY <2>2, <3>4, <3>6, <5>1, <5>2
        <5>3. CASE a \notin S BY <3>5, <3>6, <4>4, <5>1, <5>3
        <5> QED BY <5>2, <5>3
      <4> QED BY <3>0, <4>3, <4>5, TermsNext
    <3>14. LogOldestFirst' = Append(LogOldestFirst, Pairs(e))
      <4>1. LogOldestFirst' = Forward(uninstall_data')
        BY <3>0, <3>10, LogNext DEF UndoPcs, Stored, Installed
      <4> QED BY <1>2, <3>0, <3>2, <4>1, ForwardLog
    <3>12. P!WriteTo(S)
      <4>1. Phase' = "install" BY <3>0, Mapping, Phases DEF Busy
      <4>2. Len(LogOldestFirst) < UNINSTALL_DATA_MAX BY <1>2, <2>2, ForwardLog DEF HasRoom
      <4>3. Contents' \in [Bytes -> Values] BY <2>4, <3>6, ViewType
      <4>4. LogOldestFirst' = Append(LogOldestFirst, Pairs(e)) BY <3>14
      <4>5. Pairs(e) = P!Overwritten(S)
        <5>1. Pairs(e) = [a \in S |-> got[a - op.loc + 1]] BY <3>1 DEF Pairs
        <5>2. \A a \in S : Contents[a] = got[a - op.loc + 1] BY <2>6, <3>3 DEF S
        <5> QED BY <5>1, <5>2 DEF P!Overwritten
      <4>6. \A a \in Bytes \ S : Contents'[a] = Contents[a] BY <3>5, <3>6
      <4>7. (undo'.write_fail \/ undo'.flush_fail) = (undo.write_fail \/ undo.flush_fail) BY <2>0
      <4> QED BY <1>2, <2>0, <4>1, <4>2, <4>3, <4>4, <4>5, <4>6, <4>7 DEF P!WriteTo, Orig
    <3>13. P!UndoNext
      <4>1. S \in SUBSET Bytes BY <3>3
      <4> QED BY <3>12, <4>1 DEF P!UndoNext
    <3>15. /\ \A a : P!Covered(a) => P!Covered(a)'
           /\ \A a \in S : P!Covered(a)'
      <4> DEFINE n == Len(LogOldestFirst)
                 l == LogOldestFirst'
      <4>1. LogOldestFirst \in Seq(P!Patch) /\ Pairs(e) \in P!Patch
        BY <1>2, <3>2, ForwardLog, PairsType
      <4>2. /\ n \in Nat /\ Len(l) = n + 1 /\ l[n + 1] = Pairs(e)
            /\ \A k \in 1..n : l[k] = LogOldestFirst[k]
        BY <3>14, <4>1, AppendProperties, LenProperties
      <4>3. DOMAIN Pairs(e) = S BY <3>1, <3>2, PairsType
      <4>4. n + 1 \in 1..Len(l) /\ \A k \in 1..n : k \in 1..Len(l) BY <4>2
      <4> HIDE DEF l
      <4>5. \A a : P!Covered(a)' <=> \E k \in 1..Len(l) : a \in DOMAIN l[k] BY DEF P!Covered, l
      <4>6. \A a : P!Covered(a) <=> \E k \in 1..n : a \in DOMAIN LogOldestFirst[k] BY DEF P!Covered
      <4> HIDE DEF n
      <4> QED BY <4>2, <4>3, <4>4, <4>5, <4>6
    <3>16. CalmInv' BY <1>2, <2>0 DEF CalmInv
    <3>17. FileInv'
      <4>1. pc \in Busy /\ pc' \in Busy BY <1>1, <3>0 DEF Busy
      <4> QED BY <2>4, <3>15, <4>1, FileKeeps DEF S
    <3> QED BY <3>7, <3>8, <3>10, <3>11, <3>13, <3>16, <3>17 DEF Step, Own
  <2> QED BY <2>9, <2>10
<1> QED BY <1>7, <1>8

\* The last flush, after which bios_install reports success: the stream is what
\* a reader sees, and the device all of it but for the last block.  That is
\* UndoDisk's Commit.
LEMMA FinalFlushStep == ASSUME DInv, FinalFlush PROVE Step
<1>0. PICK r \in device_flush_cache(dev) :
         IF ~r.ok THEN Fail(r.dev)
         ELSE /\ dev' = r.dev /\ pc' = "store" /\ got' = <<>>
              /\ UNCHANGED <<uninstall_data, op, undo, damaged>>
  BY DEF FinalFlush
<1>1. pc = "ready" BY DEF FinalFlush
<1>2. /\ Shape(dev) /\ undo = NoUndo /\ LogOldestFirst = Forward(uninstall_data)
      /\ Phase = "install" /\ dev.file = dev.disk
  BY <1>1, InstallFacts DEF Busy
<1>3. /\ Shape(r.dev) /\ r.ok \in BOOLEAN
      /\ r.ok => /\ Kept(dev, r.dev) /\ r.dev.cache_state = "clean"
                 /\ r.dev.disk = dev.disk \/ r.dev.disk = View(dev)
                 /\ \A a \in Bytes : r.dev.disk[a] = r.dev.file[a] \/ InBlock(r.dev, a)
      /\ ~r.ok => r.dev.disk = r.dev.file
      /\ Calm(r.dev) => Calm(dev) /\ r.ok
  BY <1>2, FlushOutcome
<1>4. CASE ~r.ok
  <2>1. Fail(r.dev) BY <1>0, <1>4
  <2>2. Own' /\ P!GiveUp BY <1>1, <1>3, <1>4, <2>1, FailStep DEF Busy
  <2> QED BY <2>2, Allowed DEF Step
<1>5. CASE r.ok
  <2>0. /\ dev' = r.dev /\ pc' = "store" /\ got' = <<>>
        /\ uninstall_data' = uninstall_data /\ op' = op /\ undo' = undo /\ damaged' = damaged
    BY <1>0, <1>5
  <2>1. Shape(dev') /\ View(dev') = View(dev) BY <1>3, <1>5, <2>0 DEF Kept
  <2>2. DevInv'
    <3>1. dev' \in DevType /\ damaged' \subseteq Bytes BY <2>0, <2>1 DEF Shape, DInv, Own, DevInv
    <3> QED BY <1>3, <1>5, <2>0, <2>1, <3>1 DEF DevInv, Begun, Trusted, Installed, Buffering
  <2>3. OpInv' BY <2>0 DEF DInv, Own, OpInv
  <2>4. LogInv' BY <1>1, <2>0 DEF DInv, Own, LogInv, Undoing, Writing, Installed
  <2>5. Contents' = Contents BY <1>1, <2>0, <2>1, Mapping
  <2>6. WrittenInv' /\ WritesReachDiskInOrder'
    BY <1>1, <1>3, <1>5, <2>0, <2>5, SameWrites DEF DInv, Writing
  <2>7. Phase' = "installed" BY <2>0, Mapping, Phases DEF Installed
  <2>8. LogOldestFirst' = LogOldestFirst BY <1>2, <2>0, <2>4, LogNext DEF UndoPcs, Stored, Installed
  <2>9. (undo'.write_fail \/ undo'.flush_fail) = (undo.write_fail \/ undo.flush_fail) BY <2>0
  <2>10. P!Commit BY <1>2, <2>0, <2>5, <2>7, <2>8, <2>9 DEF P!Commit, P!CommitLosing, Orig
  <2>11. CalmInv' BY <1>3, <2>0, <2>8, CalmKept DEF DInv
  <2>12. FileInv' BY <2>0 DEF FileInv
  <2> QED BY <2>2, <2>3, <2>4, <2>6, <2>10, <2>11, <2>12, Allowed DEF Step, Own
<1> QED BY <1>4, <1>5

-----------------------------------------------------------------------------
(* The steps of an undo.                                                   *)

\* A failed install turns to its undo: the log is reversed, which only turns
\* its reading around.
LEMMA CleanupStep == ASSUME DInv, Cleanup PROVE Step
<1> DEFINE u == uninstall_data
<1>0. /\ pc = "cleanup" /\ pc' = "undo" /\ uninstall_data' = Reverse(u) /\ dev' = Drop(dev)
      /\ op' = op /\ got' = got /\ undo' = undo /\ damaged' = damaged
  BY DEF Cleanup, reverse_uninstall_data
<1>1. Shape(dev) /\ damaged \subseteq Bytes BY <1>0 DEF DInv, Own, DevInv, Begun
<1>2. undo = NoUndo /\ u \in Seq(EntryType) BY <1>0 DEF DInv, Own, LogInv, Undoing
<1>3. /\ Reverse(u) \in Seq(EntryType) /\ Len(Reverse(u)) = Len(u)
      /\ Backward(Reverse(u), 1) = Forward(u)
  BY <1>2, ReversedLog
<1>4. /\ Shape(dev') /\ Coherent(dev') /\ (Calm(dev') => Calm(dev)) /\ View(dev') = dev.file
  BY <1>0, <1>1, Dropped
<1>5. DevInv'
  <2>1. dev' \in DevType /\ damaged' \subseteq Bytes BY <1>0, <1>1, <1>4 DEF Shape
  <2> QED BY <1>0, <1>4, <2>1 DEF DevInv, Begun, Installed, Buffering
<1>6. OpInv' BY <1>0 DEF DInv, Own, OpInv
<1>7. LogInv' BY <1>0, <1>3 DEF DInv, Own, LogInv, Undoing
<1>8. WrittenInv' /\ WritesReachDiskInOrder' BY <1>0 DEF WrittenInv, WritesReachDiskInOrder, Writing
<1>9. Contents' = Contents BY <1>0, <1>4, Mapping DEF Contents
<1>10. Phase' = Phase BY <1>0, Mapping, Phases
<1>11. LogOldestFirst' = LogOldestFirst
  <2>1. undo'.i = 1 BY <1>0, <1>2 DEF NoUndo
  <2>2. LogOldestFirst' = Backward(Reverse(u), 1) BY <1>0, <1>7, <2>1, LogNext DEF UndoPcs
  <2>3. LogOldestFirst = Forward(u) BY <1>0, LogNow DEF DInv, Own, UndoPcs, Stored, Installed
  <2> QED BY <1>3, <2>2, <2>3
<1>12. UNCHANGED P!undoVars BY <1>0, <1>9, <1>10, <1>11, Unseen
<1>13. CalmInv' BY <1>0, <1>4, <1>11, CalmKept DEF DInv
<1>14. FileInv' BY <1>0 DEF FileInv
<1> QED BY <1>5, <1>6, <1>7, <1>8, <1>12, <1>13, <1>14 DEF Step, Own

\* What fclose loses.
LEMMA Closed ==
    ASSUME DInv, Shape(dev), CloseDevice, Contents = View(dev)
    PROVE  /\ Shape(dev') /\ SameCache(dev, dev') /\ dev'.disk = dev'.file
           /\ Calm(dev') => Calm(dev) /\ damaged' = damaged
           /\ Contents' = View(dev') => P!Damage
           /\ damaged' \subseteq Bytes
<1>1. PICK r \in Drain(dev) : dev' = r.dev /\ damaged' = damaged \cup Lost(r.dev) BY DEF CloseDevice
<1>2. /\ r.ok \in BOOLEAN /\ Shape(r.dev) /\ SameCache(dev, r.dev) /\ r.dev.disk = r.dev.file
      /\ r.ok => r.dev.file = dev.file
      /\ Calm(r.dev) => Calm(dev) /\ r.ok
  BY DrainOutcome
<1>3. r.ok => Lost(r.dev) = {}
  <2>1. r.ok => View(r.dev) = View(dev) BY <1>2, SameView DEF SameCache
  <2> QED BY <2>1 DEF Lost
<1>4. damaged' \subseteq Bytes BY <1>1 DEF DInv, Own, DevInv, Lost
<1>5. ASSUME Contents' = View(dev') PROVE P!Damage
  <2>1. View(dev') \in [Bytes -> Values] BY <1>1, <1>2, ViewType
  <2>2. \A a \in Bytes \ damaged' : View(dev')[a] = View(dev)[a] BY <1>1 DEF Lost
  <2> QED BY <1>1, <1>4, <1>5, <2>1, <2>2 DEF P!Damage
<1> QED BY <1>1, <1>2, <1>3, <1>4, <1>5

\* The stream is closed, which may lose the last block, and the log is stored,
\* or not.
LEMMA StoreStep == ASSUME DInv, Store PROVE Step
<1> DEFINE u == uninstall_data
<1>0. /\ pc = "store" /\ pc' \in {"installed", "installed_no_log"}
      /\ uninstall_data' = Reverse(u) /\ CloseDevice
      /\ op' = op /\ got' = got /\ undo' = undo
  BY DEF Store, reverse_uninstall_data
<1>1. undo = NoUndo /\ u \in Seq(EntryType) BY <1>0 DEF DInv, Own, LogInv, Undoing
<1>2. /\ Reverse(u) \in Seq(EntryType) /\ Len(Reverse(u)) = Len(u)
      /\ Backward(Reverse(u), 1) = Forward(u)
  BY <1>1, ReversedLog
<1>3. Shape(dev) /\ dev.cache_state = "clean" BY <1>0 DEF DInv, Own, DevInv, Begun, Installed
<1>4. Contents = View(dev) /\ Contents' = View(dev') BY <1>0, Mapping
<1>5. /\ Shape(dev') /\ SameCache(dev, dev') /\ dev'.disk = dev'.file
      /\ Calm(dev') => Calm(dev) /\ damaged' = damaged
      /\ P!Damage /\ damaged' \subseteq Bytes
  BY <1>0, <1>3, <1>4, Closed
<1>6. DevInv'
  <2>1. dev' \in DevType /\ dev'.cache_state = "clean" BY <1>3, <1>5 DEF Shape, SameCache
  <2> QED BY <1>0, <1>5, <2>1 DEF DevInv, Begun, Trusted, Installed
<1>7. OpInv' BY <1>0 DEF DInv, Own, OpInv
<1>8. LogInv' BY <1>0, <1>2 DEF DInv, Own, LogInv, Undoing, Installed
<1>9. WrittenInv' /\ WritesReachDiskInOrder' /\ FileInv'
  BY <1>0 DEF WrittenInv, WritesReachDiskInOrder, Writing, FileInv
<1>10. Phase = "installed" /\ Phase' = "installed" BY <1>0, Mapping, Phases DEF Installed
<1>11. LogOldestFirst' = LogOldestFirst
  <2>1. LogOldestFirst' = Backward(Reverse(u), 1) BY <1>0, <1>8, LogNext DEF Stored, Installed
  <2>2. LogOldestFirst = Forward(u) BY <1>0, LogNow DEF DInv, Own, UndoPcs, Stored
  <2> QED BY <1>2, <2>1, <2>2
<1>12. CalmInv'
  <2>1. \A a : P!Covered(a)' <=> P!Covered(a) BY <1>11 DEF P!Covered
  <2> QED BY <1>0, <1>5, <2>1 DEF DInv, Own, CalmInv, NoErrors
<1>13. (undo'.write_fail \/ undo'.flush_fail) = (undo.write_fail \/ undo.flush_fail) BY <1>0
<1>14. P!Lose BY <1>5, <1>10, <1>11, <1>13 DEF P!Lose, Orig
<1> QED BY <1>6, <1>7, <1>8, <1>9, <1>12, <1>14, Allowed DEF Step, Own

\* A later run begins.
LEMMA UninstallRunStep == ASSUME DInv, UninstallRun PROVE Step
<1>0. /\ pc = "installed" /\ pc' = "reinit"
      /\ dev' = dev /\ uninstall_data' = uninstall_data /\ op' = op /\ got' = got /\ undo' = undo
      /\ damaged' = damaged
  BY DEF UninstallRun
<1>1. DevInv' BY <1>0 DEF DInv, Own, DevInv, Begun, Trusted, Installed, Buffering
<1>2. OpInv' BY <1>0 DEF DInv, Own, OpInv
<1>3. LogInv' BY <1>0 DEF DInv, Own, LogInv, Undoing, Installed
<1>4. WrittenInv' /\ WritesReachDiskInOrder' BY <1>0 DEF WrittenInv, WritesReachDiskInOrder, Writing
<1>5. Contents' = Contents BY <1>0, Mapping
<1>6. Phase' = Phase BY <1>0, Mapping, Phases DEF Installed
<1>7. LogOldestFirst' = LogOldestFirst BY <1>0, <1>3, LogNow, LogNext DEF DInv, Own, Stored, Installed
<1>8. UNCHANGED P!undoVars BY <1>0, <1>5, <1>6, <1>7, Unseen
<1>9. CalmInv' BY <1>0, <1>7, CalmKept DEF DInv
<1>10. FileInv' BY <1>0 DEF FileInv
<1> QED BY <1>1, <1>2, <1>3, <1>4, <1>8, <1>9, <1>10 DEF Step, Own

\* The stored log is loaded and the uninstall begins, or the run ends.
LEMMA LoadStep == ASSUME DInv, Load PROVE Step
<1>0. /\ pc = "load" /\ pc' \in {"undo", "load_failed"}
      /\ pc' = "undo" => dev' = Drop(dev)
      /\ pc' = "load_failed" => dev' = dev
      /\ uninstall_data' = uninstall_data /\ op' = op /\ got' = got /\ undo' = undo
      /\ damaged' = damaged
  BY DEF Load
<1>1. Shape(dev) /\ damaged \subseteq Bytes /\ dev.cache_state = "clean"
      /\ dev.file = dev.disk
  BY <1>0 DEF DInv, Own, DevInv, Begun, Installed, Buffering
<1>2. undo = NoUndo BY <1>0 DEF DInv, Own, LogInv, Undoing
<1>3. View(dev) = dev.file /\ dev.file \in [Bytes -> Values] BY <1>1, CleanView, ShapeParts
<1>4. pc' = "undo" => Shape(dev') /\ Coherent(dev') /\ View(dev') = dev.file /\ dev'.file = dev'.disk
  BY <1>0, <1>1, Dropped
<1>16. Calm(dev') => Calm(dev)
  <2>1. Calm(Drop(dev)) => Calm(dev) BY <1>1, Dropped
  <2> QED BY <1>0, <2>1
<1>5. View(dev') = View(dev) /\ Shape(dev') BY <1>0, <1>1, <1>3, <1>4
<1>6. DevInv'
  <2>1. dev' \in DevType /\ damaged' \subseteq Bytes BY <1>0, <1>1, <1>5 DEF Shape
  <2> QED BY <1>0, <1>1, <1>4, <1>5, <2>1 DEF DevInv, Begun, Installed, Trusted, Buffering
<1>7. OpInv' BY <1>0 DEF DInv, Own, OpInv
<1>8. LogInv' BY <1>0, <1>2 DEF DInv, Own, LogInv, Undoing, Installed
<1>9. WrittenInv' /\ WritesReachDiskInOrder' BY <1>0 DEF WrittenInv, WritesReachDiskInOrder, Writing
<1>10. Contents = View(dev) /\ Contents' = Contents BY <1>0, <1>5, Mapping
<1>11. Phase = "installed" BY <1>0, Mapping, Phases DEF Installed
<1>12. LogOldestFirst' = LogOldestFirst
  <2>1. undo'.i = 1 BY <1>0, <1>2 DEF NoUndo
  <2> QED BY <1>0, <1>8, <2>1, LogNow, LogNext DEF DInv, Own, Stored, Installed, UndoPcs
<1>15. CalmInv' /\ FileInv'
  <2>1. CalmInv' BY <1>0, <1>12, <1>16, CalmKept DEF DInv
  <2> QED BY <1>0, <2>1 DEF FileInv
<1>13. CASE pc' = "undo"
  <2>1. Phase' = "undo" BY <1>13, Mapping, Phases
  <2>2. (undo'.write_fail \/ undo'.flush_fail) = (undo.write_fail \/ undo.flush_fail) BY <1>0
  <2>4. Contents \in [Bytes -> Values] BY <1>3, <1>10
  <2>3. P!GiveUp
    BY <1>0, <1>1, <1>10, <1>11, <1>12, <2>1, <2>2, <2>4 DEF P!GiveUp, P!Damage, Orig
  <2> QED BY <1>6, <1>7, <1>8, <1>9, <1>15, <2>3, Allowed DEF Step, Own
<1>14. CASE pc' = "load_failed"
  <2>1. Phase' = Phase BY <1>11, <1>14, Mapping, Phases DEF Installed
  <2>2. UNCHANGED P!undoVars BY <1>0, <1>10, <1>12, <2>1, Unseen
  <2> QED BY <1>6, <1>7, <1>8, <1>9, <1>15, <2>2 DEF Step, Own
<1> QED BY <1>0, <1>13, <1>14

UndoType == [i : Nat, retry : BOOLEAN, write_fail : BOOLEAN, flush_fail : BOOLEAN]
Going == {"undo", "uwrite", "retry", "flushed"}

\* What the invariant says of an undo under way.
LEMMA UndoFacts ==
    ASSUME DInv, pc \in Going
    PROVE  /\ Shape(dev) /\ damaged \subseteq Bytes /\ uninstall_data \in Seq(EntryType)
           /\ undo \in UndoType /\ undo.i \in 1..(Len(uninstall_data) + 1)
           /\ Len(uninstall_data) \in Nat
           /\ Contents = View(dev) /\ LogOldestFirst = Backward(uninstall_data, undo.i)
           /\ Phase = "undo"
           /\ pc \in {"undo", "uwrite"} /\ ~undo.write_fail => Coherent(dev)
<1>1. /\ Shape(dev) /\ damaged \subseteq Bytes
      /\ pc \in {"undo", "uwrite"} /\ ~undo.write_fail => Coherent(dev)
  BY DEF DInv, Own, DevInv, Begun, Trusted, Going
<1>2. /\ uninstall_data \in Seq(EntryType) /\ undo \in UndoType
      /\ undo.i \in 1..(Len(uninstall_data) + 1)
  BY DEF DInv, Own, LogInv, UndoType
<1>3. Len(uninstall_data) \in Nat BY <1>2, LenProperties
<1>4. Contents = View(dev) /\ Phase = "undo" BY Mapping, Phases DEF Going
<1>5. LogOldestFirst = Backward(uninstall_data, undo.i)
  BY LogNow DEF DInv, Own, UndoPcs, Going
<1> QED BY <1>1, <1>2, <1>3, <1>4, <1>5

\* A step after which something could not be put back.
LEMMA FailsStep ==
    ASSUME Phase = "undo", pc' \in Going, Shape(dev'), damaged' \subseteq Bytes,
           undo'.write_fail = TRUE \/ undo'.flush_fail = TRUE,
           \/ LogOldestFirst' = LogOldestFirst
           \/ /\ LogOldestFirst # <<>>
              /\ LogOldestFirst' = SubSeq(LogOldestFirst, 1, Len(LogOldestFirst) - 1)
    PROVE  P!UndoFails
<1>1. Contents' = View(dev') /\ Phase' = "undo" BY Mapping, Phases DEF Going
<1>2. View(dev') \in [Bytes -> Values] BY ViewType
<1>3. (undo'.write_fail \/ undo'.flush_fail) = TRUE OBVIOUS
<1> QED BY <1>1, <1>2, <1>3 DEF P!UndoFails, Orig

\* The next entry is taken up.
LEMMA UndoNextStep == ASSUME DInv, UndoNext PROVE Step
<1> DEFINE ud == uninstall_data[undo.i]
<1>0. /\ pc = "undo" /\ undo.i <= Len(uninstall_data) /\ pc' = "uwrite"
      /\ op' = [loc |-> ud.loc, count |-> ud.count, data |-> ud.data, progress |-> 0]
      /\ dev' = dev /\ uninstall_data' = uninstall_data /\ got' = got /\ undo' = undo
      /\ damaged' = damaged
  BY DEF UndoNext
<1>1. /\ uninstall_data \in Seq(EntryType) /\ undo.i \in 1..(Len(uninstall_data) + 1)
      /\ Len(uninstall_data) \in Nat /\ LogOldestFirst = Backward(uninstall_data, undo.i)
      /\ Phase = "undo" /\ Contents = View(dev)
  BY <1>0, UndoFacts DEF Going
<1>2. undo.i \in 1..Len(uninstall_data) BY <1>0, <1>1
<1>3. ud \in EntryType BY <1>1, <1>2, ElementOfSeq
<1>4. /\ ud.loc \in Nat /\ ud.count \in Nat \ {0} /\ ud.data \in Seq(Values)
      /\ ud.loc + ud.count <= NumBytes
  BY <1>3, EntryParts
<1> HIDE DEF ud
<1>5. DevInv' BY <1>0 DEF DInv, Own, DevInv, Begun, Trusted, Installed, Buffering
<1>6. OpInv'
  <2>1. /\ op'.loc = ud.loc /\ op'.count = ud.count /\ op'.data = ud.data /\ op'.progress = 0
    BY <1>0
  <2>2. op' \in OpType BY <1>0, <1>4 DEF OpType
  <2>3. \A k \in 1..0 : FALSE OBVIOUS
  <2>4. op'.progress < op'.count /\ op'.loc + op'.count <= NumBytes BY <1>4, <2>1
  <2>5. /\ undo'.i <= Len(uninstall_data')
        /\ op'.loc = uninstall_data'[undo'.i].loc /\ op'.count = uninstall_data'[undo'.i].count
        /\ op'.data = uninstall_data'[undo'.i].data
    BY <1>0, <2>1 DEF ud
  <2> QED BY <1>0, <2>1, <2>2, <2>3, <2>4, <2>5 DEF OpInv
<1>7. LogInv' BY <1>0 DEF DInv, Own, LogInv, Undoing
<1>8. WrittenInv' /\ WritesReachDiskInOrder' BY <1>0 DEF WrittenInv, WritesReachDiskInOrder, Writing
<1>9. Contents' = Contents BY <1>0, Mapping
<1>10. Phase' = Phase BY <1>0, Mapping, Phases
<1>11. LogOldestFirst' = LogOldestFirst BY <1>0, <1>1, <1>7, LogNext DEF UndoPcs
<1>12. UNCHANGED P!undoVars BY <1>0, <1>9, <1>10, <1>11, Unseen
<1>13. CalmInv' /\ FileInv'
  <2>1. CalmInv' BY <1>0, <1>11, CalmKept DEF DInv
  <2> QED BY <1>0, <2>1 DEF FileInv
<1> QED BY <1>5, <1>6, <1>7, <1>8, <1>12, <1>13 DEF Step, Own

\* The undo's index and flags after an entry.
Past(x) == [x EXCEPT !.i = @ + 1, !.retry = FALSE]
GaveUp(x) == [x EXCEPT !.i = @ + 1, !.retry = FALSE, !.write_fail = TRUE]

\* They have their types.
LEMMA PastType ==
    ASSUME NEW x \in UndoType
    PROVE  /\ Past(x) \in UndoType /\ Past(x).i = x.i + 1
           /\ Past(x).write_fail = x.write_fail /\ Past(x).flush_fail = x.flush_fail
           /\ GaveUp(x) \in UndoType /\ GaveUp(x).i = x.i + 1 /\ GaveUp(x).write_fail = TRUE
<1>0. x.i + 1 \in Nat BY DEF UndoType
<1> DEFINE y == [x EXCEPT !.i = x.i + 1]
           z == [y EXCEPT !.retry = FALSE]
<1>1. Past(x) = z /\ GaveUp(x) = [z EXCEPT !.write_fail = TRUE] BY DEF Past, GaveUp, UndoType
<1>2. /\ y \in UndoType /\ y.i = x.i + 1 /\ y.write_fail = x.write_fail
      /\ y.flush_fail = x.flush_fail
  BY <1>0 DEF UndoType
<1> HIDE DEF y
<1>3. /\ z \in UndoType /\ z.i = x.i + 1 /\ z.write_fail = x.write_fail
      /\ z.flush_fail = x.flush_fail
  BY <1>2 DEF UndoType
<1> HIDE DEF z
<1>4. /\ [z EXCEPT !.write_fail = TRUE] \in UndoType /\ [z EXCEPT !.write_fail = TRUE].i = x.i + 1
      /\ [z EXCEPT !.write_fail = TRUE].write_fail = TRUE
  BY <1>3 DEF UndoType
<1> QED BY <1>1, <1>3, <1>4

\* One iteration of the _device_write that puts an entry back.
LEMMA UndoStepStep == ASSUME DInv, UndoStep PROVE Step
<1> DEFINE u == uninstall_data
           e == u[undo.i]
<1>0. PICK r \in device_cache_block(dev, Block) :
         IF r.ok
         THEN /\ dev' = CopyIn(r.dev, Offset)
              /\ op' = IF Done THEN Idle ELSE [op EXCEPT !.progress = @ + Chunk]
              /\ pc' = IF Done THEN "undo" ELSE pc
              /\ undo' = IF Done THEN [undo EXCEPT !.i = @ + 1, !.retry = FALSE] ELSE undo
              /\ damaged' = IF Done THEN damaged \ Extent(op) ELSE damaged
         ELSE /\ dev' = r.dev /\ op' = Idle /\ damaged' = damaged \cup Lost(r.dev)
              /\ pc' = IF GivesUp THEN "undo" ELSE "retry"
              /\ undo' = IF GivesUp
                         THEN [undo EXCEPT !.i = @ + 1, !.retry = FALSE, !.write_fail = TRUE]
                         ELSE undo
  BY DEF UndoStep
<1>1. pc = "uwrite" /\ uninstall_data' = u /\ got' = got BY DEF UndoStep
<1>2. /\ Shape(dev) /\ damaged \subseteq Bytes /\ u \in Seq(EntryType)
      /\ undo \in UndoType /\ undo.i \in 1..(Len(u) + 1) /\ Len(u) \in Nat
      /\ Contents = View(dev) /\ LogOldestFirst = Backward(u, undo.i)
      /\ Phase = "undo" /\ (~undo.write_fail => Coherent(dev))
  BY <1>1, UndoFacts DEF Going
<1>3. Running BY <1>1, <1>2 DEF DInv, Own, OpInv, Running
<1>4. /\ undo.i \in 1..Len(u) /\ op.loc = e.loc /\ op.count = e.count /\ op.data = e.data
      /\ ~undo.write_fail => \A k \in 1..op.progress : Seen(k) = op.data[k]
  BY <1>1, <1>2 DEF DInv, Own, OpInv
<1>5. /\ LogOldestFirst # <<>> /\ LogOldestFirst[Len(LogOldestFirst)] = Pairs(e)
      /\ e \in EntryType
      /\ Backward(u, undo.i + 1) = SubSeq(LogOldestFirst, 1, Len(LogOldestFirst) - 1)
  BY <1>2, <1>4, BackwardLog
<1> HIDE DEF e
<1>6. Len(op.data) = op.count /\ DOMAIN Pairs(e) = Extent(op)
  BY <1>4, <1>5, EntryParts, PairsType DEF Extent
<1>7. /\ op.progress \in Nat /\ op.count \in Nat /\ Chunk \in Nat \ {0} /\ op.loc \in Nat
      /\ op.progress + Chunk <= op.count /\ Block \in Nat
      /\ Done <=> op.progress + Chunk = op.count
  BY <1>3, ChunkFacts
<1>8. /\ Shape(r.dev) /\ r.dev.block_size = dev.block_size /\ r.ok \in BOOLEAN
      /\ r.ok => Kept(dev, r.dev) /\ r.dev.cached_block = Block
      /\ Calm(r.dev) => Calm(dev) /\ (r.ok \/ Kept(dev, r.dev))
  BY <1>2, <1>7, CacheOutcome
<1>17. /\ Lost(r.dev) \subseteq Bytes
       /\ Kept(dev, r.dev) => Lost(r.dev) = {}
       /\ \A a \in Bytes \ Lost(r.dev) : View(r.dev)[a] = View(dev)[a]
  BY DEF Lost, Kept
<1>9. Idle \in OpType
  <2>1. <<>> \in Seq(Values) BY EmptySeq, Zenon
  <2> QED BY <2>1 DEF Idle, OpType
<1>10. undo.i + 1 \in 1..(Len(u) + 1) BY <1>2, <1>4
<1>11. ASSUME Shape(dev'), undo' \in UndoType, undo'.i \in 1..(Len(u) + 1), pc' \in Going \ {"flushed"},
              op' \in OpType, damaged' \subseteq Bytes, pc' = "retry" => undo'.i <= Len(u),
              pc' \in {"undo", "uwrite"} /\ ~undo'.write_fail => Coherent(dev'),
              pc' = "uwrite" =>
                /\ undo' = undo /\ op' = Advanced(op.progress + Chunk) /\ ~Done
                /\ ~undo.write_fail => \A k \in 1..op'.progress : Seen(k)' = op'.data[k]
       PROVE  /\ DevInv' /\ OpInv' /\ LogInv' /\ WrittenInv' /\ WritesReachDiskInOrder' /\ FileInv'
              /\ LogOldestFirst' = Backward(u, undo'.i)
              /\ Phase' = "undo" /\ Contents' = View(dev')
  <2>1. DevInv'
    <3>1. dev' \in DevType BY <1>11 DEF Shape
    <3>2. pc' \in {"undo", "uwrite", "retry"} BY <1>11 DEF Going
    <3> QED BY <1>11, <3>1, <3>2 DEF DevInv, Begun, Trusted, Installed, Buffering
  <2>2. OpInv'
    <3>1. CASE pc' # "uwrite"
      <4>1. pc' \in {"undo", "retry"} BY <1>11, <3>1 DEF Going
      <4> QED BY <1>11, <4>1 DEF OpInv
    <3>2. CASE pc' = "uwrite"
      <4>1. /\ op'.progress = op.progress + Chunk /\ op'.loc = op.loc /\ op'.count = op.count
            /\ op'.data = op.data
        <5>1. op \in OpType /\ op.progress + Chunk \in Nat BY <1>3, <1>7 DEF Running
        <5> QED BY <1>11, <3>2, <5>1, AdvancedOp
      <4>2. op'.progress < op'.count /\ op'.loc + op'.count <= NumBytes
        BY <1>3, <1>7, <1>11, <3>2, <4>1 DEF Running
      <4>3. /\ undo'.i <= Len(uninstall_data')
            /\ op'.loc = uninstall_data'[undo'.i].loc /\ op'.count = uninstall_data'[undo'.i].count
            /\ op'.data = uninstall_data'[undo'.i].data
        BY <1>1, <1>4, <1>11, <3>2, <4>1 DEF e
      <4>4. ~undo'.write_fail => \A k \in 1..op'.progress : Seen(k)' = op'.data[k] BY <1>11, <3>2
      <4> QED BY <1>11, <3>2, <4>2, <4>3, <4>4 DEF OpInv
    <3> QED BY <3>1, <3>2
  <2>3. LogInv'
    <3>1. Undoing' /\ pc' \notin {"flushed", "undone"} BY <1>11 DEF Undoing, Going
    <3>2. /\ u \in Seq(EntryType) /\ Len(u) <= UNINSTALL_DATA_MAX BY <1>2 DEF DInv, Own, LogInv
    <3> QED BY <1>1, <1>11, <3>1, <3>2 DEF LogInv, UndoType
  <2>4. WrittenInv' /\ WritesReachDiskInOrder' /\ FileInv'
    BY <1>11 DEF WrittenInv, WritesReachDiskInOrder, Writing, Going, FileInv
  <2>5. LogOldestFirst' = Backward(u, undo'.i)
    BY <1>1, <1>11, <2>3, LogNext DEF UndoPcs, Going
  <2>6. Phase' = "undo" /\ Contents' = View(dev') BY <1>11, Mapping, Phases DEF Going
  <2> QED BY <2>1, <2>2, <2>3, <2>4, <2>5, <2>6
<1>13. CASE r.ok /\ ~Done
  <2>0. /\ dev' = CopyIn(r.dev, Offset) /\ op' = Advanced(op.progress + Chunk) /\ pc' = "uwrite"
        /\ undo' = undo /\ damaged' = damaged
    BY <1>0, <1>1, <1>13 DEF Advanced
  <2>1. /\ op' \in OpType /\ op'.progress = op.progress + Chunk /\ op'.loc = op.loc
        /\ op'.data = op.data
    <3>1. op \in OpType /\ op.progress + Chunk \in Nat BY <1>3, <1>7 DEF Running
    <3> QED BY <2>0, <3>1, AdvancedOp
  <2>2. Shape(dev') /\ Coherent(dev') /\ (Calm(dev') => Calm(dev))
    <3>1. Calm(CopyIn(r.dev, Offset)) => Calm(r.dev) BY <1>3, <1>6, <1>8, <1>13, CopyOutcome
    <3>2. Shape(dev') /\ Coherent(dev') BY <1>3, <1>6, <1>8, <1>13, <2>0, CopyOutcome
    <3> QED BY <1>8, <2>0, <3>1, <3>2
  <2>3. ~undo.write_fail =>
          \A a \in Bytes : View(dev')[a] = IF a \in Now THEN op.data[a - op.loc + 1] ELSE View(dev)[a]
    BY <1>2, <1>3, <1>6, <1>13, <2>0, CopiedSeen
  <2>4. ~undo.write_fail => \A k \in 1..op'.progress : Seen(k)' = op'.data[k]
    <3> SUFFICES ASSUME ~undo.write_fail, NEW k \in 1..op'.progress PROVE Seen(k)' = op'.data[k]
      OBVIOUS
    <3>1. /\ k \in 1..op.count
          /\ k \in 1..op.progress \/ k \in (op.progress + 1)..(op.progress + Chunk)
      BY <1>7, <2>1
    <3>2. View(dev')[op.loc + k - 1] = IF k \in (op.progress + 1)..(op.progress + Chunk)
                                        THEN op.data[k] ELSE Seen(k)
      BY <1>3, <2>3, <3>1, CopiedBytes
    <3>3. Seen(k)' = View(dev')[op.loc + k - 1] BY <2>1 DEF Seen
    <3> QED BY <1>4, <2>1, <3>1, <3>2, <3>3
  <2>6. /\ DevInv' /\ OpInv' /\ LogInv' /\ WrittenInv' /\ WritesReachDiskInOrder' /\ FileInv'
        /\ LogOldestFirst' = LogOldestFirst /\ Phase' = "undo" /\ Contents' = View(dev')
    BY <1>2, <1>11, <1>13, <2>0, <2>1, <2>2, <2>4 DEF Going
  <2>9. CalmInv' BY <2>0, <2>2, <2>6, CalmKept DEF DInv
  <2>5. Own' BY <2>6, <2>9 DEF Own
  <2>7. CASE undo.write_fail
    <3>1. undo.write_fail = TRUE BY <1>2, <2>7, Zenon DEF UndoType
    <3>2. P!UndoFails BY <1>1, <1>2, <2>0, <2>2, <2>6, <3>1, FailsStep DEF Going
    <3> QED BY <2>5, <3>2, Allowed DEF Step
  <2>8. CASE ~undo.write_fail
    <3>1. \A a \in Bytes : a \in Extent(op) \/ View(dev')[a] = View(dev)[a]
      BY <1>3, <2>3, <2>8, ChunkBytes
    <3>2. View(dev') \in [Bytes -> Values] BY <2>2, ViewType
    <3>3. (undo'.write_fail \/ undo'.flush_fail) = (undo.write_fail \/ undo.flush_fail) BY <2>0
    <3>4. P!UndoPart
      BY <1>2, <1>5, <1>6, <2>0, <2>6, <3>1, <3>2, <3>3 DEF P!UndoPart, Orig
    <3> QED BY <2>5, <3>4, Allowed DEF Step
  <2> QED BY <2>7, <2>8
<1>14. CASE r.ok /\ Done
  <2>0. /\ dev' = CopyIn(r.dev, Offset) /\ op' = Idle /\ pc' = "undo" /\ undo' = Past(undo)
        /\ damaged' = damaged \ Extent(op)
    BY <1>0, <1>14 DEF Past
  <2>1. /\ undo' \in UndoType /\ undo'.i = undo.i + 1
        /\ undo'.write_fail = undo.write_fail /\ undo'.flush_fail = undo.flush_fail
    BY <1>2, <2>0, PastType
  <2>2. Shape(dev') /\ Coherent(dev') /\ (Calm(dev') => Calm(dev))
    <3>1. Calm(CopyIn(r.dev, Offset)) => Calm(r.dev) BY <1>3, <1>6, <1>8, <1>14, CopyOutcome
    <3>2. Shape(dev') /\ Coherent(dev') BY <1>3, <1>6, <1>8, <1>14, <2>0, CopyOutcome
    <3> QED BY <1>8, <2>0, <3>1, <3>2
  <2>4. /\ DevInv' /\ OpInv' /\ LogInv' /\ WrittenInv' /\ WritesReachDiskInOrder' /\ FileInv'
        /\ LogOldestFirst' = SubSeq(LogOldestFirst, 1, Len(LogOldestFirst) - 1)
        /\ Phase' = "undo" /\ Contents' = View(dev')
    BY <1>2, <1>5, <1>9, <1>10, <1>11, <2>0, <2>1, <2>2 DEF Going
  <2>7. CalmInv'
    <3> SUFFICES ASSUME Calm(dev'), NoErrors', NEW a \in damaged' PROVE P!Covered(a)'
      BY DEF CalmInv
    <3>1. Calm(dev) /\ NoErrors /\ a \in damaged /\ a \notin Extent(op) BY <2>0, <2>1, <2>2 DEF NoErrors
    <3>2. P!Covered(a) BY <3>1 DEF DInv, Own, CalmInv
    <3>3. PICK j \in 1..Len(LogOldestFirst) : a \in DOMAIN LogOldestFirst[j] BY <3>2 DEF P!Covered
    <3>4. j # Len(LogOldestFirst) BY <1>5, <1>6, <3>1, <3>3
    <3>5. Len(LogOldestFirst) \in Nat BY DEF DInv, P!UndoInv, P!UndoTypeOK
    <3>6. j \in 1..(Len(LogOldestFirst) - 1) BY <3>3, <3>4, <3>5
    <3>7. /\ Len(LogOldestFirst') = Len(LogOldestFirst) - 1
          /\ LogOldestFirst'[j] = LogOldestFirst[j]
      <4> DEFINE n == Len(LogOldestFirst) - 1
      <4>1. LogOldestFirst \in Seq(P!Patch) BY DEF DInv, P!UndoInv, P!UndoTypeOK
      <4>2. n \in 0..Len(LogOldestFirst) BY <3>5, <3>6
      <4> HIDE DEF n
      <4>3. /\ Len(SubSeq(LogOldestFirst, 1, n)) = n
            /\ \A k \in 1..n : SubSeq(LogOldestFirst, 1, n)[k] = LogOldestFirst[k]
        BY <4>1, <4>2
      <4> QED BY <2>4, <3>6, <4>3 DEF n
    <3> QED BY <3>3, <3>6, <3>7 DEF P!Covered
  <2>3. Own' BY <2>4, <2>7 DEF Own
  <2>5. CASE undo.write_fail
    <3>1. undo'.write_fail = TRUE BY <1>2, <2>1, <2>5, Zenon DEF UndoType
    <3>3. damaged' \subseteq Bytes BY <1>2, <2>0
    <3>2. P!UndoFails BY <1>1, <1>2, <1>5, <2>0, <2>2, <2>4, <3>1, <3>3, FailsStep DEF Going
    <3> QED BY <2>3, <3>2, Allowed DEF Step
  <2>6. CASE ~undo.write_fail
    <3>1. \A a \in Bytes : View(dev')[a] = IF a \in Now THEN op.data[a - op.loc + 1] ELSE View(dev)[a]
      BY <1>2, <1>3, <1>6, <1>14, <2>0, <2>6, CopiedSeen
    <3>2. \A a \in Bytes : View(dev')[a] = IF a \in Extent(op) THEN Pairs(e)[a] ELSE View(dev)[a]
      <4> SUFFICES ASSUME NEW a \in Bytes
                   PROVE  View(dev')[a] = IF a \in Extent(op) THEN Pairs(e)[a] ELSE View(dev)[a]
        OBVIOUS
      <4>1. CASE a \notin Extent(op) BY <1>3, <3>1, <4>1, ChunkBytes
      <4>2. CASE a \in Extent(op)
        <5> DEFINE k == a - op.loc + 1
        <5>1. k \in 1..op.count /\ op.loc + k - 1 = a BY <1>3, <4>2, ChunkBytes
        <5>2. Pairs(e)[a] = op.data[k] BY <1>4, <1>5, <4>2, PairsType DEF Extent
        <5> HIDE DEF k
        <5>3. k \in 1..op.progress \/ k \in (op.progress + 1)..(op.progress + Chunk)
          BY <1>7, <1>14, <5>1
        <5>4. View(dev')[op.loc + k - 1] = IF k \in (op.progress + 1)..(op.progress + Chunk)
                                            THEN op.data[k] ELSE Seen(k)
          BY <1>3, <3>1, <5>1, CopiedBytes
        <5>5. View(dev')[a] = op.data[k] BY <1>4, <2>6, <5>1, <5>3, <5>4
        <5> QED BY <4>2, <5>2, <5>5
      <4> QED BY <4>1, <4>2
    <3>3. View(dev') \in [Bytes -> Values] BY <2>2, ViewType
    <3>4. Contents' = P!Apply(LogOldestFirst[Len(LogOldestFirst)], Contents)
      <4>1. P!Apply(Pairs(e), View(dev)) =
              [a \in Bytes |-> IF a \in Extent(op) THEN Pairs(e)[a] ELSE View(dev)[a]]
        BY <1>6 DEF P!Apply
      <4> QED BY <1>2, <1>5, <2>4, <3>2, <3>3, <4>1
    <3>5. (undo'.write_fail \/ undo'.flush_fail) = (undo.write_fail \/ undo.flush_fail) BY <2>1
    <3>7. damaged' = (damaged \ DOMAIN LogOldestFirst[Len(LogOldestFirst)]) \cup {}
      BY <1>5, <1>6, <2>0
    <3>6. P!UndoEntry
      BY <1>1, <1>2, <1>5, <2>4, <3>4, <3>5, <3>7 DEF P!UndoEntry, P!EntryBack, Orig
    <3> QED BY <2>3, <3>6, Allowed DEF Step
  <2> QED BY <2>5, <2>6
<1>15. CASE ~r.ok /\ ~GivesUp
  <2>0. /\ dev' = r.dev /\ op' = Idle /\ pc' = "retry" /\ undo' = undo
        /\ damaged' = damaged \cup Lost(r.dev)
    BY <1>0, <1>15
  <2>1. Shape(dev') /\ damaged' \subseteq Bytes BY <1>2, <1>8, <1>17, <2>0
  <2>2. undo'.i <= Len(u) BY <1>4, <2>0
  <2>3. /\ DevInv' /\ OpInv' /\ LogInv' /\ WrittenInv' /\ WritesReachDiskInOrder' /\ FileInv'
        /\ LogOldestFirst' = LogOldestFirst /\ Phase' = "undo" /\ Contents' = View(dev')
    BY <1>2, <1>9, <1>11, <2>0, <2>1, <2>2 DEF Going
  <2>4. CalmInv'
    <3> SUFFICES ASSUME Calm(dev'), NoErrors', NEW a \in damaged' PROVE P!Covered(a)'
      BY DEF CalmInv
    <3>1. Calm(dev) /\ damaged' = damaged /\ NoErrors BY <1>8, <1>15, <1>17, <2>0 DEF NoErrors
    <3>2. P!Covered(a) BY <3>1 DEF DInv, Own, CalmInv
    <3> QED BY <2>3, <3>2 DEF P!Covered
  <2>5. P!Lose
    <3>1. View(dev') \in [Bytes -> Values] BY <2>1, ViewType
    <3>2. \A a \in Bytes \ damaged' : Contents'[a] = Contents[a] BY <1>2, <1>17, <2>0, <2>3
    <3>3. (undo'.write_fail \/ undo'.flush_fail) = (undo.write_fail \/ undo.flush_fail) BY <2>0
    <3> QED BY <1>2, <2>0, <2>1, <2>3, <3>1, <3>2, <3>3 DEF P!Lose, P!Damage, Orig
  <2> QED BY <2>3, <2>4, <2>5, Allowed DEF Step, Own
<1>16. CASE ~r.ok /\ GivesUp
  <2>0. /\ dev' = r.dev /\ op' = Idle /\ pc' = "undo" /\ undo' = GaveUp(undo)
        /\ damaged' = damaged \cup Lost(r.dev)
    BY <1>0, <1>16 DEF GaveUp
  <2>1. undo' \in UndoType /\ undo'.i = undo.i + 1 /\ undo'.write_fail = TRUE
    BY <1>2, <2>0, PastType
  <2>2. Shape(dev') /\ damaged' \subseteq Bytes BY <1>2, <1>8, <1>17, <2>0
  <2>3. /\ DevInv' /\ OpInv' /\ LogInv' /\ WrittenInv' /\ WritesReachDiskInOrder' /\ FileInv'
        /\ LogOldestFirst' = SubSeq(LogOldestFirst, 1, Len(LogOldestFirst) - 1)
    BY <1>5, <1>9, <1>10, <1>11, <2>0, <2>1, <2>2 DEF Going
  <2>4. CalmInv' BY <2>1 DEF CalmInv, NoErrors
  <2>5. P!UndoFails BY <1>1, <1>2, <1>5, <2>0, <2>1, <2>2, <2>3, FailsStep DEF Going
  <2> QED BY <2>3, <2>4, <2>5, Allowed DEF Step, Own
<1> QED BY <1>13, <1>14, <1>15, <1>16

\* What the last steps of an undo keep when they do no writing.
LEMMA UndoOwn ==
    ASSUME DInv, pc \in Going, pc' \in {"undo", "flushed", "undone"},
           uninstall_data' = uninstall_data, op' = op, damaged' \subseteq Bytes,
           Shape(dev'), undo' \in UndoType, undo'.i = undo.i,
           damaged' = damaged \/ NoErrors' = FALSE \/ ~Calm(dev'),
           NoErrors' => NoErrors, Calm(dev') => Calm(dev),
           pc' = "undone" => dev'.file = dev'.disk,
           pc' \in {"flushed", "undone"} => undo.i = Len(uninstall_data) + 1,
           pc' \in {"flushed", "undone"} /\ ~undo'.flush_fail => dev'.cache_state = "clean",
           pc' = "undo" => Coherent(dev')
    PROVE  /\ Own' /\ Contents' = View(dev')
           /\ LogOldestFirst' = LogOldestFirst
           /\ Phase' = IF pc' = "undone" THEN "undone" ELSE "undo"
<1>1. /\ damaged \subseteq Bytes /\ uninstall_data \in Seq(EntryType)
      /\ undo.i \in 1..(Len(uninstall_data) + 1)
      /\ LogOldestFirst = Backward(uninstall_data, undo.i)
  BY UndoFacts
<1>2. DevInv'
  <2>1. dev' \in DevType /\ damaged' \subseteq Bytes BY <1>1 DEF Shape
  <2> QED BY <2>1 DEF DevInv, Begun, Trusted, Installed, Buffering
<1>3. OpInv' BY DEF DInv, Own, OpInv
<1>4. LogInv'
  <2>1. Len(uninstall_data) <= UNINSTALL_DATA_MAX BY DEF DInv, Own, LogInv
  <2> QED BY <1>1, <2>1 DEF LogInv, Undoing, UndoType
<1>5. WrittenInv' /\ WritesReachDiskInOrder' /\ FileInv'
  BY DEF WrittenInv, WritesReachDiskInOrder, Writing, FileInv
<1>6. LogOldestFirst' = LogOldestFirst BY <1>1, <1>4, LogNext DEF UndoPcs
<1>9. CalmInv'
  <2> SUFFICES ASSUME Calm(dev'), NoErrors', NEW a \in damaged' PROVE P!Covered(a)'
    BY DEF CalmInv
  <2>1. P!Covered(a) BY DEF DInv, Own, CalmInv
  <2> QED BY <1>6, <2>1 DEF P!Covered
<1>7. Contents' = View(dev') BY Mapping
<1>8. Phase' = IF pc' = "undone" THEN "undone" ELSE "undo" BY Mapping, Phases
<1> QED BY <1>2, <1>3, <1>4, <1>5, <1>6, <1>7, <1>8, <1>9 DEF Own

\* The one retry: what is in the cache is written out and forgotten.
LEMMA UndoRetryStep == ASSUME DInv, UndoRetry PROVE Step
<1>0. PICK r \in device_flush_cache(dev) :
         /\ dev' = Drop(r.dev)
         /\ undo' = [undo EXCEPT !.retry = TRUE, !.flush_fail = @ \/ ~r.ok]
  BY DEF UndoRetry, ForgetCache
<1>1. /\ pc = "retry" /\ pc' = "undo" /\ uninstall_data' = uninstall_data /\ op' = op
      /\ got' = got /\ damaged' = damaged
  BY DEF UndoRetry
<1>2. Shape(dev) /\ undo \in UndoType /\ Contents = View(dev) /\ Phase = "undo"
      /\ damaged \subseteq Bytes
  BY <1>1, UndoFacts DEF Going
<1>3. /\ Shape(r.dev) /\ r.ok \in BOOLEAN
      /\ r.ok => r.dev.file = View(dev)
      /\ Calm(r.dev) => Calm(dev)
  BY <1>2, FlushOutcome
<1>4. /\ Shape(dev') /\ Coherent(dev') /\ View(dev') = r.dev.file
      /\ Calm(dev') => Calm(dev)
  <2>1. Calm(Drop(r.dev)) => Calm(r.dev) BY <1>3, Dropped
  <2>2. Shape(dev') /\ Coherent(dev') /\ View(dev') = r.dev.file BY <1>0, <1>3, Dropped
  <2> QED BY <1>0, <1>3, <2>1, <2>2
<1>5. /\ undo' \in UndoType /\ undo'.i = undo.i /\ undo'.write_fail = undo.write_fail
      /\ r.ok => undo'.flush_fail = undo.flush_fail
      /\ ~r.ok => undo'.flush_fail = TRUE
  <2> DEFINE y == [undo EXCEPT !.retry = TRUE]
             b == undo.flush_fail \/ ~r.ok
  <2>1. undo' = [y EXCEPT !.flush_fail = b] BY <1>0, <1>2 DEF UndoType
  <2>2. /\ b \in BOOLEAN /\ (r.ok => b = undo.flush_fail) /\ (~r.ok => b = TRUE)
    BY <1>2, Zenon DEF UndoType
  <2>3. y \in UndoType /\ y.i = undo.i /\ y.write_fail = undo.write_fail BY <1>2 DEF UndoType
  <2> HIDE DEF y, b
  <2>4. /\ undo' \in UndoType /\ undo'.i = undo.i /\ undo'.write_fail = undo.write_fail
        /\ undo'.flush_fail = b
    BY <2>1, <2>2, <2>3 DEF UndoType
  <2> QED BY <2>2, <2>4
<1>9. NoErrors' => NoErrors BY <1>3, <1>5 DEF NoErrors
<1>6. Own' /\ Contents' = View(dev') /\ LogOldestFirst' = LogOldestFirst /\ Phase' = "undo"
  BY <1>1, <1>2, <1>4, <1>9, <1>5, UndoOwn DEF Going
<1>7. CASE r.ok
  <2>1. Contents' = Contents BY <1>2, <1>3, <1>4, <1>6, <1>7
  <2>2. UNCHANGED P!undoVars BY <1>1, <1>2, <1>5, <1>6, <1>7, <2>1, Unseen
  <2> QED BY <1>6, <2>2 DEF Step
<1>8. CASE ~r.ok
  <2>1. P!UndoFails BY <1>1, <1>2, <1>4, <1>5, <1>6, <1>8, FailsStep DEF Going
  <2> QED BY <1>6, <2>1, Allowed DEF Step
<1> QED BY <1>7, <1>8

\* The last flush of the undo.
LEMMA UndoFlushStep == ASSUME DInv, UndoFlush PROVE Step
<1>0. PICK r \in device_flush_cache(dev) :
         dev' = r.dev /\ undo' = [undo EXCEPT !.flush_fail = @ \/ ~r.ok]
  BY DEF UndoFlush
<1>1. /\ pc = "undo" /\ pc' = "flushed" /\ undo.i > Len(uninstall_data)
      /\ uninstall_data' = uninstall_data /\ op' = op /\ got' = got /\ damaged' = damaged
  BY DEF UndoFlush
<1>2. /\ Shape(dev) /\ undo \in UndoType /\ Contents = View(dev) /\ Phase = "undo"
      /\ undo.i \in 1..(Len(uninstall_data) + 1) /\ Len(uninstall_data) \in Nat
      /\ damaged \subseteq Bytes
  BY <1>1, UndoFacts DEF Going
<1>3. /\ Shape(r.dev) /\ r.ok \in BOOLEAN
      /\ r.ok => r.dev.cache_state = "clean" /\ Kept(dev, r.dev)
      /\ Calm(r.dev) => Calm(dev)
  BY <1>2, FlushOutcome
<1>4. /\ Shape(dev') /\ (Calm(dev') => Calm(dev))
      /\ r.ok => View(dev') = View(dev)
  BY <1>0, <1>3 DEF Kept
<1>5. /\ undo' \in UndoType /\ undo'.i = undo.i /\ undo'.write_fail = undo.write_fail
      /\ r.ok => undo'.flush_fail = undo.flush_fail
      /\ ~r.ok => undo'.flush_fail = TRUE
  <2> DEFINE b == undo.flush_fail \/ ~r.ok
  <2>1. undo' = [undo EXCEPT !.flush_fail = b] BY <1>0
  <2>2. /\ b \in BOOLEAN /\ (r.ok => b = undo.flush_fail) /\ (~r.ok => b = TRUE)
    BY <1>2, Zenon DEF UndoType
  <2> HIDE DEF b
  <2>3. /\ undo' \in UndoType /\ undo'.i = undo.i /\ undo'.write_fail = undo.write_fail
        /\ undo'.flush_fail = b
    BY <1>2, <2>1, <2>2 DEF UndoType
  <2> QED BY <2>2, <2>3
<1>6. undo.i = Len(uninstall_data) + 1 BY <1>1, <1>2
<1>7. ~undo'.flush_fail => dev'.cache_state = "clean" BY <1>0, <1>3, <1>5
<1>11. NoErrors' => NoErrors BY <1>3, <1>5 DEF NoErrors
<1>8. Own' /\ Contents' = View(dev') /\ LogOldestFirst' = LogOldestFirst /\ Phase' = "undo"
  BY <1>1, <1>2, <1>4, <1>5, <1>6, <1>7, <1>11, UndoOwn DEF Going
<1>9. CASE r.ok
  <2>1. UNCHANGED P!undoVars BY <1>1, <1>2, <1>4, <1>5, <1>8, <1>9, Unseen
  <2> QED BY <1>8, <2>1 DEF Step
<1>10. CASE ~r.ok
  <2>1. P!UndoFails BY <1>1, <1>2, <1>4, <1>5, <1>8, <1>10, FailsStep DEF Going
  <2> QED BY <1>8, <2>1, Allowed DEF Step
<1> QED BY <1>9, <1>10

\* uninstall returns and the stream is closed: nothing is left in the log.
LEMMA UndoReturnStep == ASSUME DInv, UndoReturn PROVE Step
<1>0. /\ pc = "flushed" /\ pc' = "undone" /\ CloseDevice /\ uninstall_data' = uninstall_data
      /\ op' = op /\ got' = got /\ undo' = undo
  BY DEF UndoReturn
<1>1. /\ Shape(dev) /\ undo \in UndoType /\ Contents = View(dev) /\ Phase = "undo"
      /\ uninstall_data \in Seq(EntryType)
      /\ LogOldestFirst = Backward(uninstall_data, undo.i)
  BY <1>0, UndoFacts DEF Going
<1>2. /\ undo.i = Len(uninstall_data) + 1
      /\ ~undo.flush_fail => dev.cache_state = "clean"
  BY <1>0 DEF DInv, Own, LogInv, DevInv
<1>7. Contents' = View(dev') BY <1>0, Mapping
<1>8. /\ Shape(dev') /\ SameCache(dev, dev') /\ dev'.disk = dev'.file
      /\ Calm(dev') => Calm(dev) /\ damaged' = damaged
      /\ P!Damage /\ damaged' \subseteq Bytes
  BY <1>0, <1>1, <1>7, Closed
<1>3. /\ Own' /\ LogOldestFirst' = LogOldestFirst
      /\ Phase' = IF pc' = "undone" THEN "undone" ELSE "undo"
  <2>1. ~undo'.flush_fail => dev'.cache_state = "clean" BY <1>0, <1>2, <1>8 DEF SameCache
  <2>2. NoErrors' => NoErrors BY <1>0 DEF NoErrors
  <2> QED BY <1>0, <1>1, <1>2, <1>8, <2>1, <2>2, UndoOwn DEF Going
<1>4. LogOldestFirst = <<>> BY <1>1, <1>2, BackwardEmpty
<1>5. (undo'.write_fail \/ undo'.flush_fail) = (undo.write_fail \/ undo.flush_fail) BY <1>0
<1>6. P!Finish BY <1>0, <1>1, <1>3, <1>4, <1>5, <1>8 DEF P!Finish, Orig
<1> QED BY <1>3, <1>6, Allowed DEF Step

-----------------------------------------------------------------------------
(* The theorems.                                                           *)

\* Before device_init nothing has happened.
LEMMA InitOwn == ASSUME Init PROVE Own /\ P!UndoInit
<1> USE DEF Init
<1>1. <<>> \in Seq(Values) /\ <<>> \in Seq(EntryType) /\ Len(<<>>) = 0 BY EmptySeq
<1>2. dev \in DevType /\ dev.file = Orig /\ dev.disk = Orig /\ dev.cache_state = "clean"
  BY <1>1, Sizes DEF DevType
<1>3. DevInv BY <1>2 DEF DevInv, Begun, Trusted
<1>4. OpInv
  <2>1. op \in OpType BY <1>1 DEF Idle, OpType
  <2> QED BY <2>1 DEF OpInv
<1>5. LogInv BY <1>1, Sizes DEF LogInv, NoUndo, Undoing
<1>6. WrittenInv /\ WritesReachDiskInOrder /\ FileInv /\ CalmInv
  BY DEF WrittenInv, WritesReachDiskInOrder, Writing, FileInv, CalmInv
<1>7. P!UndoInit
  <2>1. Contents = View(dev) /\ Phase = "install" BY Mapping, Phases
  <2>2. View(dev) = Orig BY <1>2, Sizes, CleanView
  <2>3. LogOldestFirst = <<>>
    <3>1. LogOldestFirst = Forward(<<>>) BY <1>5, LogNow DEF UndoPcs, Stored, Installed
    <3>2. Forward(<<>>) = <<>> BY DEF Forward
    <3> QED BY <3>1, <3>2
  <2>4. (undo.write_fail \/ undo.flush_fail) = FALSE BY DEF NoUndo
  <2> QED BY <2>1, <2>2, <2>3, <2>4, Sizes DEF P!UndoInit
<1> QED BY <1>3, <1>4, <1>5, <1>6, <1>7 DEF Own

\* Every action keeps the layer's part of the invariant and is a step UndoDisk
\* allows, or none.
LEMMA NextStep == ASSUME DInv, [Next]_vars PROVE Step
<1>1. CASE UNCHANGED vars
  <2> USE <1>1 DEF vars
  <2>1. DevInv' BY DEF DInv, Own, DevInv, Begun, Trusted
  <2>2. OpInv' BY DEF DInv, Own, OpInv, Seen, HasRoom, FitsAt
  <2>3. LogInv' BY DEF DInv, Own, LogInv, Undoing
  <2>4. Contents' = Contents BY DEF Contents
  <2>5. WrittenInv' BY <2>4 DEF DInv, Own, WrittenInv, Written
  <2>6. WritesReachDiskInOrder' BY DEF DInv, Own, WritesReachDiskInOrder
  <2>7. Phase' = Phase /\ LogOldestFirst' = LogOldestFirst BY LogTerms, Mapping
  <2>8. UNCHANGED P!undoVars BY <2>4, <2>7, Unseen
  <2>9. CalmInv' BY <2>7, CalmKept DEF DInv
  <2>10. FileInv' BY <2>7 DEF DInv, Own, FileInv, P!Covered
  <2> QED BY <2>1, <2>2, <2>3, <2>5, <2>6, <2>8, <2>9, <2>10 DEF Step, Own
<1>2. CASE \E r \in Requests : StartRead(r) \/ StartWrite(r) BY <1>2, StartStep
<1> QED BY <1>1, <1>2, DeviceInitStep, VanishStep, TooManyStep, ReadStepStep, WriteStepStep,
           FinalFlushStep, CleanupStep, StoreStep, UninstallRunStep, LoadStep, UndoNextStep,
           UndoStepStep, UndoRetryStep, UndoFlushStep, UndoReturnStep DEF Next

\* The inductive invariant, UndoDisk's included, holds in every reachable
\* state of the device layer, whatever fails.
THEOREM DeviceInvariant == Spec => []DInv
<1>0. P!LogAssumption BY Sizes DEF P!LogAssumption
<1>1. Init => DInv
  <2>1. P!UndoInit => P!UndoInv BY <1>0, P!InitInv
  <2> QED BY <2>1, InitOwn DEF DInv
<1>2. ASSUME DInv, [Next]_vars PROVE DInv'
  <2>1. Own' /\ [P!UndoNext]_(P!undoVars) BY <1>2, NextStep DEF Step
  <2>2. P!UndoInv' BY <1>0, <1>2, <2>1, P!NextInv DEF DInv
  <2> QED BY <2>1, <2>2 DEF DInv
<1> QED BY <1>1, <1>2, PTL DEF Spec

\* While an install runs its writes reach the system in the order they were
\* made, so that a killed process leaves a prefix of them (the flush and the
\* set_pos in device_cache_block); what a power cut leaves is not claimed.
THEOREM DeviceWritesInOrder == Spec => []WritesReachDiskInOrder
<1>1. DInv => WritesReachDiskInOrder BY DEF DInv, Own
<1> QED BY <1>1, DeviceInvariant, PTL

\* When bios_install reports success stdio has every write, and the device all
\* of it but at most the block flushed last, which the unchecked fclose may
\* lose.
THEOREM DeviceSuccessIsHandedOver == Spec => []SuccessIsHandedOver
<1>1. ASSUME DInv PROVE SuccessIsHandedOver
  <2> SUFFICES ASSUME pc = "store", NEW a \in Bytes
               PROVE  /\ dev.file[a] = Written(a)
                      /\ dev.disk[a] = Written(a) \/ InBlock(dev, a)
    BY DEF SuccessIsHandedOver
  <2>1. /\ Shape(dev) /\ dev.cache_state = "clean"
        /\ dev.disk[a] = dev.file[a] \/ InBlock(dev, a)
    BY <1>1 DEF DInv, Own, DevInv, Begun, Installed
  <2>2. View(dev) = dev.file BY <2>1, ShapeParts, CleanView
  <2>3. Contents = View(dev) BY Mapping
  <2>4. dev.file[a] = Written(a) BY <1>1, <2>2, <2>3 DEF DInv, Own, WrittenInv, Writing
  <2> QED BY <2>1, <2>4
<1> QED BY <1>1, DeviceInvariant, PTL

\* When uninstall returns without an error and the stream is closed, the disk
\* holds in every byte what it held before the install, but for those where a
\* torn write or a lost block is accounted for; without a failing call there
\* are none.
THEOREM DeviceUndoRestoresDisk == Spec => []UndoRestoresDisk
<1>1. ASSUME DInv PROVE UndoRestoresDisk
  <2> SUFFICES ASSUME pc = "undone", NoErrors
               PROVE  /\ \A a \in Bytes \ damaged : dev.disk[a] = Orig[a]
                      /\ Calm(dev) => damaged = {}
    BY DEF UndoRestoresDisk, Calm
  <2>1. Shape(dev) /\ dev.cache_state = "clean" /\ dev.file = dev.disk /\ damaged \subseteq Bytes
    BY <1>1 DEF DInv, Own, DevInv, Begun, NoErrors, Buffering
  <2>2. View(dev) = dev.disk BY <2>1, ShapeParts, CleanView
  <2>3. Contents = View(dev) /\ Phase = "undone" BY Mapping, Phases
  <2>4. LogOldestFirst = <<>> BY <1>1, <2>3 DEF DInv, P!UndoInv
  <2>5. \A a \in Bytes : a \in damaged \/ P!Covered(a) \/ Contents[a] = Orig[a]
    BY <1>1, Zenon DEF DInv, P!UndoInv, P!UncoveredIsOriginal, NoErrors
  <2>6. \A a \in Bytes : ~P!Covered(a)
    <3>1. Len(LogOldestFirst) = 0 BY <2>4
    <3> QED BY <3>1 DEF P!Covered
  <2>7. \A a \in Bytes \ damaged : dev.disk[a] = Orig[a] BY <2>2, <2>3, <2>5, <2>6
  <2>8. Calm(dev) => \A a \in damaged : P!Covered(a) BY <1>1 DEF DInv, Own, CalmInv
  <2>9. Calm(dev) => damaged = {} BY <2>1, <2>6, <2>8
  <2> QED BY <2>7, <2>9
<1> QED BY <1>1, DeviceInvariant, PTL

\* The device layer implements UndoDisk: with the stream under the dirty block
\* as the contents, every step is one UndoDisk allows, or none; a block that
\* stdio loses without a report is a step of Lose or Finish.
THEOREM DeviceKeepsPromise == Spec => KeepsPromise
<1>1. Init => Promise!UndoInit
  BY InitOwn DEF P!UndoInit, Promise!UndoInit
<1>2. ASSUME DInv, [Next]_vars PROVE [Promise!UndoNext]_(Promise!undoVars)
  <2>1. [P!UndoNext]_(P!undoVars) BY <1>2, NextStep DEF Step
  <2>2. P!undoVars = Promise!undoVars /\ P!undoVars' = Promise!undoVars'
    BY DEF P!undoVars, Promise!undoVars
  <2>3. P!UndoNext => Promise!UndoNext
    BY DEF P!UndoNext, P!WriteTo, P!Commit, P!CommitLosing, P!GiveUp, P!Lose, P!Damage, P!UndoPart,
           P!UndoEntry, P!EntryBack, P!UndoFails, P!Finish,
           P!Overwritten, P!Covered, P!Apply,
           Promise!UndoNext, Promise!WriteTo, Promise!Commit, Promise!CommitLosing,
           Promise!GiveUp, Promise!Lose, Promise!Damage, Promise!UndoPart, Promise!UndoEntry, Promise!EntryBack,
           Promise!UndoFails, Promise!Finish,
           Promise!Overwritten, Promise!Covered, Promise!Apply
  <2> QED BY <2>1, <2>2, <2>3
<1> QED BY <1>1, <1>2, DeviceInvariant, PTL DEF Spec, KeepsPromise, Promise!UndoSpec
=============================================================================
