-------------------------- MODULE BitmapPmmProofs --------------------------
(***************************************************************************)
(* Proofs about BitmapPmm, for every word size, bitmap size, frame size    *)
(* and memory map: the counters agree with the bitmaps, initialize marks   *)
(* exactly the frames inside USABLE memory, and the bitmaps implement      *)
(* FrameAllocator.                                                         *)
(***************************************************************************)
EXTENDS BitmapPmm, TLAPS, FiniteSetTheorems, SequenceTheorems, WellFoundedInduction

-----------------------------------------------------------------------------
(* The inductive invariant.                                                *)

NoAnswer == [frame |-> -1, ok |-> FALSE]

\* Frame f lies inside one of the entries initialize has read.
Covered(f) == \E k \in 1..entry : Inside(f, entries[k])

\* While initialize runs, the usable frames are the ones inside the entries
\* read so far, but for those of the current entry it has still to mark.
Progress ==
    /\ phase # "ready" => answer = NoAnswer
    /\ phase = "loading" =>
         /\ FreeSet = UsableSet
         /\ \A f \in UsableSet : Covered(f)
         /\ \A f \in Frames : Covered(f) => f \in UsableSet \/ f \in frame..(last_frame - 1)
         /\ \A f \in frame..(last_frame - 1) : Covered(f)

PInv == TypeOK /\ CountersAgree /\ Progress /\ UsableExact

-----------------------------------------------------------------------------
(* Arithmetic.                                                             *)

\* A product with a larger factor is larger by at least the other factor.
LEMMA Product ==
    ASSUME NEW a \in Int, NEW b \in Int, NEW d \in Nat, a < b
    PROVE  a * d \in Int /\ b * d \in Int /\ a * d + d <= b * d
<1>1. (b - a) * d >= d
  OBVIOUS
<1> QED BY <1>1

\* Quotient and remainder.
LEMMA Quotient ==
    ASSUME NEW a \in Nat, NEW d \in Nat \ {0}
    PROVE  /\ a \div d \in Nat /\ a % d \in 0..(d - 1)
           /\ a = (a \div d) * d + (a % d)
<1>1. a % d \in 0..(d - 1) OBVIOUS
<1>2. a \div d \in Nat OBVIOUS
<1>3. a = (a \div d) * d + (a % d) OBVIOUS
<1> QED BY <1>1, <1>2, <1>3

\* There is one quotient and one remainder.
LEMMA QuotientUnique ==
    ASSUME NEW w \in Nat, NEW d \in Nat \ {0}, NEW b \in 0..(d - 1)
    PROVE  (w * d + b) \div d = w /\ (w * d + b) % d = b
<1> DEFINE a == w * d + b
<1>0. a \in Nat OBVIOUS
<1>1. a \div d \in Nat /\ a % d \in 0..(d - 1) /\ a = (a \div d) * d + (a % d) BY <1>0, Quotient
<1> DEFINE q == a \div d
           r == a % d
<1> HIDE DEF q, r
<1>2. q \in Nat /\ r \in 0..(d - 1) /\ w * d + b = q * d + r BY <1>1 DEF q, r
<1>3. ~(q < w)
  <2>1. q < w => q * d + d <= w * d /\ q * d \in Int /\ w * d \in Int BY <1>2, Product
  <2> QED BY <1>2, <2>1
<1>4. ~(w < q)
  <2>1. w < q => w * d + d <= q * d /\ q * d \in Int /\ w * d \in Int BY <1>2, Product
  <2> QED BY <1>2, <2>1
<1>5. q = w BY <1>2, <1>3, <1>4
<1>6. r = b BY <1>2, <1>5
<1> QED BY <1>5, <1>6 DEF q, r

\* Rounding down: f is below the quotient when f + 1 units fit.
LEMMA RoundDown ==
    ASSUME NEW a \in Nat, NEW d \in Nat \ {0}, NEW f \in Nat
    PROVE  f < a \div d <=> (f + 1) * d <= a
OBVIOUS

\* Rounding up: f is at or above the quotient when f units reach.
LEMMA RoundUp ==
    ASSUME NEW a \in Nat, NEW d \in Nat \ {0}, NEW f \in Nat
    PROVE  (a + d - 1) \div d <= f <=> a <= f * d
OBVIOUS

\* A set of numbers that is not empty has a least one.
LEMMA Least ==
    ASSUME NEW T \in SUBSET Nat, T # {}
    PROVE  \E m \in T : \A k \in T : m <= k
<1> DEFINE R == OpToRel(<, Nat)
<1>1. IsWellFoundedOn(R, Nat) BY NatLessThanWellFounded
<1> HIDE DEF R
<1>2. PICK m \in T : \A k \in T : ~(<<k, m>> \in R) BY <1>1, WFMin
<1>3. \A k \in T : m <= k
  <2> SUFFICES ASSUME NEW k \in T PROVE m <= k OBVIOUS
  <2>1. <<k, m>> \notin R BY <1>2
  <2>2. R = {ss \in Nat \X Nat : ss[1] < ss[2]} BY DEF R, OpToRel
  <2>3. ~(k < m) BY <2>1, <2>2
  <2> QED BY <2>3
<1> QED BY <1>3

-----------------------------------------------------------------------------
(* The bitmaps.                                                            *)

\* The sizes, one by one.
LEMMA Sizes ==
    /\ BITS \in Nat \ {0} /\ BITMAP_WORDS \in Nat \ {0} /\ FRAME_SIZE \in Nat \ {0} /\ ADDR \in Nat
    /\ MAX_FRAMES \in Nat \ {0} /\ MAX_PHYSICAL_ADDRESS \in Nat
    /\ MAX_PHYSICAL_ADDRESS + FRAME_SIZE <= ADDR
<1>1. MAX_FRAMES \in Nat \ {0} BY SizeAssumption DEF MAX_FRAMES
<1>2. MAX_PHYSICAL_ADDRESS \in Nat BY <1>1, SizeAssumption DEF MAX_PHYSICAL_ADDRESS
<1> QED BY <1>1, <1>2, SizeAssumption

\* Every frame below the limit has a bit of a word of its own.
LEMMA Place ==
    ASSUME NEW f \in Frames
    PROVE  /\ Word(f) \in Words /\ Bit(f) \in Bits
           /\ f = Word(f) * BITS + Bit(f)
<1>1. f \in Nat /\ f < BITS * BITMAP_WORDS BY Sizes DEF Frames, MAX_FRAMES
<1>2. /\ f \div BITS \in Nat /\ f % BITS \in 0..(BITS - 1)
      /\ f = (f \div BITS) * BITS + (f % BITS)
  BY <1>1, Sizes, Quotient
<1>3. f \div BITS < BITMAP_WORDS
  <2> DEFINE q == f \div BITS
             r == f % BITS
  <2>1. q \in Nat /\ r \in Nat /\ f = q * BITS + r BY <1>2, Sizes
  <2> HIDE DEF q, r
  <2>2. CASE BITMAP_WORDS < q
    <3>1. BITMAP_WORDS * BITS + BITS <= q * BITS BY <2>1, <2>2, Sizes, Product
    <3> QED BY <1>1, <2>1, <3>1, Sizes
  <2>3. CASE BITMAP_WORDS = q BY <1>1, <2>1, <2>3, Sizes
  <2>4. q < BITMAP_WORDS BY <2>1, <2>2, <2>3, Sizes
  <2> QED BY <2>4 DEF q
<1> QED BY <1>2, <1>3, Sizes DEF Word, Bit, Words, Bits

\* And every bit stands for a frame.
LEMMA FrameAt ==
    ASSUME NEW w \in Words, NEW b \in Bits
    PROVE  /\ w * BITS + b \in Frames
           /\ Word(w * BITS + b) = w /\ Bit(w * BITS + b) = b
<1>1. w \in Nat /\ b \in 0..(BITS - 1) /\ w < BITMAP_WORDS BY Sizes DEF Words, Bits
<1>2. (w * BITS + b) \div BITS = w /\ (w * BITS + b) % BITS = b BY <1>1, Sizes, QuotientUnique
<1>3. w * BITS + BITS <= BITMAP_WORDS * BITS BY <1>1, Sizes, Product
<1>4. w * BITS + b \in 0..(MAX_FRAMES - 1) BY <1>1, <1>3, Sizes DEF MAX_FRAMES
<1> QED BY <1>2, <1>4 DEF Word, Bit, Frames

\* The bit of one frame is no other frame's.
LEMMA OwnBit ==
    ASSUME NEW f \in Frames, NEW g \in Frames, Word(f) = Word(g), Bit(f) = Bit(g)
    PROVE  f = g
<1>1. f = Word(f) * BITS + Bit(f) /\ g = Word(g) * BITS + Bit(g) BY Place
<1> QED BY <1>1, Zenon

\* The frames whose bit is set in a bitmap.
BitsOf(map) == {f \in Frames : Bit(f) \in map[Word(f)]}

\* Setting a frame's bit.
LEMMA SetBit ==
    ASSUME NEW map \in [Words -> SUBSET Bits], NEW f \in Frames
    PROVE  LET new == [map EXCEPT ![Word(f)] = @ \cup {Bit(f)}]
           IN  new \in [Words -> SUBSET Bits] /\ BitsOf(new) = BitsOf(map) \cup {f}
<1> DEFINE new == [map EXCEPT ![Word(f)] = @ \cup {Bit(f)}]
<1>1. Word(f) \in Words /\ Bit(f) \in Bits BY Place
<1>2. new \in [Words -> SUBSET Bits] BY <1>1
<1>3. ASSUME NEW g \in Frames PROVE Bit(g) \in new[Word(g)] <=> Bit(g) \in map[Word(g)] \/ g = f
  <2>1. Word(g) \in Words /\ Bit(g) \in Bits BY Place
  <2>2. CASE Word(g) = Word(f)
    <3>1. new[Word(g)] = map[Word(g)] \cup {Bit(f)} BY <1>1, <2>1, <2>2
    <3>2. Bit(g) = Bit(f) => g = f BY <2>2, OwnBit
    <3> QED BY <3>1, <3>2
  <2>3. CASE Word(g) # Word(f)
    <3>1. new[Word(g)] = map[Word(g)] BY <1>1, <2>1, <2>3
    <3> QED BY <2>3, <3>1
  <2> QED BY <2>2, <2>3
<1>4. BitsOf(new) = BitsOf(map) \cup {f}
  <2> HIDE DEF new
  <2> QED BY <1>3 DEF BitsOf
<1> QED BY <1>2, <1>4

\* Clearing it.
LEMMA ClearBit ==
    ASSUME NEW map \in [Words -> SUBSET Bits], NEW f \in Frames
    PROVE  LET new == [map EXCEPT ![Word(f)] = @ \ {Bit(f)}]
           IN  new \in [Words -> SUBSET Bits] /\ BitsOf(new) = BitsOf(map) \ {f}
<1> DEFINE new == [map EXCEPT ![Word(f)] = @ \ {Bit(f)}]
<1>1. Word(f) \in Words /\ Bit(f) \in Bits BY Place
<1>2. new \in [Words -> SUBSET Bits] BY <1>1
<1>3. ASSUME NEW g \in Frames PROVE Bit(g) \in new[Word(g)] <=> Bit(g) \in map[Word(g)] /\ g # f
  <2>1. Word(g) \in Words /\ Bit(g) \in Bits BY Place
  <2>2. CASE Word(g) = Word(f)
    <3>1. new[Word(g)] = map[Word(g)] \ {Bit(f)} BY <1>1, <2>1, <2>2
    <3>2. Bit(g) = Bit(f) <=> g = f BY <2>2, OwnBit
    <3> QED BY <3>1, <3>2
  <2>3. CASE Word(g) # Word(f)
    <3>1. new[Word(g)] = map[Word(g)] BY <1>1, <2>1, <2>3
    <3> QED BY <2>3, <3>1
  <2> QED BY <2>2, <2>3
<1>4. BitsOf(new) = BitsOf(map) \ {f}
  <2> HIDE DEF new
  <2> QED BY <1>3 DEF BitsOf
<1> QED BY <1>2, <1>4

-----------------------------------------------------------------------------
(* The entries of the memory map.                                          *)

\* The frames an accepted entry contributes are the ones wholly inside it.
LEMMA AcceptedFrames ==
    ASSUME NEW e \in Entry, Accepted(e)
    PROVE  /\ RoundedStart(e) \div FRAME_SIZE \in 0..MAX_FRAMES
           /\ ClippedEnd(e) \div FRAME_SIZE \in 0..MAX_FRAMES
           /\ \A f \in Nat :
                f \in (RoundedStart(e) \div FRAME_SIZE)..((ClippedEnd(e) \div FRAME_SIZE) - 1)
                <=> f < MAX_FRAMES /\ Inside(f, e)
<1> DEFINE up == (e.base + FRAME_SIZE - 1) \div FRAME_SIZE
           down == ClippedEnd(e) \div FRAME_SIZE
           end == e.base + e.length
<1>0. e.base \in Nat /\ e.length \in Nat /\ e.usable BY Sizes DEF Entry, Accepted
<1>1. ClippedEnd(e) \in Nat /\ ClippedEnd(e) <= end /\ ClippedEnd(e) <= MAX_PHYSICAL_ADDRESS
      /\ (ClippedEnd(e) = end \/ ClippedEnd(e) = MAX_PHYSICAL_ADDRESS)
  BY <1>0, Sizes DEF ClippedEnd
<1>2. up \in Nat /\ \A f \in Nat : up <= f <=> e.base <= f * FRAME_SIZE
  <2>1. e.base + FRAME_SIZE - 1 \in Nat BY <1>0, Sizes
  <2>2. up \in Nat BY <2>1, Sizes, Quotient
  <2>3. \A f \in Nat : up <= f <=> e.base <= f * FRAME_SIZE BY <1>0, Sizes, RoundUp
  <2> QED BY <2>2, <2>3
<1>3. down \in Nat /\ \A f \in Nat : f < down <=> (f + 1) * FRAME_SIZE <= ClippedEnd(e)
  <2>1. down \in Nat BY <1>1, Sizes, Quotient
  <2>2. \A f \in Nat : f < down <=> (f + 1) * FRAME_SIZE <= ClippedEnd(e)
    BY <1>1, Sizes, RoundDown
  <2> QED BY <2>1, <2>2
<1>4. RoundedStart(e) \div FRAME_SIZE = up
  <2>1. RoundedStart(e) = up * FRAME_SIZE + 0 BY <1>2, Sizes DEF RoundedStart
  <2>2. 0 \in 0..(FRAME_SIZE - 1) BY Sizes
  <2> HIDE DEF up
  <2> QED BY <1>2, <2>1, <2>2, Sizes, QuotientUnique
<1> HIDE DEF up, down
<1>5. down <= MAX_FRAMES
  <2>1. ~(MAX_FRAMES < down)
    <3>1. MAX_FRAMES < down => (MAX_FRAMES + 1) * FRAME_SIZE <= ClippedEnd(e) BY <1>3, Sizes
    <3>2. (MAX_FRAMES + 1) * FRAME_SIZE = MAX_PHYSICAL_ADDRESS + FRAME_SIZE
      BY Sizes DEF MAX_PHYSICAL_ADDRESS
    <3> QED BY <1>1, <3>1, <3>2, Sizes
  <2> QED BY <1>3, <2>1, Sizes
<1>6. up <= MAX_FRAMES
  <2>1. e.base <= MAX_FRAMES * FRAME_SIZE
    <3>1. up * FRAME_SIZE < ClippedEnd(e) BY <1>4 DEF Accepted, RoundedStart, up
    <3>2. e.base <= up * FRAME_SIZE BY <1>2
    <3>3. up * FRAME_SIZE \in Nat BY <1>2, Sizes
    <3> QED BY <1>0, <1>1, <3>1, <3>2, <3>3, Sizes DEF MAX_PHYSICAL_ADDRESS
  <2> QED BY <1>2, <2>1, Sizes
<1>7. ASSUME NEW f \in Nat PROVE f \in up..(down - 1) <=> f < MAX_FRAMES /\ Inside(f, e)
  <2>1. f \in up..(down - 1) <=> /\ e.base <= f * FRAME_SIZE
                                /\ (f + 1) * FRAME_SIZE <= ClippedEnd(e)
    <3>1. f \in up..(down - 1) <=> up <= f /\ f < down BY <1>2, <1>3
    <3> QED BY <1>2, <1>3, <3>1
  <2>2. (f + 1) * FRAME_SIZE \in Nat BY Sizes
  <2>3. f < MAX_FRAMES <=> (f + 1) * FRAME_SIZE <= MAX_PHYSICAL_ADDRESS
    <3>1. f < MAX_FRAMES => f * FRAME_SIZE + FRAME_SIZE <= MAX_FRAMES * FRAME_SIZE BY Sizes, Product
    <3>2. ~(f < MAX_FRAMES) => MAX_FRAMES * FRAME_SIZE + FRAME_SIZE <= (f + 1) * FRAME_SIZE
      BY Sizes, Product
    <3>3. (f + 1) * FRAME_SIZE = f * FRAME_SIZE + FRAME_SIZE /\ f * FRAME_SIZE \in Nat BY Sizes
    <3> QED BY <3>1, <3>2, <3>3, Sizes DEF MAX_PHYSICAL_ADDRESS
  <2>4. (f + 1) * FRAME_SIZE <= ClippedEnd(e)
        <=> (f + 1) * FRAME_SIZE <= end /\ (f + 1) * FRAME_SIZE <= MAX_PHYSICAL_ADDRESS
    BY <1>0, <1>1, <2>2, Sizes
  <2>5. Inside(f, e) <=> e.base <= f * FRAME_SIZE /\ (f + 1) * FRAME_SIZE <= end
    BY <1>0 DEF Inside, Accepted
  <2> QED BY <2>1, <2>3, <2>4, <2>5
<1> QED BY <1>2, <1>3, <1>4, <1>5, <1>6, <1>7, Sizes DEF down

\* No frame below the limit lies wholly inside an entry that is skipped.
LEMMA SkippedFrames ==
    ASSUME NEW e \in Entry, ~Accepted(e), NEW f \in Frames
    PROVE  ~Inside(f, e)
<1> SUFFICES ASSUME Inside(f, e) PROVE FALSE OBVIOUS
<1> DEFINE up == (e.base + FRAME_SIZE - 1) \div FRAME_SIZE
           end == e.base + e.length
<1>0. e.base \in Nat /\ e.length \in Nat /\ f \in Nat /\ f < MAX_FRAMES BY Sizes DEF Entry, Frames
<1>1. /\ e.usable /\ end < ADDR /\ e.base <= f * FRAME_SIZE /\ (f + 1) * FRAME_SIZE <= end
  BY DEF Inside
<1>2. (f + 1) * FRAME_SIZE = f * FRAME_SIZE + FRAME_SIZE /\ f * FRAME_SIZE \in Nat BY <1>0, Sizes
<1>3. f * FRAME_SIZE + FRAME_SIZE <= MAX_PHYSICAL_ADDRESS
  BY <1>0, Sizes, Product DEF MAX_PHYSICAL_ADDRESS
<1>4. e.base + (FRAME_SIZE - 1) < ADDR BY <1>0, <1>1, <1>2, <1>3, Sizes
<1>5. up \in Nat /\ up <= f
  <2>1. e.base + FRAME_SIZE - 1 \in Nat BY <1>0, Sizes
  <2> QED BY <1>0, <1>1, <2>1, Sizes, RoundUp, Quotient
<1>6. RoundedStart(e) <= f * FRAME_SIZE /\ RoundedStart(e) \in Nat
  <2>1. RoundedStart(e) = up * FRAME_SIZE BY DEF RoundedStart
  <2> HIDE DEF up
  <2>2. up < f => up * FRAME_SIZE + FRAME_SIZE <= f * FRAME_SIZE BY <1>0, <1>5, Sizes, Product
  <2>3. up * FRAME_SIZE \in Nat BY <1>5, Sizes
  <2>4. up < f \/ up = f BY <1>0, <1>5
  <2> QED BY <1>2, <2>1, <2>2, <2>3, <2>4, Sizes
<1>7. f * FRAME_SIZE + FRAME_SIZE <= ClippedEnd(e) /\ ClippedEnd(e) \in Nat
  BY <1>0, <1>1, <1>2, <1>3, Sizes DEF ClippedEnd
<1>8. RoundedStart(e) < ClippedEnd(e) BY <1>2, <1>6, <1>7, Sizes
<1> QED BY <1>1, <1>4, <1>8 DEF Accepted

-----------------------------------------------------------------------------
(* What the bitmaps stand for.                                             *)

\* The sets of the properties, as the frames of a bitmap.
LEMMA Sets ==
    /\ UsableSet = BitsOf(usable) /\ AllocatedSet = BitsOf(allocated)
    /\ UsableSet \subseteq Frames /\ AllocatedSet \subseteq Frames
    /\ FreeSet \subseteq Frames /\ FreeSet = UsableSet \ AllocatedSet
BY DEF UsableSet, AllocatedSet, FreeSet, BitsOf

\* A set of frames is finite and has at most MAX_FRAMES members.
LEMMA CardFrames ==
    ASSUME NEW S \in SUBSET Frames
    PROVE  IsFiniteSet(S) /\ Cardinality(S) \in 0..MAX_FRAMES
<1>1. IsFiniteSet(Frames) /\ Cardinality(Frames) = MAX_FRAMES
  <2>1. 0 \in Int /\ MAX_FRAMES - 1 \in Int /\ ~(0 > MAX_FRAMES - 1) BY Sizes
  <2>2. IsFiniteSet(0..(MAX_FRAMES - 1)) /\ Cardinality(0..(MAX_FRAMES - 1)) = MAX_FRAMES - 1 - 0 + 1
    BY <2>1, FS_Interval
  <2> QED BY <2>2, Sizes DEF Frames
<1>2. IsFiniteSet(S) /\ Cardinality(S) <= Cardinality(Frames) BY <1>1, FS_Subset
<1>3. Cardinality(S) \in Nat BY <1>2, FS_CardinalityType
<1> QED BY <1>1, <1>2, <1>3, Sizes

\* A new allocator has no usable frame and counts every frame as allocated.
LEMMA FreshBitmaps ==
    ASSUME NEW u, NEW a, u = [w \in Words |-> {}], a = [w \in Words |-> Bits]
    PROVE  /\ u \in [Words -> SUBSET Bits] /\ a \in [Words -> SUBSET Bits]
           /\ BitsOf(u) = {} /\ BitsOf(a) = Frames
<1>1. u \in [Words -> SUBSET Bits] /\ a \in [Words -> SUBSET Bits] OBVIOUS
<1>2. \A f \in Frames : u[Word(f)] = {} /\ Bit(f) \in a[Word(f)] BY Place
<1> QED BY <1>1, <1>2 DEF BitsOf

\* The invariant holds before initialize is called.
LEMMA InitPInv == Init => PInv
<1> SUFFICES ASSUME Init PROVE PInv OBVIOUS
<1>1. /\ usable \in [Words -> SUBSET Bits] /\ allocated \in [Words -> SUBSET Bits]
      /\ BitsOf(usable) = {} /\ BitsOf(allocated) = Frames
  BY FreshBitmaps DEF Init, New
<1>2. UsableSet = {} /\ AllocatedSet = Frames /\ FreeSet = {} BY <1>1, Sets
<1>3. entries \in MemoryMaps /\ 0 \in 0..Len(entries)
  BY MapAssumption, LenProperties DEF Init
<1>4. TypeOK
  <2>1. 0 \in 0..MAX_FRAMES BY Sizes
  <2>2. answer \in [frame : {-1} \cup Frames \cup Numbers, ok : BOOLEAN] BY DEF Init
  <2> QED BY <1>1, <1>3, <2>1, <2>2 DEF Init, New, TypeOK
<1>5. CountersAgree BY <1>2, FS_EmptySet DEF Init, New, CountersAgree
<1>6. Progress /\ UsableExact BY DEF Init, Progress, UsableExact, NoAnswer
<1> QED BY <1>4, <1>5, <1>6 DEF PInv

-----------------------------------------------------------------------------
(* initialize.                                                             *)

\* The call clears what was there.
LEMMA KeepsInitialize == PInv /\ Initialize => PInv'
<1> SUFFICES ASSUME PInv, Initialize PROVE PInv' OBVIOUS
<1>1. /\ usable' \in [Words -> SUBSET Bits] /\ allocated' \in [Words -> SUBSET Bits]
      /\ BitsOf(usable') = {} /\ BitsOf(allocated') = Frames
  BY FreshBitmaps DEF Initialize
<1>2. UsableSet' = {} /\ AllocatedSet' = Frames /\ FreeSet' = {}
  BY <1>1 DEF UsableSet, AllocatedSet, FreeSet, BitsOf
<1>3. entries' \in MemoryMaps /\ 0 \in 0..Len(entries')
  BY MapAssumption, LenProperties DEF PInv, TypeOK, Initialize
<1>4. TypeOK'
  <2>1. 0 \in 0..MAX_FRAMES BY Sizes
  <2>2. answer' \in [frame : {-1} \cup Frames \cup Numbers, ok : BOOLEAN]
    BY DEF PInv, TypeOK, Initialize
  <2> QED BY <1>1, <1>3, <2>1, <2>2 DEF Initialize, TypeOK
<1>5. CountersAgree' BY <1>2, FS_EmptySet DEF Initialize, CountersAgree
<1>6. Progress'
  <2>1. answer' = NoAnswer BY DEF PInv, Progress, Initialize
  <2>2. \A f : ~Covered(f)' BY DEF Covered, Initialize
  <2> QED BY <1>2, <2>1, <2>2 DEF Progress, Initialize
<1>7. UsableExact' BY DEF Initialize, UsableExact
<1> QED BY <1>4, <1>5, <1>6, <1>7 DEF PInv

\* Reading an entry: the frames to be marked are the ones inside it.
LEMMA KeepsNextEntry == PInv /\ NextEntry => PInv'
<1> SUFFICES ASSUME PInv, NextEntry PROVE PInv' OBVIOUS
<1> DEFINE e == entries[entry + 1]
<1>0. /\ phase = "loading" /\ frame >= last_frame /\ entry < Len(entries) /\ entry' = entry + 1
      /\ usable' = usable /\ allocated' = allocated /\ usable_frames' = usable_frames
      /\ free_frames' = free_frames /\ max_frame' = max_frame
      /\ phase' = phase /\ entries' = entries /\ answer' = answer
      /\ IF Accepted(e)
         THEN /\ frame' = RoundedStart(e) \div FRAME_SIZE
              /\ last_frame' = ClippedEnd(e) \div FRAME_SIZE
         ELSE frame' = frame /\ last_frame' = last_frame
  BY DEF NextEntry, bitmapVars
<1>1. TypeOK /\ CountersAgree /\ Progress BY DEF PInv
<1>2. /\ entries \in Seq(Entry) /\ Len(entries) \in Nat /\ entry \in 0..Len(entries)
      /\ frame \in 0..MAX_FRAMES /\ last_frame \in 0..MAX_FRAMES
  BY <1>1, MapAssumption, LenProperties DEF TypeOK
<1>3. e \in Entry
  <2>1. entry + 1 \in 1..Len(entries) BY <1>0, <1>2
  <2> QED BY <1>2, <2>1, ElementOfSeq
<1>4. UsableSet' = UsableSet /\ AllocatedSet' = AllocatedSet /\ FreeSet' = FreeSet
  BY <1>0 DEF UsableSet, AllocatedSet, FreeSet
<1>5. ASSUME NEW f PROVE Covered(f)' <=> Covered(f) \/ Inside(f, e)
  <2>1. 1..(entry + 1) = (1..entry) \cup {entry + 1} BY <1>2
  <2>2. Covered(f)' <=> \E k \in 1..(entry + 1) : Inside(f, entries[k]) BY <1>0 DEF Covered
  <2> HIDE DEF e
  <2>3. Inside(f, e) <=> Inside(f, entries[entry + 1]) BY DEF e
  <2> QED BY <2>1, <2>2, <2>3, Zenon DEF Covered
<1> HIDE DEF e
<1>6. \A f : f \notin frame..(last_frame - 1) BY <1>0, <1>2, Sizes
<1>7. \A f \in frame'..(last_frame' - 1) : Inside(f, e)
  <2>1. CASE Accepted(e)
    <3>1. \A f \in frame'..(last_frame' - 1) : f \in Nat BY <1>0, <1>3, <2>1, AcceptedFrames
    <3> QED BY <1>0, <1>3, <2>1, <3>1, AcceptedFrames
  <2>2. CASE ~Accepted(e) BY <1>0, <1>6, <2>2
  <2> QED BY <2>1, <2>2
<1>8. \A f \in Frames : Inside(f, e) => f \in frame'..(last_frame' - 1)
  <2> SUFFICES ASSUME NEW f \in Frames, Inside(f, e) PROVE f \in frame'..(last_frame' - 1) OBVIOUS
  <2>1. f \in Nat /\ f < MAX_FRAMES BY Sizes DEF Frames
  <2>2. Accepted(e) BY <1>3, SkippedFrames
  <2>3. f \in (RoundedStart(e) \div FRAME_SIZE)..((ClippedEnd(e) \div FRAME_SIZE) - 1)
    BY <1>3, <2>1, <2>2, AcceptedFrames
  <2> QED BY <1>0, <2>2, <2>3
<1>9. TypeOK'
  <2>1. frame' \in 0..MAX_FRAMES /\ last_frame' \in 0..MAX_FRAMES
    <3>1. CASE Accepted(e) BY <1>0, <1>3, <3>1, AcceptedFrames
    <3>2. CASE ~Accepted(e) BY <1>0, <1>2, <3>2
    <3> QED BY <3>1, <3>2
  <2>2. entry' \in 0..Len(entries') BY <1>0, <1>2
  <2> QED BY <1>0, <1>1, <2>1, <2>2 DEF TypeOK
<1>10. CountersAgree' BY <1>0, <1>1, <1>4 DEF CountersAgree
<1>11. Progress'
  <2>1. answer' = NoAnswer /\ FreeSet' = UsableSet' BY <1>0, <1>1, <1>4 DEF Progress
  <2>2. \A f \in UsableSet' : Covered(f)' BY <1>0, <1>1, <1>4, <1>5 DEF Progress
  <2>3. \A f \in Frames : Covered(f)' => f \in UsableSet' \/ f \in frame'..(last_frame' - 1)
    BY <1>0, <1>1, <1>4, <1>5, <1>6, <1>8 DEF Progress
  <2>4. \A f \in frame'..(last_frame' - 1) : Covered(f)' BY <1>5, <1>7
  <2> QED BY <2>1, <2>2, <2>3, <2>4 DEF Progress
<1>12. UsableExact' BY <1>0 DEF UsableExact
<1> QED BY <1>9, <1>10, <1>11, <1>12 DEF PInv

\* mark_usable: a frame that is usable already is not counted again.
LEMMA KeepsMarkUsable == PInv /\ MarkUsable => PInv'
<1> SUFFICES ASSUME PInv, MarkUsable PROVE PInv' OBVIOUS
<1>0. /\ phase = "loading" /\ frame < last_frame /\ frame' = frame + 1
      /\ phase' = phase /\ entries' = entries /\ entry' = entry
      /\ last_frame' = last_frame /\ answer' = answer
  BY DEF MarkUsable
<1>1. TypeOK /\ CountersAgree /\ Progress BY DEF PInv
<1>2. /\ usable \in [Words -> SUBSET Bits] /\ allocated \in [Words -> SUBSET Bits]
      /\ frame \in Nat /\ last_frame \in Nat /\ last_frame <= MAX_FRAMES
      /\ max_frame \in Nat /\ usable_frames \in Nat /\ free_frames \in Nat
      /\ max_frame <= MAX_FRAMES
  BY <1>1, Sizes DEF TypeOK
<1>3. frame \in Frames /\ frame < MAX_FRAMES BY <1>0, <1>2, Sizes DEF Frames
<1>4. Skipped(frame) <=> frame \in UsableSet
  BY <1>3, <1>2, Sizes DEF Skipped, IsUsable, UsableSet
<1>5. \A f : Covered(f)' <=> Covered(f) BY <1>0 DEF Covered
<1>6. frame..(last_frame - 1) = (frame'..(last_frame' - 1)) \cup {frame} BY <1>0, <1>2
<1>7. /\ FreeSet = UsableSet /\ (\A f \in UsableSet : Covered(f))
      /\ (\A f \in Frames : Covered(f) => f \in UsableSet \/ f \in frame..(last_frame - 1))
      /\ (\A f \in frame..(last_frame - 1) : Covered(f)) /\ answer = NoAnswer
  BY <1>0, <1>1 DEF Progress
<1>8. /\ usable' \in [Words -> SUBSET Bits] /\ allocated' \in [Words -> SUBSET Bits]
      /\ UsableSet' = UsableSet \cup {frame} /\ FreeSet' = UsableSet \cup {frame}
      /\ AllocatedSet' = AllocatedSet \ {frame} /\ CountersAgree'
      /\ max_frame' \in 0..MAX_FRAMES
  <2>1. CASE Skipped(frame)
    <3>1. /\ usable' = usable /\ allocated' = allocated /\ usable_frames' = usable_frames
          /\ free_frames' = free_frames /\ max_frame' = max_frame
      BY <2>1 DEF MarkUsable, bitmapVars
    <3>2. UsableSet' = UsableSet /\ AllocatedSet' = AllocatedSet /\ FreeSet' = FreeSet
      BY <3>1 DEF UsableSet, AllocatedSet, FreeSet
    <3>3. frame \in UsableSet /\ frame \notin AllocatedSet BY <1>4, <1>7, <2>1 DEF FreeSet
    <3>4. CountersAgree' BY <1>1, <3>1, <3>2 DEF CountersAgree
    <3> QED BY <1>2, <1>7, <3>1, <3>2, <3>3, <3>4, Sizes
  <2>2. CASE ~Skipped(frame)
    <3>1. /\ usable' = [usable EXCEPT ![Word(frame)] = @ \cup {Bit(frame)}]
          /\ allocated' = [allocated EXCEPT ![Word(frame)] = @ \ {Bit(frame)}]
          /\ usable_frames' = usable_frames + 1 /\ free_frames' = free_frames + 1
          /\ max_frame' = IF max_frame >= frame + 1 THEN max_frame ELSE frame + 1
      BY <2>2 DEF MarkUsable
    <3>2. usable' \in [Words -> SUBSET Bits] /\ BitsOf(usable') = BitsOf(usable) \cup {frame}
      BY <1>2, <1>3, <3>1, SetBit
    <3>3. allocated' \in [Words -> SUBSET Bits] /\ BitsOf(allocated') = BitsOf(allocated) \ {frame}
      BY <1>2, <1>3, <3>1, ClearBit
    <3>4. UsableSet' = UsableSet \cup {frame} /\ AllocatedSet' = AllocatedSet \ {frame}
      BY <3>2, <3>3 DEF UsableSet, AllocatedSet, BitsOf
    <3>5. FreeSet' = UsableSet \cup {frame} BY <1>7, <3>4 DEF FreeSet
    <3>6. Cardinality(UsableSet \cup {frame}) = Cardinality(UsableSet) + 1
      <4>1. IsFiniteSet(UsableSet) BY Sets, CardFrames
      <4>2. frame \notin UsableSet BY <1>4, <2>2
      <4> QED BY <4>1, <4>2, FS_AddElement
    <3>7. /\ usable_frames = Cardinality(UsableSet) /\ free_frames = Cardinality(UsableSet)
          /\ (\A f \in UsableSet : f < max_frame) /\ (max_frame # 0 => max_frame - 1 \in UsableSet)
          /\ Frames \ UsableSet \subseteq AllocatedSet
      BY <1>1, <1>7 DEF CountersAgree
    <3>8. max_frame' \in 0..MAX_FRAMES BY <1>0, <1>2, <3>1, Sizes
    <3>9. \A f \in UsableSet \cup {frame} : f < max_frame'
      <4>1. \A f \in UsableSet : f \in Nat BY Sets, Sizes DEF Frames
      <4> QED BY <1>2, <3>1, <3>7, <4>1
    <3>10. max_frame' # 0 => max_frame' - 1 \in UsableSet \cup {frame}
      <4>1. CASE max_frame >= frame + 1 BY <3>1, <3>7, <4>1
      <4>2. CASE ~(max_frame >= frame + 1)
        <5>1. max_frame' - 1 = frame BY <1>2, <3>1, <4>2
        <5> QED BY <5>1
      <4> QED BY <4>1, <4>2
    <3>11. Frames \ (UsableSet \cup {frame}) \subseteq AllocatedSet \ {frame} BY <3>7
    <3>12. CountersAgree'
      BY <3>1, <3>4, <3>5, <3>6, <3>7, <3>9, <3>10, <3>11 DEF CountersAgree
    <3> QED BY <3>2, <3>3, <3>4, <3>5, <3>8, <3>12
  <2> QED BY <2>1, <2>2
<1>9. TypeOK'
  <2>1. usable_frames' \in 0..MAX_FRAMES /\ free_frames' \in 0..MAX_FRAMES
    <3>1. usable_frames' = Cardinality(UsableSet') /\ free_frames' = Cardinality(FreeSet')
      BY <1>8 DEF CountersAgree
    <3>2. UsableSet' \subseteq Frames /\ FreeSet' \subseteq Frames BY <1>3, <1>8, Sets
    <3> QED BY <3>1, <3>2, CardFrames
  <2>2. frame' \in 0..MAX_FRAMES BY <1>0, <1>2, Sizes
  <2> QED BY <1>0, <1>1, <1>8, <2>1, <2>2 DEF TypeOK
<1>10. Progress'
  <2>1. \A f \in UsableSet' : Covered(f)' BY <1>5, <1>6, <1>7, <1>8
  <2>2. \A f \in Frames : Covered(f)' => f \in UsableSet' \/ f \in frame'..(last_frame' - 1)
    BY <1>5, <1>6, <1>7, <1>8
  <2>3. \A f \in frame'..(last_frame' - 1) : Covered(f)' BY <1>5, <1>6, <1>7
  <2> QED BY <1>0, <1>7, <1>8, <2>1, <2>2, <2>3 DEF Progress
<1>11. UsableExact' BY <1>0 DEF UsableExact
<1> QED BY <1>8, <1>9, <1>10, <1>11 DEF PInv

\* initialize returns: what is marked is what the map promised.
LEMMA KeepsLoaded == PInv /\ Loaded => PInv'
<1> SUFFICES ASSUME PInv, Loaded PROVE PInv' OBVIOUS
<1>0. /\ phase = "loading" /\ frame >= last_frame /\ entry = Len(entries) /\ phase' = "ready"
      /\ usable' = usable /\ allocated' = allocated /\ usable_frames' = usable_frames
      /\ free_frames' = free_frames /\ max_frame' = max_frame /\ entries' = entries
      /\ entry' = entry /\ frame' = frame /\ last_frame' = last_frame /\ answer' = answer
  BY DEF Loaded, bitmapVars
<1>1. TypeOK /\ CountersAgree /\ Progress BY DEF PInv
<1>2. UsableSet' = UsableSet /\ AllocatedSet' = AllocatedSet /\ FreeSet' = FreeSet
  BY <1>0 DEF UsableSet, AllocatedSet, FreeSet
<1>3. TypeOK' BY <1>0, <1>1 DEF TypeOK
<1>4. CountersAgree' BY <1>0, <1>1, <1>2 DEF CountersAgree
<1>5. Progress' BY <1>0 DEF Progress
<1>6. UsableExact'
  <2>1. entries \in Seq(Entry) BY <1>1, MapAssumption DEF TypeOK
  <2>2. DOMAIN entries = 1..entry BY <1>0, <2>1, LenProperties
  <2>3. \A f : f \notin frame..(last_frame - 1) BY <1>0, <1>1, Sizes DEF TypeOK
  <2>4. \A f \in Frames : f \in UsableSet <=> Covered(f)
    BY <1>0, <1>1, <2>3 DEF Progress
  <2>5. UsableSet = {f \in Frames : \E k \in DOMAIN entries : Inside(f, entries[k])}
    BY <2>2, <2>4, Sets DEF Covered
  <2> QED BY <1>0, <1>2, <2>5 DEF UsableExact
<1> QED BY <1>3, <1>4, <1>5, <1>6 DEF PInv

-----------------------------------------------------------------------------
(* allocate and free.                                                      *)

\* The first available bit of the first available word is the lowest free
\* frame, and setting it takes exactly that frame out of the free ones.
LEMMA Handed ==
    ASSUME PInv, AllocateSome
    PROVE  \E f \in FreeSet :
             /\ \A g \in FreeSet : f <= g
             /\ answer' = [frame |-> f, ok |-> TRUE]
             /\ allocated' \in [Words -> SUBSET Bits]
             /\ UsableSet' = UsableSet /\ AllocatedSet' = AllocatedSet \cup {f}
             /\ FreeSet' = FreeSet \ {f}
<1>0. usable \in [Words -> SUBSET Bits] /\ allocated \in [Words -> SUBSET Bits] BY DEF PInv, TypeOK
<1>1. PICK w \in Words :
        /\ Available(w) # {} /\ \A v \in 0..(w - 1) : Available(v) = {}
        /\ allocated' = [allocated EXCEPT ![w] = @ \cup {TrailingZeros(Available(w))}]
        /\ answer' = [frame |-> w * BITS + TrailingZeros(Available(w)), ok |-> TRUE]
  BY DEF AllocateSome
<1> DEFINE bit == TrailingZeros(Available(w))
           f == w * BITS + bit
<1>2. Available(w) \in SUBSET Bits /\ Bits \subseteq Nat BY <1>0, Sizes DEF Available, Bits
<1>3. bit \in Available(w) /\ \A c \in Available(w) : bit <= c
  <2>1. \E b \in Available(w) : \A c \in Available(w) : b <= c BY <1>1, <1>2, Least
  <2> QED BY <2>1 DEF TrailingZeros
<1> HIDE DEF bit
<1>4. bit \in Bits /\ bit \in Nat /\ w \in Nat
  <2>1. bit \in Bits /\ bit \in Nat BY <1>2, <1>3, Zenon
  <2>2. w \in Nat BY Sizes DEF Words
  <2> QED BY <2>1, <2>2
<1>5. f \in Frames /\ Word(f) = w /\ Bit(f) = bit BY <1>4, FrameAt
<1>6. f \in FreeSet BY <1>3, <1>5 DEF FreeSet, UsableSet, AllocatedSet, Available
<1>7. \A g \in FreeSet : f <= g
  <2> SUFFICES ASSUME NEW g \in FreeSet PROVE f <= g OBVIOUS
  <2>1. g \in Frames /\ Bit(g) \in Available(Word(g))
    BY DEF FreeSet, UsableSet, AllocatedSet, Available
  <2>2. Word(g) \in Words /\ Bit(g) \in Bits /\ g = Word(g) * BITS + Bit(g) BY <2>1, Place
  <2>3. Word(g) \in Nat /\ Bit(g) \in Nat /\ bit < BITS BY <1>4, <2>2, Sizes DEF Words, Bits
  <2>4. ~(Word(g) < w)
    <3>1. Word(g) < w => Word(g) \in 0..(w - 1) BY <1>4, <2>3
    <3> QED BY <1>1, <2>1, <3>1
  <2>5. CASE Word(g) = w
    <3>1. bit <= Bit(g) BY <1>3, <2>1, <2>5
    <3>2. w * BITS \in Nat BY <1>4, Sizes
    <3> QED BY <1>4, <2>2, <2>3, <2>5, <3>1, <3>2
  <2>6. CASE w < Word(g)
    <3>1. w * BITS + BITS <= Word(g) * BITS /\ w * BITS \in Int /\ Word(g) * BITS \in Int
      BY <1>4, <2>3, <2>6, Sizes, Product
    <3>2. w * BITS + bit <= Word(g) * BITS + Bit(g) BY <1>4, <2>3, <3>1, Sizes
    <3> QED BY <2>2, <3>2
  <2> QED BY <1>4, <2>3, <2>4, <2>5, <2>6
<1>8. allocated' = [allocated EXCEPT ![Word(f)] = @ \cup {Bit(f)}] BY <1>1, <1>5 DEF bit
<1>9. answer' = [frame |-> f, ok |-> TRUE] BY <1>1 DEF bit
<1> HIDE DEF f
<1>10. allocated' \in [Words -> SUBSET Bits] /\ BitsOf(allocated') = BitsOf(allocated) \cup {f}
  BY <1>0, <1>5, <1>8, SetBit
<1>11. AllocatedSet' = AllocatedSet \cup {f} BY <1>10 DEF AllocatedSet, BitsOf
<1>12. UsableSet' = UsableSet BY DEF AllocateSome, UsableSet
<1>13. FreeSet' = FreeSet \ {f} BY <1>11, <1>12 DEF FreeSet
<1> QED BY <1>6, <1>7, <1>9, <1>10, <1>11, <1>12, <1>13

\* No word has an available bit exactly when no frame is free.
LEMMA NoneFree == (\A w \in Words : Available(w) = {}) => FreeSet = {}
<1> SUFFICES ASSUME \A w \in Words : Available(w) = {}, NEW f \in FreeSet PROVE FALSE OBVIOUS
<1>1. f \in Frames /\ Bit(f) \in Available(Word(f))
  BY DEF FreeSet, UsableSet, AllocatedSet, Available
<1> QED BY <1>1, Place

\* free refuses exactly the numbers of frames that are not out.
LEMMA RefusedExactly ==
    ASSUME NEW n \in Nat
    PROVE  ~Refused(n) <=> n \in UsableSet \ FreeSet
<1>1. n < MAX_FRAMES <=> n \in Frames BY Sizes DEF Frames
<1> QED BY <1>1 DEF Refused, IsUsable, IsAllocated, FreeSet, UsableSet, AllocatedSet

\* A free that is not refused makes exactly that frame free.
LEMMA Returned ==
    ASSUME PInv, NEW n \in Nat, Free(n), ~Refused(n)
    PROVE  /\ allocated' \in [Words -> SUBSET Bits]
           /\ UsableSet' = UsableSet /\ AllocatedSet' = AllocatedSet \ {n}
           /\ FreeSet' = FreeSet \cup {n}
<1>1. n \in UsableSet /\ n \in Frames BY RefusedExactly, Sets
<1>2. allocated' = [allocated EXCEPT ![Word(n)] = @ \ {Bit(n)}] /\ usable' = usable BY DEF Free
<1>3. allocated \in [Words -> SUBSET Bits] BY DEF PInv, TypeOK
<1>4. allocated' \in [Words -> SUBSET Bits] /\ BitsOf(allocated') = BitsOf(allocated) \ {n}
  BY <1>1, <1>2, <1>3, ClearBit
<1>5. AllocatedSet' = AllocatedSet \ {n} BY <1>4 DEF AllocatedSet, BitsOf
<1>6. UsableSet' = UsableSet BY <1>2 DEF UsableSet
<1> QED BY <1>1, <1>4, <1>5, <1>6 DEF FreeSet

\* An allocation lowers free_frames by the one frame it takes: the counter
\* was not zero.
LEMMA KeepsAllocateSome == PInv /\ AllocateSome => PInv'
<1> SUFFICES ASSUME PInv, AllocateSome PROVE PInv' OBVIOUS
<1>0. /\ phase = "ready" /\ free_frames' = free_frames - 1 /\ usable' = usable
      /\ usable_frames' = usable_frames /\ max_frame' = max_frame /\ phase' = phase
      /\ entries' = entries /\ entry' = entry /\ frame' = frame /\ last_frame' = last_frame
  BY DEF AllocateSome, loopVars
<1>1. TypeOK /\ CountersAgree /\ UsableExact BY DEF PInv
<1>2. PICK f \in FreeSet :
        /\ answer' = [frame |-> f, ok |-> TRUE] /\ allocated' \in [Words -> SUBSET Bits]
        /\ UsableSet' = UsableSet /\ AllocatedSet' = AllocatedSet \cup {f}
        /\ FreeSet' = FreeSet \ {f}
  BY Handed
<1>3. Cardinality(FreeSet \ {f}) = Cardinality(FreeSet) - 1
  <2>1. IsFiniteSet(FreeSet) BY Sets, CardFrames
  <2> QED BY <1>2, <2>1, FS_RemoveElement
<1>4. CountersAgree' BY <1>0, <1>1, <1>2, <1>3 DEF CountersAgree
<1>5. TypeOK'
  <2>1. free_frames' \in 0..MAX_FRAMES
    <3>1. FreeSet \ {f} \subseteq Frames BY Sets
    <3> QED BY <1>2, <1>4, <3>1, CardFrames DEF CountersAgree
  <2>2. answer' \in [frame : {-1} \cup Frames \cup Numbers, ok : BOOLEAN] BY <1>2, Sets
  <2> QED BY <1>0, <1>1, <1>2, <2>1, <2>2 DEF TypeOK
<1>6. Progress' BY <1>0 DEF Progress
<1>7. UsableExact' BY <1>0, <1>1, <1>2 DEF UsableExact
<1> QED BY <1>4, <1>5, <1>6, <1>7 DEF PInv

\* A call that changes nothing but the answer.
LEMMA KeepsReady ==
    ASSUME PInv, phase = "ready", UNCHANGED <<bitmapVars, loopVars>>,
           answer' \in [frame : {-1} \cup Frames \cup Numbers, ok : BOOLEAN]
    PROVE  PInv'
<1>0. /\ usable' = usable /\ allocated' = allocated /\ usable_frames' = usable_frames
      /\ free_frames' = free_frames /\ max_frame' = max_frame /\ phase' = phase
      /\ entries' = entries /\ entry' = entry /\ frame' = frame /\ last_frame' = last_frame
  BY DEF bitmapVars, loopVars
<1>1. TypeOK /\ CountersAgree /\ UsableExact BY DEF PInv
<1>2. UsableSet' = UsableSet /\ AllocatedSet' = AllocatedSet /\ FreeSet' = FreeSet
  BY <1>0 DEF UsableSet, AllocatedSet, FreeSet
<1>3. TypeOK' BY <1>0, <1>1 DEF TypeOK
<1>4. CountersAgree' BY <1>0, <1>1, <1>2 DEF CountersAgree
<1>5. Progress' BY <1>0 DEF Progress
<1>6. UsableExact' BY <1>0, <1>1, <1>2 DEF UsableExact
<1> QED BY <1>3, <1>4, <1>5, <1>6 DEF PInv

\* An allocation that finds nothing changes only the answer.
LEMMA KeepsAllocateNone == PInv /\ AllocateNone => PInv'
<1> SUFFICES ASSUME PInv, AllocateNone PROVE PInv' OBVIOUS
<1>1. answer' \in [frame : {-1} \cup Frames \cup Numbers, ok : BOOLEAN] BY DEF AllocateNone
<1> QED BY <1>1, KeepsReady DEF AllocateNone

\* A free, refused or not.
LEMMA KeepsFree == ASSUME NEW n \in Numbers PROVE PInv /\ Free(n) => PInv'
<1> SUFFICES ASSUME PInv, Free(n) PROVE PInv' OBVIOUS
<1>0. n \in Nat BY NumberAssumption
<1>1. answer' \in [frame : {-1} \cup Frames \cup Numbers, ok : BOOLEAN]
  <2>1. answer' = [frame |-> n, ok |-> FALSE] \/ answer' = [frame |-> n, ok |-> TRUE] BY DEF Free
  <2>2. n \in {-1} \cup Frames \cup Numbers OBVIOUS
  <2>3. \A ok \in BOOLEAN :
          [frame |-> n, ok |-> ok] \in [frame : {-1} \cup Frames \cup Numbers, ok : BOOLEAN]
    BY <2>2, Zenon
  <2> QED BY <2>1, <2>3, Zenon
<1>2. CASE Refused(n) BY <1>1, <1>2, KeepsReady DEF Free
<1>3. CASE ~Refused(n)
  <2>0. /\ phase = "ready" /\ free_frames' = free_frames + 1 /\ usable' = usable
        /\ usable_frames' = usable_frames /\ max_frame' = max_frame /\ phase' = phase
        /\ entries' = entries /\ entry' = entry /\ frame' = frame /\ last_frame' = last_frame
    BY <1>3 DEF Free, loopVars
  <2>1. TypeOK /\ CountersAgree /\ UsableExact BY DEF PInv
  <2>2. /\ allocated' \in [Words -> SUBSET Bits]
        /\ UsableSet' = UsableSet /\ AllocatedSet' = AllocatedSet \ {n}
        /\ FreeSet' = FreeSet \cup {n}
    BY <1>0, <1>3, Returned
  <2>3. n \in UsableSet /\ n \notin FreeSet BY <1>0, <1>3, RefusedExactly
  <2>4. Cardinality(FreeSet \cup {n}) = Cardinality(FreeSet) + 1
    <3>1. IsFiniteSet(FreeSet) BY Sets, CardFrames
    <3> QED BY <2>3, <3>1, FS_AddElement
  <2>5. CountersAgree' BY <2>0, <2>1, <2>2, <2>3, <2>4 DEF CountersAgree
  <2>6. free_frames' \in 0..MAX_FRAMES
    <3>1. FreeSet \cup {n} \subseteq Frames BY <2>3, Sets
    <3> QED BY <2>2, <2>5, <3>1, CardFrames DEF CountersAgree
  <2>7. TypeOK' BY <1>1, <2>0, <2>1, <2>2, <2>6 DEF TypeOK
  <2>8. Progress' BY <2>0 DEF Progress
  <2>9. UsableExact' BY <2>0, <2>1, <2>2 DEF UsableExact
  <2> QED BY <2>5, <2>7, <2>8, <2>9 DEF PInv
<1> QED BY <1>2, <1>3

\* Every step keeps the invariant.
LEMMA NextPInv == PInv /\ [Next]_vars => PInv'
<1> SUFFICES ASSUME PInv, [Next]_vars PROVE PInv' OBVIOUS
<1>1. CASE Next
  BY <1>1, KeepsInitialize, KeepsNextEntry, KeepsMarkUsable, KeepsLoaded, KeepsAllocateSome,
     KeepsAllocateNone, KeepsFree DEF Next
<1>2. CASE UNCHANGED vars
  <2>1. /\ usable' = usable /\ allocated' = allocated /\ usable_frames' = usable_frames
        /\ free_frames' = free_frames /\ max_frame' = max_frame /\ phase' = phase
        /\ entries' = entries /\ entry' = entry /\ frame' = frame /\ last_frame' = last_frame
        /\ answer' = answer
    BY <1>2 DEF vars, bitmapVars, loopVars
  <2>2. UsableSet' = UsableSet /\ AllocatedSet' = AllocatedSet /\ FreeSet' = FreeSet
    BY <2>1 DEF UsableSet, AllocatedSet, FreeSet
  <2>3. \A f : Covered(f)' <=> Covered(f) BY <2>1 DEF Covered
  <2>4. TypeOK' BY <2>1 DEF PInv, TypeOK
  <2>5. CountersAgree' BY <2>1, <2>2 DEF PInv, CountersAgree
  <2>6. Progress' BY <2>1, <2>2, <2>3 DEF PInv, Progress
  <2>7. UsableExact' BY <2>1, <2>2 DEF PInv, UsableExact
  <2> QED BY <2>4, <2>5, <2>6, <2>7 DEF PInv
<1> QED BY <1>1, <1>2

-----------------------------------------------------------------------------
(* The theorems.                                                           *)

(***************************************************************************)
(* PInv holds in every reachable state: TypeOK, the counters, how far      *)
(* initialize has come and what it has marked when it is done.             *)
(***************************************************************************)
THEOREM PmmInvariant == Spec => []PInv
BY InitPInv, NextPInv, PTL DEF Spec

(***************************************************************************)
(* The bitmaps, the counters and initialize's loop variables stay in their *)
(* ranges: no word index is out of bounds and no counter wraps.            *)
(***************************************************************************)
THEOREM PmmTypeOK == Spec => []TypeOK
<1>1. PInv => TypeOK BY DEF PInv
<1> QED BY <1>1, PmmInvariant, PTL

(***************************************************************************)
(* usable_frames, free_frames and max_frame agree with the bitmaps through *)
(* every overlap of the memory map and every sequence of allocate_frame    *)
(* and free_frame.                                                         *)
(***************************************************************************)
THEOREM PmmCountersAgree == Spec => []CountersAgree
<1>1. PInv => CountersAgree BY DEF PInv
<1> QED BY <1>1, PmmInvariant, PTL

(***************************************************************************)
(* initialize's rounding, clipping and overflow checks admit exactly the   *)
(* frames that lie wholly inside one USABLE entry.                         *)
(***************************************************************************)
THEOREM PmmUsableExact == Spec => []UsableExact
<1>1. PInv => UsableExact BY DEF PInv
<1> QED BY <1>1, PmmInvariant, PTL

-----------------------------------------------------------------------------
(* The abstract allocator.                                                 *)

\* Every step of the bitmaps is a step of the abstract allocator, or one it
\* does not see.
LEMMA StepRefines ==
    PInv /\ [Next]_vars => [Abstract!AllocatorNext(Frames, Numbers)]_(Abstract!allocatorVars)
<1> SUFFICES ASSUME PInv, [Next]_vars
             PROVE  [Abstract!AllocatorNext(Frames, Numbers)]_(Abstract!allocatorVars)
  OBVIOUS
<1>0. ASSUME phase' # "ready", phase # "ready", answer' = answer
      PROVE  UNCHANGED Abstract!allocatorVars
  BY <1>0 DEF Abstract!allocatorVars
<1>1. CASE Initialize BY <1>0, <1>1 DEF Initialize
<1>2. CASE NextEntry BY <1>0, <1>2 DEF NextEntry
<1>3. CASE MarkUsable BY <1>0, <1>3 DEF MarkUsable
<1>4. CASE Loaded
  <2>1. phase = "loading" /\ phase' = "ready" /\ answer' = answer BY <1>4 DEF Loaded
  <2>2. UsableSet' = UsableSet /\ FreeSet' = FreeSet
    BY <1>4 DEF Loaded, bitmapVars, UsableSet, AllocatedSet, FreeSet
  <2>3. FreeSet = UsableSet BY <2>1 DEF PInv, Progress
  <2>4. UsableSet \in SUBSET Frames BY Sets
  <2>5. Abstract!Initialize(UsableSet) BY <2>1, <2>2, <2>3 DEF Abstract!Initialize
  <2> QED BY <2>4, <2>5 DEF Abstract!AllocatorNext
<1>5. CASE AllocateSome
  <2>1. phase = "ready" /\ phase' = "ready" BY <1>5 DEF AllocateSome, loopVars
  <2>2. PICK f \in FreeSet :
          /\ (\A g \in FreeSet : f <= g) /\ answer' = [frame |-> f, ok |-> TRUE]
          /\ UsableSet' = UsableSet /\ FreeSet' = FreeSet \ {f}
    BY <1>5, Handed
  <2>3. Abstract!Lowest(f) BY <2>1, <2>2 DEF Abstract!Lowest
  <2>4. Abstract!Allocate BY <2>1, <2>2, <2>3 DEF Abstract!Allocate
  <2> QED BY <2>4 DEF Abstract!AllocatorNext
<1>6. CASE AllocateNone
  <2>1. phase = "ready" /\ phase' = "ready" /\ answer' = [frame |-> -1, ok |-> FALSE]
    BY <1>6 DEF AllocateNone, loopVars
  <2>2. UsableSet' = UsableSet /\ FreeSet' = FreeSet
    BY <1>6 DEF AllocateNone, bitmapVars, UsableSet, AllocatedSet, FreeSet
  <2>3. FreeSet = {} BY <1>6, NoneFree DEF AllocateNone
  <2>4. Abstract!Allocate BY <2>1, <2>2, <2>3 DEF Abstract!Allocate, Abstract!NoFrame
  <2> QED BY <2>4 DEF Abstract!AllocatorNext
<1>7. CASE \E n \in Numbers : Free(n)
  <2>0. PICK n \in Numbers : Free(n) BY <1>7
  <2>1. phase = "ready" /\ phase' = "ready" BY <2>0 DEF Free, loopVars
  <2>2. n \in Nat BY NumberAssumption
  <2>3. Abstract!Freeable(n) <=> ~Refused(n)
    BY <2>1, <2>2, RefusedExactly DEF Abstract!Freeable
  <2>4. CASE Refused(n)
    <3>1. UsableSet' = UsableSet /\ FreeSet' = FreeSet /\ answer' = [frame |-> n, ok |-> FALSE]
      BY <2>0, <2>4 DEF Free, bitmapVars, UsableSet, AllocatedSet, FreeSet
    <3>2. Abstract!Freeable(n) = FALSE BY <2>3, <2>4 DEF Abstract!Freeable
    <3>3. Abstract!Free(n) BY <2>1, <3>1, <3>2 DEF Abstract!Free
    <3> QED BY <3>3 DEF Abstract!AllocatorNext
  <2>5. CASE ~Refused(n)
    <3>1. UsableSet' = UsableSet /\ FreeSet' = FreeSet \cup {n} BY <2>0, <2>2, <2>5, Returned
    <3>2. answer' = [frame |-> n, ok |-> TRUE] BY <2>0, <2>5 DEF Free
    <3>3. Abstract!Free(n) BY <2>1, <2>3, <2>5, <3>1, <3>2 DEF Abstract!Free
    <3> QED BY <3>3 DEF Abstract!AllocatorNext
  <2> QED BY <2>4, <2>5
<1>8. CASE UNCHANGED vars
  BY <1>8 DEF vars, bitmapVars, loopVars, Abstract!allocatorVars, UsableSet, AllocatedSet, FreeSet
<1> QED BY <1>1, <1>2, <1>3, <1>4, <1>5, <1>6, <1>7, <1>8 DEF Next

(***************************************************************************)
(* The bitmaps implement FrameAllocator: allocate_frame hands out the      *)
(* lowest free frame and None only when there is none, and free_frame      *)
(* succeeds exactly on a frame that is out.                                *)
(***************************************************************************)
THEOREM PmmImplementsAllocator == Spec => AllocatorSafety
<1>1. Init => Abstract!AllocatorInit
  BY DEF Init, Abstract!AllocatorInit, Abstract!NoFrame
<1> QED BY <1>1, StepRefines, PmmInvariant, PTL DEF Spec, AllocatorSafety
=============================================================================
