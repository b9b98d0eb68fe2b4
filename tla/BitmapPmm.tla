------------------------------ MODULE BitmapPmm ------------------------------
(***************************************************************************)
(* pmm.rs's BitmapPmm: two bitmaps of BITMAP_WORDS words and three         *)
(* counters.  A word is the set of its 1 bits.  initialize runs its two    *)
(* loops a step at a time; allocate and free are one step each, as their   *)
(* callers never overlap (Kernel's NoDataRace).                            *)
(***************************************************************************)
EXTENDS Integers, Sequences, FiniteSets

CONSTANTS
    BITS,          \* bits of a bitmap word (64)
    BITMAP_WORDS,  \* words of a bitmap (16384)
    FRAME_SIZE,    \* bytes of a frame (4096)
    ADDR,          \* number of values of a u64
    MemoryMaps,    \* the memory maps Limine may hand over
    Numbers        \* frame numbers a caller may try to free

MAX_FRAMES == BITS * BITMAP_WORDS
MAX_PHYSICAL_ADDRESS == MAX_FRAMES * FRAME_SIZE

Words == 0..(BITMAP_WORDS - 1)
Bits == 0..(BITS - 1)
Frames == 0..(MAX_FRAMES - 1)
Entry == [base : 0..(ADDR - 1), length : 0..(ADDR - 1), usable : BOOLEAN]

ASSUME SizeAssumption ==
    /\ BITS \in Nat \ {0} /\ BITMAP_WORDS \in Nat \ {0} /\ FRAME_SIZE \in Nat \ {0}
    /\ ADDR \in Nat /\ MAX_PHYSICAL_ADDRESS + FRAME_SIZE <= ADDR
ASSUME MapAssumption == MemoryMaps \subseteq Seq(Entry)
ASSUME NumberAssumption == Numbers \subseteq Nat

VARIABLES
    usable, allocated,                       \* the bitmaps
    usable_frames, free_frames, max_frame,   \* the counters
    phase,                                   \* "boot", "loading", "ready"
    entries,                                 \* initialize's argument
    entry, frame, last_frame,                \* its loop variables
    answer                                   \* what the last call returned

bitmapVars == <<usable, allocated, usable_frames, free_frames, max_frame>>
loopVars == <<phase, entries, entry, frame, last_frame>>
vars == <<bitmapVars, loopVars, answer>>

Word(f) == f \div BITS
Bit(f) == f % BITS
IsUsable(f) == f < MAX_FRAMES /\ Bit(f) \in usable[Word(f)]
IsAllocated(f) == Bit(f) \in allocated[Word(f)]

New ==
    /\ usable = [w \in Words |-> {}] /\ allocated = [w \in Words |-> Bits]
    /\ usable_frames = 0 /\ free_frames = 0 /\ max_frame = 0

Init ==
    /\ New
    /\ phase = "boot" /\ entries \in MemoryMaps
    /\ entry = 0 /\ frame = 0 /\ last_frame = 0
    /\ answer = [frame |-> -1, ok |-> FALSE]

-----------------------------------------------------------------------------
(* initialize                                                              *)

Initialize ==
    /\ phase = "boot"
    /\ usable' = [w \in Words |-> {}] /\ allocated' = [w \in Words |-> Bits]
    /\ usable_frames' = 0 /\ free_frames' = 0 /\ max_frame' = 0
    /\ phase' = "loading" /\ entry' = 0 /\ frame' = 0 /\ last_frame' = 0
    /\ UNCHANGED <<entries, answer>>

\* Mutant: the start is rounded down.
TruncatedStart(e) == (e.base \div FRAME_SIZE) * FRAME_SIZE

\* Mutant: no min with MAX_PHYSICAL_ADDRESS.
UnclippedEnd(e) == e.base + e.length

\* The frames first_frame..last_frame of an entry; none when it is skipped.
RoundedStart(e) == ((e.base + FRAME_SIZE - 1) \div FRAME_SIZE) * FRAME_SIZE
ClippedEnd(e) ==
    LET end == e.base + e.length
    IN  IF end <= MAX_PHYSICAL_ADDRESS THEN end ELSE MAX_PHYSICAL_ADDRESS
Accepted(e) ==
    /\ e.usable
    /\ e.base + (FRAME_SIZE - 1) < ADDR  \* checked_add
    /\ e.base + e.length < ADDR          \* checked_add
    /\ RoundedStart(e) < ClippedEnd(e)

NextEntry ==
    /\ phase = "loading" /\ frame >= last_frame /\ entry < Len(entries)
    /\ entry' = entry + 1
    /\ LET e == entries[entry'] IN
         IF Accepted(e)
         THEN /\ frame' = RoundedStart(e) \div FRAME_SIZE
              /\ last_frame' = ClippedEnd(e) \div FRAME_SIZE
         ELSE UNCHANGED <<frame, last_frame>>
    /\ UNCHANGED <<bitmapVars, phase, entries, answer>>

\* Mutant: a frame that two entries share is marked twice.
SkippedTwice(f) == f >= MAX_FRAMES

\* mark_usable's early return.
Skipped(f) == f >= MAX_FRAMES \/ IsUsable(f)

MarkUsable ==
    /\ phase = "loading" /\ frame < last_frame
    /\ IF Skipped(frame)
       THEN UNCHANGED bitmapVars
       ELSE /\ usable' = [usable EXCEPT ![Word(frame)] = @ \cup {Bit(frame)}]
            /\ allocated' = [allocated EXCEPT ![Word(frame)] = @ \ {Bit(frame)}]
            /\ usable_frames' = usable_frames + 1
            /\ free_frames' = free_frames + 1
            /\ max_frame' = IF max_frame >= frame + 1 THEN max_frame ELSE frame + 1
    /\ frame' = frame + 1
    /\ UNCHANGED <<phase, entries, entry, last_frame, answer>>

Loaded ==
    /\ phase = "loading" /\ frame >= last_frame /\ entry = Len(entries)
    /\ phase' = "ready"
    /\ UNCHANGED <<bitmapVars, entries, entry, frame, last_frame, answer>>

-----------------------------------------------------------------------------
(* allocate and free                                                       *)

Available(w) == usable[w] \ allocated[w]
TrailingZeros(word) == CHOOSE b \in word : \A c \in word : b <= c

\* The first word with an available bit, and its lowest available bit.
AllocateSome ==
    /\ phase = "ready"
    /\ \E w \in Words :
         /\ Available(w) # {}
         /\ \A v \in 0..(w - 1) : Available(v) = {}
         /\ LET bit == TrailingZeros(Available(w)) IN
              /\ allocated' = [allocated EXCEPT ![w] = @ \cup {bit}]
              /\ answer' = [frame |-> w * BITS + bit, ok |-> TRUE]
    /\ free_frames' = free_frames - 1
    /\ UNCHANGED <<usable, usable_frames, max_frame, loopVars>>

AllocateNone ==
    /\ phase = "ready"
    /\ \A w \in Words : Available(w) = {}
    /\ answer' = [frame |-> -1, ok |-> FALSE]
    /\ UNCHANGED <<bitmapVars, loopVars>>

\* Mutant: free asks only whether the frame is usable.
RefusedUsable(number) == ~IsUsable(number)

\* free's early return.
Refused(number) == ~IsUsable(number) \/ ~IsAllocated(number)

Free(number) ==
    /\ phase = "ready"
    /\ IF Refused(number)
       THEN /\ answer' = [frame |-> number, ok |-> FALSE]
            /\ UNCHANGED bitmapVars
       ELSE /\ answer' = [frame |-> number, ok |-> TRUE]
            /\ allocated' = [allocated EXCEPT ![Word(number)] = @ \ {Bit(number)}]
            /\ free_frames' = free_frames + 1
            /\ UNCHANGED <<usable, usable_frames, max_frame>>
    /\ UNCHANGED loopVars

Next ==
    \/ Initialize \/ NextEntry \/ MarkUsable \/ Loaded
    \/ AllocateSome \/ AllocateNone
    \/ \E number \in Numbers : Free(number)

Spec == Init /\ [][Next]_vars

-----------------------------------------------------------------------------
(* What the state means.                                                   *)

UsableSet == {f \in Frames : Bit(f) \in usable[Word(f)]}
AllocatedSet == {f \in Frames : Bit(f) \in allocated[Word(f)]}
FreeSet == UsableSet \ AllocatedSet

\* Frame f lies wholly inside the USABLE entry e, which does not wrap around.
Inside(f, e) ==
    /\ e.usable /\ e.base + e.length < ADDR
    /\ e.base <= f * FRAME_SIZE
    /\ (f + 1) * FRAME_SIZE <= e.base + e.length

(***************************************************************************)
(* Type invariant of the bitmaps, the counters and initialize's loops.     *)
(***************************************************************************)
TypeOK ==
    /\ usable \in [Words -> SUBSET Bits] /\ allocated \in [Words -> SUBSET Bits]
    /\ usable_frames \in 0..MAX_FRAMES /\ free_frames \in 0..MAX_FRAMES
    /\ max_frame \in 0..MAX_FRAMES
    /\ phase \in {"boot", "loading", "ready"}
    /\ entries \in MemoryMaps /\ entry \in 0..Len(entries)
    /\ frame \in 0..MAX_FRAMES /\ last_frame \in 0..MAX_FRAMES
    /\ answer \in [frame : {-1} \cup Frames \cup Numbers, ok : BOOLEAN]

(***************************************************************************)
(* The counters count: usable_frames, free_frames and max_frame agree with *)
(* the bitmaps whatever overlaps in the memory map and whatever sequence   *)
(* of allocations, frees and refused frees follows; free_frames -= 1 never *)
(* underflows.  A frame that is not usable always counts as allocated      *)
(* ("all other regions stay allocated or reserved", README.md).            *)
(***************************************************************************)
CountersAgree ==
    /\ usable_frames = Cardinality(UsableSet)
    /\ free_frames = Cardinality(FreeSet)
    /\ \A f \in UsableSet : f < max_frame
    /\ max_frame # 0 => max_frame - 1 \in UsableSet
    /\ Frames \ UsableSet \subseteq AllocatedSet

(***************************************************************************)
(* initialize marks exactly the frames below the limit that lie wholly     *)
(* inside one USABLE entry: rounding, clipping and the overflow checks     *)
(* neither lose a frame nor admit one that is partly reserved.             *)
(***************************************************************************)
UsableExact ==
    phase = "ready" =>
        UsableSet = {f \in Frames : \E k \in DOMAIN entries : Inside(f, entries[k])}

(***************************************************************************)
(* The bitmaps implement the abstract allocator: lowest free frame first,  *)
(* none handed out twice, None only when nothing is free, and a free that  *)
(* succeeds exactly on a frame that is out.                                *)
(***************************************************************************)
Abstract == INSTANCE FrameAllocator
                WITH usable <- IF phase = "ready" THEN UsableSet ELSE {},
                     free <- IF phase = "ready" THEN FreeSet ELSE {}

AllocatorSafety ==
    /\ Abstract!AllocatorInit
    /\ [][Abstract!AllocatorNext(Frames, Numbers)]_(Abstract!allocatorVars)

=============================================================================
