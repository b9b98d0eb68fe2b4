--------------------------- MODULE FrameAllocator ---------------------------
(***************************************************************************)
(* What pmm.rs promises its callers: a set of usable frames, of which the  *)
(* free ones are handed out lowest first, each to one owner at a time.     *)
(***************************************************************************)
EXTENDS Integers

VARIABLES
    usable,  \* frames wholly inside USABLE memory
    free,    \* usable frames nobody owns
    answer   \* what the last call returned: [frame, ok]

allocatorVars == <<usable, free, answer>>

NoFrame == -1

\* Before initialize every frame counts as allocated.
AllocatorInit ==
    usable = {} /\ free = {} /\ answer = [frame |-> NoFrame, ok |-> FALSE]

Initialize(frames) == usable' = frames /\ free' = frames /\ UNCHANGED answer

Lowest(f) == f \in free /\ \A g \in free : f <= g

\* allocate_frame: Some(lowest free frame), or None when there is none.
Allocate ==
    /\ IF free = {}
       THEN answer' = [frame |-> NoFrame, ok |-> FALSE] /\ UNCHANGED free
       ELSE \E f \in free : /\ Lowest(f)
                            /\ answer' = [frame |-> f, ok |-> TRUE]
                            /\ free' = free \ {f}
    /\ UNCHANGED usable

Freeable(f) == f \in usable \ free

\* Mutant: free_frame reports success and clears no bit.
FreeForgotten(f) ==
    answer' = [frame |-> f, ok |-> TRUE] /\ UNCHANGED <<usable, free>>

\* free_frame(f): a frame that is reserved or already free stays as it is.
Free(f) ==
    /\ answer' = [frame |-> f, ok |-> Freeable(f)]
    /\ free' = IF Freeable(f) THEN free \cup {f} ELSE free
    /\ UNCHANGED usable

AllocatorNext(Frames, Numbers) ==
    \/ \E S \in SUBSET Frames : Initialize(S)
    \/ Allocate
    \/ \E f \in Numbers : Free(f)

=============================================================================
