----------------------------- MODULE BoundedFifo -----------------------------
(***************************************************************************)
(* What cell-queue promises its two users: a FIFO of at most CAP items     *)
(* that hands every item over exactly once, in order.                      *)
(*                                                                         *)
(* The two ends learn of each other's progress late: `freed` counts the    *)
(* removed items whose room the producer has not noticed yet, `fresh` the  *)
(* added items the consumer has not noticed yet.  Both only delay a call   *)
(* (push says QueueFull, pop says None); neither loses an item.            *)
(***************************************************************************)
EXTENDS Naturals, Sequences

CONSTANTS CAP, Items

VARIABLES
    q,      \* the items inside, oldest first
    freed,  \* removals the producer has not noticed
    fresh,  \* additions the consumer has not noticed
    out     \* the item handed out last

fifoVars == <<q, freed, fresh, out>>

FifoInit(none) == q = <<>> /\ freed = 0 /\ fresh = 0 /\ out = none

Enqueue(item) ==
    /\ Len(q) + freed < CAP
    /\ q' = Append(q, item)
    /\ fresh' = fresh + 1
    /\ UNCHANGED <<freed, out>>

Dequeue ==
    /\ fresh < Len(q)
    /\ out' = Head(q)
    /\ q' = Tail(q)
    /\ freed' = freed + 1
    /\ UNCHANGED fresh

NoticeFreed == freed' \in 0..(freed - 1) /\ UNCHANGED <<q, fresh, out>>

NoticeFresh == fresh' \in 0..(fresh - 1) /\ UNCHANGED <<q, freed, out>>

\* Both ends synchronise at once: what the exclusive borrow of drop gives.
NoticeAll == freed' = 0 /\ fresh' = 0 /\ UNCHANGED <<q, out>>

FifoNext ==
    \/ \E item \in Items : Enqueue(item)
    \/ Dequeue
    \/ NoticeFreed
    \/ NoticeFresh
    \/ NoticeAll

=============================================================================
