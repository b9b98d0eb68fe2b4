------------------------------ MODULE SpscQueue ------------------------------
(***************************************************************************)
(* cell-queue's SpscQueue<T, CAP>: a ring of CAP slots, a `head` counter   *)
(* stored only by the producer and a `tail` counter stored only by the     *)
(* consumer.  Both counters are usize and wrap at WORD (2^64 in the code). *)
(*                                                                         *)
(* Memory.  Each counter has one writer, so its modification order is that *)
(* writer's program order.  The variable `head` (`tail`) holds the stores  *)
(* the OTHER side may still read, oldest first: the first one is what that *)
(* side read last (coherence forbids going back), the last one is the      *)
(* newest.  A load by the other side returns any of them.  A store carries *)
(* `hb`, the set of slots whose latest access by the storing side is       *)
(* ordered before a load that acquires it; the Release stores of the code  *)
(* carry every slot.  pHB (cHB) is the set of slots whose latest read by   *)
(* the consumer (write by the producer) happens before the producer's      *)
(* (consumer's) next step.  Touching a slot outside that set is a data     *)
(* race, and a racing read returns anything.                               *)
(***************************************************************************)
EXTENDS Integers, Sequences

CONSTANTS
    CAP,    \* the const parameter CAP
    WORD,   \* number of values of a usize
    Items,  \* values of type T
    Uninit  \* contents of a MaybeUninit slot that was never written

\* push_inner and pop_inner assert CAP > 0; a usize holds CAP.
ASSUME CapAssumption == CAP \in Nat \ {0} /\ WORD \in Nat /\ CAP < WORD
ASSUME UninitAssumption == Uninit \notin Items

VARIABLES
    head,    \* stores to `head` the consumer may still read
    tail,    \* stores to `tail` the producer may still read
    buffer,  \* the slots
    pHB,     \* slots whose latest read happens before the producer's next step
    cHB,     \* slots whose latest write happens before the consumer's next step
    ppc,     \* producer: "idle", "write", "store", or "gone" once drop has begun
    phead,   \* push_inner's local `head`
    pitem,   \* push_inner's argument
    proom,   \* is_full() said false to the producer, who has not pushed since
    cpc,     \* consumer: "idle", "read", "store", or "gone" once drop has ended
    ctail,   \* pop_inner's local `tail`
    citem,   \* pop_inner's local `item`
    csome,   \* is_empty() said false to the consumer, who has not popped since
    out      \* the item the last successful pop returned

memVars == <<head, tail, buffer, pHB, cHB>>
prodVars == <<ppc, phead, pitem, proom>>
consVars == <<cpc, ctail, citem, csome, out>>
vars == <<memVars, prodVars, consVars>>

Word == 0..(WORD - 1)
Slots == 0..(CAP - 1)
Store == [val : Word, hb : SUBSET Slots]

WrappingAdd(a, k) == (a + k) % WORD
WrappingSub(a, b) == (a - b) % WORD
Index(a) == a % CAP

-----------------------------------------------------------------------------
(* Atomics: a single-writer location seen by one reader.                   *)

Newest(log) == log[Len(log)].val
\* Mutant: Ordering::Relaxed on a store.
StoreRelaxed(log, val) == Append(log, [val |-> val, hb |-> {}])

StoreRelease(log, val) == Append(log, [val |-> val, hb |-> Slots])
LoadFrom(log, i) == SubSeq(log, i, Len(log))
LoadAcquire(view, log, i) == view \cup log[i].hb
\* A new access to slot s is not ordered before loads of the stores made so far.
Unordered(log, s) == [i \in DOMAIN log |-> [log[i] EXCEPT !.hb = @ \ {s}]]

-----------------------------------------------------------------------------
(* new                                                                     *)

Init ==
    /\ head = <<[val |-> 0, hb |-> Slots]>>
    /\ tail = <<[val |-> 0, hb |-> Slots]>>
    /\ buffer = [s \in Slots |-> Uninit]
    /\ pHB = Slots /\ cHB = Slots
    /\ ppc = "idle" /\ phead = 0 /\ pitem = Uninit /\ proom = FALSE
    /\ cpc = "idle" /\ ctail = 0 /\ citem = Uninit /\ csome = FALSE
    /\ out = Uninit

-----------------------------------------------------------------------------
(* The producer: push, and is_full before it.                              *)

\* The producer loads its own head and some visible store i to tail.
ProducerLoads(i) ==
    /\ ppc = "idle"
    /\ tail' = LoadFrom(tail, i)
    /\ pHB' = LoadAcquire(pHB, tail, i)
    /\ UNCHANGED <<head, buffer, cHB, consVars>>

\* Mutant: the queue counts as full one item late.
FullLateAt(i) == WrappingSub(Newest(head), tail[i].val) = CAP + 1

FullAt(i) == WrappingSub(Newest(head), tail[i].val) = CAP

PushFull(i) ==
    /\ ProducerLoads(i)
    /\ FullAt(i)
    /\ UNCHANGED prodVars

PushLoad(i, item) ==
    /\ ProducerLoads(i)
    /\ ~FullAt(i)
    /\ ppc' = "write" /\ phead' = Newest(head) /\ pitem' = item
    /\ UNCHANGED proom

PushWrite ==
    /\ ppc = "write"
    /\ buffer' = [buffer EXCEPT ![Index(phead)] = pitem]
    /\ head' = Unordered(head, Index(phead))
    /\ cHB' = cHB \ {Index(phead)}
    /\ ppc' = "store"
    /\ UNCHANGED <<tail, pHB, phead, pitem, proom, consVars>>

PushStore ==
    /\ ppc = "store"
    /\ head' = StoreRelease(head, WrappingAdd(phead, 1))
    /\ ppc' = "idle" /\ proom' = FALSE
    /\ UNCHANGED <<tail, buffer, pHB, cHB, phead, pitem, consVars>>

\* Mutant: is_full compares with CAP + 1.
IsFullLate(i) ==
    /\ ProducerLoads(i)
    /\ proom' = (WrappingSub(Newest(head), tail[i].val) # CAP + 1)
    /\ UNCHANGED <<ppc, phead, pitem>>

IsFull(i) ==
    /\ ProducerLoads(i)
    /\ proom' = ~FullAt(i)
    /\ UNCHANGED <<ppc, phead, pitem>>

-----------------------------------------------------------------------------
(* The consumer: pop, is_empty before it, and drop.                        *)

\* The consumer loads its own tail and some visible store j to head.
ConsumerLoads(j) ==
    /\ cpc = "idle"
    /\ head' = LoadFrom(head, j)
    /\ cHB' = LoadAcquire(cHB, head, j)
    /\ UNCHANGED <<tail, buffer, pHB, prodVars>>

EmptyAt(j) == Newest(tail) = head[j].val

\* None: an ordinary pop returns, drop's loop ends.
PopEmpty(j) ==
    /\ ConsumerLoads(j)
    /\ EmptyAt(j)
    /\ cpc' = IF ppc = "gone" THEN "gone" ELSE "idle"
    /\ UNCHANGED <<ctail, citem, csome, out>>

PopLoad(j) ==
    /\ ConsumerLoads(j)
    /\ ~EmptyAt(j)
    /\ cpc' = "read" /\ ctail' = Newest(tail)
    /\ UNCHANGED <<citem, csome, out>>

PopRead ==
    /\ cpc = "read"
    /\ citem' \in IF Index(ctail) \in cHB THEN {buffer[Index(ctail)]}
                  ELSE Items \cup {Uninit}
    /\ tail' = Unordered(tail, Index(ctail))
    /\ pHB' = pHB \ {Index(ctail)}
    /\ cpc' = "store"
    /\ UNCHANGED <<head, buffer, cHB, prodVars, ctail, csome, out>>

\* Mutant: drop pops one item instead of looping.
PopStoreOnce ==
    /\ cpc = "store"
    /\ tail' = StoreRelease(tail, WrappingAdd(ctail, 1))
    /\ out' = citem
    /\ cpc' = (IF ppc = "gone" THEN "gone" ELSE "idle") /\ csome' = FALSE
    /\ UNCHANGED <<head, buffer, pHB, cHB, prodVars, ctail, citem>>

\* Mutant: pop forgets to store tail.
PopStoreForgotten ==
    /\ cpc = "store"
    /\ out' = citem
    /\ cpc' = "idle" /\ csome' = FALSE
    /\ UNCHANGED <<memVars, prodVars, ctail, citem>>

PopStore ==
    /\ cpc = "store"
    /\ tail' = StoreRelease(tail, WrappingAdd(ctail, 1))
    /\ out' = citem
    /\ cpc' = "idle" /\ csome' = FALSE
    /\ UNCHANGED <<head, buffer, pHB, cHB, prodVars, ctail, citem>>

IsEmpty(j) ==
    /\ ppc # "gone"
    /\ ConsumerLoads(j)
    /\ csome' = ~EmptyAt(j)
    /\ UNCHANGED <<cpc, ctail, citem, out>>

\* drop(&mut self): no handle is left, and whatever ended their borrows
\* (a join, the last Arc) ordered every access of both sides before it.
Drop ==
    /\ ppc = "idle" /\ cpc = "idle"
    /\ head' = LoadFrom(head, Len(head))
    /\ tail' = LoadFrom(tail, Len(tail))
    /\ pHB' = Slots /\ cHB' = Slots
    /\ ppc' = "gone"
    /\ UNCHANGED <<buffer, phead, pitem, proom, consVars>>

-----------------------------------------------------------------------------

ProducerStep ==
    \/ \E i \in DOMAIN tail : PushFull(i)
    \/ \E i \in DOMAIN tail, item \in Items : PushLoad(i, item)
    \/ PushWrite
    \/ PushStore
    \/ \E i \in DOMAIN tail : IsFull(i)

PopStep ==
    \/ \E j \in DOMAIN head : PopEmpty(j)
    \/ \E j \in DOMAIN head : PopLoad(j)
    \/ PopRead
    \/ PopStore

Dropped == ppc = "gone" /\ cpc = "gone" /\ UNCHANGED vars

Next ==
    \/ ProducerStep
    \/ PopStep
    \/ \E j \in DOMAIN head : IsEmpty(j)
    \/ Drop
    \/ Dropped

Spec == Init /\ [][Next]_vars

\* The thread that drops the queue keeps running; callers may stop any time.
FairSpec == Spec /\ WF_vars(ppc = "gone" /\ PopStep)

-----------------------------------------------------------------------------
(* What the state means.                                                   *)

H == Newest(head)
T == Newest(tail)
Occupancy == WrappingSub(H, T)
\* Pops the producer, and pushes the consumer, has not seen yet.
Freed == WrappingSub(T, tail[1].val)
Fresh == WrappingSub(H, head[1].val)
Contents == [k \in 1..Occupancy |-> buffer[Index(WrappingAdd(T, k - 1))]]

(***************************************************************************)
(* Type invariant of the queue's memory and of the locals of push and pop. *)
(***************************************************************************)
TypeOK ==
    /\ head \in Seq(Store) /\ head # <<>>
    /\ tail \in Seq(Store) /\ tail # <<>>
    /\ buffer \in [Slots -> Items \cup {Uninit}]
    /\ pHB \in SUBSET Slots /\ cHB \in SUBSET Slots
    /\ ppc \in {"idle", "write", "store", "gone"}
    /\ phead \in Word /\ pitem \in Items \cup {Uninit} /\ proom \in BOOLEAN
    /\ cpc \in {"idle", "read", "store", "gone"}
    /\ ctail \in Word /\ citem \in Items \cup {Uninit} /\ csome \in BOOLEAN
    /\ out \in Items \cup {Uninit}

(***************************************************************************)
(* The two unsafe blocks are free of data races, which their SAFETY        *)
(* comments claim: the slot push_inner is about to write was last read     *)
(* before, and the slot pop_inner is about to read was last written before,*)
(* in the happens-before order the Acquire loads and Release stores build. *)
(***************************************************************************)
NoDataRace ==
    /\ ppc = "write" => Index(phead) \in pHB
    /\ cpc = "read" => Index(ctail) \in cHB

(***************************************************************************)
(* assume_init_read never reads an uninitialised slot.                     *)
(***************************************************************************)
ReadsInitialised ==
    cpc = "read" => buffer[Index(ctail)] # Uninit

(***************************************************************************)
(* "the consumer publishes its release of the previous value through tail  *)
(* before this slot is reused" (push_inner): the slot about to be written  *)
(* holds none of the items still in the queue.                             *)
(***************************************************************************)
NoOverwrite ==
    ppc = "write" =>
        \A k \in 0..(Occupancy - 1) : Index(WrappingAdd(T, k)) # Index(phead)

(***************************************************************************)
(* Check-then-act is safe for the two owners: after is_full() returned     *)
(* false the producer's next push is not refused, and after is_empty()     *)
(* returned false the consumer's next pop is not None, whatever stores the *)
(* loads of those calls happen to see.                                     *)
(***************************************************************************)
CheckThenAct ==
    /\ proom => \A i \in DOMAIN tail : ~FullAt(i)
    /\ csome => \A j \in DOMAIN head : ~EmptyAt(j)

(***************************************************************************)
(* drop's `while self.pop().is_some() {}` leaves no item behind to leak.   *)
(***************************************************************************)
DropDrains == cpc = "gone" => Occupancy = 0

(***************************************************************************)
(* drop terminates.                                                        *)
(***************************************************************************)
DropEnds == ppc = "gone" ~> cpc = "gone"

(***************************************************************************)
(* The ring implements a bounded FIFO: no item is lost, duplicated or      *)
(* reordered, and at most CAP are inside, across wrap-around of the slots  *)
(* and of the counters.                                                    *)
(***************************************************************************)
Fifo == INSTANCE BoundedFifo
            WITH q <- Contents, freed <- Freed, fresh <- Fresh

FifoSafety == Fifo!FifoInit(Uninit) /\ [][Fifo!FifoNext]_(Fifo!fifoVars)

=============================================================================
