--------------------------- MODULE KernelProofs ---------------------------
(***************************************************************************)
(* Proofs about Kernel, for every batch size, queue capacity, number of    *)
(* frames and answer of Limine.  KInv is the inductive invariant: what the *)
(* two cores know of each other by where they are, who holds the tensor's  *)
(* frame, which accesses happen before which, and where every trace is.    *)
(***************************************************************************)
EXTENDS Kernel, TLAPS, SequenceTheorems, FiniteSetTheorems

-----------------------------------------------------------------------------
(* The inductive invariant.                                                *)

\* _start before goto_address.write, and then up to the tensor's push.
Alone == {"boot", "memmap", "probe", "return", "tensor", "start"}
Feeding == {"wait", "send", "send tensor"}

\* The handshakes: where the AP can be while the BSP is somewhere.
Handshakes ==
    /\ bpc \in Alone => apc = "off"
    /\ bpc = "wait" => apc \in {"online", "loop", "report"}
    /\ bpc \in {"send", "send tensor"} => apc \in {"loop", "report"}
    /\ bpc = "await" => apc \in ApPcs \ {"off", "online"}
    /\ bpc \in {"sum", "drain", "verdict"} => apc = "halted"
    /\ bpc = "halted" => apc \in {"off", "halted"}
    /\ AP_READY.set <=> apc \notin {"off", "online"}
    /\ TENSOR_COMPLETE.set <=> apc = "halted"
    /\ apc = "off" => todo["ap"] = <<>>

\* The tensor's descriptor is in TENSOR_QUEUE from the push to the pop.
Descriptor ==
    /\ tensorQ # <<>> <=> bpc = "await" /\ apc \in {"loop", "report"}
    /\ tensorQ # <<>> => Len(tensorQ) = 1 /\ tensorQ[1].val = Address(frame)
    /\ apc \in {"reduce", "free"} => chunk = Address(frame)

\* Somebody holds the frame _start allocated last.
Held ==
    \/ bpc \in {"return", "start", "wait", "send", "send tensor"}
    \/ bpc = "await" /\ apc \in {"loop", "report", "reduce", "free"}
    \/ bpc = "halted" /\ apc = "off" /\ frame # None /\ boot.hhdm # "none"

Ledger ==
    /\ Held => frame \in usable /\ free = usable \ {frame}
    /\ ~Held => free = usable
    /\ bpc \in {"boot", "memmap", "probe"} => frame = None
    /\ bpc = "start" => boot.hhdm # "none"

\* The tensor is filled before the AP starts and summed before it is freed.
Reduction ==
    /\ bpc = "start" \/ apc # "off" => content = "ones"
    /\ apc \in {"free", "complete", "halted"} =>
         TENSOR_SUM_BITS = TENSOR_ELEMENTS /\ apSum = TENSOR_ELEMENTS
    /\ SumAgrees

\* SERIAL_LOCK, and the UART's accesses it orders.  Until its first line is
\* out the BSP has touched the UART (serial.init) but not released the lock.
FirstLine == bpc = "memmap" /\ todo["bsp"] # <<>>
SerialInv ==
    /\ lock.set <=> spc["bsp"] # "spin" \/ spc["ap"] # "spin"
    /\ spc["bsp"] = "spin" \/ spc["ap"] = "spin"
    /\ \A c \in Cores : spc[c] # "spin" => todo[c] # <<>> /\ Ordered(c, "serial")
    /\ ~lock.set => stamp["serial"]["ap"] <= lock.clock["ap"]
    /\ ~lock.set => stamp["serial"]["bsp"] <= lock.clock["bsp"] \/ FirstLine

\* A core's own clock is up to date, and the AP touches nothing before it starts.
StampsPast ==
    /\ \A loc \in Locations : \A d \in Cores : stamp[loc][d] <= clock[d][d]
    /\ apc = "off" => \A loc \in Locations : stamp[loc]["ap"] = 0

\* The tensor's message, and whoever popped it, know of every access of the
\* BSP to the allocator and to the frame.
KnowsTensor(known) ==
    stamp["pmm"]["bsp"] <= known["bsp"] /\ stamp["frame"]["bsp"] <= known["bsp"]
TensorKnown ==
    /\ tensorQ # <<>> => KnowsTensor(tensorQ[1].clock)
    /\ apc \in {"reduce", "free"} => KnowsTensor(clock["ap"])

\* TENSOR_COMPLETE, and whoever saw it, know of the AP's store of the sum.
SumKnown ==
    /\ TENSOR_COMPLETE.set => stamp["sum"]["ap"] <= TENSOR_COMPLETE.clock["ap"]
    /\ bpc = "sum" => stamp["sum"]["ap"] <= clock["bsp"]["ap"]

\* Every trace by its place: reported, completed, in the AP's hand, sent.
Due(k) == [trace |-> k, failed |-> k = FAULTY]
Reported == Len(reports)
Completed == Reported + Len(completionQ)
Taken == Completed + Len(result)
Places ==
    /\ sent = Taken + Len(interQ)
    /\ \A k \in 1..Len(reports) : reports[k] = Due(k)
    /\ \A k \in 1..Len(completionQ) : completionQ[k].val = Due(Reported + k)
    /\ \A k \in 1..Len(result) : result[k] = Due(Completed + k)
    /\ \A k \in 1..Len(interQ) : Process(interQ[k].val) = Due(Taken + k)

Progress ==
    /\ bpc \in Alone \cup {"wait"} => sent = 0
    /\ bpc = "send" => sent < PACKET_COUNT
    /\ bpc \in {"send tensor", "await", "sum", "drain", "verdict"} => sent = PACKET_COUNT
    /\ IF apc = "report" THEN Len(result) = 1 ELSE result = <<>>
    /\ AP_PROCESSED = Completed
    /\ bpc \notin {"drain", "verdict", "halted"} => reports = <<>>
    /\ bpc = "drain" => Reported < PACKET_COUNT
    /\ bpc = "verdict" => Reported = PACKET_COUNT

\* The supervisor and the counters have seen the faulty trace or not yet.
Tallies ==
    /\ succeeded + failed = Reported
    /\ failed = IF FAULTY <= Reported THEN 1 ELSE 0
    /\ Len(records) = failed

Bad == {"deallocation failed", "tensor queue full", "reduction failed",
        "batch invariant failed"}
NoBadLine == \A c \in Cores : \A k \in 1..Len(todo[c]) : todo[c][k] \notin Bad

KInv ==
    /\ TypeOK /\ Handshakes /\ Descriptor /\ Ledger /\ Reduction /\ SerialInv
    /\ StampsPast /\ TensorKnown /\ SumKnown /\ Places /\ Progress /\ Tallies /\ NoBadLine

-----------------------------------------------------------------------------
(* The operators the actions are built from.                               *)

\* The empty queue has no item.
LEMMA EmptyQueue == Len(<<>>) = 0
OBVIOUS

\* The first item of an empty queue.
LEMMA FirstItem == ASSUME NEW m PROVE Append(<<>>, m) = <<m>>
OBVIOUS

\* A queue is empty exactly when its length is zero.
LEMMA QueueLength ==
    ASSUME NEW S, NEW q \in Seq(S)
    PROVE  Len(q) \in Nat /\ (q = <<>> <=> Len(q) = 0)
BY EmptySeq

\* What push leaves: the old items, and the new one at the end.
LEMMA Pushed ==
    ASSUME NEW S, NEW q \in Seq(S), NEW m \in S
    PROVE  /\ Append(q, m) \in Seq(S) /\ Len(Append(q, m)) = Len(q) + 1
           /\ Append(q, m) # <<>>
           /\ \A k \in 1..Len(q) : Append(q, m)[k] = q[k]
           /\ Append(q, m)[Len(q) + 1] = m
<1>1. /\ Append(q, m) \in Seq(S) /\ Len(Append(q, m)) = Len(q) + 1
      /\ \A k \in 1..Len(q) : Append(q, m)[k] = q[k]
      /\ Append(q, m)[Len(q) + 1] = m
  BY AppendProperties
<1> QED BY <1>1, QueueLength, EmptyQueue

\* What pop takes and leaves: the head, and every other item one place on.
LEMMA Popped ==
    ASSUME NEW S, NEW q \in Seq(S), q # <<>>
    PROVE  /\ Len(q) \in Nat \ {0} /\ Head(q) = q[1] /\ q[1] \in S
           /\ Tail(q) \in Seq(S) /\ Len(Tail(q)) = Len(q) - 1
           /\ \A k \in 1..(Len(q) - 1) : Tail(q)[k] = q[k + 1]
<1>1. Len(q) \in Nat \ {0} BY QueueLength
<1>2. Head(q) = q[1] /\ q[1] \in S BY <1>1, ElementOfSeq
<1>3. Tail(q) \in Seq(S) /\ Len(Tail(q)) = Len(q) - 1 BY HeadTailProperties
<1>4. \A k \in 1..(Len(q) - 1) : Tail(q)[k] = q[k + 1] BY <1>1, HeadTailProperties
<1> QED BY <1>1, <1>2, <1>3, <1>4

\* Every item pop leaves was there, one place further back.
LEMMA TailItems ==
    ASSUME NEW S, NEW q \in Seq(S), q # <<>>
    PROVE  \A k \in 1..Len(Tail(q)) : k + 1 \in 1..Len(q) /\ Tail(q)[k] = q[k + 1]
<1>1. /\ Len(q) \in Nat \ {0} /\ Len(Tail(q)) = Len(q) - 1
      /\ \A k \in 1..(Len(q) - 1) : Tail(q)[k] = q[k + 1]
  BY Popped
<1> QED BY <1>1

\* PhysicalFrame::from_address undoes address.
LEMMA FromAddressOfFrame ==
    ASSUME NEW f \in Frames
    PROVE  FromAddress(Address(f)) = f
BY BatchAssumption DEF FromAddress, Address, FRAME_SIZE, Frames

\* None is not a frame number.
LEMMA NoneIsNoFrame == None \notin Frames
BY BatchAssumption DEF None, Pmm!NoFrame, Frames

\* allocate_frame hands out a free frame, or nothing when there is none.
LEMMA Allocated ==
    ASSUME Pmm!Allocate
    PROVE  /\ usable' = usable
           /\ \/ free = {} /\ free' = free /\ answer' = [frame |-> None, ok |-> FALSE]
              \/ \E f \in free : free' = free \ {f} /\ answer' = [frame |-> f, ok |-> TRUE]
BY DEF Pmm!Allocate, None

\* free_frame takes back a frame that is out.
LEMMA Freed ==
    ASSUME NEW f, Pmm!Free(f), f \in usable, f \notin free
    PROVE  usable' = usable /\ free' = free \cup {f} /\ answer' = [frame |-> f, ok |-> TRUE]
BY DEF Pmm!Free, Pmm!Freeable

\* _start takes back its probe, which is out.
LEMMA ProbeIsFreed ==
    ASSUME KInv, ProbeFree
    PROVE  /\ usable' = usable /\ free' = usable /\ free = usable \ {frame}
           /\ frame \in usable /\ answer' = [frame |-> frame, ok |-> TRUE]
<1>1. frame \in usable /\ free = usable \ {frame}
  BY DEF KInv, Ledger, Held, ProbeFree, BspAt
<1>2. frame \notin free /\ Pmm!Free(frame) BY <1>1 DEF ProbeFree
<1>3. usable' = usable /\ free' = free \cup {frame} /\ answer' = [frame |-> frame, ok |-> TRUE]
  BY <1>1, <1>2, Freed
<1> QED BY <1>1, <1>3

\* There is room for the tensor: _start never finds TENSOR_QUEUE full.
LEMMA TensorQueueHasRoom ==
    ASSUME KInv, SendTensor
    PROVE  /\ tensorQ = <<>> /\ tensorQ' = <<Message("bsp", Address(frame))>>
           /\ tensorQ' # <<>> /\ Len(tensorQ') = 1
           /\ tensorQ'[1] = [val |-> Address(frame), clock |-> clock["bsp"]]
           /\ bpc' = "await" /\ UNCHANGED <<boot, lock, spc, todo, console>>
<1>1. tensorQ = <<>> BY DEF KInv, Descriptor, SendTensor, BspAt
<1>2. Len(tensorQ) < TENSOR_CAP BY <1>1, EmptyQueue, BatchAssumption
<1>3. tensorQ' = <<Message("bsp", Address(frame))>> BY <1>1, <1>2, FirstItem DEF SendTensor
<1>4. tensorQ' # <<>> /\ Len(tensorQ') = 1 /\ tensorQ'[1] = Message("bsp", Address(frame))
  BY <1>3
<1> QED BY <1>1, <1>2, <1>3, <1>4 DEF SendTensor, BspGoes, serialVars, Message

\* The AP takes the only descriptor there is.
LEMMA TensorIsTaken ==
    ASSUME KInv, PopTensor
    PROVE  /\ tensorQ # <<>> /\ tensorQ' = <<>> /\ chunk' = Address(frame)
           /\ bpc = "await" /\ Head(tensorQ) = tensorQ[1]
<1>1. /\ tensorQ # <<>> /\ tensorQ' = Tail(tensorQ) /\ chunk' = Head(tensorQ).val
  BY DEF PopTensor, Pop
<1>2. tensorQ[1].val = Address(frame) /\ Len(tensorQ) = 1 /\ bpc = "await"
  BY <1>1 DEF KInv, Descriptor
<1>3. tensorQ \in Seq([val : Addresses, clock : Clock]) BY DEF KInv, TypeOK
<1>4. Head(tensorQ) = tensorQ[1] /\ Len(Tail(tensorQ)) = Len(tensorQ) - 1
      /\ Tail(tensorQ) \in Seq([val : Addresses, clock : Clock])
  BY <1>1, <1>3, Popped
<1>5. Len(tensorQ') = 0 BY <1>1, <1>2, <1>4
<1>6. tensorQ' = <<>> BY <1>1, <1>4, <1>5, QueueLength
<1> QED BY <1>1, <1>2, <1>4, <1>6

\* The AP frees the frame _start allocated, which is out.
LEMMA TensorFrameIsFreed ==
    ASSUME KInv, FreeFrame
    PROVE  /\ frame \in usable /\ frame \in Frames
           /\ usable' = usable /\ free = usable \ {frame} /\ free' = usable
           /\ answer' = [frame |-> frame, ok |-> TRUE]
<1>1. Held /\ chunk = Address(frame)
  BY DEF KInv, Handshakes, Descriptor, Held, FreeFrame, ApAt, TypeOK, BspPcs, Alone
<1>2. frame \in usable /\ free = usable \ {frame} /\ frame \in Frames
  BY <1>1 DEF KInv, Ledger, TypeOK
<1>3. Pmm!Free(frame) BY <1>1, <1>2, FromAddressOfFrame DEF FreeFrame
<1>4. frame \notin free BY <1>2
<1>5. usable' = usable /\ free' = free \cup {frame} /\ answer' = [frame |-> frame, ok |-> TRUE]
  BY <1>2, <1>3, <1>4, Freed
<1> QED BY <1>2, <1>5

\* An access ticks the core's own clock and stamps the locations with it.
LEMMA Accessed ==
    ASSUME clock \in [Cores -> Clock], stamp \in [Locations -> Clock],
           NEW c \in Cores, NEW locs, Access(c, locs)
    PROVE  /\ clock' \in [Cores -> Clock] /\ stamp' \in [Locations -> Clock]
           /\ clock'[c][c] = clock[c][c] + 1
           /\ \A d, e \in Cores : d # c \/ e # c => clock'[d][e] = clock[d][e]
           /\ \A loc \in Locations : loc \in locs => stamp'[loc][c] = clock[c][c] + 1
           /\ \A loc \in Locations, d \in Cores :
                loc \notin locs \/ d # c => stamp'[loc][d] = stamp[loc][d]
<1>1. clock[c][c] \in Nat BY DEF Clock
<1>2. clock' = [clock EXCEPT ![c] = [clock[c] EXCEPT ![c] = clock[c][c] + 1]] BY DEF Access
<1>3. /\ clock' \in [Cores -> Clock] /\ clock'[c][c] = clock[c][c] + 1
      /\ \A d, e \in Cores : d # c \/ e # c => clock'[d][e] = clock[d][e]
  BY <1>1, <1>2 DEF Clock
<1>4. \A loc \in Locations : stamp'[loc] = IF loc \in locs THEN [stamp[loc] EXCEPT ![c] = clock[c][c] + 1]
                                                       ELSE stamp[loc]
  BY DEF Access
<1>5. \A loc \in Locations : stamp[loc] \in Clock OBVIOUS
<1>6. \A loc \in Locations : [stamp[loc] EXCEPT ![c] = clock[c][c] + 1] \in Clock
  BY <1>1, <1>5 DEF Clock
<1>7. stamp' \in [Locations -> Clock] BY <1>4, <1>5, <1>6 DEF Access
<1>8. \A loc \in Locations : loc \in locs => stamp'[loc][c] = clock[c][c] + 1
  BY <1>4, <1>5 DEF Clock
<1>9. \A loc \in Locations, d \in Cores :
        loc \notin locs \/ d # c => stamp'[loc][d] = stamp[loc][d] BY <1>4, <1>5 DEF Clock
<1> QED BY <1>3, <1>7, <1>8, <1>9

\* An acquire joins what the release knew to what the core knows.
LEMMA Acquired ==
    ASSUME clock \in [Cores -> Clock], NEW c \in Cores, NEW from \in Clock, Acquire(c, from)
    PROVE  /\ clock' \in [Cores -> Clock]
           /\ \A d, e \in Cores : clock[d][e] <= clock'[d][e]
           /\ \A e \in Cores : from[e] <= clock'[c][e]
           /\ \A d, e \in Cores : d # c => clock'[d][e] = clock[d][e]
<1>1. clock' = [clock EXCEPT ![c] = [d \in Cores |-> Larger(clock[c][d], from[d])]] BY DEF Acquire
<1>2. \A d \in Cores : clock[c][d] \in Nat /\ from[d] \in Nat BY DEF Clock
<1>3. \A d \in Cores : /\ Larger(clock[c][d], from[d]) \in Nat
                       /\ clock[c][d] <= Larger(clock[c][d], from[d])
                       /\ from[d] <= Larger(clock[c][d], from[d])
  BY <1>2 DEF Larger
<1>4. clock' \in [Cores -> Clock] BY <1>1, <1>3 DEF Clock
<1>5. \A e \in Cores : clock[c][e] <= clock'[c][e] /\ from[e] <= clock'[c][e] BY <1>1, <1>3
<1>6. \A d, e \in Cores : d # c => clock'[d][e] = clock[d][e] BY <1>1
<1>7. \A d, e \in Cores : clock[d][e] \in Nat BY DEF Clock
<1>8. \A d, e \in Cores : clock[d][e] <= clock'[d][e] BY <1>5, <1>6, <1>7
<1> QED BY <1>4, <1>5, <1>6, <1>8

\* What a popped message carries is a clock.
LEMMA HeadClock ==
    ASSUME NEW V, NEW q \in Seq([val : V, clock : Clock]), q # <<>>
    PROVE  Head(q).clock \in Clock /\ Head(q) = q[1]
<1>1. Head(q) = q[1] /\ q[1] \in [val : V, clock : Clock] BY Popped
<1> QED BY <1>1

-----------------------------------------------------------------------------
(* Each part of the invariant is preserved.                                *)

\* Each core's program counter tells what the other one can be doing.
LEMMA KeepsHandshakes == ASSUME KInv, Next PROVE Handshakes'
<1>0. bpc \in BspPcs /\ apc \in ApPcs /\ Handshakes /\ Descriptor /\ SerialInv
      /\ todo \in [Cores -> Seq(Lines)] /\ AP_READY \in Flag /\ TENSOR_COMPLETE \in Flag
  BY DEF KInv, TypeOK
<1> USE DEF BspAt, ApAt, BspGoes, BspHalts, Printing, bspVars, bspData, batchVars, apVars,
  apData, queueVars, flagVars, frameVars, serialVars, hbVars, BspPcs, ApPcs, Alone, Cores,
    Handshakes, Descriptor
<1>1. CASE Boot BY <1>0, <1>1 DEF Boot
<1>2. CASE InitializePmm BY <1>0, <1>2 DEF InitializePmm
<1>3. CASE ProbeAllocate BY <1>0, <1>3 DEF ProbeAllocate
<1>4. CASE ProbeFree BY <1>0, <1>4 DEF ProbeFree
<1>5. CASE PrepareTensor BY <1>0, <1>5 DEF PrepareTensor
<1>6. CASE StartAp BY <1>0, <1>6 DEF StartAp
<1>7. CASE AwaitReady BY <1>0, <1>7 DEF AwaitReady, Awaited
<1>8. CASE SendPacket BY <1>0, <1>8 DEF SendPacket, LastPacket
<1>9. CASE SendTensor BY <1>0, <1>9, TensorQueueHasRoom DEF SendTensor
<1>10. CASE AwaitTensor BY <1>0, <1>10 DEF AwaitTensor, Awaited
<1>11. CASE ReadSum BY <1>0, <1>11 DEF ReadSum
<1>12. CASE Drain BY <1>0, <1>12 DEF Drain
<1>13. CASE Verdict BY <1>0, <1>13 DEF Verdict
<1>14. CASE Online BY <1>0, <1>14 DEF Online, Raised
<1>15. CASE PopPacket BY <1>0, <1>15 DEF PopPacket
<1>16. CASE PushResult BY <1>0, <1>16 DEF PushResult
<1>17. CASE PopTensor BY <1>0, <1>17, TensorIsTaken DEF PopTensor
<1>18. CASE Reduce BY <1>0, <1>18 DEF Reduce
<1>19. CASE FreeFrame BY <1>0, <1>19 DEF FreeFrame
<1>20. CASE Complete BY <1>0, <1>20 DEF Complete, Raised
<1>21. CASE SerialStep("bsp") BY <1>0, <1>21 DEF SerialStep, SerialLock, SerialWrite, SerialUnlock
<1>22. CASE SerialStep("ap")
  BY <1>0, <1>22 DEF SerialStep, SerialLock, SerialWrite, SerialUnlock, SerialInv
<1> QED BY <1>1, <1>2, <1>3, <1>4, <1>5, <1>6, <1>7, <1>8, <1>9, <1>10, <1>11, <1>12, <1>13, <1>14,
  <1>15, <1>16, <1>17, <1>18, <1>19, <1>20, <1>21, <1>22 DEF Next, BspStep, ApStep

\* The descriptor is in TENSOR_QUEUE exactly between the push and the pop.
LEMMA KeepsDescriptor == ASSUME KInv, Next PROVE Descriptor'
<1>0. bpc \in BspPcs /\ apc \in ApPcs /\ Handshakes /\ Descriptor
  BY DEF KInv, TypeOK
<1> USE DEF BspAt, ApAt, BspGoes, BspHalts, Printing, bspVars, bspData, batchVars, apVars,
  apData, queueVars, flagVars, frameVars, serialVars, hbVars, BspPcs, ApPcs, Alone, Cores,
    Handshakes, Descriptor
<1>1. CASE Boot BY <1>0, <1>1 DEF Boot
<1>2. CASE InitializePmm BY <1>0, <1>2 DEF InitializePmm
<1>3. CASE ProbeAllocate BY <1>0, <1>3 DEF ProbeAllocate
<1>4. CASE ProbeFree BY <1>0, <1>4 DEF ProbeFree
<1>5. CASE PrepareTensor BY <1>0, <1>5 DEF PrepareTensor
<1>6. CASE StartAp BY <1>0, <1>6 DEF StartAp
<1>7. CASE AwaitReady BY <1>0, <1>7 DEF AwaitReady, Awaited
<1>8. CASE SendPacket BY <1>0, <1>8 DEF SendPacket, LastPacket
<1>9. CASE SendTensor
  <2>1. bpc = "send tensor" /\ apc' = apc /\ frame' = frame /\ chunk' = chunk BY <1>9 DEF SendTensor
  <2>2. tensorQ' # <<>> /\ Len(tensorQ') = 1 /\ tensorQ'[1].val = Address(frame) /\ bpc' = "await"
    BY <1>9, TensorQueueHasRoom
  <2> QED BY <1>0, <2>1, <2>2
<1>10. CASE AwaitTensor BY <1>0, <1>10 DEF AwaitTensor, Awaited
<1>11. CASE ReadSum BY <1>0, <1>11 DEF ReadSum
<1>12. CASE Drain BY <1>0, <1>12 DEF Drain
<1>13. CASE Verdict BY <1>0, <1>13 DEF Verdict
<1>14. CASE Online BY <1>0, <1>14 DEF Online, Raised
<1>15. CASE PopPacket BY <1>0, <1>15 DEF PopPacket
<1>16. CASE PushResult BY <1>0, <1>16 DEF PushResult
<1>17. CASE PopTensor BY <1>0, <1>17, TensorIsTaken DEF PopTensor
<1>18. CASE Reduce BY <1>0, <1>18 DEF Reduce
<1>19. CASE FreeFrame BY <1>0, <1>19 DEF FreeFrame
<1>20. CASE Complete BY <1>0, <1>20 DEF Complete, Raised
<1>21. CASE SerialStep("bsp") BY <1>0, <1>21 DEF SerialStep, SerialLock, SerialWrite, SerialUnlock
<1>22. CASE SerialStep("ap") BY <1>0, <1>22 DEF SerialStep, SerialLock, SerialWrite, SerialUnlock
<1> QED BY <1>1, <1>2, <1>3, <1>4, <1>5, <1>6, <1>7, <1>8, <1>9, <1>10, <1>11, <1>12, <1>13, <1>14,
  <1>15, <1>16, <1>17, <1>18, <1>19, <1>20, <1>21, <1>22 DEF Next, BspStep, ApStep

\* The allocator misses exactly the frame somebody holds.
LEMMA KeepsLedger == ASSUME KInv, Next PROVE Ledger'
<1>0. bpc \in BspPcs /\ apc \in ApPcs /\ Handshakes /\ Descriptor /\ Ledger /\ usable \subseteq Frames
  BY DEF KInv, TypeOK
<1> USE DEF BspAt, ApAt, BspGoes, BspHalts, Printing, bspVars, bspData, batchVars, apVars,
  apData, queueVars, flagVars, frameVars, serialVars, hbVars, BspPcs, ApPcs, Alone, Cores,
    Handshakes, Descriptor, Ledger, Held
<1>1. CASE Boot BY <1>0, <1>1 DEF Boot
<1>2. CASE InitializePmm BY <1>0, <1>2 DEF InitializePmm, Pmm!Initialize
<1>3. CASE ProbeAllocate
  <2>1. frame = None /\ free = usable /\ usable' = usable /\ frame' = answer'.frame /\ apc' = "off"
    BY <1>0, <1>3, Allocated DEF ProbeAllocate
  <2>2. CASE free = {} /\ free' = free /\ answer' = [frame |-> None, ok |-> FALSE]
    BY <1>3, <2>1, <2>2 DEF ProbeAllocate
  <2>3. CASE \E f \in free : free' = free \ {f} /\ answer' = [frame |-> f, ok |-> TRUE]
    <3> PICK f \in free : free' = free \ {f} /\ answer' = [frame |-> f, ok |-> TRUE] BY <2>3
    <3> QED BY <1>3, <2>1 DEF ProbeAllocate
  <2> QED BY <1>3, <2>2, <2>3, Allocated DEF ProbeAllocate
<1>4. CASE ProbeFree
  <2>1. usable' = usable /\ free' = usable /\ answer'.ok BY <1>4, ProbeIsFreed
  <2>2. bpc' = "tensor" BY <1>4, <2>1 DEF ProbeFree
  <2> QED BY <2>1, <2>2
<1>5. CASE PrepareTensor
  <2>1. free = usable /\ apc' = "off" BY <1>0, <1>5 DEF PrepareTensor
  <2>2. CASE boot.hhdm = "none" BY <1>5, <2>1, <2>2 DEF PrepareTensor
  <2>3. CASE /\ boot.hhdm # "none" /\ usable' = usable /\ free = {} /\ free' = free
             /\ answer' = [frame |-> None, ok |-> FALSE]
    BY <1>5, <2>1, <2>3 DEF PrepareTensor
  <2>4. CASE /\ boot.hhdm # "none" /\ usable' = usable
             /\ \E f \in free : free' = free \ {f} /\ answer' = [frame |-> f, ok |-> TRUE]
    <3> PICK f \in free : free' = free \ {f} /\ answer' = [frame |-> f, ok |-> TRUE] BY <2>4
    <3> QED BY <1>0, <1>5, <2>1, <2>4, NoneIsNoFrame DEF PrepareTensor
  <2> QED BY <1>5, <2>2, <2>3, <2>4, Allocated DEF PrepareTensor
<1>6. CASE StartAp BY <1>0, <1>6, NoneIsNoFrame DEF StartAp
<1>7. CASE AwaitReady BY <1>0, <1>7 DEF AwaitReady, Awaited
<1>8. CASE SendPacket BY <1>0, <1>8 DEF SendPacket, LastPacket
<1>9. CASE SendTensor BY <1>0, <1>9, TensorQueueHasRoom DEF SendTensor
<1>10. CASE AwaitTensor BY <1>0, <1>10 DEF AwaitTensor, Awaited
<1>11. CASE ReadSum BY <1>0, <1>11 DEF ReadSum
<1>12. CASE Drain BY <1>0, <1>12 DEF Drain
<1>13. CASE Verdict BY <1>0, <1>13 DEF Verdict
<1>14. CASE Online BY <1>0, <1>14 DEF Online, Raised
<1>15. CASE PopPacket BY <1>0, <1>15 DEF PopPacket
<1>16. CASE PushResult BY <1>0, <1>16 DEF PushResult
<1>17. CASE PopTensor BY <1>0, <1>17, TensorIsTaken DEF PopTensor
<1>18. CASE Reduce BY <1>0, <1>18 DEF Reduce
<1>19. CASE FreeFrame BY <1>0, <1>19, TensorFrameIsFreed DEF FreeFrame
<1>20. CASE Complete BY <1>0, <1>20 DEF Complete, Raised
<1>21. CASE SerialStep("bsp") BY <1>0, <1>21 DEF SerialStep, SerialLock, SerialWrite, SerialUnlock
<1>22. CASE SerialStep("ap") BY <1>0, <1>22 DEF SerialStep, SerialLock, SerialWrite, SerialUnlock
<1> QED BY <1>1, <1>2, <1>3, <1>4, <1>5, <1>6, <1>7, <1>8, <1>9, <1>10, <1>11, <1>12, <1>13, <1>14,
  <1>15, <1>16, <1>17, <1>18, <1>19, <1>20, <1>21, <1>22 DEF Next, BspStep, ApStep

\* The tensor is filled before the AP starts and summed before it is freed.
LEMMA KeepsReduction == ASSUME KInv, Next PROVE Reduction'
<1>0. bpc \in BspPcs /\ apc \in ApPcs /\ Handshakes /\ Descriptor /\ Reduction /\ TensorKnown /\ SumKnown
  BY DEF KInv, TypeOK
<1> USE DEF BspAt, ApAt, BspGoes, BspHalts, Printing, bspVars, bspData, batchVars, apVars,
  apData, queueVars, flagVars, frameVars, serialVars, hbVars, BspPcs, ApPcs, Alone, Cores,
    Handshakes, Descriptor, Reduction, SumAgrees
<1>1. CASE Boot BY <1>0, <1>1 DEF Boot
<1>2. CASE InitializePmm BY <1>0, <1>2 DEF InitializePmm
<1>3. CASE ProbeAllocate BY <1>0, <1>3 DEF ProbeAllocate
<1>4. CASE ProbeFree BY <1>0, <1>4 DEF ProbeFree
<1>5. CASE PrepareTensor BY <1>0, <1>5 DEF PrepareTensor
<1>6. CASE StartAp BY <1>0, <1>6 DEF StartAp
<1>7. CASE AwaitReady BY <1>0, <1>7 DEF AwaitReady, Awaited
<1>8. CASE SendPacket BY <1>0, <1>8 DEF SendPacket, LastPacket
<1>9. CASE SendTensor BY <1>0, <1>9, TensorQueueHasRoom DEF SendTensor
<1>10. CASE AwaitTensor BY <1>0, <1>10 DEF AwaitTensor, Awaited
<1>11. CASE ReadSum BY <1>0, <1>11 DEF ReadSum, SumKnown, Ordered, Other
<1>12. CASE Drain BY <1>0, <1>12 DEF Drain
<1>13. CASE Verdict BY <1>0, <1>13 DEF Verdict
<1>14. CASE Online BY <1>0, <1>14 DEF Online, Raised
<1>15. CASE PopPacket BY <1>0, <1>15 DEF PopPacket
<1>16. CASE PushResult BY <1>0, <1>16 DEF PushResult
<1>17. CASE PopTensor BY <1>0, <1>17, TensorIsTaken DEF PopTensor
<1>18. CASE Reduce BY <1>0, <1>18 DEF Reduce, Ordered, Other, TensorKnown, KnowsTensor
<1>19. CASE FreeFrame BY <1>0, <1>19 DEF FreeFrame
<1>20. CASE Complete BY <1>0, <1>20 DEF Complete, Raised
<1>21. CASE SerialStep("bsp") BY <1>0, <1>21 DEF SerialStep, SerialLock, SerialWrite, SerialUnlock
<1>22. CASE SerialStep("ap") BY <1>0, <1>22 DEF SerialStep, SerialLock, SerialWrite, SerialUnlock
<1> QED BY <1>1, <1>2, <1>3, <1>4, <1>5, <1>6, <1>7, <1>8, <1>9, <1>10, <1>11, <1>12, <1>13, <1>14,
  <1>15, <1>16, <1>17, <1>18, <1>19, <1>20, <1>21, <1>22 DEF Next, BspStep, ApStep

\* A step of the memory model: nothing, one acquire or one access.
LEMMA MemoryStep ==
    ASSUME KInv, Next
    PROVE  \/ UNCHANGED <<clock, stamp>>
           \/ \E c \in Cores, from \in Clock : Acquire(c, from) /\ UNCHANGED stamp
           \/ \E c \in Cores, locs \in SUBSET Locations : Access(c, locs)
<1>0. AP_READY.clock \in Clock /\ TENSOR_COMPLETE.clock \in Clock /\ lock.clock \in Clock
      /\ (interQ # <<>> => Head(interQ).clock \in Clock)
      /\ (completionQ # <<>> => Head(completionQ).clock \in Clock)
      /\ (tensorQ # <<>> => Head(tensorQ).clock \in Clock)
  BY HeadClock DEF KInv, TypeOK, Flag
<1> USE DEF Cores, Locations, hbVars, Pop
<1>1. CASE Boot BY <1>0, <1>1 DEF Boot
<1>2. CASE InitializePmm BY <1>0, <1>2 DEF InitializePmm
<1>3. CASE ProbeAllocate BY <1>0, <1>3 DEF ProbeAllocate
<1>4. CASE ProbeFree BY <1>0, <1>4 DEF ProbeFree
<1>5. CASE PrepareTensor BY <1>0, <1>5 DEF PrepareTensor
<1>6. CASE StartAp BY <1>0, <1>6 DEF StartAp
<1>7. CASE AwaitReady BY <1>0, <1>7 DEF AwaitReady
<1>8. CASE SendPacket BY <1>0, <1>8 DEF SendPacket
<1>9. CASE SendTensor BY <1>0, <1>9 DEF SendTensor
<1>10. CASE AwaitTensor BY <1>0, <1>10 DEF AwaitTensor
<1>11. CASE ReadSum BY <1>0, <1>11 DEF ReadSum
<1>12. CASE Drain BY <1>0, <1>12 DEF Drain
<1>13. CASE Verdict BY <1>0, <1>13 DEF Verdict
<1>14. CASE Online BY <1>0, <1>14 DEF Online
<1>15. CASE PopPacket BY <1>0, <1>15 DEF PopPacket
<1>16. CASE PushResult BY <1>0, <1>16 DEF PushResult
<1>17. CASE PopTensor BY <1>0, <1>17 DEF PopTensor
<1>18. CASE Reduce BY <1>0, <1>18 DEF Reduce
<1>19. CASE FreeFrame BY <1>0, <1>19 DEF FreeFrame
<1>20. CASE Complete BY <1>0, <1>20 DEF Complete
<1>21. CASE \E c \in Cores : SerialStep(c)
  BY <1>0, <1>21 DEF SerialStep, SerialLock, SerialWrite, SerialUnlock
<1> QED BY <1>1, <1>2, <1>3, <1>4, <1>5, <1>6, <1>7, <1>8, <1>9, <1>10, <1>11, <1>12, <1>13, <1>14,
  <1>15, <1>16, <1>17, <1>18, <1>19, <1>20, <1>21 DEF Next, BspStep, ApStep

\* Clocks only grow, and no stamp is ahead of its core's own clock.
LEMMA ClocksGrow ==
    ASSUME KInv, Next
    PROVE  /\ clock' \in [Cores -> Clock] /\ stamp' \in [Locations -> Clock]
           /\ \A d, e \in Cores : clock[d][e] <= clock'[d][e]
           /\ \A d, e \in Cores : clock[d][e] \in Nat /\ clock'[d][e] \in Nat
           /\ \A loc \in Locations, d \in Cores : stamp[loc][d] \in Nat /\ stamp'[loc][d] \in Nat
           /\ \A loc \in Locations : \A d \in Cores : stamp'[loc][d] <= clock'[d][d]
<1> SUFFICES /\ clock' \in [Cores -> Clock] /\ stamp' \in [Locations -> Clock]
             /\ \A d, e \in Cores : clock[d][e] <= clock'[d][e]
             /\ \A loc \in Locations : \A d \in Cores : stamp'[loc][d] <= clock'[d][d]
  BY DEF KInv, TypeOK, Clock
<1>0. /\ clock \in [Cores -> Clock] /\ stamp \in [Locations -> Clock]
      /\ \A loc \in Locations : \A d \in Cores : stamp[loc][d] <= clock[d][d]
  BY DEF KInv, TypeOK, StampsPast
<1>1. \A d, e \in Cores : clock[d][e] \in Nat BY <1>0 DEF Clock
<1>2. \A loc \in Locations, d \in Cores : stamp[loc][d] \in Nat BY <1>0 DEF Clock
<1>3. CASE UNCHANGED <<clock, stamp>> BY <1>0, <1>1, <1>3
<1>4. CASE \E c \in Cores, from \in Clock : Acquire(c, from) /\ UNCHANGED stamp
  <2>1. /\ clock' \in [Cores -> Clock] /\ \A d, e \in Cores : clock[d][e] <= clock'[d][e]
    BY <1>0, <1>4, Acquired
  <2>2. \A d, e \in Cores : clock'[d][e] \in Nat BY <2>1 DEF Clock
  <2> QED BY <1>0, <1>1, <1>2, <1>4, <2>1, <2>2
<1>5. CASE \E c \in Cores, locs \in SUBSET Locations : Access(c, locs)
  <2> PICK c \in Cores, locs \in SUBSET Locations : Access(c, locs) BY <1>5
  <2>1. /\ clock' \in [Cores -> Clock] /\ stamp' \in [Locations -> Clock]
        /\ clock'[c][c] = clock[c][c] + 1
        /\ \A d, e \in Cores : d # c \/ e # c => clock'[d][e] = clock[d][e]
        /\ \A loc \in Locations : loc \in locs => stamp'[loc][c] = clock[c][c] + 1
        /\ \A loc \in Locations, d \in Cores :
             loc \notin locs \/ d # c => stamp'[loc][d] = stamp[loc][d]
    BY <1>0, Accessed
  <2>2. \A d, e \in Cores : clock[d][e] <= clock'[d][e] BY <1>1, <2>1
  <2>3. \A loc \in Locations : \A d \in Cores : stamp'[loc][d] <= clock'[d][d]
    BY <1>0, <1>1, <1>2, <2>1
  <2> QED BY <2>1, <2>2, <2>3
<1> QED BY <1>3, <1>4, <1>5, MemoryStep

\* Who stamps what: the AP nothing before it starts, the BSP neither the
\* allocator nor the frame afterwards, and only Reduce stores the sum.
LEMMA StampSteps ==
    ASSUME KInv, Next
    PROVE  /\ apc' = "off" => \A loc \in Locations : stamp'[loc]["ap"] = stamp[loc]["ap"]
           /\ apc # "off" => /\ stamp'["pmm"]["bsp"] = stamp["pmm"]["bsp"]
                            /\ stamp'["frame"]["bsp"] = stamp["frame"]["bsp"]
           /\ apc # "reduce" => stamp'["sum"]["ap"] = stamp["sum"]["ap"]
<1>0. clock \in [Cores -> Clock] /\ stamp \in [Locations -> Clock] /\ Handshakes
  BY DEF KInv, TypeOK
<1> USE DEF Cores, Locations, hbVars, BspAt, ApAt, apVars
<1>1. CASE Boot BY <1>0, <1>1, Accessed DEF Boot, Handshakes, Alone
<1>2. CASE InitializePmm BY <1>0, <1>2, Accessed DEF InitializePmm, Handshakes, Alone
<1>3. CASE ProbeAllocate BY <1>0, <1>3, Accessed DEF ProbeAllocate, Handshakes, Alone
<1>4. CASE ProbeFree BY <1>0, <1>4, Accessed DEF ProbeFree, Handshakes, Alone
<1>5. CASE PrepareTensor BY <1>0, <1>5, Accessed DEF PrepareTensor, Handshakes, Alone
<1>6. CASE StartAp BY <1>0, <1>6 DEF StartAp
<1>7. CASE AwaitReady BY <1>0, <1>7 DEF AwaitReady
<1>8. CASE SendPacket BY <1>0, <1>8 DEF SendPacket
<1>9. CASE SendTensor BY <1>0, <1>9 DEF SendTensor
<1>10. CASE AwaitTensor BY <1>0, <1>10 DEF AwaitTensor
<1>11. CASE ReadSum BY <1>0, <1>11 DEF ReadSum
<1>12. CASE Drain BY <1>0, <1>12 DEF Drain
<1>13. CASE Verdict BY <1>0, <1>13 DEF Verdict
<1>14. CASE Online BY <1>0, <1>14 DEF Online
<1>15. CASE PopPacket BY <1>0, <1>15 DEF PopPacket
<1>16. CASE PushResult BY <1>0, <1>16 DEF PushResult
<1>17. CASE PopTensor BY <1>0, <1>17 DEF PopTensor
<1>18. CASE Reduce BY <1>0, <1>18, Accessed DEF Reduce
<1>19. CASE FreeFrame BY <1>0, <1>19, Accessed DEF FreeFrame
<1>20. CASE Complete BY <1>0, <1>20 DEF Complete
<1>21. CASE SerialStep("bsp")
  BY <1>0, <1>21, Accessed DEF SerialStep, SerialLock, SerialWrite, SerialUnlock
<1>22. CASE SerialStep("ap")
  <2>1. apc # "off"
    BY <1>0, <1>22 DEF KInv, Handshakes, SerialInv, SerialStep, SerialLock, SerialWrite,
      SerialUnlock
  <2>2. CASE SerialWrite("ap") BY <1>0, <2>1, <2>2, Accessed DEF SerialWrite
  <2>3. CASE SerialLock("ap") \/ SerialUnlock("ap") BY <2>1, <2>3 DEF SerialLock, SerialUnlock
  <2> QED BY <1>22, <2>2, <2>3 DEF SerialStep
<1> QED BY <1>1, <1>2, <1>3, <1>4, <1>5, <1>6, <1>7, <1>8, <1>9, <1>10, <1>11, <1>12, <1>13, <1>14,
  <1>15, <1>16, <1>17, <1>18, <1>19, <1>20, <1>21, <1>22 DEF Next, BspStep, ApStep

\* What the AP has done is past, and nothing before it starts.
LEMMA KeepsStampsPast == ASSUME KInv, Next PROVE StampsPast'
<1>1. apc' = "off" => apc = "off"
  BY DEF Next, BspStep, ApStep, Boot, InitializePmm, ProbeAllocate, ProbeFree, PrepareTensor,
    StartAp, AwaitReady, SendPacket, SendTensor, AwaitTensor, ReadSum, Drain, Verdict, Online,
    PopPacket, PushResult, PopTensor, Reduce, FreeFrame, Complete,
     SerialStep, SerialLock, SerialWrite, SerialUnlock, apVars, ApAt
<1>2. \A loc \in Locations : \A d \in Cores : stamp'[loc][d] <= clock'[d][d] BY ClocksGrow
<1>3. apc' = "off" => \A loc \in Locations : stamp'[loc]["ap"] = 0
  BY <1>1, StampSteps DEF KInv, StampsPast
<1> QED BY <1>2, <1>3 DEF StampsPast

\* The tensor's message carries what the AP needs to know.
LEMMA KeepsTensorKnown == ASSUME KInv, Next PROVE TensorKnown'
<1>0. bpc \in BspPcs /\ apc \in ApPcs /\ Handshakes /\ Descriptor /\ TensorKnown BY DEF KInv, TypeOK
<1>a. /\ stamp["pmm"]["bsp"] \in Nat /\ stamp["frame"]["bsp"] \in Nat
      /\ clock["ap"]["bsp"] \in Nat /\ clock'["ap"]["bsp"] \in Nat
      /\ clock["ap"]["bsp"] <= clock'["ap"]["bsp"]
  BY ClocksGrow DEF Cores, Locations
<1>b. apc # "off" => /\ stamp'["pmm"]["bsp"] = stamp["pmm"]["bsp"]
                     /\ stamp'["frame"]["bsp"] = stamp["frame"]["bsp"]
  BY StampSteps
<1>c. tensorQ \in Seq([val : Addresses, clock : Clock]) /\ clock \in [Cores -> Clock]
  BY DEF KInv, TypeOK
<1>d. ASSUME tensorQ' = tensorQ, apc' \in {"reduce", "free"} => apc \in {"reduce", "free"}
      PROVE  TensorKnown'
  <2>1. CASE apc = "off"
    <3>1. tensorQ' = <<>> BY <1>0, <1>d, <2>1 DEF Descriptor
    <3>2. apc' \notin {"reduce", "free"} BY <1>d, <2>1
    <3> QED BY <3>1, <3>2 DEF TensorKnown
  <2>2. CASE apc # "off"
    <3>1. tensorQ' # <<>> => KnowsTensor(tensorQ[1].clock)'
      BY <1>0, <1>b, <1>d, <2>2 DEF TensorKnown, KnowsTensor
    <3>2. ASSUME apc' \in {"reduce", "free"} PROVE KnowsTensor(clock["ap"])'
      <4>1. stamp["pmm"]["bsp"] <= clock["ap"]["bsp"] /\ stamp["frame"]["bsp"] <= clock["ap"]["bsp"]
        BY <1>0, <1>d, <3>2 DEF TensorKnown, KnowsTensor
      <4>2. stamp["pmm"]["bsp"] <= clock'["ap"]["bsp"] /\ stamp["frame"]["bsp"] <= clock'["ap"]["bsp"]
        BY <1>a, <4>1
      <4> QED BY <1>b, <2>2, <4>2 DEF KnowsTensor
    <3> QED BY <3>1, <3>2 DEF TensorKnown
  <2> QED BY <2>1, <2>2
<1> USE DEF BspAt, ApAt, BspGoes, BspHalts, apVars, bspVars, queueVars, flagVars
<1>1. CASE Boot BY <1>d, <1>1 DEF Boot
<1>2. CASE InitializePmm BY <1>d, <1>2 DEF InitializePmm
<1>3. CASE ProbeAllocate BY <1>d, <1>3 DEF ProbeAllocate
<1>4. CASE ProbeFree BY <1>d, <1>4 DEF ProbeFree
<1>5. CASE PrepareTensor BY <1>d, <1>5 DEF PrepareTensor
<1>6. CASE StartAp BY <1>d, <1>6 DEF StartAp
<1>7. CASE AwaitReady BY <1>d, <1>7 DEF AwaitReady, Awaited
<1>8. CASE SendPacket BY <1>d, <1>8 DEF SendPacket, LastPacket
<1>9. CASE SendTensor
  <2>1. tensorQ'[1].clock = clock["bsp"] BY <1>9, TensorQueueHasRoom
  <2>2. clock' = clock /\ stamp' = stamp /\ apc' = apc BY <1>9 DEF SendTensor, hbVars
  <2>3. KnowsTensor(clock["bsp"]) BY DEF KInv, StampsPast, KnowsTensor, Cores, Locations
  <2>4. apc \notin {"reduce", "free"} BY <1>0, <1>9 DEF SendTensor, Handshakes
  <2> QED BY <2>1, <2>2, <2>3, <2>4 DEF TensorKnown, KnowsTensor
<1>10. CASE AwaitTensor BY <1>d, <1>10 DEF AwaitTensor, Awaited
<1>11. CASE ReadSum BY <1>d, <1>11 DEF ReadSum
<1>12. CASE Drain BY <1>d, <1>12 DEF Drain
<1>13. CASE Verdict BY <1>d, <1>13 DEF Verdict
<1>14. CASE Online BY <1>d, <1>14 DEF Online, Raised
<1>15. CASE PopPacket BY <1>d, <1>15 DEF PopPacket
<1>16. CASE PushResult BY <1>d, <1>16 DEF PushResult
<1>17. CASE PopTensor
  <2>1. tensorQ' = <<>> /\ tensorQ # <<>> /\ Head(tensorQ) = tensorQ[1] BY <1>17, TensorIsTaken
  <2>2. Head(tensorQ).clock \in Clock BY <1>c, <2>1, HeadClock
  <2>3. Head(tensorQ).clock["bsp"] <= clock'["ap"]["bsp"]
    BY <1>c, <1>17, <2>2, Acquired DEF PopTensor, Pop, Cores
  <2>4. Head(tensorQ).clock["bsp"] \in Nat BY <2>2 DEF Clock, Cores
  <2>5. stamp' = stamp /\ KnowsTensor(Head(tensorQ).clock)
    BY <1>0, <1>17, <2>1 DEF TensorKnown, PopTensor
  <2> QED BY <1>a, <2>1, <2>3, <2>4, <2>5 DEF TensorKnown, KnowsTensor
<1>18. CASE Reduce BY <1>d, <1>18 DEF Reduce
<1>19. CASE FreeFrame BY <1>d, <1>19 DEF FreeFrame
<1>20. CASE Complete BY <1>d, <1>20 DEF Complete, Raised
<1>21. CASE SerialStep("bsp") BY <1>d, <1>21 DEF SerialStep, SerialLock, SerialWrite, SerialUnlock
<1>22. CASE SerialStep("ap") BY <1>d, <1>22 DEF SerialStep, SerialLock, SerialWrite, SerialUnlock
<1> QED BY <1>1, <1>2, <1>3, <1>4, <1>5, <1>6, <1>7, <1>8, <1>9, <1>10, <1>11, <1>12, <1>13, <1>14,
  <1>15, <1>16, <1>17, <1>18, <1>19, <1>20, <1>21, <1>22 DEF Next, BspStep, ApStep

\* TENSOR_COMPLETE carries what the BSP needs to know.
LEMMA KeepsSumKnown == ASSUME KInv, Next PROVE SumKnown'
<1>0. Handshakes /\ SumKnown BY DEF KInv
<1>a. /\ stamp["sum"]["ap"] \in Nat /\ clock["bsp"]["ap"] \in Nat /\ clock'["bsp"]["ap"] \in Nat
      /\ clock["bsp"]["ap"] <= clock'["bsp"]["ap"]
  BY ClocksGrow DEF Cores, Locations
<1>b. apc # "reduce" => stamp'["sum"]["ap"] = stamp["sum"]["ap"]
  BY StampSteps
<1>c. TENSOR_COMPLETE \in Flag /\ clock \in [Cores -> Clock] BY DEF KInv, TypeOK
<1>d. ASSUME TENSOR_COMPLETE' = TENSOR_COMPLETE, bpc' = "sum" => bpc = "sum"
      PROVE  SumKnown'
  <2>1. TENSOR_COMPLETE'.set => stamp'["sum"]["ap"] <= TENSOR_COMPLETE'.clock["ap"]
    BY <1>0, <1>b, <1>d DEF Handshakes, SumKnown
  <2>2. ASSUME bpc' = "sum" PROVE stamp'["sum"]["ap"] <= clock'["bsp"]["ap"]
    <3>1. bpc = "sum" /\ apc = "halted" BY <1>0, <1>d, <2>2 DEF Handshakes
    <3>2. stamp'["sum"]["ap"] = stamp["sum"]["ap"] /\ stamp["sum"]["ap"] <= clock["bsp"]["ap"]
      BY <1>0, <1>b, <3>1 DEF SumKnown
    <3> QED BY <1>a, <3>2
  <2> QED BY <2>1, <2>2 DEF SumKnown
<1> USE DEF BspAt, ApAt, BspGoes, BspHalts, apVars, bspVars, queueVars, flagVars
<1>1. CASE Boot BY <1>d, <1>1 DEF Boot
<1>2. CASE InitializePmm BY <1>d, <1>2 DEF InitializePmm
<1>3. CASE ProbeAllocate BY <1>d, <1>3 DEF ProbeAllocate
<1>4. CASE ProbeFree BY <1>d, <1>4 DEF ProbeFree
<1>5. CASE PrepareTensor BY <1>d, <1>5 DEF PrepareTensor
<1>6. CASE StartAp BY <1>d, <1>6 DEF StartAp
<1>7. CASE AwaitReady BY <1>d, <1>7 DEF AwaitReady, Awaited
<1>8. CASE SendPacket BY <1>d, <1>8 DEF SendPacket, LastPacket
<1>9. CASE SendTensor BY <1>d, <1>9 DEF SendTensor
<1>10. CASE AwaitTensor
  <2>1. TENSOR_COMPLETE.clock["ap"] \in Nat BY <1>c DEF Flag, Clock, Cores
  <2>2. TENSOR_COMPLETE.clock["ap"] <= clock'["bsp"]["ap"]
    BY <1>c, <1>10, Acquired DEF AwaitTensor, Flag, Cores
  <2>3. /\ TENSOR_COMPLETE' = TENSOR_COMPLETE /\ stamp' = stamp
        /\ stamp["sum"]["ap"] <= TENSOR_COMPLETE.clock["ap"]
    BY <1>0, <1>10 DEF AwaitTensor, Awaited, SumKnown
  <2> QED BY <1>a, <2>1, <2>2, <2>3 DEF SumKnown
<1>11. CASE ReadSum BY <1>d, <1>11 DEF ReadSum
<1>12. CASE Drain BY <1>d, <1>12 DEF Drain
<1>13. CASE Verdict BY <1>d, <1>13 DEF Verdict
<1>14. CASE Online BY <1>d, <1>14 DEF Online, Raised
<1>15. CASE PopPacket BY <1>d, <1>15 DEF PopPacket
<1>16. CASE PushResult BY <1>d, <1>16 DEF PushResult
<1>17. CASE PopTensor BY <1>d, <1>17 DEF PopTensor
<1>18. CASE Reduce BY <1>d, <1>18 DEF Reduce
<1>19. CASE FreeFrame BY <1>d, <1>19 DEF FreeFrame
<1>20. CASE Complete
  <2>1. TENSOR_COMPLETE'.clock = clock["ap"] /\ clock' = clock /\ stamp' = stamp
    BY <1>20 DEF Complete, Raised, hbVars
  <2>2. stamp["sum"]["ap"] <= clock["ap"]["ap"] BY DEF KInv, StampsPast, Cores, Locations
  <2>3. bpc' # "sum" BY <1>0, <1>20 DEF Complete, Handshakes
  <2> QED BY <2>1, <2>2, <2>3 DEF SumKnown
<1>21. CASE SerialStep("bsp") BY <1>d, <1>21 DEF SerialStep, SerialLock, SerialWrite, SerialUnlock
<1>22. CASE SerialStep("ap") BY <1>d, <1>22 DEF SerialStep, SerialLock, SerialWrite, SerialUnlock
<1> QED BY <1>1, <1>2, <1>3, <1>4, <1>5, <1>6, <1>7, <1>8, <1>9, <1>10, <1>11, <1>12, <1>13, <1>14,
  <1>15, <1>16, <1>17, <1>18, <1>19, <1>20, <1>21, <1>22 DEF Next, BspStep, ApStep

\* The UART is touched by serial.init and under the lock only.
LEMMA SerialStamps ==
    ASSUME KInv, Next, ~Boot, spc' = spc
    PROVE  \A d \in Cores : stamp'["serial"][d] = stamp["serial"][d]
<1>0. /\ clock \in [Cores -> Clock] /\ stamp \in [Locations -> Clock]
      /\ spc \in [Cores -> {"spin", "write", "unlock"}]
  BY DEF KInv, TypeOK
<1>a. ASSUME NEW c \in Cores, NEW locs, "serial" \notin locs, Access(c, locs)
      PROVE  \A d \in Cores : stamp'["serial"][d] = stamp["serial"][d]
  BY <1>0, <1>a, Accessed DEF Locations
<1> USE DEF Cores, hbVars
<1>1. CASE InitializePmm BY <1>a, <1>1 DEF InitializePmm
<1>2. CASE ProbeAllocate BY <1>a, <1>2 DEF ProbeAllocate
<1>3. CASE ProbeFree BY <1>a, <1>3 DEF ProbeFree
<1>4. CASE PrepareTensor BY <1>a, <1>4 DEF PrepareTensor
<1>5. CASE StartAp BY <1>5 DEF StartAp
<1>6. CASE AwaitReady BY <1>6 DEF AwaitReady
<1>7. CASE SendPacket BY <1>7 DEF SendPacket
<1>8. CASE SendTensor BY <1>8 DEF SendTensor
<1>9. CASE AwaitTensor BY <1>9 DEF AwaitTensor
<1>10. CASE ReadSum BY <1>10 DEF ReadSum
<1>11. CASE Drain BY <1>11 DEF Drain
<1>12. CASE Verdict BY <1>12 DEF Verdict
<1>13. CASE Online BY <1>13 DEF Online
<1>14. CASE PopPacket BY <1>14 DEF PopPacket
<1>15. CASE PushResult BY <1>15 DEF PushResult
<1>16. CASE PopTensor BY <1>16 DEF PopTensor
<1>17. CASE Reduce BY <1>a, <1>17 DEF Reduce
<1>18. CASE FreeFrame BY <1>a, <1>18 DEF FreeFrame
<1>19. CASE Complete BY <1>19 DEF Complete
<1>20. CASE SerialStep("bsp") \/ SerialStep("ap")
  BY <1>0, <1>20 DEF SerialStep, SerialLock, SerialWrite, SerialUnlock
<1> QED BY <1>1, <1>2, <1>3, <1>4, <1>5, <1>6, <1>7, <1>8, <1>9, <1>10, <1>11, <1>12, <1>13, <1>14,
  <1>15, <1>16, <1>17, <1>18, <1>19, <1>20 DEF Next, BspStep, ApStep

\* serial_write: taking the lock makes the other core's lines visible.
LEMMA LockKeepsSerialInv == ASSUME KInv, Next, NEW c \in Cores, SerialLock(c) PROVE SerialInv'
<1>0. SerialInv /\ Handshakes /\ spc \in [Cores -> {"spin", "write", "unlock"}]
  BY DEF KInv, TypeOK
<1>1. lock.clock \in Clock /\ lock \in Flag /\ clock \in [Cores -> Clock] BY DEF KInv, TypeOK, Flag
<1>2. /\ ~lock.set /\ todo[c] # <<>> /\ todo' = todo /\ bpc' = bpc /\ stamp' = stamp
      /\ lock' = [lock EXCEPT !.set = TRUE] /\ spc' = [spc EXCEPT ![c] = "write"]
      /\ Acquire(c, lock.clock)
  BY DEF SerialLock, LockFree, bspVars
<1>3. c = "ap" => ~FirstLine BY <1>0, <1>2 DEF Handshakes, FirstLine, Alone
<1>4. spc["bsp"] = "spin" /\ spc["ap"] = "spin" BY <1>0, <1>2 DEF SerialInv
<1>5. stamp["serial"][Other(c)] <= lock.clock[Other(c)]
  BY <1>0, <1>2, <1>3 DEF SerialInv, Other, Cores
<1>6. Other(c) \in Cores BY DEF Other, Cores
<1>7. lock.clock[Other(c)] <= clock'[c][Other(c)] BY <1>1, <1>2, <1>6, Acquired
<1>8. lock.clock[Other(c)] \in Nat /\ clock'[c][Other(c)] \in Nat /\ stamp["serial"][Other(c)] \in Nat
  BY <1>1, <1>6, ClocksGrow DEF Clock, Locations
<1>9. Ordered(c, "serial")' BY <1>2, <1>5, <1>7, <1>8 DEF Ordered
<1>10. lock'.set BY <1>1, <1>2 DEF Flag
<1> QED BY <1>0, <1>2, <1>4, <1>9, <1>10 DEF SerialInv, Cores

\* serial_write: the line is written under the lock.
LEMMA WriteKeepsSerialInv == ASSUME KInv, Next, NEW c \in Cores, SerialWrite(c) PROVE SerialInv'
<1>0. SerialInv /\ spc \in [Cores -> {"spin", "write", "unlock"}] BY DEF KInv, TypeOK
<1>1. clock \in [Cores -> Clock] /\ stamp \in [Locations -> Clock] BY DEF KInv, TypeOK
<1>2. /\ spc[c] = "write" /\ todo' = todo /\ bpc' = bpc /\ lock' = lock
      /\ spc' = [spc EXCEPT ![c] = "unlock"] /\ Access(c, {"serial"})
  BY DEF SerialWrite, bspVars
<1>3. Other(c) \in Cores /\ Other(c) # c BY DEF Other, Cores
<1>4. spc[Other(c)] = "spin" /\ lock.set BY <1>0, <1>2 DEF SerialInv, Other, Cores
<1>5. stamp'["serial"][Other(c)] = stamp["serial"][Other(c)] /\ clock'[c][Other(c)] = clock[c][Other(c)]
  BY <1>1, <1>2, <1>3, Accessed DEF Locations
<1>6. Ordered(c, "serial")' BY <1>0, <1>2, <1>5 DEF SerialInv, Ordered
<1>7. todo[c] # <<>> BY <1>0, <1>2 DEF SerialInv
<1> QED BY <1>0, <1>2, <1>3, <1>4, <1>6, <1>7 DEF SerialInv, Other, Cores

\* serial_write: the store that unlocks carries everything the holder knows.
LEMMA UnlockKeepsSerialInv == ASSUME KInv, Next, NEW c \in Cores, SerialUnlock(c) PROVE SerialInv'
<1>0. SerialInv /\ StampsPast /\ spc \in [Cores -> {"spin", "write", "unlock"}] BY DEF KInv, TypeOK
<1>2. /\ spc[c] = "unlock" /\ bpc' = bpc /\ stamp' = stamp /\ clock' = clock
      /\ lock' = [set |-> FALSE, clock |-> clock[c]] /\ spc' = [spc EXCEPT ![c] = "spin"]
  BY DEF SerialUnlock, Lowered, bspVars, hbVars
<1>3. Other(c) \in Cores /\ Other(c) # c /\ spc[Other(c)] = "spin"
  BY <1>0, <1>2 DEF SerialInv, Other, Cores
<1>4. stamp["serial"][c] <= clock[c][c] BY <1>0 DEF StampsPast, Locations
<1>5. stamp["serial"][Other(c)] <= clock[c][Other(c)] BY <1>0, <1>2 DEF SerialInv, Ordered
<1>6. \A d \in Cores : stamp["serial"][d] <= lock'.clock[d] BY <1>2, <1>4, <1>5 DEF Other, Cores
<1>7. ~lock'.set BY <1>2
<1>8. \A d \in Cores : spc'[d] = "spin" BY <1>0, <1>2, <1>3 DEF Other, Cores
<1> QED BY <1>2, <1>6, <1>7, <1>8 DEF SerialInv, Cores

\* Nothing else touches the lock or the UART.
LEMMA KeepsSerialInv == ASSUME KInv, Next PROVE SerialInv'
<1>0. SerialInv /\ Handshakes /\ spc \in [Cores -> {"spin", "write", "unlock"}]
      /\ todo \in [Cores -> Seq(Lines)]
  BY DEF KInv, TypeOK
<1>d. ASSUME UNCHANGED <<lock, spc>>, ~Boot, \A c \in Cores : spc[c] # "spin" => todo'[c] = todo[c],
             FirstLine => FirstLine'
      PROVE  SerialInv'
  <2>1. \A d \in Cores : stamp'["serial"][d] = stamp["serial"][d] BY <1>d, SerialStamps
  <2>2. ASSUME NEW c \in Cores, spc[c] # "spin" PROVE todo'[c] # <<>> /\ Ordered(c, "serial")'
    <3>1. Other(c) \in Cores BY DEF Other, Cores
    <3>2. todo[c] # <<>> /\ stamp["serial"][Other(c)] <= clock[c][Other(c)]
      BY <1>0, <2>2 DEF SerialInv, Ordered
    <3>3. /\ stamp["serial"][Other(c)] \in Nat /\ clock[c][Other(c)] \in Nat /\ clock'[c][Other(c)] \in Nat
          /\ clock[c][Other(c)] <= clock'[c][Other(c)]
      BY <3>1, ClocksGrow DEF Locations
    <3>4. stamp["serial"][Other(c)] <= clock'[c][Other(c)] BY <3>2, <3>3
    <3> QED BY <1>d, <2>1, <2>2, <3>1, <3>2, <3>4 DEF Ordered
  <2> QED BY <1>0, <1>d, <2>1, <2>2 DEF SerialInv, Cores
<1>e. BspAt(bpc) => spc["bsp"] = "spin" /\ ~FirstLine BY <1>0 DEF SerialInv, BspAt, FirstLine, Cores
<1>f. ApAt(apc) => spc["ap"] = "spin" BY <1>0 DEF SerialInv, ApAt, Cores
<1> USE DEF BspAt, ApAt, BspGoes, BspHalts, apVars, bspVars, queueVars, flagVars, serialVars,
  Printing, Cores
<1>1. CASE Boot
  <2>1. /\ bpc' = "memmap" /\ todo'["bsp"] # <<>> /\ lock' = lock /\ spc' = spc /\ apc = "off"
        /\ todo'["ap"] = todo["ap"]
    BY <1>0, <1>1 DEF Boot, Handshakes, Alone
  <2>2. spc["bsp"] = "spin" /\ spc["ap"] = "spin"
    BY <1>0, <1>1, <1>e, <2>1 DEF Boot, Handshakes, SerialInv
  <2>3. stamp'["serial"]["ap"] = stamp["serial"]["ap"]
    BY <1>1, Accessed DEF KInv, TypeOK, Boot, Locations
  <2> QED BY <1>0, <2>1, <2>2, <2>3 DEF SerialInv, FirstLine
<1>2. CASE InitializePmm BY <1>0, <1>d, <1>e, <1>2 DEF InitializePmm, Boot
<1>3. CASE ProbeAllocate BY <1>0, <1>d, <1>e, <1>3 DEF ProbeAllocate, Boot
<1>4. CASE ProbeFree BY <1>0, <1>d, <1>e, <1>4 DEF ProbeFree, Boot
<1>5. CASE PrepareTensor BY <1>0, <1>d, <1>e, <1>5 DEF PrepareTensor, Boot
<1>6. CASE StartAp BY <1>0, <1>d, <1>e, <1>6 DEF StartAp, Boot
<1>7. CASE AwaitReady BY <1>0, <1>d, <1>e, <1>7 DEF AwaitReady, Awaited, Boot
<1>8. CASE SendPacket BY <1>0, <1>d, <1>e, <1>8 DEF SendPacket, LastPacket, Boot
<1>9. CASE SendTensor BY <1>0, <1>d, <1>e, <1>9 DEF SendTensor, Boot
<1>10. CASE AwaitTensor BY <1>0, <1>d, <1>e, <1>10 DEF AwaitTensor, Awaited, Boot
<1>11. CASE ReadSum BY <1>0, <1>d, <1>e, <1>11 DEF ReadSum, Boot
<1>12. CASE Drain BY <1>0, <1>d, <1>e, <1>12 DEF Drain, Boot
<1>13. CASE Verdict BY <1>0, <1>d, <1>e, <1>13 DEF Verdict, Boot
<1>14. CASE Online BY <1>0, <1>d, <1>f, <1>14 DEF Online, Raised, Boot, FirstLine
<1>15. CASE PopPacket BY <1>0, <1>d, <1>f, <1>15 DEF PopPacket, Boot, FirstLine
<1>16. CASE PushResult BY <1>0, <1>d, <1>f, <1>16 DEF PushResult, Boot, FirstLine
<1>17. CASE PopTensor BY <1>0, <1>d, <1>f, <1>17 DEF PopTensor, Boot, FirstLine
<1>18. CASE Reduce BY <1>0, <1>d, <1>f, <1>18 DEF Reduce, Boot, FirstLine
<1>19. CASE FreeFrame BY <1>0, <1>d, <1>f, <1>19 DEF FreeFrame, Boot, FirstLine
<1>20. CASE Complete BY <1>0, <1>d, <1>f, <1>20 DEF Complete, Raised, Boot, FirstLine
<1>21. CASE SerialStep("bsp")
  BY <1>21, LockKeepsSerialInv, WriteKeepsSerialInv, UnlockKeepsSerialInv DEF SerialStep
<1>22. CASE SerialStep("ap")
  BY <1>22, LockKeepsSerialInv, WriteKeepsSerialInv, UnlockKeepsSerialInv DEF SerialStep
<1> QED BY <1>1, <1>2, <1>3, <1>4, <1>5, <1>6, <1>7, <1>8, <1>9, <1>10, <1>11, <1>12, <1>13, <1>14,
  <1>15, <1>16, <1>17, <1>18, <1>19, <1>20, <1>21, <1>22 DEF Next, BspStep, ApStep
-----------------------------------------------------------------------------
(* The batch.                                                              *)

\* Every other step leaves the batch where it is.
LEMMA BatchSteps ==
    ASSUME Next
    PROVE  \/ SendPacket \/ PopPacket \/ PushResult \/ Drain
           \/ UNCHANGED <<sent, reports, completionQ, result, interQ, AP_PROCESSED,
                          succeeded, failed, records>>
<1> USE DEF bspVars, bspData, batchVars, apVars, apData, queueVars
<1>1. CASE Boot BY <1>1 DEF Boot
<1>2. CASE InitializePmm BY <1>2 DEF InitializePmm
<1>3. CASE ProbeAllocate BY <1>3 DEF ProbeAllocate
<1>4. CASE ProbeFree BY <1>4 DEF ProbeFree
<1>5. CASE PrepareTensor BY <1>5 DEF PrepareTensor
<1>6. CASE StartAp BY <1>6 DEF StartAp
<1>7. CASE AwaitReady BY <1>7 DEF AwaitReady
<1>8. CASE SendTensor BY <1>8 DEF SendTensor
<1>9. CASE AwaitTensor BY <1>9 DEF AwaitTensor
<1>10. CASE ReadSum BY <1>10 DEF ReadSum
<1>11. CASE Verdict BY <1>11 DEF Verdict
<1>12. CASE Online BY <1>12 DEF Online
<1>13. CASE PopTensor BY <1>13 DEF PopTensor
<1>14. CASE Reduce BY <1>14 DEF Reduce
<1>15. CASE FreeFrame BY <1>15 DEF FreeFrame
<1>16. CASE Complete BY <1>16 DEF Complete
<1>17. CASE SerialStep("bsp") \/ SerialStep("ap")
  BY <1>17 DEF SerialStep, SerialLock, SerialWrite, SerialUnlock
<1> QED BY <1>1, <1>2, <1>3, <1>4, <1>5, <1>6, <1>7, <1>8, <1>9, <1>10, <1>11, <1>12, <1>13, <1>14,
  <1>15, <1>16, <1>17 DEF Next, BspStep, ApStep

\* What the batch's variables are, as far as the steps below need it.
BatchType ==
    /\ sent \in Nat /\ reports \in Seq(WorkResult) /\ records \in Seq(WorkResult)
    /\ result \in Seq(WorkResult)
    /\ completionQ \in Seq([val : WorkResult, clock : Clock])
    /\ interQ \in Seq([val : Packet, clock : Clock])

\* The batch's queues and logs hold packets and results.
LEMMA BatchIsTyped == ASSUME KInv PROVE BatchType
BY BatchAssumption DEF KInv, TypeOK, BatchType

\* The packet _start sends is the next trace, and the faulty one is empty.
LEMMA SentPacket ==
    ASSUME KInv, SendPacket
    PROVE  LET m == [val |-> [trace |-> sent + 1, empty |-> sent + 1 = FAULTY],
                     clock |-> clock["bsp"]]
           IN  /\ m \in [val : Packet, clock : Clock]
               /\ interQ' = Append(interQ, m) /\ sent' = sent + 1 /\ Len(interQ) < INTER_CAP
<1>1. sent \in 0..PACKET_COUNT /\ sent < PACKET_COUNT /\ clock["bsp"] \in Clock
  BY DEF KInv, TypeOK, Progress, SendPacket, BspAt, Cores
<1>2. sent + 1 \in 1..PACKET_COUNT BY <1>1, BatchAssumption
<1>3. (sent + 1 = FAULTY) \in BOOLEAN OBVIOUS
<1>4. [trace |-> sent + 1, empty |-> sent + 1 = FAULTY] \in Packet BY <1>2, <1>3 DEF Packet
<1> QED BY <1>1, <1>4 DEF SendPacket, Push, Message

\* The packet the AP takes is the oldest one.
LEMMA TakenPacket ==
    ASSUME KInv, PopPacket
    PROVE  /\ interQ # <<>> /\ interQ' = Tail(interQ) /\ Process(interQ[1].val) \in WorkResult
           /\ result = <<>> /\ result' = <<Process(interQ[1].val)>>
<1>1. /\ interQ # <<>> /\ interQ' = Tail(interQ) /\ result' = <<Process(Head(interQ).val)>>
      /\ result = <<>>
  BY DEF PopPacket, Pop, KInv, Progress, ApAt
<1>2. interQ \in Seq([val : Packet, clock : Clock]) BY BatchIsTyped DEF BatchType
<1>3. Head(interQ) = interQ[1] /\ interQ[1] \in [val : Packet, clock : Clock] BY <1>1, <1>2, Popped
<1>4. interQ[1].val \in Packet BY <1>3
<1>5. Process(interQ[1].val) \in WorkResult BY <1>4 DEF Process, Packet, WorkResult
<1> QED BY <1>1, <1>3, <1>5

\* The result the AP pushes is the one in its hand.
LEMMA PushedResult ==
    ASSUME KInv, PushResult
    PROVE  LET m == [val |-> result[1], clock |-> clock["ap"]]
           IN  /\ m \in [val : WorkResult, clock : Clock] /\ Len(result) = 1 /\ result' = <<>>
               /\ completionQ' = Append(completionQ, m) /\ Len(completionQ) < COMPLETION_CAP
<1>1. Len(result) = 1 /\ result \in Seq(WorkResult) /\ clock["ap"] \in Clock
  BY DEF KInv, TypeOK, Progress, PushResult, ApAt, Cores
<1>2. result[1] \in WorkResult BY <1>1, ElementOfSeq
<1> QED BY <1>1, <1>2 DEF PushResult, Push, Message

\* The result _start reports is the oldest one.
LEMMA DrainedResult ==
    ASSUME KInv, Drain
    PROVE  /\ completionQ # <<>> /\ completionQ' = Tail(completionQ)
           /\ completionQ[1].val \in WorkResult /\ Head(completionQ) = completionQ[1]
           /\ reports' = Append(reports, completionQ[1].val)
<1>1. /\ completionQ # <<>> /\ completionQ' = Tail(completionQ)
      /\ reports' = Append(reports, Head(completionQ).val)
  BY DEF Drain, Pop
<1>2. completionQ \in Seq([val : WorkResult, clock : Clock]) BY BatchIsTyped DEF BatchType
<1>3. Head(completionQ) = completionQ[1] /\ completionQ[1] \in [val : WorkResult, clock : Clock]
  BY <1>1, <1>2, Popped
<1> QED BY <1>1, <1>3

\* Every trace stays at its place in the order, wherever it is handed on.
LEMMA KeepsPlaces == ASSUME KInv, Next PROVE Places'
<1>0. Places /\ BatchType BY BatchIsTyped DEF KInv
<1>a. /\ Len(reports) \in Nat /\ Len(completionQ) \in Nat /\ Len(result) \in Nat /\ Len(interQ) \in Nat
  BY <1>0, QueueLength DEF BatchType
<1> USE DEF Reported, Completed, Taken
<1>1. CASE SendPacket
  <2> DEFINE m == [val |-> [trace |-> sent + 1, empty |-> sent + 1 = FAULTY],
                   clock |-> clock["bsp"]]
  <2>1. /\ m \in [val : Packet, clock : Clock] /\ interQ' = Append(interQ, m) /\ sent' = sent + 1
    BY <1>1, SentPacket
  <2>2. UNCHANGED <<reports, completionQ, result>> BY <1>1 DEF SendPacket, batchVars, apVars, apData
  <2>3. /\ Len(interQ') = Len(interQ) + 1 /\ interQ'[Len(interQ) + 1] = m
        /\ \A k \in 1..Len(interQ) : interQ'[k] = interQ[k]
    BY <1>0, <2>1, Pushed DEF BatchType
  <2>4. Process(m.val) = Due(sent + 1) BY DEF Process, Due
  <2>5. sent = Len(reports) + Len(completionQ) + Len(result) + Len(interQ) BY <1>0 DEF Places
  <2>6. ASSUME NEW k \in 1..Len(interQ') PROVE Process(interQ'[k].val) = Due(Taken + k)
    <3>1. CASE k \in 1..Len(interQ) BY <1>0, <2>3, <3>1 DEF Places
    <3>2. CASE k = Len(interQ) + 1
      <4>1. Taken + k = sent + 1 BY <1>a, <2>5, <3>2
      <4> QED BY <2>3, <2>4, <3>2, <4>1
    <3> QED BY <1>a, <2>3, <3>1, <3>2
  <2> QED BY <1>0, <1>a, <2>1, <2>2, <2>3, <2>5, <2>6 DEF Places
<1>2. CASE PopPacket
  <2>1. /\ interQ # <<>> /\ interQ' = Tail(interQ) /\ Process(interQ[1].val) \in WorkResult
        /\ result = <<>> /\ result' = <<Process(interQ[1].val)>>
    BY <1>2, TakenPacket
  <2>2. UNCHANGED <<reports, completionQ, sent>> BY <1>2 DEF PopPacket, bspVars, bspData, batchVars
  <2>3. /\ Len(interQ) \in Nat \ {0} /\ Len(interQ') = Len(interQ) - 1
        /\ \A k \in 1..(Len(interQ) - 1) : interQ'[k] = interQ[k + 1]
    BY <1>0, <2>1, Popped DEF BatchType
  <2>4. Len(result) = 0 /\ Len(result') = 1 /\ result'[1] = Process(interQ[1].val) BY <2>1
  <2>5. Process(interQ[1].val) = Due(Len(reports) + Len(completionQ) + 1)
    BY <1>0, <1>a, <2>3, <2>4 DEF Places
  <2>6. ASSUME NEW k \in 1..Len(interQ') PROVE Process(interQ'[k].val) = Due(Taken' + k)
    <3>1. k \in 1..(Len(interQ) - 1) /\ k + 1 \in 1..Len(interQ) BY <2>3
    <3>2. Process(interQ[k + 1].val) = Due(Taken + (k + 1)) BY <1>0, <3>1 DEF Places
    <3>3. Taken' + k = Taken + (k + 1) BY <1>a, <2>2, <2>4, <3>1
    <3> QED BY <2>3, <3>1, <3>2, <3>3
  <2> QED BY <1>0, <1>a, <2>2, <2>3, <2>4, <2>5, <2>6 DEF Places
<1>3. CASE PushResult
  <2> DEFINE m == [val |-> result[1], clock |-> clock["ap"]]
  <2>1. /\ m \in [val : WorkResult, clock : Clock] /\ Len(result) = 1 /\ result' = <<>>
        /\ completionQ' = Append(completionQ, m)
    BY <1>3, PushedResult
  <2>2. UNCHANGED <<reports, interQ, sent>> BY <1>3 DEF PushResult, bspVars, bspData, batchVars
  <2>3. /\ Len(completionQ') = Len(completionQ) + 1 /\ completionQ'[Len(completionQ) + 1] = m
        /\ \A k \in 1..Len(completionQ) : completionQ'[k] = completionQ[k]
    BY <1>0, <2>1, Pushed DEF BatchType
  <2>4. Len(result') = 0 BY <2>1, EmptyQueue
  <2>5. result[1] = Due(Len(reports) + Len(completionQ) + 1) BY <1>0, <1>a, <2>1 DEF Places
  <2>6. ASSUME NEW k \in 1..Len(completionQ') PROVE completionQ'[k].val = Due(Reported + k)
    <3>1. CASE k \in 1..Len(completionQ) BY <1>0, <2>3, <3>1 DEF Places
    <3>2. CASE k = Len(completionQ) + 1
      <4>1. Reported + k = Len(reports) + Len(completionQ) + 1 BY <1>a, <3>2
      <4> QED BY <2>3, <2>5, <3>2, <4>1
    <3> QED BY <1>a, <2>3, <3>1, <3>2
  <2>7. Taken' = Taken /\ Reported' = Reported BY <1>a, <2>1, <2>2, <2>3, <2>4
  <2>8. \A k \in 1..Len(result') : FALSE BY <2>4
  <2>9. /\ sent' = Taken' + Len(interQ') /\ \A k \in 1..Len(reports') : reports'[k] = Due(k)
        /\ \A k \in 1..Len(interQ') : Process(interQ'[k].val) = Due(Taken' + k)
    BY <1>0, <2>2, <2>7 DEF Places
  <2>10. \A k \in 1..Len(completionQ') : completionQ'[k].val = Due(Reported' + k) BY <2>6, <2>7
  <2> HIDE DEF Reported, Completed, Taken
  <2> QED BY <2>8, <2>9, <2>10 DEF Places
<1>4. CASE Drain
  <2>1. /\ completionQ # <<>> /\ completionQ' = Tail(completionQ)
        /\ completionQ[1].val \in WorkResult /\ reports' = Append(reports, completionQ[1].val)
    BY <1>4, DrainedResult
  <2>2. UNCHANGED <<result, interQ, sent>> BY <1>4 DEF Drain, apVars, apData
  <2>3. /\ Len(completionQ) \in Nat \ {0} /\ Len(completionQ') = Len(completionQ) - 1
        /\ \A k \in 1..(Len(completionQ) - 1) : completionQ'[k] = completionQ[k + 1]
    BY <1>0, <2>1, Popped DEF BatchType
  <2>4. /\ Len(reports') = Len(reports) + 1 /\ reports'[Len(reports) + 1] = completionQ[1].val
        /\ \A k \in 1..Len(reports) : reports'[k] = reports[k]
    BY <1>0, <2>1, Pushed DEF BatchType
  <2>5. completionQ[1].val = Due(Len(reports) + 1) BY <1>0, <2>3 DEF Places
  <2>6. ASSUME NEW k \in 1..Len(reports') PROVE reports'[k] = Due(k)
    BY <1>0, <1>a, <2>4, <2>5 DEF Places
  <2>7. ASSUME NEW k \in 1..Len(completionQ') PROVE completionQ'[k].val = Due(Reported' + k)
    <3>1. k \in 1..(Len(completionQ) - 1) /\ k + 1 \in 1..Len(completionQ) BY <2>3
    <3>2. completionQ[k + 1].val = Due(Reported + (k + 1)) BY <1>0, <3>1 DEF Places
    <3>3. Reported' + k = Reported + (k + 1) BY <1>a, <2>4, <3>1
    <3> QED BY <2>3, <3>1, <3>2, <3>3
  <2>8. Completed' = Completed /\ Taken' = Taken BY <1>a, <2>2, <2>3, <2>4
  <2> QED BY <1>0, <2>2, <2>6, <2>7, <2>8 DEF Places
<1>5. CASE UNCHANGED <<sent, reports, completionQ, result, interQ, AP_PROCESSED,
                       succeeded, failed, records>>
  BY <1>0, <1>5 DEF Places
<1> QED BY <1>1, <1>2, <1>3, <1>4, <1>5, BatchSteps
\* Where the cores are in the batch.
LEMMA KeepsProgress == ASSUME KInv, Next PROVE Progress'
<1>0. /\ Progress /\ BatchType /\ Handshakes /\ bpc \in BspPcs /\ apc \in ApPcs
      /\ sent = Taken + Len(interQ) /\ sent \in 0..PACKET_COUNT
  BY BatchIsTyped DEF KInv, TypeOK, Places
<1>a. /\ Len(reports) \in Nat /\ Len(completionQ) \in Nat /\ Len(result) \in Nat /\ Len(interQ) \in Nat
      /\ Len(<<>>) = 0
  BY <1>0, QueueLength, EmptyQueue DEF BatchType
<1>b. PACKET_COUNT \in Nat \ {0} BY BatchAssumption
<1> USE DEF BspAt, ApAt, BspGoes, BspHalts, bspVars, bspData, batchVars, apVars, apData, queueVars,
  Alone,
  BspPcs, ApPcs, Handshakes, Reported, Completed, Taken
<1>1. CASE Boot BY <1>0, <1>1 DEF Progress, Boot
<1>2. CASE InitializePmm BY <1>0, <1>2 DEF Progress, InitializePmm
<1>3. CASE ProbeAllocate BY <1>0, <1>3 DEF Progress, ProbeAllocate
<1>4. CASE ProbeFree BY <1>0, <1>4 DEF Progress, ProbeFree
<1>5. CASE PrepareTensor BY <1>0, <1>5 DEF Progress, PrepareTensor
<1>6. CASE StartAp BY <1>0, <1>6 DEF Progress, StartAp
<1>7. CASE AwaitReady
  <2>1. sent' = 0 /\ bpc' = "send" /\ bpc = "wait" BY <1>0, <1>7 DEF Progress, AwaitReady
  <2>2. 0 < PACKET_COUNT BY <1>b
  <2>3. UNCHANGED <<apc, result, AP_PROCESSED, reports, completionQ>> BY <1>7 DEF AwaitReady
  <2> QED BY <1>0, <2>1, <2>2, <2>3 DEF Progress
<1>8. CASE SendPacket
  <2>1. sent' = sent + 1 /\ sent < PACKET_COUNT /\ bpc = "send"
    BY <1>0, <1>8 DEF Progress, SendPacket
  <2>2. sent' # PACKET_COUNT => sent' < PACKET_COUNT BY <1>0, <1>b, <2>1
  <2>3. bpc' = IF sent' = PACKET_COUNT THEN "send tensor" ELSE "send"
    BY <1>8 DEF SendPacket, LastPacket
  <2>4. UNCHANGED <<apc, result, AP_PROCESSED, reports, completionQ>> BY <1>8 DEF SendPacket
  <2> QED BY <1>0, <2>1, <2>2, <2>3, <2>4 DEF Progress
<1>9. CASE SendTensor BY <1>0, <1>9, TensorQueueHasRoom DEF Progress, SendTensor
<1>10. CASE AwaitTensor BY <1>0, <1>10 DEF Progress, AwaitTensor
<1>11. CASE ReadSum BY <1>0, <1>a, <1>b, <1>11 DEF Progress, ReadSum
<1>12. CASE Drain
  <2>1. /\ completionQ # <<>> /\ completionQ' = Tail(completionQ)
        /\ completionQ[1].val \in WorkResult /\ reports' = Append(reports, completionQ[1].val)
    BY <1>12, DrainedResult
  <2>2. Len(completionQ) \in Nat \ {0} /\ Len(completionQ') = Len(completionQ) - 1
    BY <1>0, <2>1, Popped DEF BatchType
  <2>a. reports \in Seq(WorkResult) BY <1>0 DEF BatchType
  <2>3. Len(reports') = Len(reports) + 1 BY <2>1, <2>a, Pushed
  <2>4. Completed' = Completed BY <1>a, <2>2, <2>3
  <2>5. Len(reports) < PACKET_COUNT /\ sent = PACKET_COUNT /\ apc = "halted" /\ bpc = "drain"
        /\ AP_PROCESSED = Completed
    BY <1>0, <1>12 DEF Progress, Drain
  <2>6. bpc' = IF Len(reports') = PACKET_COUNT THEN "verdict" ELSE "drain" BY <1>12 DEF Drain
  <2>7. UNCHANGED <<sent, apc, result, AP_PROCESSED>> BY <1>12 DEF Drain
  <2>8. result = <<>> BY <1>0, <2>5 DEF Progress
  <2> QED BY <1>a, <1>b, <2>3, <2>4, <2>5, <2>6, <2>7, <2>8 DEF Progress
<1>13. CASE Verdict BY <1>0, <1>13 DEF Progress, Verdict
<1>14. CASE Online BY <1>0, <1>14 DEF Progress, Online
<1>15. CASE PopPacket
  <2>1. result' = <<Process(interQ[1].val)>> BY <1>15, TakenPacket
  <2>2. Len(result') = 1 BY <2>1
  <2> QED BY <1>0, <1>15, <2>2 DEF Progress, PopPacket
<1>16. CASE PushResult
  <2> DEFINE m == [val |-> result[1], clock |-> clock["ap"]]
  <2>1. m \in [val : WorkResult, clock : Clock] /\ result' = <<>> /\ completionQ' = Append(completionQ, m)
    BY <1>16, PushedResult
  <2>a. completionQ \in Seq([val : WorkResult, clock : Clock]) BY <1>0 DEF BatchType
  <2>2. Len(completionQ') = Len(completionQ) + 1 BY <2>1, <2>a, Pushed
  <2>3. /\ UNCHANGED <<sent, reports, bpc>> /\ AP_PROCESSED' = AP_PROCESSED + 1 /\ apc' = "loop"
    BY <1>16 DEF PushResult
  <2>4. AP_PROCESSED = Completed /\ apc = "report" BY <1>0, <1>16 DEF Progress, PushResult
  <2>5. AP_PROCESSED' = Completed' BY <1>a, <2>2, <2>3, <2>4
  <2>6. bpc \in {"wait", "send", "send tensor", "await"} BY <1>0, <2>4
  <2> QED BY <1>0, <2>1, <2>3, <2>5, <2>6 DEF Progress
<1>17. CASE PopTensor BY <1>0, <1>17 DEF Progress, PopTensor
<1>18. CASE Reduce BY <1>0, <1>18 DEF Progress, Reduce
<1>19. CASE FreeFrame BY <1>0, <1>19 DEF Progress, FreeFrame
<1>20. CASE Complete BY <1>0, <1>20 DEF Progress, Complete
<1>21. CASE SerialStep("bsp") \/ SerialStep("ap")
  <2>1. UNCHANGED <<bpc, apc, sent, result, AP_PROCESSED, reports, completionQ>>
    BY <1>21 DEF SerialStep, SerialLock, SerialWrite, SerialUnlock
  <2> QED BY <1>0, <2>1 DEF Progress
<1> QED BY <1>1, <1>2, <1>3, <1>4, <1>5, <1>6, <1>7, <1>8, <1>9, <1>10, <1>11, <1>12, <1>13, <1>14,
  <1>15, <1>16, <1>17, <1>18, <1>19, <1>20, <1>21 DEF Next, BspStep, ApStep

\* The counters and the supervisor's log follow the reports.
LEMMA KeepsTallies == ASSUME KInv, Next PROVE Tallies'
<1>0. Tallies /\ BatchType /\ succeeded \in Nat /\ failed \in Nat
  BY BatchIsTyped, BatchAssumption DEF KInv, TypeOK
<1>a. Len(reports) \in Nat /\ Len(records) \in Nat BY <1>0, QueueLength DEF BatchType
<1>b. PACKET_COUNT \in Nat \ {0} /\ FAULTY \in Nat \ {0} BY BatchAssumption
<1>1. CASE Drain
  <2> DEFINE r == completionQ[1].val
  <2>1. /\ completionQ # <<>> /\ r \in WorkResult /\ Head(completionQ) = completionQ[1]
        /\ reports' = Append(reports, r)
    BY <1>1, DrainedResult
  <2>2. Len(reports') = Len(reports) + 1 BY <1>0, <2>1, Pushed DEF BatchType
  <2>3. Tally(r) /\ Sup!Observe(r) BY <1>1, <2>1 DEF Drain
  <2>4. r = Due(Len(reports) + 1)
    <3>1. Len(completionQ) \in Nat \ {0} BY <1>0, <2>1, QueueLength DEF BatchType
    <3> QED BY <3>1 DEF KInv, Places, Reported
  <2>5. r.failed = (Len(reports) + 1 = FAULTY) BY <2>4 DEF Due
  <2>6. CASE r.failed
    <3>0. Len(reports) + 1 = FAULTY BY <2>5, <2>6, Zenon
    <3>1. failed = 0 /\ Len(records) = 0 BY <1>0, <1>a, <1>b, <3>0 DEF Tallies, Reported
    <3>2. records' = Append(records, r) BY <1>b, <2>3, <2>6, <3>1 DEF Sup!Observe
    <3>3. Len(records') = 1 BY <1>0, <2>1, <3>1, <3>2, Pushed DEF BatchType
    <3>4. failed' = 1 /\ succeeded' = succeeded BY <2>3, <2>6, <3>1 DEF Tally
    <3> QED BY <1>0, <1>a, <1>b, <2>2, <3>0, <3>1, <3>3, <3>4 DEF Tallies, Reported
  <2>7. CASE ~r.failed
    <3>0. Len(reports) + 1 # FAULTY BY <2>5, <2>7, Zenon
    <3>1. records' = records BY <2>3, <2>7 DEF Sup!Observe
    <3>2. failed' = failed /\ succeeded' = succeeded + 1 BY <2>3, <2>7 DEF Tally
    <3> QED BY <1>0, <1>a, <1>b, <2>2, <3>0, <3>1, <3>2 DEF Tallies, Reported
  <2> QED BY <2>6, <2>7
<1>2. CASE SendPacket BY <1>0, <1>2 DEF Tallies, Reported, SendPacket, batchVars
<1>3. CASE PopPacket \/ PushResult
  BY <1>0, <1>3 DEF Tallies, Reported, PopPacket, PushResult, bspVars, bspData, batchVars
<1>4. CASE UNCHANGED <<sent, reports, completionQ, result, interQ, AP_PROCESSED,
                       succeeded, failed, records>>
  BY <1>0, <1>4 DEF Tallies, Reported
<1> QED BY <1>1, <1>2, <1>3, <1>4, BatchSteps
-----------------------------------------------------------------------------
(* What is printed.                                                        *)

\* Every line to print is one of the program's, and none of those that
\* report a wrong kernel.
LEMMA KeepsTodo == ASSUME KInv, Next PROVE todo' \in [Cores -> Seq(Lines)] /\ NoBadLine'
<1>0. todo \in [Cores -> Seq(Lines)] /\ NoBadLine BY DEF KInv, TypeOK
<1>a. ASSUME NEW c \in Cores, NEW lines \in Seq(Lines), \A k \in 1..Len(lines) : lines[k] \notin Bad,
             todo' = [todo EXCEPT ![c] = lines]
      PROVE  todo' \in [Cores -> Seq(Lines)] /\ NoBadLine'
  BY <1>0, <1>a DEF NoBadLine
<1>b. ASSUME NEW c \in Cores, NEW l \in Lines \ Bad, todo' = [todo EXCEPT ![c] = <<l>>]
      PROVE  todo' \in [Cores -> Seq(Lines)] /\ NoBadLine'
  <2>1. <<l>> \in Seq(Lines) /\ \A k \in 1..Len(<<l>>) : <<l>>[k] \notin Bad OBVIOUS
  <2> QED BY <1>a, <1>b, <2>1
<1>c. ASSUME NEW c \in Cores, todo' = [todo EXCEPT ![c] = <<>>]
      PROVE  todo' \in [Cores -> Seq(Lines)] /\ NoBadLine'
  <2>1. <<>> \in Seq(Lines) /\ \A k \in 1..Len(<<>>) : <<>>[k] \notin Bad OBVIOUS
  <2> QED BY <1>a, <1>c, <2>1
<1>e. ASSUME NEW c \in Cores, NEW l \in Lines \ Bad, NEW m \in Lines \ Bad,
             todo' = [todo EXCEPT ![c] = <<l, m>>]
      PROVE  todo' \in [Cores -> Seq(Lines)] /\ NoBadLine'
  <2>1. <<l, m>> \in Seq(Lines) /\ \A k \in 1..Len(<<l, m>>) : <<l, m>>[k] \notin Bad OBVIOUS
  <2> QED BY <1>a, <1>e, <2>1
<1>d. ASSUME todo' = todo PROVE todo' \in [Cores -> Seq(Lines)] /\ NoBadLine'
  BY <1>0, <1>d DEF NoBadLine
<1> USE DEF Cores, Printing, BspHalts, Lines, Bad, serialVars
<1>1. CASE Boot BY <1>b, <1>1 DEF Boot
<1>2. CASE InitializePmm BY <1>b, <1>2 DEF InitializePmm
<1>3. CASE ProbeAllocate BY <1>b, <1>3 DEF ProbeAllocate
<1>4. CASE ProbeFree
  <2>1. answer'.ok BY <1>4, ProbeIsFreed
  <2> QED BY <1>b, <1>4, <2>1 DEF ProbeFree
<1>5. CASE PrepareTensor BY <1>b, <1>c, <1>5 DEF PrepareTensor
<1>6. CASE StartAp BY <1>b, <1>d, <1>6 DEF StartAp
<1>7. CASE AwaitReady BY <1>e, <1>7 DEF AwaitReady
<1>8. CASE SendPacket BY <1>d, <1>8 DEF SendPacket
<1>9. CASE SendTensor BY <1>d, <1>9, TensorQueueHasRoom
<1>10. CASE AwaitTensor BY <1>d, <1>10 DEF AwaitTensor
<1>11. CASE ReadSum BY <1>b, <1>11 DEF ReadSum
<1>12. CASE Drain
  <2>1. \/ todo' = [todo EXCEPT !["bsp"] = <<"trace failed">>]
        \/ todo' = [todo EXCEPT !["bsp"] = <<"trace ok">>]
    BY <1>12 DEF Drain
  <2> QED BY <1>b, <2>1
<1>13. CASE Verdict
  <2>1. Reported = PACKET_COUNT /\ Tallies BY <1>13 DEF KInv, Progress, Verdict, BspAt
  <2>2. failed = 1 BY <2>1, BatchAssumption DEF Tallies
  <2>z. succeeded \in 0..PACKET_COUNT BY DEF KInv, TypeOK
  <2>a. succeeded \in Nat /\ PACKET_COUNT \in Nat BY <2>z, BatchAssumption
  <2>b. succeeded + 1 = PACKET_COUNT /\ Len(records) = 1 BY <2>1, <2>2 DEF Tallies
  <2>3. succeeded = PACKET_COUNT - 1 /\ Sup!FailureCount = 1 BY <2>a, <2>b DEF Sup!FailureCount
  <2> QED BY <1>b, <1>13, <2>2, <2>3 DEF Verdict
<1>14. CASE Online BY <1>b, <1>14 DEF Online
<1>15. CASE PopPacket BY <1>d, <1>15 DEF PopPacket
<1>16. CASE PushResult BY <1>d, <1>16 DEF PushResult
<1>17. CASE PopTensor BY <1>d, <1>17 DEF PopTensor
<1>18. CASE Reduce BY <1>d, <1>18 DEF Reduce
<1>19. CASE FreeFrame
  <2>1. answer'.ok BY <1>19, TensorFrameIsFreed
  <2>2. apSum = TENSOR_ELEMENTS BY <1>19 DEF KInv, Reduction, FreeFrame, ApAt
  <2>3. todo' = [todo EXCEPT !["ap"] = <<"reduced">>] BY <1>19, <2>1, <2>2 DEF FreeFrame
  <2> QED BY <1>b, <2>3
<1>20. CASE Complete BY <1>d, <1>20 DEF Complete
<1>21. ASSUME NEW c \in Cores, SerialStep(c)
       PROVE  todo' \in [Cores -> Seq(Lines)] /\ NoBadLine'
  <2>1. CASE SerialLock(c) \/ SerialWrite(c) BY <1>d, <2>1 DEF SerialLock, SerialWrite
  <2>2. CASE SerialUnlock(c)
    <3>1. todo[c] # <<>> /\ todo[c] \in Seq(Lines) BY <1>0, <2>2 DEF KInv, SerialInv, SerialUnlock
    <3> HIDE DEF Lines, Bad
    <3>2. /\ Tail(todo[c]) \in Seq(Lines)
          /\ \A k \in 1..Len(Tail(todo[c])) : k + 1 \in 1..Len(todo[c]) /\ Tail(todo[c])[k] = todo[c][k + 1]
      BY <3>1, Popped, TailItems
    <3>3. \A k \in 1..Len(Tail(todo[c])) : Tail(todo[c])[k] \notin Bad BY <1>0, <3>2 DEF NoBadLine
    <3>4. todo' = [todo EXCEPT ![c] = Tail(todo[c])] BY <2>2 DEF SerialUnlock
    <3> QED BY <1>a, <3>2, <3>3, <3>4
  <2> QED BY <1>21, <2>1, <2>2 DEF SerialStep
<1> QED BY <1>1, <1>2, <1>3, <1>4, <1>5, <1>6, <1>7, <1>8, <1>9, <1>10, <1>11, <1>12, <1>13, <1>14,
  <1>15, <1>16, <1>17, <1>18, <1>19, <1>20, <1>21 DEF Next, BspStep, ApStep
-----------------------------------------------------------------------------
(* Types.                                                                  *)

\* Program counters, and Limine's answers.
LEMMA KeepsControlType ==
    ASSUME KInv, Next
    PROVE  boot' \in BootType /\ bpc' \in BspPcs /\ apc' \in ApPcs
<1>0. boot \in BootType /\ bpc \in BspPcs /\ apc \in ApPcs BY DEF KInv, TypeOK
<1> USE DEF BspPcs, ApPcs, BspGoes, BspHalts, bspVars, apVars
<1>1. CASE Boot BY <1>0, <1>1 DEF Boot
<1>2. CASE InitializePmm BY <1>0, <1>2 DEF InitializePmm
<1>3. CASE ProbeAllocate BY <1>0, <1>3 DEF ProbeAllocate
<1>4. CASE ProbeFree BY <1>0, <1>4 DEF ProbeFree
<1>5. CASE PrepareTensor BY <1>0, <1>5 DEF PrepareTensor
<1>6. CASE StartAp BY <1>0, <1>6 DEF StartAp
<1>7. CASE AwaitReady BY <1>0, <1>7 DEF AwaitReady
<1>8. CASE SendPacket BY <1>0, <1>8 DEF SendPacket
<1>9. CASE SendTensor BY <1>0, <1>9 DEF SendTensor
<1>10. CASE AwaitTensor BY <1>0, <1>10 DEF AwaitTensor
<1>11. CASE ReadSum BY <1>0, <1>11 DEF ReadSum
<1>12. CASE Drain BY <1>0, <1>12 DEF Drain
<1>13. CASE Verdict BY <1>0, <1>13 DEF Verdict
<1>14. CASE Online BY <1>0, <1>14 DEF Online
<1>15. CASE PopPacket BY <1>0, <1>15 DEF PopPacket
<1>16. CASE PushResult BY <1>0, <1>16 DEF PushResult
<1>17. CASE PopTensor BY <1>0, <1>17 DEF PopTensor
<1>18. CASE Reduce BY <1>0, <1>18 DEF Reduce
<1>19. CASE FreeFrame BY <1>0, <1>19 DEF FreeFrame
<1>20. CASE Complete BY <1>0, <1>20 DEF Complete
<1>21. CASE SerialStep("bsp") \/ SerialStep("ap")
  BY <1>0, <1>21 DEF SerialStep, SerialLock, SerialWrite, SerialUnlock
<1> QED BY <1>1, <1>2, <1>3, <1>4, <1>5, <1>6, <1>7, <1>8, <1>9, <1>10, <1>11, <1>12, <1>13, <1>14,
  <1>15, <1>16, <1>17, <1>18, <1>19, <1>20, <1>21 DEF Next, BspStep, ApStep

\* Frames and the allocator.
LEMMA KeepsFrameType ==
    ASSUME KInv, Next
    PROVE  /\ frame' \in Frames \cup {None} /\ chunk' \in Addresses \cup {None}
           /\ free' \subseteq usable' /\ usable' \subseteq Frames
           /\ answer' \in [frame : Frames \cup {None}, ok : BOOLEAN]
           /\ content' \in {"garbage", "ones"}
<1>0. /\ boot \in BootType /\ frame \in Frames \cup {None} /\ chunk \in Addresses \cup {None}
      /\ free \subseteq usable /\ usable \subseteq Frames
      /\ answer \in [frame : Frames \cup {None}, ok : BOOLEAN] /\ content \in {"garbage", "ones"}
  BY DEF KInv, TypeOK
<1>a. ASSUME Pmm!Allocate
      PROVE  /\ answer' \in [frame : Frames \cup {None}, ok : BOOLEAN]
             /\ usable' = usable /\ free' \subseteq free /\ answer'.frame \in Frames \cup {None}
  <2>1. CASE free = {} /\ free' = free /\ answer' = [frame |-> None, ok |-> FALSE]
    BY <1>a, <2>1, Allocated
  <2>2. CASE \E f \in free : free' = free \ {f} /\ answer' = [frame |-> f, ok |-> TRUE]
    <3> PICK f \in free : free' = free \ {f} /\ answer' = [frame |-> f, ok |-> TRUE] BY <2>2
    <3> QED BY <1>0, <1>a, Allocated
  <2> QED BY <1>a, <2>1, <2>2, Allocated
<1> USE DEF frameVars, apVars, apData, bspVars, bspData
<1>1. CASE Boot BY <1>0, <1>1 DEF Boot
<1>2. CASE InitializePmm BY <1>0, <1>2 DEF InitializePmm, Pmm!Initialize, BootType
<1>3. CASE ProbeAllocate BY <1>0, <1>a, <1>3 DEF ProbeAllocate
<1>4. CASE ProbeFree
  <2>1. /\ usable' = usable /\ free' = usable /\ frame \in usable /\ answer' = [frame |-> frame, ok |-> TRUE]
    BY <1>4, ProbeIsFreed
  <2>2. answer' \in [frame : Frames \cup {None}, ok : BOOLEAN] BY <1>0, <2>1
  <2> QED BY <1>0, <1>4, <2>1, <2>2 DEF ProbeFree
<1>5. CASE PrepareTensor BY <1>0, <1>a, <1>5 DEF PrepareTensor
<1>6. CASE StartAp BY <1>0, <1>6 DEF StartAp
<1>7. CASE AwaitReady BY <1>0, <1>7 DEF AwaitReady
<1>8. CASE SendPacket BY <1>0, <1>8 DEF SendPacket
<1>9. CASE SendTensor BY <1>0, <1>9 DEF SendTensor
<1>10. CASE AwaitTensor BY <1>0, <1>10 DEF AwaitTensor
<1>11. CASE ReadSum BY <1>0, <1>11 DEF ReadSum
<1>12. CASE Drain BY <1>0, <1>12 DEF Drain
<1>13. CASE Verdict BY <1>0, <1>13 DEF Verdict
<1>14. CASE Online BY <1>0, <1>14 DEF Online
<1>15. CASE PopPacket BY <1>0, <1>15 DEF PopPacket
<1>16. CASE PushResult BY <1>0, <1>16 DEF PushResult
<1>17. CASE PopTensor
  <2>1. chunk' = Address(frame) BY <1>17, TensorIsTaken
  <2>2. frame \in Frames
    BY <1>0, <1>17, TensorIsTaken DEF KInv, Ledger, Held, PopTensor, ApAt
  <2>3. chunk' \in Addresses BY <2>1, <2>2 DEF Addresses
  <2> QED BY <1>0, <1>17, <2>3 DEF PopTensor
<1>18. CASE Reduce BY <1>0, <1>18 DEF Reduce
<1>19. CASE FreeFrame
  <2>1. /\ usable' = usable /\ free' = usable /\ frame \in usable /\ answer' = [frame |-> frame, ok |-> TRUE]
    BY <1>19, TensorFrameIsFreed
  <2>2. answer' \in [frame : Frames \cup {None}, ok : BOOLEAN] BY <1>0, <2>1
  <2> QED BY <1>0, <1>19, <2>1, <2>2 DEF FreeFrame
<1>20. CASE Complete BY <1>0, <1>20 DEF Complete
<1>21. CASE SerialStep("bsp") \/ SerialStep("ap")
  BY <1>0, <1>21 DEF SerialStep, SerialLock, SerialWrite, SerialUnlock
<1> QED BY <1>1, <1>2, <1>3, <1>4, <1>5, <1>6, <1>7, <1>8, <1>9, <1>10, <1>11, <1>12, <1>13, <1>14,
  <1>15, <1>16, <1>17, <1>18, <1>19, <1>20, <1>21 DEF Next, BspStep, ApStep

\* The sums.
LEMMA KeepsSumType ==
    ASSUME KInv, Next
    PROVE  /\ tensorSum' \in Sums \cup {None} /\ apSum' \in Sums \cup {None}
           /\ TENSOR_SUM_BITS' \in Sums
<1>0. tensorSum \in Sums \cup {None} /\ apSum \in Sums \cup {None} /\ TENSOR_SUM_BITS \in Sums
  BY DEF KInv, TypeOK
<1> USE DEF Sums, flagVars, apVars, apData, bspVars, bspData
<1>1. CASE Boot BY <1>0, <1>1 DEF Boot
<1>2. CASE InitializePmm BY <1>0, <1>2 DEF InitializePmm
<1>3. CASE ProbeAllocate BY <1>0, <1>3 DEF ProbeAllocate
<1>4. CASE ProbeFree BY <1>0, <1>4 DEF ProbeFree
<1>5. CASE PrepareTensor BY <1>0, <1>5 DEF PrepareTensor
<1>6. CASE StartAp BY <1>0, <1>6 DEF StartAp
<1>7. CASE AwaitReady BY <1>0, <1>7 DEF AwaitReady
<1>8. CASE SendPacket BY <1>0, <1>8 DEF SendPacket
<1>9. CASE SendTensor BY <1>0, <1>9 DEF SendTensor
<1>10. CASE AwaitTensor BY <1>0, <1>10 DEF AwaitTensor
<1>11. CASE ReadSum BY <1>0, <1>11 DEF ReadSum
<1>12. CASE Drain BY <1>0, <1>12 DEF Drain
<1>13. CASE Verdict BY <1>0, <1>13 DEF Verdict
<1>14. CASE Online BY <1>0, <1>14 DEF Online
<1>15. CASE PopPacket BY <1>0, <1>15 DEF PopPacket
<1>16. CASE PushResult BY <1>0, <1>16 DEF PushResult
<1>17. CASE PopTensor BY <1>0, <1>17 DEF PopTensor
<1>18. CASE Reduce BY <1>0, <1>18 DEF Reduce
<1>19. CASE FreeFrame BY <1>0, <1>19 DEF FreeFrame
<1>20. CASE Complete BY <1>0, <1>20 DEF Complete
<1>21. CASE SerialStep("bsp") \/ SerialStep("ap")
  BY <1>0, <1>21 DEF SerialStep, SerialLock, SerialWrite, SerialUnlock
<1> QED BY <1>1, <1>2, <1>3, <1>4, <1>5, <1>6, <1>7, <1>8, <1>9, <1>10, <1>11, <1>12, <1>13, <1>14,
  <1>15, <1>16, <1>17, <1>18, <1>19, <1>20, <1>21 DEF Next, BspStep, ApStep

\* Flags, the lock and serial_write's steps.
LEMMA KeepsFlagType ==
    ASSUME KInv, Next
    PROVE  /\ AP_READY' \in Flag /\ TENSOR_COMPLETE' \in Flag /\ lock' \in Flag
           /\ spc' \in [Cores -> {"spin", "write", "unlock"}]
<1>0. /\ AP_READY \in Flag /\ TENSOR_COMPLETE \in Flag /\ lock \in Flag
      /\ spc \in [Cores -> {"spin", "write", "unlock"}] /\ clock \in [Cores -> Clock]
  BY DEF KInv, TypeOK
<1> USE DEF flagVars, serialVars, Printing, BspHalts, Flag, Cores, Raised
<1>1. CASE Boot BY <1>0, <1>1 DEF Boot
<1>2. CASE InitializePmm BY <1>0, <1>2 DEF InitializePmm
<1>3. CASE ProbeAllocate BY <1>0, <1>3 DEF ProbeAllocate
<1>4. CASE ProbeFree BY <1>0, <1>4 DEF ProbeFree
<1>5. CASE PrepareTensor BY <1>0, <1>5 DEF PrepareTensor
<1>6. CASE StartAp BY <1>0, <1>6 DEF StartAp
<1>7. CASE AwaitReady BY <1>0, <1>7 DEF AwaitReady
<1>8. CASE SendPacket BY <1>0, <1>8 DEF SendPacket
<1>9. CASE SendTensor BY <1>0, <1>9 DEF SendTensor
<1>10. CASE AwaitTensor BY <1>0, <1>10 DEF AwaitTensor
<1>11. CASE ReadSum BY <1>0, <1>11 DEF ReadSum
<1>12. CASE Drain BY <1>0, <1>12 DEF Drain
<1>13. CASE Verdict BY <1>0, <1>13 DEF Verdict
<1>14. CASE Online BY <1>0, <1>14 DEF Online
<1>15. CASE PopPacket BY <1>0, <1>15 DEF PopPacket
<1>16. CASE PushResult BY <1>0, <1>16 DEF PushResult
<1>17. CASE PopTensor BY <1>0, <1>17 DEF PopTensor
<1>18. CASE Reduce BY <1>0, <1>18 DEF Reduce
<1>19. CASE FreeFrame BY <1>0, <1>19 DEF FreeFrame
<1>20. CASE Complete BY <1>0, <1>20 DEF Complete
<1>21. CASE SerialStep("bsp") \/ SerialStep("ap")
  <2>1. ASSUME NEW c \in Cores, SerialLock(c)
        PROVE  lock' \in Flag /\ spc' \in [Cores -> {"spin", "write", "unlock"}]
    <3>1. lock' = [set |-> TRUE, clock |-> lock.clock] BY <1>0, <2>1 DEF SerialLock
    <3> QED BY <1>0, <2>1, <3>1 DEF SerialLock
  <2>2. ASSUME NEW c \in Cores, SerialWrite(c)
        PROVE  lock' \in Flag /\ spc' \in [Cores -> {"spin", "write", "unlock"}]
    BY <1>0, <2>2 DEF SerialWrite
  <2>3. ASSUME NEW c \in Cores, SerialUnlock(c)
        PROVE  lock' \in Flag /\ spc' \in [Cores -> {"spin", "write", "unlock"}]
    BY <1>0, <2>3 DEF SerialUnlock, Lowered
  <2>4. UNCHANGED <<AP_READY, TENSOR_COMPLETE>>
    BY <1>21 DEF SerialStep, SerialLock, SerialWrite, SerialUnlock
  <2>5. lock' \in Flag /\ spc' \in [Cores -> {"spin", "write", "unlock"}]
    BY <1>21, <2>1, <2>2, <2>3 DEF SerialStep
  <2> QED BY <1>0, <2>4, <2>5
<1> QED BY <1>1, <1>2, <1>3, <1>4, <1>5, <1>6, <1>7, <1>8, <1>9, <1>10, <1>11, <1>12, <1>13, <1>14,
  <1>15, <1>16, <1>17, <1>18, <1>19, <1>20, <1>21 DEF Next, BspStep, ApStep

\* Lines on the UART.
LEMMA KeepsConsoleType == ASSUME KInv, Next PROVE console' \in Seq(Lines)
<1>0. console \in Seq(Lines) BY DEF KInv, TypeOK
<1> USE DEF serialVars, Printing, BspHalts
<1>1. CASE Boot BY <1>0, <1>1 DEF Boot
<1>2. CASE InitializePmm BY <1>0, <1>2 DEF InitializePmm
<1>3. CASE ProbeAllocate BY <1>0, <1>3 DEF ProbeAllocate
<1>4. CASE ProbeFree BY <1>0, <1>4 DEF ProbeFree
<1>5. CASE PrepareTensor BY <1>0, <1>5 DEF PrepareTensor
<1>6. CASE StartAp BY <1>0, <1>6 DEF StartAp
<1>7. CASE AwaitReady BY <1>0, <1>7 DEF AwaitReady
<1>8. CASE SendPacket BY <1>0, <1>8 DEF SendPacket
<1>9. CASE SendTensor BY <1>0, <1>9 DEF SendTensor
<1>10. CASE AwaitTensor BY <1>0, <1>10 DEF AwaitTensor
<1>11. CASE ReadSum BY <1>0, <1>11 DEF ReadSum
<1>12. CASE Drain BY <1>0, <1>12 DEF Drain
<1>13. CASE Verdict BY <1>0, <1>13 DEF Verdict
<1>14. CASE Online BY <1>0, <1>14 DEF Online
<1>15. CASE PopPacket BY <1>0, <1>15 DEF PopPacket
<1>16. CASE PushResult BY <1>0, <1>16 DEF PushResult
<1>17. CASE PopTensor BY <1>0, <1>17 DEF PopTensor
<1>18. CASE Reduce BY <1>0, <1>18 DEF Reduce
<1>19. CASE FreeFrame BY <1>0, <1>19 DEF FreeFrame
<1>20. CASE Complete BY <1>0, <1>20 DEF Complete
<1>21. CASE SerialStep("bsp") \/ SerialStep("ap")
  <2>1. ASSUME NEW c \in Cores, SerialWrite(c) PROVE console' \in Seq(Lines)
    <3>1. todo[c] # <<>> /\ todo[c] \in Seq(Lines) BY <2>1 DEF KInv, TypeOK, SerialInv, SerialWrite
    <3>2. Head(todo[c]) \in Lines BY <3>1, Popped
    <3> QED BY <1>0, <2>1, <3>2, Pushed DEF SerialWrite
  <2> QED BY <1>0, <1>21, <2>1 DEF SerialStep, SerialLock, SerialUnlock, Cores
<1> QED BY <1>1, <1>2, <1>3, <1>4, <1>5, <1>6, <1>7, <1>8, <1>9, <1>10, <1>11, <1>12, <1>13, <1>14,
  <1>15, <1>16, <1>17, <1>18, <1>19, <1>20, <1>21 DEF Next, BspStep, ApStep

\* TENSOR_QUEUE.
LEMMA KeepsTensorQType ==
    ASSUME KInv, Next
    PROVE  tensorQ' \in Seq([val : Addresses, clock : Clock]) /\ Len(tensorQ') <= TENSOR_CAP
<1>0. tensorQ \in Seq([val : Addresses, clock : Clock]) /\ Len(tensorQ) <= TENSOR_CAP
  BY DEF KInv, TypeOK
<1> USE DEF queueVars
<1>1. CASE Boot BY <1>0, <1>1 DEF Boot
<1>2. CASE InitializePmm BY <1>0, <1>2 DEF InitializePmm
<1>3. CASE ProbeAllocate BY <1>0, <1>3 DEF ProbeAllocate
<1>4. CASE ProbeFree BY <1>0, <1>4 DEF ProbeFree
<1>5. CASE PrepareTensor BY <1>0, <1>5 DEF PrepareTensor
<1>6. CASE StartAp BY <1>0, <1>6 DEF StartAp
<1>7. CASE AwaitReady BY <1>0, <1>7 DEF AwaitReady
<1>8. CASE SendPacket BY <1>0, <1>8 DEF SendPacket
<1>9. CASE SendTensor
  <2>1. tensorQ' = <<Message("bsp", Address(frame))>> /\ Len(tensorQ') = 1
    BY <1>9, TensorQueueHasRoom
  <2>2. frame \in Frames /\ clock["bsp"] \in Clock
    BY <1>9 DEF KInv, TypeOK, Ledger, Held, SendTensor, BspAt, Cores
  <2>3. Message("bsp", Address(frame)) \in [val : Addresses, clock : Clock]
    BY <2>2 DEF Message, Addresses
  <2>4. 1 <= TENSOR_CAP BY BatchAssumption
  <2> QED BY <2>1, <2>3, <2>4
<1>10. CASE AwaitTensor BY <1>0, <1>10 DEF AwaitTensor
<1>11. CASE ReadSum BY <1>0, <1>11 DEF ReadSum
<1>12. CASE Drain BY <1>0, <1>12 DEF Drain
<1>13. CASE Verdict BY <1>0, <1>13 DEF Verdict
<1>14. CASE Online BY <1>0, <1>14 DEF Online
<1>15. CASE PopPacket BY <1>0, <1>15 DEF PopPacket
<1>16. CASE PushResult BY <1>0, <1>16 DEF PushResult
<1>17. CASE PopTensor
  <2>1. tensorQ' = <<>> BY <1>17, TensorIsTaken
  <2> QED BY <2>1, BatchAssumption, EmptyQueue
<1>18. CASE Reduce BY <1>0, <1>18 DEF Reduce
<1>19. CASE FreeFrame BY <1>0, <1>19 DEF FreeFrame
<1>20. CASE Complete BY <1>0, <1>20 DEF Complete
<1>21. CASE SerialStep("bsp") \/ SerialStep("ap")
  BY <1>0, <1>21 DEF SerialStep, SerialLock, SerialWrite, SerialUnlock
<1> QED BY <1>1, <1>2, <1>3, <1>4, <1>5, <1>6, <1>7, <1>8, <1>9, <1>10, <1>11, <1>12, <1>13, <1>14,
  <1>15, <1>16, <1>17, <1>18, <1>19, <1>20, <1>21 DEF Next, BspStep, ApStep

\* The batch's queues, counters and logs.
LEMMA KeepsBatchType ==
    ASSUME KInv, Next
    PROVE  /\ sent' \in 0..PACKET_COUNT /\ reports' \in Seq(WorkResult) /\ records' \in Seq(WorkResult)
           /\ result' \in Seq(WorkResult)
           /\ interQ' \in Seq([val : Packet, clock : Clock]) /\ Len(interQ') <= INTER_CAP
           /\ completionQ' \in Seq([val : WorkResult, clock : Clock])
           /\ Len(completionQ') <= COMPLETION_CAP
<1>0. /\ sent \in 0..PACKET_COUNT /\ reports \in Seq(WorkResult) /\ records \in Seq(WorkResult)
      /\ result \in Seq(WorkResult)
      /\ interQ \in Seq([val : Packet, clock : Clock]) /\ Len(interQ) <= INTER_CAP
      /\ completionQ \in Seq([val : WorkResult, clock : Clock]) /\ Len(completionQ) <= COMPLETION_CAP
  BY DEF KInv, TypeOK
<1>a. INTER_CAP \in Nat /\ COMPLETION_CAP \in Nat /\ PACKET_COUNT \in Nat
  BY BatchAssumption, CompletionAssumption
<1>b. Len(interQ) \in Nat /\ Len(completionQ) \in Nat BY <1>0, QueueLength
<1>1. CASE SendPacket
  <2> DEFINE m == [val |-> [trace |-> sent + 1, empty |-> sent + 1 = FAULTY],
                   clock |-> clock["bsp"]]
  <2>1. m \in [val : Packet, clock : Clock] /\ interQ' = Append(interQ, m) /\ Len(interQ) < INTER_CAP
    BY <1>1, SentPacket
  <2>2. interQ' \in Seq([val : Packet, clock : Clock]) /\ Len(interQ') = Len(interQ) + 1
    <3> HIDE DEF m
    <3> QED BY <1>0, <2>1, Pushed
  <2>3. sent' = sent + 1 /\ sent < PACKET_COUNT BY <1>1 DEF SendPacket, KInv, Progress, BspAt
  <2>4. sent' \in 0..PACKET_COUNT BY <1>0, <1>a, <2>3
  <2>5. Len(interQ') <= INTER_CAP BY <1>a, <1>b, <2>1, <2>2
  <2>6. UNCHANGED <<reports, records, result, completionQ>>
    BY <1>1 DEF SendPacket, batchVars, apVars, apData
  <2> QED BY <1>0, <2>2, <2>4, <2>5, <2>6
<1>2. CASE PopPacket
  <2>1. /\ interQ # <<>> /\ interQ' = Tail(interQ) /\ Process(interQ[1].val) \in WorkResult
        /\ result' = <<Process(interQ[1].val)>>
    BY <1>2, TakenPacket
  <2>2. interQ' \in Seq([val : Packet, clock : Clock]) /\ Len(interQ') = Len(interQ) - 1
    BY <1>0, <2>1, Popped
  <2>3. Len(interQ') <= INTER_CAP BY <1>0, <1>a, <1>b, <2>2
  <2>4. result' \in Seq(WorkResult) BY <2>1
  <2>5. UNCHANGED <<sent, reports, records, completionQ>>
    BY <1>2 DEF PopPacket, bspVars, bspData, batchVars
  <2> QED BY <1>0, <2>2, <2>3, <2>4, <2>5
<1>3. CASE PushResult
  <2> DEFINE m == [val |-> result[1], clock |-> clock["ap"]]
  <2>1. /\ m \in [val : WorkResult, clock : Clock] /\ result' = <<>>
        /\ completionQ' = Append(completionQ, m) /\ Len(completionQ) < COMPLETION_CAP
    BY <1>3, PushedResult
  <2>2. completionQ' \in Seq([val : WorkResult, clock : Clock]) /\ Len(completionQ') = Len(completionQ) + 1
    <3> HIDE DEF m
    <3> QED BY <1>0, <2>1, Pushed
  <2>3. Len(completionQ') <= COMPLETION_CAP BY <1>a, <1>b, <2>1, <2>2
  <2>4. result' \in Seq(WorkResult) BY <2>1
  <2>5. UNCHANGED <<sent, reports, records, interQ>>
    BY <1>3 DEF PushResult, bspVars, bspData, batchVars
  <2> QED BY <1>0, <2>2, <2>3, <2>4, <2>5
<1>4. CASE Drain
  <2> DEFINE r == completionQ[1].val
  <2>1. /\ completionQ # <<>> /\ completionQ' = Tail(completionQ) /\ Head(completionQ) = completionQ[1]
        /\ r \in WorkResult /\ reports' = Append(reports, r)
    BY <1>4, DrainedResult
  <2>2. completionQ' \in Seq([val : WorkResult, clock : Clock]) /\ Len(completionQ') = Len(completionQ) - 1
    BY <1>0, <2>1, Popped
  <2>3. Len(completionQ') <= COMPLETION_CAP BY <1>0, <1>a, <1>b, <2>2
  <2>4. reports' \in Seq(WorkResult) BY <1>0, <2>1, Pushed
  <2>5. records' = records \/ records' = Append(records, r) BY <1>4, <2>1 DEF Drain, Sup!Observe
  <2>a. records \in Seq(WorkResult) /\ r \in WorkResult BY <1>0, <2>1
  <2>6. records' \in Seq(WorkResult)
    <3> HIDE DEF r
    <3>1. CASE records' = records BY <2>a, <3>1
    <3>2. CASE records' = Append(records, r) BY <2>a, <3>2, Pushed
    <3> QED BY <2>5, <3>1, <3>2
  <2>7. UNCHANGED <<sent, result, interQ>> BY <1>4 DEF Drain, apVars, apData
  <2> QED BY <1>0, <2>2, <2>3, <2>4, <2>6, <2>7
<1>5. CASE UNCHANGED <<sent, reports, completionQ, result, interQ, AP_PROCESSED,
                       succeeded, failed, records>>
  BY <1>0, <1>5
<1> QED BY <1>1, <1>2, <1>3, <1>4, <1>5, BatchSteps

\* The batch's counters stay within the batch.
LEMMA KeepsCounters ==
    ASSUME KInv, Next
    PROVE  /\ succeeded' \in 0..PACKET_COUNT /\ failed' \in 0..PACKET_COUNT
           /\ AP_PROCESSED' \in 0..PACKET_COUNT
<1>1. Places' /\ Progress' /\ Tallies' BY KeepsPlaces, KeepsProgress, KeepsTallies
<1>2. /\ Len(reports') \in Nat /\ Len(completionQ') \in Nat /\ Len(result') \in Nat /\ Len(interQ') \in Nat
      /\ sent' \in 0..PACKET_COUNT
  BY KeepsBatchType, QueueLength
<1>3. sent' = Len(reports') + Len(completionQ') + Len(result') + Len(interQ')
  BY <1>1 DEF Places, Reported, Completed, Taken
<1>4. AP_PROCESSED' = Len(reports') + Len(completionQ') BY <1>1 DEF Progress, Reported, Completed
<1>5. succeeded' + failed' = Len(reports') /\ failed' \in {0, 1} BY <1>1 DEF Tallies, Reported
<1>6. Len(reports') < FAULTY => failed' = 0 BY <1>1, <1>2, BatchAssumption DEF Tallies, Reported
<1>7. succeeded' \in Nat
  <2>0. succeeded \in Nat BY BatchAssumption DEF KInv, TypeOK
  <2>1. CASE Drain
    <3>1. Tally(Head(completionQ).val) BY <2>1 DEF Drain
    <3>2. succeeded' = succeeded \/ succeeded' = succeeded + 1 BY <3>1 DEF Tally
    <3> QED BY <2>0, <3>2
  <2>2. CASE ~Drain
    <3>1. succeeded' = succeeded
      BY <2>2, BatchSteps DEF SendPacket, PopPacket, PushResult, bspVars, bspData, batchVars
    <3> QED BY <2>0, <3>1
  <2> QED BY <2>1, <2>2
<1>8. PACKET_COUNT \in Nat /\ FAULTY \in Nat BY BatchAssumption
<1>9. sent' <= PACKET_COUNT /\ sent' \in Nat BY <1>2, <1>8
<1>10. AP_PROCESSED' \in 0..PACKET_COUNT BY <1>2, <1>3, <1>4, <1>8, <1>9
<1>11. Len(reports') <= PACKET_COUNT BY <1>2, <1>3, <1>8, <1>9
<1>12. failed' \in Nat BY <1>5
<1>13. succeeded' \in 0..PACKET_COUNT /\ failed' \in 0..PACKET_COUNT
  BY <1>2, <1>5, <1>7, <1>8, <1>11, <1>12
<1> QED BY <1>10, <1>13

\* Types are preserved.
LEMMA KeepsTypeOK == ASSUME KInv, Next PROVE TypeOK'
BY KeepsControlType, KeepsFrameType, KeepsSumType, KeepsFlagType, KeepsConsoleType,
  KeepsTensorQType,
   KeepsBatchType, KeepsCounters, KeepsTodo, ClocksGrow DEF TypeOK

\* Before the first instruction nothing is allocated, sent, printed or known.
LEMMA InitKInv == ASSUME Init PROVE KInv
<1> USE DEF Init
<1>a. PACKET_COUNT \in Nat \ {0} /\ FAULTY \in 1..PACKET_COUNT BY BatchAssumption
<1>b. Zero \in Clock BY DEF Zero, Clock, Cores
<1>c. Unset \in Flag /\ Unset.set = FALSE /\ Unset.clock = Zero BY <1>b DEF Unset, Flag
<1>d. clock \in [Cores -> Clock] /\ stamp \in [Locations -> Clock] BY <1>b
<1>e. /\ \A c, d \in Cores : clock[c][d] = 0
      /\ \A loc \in Locations, d \in Cores : stamp[loc][d] = 0
  BY DEF Zero
<1>f. usable = {} /\ free = {} /\ answer = [frame |-> None, ok |-> FALSE] /\ records = <<>>
  BY DEF Pmm!AllocatorInit, Sup!SupervisorInit, None
<1>g. \A c \in Cores : todo[c] = <<>> /\ spc[c] = "spin" OBVIOUS
<1>1. TypeOK
  <2>1. boot \in BootType BY BootAssumption
  <2>2. bpc \in BspPcs /\ apc \in ApPcs BY DEF BspPcs, ApPcs
  <2>3. /\ sent \in 0..PACKET_COUNT /\ succeeded \in 0..PACKET_COUNT /\ failed \in 0..PACKET_COUNT
        /\ AP_PROCESSED \in 0..PACKET_COUNT
    BY <1>a
  <2>4. /\ Len(interQ) <= INTER_CAP /\ Len(completionQ) <= COMPLETION_CAP /\ Len(tensorQ) <= TENSOR_CAP
    BY EmptyQueue, BatchAssumption, CompletionAssumption
  <2>5. todo \in [Cores -> Seq(Lines)] OBVIOUS
  <2>6. answer \in [frame : Frames \cup {None}, ok : BOOLEAN] BY <1>f
  <2>7. free \subseteq usable /\ usable \subseteq Frames BY <1>f
  <2>8. /\ reports \in Seq(WorkResult) /\ records \in Seq(WorkResult) /\ result \in Seq(WorkResult)
        /\ interQ \in Seq([val : Packet, clock : Clock])
        /\ completionQ \in Seq([val : WorkResult, clock : Clock])
        /\ tensorQ \in Seq([val : Addresses, clock : Clock]) /\ console \in Seq(Lines)
    BY <1>f
  <2>9. spc \in [Cores -> {"spin", "write", "unlock"}] OBVIOUS
  <2> QED BY <1>c, <1>d, <2>1, <2>2, <2>3, <2>4, <2>5, <2>6, <2>7, <2>8, <2>9 DEF TypeOK, Sums
<1>2. Handshakes BY <1>c, <1>g DEF Handshakes, Alone, Cores
<1>3. Descriptor BY DEF Descriptor
<1>4. Ledger BY <1>f DEF Ledger, Held
<1>5. Reduction BY DEF Reduction, SumAgrees
<1>6. SerialInv
  <2>1. lock.set = FALSE /\ lock.clock = Zero BY <1>c
  <2>2. Zero["ap"] = 0 /\ Zero["bsp"] = 0 BY DEF Zero, Cores
  <2>3. stamp["serial"]["ap"] = 0 /\ stamp["serial"]["bsp"] = 0 BY <1>e DEF Locations, Cores
  <2> QED BY <1>g, <2>1, <2>2, <2>3 DEF SerialInv, Cores
<1>7. StampsPast BY <1>e DEF StampsPast, Cores
<1>8. TensorKnown BY DEF TensorKnown
<1>9. SumKnown BY <1>c DEF SumKnown
<1>10. Places /\ Progress
  <2>1. reports = <<>> /\ completionQ = <<>> /\ result = <<>> /\ interQ = <<>> /\ sent = 0
        /\ AP_PROCESSED = 0 /\ bpc = "boot" /\ apc = "off"
    OBVIOUS
  <2> QED BY ONLY <2>1, EmptyQueue DEF Places, Progress, Reported, Completed, Taken
<1>11. Tallies BY <1>a, <1>f, EmptyQueue DEF Tallies, Reported
<1>12. NoBadLine BY <1>g, EmptyQueue DEF NoBadLine
<1> QED BY <1>1, <1>2, <1>3, <1>4, <1>5, <1>6, <1>7, <1>8, <1>9, <1>10, <1>11, <1>12 DEF KInv

\* Every step of a core keeps the invariant.
LEMMA KeepsKInv == ASSUME KInv, Next PROVE KInv'
BY KeepsTypeOK, KeepsHandshakes, KeepsDescriptor, KeepsLedger, KeepsReduction, KeepsSerialInv,
   KeepsStampsPast, KeepsTensorKnown, KeepsSumKnown, KeepsPlaces, KeepsProgress, KeepsTallies,
   KeepsTodo
DEF KInv

\* A step that changes nothing keeps the invariant.
LEMMA StutterKInv == ASSUME KInv, UNCHANGED vars PROVE KInv'
<1> USE DEF KInv, vars, bspVars, bspData, batchVars, apVars, apData, queueVars, flagVars, frameVars,
  serialVars, hbVars
<1>1. TypeOK' BY DEF TypeOK
<1>2. Handshakes' /\ Descriptor' BY DEF Handshakes, Descriptor
<1>3. Ledger' /\ Reduction' BY DEF Ledger, Held, Reduction, SumAgrees
<1>4. SerialInv' BY DEF SerialInv, FirstLine, Ordered
<1>5. StampsPast' /\ TensorKnown' /\ SumKnown' BY DEF StampsPast, TensorKnown, KnowsTensor, SumKnown
<1>6. Places' BY DEF Places, Reported, Completed, Taken
<1>7. Progress' /\ Tallies' BY DEF Progress, Tallies, Reported, Completed
<1>8. NoBadLine' BY DEF NoBadLine
<1> QED BY <1>1, <1>2, <1>3, <1>4, <1>5, <1>6, <1>7, <1>8

(***************************************************************************)
(* The inductive invariant holds in every state of every run of the two    *)
(* cores, whatever Limine answers.                                         *)
(***************************************************************************)
THEOREM KernelInvariant == Spec => []KInv
<1>1. Init => KInv BY InitKInv
<1>2. KInv /\ [Next]_vars => KInv'
  BY KeepsKInv, StutterKInv
<1> QED BY <1>1, <1>2, PTL DEF Spec

-----------------------------------------------------------------------------
(* What it says about the kernel.                                          *)

(***************************************************************************)
(* Every counter of _start and ap_entry stays within the batch and every   *)
(* queue within its capacity.                                              *)
(***************************************************************************)
THEOREM KernelTypeOK == Spec => []TypeOK
<1>1. KInv => TypeOK BY DEF KInv
<1> QED BY <1>1, KernelInvariant, PTL

(***************************************************************************)
(* _start prints the AP's sum, never the initial 0 of TENSOR_SUM_BITS.     *)
(***************************************************************************)
THEOREM KernelSumAgrees == Spec => []SumAgrees
<1>1. KInv => SumAgrees BY DEF KInv, Reduction
<1> QED BY <1>1, KernelInvariant, PTL

(***************************************************************************)
(* No error branch that only a wrong kernel could take is ever taken: a    *)
(* free of the probe or the tensor's frame succeeds, the tensor's push     *)
(* finds room, the reduction is right, the batch's verdict is success.     *)
(***************************************************************************)
THEOREM KernelErrorsUnreachable == Spec => []ErrorsUnreachable
<1>1. ASSUME KInv PROVE ErrorsUnreachable
  <2>1. ASSUME NEW c \in Cores PROVE ToSet(todo[c]) \cap Bad = {}
    <3>1. todo[c] \in Seq(Lines) BY <1>1 DEF KInv, TypeOK
    <3>2. \A k \in DOMAIN todo[c] : todo[c][k] \notin Bad
      BY <1>1, <3>1, LenProperties DEF KInv, NoBadLine
    <3>3. ToSet(todo[c]) = {todo[c][k] : k \in DOMAIN todo[c]} BY DEF ToSet
    <3> QED BY <3>2, <3>3
  <2> QED BY <2>1 DEF ErrorsUnreachable, Bad
<1> QED BY <1>1, KernelInvariant, PTL

(***************************************************************************)
(* The cores never race on the allocator, on the tensor's frame or on the  *)
(* UART, and SERIAL_LOCK is held exactly while one core writes a line.     *)
(***************************************************************************)
THEOREM KernelRaceFree == Spec => []NoDataRace
<1>1. ASSUME KInv PROVE NoDataRace
  <2>0. /\ SerialInv /\ StampsPast /\ TensorKnown /\ Handshakes
        /\ clock \in [Cores -> Clock] /\ stamp \in [Locations -> Clock]
    BY <1>1 DEF KInv, TypeOK
  <2>1. /\ lock.set <=> \E c \in Cores : spc[c] # "spin"
        /\ \E c \in Cores : spc[c] = "spin"
        /\ \A c \in Cores : spc[c] = "write" => Ordered(c, "serial")
    BY <2>0 DEF SerialInv, Cores
  <2>2. apc = "reduce" => Ordered("ap", "frame")
    BY <2>0 DEF TensorKnown, KnowsTensor, Ordered, Other
  <2>3. apc = "free" => Ordered("ap", "pmm") BY <2>0 DEF TensorKnown, KnowsTensor, Ordered, Other
  <2>4. bpc \in {"memmap", "probe", "return", "tensor"} => Ordered("bsp", "pmm")
    <3>1. bpc \in {"memmap", "probe", "return", "tensor"} => stamp["pmm"]["ap"] = 0
      BY <2>0 DEF StampsPast, Handshakes, Alone, Locations
    <3>2. clock["bsp"]["ap"] \in Nat BY <2>0 DEF Clock, Cores
    <3> QED BY <3>1, <3>2 DEF Ordered, Other
  <2> QED BY <2>1, <2>2, <2>3, <2>4 DEF NoDataRace
<1> QED BY <1>1, KernelInvariant, PTL

(***************************************************************************)
(* The frame that is out of the allocator has exactly one holder: _start,  *)
(* TENSOR_QUEUE or ap_entry; at every other time every frame is back.      *)
(***************************************************************************)
THEOREM KernelFrameOwnership == Spec => []FrameOwnership
<1>1. ASSUME KInv PROVE FrameOwnership
  <2> DEFINE Queued == {<<k, FromAddress(tensorQ[k].val)>> : k \in DOMAIN tensorQ}
             Reducing == IF apc \in {"reduce", "free"} THEN {<<"ap", FromAddress(chunk)>>} ELSE {}
             Feeder == IF BspHolds THEN {<<"bsp", frame>>} ELSE {}
  <2>0. /\ Handshakes /\ Descriptor /\ Ledger /\ bpc \in BspPcs /\ apc \in ApPcs
        /\ usable \subseteq Frames /\ tensorQ \in Seq([val : Addresses, clock : Clock])
    BY <1>1 DEF KInv, TypeOK
  <2>1. Holders = Feeder \cup Queued \cup Reducing BY DEF Holders
  <2>2. tensorQ = <<>> => Queued = {} OBVIOUS
  <2>3. Held => frame \in usable /\ free = usable \ {frame} /\ FromAddress(Address(frame)) = frame
    BY <2>0, FromAddressOfFrame DEF Ledger
  <2>4. CASE BspHolds
    <3>1. Held BY <2>4 DEF Held, BspHolds
    <3>2. tensorQ = <<>> /\ apc \notin {"reduce", "free"}
      BY <2>0, <2>4 DEF BspHolds, Handshakes, Descriptor, Alone
    <3>3. Holders = {<<"bsp", frame>>}
      <4>1. Feeder = {<<"bsp", frame>>} /\ Queued = {} /\ Reducing = {} BY <2>2, <2>4, <3>2
      <4> HIDE DEF Feeder, Queued, Reducing
      <4> QED BY <2>1, <4>1
    <3>4. {h[2] : h \in Holders} = {frame} BY <3>3
    <3>5. Cardinality(Holders) = 1 BY <3>3, FS_Singleton
    <3> QED BY <2>3, <3>1, <3>4, <3>5 DEF FrameOwnership
  <2>5. CASE tensorQ # <<>>
    <3>1. /\ bpc = "await" /\ apc \in {"loop", "report"} /\ Len(tensorQ) = 1
          /\ tensorQ[1].val = Address(frame)
      BY <2>0, <2>5 DEF Descriptor
    <3>2. Held /\ ~BspHolds BY <3>1 DEF Held, BspHolds
    <3>3. DOMAIN tensorQ = {1} BY <2>0, <3>1, LenProperties
    <3>4. Holders = {<<1, frame>>}
      <4>1. Queued = {<<1, frame>>} BY <2>3, <3>1, <3>2, <3>3
      <4>2. Feeder = {} /\ Reducing = {} BY <3>1, <3>2
      <4> HIDE DEF Feeder, Queued, Reducing
      <4> QED BY <2>1, <4>1, <4>2
    <3>5. {h[2] : h \in Holders} = {frame} BY <3>4
    <3>6. Cardinality(Holders) = 1 BY <3>4, FS_Singleton
    <3> QED BY <2>3, <3>2, <3>5, <3>6 DEF FrameOwnership
  <2>6. CASE apc \in {"reduce", "free"}
    <3>1. bpc = "await" /\ chunk = Address(frame) /\ tensorQ = <<>>
      BY <2>0, <2>6 DEF Handshakes, Descriptor, Alone, BspPcs
    <3>2. Held /\ ~BspHolds BY <2>6, <3>1 DEF Held, BspHolds
    <3>3. Holders = {<<"ap", frame>>}
      <4>1. Feeder = {} /\ Queued = {} /\ Reducing = {<<"ap", frame>>}
        BY <2>2, <2>3, <2>6, <3>1, <3>2
      <4> HIDE DEF Feeder, Queued, Reducing
      <4> QED BY <2>1, <4>1
    <3>4. {h[2] : h \in Holders} = {frame} BY <3>3
    <3>5. Cardinality(Holders) = 1 BY <3>3, FS_Singleton
    <3> QED BY <2>3, <3>2, <3>4, <3>5 DEF FrameOwnership
  <2>7. CASE ~BspHolds /\ tensorQ = <<>> /\ apc \notin {"reduce", "free"}
    <3>1. ~Held BY <2>0, <2>7 DEF Held, BspHolds, Descriptor
    <3>2. free = usable BY <2>0, <3>1 DEF Ledger
    <3>3. Holders = {}
      <4>1. Feeder = {} /\ Queued = {} /\ Reducing = {} BY <2>2, <2>7
      <4> HIDE DEF Feeder, Queued, Reducing
      <4> QED BY <2>1, <4>1
    <3>4. {h[2] : h \in Holders} = {} BY <3>3
    <3>5. Cardinality(Holders) = 0 BY <3>3, FS_EmptySet
    <3> QED BY <3>2, <3>4, <3>5 DEF FrameOwnership
  <2> QED BY <2>4, <2>5, <2>6, <2>7
<1> QED BY <1>1, KernelInvariant, PTL

\* Two stretches of traces in order, one after the other, are in order.
LEMMA Joined ==
    ASSUME NEW s \in Seq(WorkResult), NEW t \in Seq(WorkResult),
           \A k \in 1..Len(s) : s[k] = Due(k),
           \A k \in 1..Len(t) : t[k] = Due(Len(s) + k)
    PROVE  /\ s \o t \in Seq(WorkResult) /\ Len(s \o t) = Len(s) + Len(t)
           /\ \A k \in 1..Len(s \o t) : (s \o t)[k] = Due(k)
<1>1. Len(s) \in Nat /\ Len(t) \in Nat BY QueueLength
<1>2. /\ s \o t \in Seq(WorkResult) /\ Len(s \o t) = Len(s) + Len(t)
      /\ \A k \in 1..Len(s) + Len(t) : (s \o t)[k] = IF k <= Len(s) THEN s[k] ELSE t[k - Len(s)]
  BY ConcatProperties
<1>3. ASSUME NEW k \in 1..(Len(s) + Len(t)) PROVE (s \o t)[k] = Due(k)
  <2>1. CASE k <= Len(s)
    <3>1. k \in 1..Len(s) BY <1>1, <2>1
    <3> QED BY <1>2, <2>1, <3>1
  <2>2. CASE ~(k <= Len(s))
    <3>1. k - Len(s) \in 1..Len(t) /\ Len(s) + (k - Len(s)) = k BY <1>1, <2>2
    <3>2. t[k - Len(s)] = Due(k) BY <3>1
    <3> QED BY <1>2, <2>2, <3>2
  <2> QED BY <2>1, <2>2
<1> QED BY <1>2, <1>3

(***************************************************************************)
(* No trace is lost, duplicated, reordered or misjudged on its way from    *)
(* _start through ap_entry back to _start, for any batch size and any      *)
(* capacity of the queues.                                                 *)
(***************************************************************************)
THEOREM KernelLineage == Spec => []Lineage
<1>1. ASSUME KInv PROVE Lineage
  <2> DEFINE C == [k \in DOMAIN completionQ |-> completionQ[k].val]
             I == [k \in DOMAIN interQ |-> [trace |-> interQ[k].val.trace,
                                            failed |-> interQ[k].val.empty]]
  <2>0. BatchType /\ Places /\ sent \in Nat BY <1>1, BatchIsTyped, BatchAssumption DEF KInv, TypeOK
  <2>1. C \in Seq(WorkResult) /\ Len(C) = Len(completionQ)
        /\ \A k \in 1..Len(completionQ) : C[k] = completionQ[k].val
    <3>1. completionQ \in Seq([val : WorkResult, clock : Clock]) BY <2>0 DEF BatchType
    <3>2. DOMAIN completionQ = 1..Len(completionQ) /\ Len(completionQ) \in Nat
      BY <3>1, LenProperties
    <3>a. \A k \in 1..Len(completionQ) : completionQ[k] \in [val : WorkResult, clock : Clock]
      BY <3>1, ElementOfSeq
    <3>3. \A k \in 1..Len(completionQ) : completionQ[k].val \in WorkResult BY <3>a
    <3>4. C = [k \in 1..Len(completionQ) |-> completionQ[k].val] BY <3>2
    <3> QED BY <3>2, <3>3, <3>4
  <2>2. I \in Seq(WorkResult) /\ Len(I) = Len(interQ)
        /\ \A k \in 1..Len(interQ) : I[k] = Process(interQ[k].val)
    <3>1. interQ \in Seq([val : Packet, clock : Clock]) BY <2>0 DEF BatchType
    <3>2. DOMAIN interQ = 1..Len(interQ) /\ Len(interQ) \in Nat BY <3>1, LenProperties
    <3>a. \A k \in 1..Len(interQ) : interQ[k] \in [val : Packet, clock : Clock]
      BY <3>1, ElementOfSeq
    <3>3. \A k \in 1..Len(interQ) : interQ[k].val \in Packet BY <3>a
    <3>4. \A k \in 1..Len(interQ) : Process(interQ[k].val) \in WorkResult
      BY <3>3 DEF Process, Packet, WorkResult
    <3>5. I = [k \in 1..Len(interQ) |-> Process(interQ[k].val)] BY <3>2 DEF Process
    <3> HIDE DEF I
    <3> QED BY <3>2, <3>4, <3>5
  <2>3. Pipeline = reports \o C \o result \o I BY DEF Pipeline
  <2>4. reports \in Seq(WorkResult) /\ result \in Seq(WorkResult) BY <2>0 DEF BatchType
  <2> HIDE DEF C, I
  <2>5. /\ sent = Len(reports) + Len(C) + Len(result) + Len(I)
        /\ \A k \in 1..Len(reports) : reports[k] = Due(k)
        /\ \A k \in 1..Len(C) : C[k] = Due(Len(reports) + k)
        /\ \A k \in 1..Len(result) : result[k] = Due(Len(reports) + Len(C) + k)
        /\ \A k \in 1..Len(I) : I[k] = Due(Len(reports) + Len(C) + Len(result) + k)
    BY <2>0, <2>1, <2>2 DEF Places, Reported, Completed, Taken
  <2>6. /\ reports \o C \in Seq(WorkResult) /\ Len(reports \o C) = Len(reports) + Len(C)
        /\ \A k \in 1..Len(reports \o C) : (reports \o C)[k] = Due(k)
    BY <2>1, <2>4, <2>5, Joined
  <2> DEFINE A == reports \o C
  <2>a. /\ A \in Seq(WorkResult) /\ Len(A) = Len(reports) + Len(C) /\ \A k \in 1..Len(A) : A[k] = Due(k)
        /\ \A k \in 1..Len(result) : result[k] = Due(Len(A) + k)
    BY <2>5, <2>6
  <2> HIDE DEF A
  <2>7. /\ A \o result \in Seq(WorkResult) /\ Len(A \o result) = Len(A) + Len(result)
        /\ \A k \in 1..Len(A \o result) : (A \o result)[k] = Due(k)
    BY <2>4, <2>a, Joined
  <2> DEFINE B == A \o result
  <2>b. /\ B \in Seq(WorkResult) /\ Len(B) = Len(reports) + Len(C) + Len(result)
        /\ \A k \in 1..Len(B) : B[k] = Due(k)
    BY <2>7, <2>a
  <2>c. \A i \in 1..Len(I) : I[i] = Due(Len(B) + i) BY <2>5, <2>b
  <2> HIDE DEF B
  <2>8. /\ B \o I \in Seq(WorkResult) /\ Len(B \o I) = Len(B) + Len(I)
        /\ \A k \in 1..Len(B \o I) : (B \o I)[k] = Due(k)
    BY <2>2, <2>b, <2>c, Joined
  <2>9. Pipeline = B \o I BY <2>3 DEF A, B
  <2>10. Len(B \o I) = sent BY <2>5, <2>8, <2>b
  <2>11. B \o I = [k \in 1..sent |-> Due(k)]
    <3>1. B \o I = [k \in 1..Len(B \o I) |-> (B \o I)[k]] BY <2>8, LenProperties
    <3> QED BY <2>8, <2>10, <3>1
  <2> QED BY <2>9, <2>11 DEF Lineage, Due
<1> QED BY <1>1, KernelInvariant, PTL

-----------------------------------------------------------------------------
(* ConsoleOrder: the UART shows the tensor's and the batch's lines in      *)
(* causal order.  CInv adds to KInv what has been printed by the time a    *)
(* core is somewhere: a core goes on only once its lines are out.          *)


Shown(q, l) == \E j \in 1..Len(q) : q[j] = l
TraceLine == {"trace ok", "trace failed"}
TracesIn(q) == {j \in 1..Len(q) : q[j] \in TraceLine}
Traces(q) == Cardinality(TracesIn(q))

\* What the UART's lines q must hold before line l is printed.
Ready(q, l) ==
    /\ l = "reduced" => Shown(q, "tensor prepared") /\ Shown(q, "ap online")
    /\ l = "sum" => Shown(q, "reduced") /\ Shown(q, "feedback loop")
    /\ l \in TraceLine => Shown(q, "sum")
    /\ l = "batch completed" => Traces(q) = PACKET_COUNT

\* Line k of q comes after the lines it must come after.
Earlier(q, k, l) == \E j \in 1..(k - 1) : q[j] = l
InOrder(q, k) ==
    /\ q[k] = "reduced" => Earlier(q, k, "tensor prepared") /\ Earlier(q, k, "ap online")
    /\ q[k] = "sum" => Earlier(q, k, "reduced") /\ Earlier(q, k, "feedback loop")
    /\ q[k] \in TraceLine => Earlier(q, k, "sum")
    /\ q[k] = "batch completed" =>
         Cardinality({j \in 1..(k - 1) : q[j] \in TraceLine}) = PACKET_COUNT

\* Every core's next line may be printed; a line being unlocked has been.
NextLines ==
    \A c \in Cores : todo[c] # <<>> =>
        /\ Ready(console, todo[c][1])
        /\ spc[c] = "unlock" => Shown(console, todo[c][1])

\* Only the two lines of AwaitReady are printed in a row; the AP reports no trace.
Rows ==
    /\ \A c \in Cores : Len(todo[c]) <= 1 \/ todo[c] = <<"pipeline online", "feedback loop">>
    /\ todo["ap"] # <<>> => todo["ap"][1] \notin TraceLine \cup {"batch completed"}

\* What a core has printed, or is about to, when it is at its program counter.
Announced ==
    /\ bpc = "start" => Shown(console, "tensor prepared") \/ todo["bsp"] = <<"tensor prepared">>
    /\ apc # "off" => Shown(console, "tensor prepared")
    /\ apc \notin {"off", "online"} => Shown(console, "ap online") \/ todo["ap"] = <<"ap online">>
    /\ apc = "complete" => Shown(console, "reduced") \/ todo["ap"] = <<"reduced">>
    /\ apc = "halted" => Shown(console, "reduced")
    /\ bpc \in {"send", "send tensor", "await", "sum", "drain", "verdict"} =>
         \/ Shown(console, "feedback loop") \/ todo["bsp"] = <<"feedback loop">>
         \/ todo["bsp"] = <<"pipeline online", "feedback loop">>
    /\ bpc \in {"drain", "verdict"} => Shown(console, "sum") \/ todo["bsp"] = <<"sum">>

\* Every report has its line on the UART, but for the one being printed.
Pending ==
    IF todo["bsp"] # <<>> /\ todo["bsp"][1] \in TraceLine /\ spc["bsp"] # "unlock" THEN 1 ELSE 0
Counted == Traces(console) + Pending = Len(reports)

CInv == KInv /\ NextLines /\ Rows /\ Announced /\ Counted /\ ConsoleOrder

-----------------------------------------------------------------------------
(* What a step does to the lines.                                          *)

\* A line nobody waits for may always be printed.
LEMMA PlainLine ==
    ASSUME NEW q, NEW l, l \notin TraceLine \cup {"reduced", "sum", "batch completed"}
    PROVE  Ready(q, l)
BY DEF Ready

\* While nothing is written the lines on the UART stay in order.
LEMMA Silence == ASSUME console' = console PROVE ConsoleOrder' <=> ConsoleOrder
BY DEF ConsoleOrder

\* serial_write puts the core's next line after all others.
LEMMA Written ==
    ASSUME KInv, NEW c \in Cores, SerialWrite(c)
    PROVE  /\ todo[c] # <<>> /\ todo[c][1] \in Lines /\ Len(console) \in Nat
           /\ console \in Seq(Lines) /\ Len(console') = Len(console) + 1
           /\ \A j \in 1..Len(console) : console'[j] = console[j]
           /\ console'[Len(console) + 1] = todo[c][1]
           /\ DOMAIN console' = 1..(Len(console) + 1) /\ DOMAIN console = 1..Len(console)
<1>1. todo[c] # <<>> /\ todo[c] \in Seq(Lines) /\ console \in Seq(Lines)
  BY DEF KInv, TypeOK, SerialInv, SerialWrite
<1>2. Head(todo[c]) = todo[c][1] /\ todo[c][1] \in Lines BY <1>1, Popped
<1>3. console' = Append(console, todo[c][1]) BY <1>2 DEF SerialWrite
<1>4. /\ console' \in Seq(Lines) /\ Len(console') = Len(console) + 1
      /\ \A j \in 1..Len(console) : console'[j] = console[j]
      /\ console'[Len(console) + 1] = todo[c][1]
  BY <1>1, <1>2, <1>3, Pushed
<1> QED BY <1>1, <1>2, <1>4, LenProperties

\* Then the UART shows that line, and what it showed.
LEMMA WrittenShows ==
    ASSUME KInv, NEW c \in Cores, SerialWrite(c)
    PROVE  \A l : Shown(console', l) <=> Shown(console, l) \/ l = todo[c][1]
BY Written DEF Shown

\* The trace lines on the UART can be counted.
LEMMA TracesType ==
    ASSUME KInv
    PROVE  IsFiniteSet(TracesIn(console)) /\ Traces(console) \in Nat
<1>1. Len(console) \in Nat BY QueueLength DEF KInv, TypeOK
<1>2. IsFiniteSet(TracesIn(console))
  <2>1. IsFiniteSet(1..Len(console)) BY <1>1, FS_Interval
  <2> QED BY <2>1, FS_Subset DEF TracesIn
<1> QED BY <1>2, FS_CardinalityType DEF Traces

\* A written trace line is one more.
LEMMA WrittenCounts ==
    ASSUME KInv, NEW c \in Cores, SerialWrite(c)
    PROVE  /\ Traces(console) \in Nat
           /\ todo[c][1] \in TraceLine => Traces(console') = Traces(console) + 1
           /\ todo[c][1] \notin TraceLine => Traces(console') = Traces(console)
<1> DEFINE n == Len(console)
<1>1. n \in Nat /\ Len(console') = n + 1 BY Written
<1>2. IsFiniteSet(TracesIn(console)) BY TracesType
<1>3. Traces(console) \in Nat BY TracesType
<1>4. CASE todo[c][1] \in TraceLine
  <2>1. TracesIn(console') = TracesIn(console) \cup {n + 1}
    BY <1>1, <1>4, Written DEF TracesIn
  <2>2. n + 1 \notin TracesIn(console) BY <1>1 DEF TracesIn
  <2>3. Cardinality(TracesIn(console) \cup {n + 1}) = Cardinality(TracesIn(console)) + 1
    BY <1>2, <2>2, FS_AddElement
  <2> QED BY <1>3, <1>4, <2>1, <2>3 DEF Traces
<1>5. CASE todo[c][1] \notin TraceLine
  <2>1. TracesIn(console') = TracesIn(console) BY <1>1, <1>5, Written DEF TracesIn
  <2> QED BY <1>3, <1>5, <2>1 DEF Traces
<1> QED BY <1>4, <1>5

\* A line that may be printed keeps the order.
LEMMA WrittenInOrder ==
    ASSUME CInv, NEW c \in Cores, SerialWrite(c)
    PROVE  ConsoleOrder'
<1>0. KInv /\ ConsoleOrder BY DEF CInv
<1> DEFINE n == Len(console)
           l == todo[c][1]
<1>1. /\ n \in Nat /\ DOMAIN console' = 1..(n + 1) /\ DOMAIN console = 1..n
      /\ \A j \in 1..n : console'[j] = console[j]
      /\ console'[n + 1] = l
  BY <1>0, Written
<1>2. Ready(console, l) BY <1>0, Written DEF CInv, NextLines
<1> HIDE DEF n, l
<1> DEFINE q == console'
<1>3. \A k \in 1..n : InOrder(console, k)
  BY <1>0, <1>1 DEF ConsoleOrder, InOrder, Earlier, TraceLine
<1>4. ASSUME NEW k \in 1..n PROVE InOrder(q, k)
  <2>1. q[k] = console[k] /\ \A j \in 1..(k - 1) : q[j] = console[j] BY <1>1
  <2>2. \A x : Earlier(q, k, x) <=> Earlier(console, k, x) BY <2>1 DEF Earlier
  <2>3. {j \in 1..(k - 1) : q[j] \in TraceLine} = {j \in 1..(k - 1) : console[j] \in TraceLine}
    BY <2>1
  <2> QED BY <1>3, <2>1, <2>2, <2>3 DEF InOrder
<1>5. ASSUME NEW m, m = n + 1 PROVE InOrder(q, m)
  <2>1. m - 1 = n BY <1>1, <1>5
  <2>2. \A x : Earlier(q, m, x) <=> Shown(console, x) BY <1>1, <2>1 DEF Earlier, Shown, n
  <2>3. {j \in 1..(m - 1) : q[j] \in TraceLine} = TracesIn(console)
    BY <1>1, <2>1 DEF TracesIn, n
  <2>4. q[m] = l BY <1>1, <1>5
  <2>5. Cardinality({j \in 1..(m - 1) : q[j] \in TraceLine}) = Traces(console) BY <2>3 DEF Traces
  <2> HIDE DEF q
  <2> QED BY <1>2, <2>2, <2>4, <2>5 DEF InOrder, Ready
<1>6. \A k \in DOMAIN q : InOrder(q, k) BY <1>1, <1>4, <1>5
<1> QED BY <1>6 DEF ConsoleOrder, InOrder, Earlier, TraceLine

-----------------------------------------------------------------------------
(* The steps that print nothing, queue lines, or run serial_write.         *)

Hushed == UNCHANGED <<todo, console, spc, reports>>
Says(c, l) ==
    /\ todo[c] = <<>> /\ todo' = [todo EXCEPT ![c] = <<l>>]
    /\ UNCHANGED <<console, spc>>
    /\ Ready(console, l)
    /\ c = "ap" => l \notin TraceLine \cup {"batch completed"}
    /\ Len(reports') = IF l \in TraceLine THEN Len(reports) + 1 ELSE Len(reports)

Quiet == NextLines /\ Rows /\ Counted /\ ConsoleOrder

\* A step that prints nothing.
LEMMA HushedKeeps == ASSUME CInv, Hushed PROVE Quiet'
<1>1. console' = console /\ todo' = todo /\ spc' = spc /\ reports' = reports BY DEF Hushed
<1>2. ConsoleOrder' BY <1>1, Silence DEF CInv
<1>3. NextLines' BY <1>1 DEF CInv, NextLines
<1>4. Rows' BY <1>1 DEF CInv, Rows
<1>5. Counted' BY <1>1 DEF CInv, Counted, Pending
<1> QED BY <1>2, <1>3, <1>4, <1>5 DEF Quiet

\* A core that has nothing to print is not inside serial_write.
LEMMA IdleCore ==
    ASSUME KInv, NEW c \in Cores, todo[c] = <<>>
    PROVE  spc[c] = "spin"
BY DEF KInv, SerialInv

\* A core takes up one more line.
LEMMA SaysKeeps ==
    ASSUME CInv, NEW c \in Cores, NEW l \in Lines, Says(c, l)
    PROVE  Quiet'
<1>0. /\ KInv /\ NextLines /\ Rows /\ Counted /\ ConsoleOrder /\ todo \in [Cores -> Seq(Lines)]
      /\ Len(reports) \in Nat
  BY QueueLength DEF CInv, KInv, TypeOK
<1>1. /\ console' = console /\ spc' = spc /\ Ready(console, l) /\ todo[c] = <<>> /\ spc[c] = "spin"
      /\ todo'[c] = <<l>> /\ \A d \in Cores : d # c => todo'[d] = todo[d]
  BY <1>0, IdleCore DEF Says
<1>2. ConsoleOrder' BY <1>0, <1>1, Silence
<1>3. <<l>> # <<>> /\ <<l>>[1] = l /\ Len(<<l>>) = 1 OBVIOUS
<1>4. NextLines'
  <2>1. ASSUME NEW d \in Cores, todo'[d] # <<>>
        PROVE  Ready(console', todo'[d][1]) /\ (spc'[d] = "unlock" => Shown(console', todo'[d][1]))
    <3>1. CASE d = c BY <1>1, <1>3, <3>1
    <3>2. CASE d # c BY <1>0, <1>1, <2>1, <3>2 DEF NextLines
    <3> QED BY <3>1, <3>2
  <2> QED BY <2>1 DEF NextLines
<1>5. Rows'
  <2>1. \A d \in Cores : Len(todo'[d]) <= 1 \/ todo'[d] = <<"pipeline online", "feedback loop">>
    <3>1. Len(todo'[c]) <= 1 BY <1>1, <1>3
    <3>2. \A d \in Cores : d # c => todo'[d] = todo[d] BY <1>1
    <3> QED BY <1>0, <3>1, <3>2 DEF Rows
  <2>2. todo'["ap"] # <<>> => todo'["ap"][1] \notin TraceLine \cup {"batch completed"}
    BY <1>0, <1>1, <1>3 DEF Rows, Says, Cores
  <2> QED BY <2>1, <2>2 DEF Rows
<1>6. Counted'
  <2>1. Traces(console') = Traces(console) BY <1>1
  <2>2. CASE c = "ap"
    <3>1. todo'["bsp"] = todo["bsp"] /\ Len(reports') = Len(reports) BY <1>1, <2>2 DEF Says, Cores
    <3> QED BY <1>0, <1>1, <2>1, <3>1 DEF Counted, Pending
  <2>3. CASE c = "bsp"
    <3>1. Pending = 0 BY <1>1, <2>3 DEF Pending
    <3>2. Pending' = IF l \in TraceLine THEN 1 ELSE 0 BY <1>1, <1>3, <2>3 DEF Pending
    <3>3. Traces(console) = Len(reports) BY <1>0, <3>1, TracesType DEF Counted
    <3>4. Len(reports') = IF l \in TraceLine THEN Len(reports) + 1 ELSE Len(reports) BY DEF Says
    <3>5. Traces(console) + Pending' = Len(reports') BY <1>0, <3>2, <3>3, <3>4
    <3> QED BY <2>1, <3>5 DEF Counted
  <2> QED BY <2>2, <2>3 DEF Cores
<1> QED BY <1>2, <1>4, <1>5, <1>6 DEF Quiet

\* The two lines _start prints once the AP is ready.
LEMMA AwaitReadyKeeps == ASSUME CInv, AwaitReady PROVE Quiet'
<1> DEFINE two == <<"pipeline online", "feedback loop">>
<1>0. /\ KInv /\ NextLines /\ Rows /\ Counted /\ ConsoleOrder /\ todo \in [Cores -> Seq(Lines)]
  BY DEF CInv, KInv, TypeOK
<1>a. "bsp" \in Cores /\ "ap" \in Cores BY DEF Cores
<1>1. /\ console' = console /\ spc' = spc /\ reports' = reports /\ todo["bsp"] = <<>>
      /\ spc["bsp"] = "spin" /\ todo'["bsp"] = two /\ todo'["ap"] = todo["ap"]
  BY <1>0, <1>a, IdleCore DEF AwaitReady, BspAt, Printing, bspData, batchVars
<1>2. ConsoleOrder' BY <1>0, <1>1, Silence
<1>3. two # <<>> /\ two[1] = "pipeline online" OBVIOUS
<1>4. Ready(console, "pipeline online") BY DEF Ready, TraceLine
<1>5. NextLines'
  <2> HIDE DEF two
  <2>1. Ready(console', todo'["bsp"][1]) /\ spc'["bsp"] # "unlock" BY <1>1, <1>3, <1>4
  <2>2. todo'["ap"] # <<>> => /\ Ready(console', todo'["ap"][1])
                              /\ spc'["ap"] = "unlock" => Shown(console', todo'["ap"][1])
    BY <1>0, <1>1, <1>a DEF NextLines
  <2> QED BY <2>1, <2>2 DEF NextLines, Cores
<1>6. Rows' BY <1>0, <1>1 DEF Rows, Cores
<1>7. Counted'
  <2>1. Traces(console') = Traces(console) BY <1>1
  <2>2. Pending = 0 /\ Pending' = 0 BY <1>1, <1>3 DEF Pending, TraceLine
  <2> QED BY <1>0, <1>1, <2>1, <2>2 DEF Counted
<1> QED BY <1>2, <1>5, <1>6, <1>7 DEF Quiet

\* Taking SERIAL_LOCK prints nothing yet.
LEMMA LockKeeps == ASSUME CInv, NEW c \in Cores, SerialLock(c) PROVE Quiet'
<1>0. /\ KInv /\ NextLines /\ Rows /\ Counted /\ ConsoleOrder
      /\ spc \in [Cores -> {"spin", "write", "unlock"}]
  BY DEF CInv, KInv, TypeOK
<1>1. /\ console' = console /\ todo' = todo /\ reports' = reports /\ spc[c] = "spin" /\ spc'[c] = "write"
      /\ \A d \in Cores : d # c => spc'[d] = spc[d]
  BY <1>0 DEF SerialLock, bspVars, bspData, batchVars
<1>2. ConsoleOrder' BY <1>0, <1>1, Silence
<1>3. NextLines' BY <1>0, <1>1 DEF NextLines
<1>4. Rows' BY <1>0, <1>1 DEF Rows
<1>5. Counted' BY <1>0, <1>1 DEF Counted, Pending, Cores
<1> QED BY <1>2, <1>3, <1>4, <1>5 DEF Quiet

\* Writing a line: what was shown still is, and what may follow still may.
LEMMA WriteKeeps == ASSUME CInv, NEW c \in Cores, SerialWrite(c) PROVE Quiet'
<1>0. /\ KInv /\ NextLines /\ Rows /\ Counted /\ ConsoleOrder
      /\ spc \in [Cores -> {"spin", "write", "unlock"}]
  BY DEF CInv, KInv, TypeOK
<1> DEFINE l == todo[c][1]
<1>1. /\ todo' = todo /\ reports' = reports /\ spc[c] = "write" /\ spc'[c] = "unlock"
      /\ \A d \in Cores : d # c => spc'[d] = spc[d]
  BY <1>0 DEF SerialWrite, bspVars, bspData, batchVars
<1>2. \A x : Shown(console', x) <=> Shown(console, x) \/ x = l BY <1>0, WrittenShows
<1>3. /\ Traces(console) \in Nat
      /\ l \in TraceLine => Traces(console') = Traces(console) + 1
      /\ l \notin TraceLine => Traces(console') = Traces(console)
  BY <1>0, WrittenCounts
<1>4. todo[c] # <<>> BY <1>0, Written
<1>5. ConsoleOrder' BY WrittenInOrder
<1> HIDE DEF l
<1>6. c = "ap" => l \notin TraceLine \cup {"batch completed"} BY <1>0, <1>4 DEF Rows, l
<1>7. NextLines'
  <2>1. ASSUME NEW d \in Cores, todo[d] # <<>>
        PROVE  Ready(console', todo[d][1]) /\ (spc'[d] = "unlock" => Shown(console', todo[d][1]))
    <3>1. Ready(console, todo[d][1]) /\ (spc[d] = "unlock" => Shown(console, todo[d][1]))
      BY <1>0, <2>1 DEF NextLines
    <3>2. todo[d][1] = "batch completed" => l \notin TraceLine
      <4>1. CASE d = c BY <4>1 DEF l, TraceLine
      <4>2. CASE d # c BY <1>0, <1>6, <2>1, <4>2 DEF Rows, Cores
      <4> QED BY <4>1, <4>2
    <3>3. Ready(console', todo[d][1]) BY <1>2, <1>3, <3>1, <3>2 DEF Ready
    <3>4. spc'[d] = "unlock" => Shown(console', todo[d][1])
      <4>1. CASE d = c BY <1>2, <4>1 DEF l
      <4>2. CASE d # c BY <1>1, <1>2, <3>1, <4>2
      <4> QED BY <4>1, <4>2
    <3> QED BY <3>3, <3>4
  <2> QED BY <1>1, <2>1 DEF NextLines
<1>8. Rows' BY <1>0, <1>1 DEF Rows
<1>9. Counted'
  <2>1. CASE c = "ap"
    <3>1. spc'["bsp"] = spc["bsp"] BY <1>1, <2>1 DEF Cores
    <3> QED BY <1>0, <1>1, <1>3, <1>6, <2>1, <3>1 DEF Counted, Pending
  <2>2. CASE c = "bsp"
    <3>1. Pending' = 0 BY <1>1, <2>2 DEF Pending
    <3>2. Pending = IF l \in TraceLine THEN 1 ELSE 0 BY <1>1, <1>4, <2>2 DEF Pending, l
    <3> QED BY <1>0, <1>1, <1>3, <3>1, <3>2 DEF Counted
  <2> QED BY <2>1, <2>2 DEF Cores
<1> QED BY <1>5, <1>7, <1>8, <1>9 DEF Quiet

\* Of two lines the second is left.
LEMMA TailOfTwo ==
    ASSUME NEW S, NEW q \in Seq(S), Len(q) = 2
    PROVE  Tail(q) = <<q[2]>>
<1>1. q # <<>> BY EmptyQueue
<1>2. /\ Tail(q) \in Seq(S) /\ Len(Tail(q)) = Len(q) - 1
      /\ \A k \in 1..(Len(q) - 1) : Tail(q)[k] = q[k + 1]
  BY <1>1, Popped
<1>3. Len(Tail(q)) = 1 BY <1>2
<1>4. Tail(q)[1] = q[1 + 1] BY <1>2
<1>a. 1 + 1 = 2 OBVIOUS
<1>5. Tail(q)[1] = q[2] BY <1>4, <1>a, Zenon
<1> DEFINE t == Tail(q)
<1> HIDE DEF t
<1>6. t \in Seq(S) /\ Len(t) = 1 /\ t[1] = q[2] BY <1>2, <1>3, <1>5 DEF t
<1>7. t = <<t[1]>> BY <1>6, LenProperties
<1> QED BY <1>6, <1>7 DEF t

\* Releasing the lock drops the line just printed.
LEMMA Dropped ==
    ASSUME CInv, NEW c \in Cores, SerialUnlock(c)
    PROVE  /\ todo[c] # <<>> /\ Shown(console, todo[c][1]) /\ spc[c] = "unlock" /\ spc'[c] = "spin"
           /\ \A d \in Cores : d # c => spc'[d] = spc[d] /\ todo'[d] = todo[d]
           /\ \/ Len(todo[c]) = 1 /\ todo[c] = <<todo[c][1]>> /\ todo'[c] = <<>>
              \/ todo[c] = <<"pipeline online", "feedback loop">> /\ todo'[c] = <<"feedback loop">>
           /\ console' = console /\ reports' = reports
<1>0. /\ KInv /\ NextLines /\ Rows /\ todo \in [Cores -> Seq(Lines)]
      /\ spc \in [Cores -> {"spin", "write", "unlock"}]
  BY DEF CInv, KInv, TypeOK
<1>1. /\ spc[c] = "unlock" /\ spc'[c] = "spin" /\ todo'[c] = Tail(todo[c])
      /\ \A d \in Cores : d # c => spc'[d] = spc[d] /\ todo'[d] = todo[d]
      /\ console' = console /\ reports' = reports
  BY <1>0 DEF SerialUnlock, bspVars, bspData, batchVars
<1>2. todo[c] # <<>> /\ todo[c] \in Seq(Lines) BY <1>0, <1>1 DEF KInv, SerialInv
<1>3. Shown(console, todo[c][1]) BY <1>0, <1>1, <1>2 DEF NextLines
<1>4. CASE Len(todo[c]) <= 1
  <2> DEFINE t == todo[c]
  <2>a. t # <<>> /\ t \in Seq(Lines) /\ Len(t) <= 1 BY <1>2, <1>4
  <2>1. Len(t) = 1 /\ Tail(t) = <<>>
    <3> HIDE DEF t
    <3>1. /\ Len(t) \in Nat \ {0} /\ Tail(t) \in Seq(Lines) /\ Len(Tail(t)) = Len(t) - 1
      BY <2>a, Popped
    <3>2. Len(t) = 1 /\ Len(Tail(t)) = 0 BY <2>a, <3>1
    <3> QED BY <3>1, <3>2, QueueLength
  <2>2. Tail(todo[c]) = <<>> BY <2>1
  <2>3. todo[c] = <<todo[c][1]>> BY <1>2, <2>1, LenProperties
  <2> QED BY <1>1, <1>2, <1>3, <2>1, <2>2, <2>3
<1>5. CASE todo[c] = <<"pipeline online", "feedback loop">>
  <2>1. Tail(todo[c]) = <<"feedback loop">>
    <3>1. \A x, y : Len(<<x, y>>) = 2 /\ <<x, y>>[2] = y OBVIOUS
    <3>2. Len(todo[c]) = 2 /\ todo[c][2] = "feedback loop" BY <1>5, <3>1, Zenon
    <3> QED BY <1>2, <3>2, TailOfTwo
  <2> QED BY <1>1, <1>2, <1>3, <1>5, <2>1
<1> QED BY <1>0, <1>4, <1>5 DEF Rows

\* What is left to print after it may be printed.
LEMMA UnlockKeeps == ASSUME CInv, NEW c \in Cores, SerialUnlock(c) PROVE Quiet'
<1>0. /\ KInv /\ NextLines /\ Rows /\ Counted /\ ConsoleOrder BY DEF CInv
<1>1. /\ todo[c] # <<>> /\ spc[c] = "unlock" /\ spc'[c] = "spin"
      /\ \A d \in Cores : d # c => spc'[d] = spc[d] /\ todo'[d] = todo[d]
      /\ console' = console /\ reports' = reports
      /\ todo'[c] = <<>> \/ todo'[c] = <<"feedback loop">>
  BY Dropped
<1>2. ConsoleOrder' BY <1>0, <1>1, Silence
<1>3. Ready(console, "feedback loop") BY DEF Ready, TraceLine
<1>4. /\ <<"feedback loop">>[1] = "feedback loop" /\ Len(<<"feedback loop">>) = 1
      /\ "feedback loop" \notin TraceLine \cup {"batch completed"}
  BY DEF TraceLine
<1>5. ASSUME NEW d \in Cores, todo'[d] # <<>>
      PROVE  Ready(console', todo'[d][1]) /\ (spc'[d] = "unlock" => Shown(console', todo'[d][1]))
  <2>1. CASE d = c BY <1>1, <1>3, <1>4, <1>5, <2>1
  <2>2. CASE d # c BY <1>0, <1>1, <1>5, <2>2 DEF NextLines
  <2> QED BY <2>1, <2>2
<1>6. NextLines' BY <1>5 DEF NextLines
<1>7. Rows'
  <2>1. Len(todo'[c]) <= 1
    <3>1. CASE todo'[c] = <<>> BY <3>1, EmptyQueue
    <3>2. CASE todo'[c] = <<"feedback loop">> 
      <4>1. Len(todo'[c]) = 1 BY <1>4, <3>2
      <4> QED BY <4>1
    <3> QED BY <1>1, <3>1, <3>2
  <2>2. \A d \in Cores : Len(todo'[d]) <= 1 \/ todo'[d] = <<"pipeline online", "feedback loop">>
    BY <1>0, <1>1, <2>1 DEF Rows
  <2>3. todo'["ap"] # <<>> => todo'["ap"][1] \notin TraceLine \cup {"batch completed"}
    BY <1>0, <1>1, <1>4 DEF Rows, Cores
  <2> QED BY <2>2, <2>3 DEF Rows
<1>8. Counted'
  <2>1. Pending' = Pending
    <3>1. CASE c = "ap" BY <1>1, <3>1 DEF Pending, Cores
    <3>2. CASE c = "bsp" BY <1>1, <1>4, <3>2 DEF Pending
    <3> QED BY <3>1, <3>2 DEF Cores
  <2> QED BY <1>0, <1>1, <2>1 DEF Counted
<1> QED BY <1>2, <1>6, <1>7, <1>8 DEF Quiet

-----------------------------------------------------------------------------
(* Every step is one of these.                                             *)

\* What a step of _start or ap_entry prints may be printed by then.
LEMMA Voices ==
    ASSUME CInv, Next
    PROVE  \/ Hushed \/ AwaitReady
           \/ \E c \in Cores, l \in Lines : Says(c, l)
           \/ \E c \in Cores : SerialStep(c)
<1>0. /\ KInv /\ Announced /\ Counted /\ Handshakes /\ todo \in [Cores -> Seq(Lines)]
      /\ reports \in Seq(WorkResult)
  BY DEF CInv, KInv, TypeOK
<1>a. "bsp" \in Cores /\ "ap" \in Cores BY DEF Cores
<1>b. ASSUME todo["bsp"] = <<>>, todo' = [todo EXCEPT !["bsp"] = <<>>] PROVE todo' = todo
  BY <1>0, <1>a, <1>b
<1>d. \A x, y : <<x>> # <<>> /\ <<x, y>> # <<>> OBVIOUS
<1> DEFINE Plain == Lines \ (TraceLine \cup {"reduced", "sum", "batch completed"})
<1>c. ASSUME NEW c \in Cores, NEW l \in Plain, todo[c] = <<>>, todo' = [todo EXCEPT ![c] = <<l>>],
             UNCHANGED <<console, spc, reports>>
      PROVE  \E d \in Cores, m \in Lines : Says(d, m)
  <2>1. Ready(console, l) BY PlainLine
  <2>2. Says(c, l) BY <1>c, <2>1 DEF Says
  <2> QED BY <2>2
<1> USE DEF BspAt, ApAt, Printing, BspHalts, bspVars, bspData, batchVars, serialVars, Hushed
<1>1. CASE Boot
  <2>1. "active" \in Plain BY DEF Lines, TraceLine
  <2> QED BY <1>1, <1>a, <1>c, <2>1 DEF Boot
<1>2. CASE InitializePmm
  <2>1. "no memory map" \in Plain /\ "pmm stats" \in Plain BY DEF Lines, TraceLine
  <2> QED BY <1>2, <1>a, <1>c, <2>1 DEF InitializePmm
<1>3. CASE ProbeAllocate
  <2>1. "probe allocated" \in Plain /\ "probe failed" \in Plain BY DEF Lines, TraceLine
  <2> QED BY <1>3, <1>a, <1>c, <2>1 DEF ProbeAllocate
<1>4. CASE ProbeFree
  <2>1. "frame returned" \in Plain /\ "deallocation failed" \in Plain BY DEF Lines, TraceLine
  <2> QED BY <1>4, <1>a, <1>c, <2>1 DEF ProbeFree
<1>5. CASE PrepareTensor
  <2>1. "no hhdm" \in Plain /\ "tensor prepared" \in Plain BY DEF Lines, TraceLine
  <2> QED BY <1>5, <1>a, <1>b, <1>c, <2>1 DEF PrepareTensor
<1>6. CASE StartAp
  <2>1. "no smp" \in Plain /\ "no ap" \in Plain BY DEF Lines, TraceLine
  <2> QED BY <1>6, <1>a, <1>c, <2>1 DEF StartAp
<1>7. CASE AwaitReady BY <1>7
<1>8. CASE SendPacket BY <1>8 DEF SendPacket
<1>9. CASE SendTensor
  <2>1. UNCHANGED <<spc, todo, console>> BY <1>0, <1>9, TensorQueueHasRoom
  <2> QED BY <1>9, <2>1 DEF SendTensor
<1>10. CASE AwaitTensor BY <1>10 DEF AwaitTensor
<1>11. CASE ReadSum
  <2>1. bpc = "sum" /\ apc = "halted" /\ todo["bsp"] = <<>> BY <1>0, <1>11 DEF ReadSum, Handshakes
  <2>2. Shown(console, "reduced") /\ Shown(console, "feedback loop")
    BY <1>0, <1>d, <2>1 DEF Announced
  <2>3. Ready(console, "sum") BY <2>2 DEF Ready, TraceLine
  <2>4. "sum" \in Lines /\ "sum" \notin TraceLine BY DEF Lines, TraceLine
  <2>5. Says("bsp", "sum") BY <1>11, <2>3, <2>4 DEF ReadSum, Says
  <2> QED BY <1>a, <2>4, <2>5
<1>12. CASE Drain
  <2> DEFINE r == Head(completionQ).val
  <2>1. bpc = "drain" /\ todo["bsp"] = <<>> BY <1>12 DEF Drain
  <2>2. Shown(console, "sum") BY <1>0, <1>d, <2>1 DEF Announced
  <2>3. ASSUME NEW l \in TraceLine PROVE Ready(console, l) BY <2>2 DEF Ready, TraceLine
  <2>4. reports' = Append(reports, r) /\ r \in WorkResult BY <1>0, <1>12, DrainedResult
  <2>5. Len(reports') = Len(reports) + 1
    <3> HIDE DEF r
    <3> QED BY <1>0, <2>4, Pushed
  <2>6. PICK l \in TraceLine : todo' = [todo EXCEPT !["bsp"] = <<l>>]
    BY <1>12 DEF Drain, TraceLine
  <2>7. l \in Lines /\ Says("bsp", l)
    BY <1>12, <2>1, <2>3, <2>5, <2>6 DEF Drain, Says, Lines, TraceLine
  <2> QED BY <1>a, <2>7
<1>13. CASE Verdict
  <2>1. bpc = "verdict" /\ todo["bsp"] = <<>> BY <1>13 DEF Verdict
  <2>2. Pending = 0 BY <2>1 DEF Pending
  <2>3. Len(reports) = PACKET_COUNT BY <1>0, <2>1 DEF KInv, Progress, Reported
  <2>4. Traces(console) = PACKET_COUNT BY <1>0, <2>2, <2>3, TracesType DEF Counted
  <2>5. Ready(console, "batch completed") /\ Ready(console, "batch invariant failed")
    BY <2>4 DEF Ready, TraceLine
  <2>6. /\ "batch completed" \in Lines \ TraceLine /\ "batch invariant failed" \in Lines \ TraceLine
    BY DEF Lines, TraceLine
  <2>7. Says("bsp", "batch completed") \/ Says("bsp", "batch invariant failed")
    BY <1>13, <2>1, <2>5, <2>6 DEF Verdict, Says
  <2> QED BY <1>a, <2>6, <2>7
<1>14. CASE Online
  <2>1. "ap online" \in Plain BY DEF Lines, TraceLine
  <2> QED BY <1>14, <1>a, <1>c, <2>1 DEF Online
<1>15. CASE PopPacket BY <1>15 DEF PopPacket
<1>16. CASE PushResult BY <1>16 DEF PushResult
<1>17. CASE PopTensor BY <1>17 DEF PopTensor
<1>18. CASE Reduce BY <1>18 DEF Reduce
<1>19. CASE FreeFrame
  <2>1. apc = "free" /\ todo["ap"] = <<>> BY <1>19 DEF FreeFrame
  <2>2. Shown(console, "tensor prepared") /\ Shown(console, "ap online")
    BY <1>0, <1>d, <2>1 DEF Announced
  <2>3. Ready(console, "reduced") /\ Ready(console, "reduction failed") BY <2>2 DEF Ready, TraceLine
  <2>4. /\ "reduced" \in Lines \ (TraceLine \cup {"batch completed"})
        /\ "reduction failed" \in Lines \ (TraceLine \cup {"batch completed"})
    BY DEF Lines, TraceLine
  <2>5. PICK l \in {"reduced", "reduction failed"} : todo' = [todo EXCEPT !["ap"] = <<l>>]
    BY <1>19 DEF FreeFrame
  <2>6. l \in Lines /\ Says("ap", l) BY <1>19, <2>1, <2>3, <2>4, <2>5 DEF FreeFrame, Says
  <2> QED BY <1>a, <2>6
<1>20. CASE Complete BY <1>20 DEF Complete
<1>21. CASE SerialStep("bsp") \/ SerialStep("ap") BY <1>21, <1>a
<1> QED BY <1>1, <1>2, <1>3, <1>4, <1>5, <1>6, <1>7, <1>8, <1>9, <1>10, <1>11, <1>12, <1>13,
  <1>14, <1>15, <1>16, <1>17, <1>18, <1>19, <1>20, <1>21 DEF Next, BspStep, ApStep

\* So the order and the count are kept by every step.
LEMMA KeepsQuiet == ASSUME CInv, Next PROVE Quiet'
<1>1. ASSUME NEW c \in Cores, SerialStep(c) PROVE Quiet'
  BY <1>1, LockKeeps, WriteKeeps, UnlockKeeps DEF SerialStep
<1> QED BY <1>1, Voices, HushedKeeps, AwaitReadyKeeps, SaysKeeps

\* The AP reports its reduction as done, never as failed.
LEMMA ReductionSucceeds ==
    ASSUME KInv, FreeFrame
    PROVE  todo' = [todo EXCEPT !["ap"] = <<"reduced">>]
<1>1. answer'.ok BY TensorFrameIsFreed
<1>2. apSum = TENSOR_ELEMENTS BY DEF KInv, Reduction, FreeFrame, ApAt
<1> QED BY <1>1, <1>2 DEF FreeFrame, Printing

\* A core goes on only once its lines are out, so what it has announced is shown.
LEMMA KeepsAnnounced == ASSUME CInv, Next PROVE Announced'
<1>0. /\ KInv /\ Announced /\ todo \in [Cores -> Seq(Lines)] /\ bpc \in BspPcs /\ apc \in ApPcs
  BY DEF CInv, KInv, TypeOK
<1>a. "bsp" \in Cores /\ "ap" \in Cores BY DEF Cores
<1>b. \A x, y : <<x>> # <<>> /\ <<x, y>> # <<>> OBVIOUS
<1> USE DEF Announced, BspAt, ApAt, BspGoes, Printing, BspHalts, bspVars, bspData, apVars,
  serialVars,
  BspPcs, ApPcs
<1>1. CASE Boot BY <1>0, <1>1, <1>a, <1>b DEF Boot
<1>2. CASE InitializePmm BY <1>0, <1>2, <1>a, <1>b DEF InitializePmm
<1>3. CASE ProbeAllocate BY <1>0, <1>3, <1>a, <1>b DEF ProbeAllocate
<1>4. CASE ProbeFree BY <1>0, <1>4, <1>a, <1>b DEF ProbeFree
<1>5. CASE PrepareTensor BY <1>0, <1>5, <1>a, <1>b DEF PrepareTensor
<1>6. CASE StartAp BY <1>0, <1>6, <1>a, <1>b DEF StartAp
<1>7. CASE AwaitReady BY <1>0, <1>7, <1>a, <1>b DEF AwaitReady
<1>8. CASE SendPacket BY <1>0, <1>8, <1>a, <1>b DEF SendPacket
<1>9. CASE SendTensor
  <2>1. UNCHANGED <<todo, console>> /\ bpc' = "await" BY <1>0, <1>9, TensorQueueHasRoom
  <2> QED BY <1>0, <1>9, <1>a, <1>b, <2>1 DEF SendTensor
<1>10. CASE AwaitTensor BY <1>0, <1>10, <1>a, <1>b DEF AwaitTensor
<1>11. CASE ReadSum BY <1>0, <1>11, <1>a, <1>b DEF ReadSum
<1>12. CASE Drain BY <1>0, <1>12, <1>a, <1>b DEF Drain
<1>13. CASE Verdict BY <1>0, <1>13, <1>a, <1>b DEF Verdict
<1>14. CASE Online BY <1>0, <1>14, <1>a, <1>b DEF Online
<1>15. CASE PopPacket BY <1>0, <1>15, <1>a, <1>b DEF PopPacket
<1>16. CASE PushResult BY <1>0, <1>16, <1>a, <1>b DEF PushResult
<1>17. CASE PopTensor BY <1>0, <1>17, <1>a, <1>b DEF PopTensor
<1>18. CASE Reduce BY <1>0, <1>18, <1>a, <1>b DEF Reduce
<1>19. CASE FreeFrame
  <2>1. /\ todo["ap"] = <<>> /\ apc = "free" /\ apc' = "complete" /\ bpc' = bpc /\ console' = console
        /\ todo'["bsp"] = todo["bsp"]
    BY <1>0, <1>19, <1>a DEF FreeFrame
  <2>2. todo'["ap"] = <<"reduced">> BY <1>0, <1>19, <1>a, ReductionSucceeds
  <2> QED BY <1>0, <1>b, <2>1, <2>2
<1>20. CASE Complete BY <1>0, <1>20, <1>a, <1>b DEF Complete
<1>21. CASE \E c \in Cores : SerialLock(c) BY <1>0, <1>21 DEF SerialLock
<1>22. CASE \E c \in Cores : SerialWrite(c)
  <2>1. PICK c \in Cores : SerialWrite(c) BY <1>22
  <2>2. \A l : Shown(console, l) => Shown(console', l) BY <1>0, <2>1, WrittenShows
  <2> QED BY <1>0, <2>1, <2>2 DEF SerialWrite
<1>23. CASE \E c \in Cores : SerialUnlock(c)
  <2>1. PICK c \in Cores : SerialUnlock(c) BY <1>23
  <2>2. /\ Shown(console, todo[c][1]) /\ console' = console
        /\ \A d \in Cores : d # c => todo'[d] = todo[d]
        /\ \/ Len(todo[c]) = 1 /\ todo[c] = <<todo[c][1]>> /\ todo'[c] = <<>>
           \/ todo[c] = <<"pipeline online", "feedback loop">> /\ todo'[c] = <<"feedback loop">>
    BY <2>1, Dropped
  <2>3. bpc' = bpc /\ apc' = apc BY <2>1 DEF SerialUnlock
  <2>4. \A x : <<x>>[1] = x OBVIOUS
  <2>5. \A x, y, z : <<x, y>> # <<z>> OBVIOUS
  <2>6. ASSUME NEW d \in Cores, NEW l, todo[d] = <<l>> PROVE todo'[d] = <<l>> \/ Shown(console', l)
    BY <2>2, <2>4, <2>5, <2>6
  <2>7. todo["bsp"] = <<"pipeline online", "feedback loop">> =>
          todo'["bsp"] \in {<<"feedback loop">>, <<"pipeline online", "feedback loop">>}
    <3>1. \A x, y, z : <<x, y>> # <<z>> OBVIOUS
    <3>2. CASE c = "bsp" BY <2>2, <3>1, <3>2, Zenon
    <3>3. CASE c # "bsp" BY <1>a, <2>2, <3>3
    <3> QED BY <3>2, <3>3
  <2> QED BY <1>0, <1>a, <2>2, <2>3, <2>6, <2>7
<1> QED BY <1>1, <1>2, <1>3, <1>4, <1>5, <1>6, <1>7, <1>8, <1>9, <1>10, <1>11, <1>12, <1>13,
  <1>14, <1>15, <1>16, <1>17, <1>18, <1>19, <1>20, <1>21, <1>22, <1>23, <1>a
  DEF Next, BspStep, ApStep, SerialStep

(***************************************************************************)
(* The UART shows the tensor's way through the machine and the batch's     *)
(* result in causal order, however the two cores' serial_write calls       *)
(* interleave: prepared before reduced, reduced before the sum, the sum    *)
(* before the traces, and every trace before the verdict.                  *)
(***************************************************************************)
THEOREM KernelConsoleOrder == Spec => []ConsoleOrder
<1>1. Init => CInv
  <2> SUFFICES ASSUME Init PROVE CInv OBVIOUS
  <2>1. KInv BY InitKInv
  <2>2. console = <<>> /\ reports = <<>> /\ bpc = "boot" /\ apc = "off" BY DEF Init
  <2>3. \A c \in Cores : todo[c] = <<>> BY DEF Init
  <2>4. Traces(console) = 0
    <3>1. TracesIn(console) = {} BY <2>2, EmptyQueue DEF TracesIn
    <3> QED BY <3>1, FS_EmptySet DEF Traces
  <2>5. ConsoleOrder
    <3>1. DOMAIN console = {} BY <2>2
    <3> QED BY <3>1 DEF ConsoleOrder
  <2>6. NextLines BY <2>3 DEF NextLines
  <2>7. Rows
    <3>1. \A c \in Cores : Len(todo[c]) <= 1
      <4>1. Len(<<>>) <= 1 BY EmptyQueue
      <4> QED BY <2>3, <4>1
    <3>2. todo["ap"] = <<>> BY <2>3 DEF Cores
    <3> QED BY <3>1, <3>2 DEF Rows
  <2>8. Announced BY <2>2 DEF Announced
  <2>9. Counted BY <2>2, <2>3, <2>4, EmptyQueue DEF Counted, Pending, Cores
  <2> QED BY <2>1, <2>5, <2>6, <2>7, <2>8, <2>9 DEF CInv
<1>2. CInv /\ [Next]_vars => CInv'
  <2> SUFFICES ASSUME CInv, [Next]_vars PROVE CInv' OBVIOUS
  <2>0. KInv BY DEF CInv
  <2>1. CASE Next
    <3>1. KInv' BY <2>0, <2>1, KeepsKInv
    <3> QED BY <2>1, <3>1, KeepsQuiet, KeepsAnnounced DEF CInv, Quiet
  <2>2. CASE UNCHANGED vars
    <3>1. KInv' BY <2>0, <2>2, StutterKInv
    <3>2. UNCHANGED <<todo, console, spc, reports, bpc, apc>>
      BY <2>2 DEF vars, bspVars, bspData, batchVars, apVars, serialVars
    <3>3. Quiet' BY <3>2, HushedKeeps DEF Hushed
    <3>4. Announced' BY <3>2 DEF CInv, Announced
    <3> QED BY <3>1, <3>3, <3>4 DEF CInv, Quiet
  <2> QED BY <2>1, <2>2
<1>3. CInv => ConsoleOrder BY DEF CInv
<1> QED BY <1>1, <1>2, <1>3, PTL DEF Spec
=============================================================================
