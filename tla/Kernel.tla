------------------------------- MODULE Kernel -------------------------------
(***************************************************************************)
(* cell-baremetal: the bootstrap processor (BSP) runs _start, the first    *)
(* application processor (AP) runs ap_entry.  They share three SPSC        *)
(* queues, four atomics, the frame allocator, the tensor's frame and the   *)
(* UART.                                                                   *)
(*                                                                         *)
(* Queues are FIFO sequences (BoundedFifo is what SpscQueue implements).   *)
(* A push or pop that fails in a spin loop changes nothing, so it is the   *)
(* action's guard that waits.                                              *)
(*                                                                         *)
(* Memory.  clock[c][d] counts the accesses of core d to shared plain      *)
(* memory that happen before core c's next step; a Release store or a push *)
(* carries the core's clock, an Acquire load or a pop joins it.            *)
(* stamp[loc][d] is d's count at its latest access to loc.  An access that *)
(* the other core's latest one does not happen before is a data race, and  *)
(* reads anything.                                                         *)
(***************************************************************************)
EXTENDS Integers, Sequences, FiniteSets, SequencesExt

CONSTANTS
    PACKET_COUNT,     \* traces in the batch (10)
    FAULTY,           \* the trace sent with an empty payload (4)
    INTER_CAP,        \* capacity of INTER_CORE_QUEUE (16)
    COMPLETION_CAP,   \* capacity of COMPLETION_QUEUE (32)
    TENSOR_CAP,       \* capacity of TENSOR_QUEUE (2)
    TENSOR_ELEMENTS,  \* ones in the tensor, hence its sum (1024)
    MAX_FRAMES,       \* frames the allocator can manage
    Boots             \* what Limine may answer: records as in BootType

ASSUME BatchAssumption ==
    /\ PACKET_COUNT \in Nat \ {0} /\ FAULTY \in 1..PACKET_COUNT
    /\ INTER_CAP \in Nat \ {0} /\ TENSOR_CAP \in Nat \ {0}
    /\ TENSOR_ELEMENTS \in Nat \ {0} /\ MAX_FRAMES \in Nat
\* The BSP reads no completion before the AP has finished the whole batch.
ASSUME CompletionAssumption ==
    COMPLETION_CAP \in Nat /\ PACKET_COUNT <= COMPLETION_CAP

VARIABLES
    boot,              \* Limine's answers
    bpc,               \* where the BSP is in _start
    sent,              \* packets pushed
    frame,             \* _start's probe_frame, then tensor_frame
    tensorSum,         \* _start's tensor_sum
    reports,           \* results popped, in order: Len(reports) is _start's reports
    succeeded, failed, \* _start's counters
    records,           \* the supervisor's log
    apc,               \* where the AP is in ap_entry
    result,            \* ap_entry's local result: <<>> or one WorkResult
    chunk,             \* phys_addr of the tensor the AP holds
    apSum,             \* ap_entry's local sum
    interQ, completionQ, tensorQ,  \* messages [val, clock], oldest first
    AP_READY, TENSOR_COMPLETE,     \* [set, clock]
    AP_PROCESSED, TENSOR_SUM_BITS,
    usable, free, answer,  \* the frame allocator
    content,           \* what the tensor's frame holds
    lock,              \* SERIAL_LOCK [set, clock]
    spc,               \* where each core is in serial_write
    todo,              \* lines each core has still to print before it goes on
    console,           \* lines on the UART
    clock, stamp       \* happens-before

batchVars == <<reports, succeeded, failed, records>>
bspData == <<sent, frame, tensorSum, batchVars>>
bspVars == <<boot, bpc, bspData>>
apData == <<result, chunk, apSum, AP_PROCESSED>>
apVars == <<apc, apData>>
queueVars == <<interQ, completionQ, tensorQ>>
flagVars == <<AP_READY, TENSOR_COMPLETE, TENSOR_SUM_BITS>>
frameVars == <<usable, free, answer, content>>
serialVars == <<lock, spc, todo, console>>
hbVars == <<clock, stamp>>
vars == <<bspVars, apVars, queueVars, flagVars, frameVars, serialVars, hbVars>>

Pmm == INSTANCE FrameAllocator
Sup == INSTANCE Supervisor WITH CAP <- PACKET_COUNT

Cores == {"bsp", "ap"}
Other(c) == IF c = "bsp" THEN "ap" ELSE "bsp"
Locations == {"pmm", "frame", "serial", "sum"}
Frames == 0..(MAX_FRAMES - 1)
None == Pmm!NoFrame

\* Limine's answers: a memory map, a higher-half offset that can be added to
\* a frame's address or not, the SMP response, and another processor in it.
BootType == [memmap : BOOLEAN, usable : SUBSET Frames,
             hhdm : {"none", "overflow", "ok"}, smp : BOOLEAN, ap : BOOLEAN]
ASSUME BootAssumption == Boots \subseteq BootType

FRAME_SIZE == 4096
Address(f) == f * FRAME_SIZE
\* Mutant: the physical address is taken for a frame number.
RawNumber(a) == a

FromAddress(a) == a \div FRAME_SIZE

-----------------------------------------------------------------------------
(* Happens-before.                                                         *)

Zero == [d \in Cores |-> 0]
Unset == [set |-> FALSE, clock |-> Zero]

\* Mutant: the unlocking store is missing.
StillRaised(c) == [set |-> TRUE, clock |-> clock[c]]

\* A Release store of true, and of false, by core c.
Raised(c) == [set |-> TRUE, clock |-> clock[c]]
Lowered(c) == [set |-> FALSE, clock |-> clock[c]]
Message(c, val) == [val |-> val, clock |-> clock[c]]

Larger(m, n) == IF m >= n THEN m ELSE n
\* Mutant: Ordering::Relaxed on a load.
LoadRelaxed(c, from) == UNCHANGED clock

Acquire(c, from) ==
    clock' = [clock EXCEPT ![c] = [d \in Cores |-> Larger(@[d], from[d])]]

Ordered(c, loc) == stamp[loc][Other(c)] <= clock[c][Other(c)]
\* Core c touches every location of locs.
Access(c, locs) ==
    /\ clock' = [clock EXCEPT ![c][c] = @ + 1]
    /\ stamp' = [loc \in Locations |->
                   IF loc \in locs THEN [stamp[loc] EXCEPT ![c] = clock[c][c] + 1]
                                   ELSE stamp[loc]]

\* Mutant: `if` instead of `while` around the load of a flag.
AwaitedOnce(flag) == TRUE

\* The spin loop on a flag ends.
Awaited(flag) == flag.set

-----------------------------------------------------------------------------
(* Queue calls in a spin loop: the caller waits until one succeeds.        *)

\* Mutant: a push refused by a full queue is not retried.
PushOnce(q, cap, m) == q' = IF Len(q) < cap THEN Append(q, m) ELSE q

\* Mutant: the item is read but stays in the queue.
Peek(c, q) == q # <<>> /\ Acquire(c, Head(q).clock) /\ UNCHANGED q

Push(q, cap, m) == Len(q) < cap /\ q' = Append(q, m)
Pop(c, q) == q # <<>> /\ Acquire(c, Head(q).clock) /\ q' = Tail(q)

-----------------------------------------------------------------------------
(* serial_write, run by a core for each line it has to print.              *)

Printing(c, lines) ==
    /\ todo' = [todo EXCEPT ![c] = lines]
    /\ UNCHANGED <<lock, spc, console>>

\* compare_exchange(false, true) succeeds.
LockFree == ~lock.set

SerialLock(c) ==
    /\ todo[c] # <<>> /\ spc[c] = "spin"
    /\ LockFree
    /\ lock' = [lock EXCEPT !.set = TRUE]
    /\ spc' = [spc EXCEPT ![c] = "write"]
    /\ Acquire(c, lock.clock)
    /\ UNCHANGED <<bspVars, apVars, queueVars, flagVars, frameVars, todo, console,
                   stamp>>

SerialWrite(c) ==
    /\ spc[c] = "write"
    /\ console' = Append(console, Head(todo[c]))
    /\ spc' = [spc EXCEPT ![c] = "unlock"]
    /\ Access(c, {"serial"})
    /\ UNCHANGED <<bspVars, apVars, queueVars, flagVars, frameVars, lock, todo>>

SerialUnlock(c) ==
    /\ spc[c] = "unlock"
    /\ lock' = Lowered(c)
    /\ spc' = [spc EXCEPT ![c] = "spin"]
    /\ todo' = [todo EXCEPT ![c] = Tail(@)]
    /\ UNCHANGED <<bspVars, apVars, queueVars, flagVars, frameVars, console, hbVars>>

-----------------------------------------------------------------------------

Init ==
    /\ boot \in Boots
    /\ bpc = "boot" /\ sent = 0 /\ frame = None /\ tensorSum = None
    /\ reports = <<>> /\ succeeded = 0 /\ failed = 0 /\ Sup!SupervisorInit
    /\ apc = "off" /\ result = <<>> /\ chunk = None /\ apSum = None
    /\ interQ = <<>> /\ completionQ = <<>> /\ tensorQ = <<>>
    /\ AP_READY = Unset /\ TENSOR_COMPLETE = Unset
    /\ AP_PROCESSED = 0 /\ TENSOR_SUM_BITS = 0
    /\ Pmm!AllocatorInit /\ content = "garbage"
    /\ lock = Unset /\ spc = [c \in Cores |-> "spin"]
    /\ todo = [c \in Cores |-> <<>>] /\ console = <<>>
    /\ clock = [c \in Cores |-> Zero] /\ stamp = [loc \in Locations |-> Zero]

-----------------------------------------------------------------------------
(* _start                                                                  *)

BspAt(pc) == bpc = pc /\ todo["bsp"] = <<>>
BspGoes(pc) == bpc' = pc /\ UNCHANGED boot
BspHalts(lines) == BspGoes("halted") /\ Printing("bsp", lines)

\* serial.init() touches the UART without the lock.
Boot ==
    /\ BspAt("boot")
    /\ Access("bsp", {"serial"})
    /\ BspGoes("memmap") /\ Printing("bsp", <<"active">>)
    /\ UNCHANGED <<bspData, apVars, queueVars, flagVars, frameVars>>

InitializePmm ==
    /\ BspAt("memmap")
    /\ \/ /\ ~boot.memmap
          /\ BspHalts(<<"no memory map">>)
          /\ UNCHANGED <<usable, free, answer, hbVars>>
       \/ /\ boot.memmap
          /\ Pmm!Initialize(boot.usable) /\ Access("bsp", {"pmm"})
          /\ BspGoes("probe") /\ Printing("bsp", <<"pmm stats">>)
    /\ UNCHANGED <<bspData, apVars, queueVars, flagVars, content>>

ProbeAllocate ==
    /\ BspAt("probe")
    /\ Pmm!Allocate /\ Access("bsp", {"pmm"})
    /\ frame' = answer'.frame
    /\ IF answer'.ok
       THEN BspGoes("return") /\ Printing("bsp", <<"probe allocated">>)
       ELSE BspHalts(<<"probe failed">>)
    /\ UNCHANGED <<sent, tensorSum, batchVars, apVars, queueVars, flagVars, content>>

ProbeFree ==
    /\ BspAt("return")
    /\ Access("bsp", {"pmm"})
    /\ Pmm!Free(frame)
    /\ IF answer'.ok
       THEN BspGoes("tensor") /\ Printing("bsp", <<"frame returned">>)
       ELSE BspHalts(<<"deallocation failed">>)
    /\ UNCHANGED <<bspData, apVars, queueVars, flagVars, content>>

\* HHDM response, allocation, checked_add, TensorChunk::new, fill, freeze.
PrepareTensor ==
    /\ BspAt("tensor")
    /\ \/ /\ boot.hhdm = "none"
          /\ BspHalts(<<"no hhdm">>)
          /\ UNCHANGED <<usable, free, answer, frame, content, hbVars>>
       \/ /\ boot.hhdm # "none"
          /\ Pmm!Allocate
          /\ frame' = answer'.frame
          /\ IF ~answer'.ok \/ boot.hhdm = "overflow"
             THEN /\ Access("bsp", {"pmm"})
                  /\ BspHalts(<<>>) /\ UNCHANGED content
             ELSE /\ Access("bsp", {"pmm", "frame"})
                  /\ content' = "ones"
                  /\ BspGoes("start") /\ Printing("bsp", <<"tensor prepared">>)
    /\ UNCHANGED <<sent, tensorSum, batchVars, apVars, queueVars, flagVars>>

\* goto_address.write starts the AP; no ordering is assumed of it.
StartAp ==
    /\ BspAt("start")
    /\ \/ /\ ~boot.smp
          /\ BspHalts(<<"no smp">>) /\ UNCHANGED apc
       \/ /\ boot.smp /\ ~boot.ap
          /\ BspHalts(<<"no ap">>) /\ UNCHANGED apc
       \/ /\ boot.smp /\ boot.ap
          /\ apc' = "online"
          /\ BspGoes("wait") /\ UNCHANGED serialVars
    /\ UNCHANGED <<bspData, apData, queueVars, flagVars, frameVars, hbVars>>

AwaitReady ==
    /\ BspAt("wait")
    /\ Awaited(AP_READY)
    /\ Acquire("bsp", AP_READY.clock)
    /\ BspGoes("send") /\ Printing("bsp", <<"pipeline online", "feedback loop">>)
    /\ UNCHANGED <<bspData, apVars, queueVars, flagVars, frameVars, stamp>>

\* Mutant: the loop runs once more.
LastPacketLate(n) == n > PACKET_COUNT

LastPacket(n) == n = PACKET_COUNT

\* The halt after RawPayload::new is left out: a trace and a name are at most
\* nine bytes, well below the payload's limit, so it is never reached.
SendPacket ==
    /\ BspAt("send")
    /\ sent' = sent + 1
    /\ Push(interQ, INTER_CAP,
            Message("bsp", [trace |-> sent', empty |-> sent' = FAULTY]))
    /\ BspGoes(IF LastPacket(sent') THEN "send tensor" ELSE "send")
    /\ UNCHANGED <<frame, tensorSum, batchVars, apVars, completionQ, tensorQ, flagVars,
                   frameVars, serialVars, hbVars>>

SendTensor ==
    /\ BspAt("send tensor")
    /\ IF Len(tensorQ) < TENSOR_CAP
       THEN /\ tensorQ' = Append(tensorQ, Message("bsp", Address(frame)))
            /\ BspGoes("await") /\ UNCHANGED serialVars
       ELSE BspHalts(<<"tensor queue full">>) /\ UNCHANGED tensorQ
    /\ UNCHANGED <<bspData, apVars, interQ, completionQ, flagVars, frameVars, hbVars>>

AwaitTensor ==
    /\ BspAt("await")
    /\ Awaited(TENSOR_COMPLETE)
    /\ Acquire("bsp", TENSOR_COMPLETE.clock)
    /\ BspGoes("sum")
    /\ UNCHANGED <<bspData, apVars, queueVars, flagVars, frameVars, serialVars, stamp>>

\* A load the AP's store does not happen before may still see the initial 0.
ReadSum ==
    /\ BspAt("sum")
    /\ tensorSum' \in IF Ordered("bsp", "sum") THEN {TENSOR_SUM_BITS}
                      ELSE {0, TENSOR_SUM_BITS}
    /\ BspGoes("drain") /\ Printing("bsp", <<"sum">>)
    /\ UNCHANGED <<sent, frame, batchVars, apVars, queueVars, flagVars, frameVars,
                   hbVars>>

\* The two arms of the match on a result.
Tally(r) ==
    IF r.failed THEN failed' = failed + 1 /\ UNCHANGED succeeded
                ELSE succeeded' = succeeded + 1 /\ UNCHANGED failed

Drain ==
    /\ BspAt("drain")
    /\ Pop("bsp", completionQ)
    /\ LET r == Head(completionQ).val IN
         /\ reports' = Append(reports, r)
         /\ Tally(r) /\ Sup!Observe(r)
         /\ Printing("bsp", IF r.failed THEN <<"trace failed">> ELSE <<"trace ok">>)
    /\ BspGoes(IF Len(reports') = PACKET_COUNT THEN "verdict" ELSE "drain")
    /\ UNCHANGED <<sent, frame, tensorSum, apVars, interQ, tensorQ, flagVars, frameVars,
                   stamp>>

Verdict ==
    /\ BspAt("verdict")
    /\ IF succeeded = PACKET_COUNT - 1 /\ failed = 1 /\ Sup!FailureCount = 1
       THEN BspHalts(<<"batch completed">>)
       ELSE BspHalts(<<"batch invariant failed">>)
    /\ UNCHANGED <<bspData, apVars, queueVars, flagVars, frameVars, hbVars>>

-----------------------------------------------------------------------------
(* ap_entry                                                                *)

ApAt(pc) == apc = pc /\ todo["ap"] = <<>>

Online ==
    /\ ApAt("online")
    /\ AP_READY' = Raised("ap")
    /\ apc' = "loop" /\ Printing("ap", <<"ap online">>)
    /\ UNCHANGED <<bspVars, apData, queueVars, TENSOR_COMPLETE, TENSOR_SUM_BITS,
                   frameVars, hbVars>>

\* Mutant: the loop runs while AP_PROCESSED <= PACKET_COUNT.
InBatchLate == AP_PROCESSED <= PACKET_COUNT

InBatch == AP_PROCESSED < PACKET_COUNT

\* is_empty, else validate, whose context is the payload's.
Process(raw) == [trace |-> raw.trace, failed |-> raw.empty]

PopPacket ==
    /\ ApAt("loop")
    /\ InBatch
    /\ Pop("ap", interQ)
    /\ result' = <<Process(Head(interQ).val)>>
    /\ apc' = "report"
    /\ UNCHANGED <<bspVars, chunk, apSum, AP_PROCESSED, completionQ, tensorQ, flagVars,
                   frameVars, serialVars, stamp>>

PushResult ==
    /\ ApAt("report")
    /\ Push(completionQ, COMPLETION_CAP, Message("ap", result[1]))
    /\ result' = <<>>
    /\ AP_PROCESSED' = AP_PROCESSED + 1
    /\ apc' = "loop"
    /\ UNCHANGED <<bspVars, chunk, apSum, interQ, tensorQ, flagVars, frameVars,
                   serialVars, hbVars>>

PopTensor ==
    /\ ApAt("loop")
    /\ ~InBatch
    /\ Pop("ap", tensorQ)
    /\ chunk' = Head(tensorQ).val
    /\ apc' = "reduce"
    /\ UNCHANGED <<bspVars, result, apSum, AP_PROCESSED, interQ, completionQ, flagVars,
                   frameVars, serialVars, stamp>>

\* Sums the slice, deconstructs the chunk and stores the sum.
Reduce ==
    /\ ApAt("reduce")
    /\ apSum' \in IF Ordered("ap", "frame") /\ content = "ones" THEN {TENSOR_ELEMENTS}
                  ELSE {0, TENSOR_ELEMENTS}
    /\ TENSOR_SUM_BITS' = apSum'
    /\ Access("ap", {"frame", "sum"})
    /\ apc' = "free"
    /\ UNCHANGED <<bspVars, result, chunk, AP_PROCESSED, queueVars, AP_READY,
                   TENSOR_COMPLETE, frameVars, serialVars>>

FreeFrame ==
    /\ ApAt("free")
    /\ Access("ap", {"pmm"})
    /\ Pmm!Free(FromAddress(chunk))
    /\ Printing("ap", IF answer'.ok /\ apSum = TENSOR_ELEMENTS
                      THEN <<"reduced">> ELSE <<"reduction failed">>)
    /\ apc' = "complete"
    /\ UNCHANGED <<bspVars, apData, queueVars, flagVars, content>>

Complete ==
    /\ ApAt("complete")
    /\ TENSOR_COMPLETE' = Raised("ap")
    /\ apc' = "halted"
    /\ UNCHANGED <<bspVars, apData, queueVars, AP_READY, TENSOR_SUM_BITS, frameVars,
                   serialVars, hbVars>>

-----------------------------------------------------------------------------

SerialStep(c) == SerialLock(c) \/ SerialWrite(c) \/ SerialUnlock(c)

BspStep ==
    \/ Boot \/ InitializePmm \/ ProbeAllocate \/ ProbeFree \/ PrepareTensor
    \/ StartAp \/ AwaitReady \/ SendPacket \/ SendTensor \/ AwaitTensor
    \/ ReadSum \/ Drain \/ Verdict \/ SerialStep("bsp")

ApStep ==
    \/ Online \/ PopPacket \/ PushResult \/ PopTensor \/ Reduce \/ FreeFrame
    \/ Complete \/ SerialStep("ap")

Next == BspStep \/ ApStep

Spec == Init /\ [][Next]_vars

\* Each core keeps executing, and a store becomes visible to the other core.
FairSpec == Spec /\ WF_vars(BspStep) /\ WF_vars(ApStep)

-----------------------------------------------------------------------------
(* What the state means.                                                   *)

BspHalted == BspAt("halted")
ApHalted == apc = "off" \/ ApAt("halted")
\* Limine answers everything and there is a frame and a processor to use.
Healthy == boot.memmap /\ boot.usable # {} /\ boot.hhdm = "ok" /\ boot.smp /\ boot.ap

\* Every packet between the BSP's push and its report, oldest first.
Pipeline ==
    reports \o [k \in DOMAIN completionQ |-> completionQ[k].val]
            \o result
            \o [k \in DOMAIN interQ |-> [trace |-> interQ[k].val.trace,
                                         failed |-> interQ[k].val.empty]]

\* The probe is held until it is returned, the tensor's frame until the push.
\* A BSP that halts before the push keeps what it has.
BspHolds ==
    \/ bpc \in {"return", "start", "wait", "send", "send tensor"}
    \/ bpc = "halted" /\ apc = "off" /\ frame # None /\ boot.hhdm # "none"
Holders ==
    (IF BspHolds THEN {<<"bsp", frame>>} ELSE {})
    \cup {<<k, FromAddress(tensorQ[k].val)>> : k \in DOMAIN tensorQ}
    \cup (IF apc \in {"reduce", "free"} THEN {<<"ap", FromAddress(chunk)>>} ELSE {})

-----------------------------------------------------------------------------

BspPcs == {"boot", "memmap", "probe", "return", "tensor", "start", "wait", "send",
           "send tensor", "await", "sum", "drain", "verdict", "halted"}
ApPcs == {"off", "online", "loop", "report", "reduce", "free", "complete", "halted"}
Clock == [Cores -> Nat]
Flag == [set : BOOLEAN, clock : Clock]
Packet == [trace : 1..PACKET_COUNT, empty : BOOLEAN]
WorkResult == [trace : 1..PACKET_COUNT, failed : BOOLEAN]
Sums == {0, TENSOR_ELEMENTS}
Addresses == {Address(f) : f \in Frames}
Lines == {"active", "no memory map", "pmm stats", "probe failed", "probe allocated",
          "frame returned", "deallocation failed", "no hhdm", "tensor prepared",
          "no smp", "no ap", "pipeline online", "feedback loop", "tensor queue full",
          "sum", "trace ok", "trace failed", "batch completed",
          "batch invariant failed", "ap online", "reduced", "reduction failed"}

(***************************************************************************)
(* Type invariant: counters stay within the batch, queues within their     *)
(* capacities.                                                             *)
(***************************************************************************)
TypeOK ==
    /\ boot \in BootType
    /\ bpc \in BspPcs /\ sent \in 0..PACKET_COUNT
    /\ frame \in Frames \cup {None} /\ tensorSum \in Sums \cup {None}
    /\ reports \in Seq(WorkResult) /\ records \in Seq(WorkResult)
    /\ succeeded \in 0..PACKET_COUNT /\ failed \in 0..PACKET_COUNT
    /\ apc \in ApPcs /\ result \in Seq(WorkResult)
    /\ chunk \in Addresses \cup {None} /\ apSum \in Sums \cup {None}
    /\ AP_PROCESSED \in 0..PACKET_COUNT
    /\ interQ \in Seq([val : Packet, clock : Clock]) /\ Len(interQ) <= INTER_CAP
    /\ completionQ \in Seq([val : WorkResult, clock : Clock])
    /\ Len(completionQ) <= COMPLETION_CAP
    /\ tensorQ \in Seq([val : Addresses, clock : Clock]) /\ Len(tensorQ) <= TENSOR_CAP
    /\ AP_READY \in Flag /\ TENSOR_COMPLETE \in Flag /\ TENSOR_SUM_BITS \in Sums
    /\ free \subseteq usable /\ usable \subseteq Frames
    /\ answer \in [frame : Frames \cup {None}, ok : BOOLEAN]
    /\ content \in {"garbage", "ones"}
    /\ lock \in Flag /\ spc \in [Cores -> {"spin", "write", "unlock"}]
    /\ todo \in [Cores -> Seq(Lines)] /\ console \in Seq(Lines)
    /\ clock \in [Cores -> Clock] /\ stamp \in [Locations -> Clock]

(***************************************************************************)
(* No trace is lost, duplicated, reordered or misjudged between the BSP's  *)
(* push and the BSP's report: at every moment the reports, the completion  *)
(* queue, the AP's hand and the inter-core queue hold traces 1..sent in    *)
(* order, and exactly trace FAULTY is the failure.                         *)
(***************************************************************************)
Lineage ==
    Pipeline = [k \in 1..sent |-> [trace |-> k, failed |-> k = FAULTY]]

(***************************************************************************)
(* No access to plain memory the cores share races with the other core's:  *)
(* the UART under SERIAL_LOCK, the tensor's frame and the allocator handed *)
(* over from _start to ap_entry ("no other PMM operation runs              *)
(* concurrently", pmm.rs).  SERIAL_LOCK is held exactly while one core is  *)
(* inside serial_write, so the characters of two lines never mix.          *)
(***************************************************************************)
NoDataRace ==
    /\ lock.set <=> \E c \in Cores : spc[c] # "spin"
    /\ \E c \in Cores : spc[c] = "spin"
    /\ \A c \in Cores : spc[c] = "write" => Ordered(c, "serial")
    /\ apc = "reduce" => Ordered("ap", "frame")
    /\ apc = "free" => Ordered("ap", "pmm")
    /\ bpc \in {"memmap", "probe", "return", "tensor"} => Ordered("bsp", "pmm")

(***************************************************************************)
(* A frame the allocator counts as taken has exactly one holder, and a     *)
(* holder's frame is taken: the tensor's frame is never handed out while   *)
(* its descriptor is with the BSP, in TENSOR_QUEUE or with the AP, and is  *)
(* back in the bitmap after it.                                            *)
(***************************************************************************)
FrameOwnership ==
    /\ usable \ free = {h[2] : h \in Holders}
    /\ Cardinality(Holders) <= 1

(***************************************************************************)
(* The sum _start reads after TENSOR_COMPLETE is the AP's, never the       *)
(* initial 0 of TENSOR_SUM_BITS.                                           *)
(***************************************************************************)
SumAgrees == tensorSum # None => tensorSum = TENSOR_ELEMENTS

(***************************************************************************)
(* The error branches that only a wrong kernel could take stay untaken:    *)
(* freeing an owned frame succeeds, TENSOR_QUEUE has room, the reduction   *)
(* is right and the batch ends with PACKET_COUNT - 1 successes and one     *)
(* recorded failure.                                                       *)
(***************************************************************************)
ErrorsUnreachable ==
    \A c \in Cores : ToSet(todo[c]) \cap
        {"deallocation failed", "tensor queue full", "reduction failed",
         "batch invariant failed"} = {}

(***************************************************************************)
(* What the UART shows of the tensor is in causal order, as README.md      *)
(* prints it: prepared, then reduced and freed by the AP, then the sum,    *)
(* then the reports and the verdict.                                       *)
(***************************************************************************)
ConsoleOrder ==
    \A k \in DOMAIN console :
        LET Before(l) == \E j \in 1..(k - 1) : console[j] = l IN
        /\ console[k] = "reduced" => Before("tensor prepared") /\ Before("ap online")
        /\ console[k] = "sum" => Before("reduced") /\ Before("feedback loop")
        /\ console[k] \in {"trace ok", "trace failed"} => Before("sum")
        /\ console[k] = "batch completed" =>
             Cardinality({j \in 1..(k - 1) :
                 console[j] \in {"trace ok", "trace failed"}}) = PACKET_COUNT

(***************************************************************************)
(* The cores never wait for each other for good: a machine that offers     *)
(* what the kernel needs ends with both cores halted after the batch's     *)
(* verdict, and with every frame back in the allocator.                    *)
(***************************************************************************)
BatchCompletes ==
    Healthy ~> /\ BspHalted /\ apc = "halted"
               /\ Last(console) = "batch completed"
               /\ free = usable

(***************************************************************************)
(* Whatever Limine answers, _start reaches halt() and a started AP does.   *)
(***************************************************************************)
Halts == <>[](BspHalted /\ ApHalted)

(***************************************************************************)
(* "The APs do not access PMM in this PoC." (pmm.rs)                       *)
(***************************************************************************)
OnlyBspUsesPmm == stamp["pmm"]["ap"] = 0

=============================================================================
