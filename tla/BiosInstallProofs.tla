------------------------- MODULE BiosInstallProofs -------------------------
(***************************************************************************)
(* Proofs about bios_install, for every geometry, contents, command line,  *)
(* log capacity and number of faults: a failed or uninstalled install      *)
(* whose undo reports no error leaves the device as it was, but for what a *)
(* torn write or a lost block left (InstallUndone); one that succeeds has  *)
(* written the partition table it found (TableKept) and all of stage 2,    *)
(* where the boot sector says it is (StageTwoComplete); and no write on    *)
(* the way, nor one of the undo, costs a copy of a GPT that is not damaged *)
(* itself (GptStaysValid); a converted GPT's partitions are the ones the   *)
(* new MBR lists (ConvertedTable); and no byte of a partition is written   *)
(* unless the user names it (PartitionsKept).                              *)
(***************************************************************************)
EXTENDS BiosInstall, TLAPS, SequenceTheorems, FiniteSetTheorems, WellFoundedInduction

-----------------------------------------------------------------------------
(* The undo log.                                                           *)

\* Entries go back newest first, so the oldest one that covers a cell goes
\* back last: it holds the original value.
Oldest ==
    \A k \in 1..Len(log) : \A a \in Cells :
        a \in DOMAIN log[k] /\ (\A j \in 1..(k - 1) : a \notin DOMAIN log[j]) => log[k][a] = orig[a]

\* As long as no entry was given up, a cell that none covers is as it was.
Uncovered == ~failed => \A a \in Cells : Covered(a) \/ view[a] = orig[a]

\* As long as no call failed, an entry covers whatever is damaged.
Repairable == faults \in Nat /\ (faults = 0 => \A a \in damaged : Covered(a))

IsSeq(s) == \E P : s \in Seq(P)

LogInv ==
    /\ orig = [c \in Cells |-> orig[c]] /\ view = [c \in Cells |-> view[c]]
    /\ IsSeq(log) /\ Oldest /\ Uncovered /\ Repairable
    /\ phase = "install" => ~failed
    /\ pc = "undone" => log = <<>>

-----------------------------------------------------------------------------
(* Sequences whose elements have no type.                                  *)

\* A new entry at the end.
LEMMA Appended ==
    ASSUME NEW s, IsSeq(s), NEW e
    PROVE  /\ IsSeq(Append(s, e)) /\ Len(s) \in Nat /\ Len(Append(s, e)) = Len(s) + 1
           /\ Append(s, e)[Len(s) + 1] = e
           /\ \A k \in 1..Len(s) : Append(s, e)[k] = s[k]
<1>1. PICK P : s \in Seq(P) BY DEF IsSeq
<1> DEFINE Q == P \cup {e}
<1>2. s \in Seq(Q) BY <1>1, SeqMonotonic, Zenon
<1>3. e \in Q OBVIOUS
<1> HIDE DEF Q
<1>4. /\ Append(s, e) \in Seq(Q) /\ Len(Append(s, e)) = Len(s) + 1
      /\ Append(s, e)[Len(s) + 1] = e
      /\ \A k \in 1..Len(s) : Append(s, e)[k] = s[k]
  BY <1>2, <1>3, AppendProperties
<1>5. Len(s) \in Nat BY <1>1, LenProperties, Zenon
<1> QED BY <1>4, <1>5, Zenon DEF IsSeq

\* The log without its newest entry.
LEMMA Popped ==
    ASSUME NEW s, IsSeq(s), s # <<>>
    PROVE  /\ IsSeq(SubSeq(s, 1, Len(s) - 1)) /\ Len(s) \in Nat \ {0}
           /\ Len(SubSeq(s, 1, Len(s) - 1)) = Len(s) - 1
           /\ \A k \in 1..(Len(s) - 1) : SubSeq(s, 1, Len(s) - 1)[k] = s[k]
<1>1. PICK P : s \in Seq(P) BY DEF IsSeq
<1>2. Len(s) \in Nat \ {0} BY <1>1, EmptySeq, Zenon
<1>3. \A k \in 1..(Len(s) - 1) : s[k] \in P BY <1>1, <1>2, ElementOfSeq
<1>4. 1 \in Int /\ Len(s) - 1 \in Int BY <1>2
<1>5. SubSeq(s, 1, Len(s) - 1) \in Seq(P)
  <2>1. \A m, n \in Int : (\A k \in m..n : s[k] \in P) => SubSeq(s, m, n) \in Seq(P)
    BY SubSeqProperties, Zenon
  <2> QED BY <1>3, <1>4, <2>1, Zenon
<1>6. Len(SubSeq(s, 1, Len(s) - 1)) = Len(s) - 1
  <2>1. \A m, n \in Int : (\A k \in m..n : s[k] \in P) => Len(SubSeq(s, m, n)) = IF m <= n THEN n - m + 1 ELSE 0
    BY SubSeqProperties, Zenon
  <2>2. Len(SubSeq(s, 1, Len(s) - 1)) = IF 1 <= Len(s) - 1 THEN Len(s) - 1 - 1 + 1 ELSE 0
    BY <1>3, <1>4, <2>1, Zenon
  <2>3. \A n \in Nat \ {0} : (IF 1 <= n - 1 THEN n - 1 - 1 + 1 ELSE 0) = n - 1 OBVIOUS
  <2> QED BY <1>2, <2>2, <2>3, Zenon
<1>7. \A k \in 1..(Len(s) - 1) : SubSeq(s, 1, Len(s) - 1)[k] = s[k] BY <1>1, <1>2
<1> QED BY <1>2, <1>5, <1>6, <1>7, Zenon DEF IsSeq

-----------------------------------------------------------------------------
(* What the steps do to the device.                                        *)

\* A logged write: a cell covered for the first time still had its original
\* value.
LEMMA WriteInv ==
    ASSUME LogInv, NEW p, Write(p), faults' = faults, pc' # "undone" PROVE LogInv'
<1> USE DEF LogInv
<1>1. /\ IsSeq(log') /\ Len(log) \in Nat /\ Len(log') = Len(log) + 1
      /\ log'[Len(log) + 1] = Overwritten(DOMAIN p)
      /\ \A k \in 1..Len(log) : log'[k] = log[k]
  <2>1. log' = Append(log, Overwritten(DOMAIN p)) BY DEF Write
  <2>2. IsSeq(log) OBVIOUS
  <2>3. /\ IsSeq(Append(log, Overwritten(DOMAIN p))) /\ Len(log) \in Nat
        /\ Len(Append(log, Overwritten(DOMAIN p))) = Len(log) + 1
        /\ Append(log, Overwritten(DOMAIN p))[Len(log) + 1] = Overwritten(DOMAIN p)
        /\ \A k \in 1..Len(log) : Append(log, Overwritten(DOMAIN p))[k] = log[k]
    BY <2>2, Appended, Zenon
  <2> QED BY <2>1, <2>3, Zenon DEF IsSeq
<1>2. orig' = orig /\ view' = Apply(p, view) /\ phase' = phase /\ failed' = failed /\ damaged' = damaged
  BY DEF Write
<1>6. phase = "install" /\ ~failed BY DEF Write
<1>3. view' = [c \in Cells |-> view'[c]] BY <1>2 DEF Apply
<1>4. Oldest'
  <2> SUFFICES ASSUME NEW k \in 1..Len(log'), NEW a \in Cells, a \in DOMAIN log'[k],
                      \A j \in 1..(k - 1) : a \notin DOMAIN log'[j]
               PROVE  log'[k][a] = orig[a]
    BY <1>2 DEF Oldest
  <2>1. CASE k \in 1..Len(log)
    <3>1. \A j \in 1..(k - 1) : log'[j] = log[j] BY <1>1, <2>1
    <3> QED BY <1>1, <2>1, <3>1 DEF Oldest
  <2>2. CASE k = Len(log) + 1
    <3>1. log'[k][a] = view[a] BY <1>1, <2>2 DEF Overwritten
    <3>2. ~Covered(a) BY <1>1, <2>2 DEF Covered
    <3> QED BY <1>6, <3>1, <3>2 DEF Uncovered
  <2> QED BY <1>1, <2>1, <2>2
<1>5. Uncovered'
  <2> SUFFICES ASSUME NEW a \in Cells, ~Covered(a)' PROVE view'[a] = orig[a]
    BY <1>2 DEF Uncovered
  <2>1. a \notin DOMAIN p BY <1>1 DEF Covered, Overwritten
  <2>2. ~Covered(a) BY <1>1 DEF Covered
  <2> QED BY <1>2, <1>6, <2>1, <2>2 DEF Uncovered, Apply
<1>7. Repairable'
  <2>1. ASSUME NEW a, Covered(a) PROVE Covered(a)'
    <3>1. PICK k \in 1..Len(log) : a \in DOMAIN log[k] BY <2>1 DEF Covered
    <3> QED BY <1>1, <3>1 DEF Covered
  <2> QED BY <1>2, <2>1 DEF Repairable
<1> QED BY <1>1, <1>2, <1>3, <1>4, <1>5, <1>6, <1>7

\* A call that failed is counted.
LEMMA Counted == ASSUME faults \in Nat, Fault PROVE faults' \in Nat /\ faults' # 0
BY DEF Fault

\* Steps that leave the contents and the log alone.
LEMMA QuietInv ==
    ASSUME LogInv, orig' = orig, view' = view, log' = log, failed => failed',
           phase' = "install" => ~failed', pc' = "undone" => log = <<>>,
           faults' \in Nat, faults' = 0 => \A a \in damaged' : Covered(a)
    PROVE  LogInv'
BY DEF LogInv, Oldest, Uncovered, Covered, Repairable

\* Steps that leave the device alone, with or without a failing call.
LEMMA StillInv ==
    ASSUME LogInv, UNCHANGED device, faults' = faults \/ Fault, pc' # "undone"
    PROVE  LogInv'
<1>1. faults' \in Nat /\ (faults' = 0 => faults = 0) BY Counted DEF LogInv, Repairable
<1> QED BY <1>1, QuietInv DEF device, LogInv, Repairable

\* Data is dropped; if no call failed, an entry covers it.
LEMMA DropInv ==
    ASSUME LogInv, NEW D, Drop(D), pc' # "undone",
           \/ faults' = faults /\ \A a \in D : Covered(a)
           \/ Fault
    PROVE  LogInv'
<1>1. /\ orig' = orig /\ view' = view /\ log' = log /\ failed' = failed /\ phase' # "install"
      /\ damaged' = damaged \cup D
  BY DEF Drop
<1>2. faults' \in Nat /\ (faults' = 0 => faults = 0 /\ \A a \in D : Covered(a))
  BY Counted DEF LogInv, Repairable
<1> QED BY <1>1, <1>2, QuietInv DEF LogInv, Repairable

\* An entry goes back: what no other entry covers has its original value.
LEMMA EntryBackInv ==
    ASSUME LogInv, NEW D, EntryBack(D), (D = {} /\ faults' = faults) \/ Fault, pc' # "undone"
    PROVE  LogInv'
<1> USE DEF LogInv
<1> DEFINE n == Len(log)
<1>1. /\ IsSeq(log') /\ n \in Nat \ {0} /\ Len(log') = n - 1
      /\ \A k \in 1..(n - 1) : log'[k] = log[k]
  BY Popped, Zenon DEF EntryBack
<1>2. /\ orig' = orig /\ view' = Apply(log[n], view) /\ failed' = failed /\ phase' # "install"
      /\ damaged' = (damaged \ DOMAIN log[n]) \cup D
  BY DEF EntryBack
<1>3. view' = [c \in Cells |-> view'[c]] BY <1>2 DEF Apply
<1>4. Oldest'
  <2>1. orig' = orig BY <1>2
  <2> QED BY <1>1, <2>1 DEF Oldest
<1>5. Uncovered'
  <2> SUFFICES ASSUME ~failed, NEW a \in Cells, ~Covered(a)' PROVE view'[a] = orig[a]
    BY <1>2 DEF Uncovered
  <2>1. \A j \in 1..(n - 1) : a \notin DOMAIN log[j] BY <1>1 DEF Covered
  <2>2. CASE a \in DOMAIN log[n]
    <3>1. log[n][a] = orig[a] BY <1>1, <2>1, <2>2 DEF Oldest
    <3> QED BY <1>2, <2>2, <3>1 DEF Apply
  <2>3. CASE a \notin DOMAIN log[n]
    <3>1. ~Covered(a) BY <1>1, <2>1, <2>3 DEF Covered
    <3> QED BY <1>2, <2>3, <3>1 DEF Uncovered, Apply
  <2> QED BY <2>2, <2>3
<1>6. Repairable'
  <2>1. faults' \in Nat /\ (faults' = 0 => faults = 0 /\ D = {}) BY Counted DEF Repairable
  <2>2. ASSUME NEW a, Covered(a), a \notin DOMAIN log[n] PROVE Covered(a)'
    <3>1. PICK k \in 1..n : a \in DOMAIN log[k] BY <2>2 DEF Covered
    <3>2. k \in 1..(n - 1) BY <1>1, <2>2, <3>1
    <3> QED BY <1>1, <3>1, <3>2 DEF Covered
  <2> QED BY <1>2, <2>1, <2>2 DEF Repairable
<1> QED BY <1>1, <1>2, <1>3, <1>4, <1>5, <1>6

\* An entry is given up, after which uninstall reports an error.
LEMMA SkippedInv ==
    ASSUME LogInv, EntrySkipped, Fault, pc' # "undone" PROVE LogInv'
<1>1. /\ IsSeq(log') /\ Len(log) \in Nat \ {0} /\ Len(log') = Len(log) - 1
      /\ \A k \in 1..(Len(log) - 1) : log'[k] = log[k]
  BY Popped, Zenon DEF EntrySkipped, LogInv
<1>2. orig' = orig /\ view' = view /\ failed' = TRUE /\ phase' # "install" BY DEF EntrySkipped
<1>3. Oldest' BY <1>1, <1>2 DEF LogInv, Oldest
<1>4. Repairable' BY Counted DEF LogInv, Repairable
<1> QED BY <1>1, <1>2, <1>3, <1>4 DEF LogInv, Uncovered

\* device_write: whole, torn, or not at all when the log is full.
LEMMA DeviceWriteInv ==
    ASSUME LogInv, NEW p, NEW next, next # "undone", NEW n, DeviceWrite(p, next, n) PROVE LogInv'
<1>1. CASE Write(p) /\ pc' = next /\ faults' = faults BY <1>1, WriteInv
<1>2. CASE (\E cut \in Cuts(p) : TornWrite(p, cut)) /\ pc' = "cleanup" /\ Fault
  BY <1>2, DropInv DEF TornWrite
<1>3. CASE UNCHANGED <<device, faults>> /\ pc' = "cleanup" BY <1>3, StillInv
<1> QED BY <1>1, <1>2, <1>3 DEF DeviceWrite

\* A step that only reads.
LEMMA GotoInv ==
    ASSUME LogInv, NEW next, next # "undone", NEW n, Goto(next, n) PROVE LogInv'
BY StillInv DEF Goto

-----------------------------------------------------------------------------
(* The actions.                                                            *)

\* The steps of the partition table's examination and conversion.
LEMMA TableInv ==
    ASSUME LogInv,
           \/ ProbeGpt \/ ReadSecondary \/ DetectIso \/ GatherEntry
           \/ NukePrimary \/ NukeSecondary \/ WriteDiskId \/ ConvertPartition
    PROVE  LogInv'
<1>1. CASE ProbeGpt BY <1>1, GotoInv DEF ProbeGpt
<1>2. CASE ReadSecondary BY <1>2, GotoInv DEF ReadSecondary
<1>3. CASE DetectIso BY <1>3, GotoInv DEF DetectIso
<1>4. CASE GatherEntry
  <2>1. Goto("gather", i + 1) \/ Goto("nuke1", 0) \/ Goto("layout", 0) \/ Goto("undefined", 0)
    BY <1>4, Zenon DEF GatherEntry
  <2> QED BY <2>1, GotoInv
<1>5. CASE NukePrimary BY <1>5, DeviceWriteInv DEF NukePrimary, Loop
<1>6. CASE NukeSecondary BY <1>6, DeviceWriteInv DEF NukeSecondary, Loop
<1>7. CASE WriteDiskId BY <1>7, DeviceWriteInv DEF WriteDiskId, Loop
<1>8. CASE ConvertPartition BY <1>8, DeviceWriteInv DEF ConvertPartition, Loop
<1> QED BY <1>1, <1>2, <1>3, <1>4, <1>5, <1>6, <1>7, <1>8

\* The sanity checks on an MBR, with the writes of --force-mbr.
LEMMA MbrInv ==
    ASSUME LogInv, CheckFlag \/ CheckFirstSector \/ CheckFileSystem \/ SetActive
    PROVE  LogInv'
<1>1. CASE CheckFlag BY <1>1, GotoInv, DeviceWriteInv DEF CheckFlag
<1>2. CASE CheckFirstSector BY <1>2, GotoInv DEF CheckFirstSector
<1>3. CASE CheckFileSystem BY <1>3, GotoInv, DeviceWriteInv DEF CheckFileSystem
<1>4. CASE SetActive BY <1>4, GotoInv, DeviceWriteInv DEF SetActive
<1> QED BY <1>1, <1>2, <1>3, <1>4

\* The steps that make room for stage 2 and write it.
LEMMA StageInv ==
    ASSUME LogInv,
           \/ ChooseLayout \/ UsePartition \/ PlanEmbedding \/ ZeroUnused \/ WriteHeader1 \/ WriteHeader2
           \/ SaveTable \/ WriteStages \/ FlushAll
    PROVE  LogInv'
<1>1. CASE ChooseLayout BY <1>1, GotoInv DEF ChooseLayout
<1>2. CASE UsePartition BY <1>2, GotoInv DEF UsePartition
<1>3. CASE PlanEmbedding BY <1>3, GotoInv DEF PlanEmbedding
<1>4. CASE ZeroUnused BY <1>4, DeviceWriteInv DEF ZeroUnused
<1>5. CASE WriteHeader1 BY <1>5, DeviceWriteInv DEF WriteHeader1
<1>6. CASE WriteHeader2 BY <1>6, DeviceWriteInv DEF WriteHeader2
<1>7. CASE SaveTable BY <1>7, GotoInv DEF SaveTable
<1>8. CASE WriteStages BY <1>8, DeviceWriteInv DEF WriteStages, Loop
<1>9. CASE FlushAll
  <2>1. /\ orig' = orig /\ view' = view /\ log' = log /\ failed' = failed
        /\ phase' = "installed" /\ pc' = "installed"
        /\ (damaged' = damaged /\ faults' = faults) \/ Fault
    BY <1>9 DEF FlushAll, Commit, CommitLosing
  <2>2. faults' \in Nat /\ (faults' = 0 => damaged' = damaged /\ faults = 0)
    BY <2>1, Counted DEF LogInv, Repairable
  <2> QED BY <2>1, <2>2, QuietInv DEF LogInv, Repairable
<1> QED BY <1>1, <1>2, <1>3, <1>4, <1>5, <1>6, <1>7, <1>8, <1>9

\* Failure, cleanup and the undo.
LEMMA FailureInv ==
    ASSUME LogInv, IoError \/ Cleanup \/ UninstallRun \/ PutBack \/ UndoReturn
    PROVE  LogInv'
<1>1. CASE IoError BY <1>1, StillInv DEF IoError
<1>2. CASE Cleanup
  <2>1. PICK D \in {{}, Pending} : Drop(D) BY <1>2 DEF Cleanup
  <2>2. \A a \in D : Covered(a) BY <2>1 DEF Pending
  <2> QED BY <1>2, <2>1, <2>2, DropInv DEF Cleanup
<1>3. CASE UninstallRun BY <1>3, DropInv DEF UninstallRun
<1>4. CASE PutBack
  <2>1. pc' # "undone" BY <1>4 DEF PutBack
  <2>2. CASE UndoEntry /\ UNCHANGED faults BY <2>1, <2>2, EntryBackInv DEF UndoEntry
  <2>3. CASE EntrySkipped /\ Fault BY <2>1, <2>3, SkippedInv
  <2>4. CASE EntryBack(LastWritten) /\ Fault BY <2>1, <2>4, EntryBackInv
  <2> QED BY <1>4, <2>2, <2>3, <2>4 DEF PutBack
<1>5. CASE UndoReturn
  <2>1. log = <<>> /\ phase = "undo" BY <1>5 DEF UndoReturn, EndUndo, FlushFails
  <2>2. orig' = orig /\ view' = view /\ log' = log /\ damaged' = damaged /\ phase' # "install"
    BY <1>5, <2>1 DEF UndoReturn, EndUndo, FlushFails
  <2>3. failed' = failed \/ failed' = TRUE BY <1>5 DEF UndoReturn, EndUndo, FlushFails
  <2>4. faults' = faults \/ Fault BY <1>5 DEF UndoReturn
  <2>5. faults' \in Nat /\ (faults' = 0 => faults = 0) BY <2>4, Counted DEF LogInv, Repairable
  <2>6. faults' = 0 => \A a \in damaged' : Covered(a)
    <3>1. faults = 0 => \A a \in damaged : Covered(a) BY DEF LogInv, Repairable
    <3> QED BY <2>2, <2>5, <3>1
  <2>7. failed => failed' BY <2>3
  <2>8. phase' = "install" => ~failed' BY <2>2
  <2> QED BY <2>1, <2>2, <2>5, <2>6, <2>7, <2>8, QuietInv
<1> QED BY <1>1, <1>2, <1>3, <1>4, <1>5

\* The log of a running, failed or finished install covers whatever differs from
\* the device as it was, and holds the original of it, until an entry is given up.
THEOREM LogSuffices == Spec => []LogInv
<1>1. Init => LogInv
  <2> SUFFICES ASSUME Init PROVE LogInv OBVIOUS
  <2>1. /\ log = <<>> /\ view = orig /\ orig \in Disks /\ pc # "undone"
        /\ ~failed /\ faults = 0 /\ damaged = {}
    BY DEF Init, Disks
  <2>2. IsSeq(log)
    <3>1. <<>> \in Seq({}) BY EmptySeq, Zenon
    <3> QED BY <2>1, <3>1, Zenon DEF IsSeq
  <2>3. orig = [c \in Cells |-> orig[c]] BY <2>1, DisksAssumption
  <2> QED BY <2>1, <2>2, <2>3 DEF LogInv, Oldest, Uncovered, Repairable
<1>2. LogInv /\ [Next]_vars => LogInv'
  <2> SUFFICES ASSUME LogInv, [Next]_vars PROVE LogInv' OBVIOUS
  <2>1. CASE Next BY <2>1, TableInv, MbrInv, StageInv, FailureInv DEF Next
  <2>2. CASE UNCHANGED vars BY <2>2, QuietInv DEF vars, device, LogInv, Repairable
  <2> QED BY <2>1, <2>2
<1> QED BY <1>1, <1>2, PTL DEF Spec

\* A failed install and an uninstalled one leave the device as it was when the
\* undo reports no error, but for what a torn write or a lost block left; and
\* where no call failed, nothing did (cleanup, reverse_uninstall_data,
\* uninstall).
THEOREM InstallIsUndone == Spec => []InstallUndone
<1>1. LogInv => InstallUndone
  <2> SUFFICES ASSUME LogInv, pc = "undone", ~failed
               PROVE  (\A c \in Cells \ damaged : view[c] = orig[c]) /\ (faults = 0 => damaged = {})
    BY DEF InstallUndone
  <2>1. log = <<>> BY DEF LogInv
  <2>2. \A a : ~Covered(a) BY <2>1, EmptySeq DEF Covered
  <2> QED BY <2>2 DEF LogInv, Uncovered, Repairable
<1> QED BY <1>1, LogSuffices, PTL

-----------------------------------------------------------------------------
(* The inductive invariant.                                                *)

Flag(k) == <<"flag", k>>
TableNames == {"time", "id", "type", "start", "count", "chs_start", "chs_end"}
TableCells == {c \in Cells : c[1] \in TableNames}
Guarded == {c \in Cells : c[1] \in TableNames \cup {"flag"}}

MbrPcs == {"flag", "first", "fs", "active"}
GptPcs == {"secondary", "iso", "gather", "partition", "embed", "zero1", "zero2", "header1", "header2"}
Before == MbrPcs \cup GptPcs \cup {"probe", "layout", "save"}

\* The flags in a finished table.
FinalFlag(k) ==
    IF v.gpt THEN orig[Flag(k)]
    ELSE IF k = 0 /\ NoneActive THEN <<128>> ELSE <<Masked(OrigFlag(k))>>

TableIn(f) == \A c \in TableCells : f[c] = orig[c]
FlagsIn(f) == \A k \in 0..3 : f[Flag(k)] = FinalFlag(k)

\* The checks have seen the flags below n.
Checked(n) ==
    /\ \A k \in 0..3 : k >= n => view[Flag(k)] = orig[Flag(k)]
    /\ v.mbr => \A k \in 0..3 : k < n => view[Flag(k)] = <<Masked(OrigFlag(k))>>
    /\ v.any_active <=> \E k \in 0..3 : k < n /\ OrigFlag(k) >= 128

Base ==
    /\ DOMAIN v = DOMAIN Locals /\ v = [x \in DOMAIN v |-> v[x]]
    /\ i \in Nat /\ v.max_used \in Nat \cup {-1}
    /\ v.gpt \in BOOLEAN /\ v.mbr \in BOOLEAN /\ v.any_active \in BOOLEAN /\ v.converting \in BOOLEAN
    /\ orig \in Disks

Locality ==
    /\ pc = "probe" => view = orig /\ v = Locals
    /\ pc \in MbrPcs \cup {"convert"} => ~v.gpt
    /\ pc \in GptPcs => v.gpt
    /\ v.gpt /\ pc \in {"secondary", "iso", "gather", "layout", "embed"} => v.header1[2] \in Nat
    /\ pc \in {"nuke2", "diskid", "convert"} => v.converting
    /\ pc \in {"flag", "first"} => i <= 3
    /\ pc = "fs" => i <= 5
    /\ pc = "write" => i <= 8

Intact ==
    /\ pc \in Before => TableIn(view)
    /\ v.gpt /\ pc \in Before => \A k \in 0..3 : view[Flag(k)] = orig[Flag(k)]
    /\ pc = "flag" => Checked(i)
    /\ pc = "first" => Checked(i + 1)
    /\ pc \in {"fs", "active"} => Checked(4)
    /\ pc = "layout" /\ ~v.gpt /\ v.mbr => FlagsIn(view)
    /\ pc = "save" => FlagsIn(view)
    /\ pc = "write" => TableIn(v.saved) /\ FlagsIn(v.saved)
    /\ pc = "write" /\ i = 8 => \A c \in Touched(218, 6) : view[c] = v.saved[c]
    /\ pc \in {"flush", "installed"} => TableIn(view) /\ FlagsIn(view)

TabInv == Base /\ Locality /\ (~v.converting => Intact)

-----------------------------------------------------------------------------
(* The cells of the table.                                                 *)

\* A range touches the cells it overlaps.
LEMMA TouchedIs ==
    ASSUME NEW c, NEW loc, NEW count
    PROVE  c \in Touched(loc, count) <=> c \in Cells /\ Overlap(Place(c), <<loc, count>>)
<1> DEFINE near == {y \in Placed : Overlap(y[2], <<loc, count>>)}
<1>1. Touched(loc, count) = {x[1] : x \in near} BY DEF Touched
<1>2. ASSUME c \in Touched(loc, count) PROVE c \in Cells /\ Overlap(Place(c), <<loc, count>>)
  <2>1. PICK x \in near : c = x[1] BY <1>1, <1>2
  <2>2. PICK b \in Cells : x = <<b, Place(b)>> BY DEF Placed
  <2> HIDE DEF Overlap
  <2> QED BY <2>1, <2>2
<1>3. ASSUME c \in Cells, Overlap(Place(c), <<loc, count>>) PROVE c \in Touched(loc, count)
  <2>1. <<c, Place(c)>> \in Placed BY <1>3 DEF Placed
  <2>2. <<c, Place(c)>> \in near BY <1>3, <2>1
  <2> QED BY <1>1, <2>2
<1> QED BY <1>2, <1>3

\* The fields of the boot sector are cells.
LEMMA MbrAreCells == MbrCells \subseteq Cells
BY DEF Cells, FineCells

\* A cell of the table is a field of the boot sector.
LEMMA GuardedIsMbr ==
    ASSUME NEW c \in Guarded
    PROVE  c \in ({"time"} \X {0}) \cup
                 ({"id", "flag", "chs_start", "type", "chs_end", "start", "count"} \X (0..3))
BY DEF Guarded, TableNames, Cells, FineCells, MbrCells

\* Where they are.
LEMMA GuardedPlace ==
    ASSUME NEW c \in Guarded
    PROVE  /\ c[1] = "time" => Place(c) = <<218, 6>>
           /\ c[1] = "id" => Place(c) = <<440 + c[2], 1>>
           /\ c[1] = "flag" => Place(c) = <<446 + 16 * c[2], 1>>
           /\ c[1] = "chs_start" => Place(c) = <<446 + 16 * c[2] + 1, 3>>
           /\ c[1] = "type" => Place(c) = <<446 + 16 * c[2] + 4, 1>>
           /\ c[1] = "chs_end" => Place(c) = <<446 + 16 * c[2] + 5, 3>>
           /\ c[1] = "start" => Place(c) = <<446 + 16 * c[2] + 8, 4>>
           /\ c[1] = "count" => Place(c) = <<446 + 16 * c[2] + 12, 4>>
BY GuardedIsMbr DEF Place, MbrPlace, EntryField

\* A range outside the table's part of the boot sector touches none of it.
LEMMA Outside ==
    ASSUME NEW loc \in Nat, NEW count \in Nat, loc >= 510 \/ loc + count <= 218
    PROVE  Touched(loc, count) \cap Guarded = {}
<1> SUFFICES ASSUME NEW c \in Guarded, Overlap(Place(c), <<loc, count>>) PROVE FALSE
  BY TouchedIs
<1>1. /\ Place(c)[1] \in Nat /\ Place(c)[2] \in Nat
      /\ Place(c)[1] >= 218 /\ Place(c)[1] + Place(c)[2] <= 510
  BY GuardedPlace, GuardedIsMbr
<1> QED BY <1>1 DEF Overlap

\* The saved parts of the boot sector hold the whole table.
LEMMA Inside ==
    ASSUME NEW c \in Guarded
    PROVE  c \in Touched(218, 6) \cup Touched(440, 70)
<1>0. c \in Cells BY DEF Guarded
<1>1. CASE c[1] = "time"
  <2>1. Overlap(Place(c), <<218, 6>>) BY <1>1, GuardedPlace DEF Overlap
  <2> QED BY <1>0, <2>1, TouchedIs
<1>2. CASE c[1] # "time"
  <2>1. /\ Place(c)[1] \in Nat /\ Place(c)[2] \in Nat \ {0}
        /\ Place(c)[1] >= 440 /\ Place(c)[1] + Place(c)[2] <= 510
    BY <1>2, GuardedPlace, GuardedIsMbr
  <2>2. Overlap(Place(c), <<440, 70>>) BY <2>1 DEF Overlap
  <2> QED BY <1>0, <2>2, TouchedIs
<1> QED BY <1>1, <1>2

\* A flag is a cell of its own.
LEMMA FlagCell ==
    ASSUME NEW k \in 0..3
    PROVE  /\ Flag(k) \in Guarded /\ Flag(k) \in Cells /\ Flag(k) \notin TableCells
           /\ Place(Flag(k)) = <<446 + 16 * k, 1>>
           /\ Flag(k) \in Touched(446 + 16 * k, 1)
           /\ \A c \in Guarded : c \in Touched(446 + 16 * k, 1) => c = Flag(k)
<1>1. Flag(k) \in MbrCells BY DEF Flag, MbrCells
<1>2. Flag(k) \in Cells /\ Flag(k)[1] = "flag" /\ Flag(k)[2] = k BY <1>1, MbrAreCells DEF Flag
<1>3. Flag(k) \in Guarded /\ Flag(k) \notin TableCells BY <1>2 DEF Guarded, TableCells, TableNames
<1>4. Place(Flag(k)) = <<446 + 16 * k, 1>> BY <1>2, <1>3, GuardedPlace
<1>5. Flag(k) \in Touched(446 + 16 * k, 1)
  <2>1. Overlap(Place(Flag(k)), <<446 + 16 * k, 1>>) BY <1>4 DEF Overlap
  <2> QED BY <1>2, <2>1, TouchedIs
<1>6. ASSUME NEW c \in Guarded, c \in Touched(446 + 16 * k, 1) PROVE c = Flag(k)
  <2>1. Overlap(Place(c), <<446 + 16 * k, 1>>) BY <1>6, TouchedIs
  <2>2. PICK n, m : /\ c = <<n, m>>
                    /\ \/ n = "time" /\ m = 0
                       \/ /\ n \in {"id", "flag", "chs_start", "type", "chs_end", "start", "count"}
                          /\ m \in 0..3
    BY GuardedIsMbr
  <2>3. n = "flag" /\ m = k BY <2>1, <2>2, GuardedPlace DEF Overlap
  <2> QED BY <2>2, <2>3 DEF Flag
<1> QED BY <1>2, <1>3, <1>4, <1>5, <1>6

\* Cells of the table are guarded.
LEMMA TableGuarded == TableCells \subseteq Guarded
BY DEF TableCells, Guarded

-----------------------------------------------------------------------------
(* What a step does.                                                       *)

\* A write, or one that fails or finds the log full, which ends the install.
LEMMA Wrote ==
    ASSUME NEW p, NEW next, NEW n, DeviceWrite(p, next, n)
    PROVE  /\ orig' = orig /\ opts' = opts
           /\ \/ pc' = next /\ i' = n /\ view' = Apply(p, view)
              \/ pc' = "cleanup" /\ i' = 0 /\ view' = view
BY DEF DeviceWrite, Write, TornWrite, Drop, device

\* A step without a write.
LEMMA Went ==
    ASSUME NEW next, NEW n, Goto(next, n)
    PROVE  orig' = orig /\ opts' = opts /\ view' = view /\ pc' = next /\ i' = n
BY DEF Goto, device

\* A write that misses the table.
LEMMA Missed ==
    ASSUME NEW p, NEW S, DOMAIN p = S, S \cap Guarded = {}
    PROVE  \A c \in Guarded : Apply(p, view)[c] = view[c]
BY DEF Apply, Guarded

\* What the parts of the invariant say after a step that keeps the table.
LEMMA Carried ==
    ASSUME orig' = orig, \A c \in Guarded : view'[c] = view[c]
    PROVE  /\ TableIn(view)' <=> TableIn(view)
           /\ \A k \in 0..3 : view'[Flag(k)] = view[Flag(k)] /\ OrigFlag(k)' = OrigFlag(k)
           /\ NoneActive' <=> NoneActive
           /\ v'.gpt = v.gpt => (FlagsIn(view)' <=> FlagsIn(view))
           /\ v'.mbr = v.mbr /\ v'.any_active = v.any_active =>
                \A n \in Int : Checked(n)' <=> Checked(n)
<1>1. TableIn(view)' <=> TableIn(view) BY TableGuarded DEF TableIn
<1>2. \A k \in 0..3 : view'[Flag(k)] = view[Flag(k)] /\ OrigFlag(k)' = OrigFlag(k)
  BY FlagCell DEF OrigFlag
<1>3. NoneActive' <=> NoneActive BY <1>2 DEF NoneActive
<1>4. ASSUME v'.gpt = v.gpt PROVE FlagsIn(view)' <=> FlagsIn(view)
  BY <1>2, <1>3, <1>4 DEF FlagsIn, FinalFlag
<1>5. ASSUME v'.mbr = v.mbr, v'.any_active = v.any_active, NEW n \in Int
      PROVE  Checked(n)' <=> Checked(n)
  BY <1>2, <1>5 DEF Checked
<1> QED BY <1>1, <1>2, <1>3, <1>4, <1>5

\* The end of an install, whatever it had done.
LEMMA Ended ==
    ASSUME Base', pc' \in {"cleanup", "undefined", "undo", "undone"} PROVE TabInv'
BY DEF TabInv, Locality, Intact, MbrPcs, GptPcs, Before

\* Base after a step that leaves the locals it speaks of.
LEMMA BaseKept ==
    ASSUME Base, orig' = orig, v' = v, i' \in Nat PROVE Base'
BY DEF Base

-----------------------------------------------------------------------------
(* The actions.                                                            *)

\* The probe for a GPT.
LEMMA TabProbe == ASSUME TabInv, ProbeGpt PROVE TabInv'
<1>0. Base /\ Locality /\ pc = "probe" /\ v = Locals /\ view = orig
  BY DEF TabInv, Locality, ProbeGpt
<1>1. CASE ~HasSignature(view[<<"hdr", 1>>])
  <2>1. Goto("flag", 0) /\ v' = v BY <1>1 DEF ProbeGpt
  <2>2. orig' = orig /\ view' = view /\ pc' = "flag" /\ i' = 0 BY <2>1, Went
  <2>3. Base' BY <1>0, <2>1, <2>2, BaseKept
  <2>4. v.gpt = FALSE /\ v.any_active = FALSE BY <1>0 DEF Locals
  <2>5. Locality' BY <2>1, <2>2, <2>4 DEF Locality, MbrPcs, GptPcs
  <2>6. Checked(0)' BY <1>0, <2>1, <2>2, <2>4 DEF Checked
  <2>7. TableIn(view)' BY <1>0, <2>2 DEF TableIn
  <2>8. Intact' BY <2>1, <2>2, <2>4, <2>6, <2>7 DEF Intact
  <2> QED BY <2>3, <2>5, <2>8 DEF TabInv
<1>2. CASE HasSignature(view[<<"hdr", 1>>]) /\ opts.force_mbr
  <2>1. Goto("cleanup", 0) /\ v' = v BY <1>2 DEF ProbeGpt
  <2>2. orig' = orig /\ pc' = "cleanup" /\ i' = 0 BY <2>1, Went
  <2> QED BY <1>0, <2>1, <2>2, BaseKept, Ended
<1>3. CASE HasSignature(view[<<"hdr", 1>>]) /\ ~opts.force_mbr
  <2>1. Goto("secondary", 0) /\ v' = [v EXCEPT !.gpt = TRUE, !.header1 = view[<<"hdr", 1>>]]
    BY <1>3 DEF ProbeGpt
  <2>2. orig' = orig /\ view' = view /\ pc' = "secondary" /\ i' = 0 BY <2>1, Went
  <2>3. v'.gpt = TRUE /\ v'.header1 = orig[<<"hdr", 1>>] /\ Base'
    BY <1>0, <2>1, <2>2 DEF Base, Locals
  <2>4. orig[<<"hdr", 1>>][2] \in Nat BY <1>0, <1>3, FieldAssumption DEF HasSignature, Base
  <2>5. Locality' BY <2>2, <2>3, <2>4 DEF Locality, MbrPcs, GptPcs
  <2>6. TableIn(view)' BY <1>0, <2>2 DEF TableIn
  <2>7. Intact' BY <1>0, <2>2, <2>3, <2>6 DEF Intact
  <2> QED BY <2>3, <2>5, <2>7 DEF TabInv
<1> QED BY <1>1, <1>2, <1>3

\* The second header.
LEMMA TabSecondary == ASSUME TabInv, ReadSecondary PROVE TabInv'
<1>0. Base /\ Locality /\ pc = "secondary" /\ (~v.converting => Intact)
  BY DEF TabInv, ReadSecondary
<1>1. CASE HasSignature(view[<<"hdr", 2>>])
  <2>1. Goto("iso", 0) /\ v' = [v EXCEPT !.header2 = view[<<"hdr", 2>>]] BY <1>1 DEF ReadSecondary
  <2>2. orig' = orig /\ view' = view /\ pc' = "iso" /\ i' = 0 BY <2>1, Went
  <2>3. /\ Base' /\ v'.gpt = v.gpt /\ v'.mbr = v.mbr /\ v'.any_active = v.any_active
        /\ v'.converting = v.converting /\ v'.header1 = v.header1
    BY <1>0, <2>1, <2>2 DEF Base, Locals
  <2>4. Locality' BY <1>0, <2>2, <2>3 DEF Locality, MbrPcs, GptPcs
  <2>5. (TableIn(view)' <=> TableIn(view)) /\ \A k \in 0..3 : view'[Flag(k)] = view[Flag(k)]
    BY <2>2, Carried
  <2>6. ~v.converting => Intact' BY <1>0, <2>2, <2>3, <2>5 DEF Intact, Before, GptPcs
  <2> QED BY <2>3, <2>4, <2>6 DEF TabInv
<1>2. CASE ~HasSignature(view[<<"hdr", 2>>])
  <2>1. Goto("cleanup", 0) /\ v' = v BY <1>2 DEF ReadSecondary
  <2>2. orig' = orig /\ pc' = "cleanup" /\ i' = 0 BY <2>1, Went
  <2> QED BY <1>0, <2>1, <2>2, BaseKept, Ended
<1> QED BY <1>1, <1>2

\* A step among the reads of a GPT, with the locals it does not change.
LEMMA TabReading ==
    ASSUME TabInv, pc \in {"iso", "gather"}, orig' = orig, view' = view, Base', v'.gpt = v.gpt,
           v'.converting = v.converting, v'.header1 = v.header1,
           pc' \in {"iso", "gather", "layout", "nuke1"}
    PROVE  TabInv'
<1>0. Base /\ Locality /\ (~v.converting => Intact) BY DEF TabInv
<1>1. Locality' BY <1>0 DEF Locality, MbrPcs, GptPcs
<1>2. (TableIn(view)' <=> TableIn(view)) /\ \A k \in 0..3 : view'[Flag(k)] = view[Flag(k)]
  BY Carried
<1>3. v.gpt BY <1>0 DEF Locality, GptPcs
<1>4. ~v.converting => Intact' BY <1>0, <1>2, <1>3 DEF Intact, Before, GptPcs, MbrPcs
<1> QED BY <1>1, <1>4 DEF TabInv

\* The test for an ISO.
LEMMA TabIso == ASSUME TabInv, DetectIso PROVE TabInv'
<1>1. pc = "iso" /\ v' = v /\ (Goto("gather", 0) \/ Goto("layout", 0)) BY DEF DetectIso
<1>2. orig' = orig /\ view' = view /\ i' = 0 /\ pc' \in {"gather", "layout"} BY <1>1, Went
<1>3. Base' BY <1>1, <1>2, BaseKept DEF TabInv
<1> QED BY <1>1, <1>2, <1>3, TabReading

\* One GPT entry for the conversion.
LEMMA TabGather == ASSUME TabInv, GatherEntry PROVE TabInv'
<1>0. Base /\ pc = "gather" /\ i \in Nat BY DEF TabInv, GatherEntry, Base
<1> DEFINE parts == Append(v.part_to_conv,
                        [type |-> gpt2mbr_type(Entry(i)[2]), lba_start |-> Entry(i)[3],
                         lba_end |-> Entry(i)[4], chs_start |-> lba2chs(Entry(i)[3]),
                         chs_end |-> lba2chs(Entry(i)[4])])
<1>1. /\ Goto("gather", i + 1) \/ Goto("nuke1", 0) \/ Goto("layout", 0) \/ Goto("undefined", 0)
      /\ v' = v \/ v' = [v EXCEPT !.part_to_conv = parts]
  BY Zenon DEF GatherEntry
<1> HIDE DEF parts
<1>3. /\ orig' = orig /\ view' = view /\ i' \in Nat
      /\ pc' \in {"gather", "nuke1", "layout", "undefined"}
  BY <1>0, <1>1, Went
<1>4. /\ Base' /\ v'.gpt = v.gpt /\ v'.converting = v.converting /\ v'.header1 = v.header1
  <2>1. CASE v' = v BY <1>0, <1>3, <2>1, BaseKept
  <2>2. CASE v' = [v EXCEPT !.part_to_conv = parts] BY <1>0, <1>3, <2>2 DEF Base, Locals
  <2> QED BY <1>1, <2>1, <2>2
<1> QED BY <1>0, <1>3, <1>4, TabReading, Ended

\* The steps of the conversion, after which the table is a new one.
LEMMA TabConverting ==
    ASSUME TabInv, NukePrimary \/ NukeSecondary \/ WriteDiskId \/ ConvertPartition
    PROVE  TabInv'
<1>0. Base /\ Locality BY DEF TabInv
<1>1. \A p, times, after : Loop(p, times, after) =>
          /\ orig' = orig /\ i' \in {i + 1, 0}
          /\ pc' \in {pc, after, "cleanup"} /\ (pc' # pc => i' = 0)
  <2> SUFFICES ASSUME NEW p, NEW times, NEW after, Loop(p, times, after)
               PROVE  /\ orig' = orig /\ i' \in {i + 1, 0}
                      /\ pc' \in {pc, after, "cleanup"} /\ (pc' # pc => i' = 0)
    OBVIOUS
  <2>1. CASE i + 1 < times
    <3>1. DeviceWrite(p, pc, i + 1) BY <2>1 DEF Loop
    <3> QED BY <3>1, Wrote
  <2>2. CASE ~(i + 1 < times)
    <3>1. DeviceWrite(p, after, 0) BY <2>2 DEF Loop
    <3> QED BY <3>1, Wrote
  <2> QED BY <2>1, <2>2
<1>2. i' \in Nat /\ orig' = orig
  BY <1>0, <1>1 DEF NukePrimary, NukeSecondary, WriteDiskId, ConvertPartition, Base
<1>3. CASE NukePrimary
  <2>1. pc' \in {"nuke1", "nuke2", "cleanup"} BY <1>1, <1>3 DEF NukePrimary
  <2>2. v' = [v EXCEPT !.converting = TRUE] BY <1>3 DEF NukePrimary
  <2>3. Base' /\ v'.converting = TRUE BY <1>0, <1>2, <2>2 DEF Base, Locals
  <2>4. Locality' BY <2>1, <2>3 DEF Locality, MbrPcs, GptPcs
  <2> QED BY <2>3, <2>4 DEF TabInv
<1>4. CASE NukeSecondary
  <2>1. pc = "nuke2" /\ v' = v /\ pc' \in {"nuke2", "diskid", "cleanup"}
    BY <1>1, <1>4 DEF NukeSecondary
  <2>2. Base' /\ v.converting BY <1>0, <1>2, <2>1, BaseKept DEF Locality
  <2>3. Locality' BY <2>1, <2>2 DEF Locality, MbrPcs, GptPcs
  <2> QED BY <2>1, <2>2, <2>3 DEF TabInv
<1>5. CASE WriteDiskId
  <2>1. /\ pc = "diskid" /\ v' = [v EXCEPT !.gpt = FALSE]
        /\ \/ pc' \in {"diskid", "cleanup", "convert"}
           \/ pc' = "flag" /\ i' = 0
    BY <1>1, <1>5 DEF WriteDiskId
  <2>2. Base' /\ v'.gpt = FALSE /\ v'.converting
    BY <1>0, <1>2, <2>1 DEF Base, Locals, Locality
  <2>3. Locality' BY <2>1, <2>2 DEF Locality, MbrPcs, GptPcs
  <2> QED BY <2>1, <2>2, <2>3 DEF TabInv
<1>6. CASE ConvertPartition
  <2>1. /\ pc = "convert" /\ v' = v
        /\ \/ pc' \in {"convert", "cleanup"}
           \/ pc' = "flag" /\ i' = 0
    BY <1>1, <1>6 DEF ConvertPartition
  <2>2. Base' /\ v.converting BY <1>0, <1>2, <2>1, BaseKept DEF Locality
  <2>3. Locality' BY <1>0, <2>1, <2>2 DEF Locality, MbrPcs, GptPcs
  <2> QED BY <2>1, <2>2, <2>3 DEF TabInv
<1> QED BY <1>3, <1>4, <1>5, <1>6

\* Writing one flag changes no other part of the table.
LEMMA FlagWritten ==
    ASSUME NEW k \in 0..3, NEW x, view' = Apply(SetCell(Flag(k), x), view)
    PROVE  /\ view'[Flag(k)] = x
           /\ \A c \in Guarded : c # Flag(k) => view'[c] = view[c]
<1> DEFINE p == SetCell(Flag(k), x)
           S == Touched(446 + 16 * k, 1)
<1>1. p = [c \in S |-> x] BY FlagCell DEF SetCell, Fill
<1>2. Flag(k) \in S /\ Flag(k) \in Cells /\ \A c \in Guarded : c \in S => c = Flag(k) BY FlagCell
<1> HIDE DEF S
<1>3. p[Flag(k)] = x /\ DOMAIN p = S BY <1>1, <1>2
<1> HIDE DEF p
<1>4. view' = Apply(p, view) BY DEF p
<1> QED BY <1>2, <1>3, <1>4 DEF Apply, Guarded

\* A boot flag of the device as it was.
LEMMA OrigFlags ==
    ASSUME Base, NEW k \in 0..3
    PROVE  OrigFlag(k) \in 0..255 /\ orig[Flag(k)] = <<OrigFlag(k)>>
<1>1. orig[<<"flag", k>>] \in {<<b>> : b \in 0..255} BY FieldAssumption DEF Base
<1>2. PICK b \in 0..255 : orig[<<"flag", k>>] = <<b>> BY <1>1
<1> QED BY <1>2 DEF OrigFlag, Flag

\* The check of one boot flag.
LEMMA TabFlag == ASSUME TabInv, CheckFlag PROVE TabInv'
<1>0. /\ Base /\ Locality /\ pc = "flag" /\ i \in 0..3 /\ ~v.gpt
      /\ ~v.converting => Intact
  BY DEF TabInv, CheckFlag, Locality, MbrPcs, Base
<1> DEFINE flag == view[Flag(i)][1]
           masked == IF flag >= 128 THEN 128 ELSE 0
           ok == flag \in {0, 128}
           fits == ok \/ opts.force_mbr
<1>1. v' = [v EXCEPT !.mbr = (i = 0 \/ @) /\ fits, !.any_active = @ \/ masked = 128]
  BY DEF CheckFlag, Flag
<1>2. \/ /\ ~ok /\ opts.force_mbr
         /\ DeviceWrite(SetCell(Flag(i), <<masked>>), "first", i)
      \/ ~(~ok /\ opts.force_mbr) /\ Goto("first", i)
  BY DEF CheckFlag, Flag
<1>3. /\ v'.mbr = ((i = 0 \/ v.mbr) /\ fits) /\ v'.any_active = (v.any_active \/ masked = 128)
      /\ v'.gpt = v.gpt /\ v'.converting = v.converting
      /\ DOMAIN v' = DOMAIN v /\ v' = [x \in DOMAIN v' |-> v'[x]] /\ v'.max_used = v.max_used
  BY <1>0, <1>1 DEF Base, Locals
<1>4. /\ orig' = orig /\ pc' \in {"first", "cleanup"} /\ i' \in Nat
      /\ pc' = "first" => i' = i
  BY <1>0, <1>2, Wrote, Went
<1>5. Base' BY <1>0, <1>3, <1>4 DEF Base
<1>6. CASE pc' = "cleanup" BY <1>5, <1>6, Ended
<1>7. CASE pc' = "first"
  <2>1. \/ ~ok /\ opts.force_mbr /\ view' = Apply(SetCell(Flag(i), <<masked>>), view)
        \/ ~(~ok /\ opts.force_mbr) /\ view' = view
    BY <1>2, <1>7, Wrote, Went
  <2>2. Locality' BY <1>0, <1>3, <1>4, <1>7 DEF Locality, MbrPcs, GptPcs
  <2>3. ASSUME ~v.converting PROVE Intact'
    <3>1. TableIn(view) /\ Checked(i) BY <1>0, <2>3 DEF Intact, Before, MbrPcs
    <3>2. view[Flag(i)] = orig[Flag(i)] BY <1>0, <3>1 DEF Checked
    <3>3. flag = OrigFlag(i) /\ flag \in 0..255 /\ masked = Masked(flag) /\ orig[Flag(i)] = <<flag>>
      BY <1>0, <3>2, OrigFlags DEF OrigFlag, Flag, Masked
    <3>4. \A c \in Guarded : c # Flag(i) => view'[c] = view[c] BY <1>0, <2>1, FlagWritten
    <3>5. fits => view'[Flag(i)] = <<masked>>
      <4>1. ok => masked = flag BY <3>3
      <4> QED BY <1>0, <2>1, <3>2, <3>3, <4>1, FlagWritten
    <3>6. TableIn(view)'
      <4>1. \A c \in TableCells : c \in Guarded /\ c # Flag(i) BY <1>0, FlagCell, TableGuarded
      <4> QED BY <1>4, <3>1, <3>4, <4>1 DEF TableIn
    <3>7. \A k \in 0..3 : k # i => view'[Flag(k)] = view[Flag(k)]
      <4>1. \A k \in 0..3 : Flag(k) \in Guarded BY FlagCell
      <4>2. \A k \in 0..3 : k # i => Flag(k) # Flag(i) BY DEF Flag
      <4> QED BY <3>4, <4>1, <4>2
    <3>8. \A k \in 0..3 : OrigFlag(k)' = OrigFlag(k) BY <1>4 DEF OrigFlag
    <3> HIDE DEF fits, ok, masked, flag
    <3>9. Checked(i + 1)'
      <4>1. \A k \in 0..3 : k >= i + 1 => view'[Flag(k)] = orig'[Flag(k)]
        BY <1>0, <1>4, <3>1, <3>7 DEF Checked
      <4>2. ASSUME v'.mbr, NEW k \in 0..3, k < i + 1
            PROVE  view'[Flag(k)] = <<Masked(OrigFlag(k))>>
        <5>1. (i = 0 \/ v.mbr) /\ fits BY <1>3, <4>2
        <5>2. CASE k = i BY <3>3, <3>5, <5>1, <5>2
        <5>3. CASE k < i
          <6>1. v.mbr BY <1>0, <5>1, <5>3
          <6> QED BY <3>1, <3>7, <5>3, <6>1 DEF Checked
        <5> QED BY <1>0, <4>2, <5>2, <5>3
      <4>3. v'.any_active <=> \E k \in 0..3 : k < i + 1 /\ OrigFlag(k) >= 128
        <5>1. v.any_active <=> \E k \in 0..3 : k < i /\ OrigFlag(k) >= 128 BY <3>1 DEF Checked
        <5>2. masked = 128 <=> OrigFlag(i) >= 128 BY <3>3 DEF Masked
        <5>3. (\E k \in 0..3 : k < i + 1 /\ OrigFlag(k) >= 128) <=>
              (\E k \in 0..3 : k < i /\ OrigFlag(k) >= 128) \/ OrigFlag(i) >= 128
          BY <1>0
        <5> QED BY <1>3, <5>1, <5>2, <5>3
      <4> QED BY <1>4, <1>7, <3>8, <4>1, <4>2, <4>3 DEF Checked
    <3> QED BY <1>0, <1>3, <1>4, <1>7, <3>6, <3>9 DEF Intact
  <2> QED BY <1>3, <1>5, <2>2, <2>3 DEF TabInv
<1> QED BY <1>4, <1>6, <1>7

\* A step of the sanity checks that keeps the table and, but for mbr, the locals.
LEMMA TabChecks ==
    ASSUME TabInv, pc \in MbrPcs, orig' = orig, \A c \in Guarded : view'[c] = view[c],
           Base', v'.gpt = v.gpt, v'.converting = v.converting, v'.any_active = v.any_active,
           v'.mbr => v.mbr,
           \/ pc = "first" /\ pc' = "flag" /\ i' = i + 1 /\ i < 3
           \/ pc = "first" /\ pc' = "fs" /\ i = 3 /\ i' = 0
           \/ pc = "fs" /\ pc' = "fs" /\ i' <= 5
           \/ pc = "fs" /\ pc' = "active"
    PROVE  TabInv'
<1>0. Base /\ Locality /\ (~v.converting => Intact) /\ i \in Nat BY DEF TabInv, Base
<1>1. Locality' BY <1>0 DEF Locality, MbrPcs, GptPcs
<1>2. /\ TableIn(view)' <=> TableIn(view)
      /\ \A k \in 0..3 : view'[Flag(k)] = view[Flag(k)] /\ OrigFlag(k)' = OrigFlag(k)
  BY Carried
<1>3. \A n \in Int : Checked(n) => Checked(n)' BY <1>2 DEF Checked
<1>4. ASSUME ~v.converting PROVE Intact'
  <2>1. TableIn(view)' BY <1>0, <1>2, <1>4 DEF Intact, Before
  <2>2. ~v'.gpt BY <1>0 DEF Locality
  <2>3. pc' = "flag" => Checked(i)'
    <3>1. pc' = "flag" => i + 1 \in Int /\ i' = i + 1 /\ Checked(i + 1) BY <1>0, <1>4 DEF Intact
    <3> QED BY <1>2, <3>1 DEF Checked
  <2>4. pc' \in {"fs", "active"} => Checked(4)' BY <1>0, <1>3, <1>4 DEF Intact
  <2> QED BY <2>1, <2>2, <2>3, <2>4 DEF Intact
<1> QED BY <1>1, <1>4 DEF TabInv

\* The check of a partition's first sector.
LEMMA TabFirst == ASSUME TabInv, CheckFirstSector PROVE TabInv'
<1>0. Base /\ pc = "first" /\ i \in Nat /\ i <= 3 /\ v' = v
  BY DEF TabInv, CheckFirstSector, Locality, Base
<1>1. \/ Goto("cleanup", 0)
      \/ i < 3 /\ Goto("flag", i + 1)
      \/ ~(i < 3) /\ Goto("fs", 0)
  BY DEF CheckFirstSector
<1>2. CASE Goto("cleanup", 0)
  <2>1. orig' = orig /\ pc' = "cleanup" /\ i' = 0 BY <1>2, Went
  <2> QED BY <1>0, <2>1, BaseKept, Ended
<1>3. CASE i < 3 /\ Goto("flag", i + 1)
  <2>1. orig' = orig /\ view' = view /\ pc' = "flag" /\ i' = i + 1 BY <1>3, Went
  <2>2. Base' BY <1>0, <2>1, BaseKept
  <2> QED BY <1>0, <1>3, <2>1, <2>2, TabChecks DEF MbrPcs
<1>4. CASE ~(i < 3) /\ Goto("fs", 0)
  <2>1. orig' = orig /\ view' = view /\ pc' = "fs" /\ i' = 0 BY <1>4, Went
  <2>2. Base' BY <1>0, <2>1, BaseKept
  <2> QED BY <1>0, <1>4, <2>1, <2>2, TabChecks DEF MbrPcs
<1> QED BY <1>1, <1>2, <1>3, <1>4

\* The magic of a file system is no part of the table.
LEMMA FsCell ==
    ASSUME NEW n \in 0..5
    PROVE  LET c == <<FileSystems[n + 1][1], 0>> IN \A x : DOMAIN SetCell(c, x) \cap Guarded = {}
<1> DEFINE c == <<FileSystems[n + 1][1], 0>>
<1>1. Place(c) \in {<<3, 9>>, <<54, 5>>, <<82, 5>>, <<1080, 2>>}
  <2>1. FileSystems[n + 1][1] \in {"sig", "fat16", "fat32", "ext"}
    <3>1. \A m \in 1..6 : FileSystems[m][1] \in {"sig", "fat16", "fat32", "ext"} BY DEF FileSystems
    <3> QED BY <3>1
  <2> DEFINE s == FileSystems[n + 1][1]
  <2> HIDE DEF s
  <2>2. s \in {"sig", "fat16", "fat32", "ext"} BY <2>1 DEF s
  <2>3. Place(<<s, 0>>) \in {<<3, 9>>, <<54, 5>>, <<82, 5>>, <<1080, 2>>}
    <3>1. <<s, 0>>[1] = s OBVIOUS
    <3>2. s \in DOMAIN MbrPlace /\ MbrPlace[s] \in {<<3, 9>>, <<54, 5>>, <<82, 5>>, <<1080, 2>>}
      BY <2>2 DEF MbrPlace
    <3>3. Place(<<s, 0>>) = MbrPlace[s] BY <2>2, <3>1, <3>2 DEF Place, MbrPlace, EntryField
    <3> QED BY <3>2, <3>3
  <2> QED BY <2>3 DEF s
<1>2. /\ Place(c)[1] \in Nat /\ Place(c)[2] \in Nat
      /\ Place(c)[1] >= 510 \/ Place(c)[1] + Place(c)[2] <= 218
  BY <1>1
<1>3. Touched(Place(c)[1], Place(c)[2]) \cap Guarded = {} BY <1>2, Outside
<1>4. \A x : DOMAIN SetCell(c, x) = Touched(Place(c)[1], Place(c)[2]) BY DEF SetCell, Fill
<1> QED BY <1>3, <1>4

\* The check for one file system.
LEMMA TabFs == ASSUME TabInv, CheckFileSystem PROVE TabInv'
<1>0. Base /\ pc = "fs" /\ i \in 0..5
  BY DEF TabInv, CheckFileSystem, Locality, Base
<1> DEFINE c == <<FileSystems[i + 1][1], 0>>
           found == view[c] = <<FileSystems[i + 1][2]>>
           next == IF i < 5 THEN <<"fs", i + 1>> ELSE <<"active", 0>>
<1>1. \/ DeviceWrite(SetCell(c, Zero), next[1], next[2]) /\ v' = v
      \/ Goto(next[1], next[2]) /\ v' = [v EXCEPT !.mbr = @ /\ ~found]
  BY Zenon DEF CheckFileSystem
<1>2. \/ next[1] = "fs" /\ next[2] \in 0..5
      \/ next[1] = "active" /\ next[2] = 0
  BY <1>0
<1>3. DOMAIN SetCell(c, Zero) \cap Guarded = {} BY <1>0, FsCell
<1> HIDE DEF next, found
<1>4. CASE DeviceWrite(SetCell(c, Zero), next[1], next[2]) /\ v' = v
  <2>1. /\ orig' = orig
        /\ \/ pc' = next[1] /\ i' = next[2] /\ view' = Apply(SetCell(c, Zero), view)
           \/ pc' = "cleanup" /\ i' = 0 /\ view' = view
    BY <1>4, Wrote
  <2>2. Base' BY <1>0, <1>2, <1>4, <2>1, BaseKept
  <2>3. CASE pc' = "cleanup" BY <2>2, <2>3, Ended
  <2>4. CASE pc' # "cleanup"
    <3>1. \A a \in Guarded : view'[a] = view[a] BY <1>3, <2>1, <2>4, Missed
    <3> QED BY <1>0, <1>2, <1>4, <2>1, <2>2, <2>4, <3>1, TabChecks DEF MbrPcs
  <2> QED BY <2>3, <2>4
<1>5. CASE Goto(next[1], next[2]) /\ v' = [v EXCEPT !.mbr = @ /\ ~found]
  <2>1. orig' = orig /\ view' = view /\ pc' = next[1] /\ i' = next[2] BY <1>5, Went
  <2>2. /\ Base' /\ v'.gpt = v.gpt /\ v'.converting = v.converting
        /\ v'.any_active = v.any_active /\ (v'.mbr => v.mbr)
    BY <1>0, <1>2, <1>5, <2>1 DEF Base, Locals
  <2> QED BY <1>0, <1>2, <2>1, <2>2, TabChecks DEF MbrPcs
<1> QED BY <1>1, <1>4, <1>5

\* The first partition becomes the active one when there is none.
LEMMA TabActive == ASSUME TabInv, SetActive PROVE TabInv'
<1>0. Base /\ Locality /\ pc = "active" /\ ~v.gpt /\ v' = v /\ (~v.converting => Intact)
  BY DEF TabInv, SetActive, Locality, MbrPcs
<1>1. \/ v.mbr /\ ~v.any_active /\ DeviceWrite(SetCell(Flag(0), <<128>>), "layout", 0)
      \/ ~(v.mbr /\ ~v.any_active) /\ Goto("layout", 0)
  BY DEF SetActive, Flag
<1>2. /\ orig' = orig /\ i' = 0 /\ pc' \in {"layout", "cleanup"}
      /\ pc' = "layout" =>
           \/ v.mbr /\ ~v.any_active /\ view' = Apply(SetCell(Flag(0), <<128>>), view)
           \/ ~(v.mbr /\ ~v.any_active) /\ view' = view
  BY <1>1, Wrote, Went
<1>3. Base' BY <1>0, <1>2, BaseKept
<1>4. CASE pc' = "cleanup" BY <1>3, <1>4, Ended
<1>5. CASE pc' = "layout"
  <2>1. Locality' BY <1>0, <1>2, <1>5 DEF Locality, MbrPcs, GptPcs
  <2>2. ASSUME ~v.converting PROVE Intact'
    <3>1. TableIn(view) /\ Checked(4) BY <1>0, <2>2 DEF Intact, Before, MbrPcs
    <3>2. 0 \in 0..3 OBVIOUS
    <3>3. \A c \in Guarded : c # Flag(0) => view'[c] = view[c] BY <1>2, <1>5, <3>2, FlagWritten
    <3>4. TableIn(view)'
      <4>1. \A c \in TableCells : c \in Guarded /\ c # Flag(0) BY <3>2, FlagCell, TableGuarded
      <4> QED BY <1>2, <3>1, <3>3, <4>1 DEF TableIn
    <3>5. \A k \in 0..3 : OrigFlag(k)' = OrigFlag(k) BY <1>2 DEF OrigFlag
    <3>6. v.any_active <=> ~NoneActive
      <4>1. \A k \in 0..3 : OrigFlag(k) \in Int BY <1>0, OrigFlags
      <4> QED BY <3>1, <4>1 DEF Checked, NoneActive
    <3>7. NoneActive' <=> NoneActive BY <3>5 DEF NoneActive
    <3>8. ASSUME v.mbr PROVE FlagsIn(view)'
      <4>1. \A k \in 0..3 : view[Flag(k)] = <<Masked(OrigFlag(k))>> BY <3>1, <3>8 DEF Checked
      <4>2. \A k \in 0..3 : k # 0 => view'[Flag(k)] = view[Flag(k)]
        <5>1. \A k \in 0..3 : Flag(k) \in Guarded BY FlagCell
        <5>2. \A k \in 0..3 : k # 0 => Flag(k) # Flag(0) BY DEF Flag
        <5> QED BY <3>3, <5>1, <5>2
      <4>3. view'[Flag(0)] = IF NoneActive THEN <<128>> ELSE view[Flag(0)]
        BY <1>2, <1>5, <3>2, <3>6, <3>8, FlagWritten
      <4> QED BY <1>0, <3>5, <3>7, <4>1, <4>2, <4>3 DEF FlagsIn, FinalFlag
    <3> QED BY <1>0, <1>5, <3>4, <3>8 DEF Intact
  <2> QED BY <1>0, <1>3, <2>1, <2>2 DEF TabInv
<1> QED BY <1>2, <1>4, <1>5

\* A step on the way to the boot sector of a GPT, or of an MBR from the layout.
LEMMA TabRoom ==
    ASSUME TabInv, pc \in GptPcs \cup {"layout"}, orig' = orig, \A c \in Guarded : view'[c] = view[c],
           Base', v'.gpt = v.gpt, v'.mbr = v.mbr, v'.converting = v.converting,
           \/ v.gpt /\ pc' \in {"partition", "zero1", "zero2", "header1", "header2", "save"}
           \/ v.gpt /\ pc = "layout" /\ pc' = "embed" /\ v'.header1 = v.header1
           \/ ~v.gpt /\ v.mbr /\ pc = "layout" /\ pc' = "save"
    PROVE  TabInv'
<1>0. Base /\ Locality /\ (~v.converting => Intact) BY DEF TabInv
<1>1. Locality' BY <1>0 DEF Locality, MbrPcs, GptPcs
<1>2. /\ TableIn(view)' <=> TableIn(view)
      /\ \A k \in 0..3 : view'[Flag(k)] = view[Flag(k)]
      /\ FlagsIn(view)' <=> FlagsIn(view)
  BY Carried
<1>3. ASSUME ~v.converting PROVE Intact'
  <2>1. TableIn(view)' BY <1>0, <1>2, <1>3 DEF Intact, Before
  <2>2. v.gpt => \A k \in 0..3 : view[Flag(k)] = orig[Flag(k)] BY <1>0, <1>3 DEF Intact, Before
  <2>3. v.gpt => \A k \in 0..3 : view'[Flag(k)] = orig[Flag(k)] BY <1>2, <2>2
  <2>4. v.gpt => FlagsIn(view)' BY <2>3 DEF FlagsIn, FinalFlag
  <2>5. ~v.gpt => FlagsIn(view)' BY <1>0, <1>2, <1>3 DEF Intact, GptPcs
  <2> HIDE DEF Base
  <2> QED BY <2>1, <2>3, <2>4, <2>5 DEF Intact
<1> QED BY <1>1, <1>3 DEF TabInv

\* The default places of stage 2.
LEMMA TabLayout == ASSUME TabInv, ChooseLayout PROVE TabInv'
<1>0. Base /\ pc = "layout" BY DEF TabInv, ChooseLayout
<1>1. v' = [v EXCEPT !.loc_a = 512, !.loc_b = AfterFirstHalf(512)] BY DEF ChooseLayout
<1>2. \/ v.gpt /\ (Goto("partition", 0) \/ Goto("embed", 0))
      \/ ~v.gpt /\ v.mbr /\ Goto("save", 0)
      \/ Goto("cleanup", 0)
  BY Zenon DEF ChooseLayout
<1>3. /\ orig' = orig /\ view' = view /\ i' = 0
      /\ \/ v.gpt /\ pc' \in {"partition", "embed"}
         \/ ~v.gpt /\ v.mbr /\ pc' = "save"
         \/ pc' = "cleanup"
  BY <1>2, Went
<1>4. /\ Base' /\ v'.gpt = v.gpt /\ v'.mbr = v.mbr /\ v'.converting = v.converting
      /\ v'.header1 = v.header1
  <2>1. PICK a, b : v' = [v EXCEPT !.loc_a = a, !.loc_b = b] BY <1>1, Zenon
  <2>2. orig' = orig /\ i' \in Nat BY <1>3
  <2> QED BY <1>0, <2>1, <2>2 DEF Base, Locals
<1>5. CASE pc' = "cleanup" BY <1>4, <1>5, Ended
<1>6. CASE pc' # "cleanup" BY <1>0, <1>3, <1>4, <1>6, TabRoom
<1> QED BY <1>5, <1>6

\* A partition named for stage 2.
LEMMA TabPartition == ASSUME TabInv, UsePartition PROVE TabInv'
<1>0. Base /\ pc = "partition" /\ v.gpt BY DEF TabInv, UsePartition, Locality, GptPcs
<1>1. \/ Goto("cleanup", 0) /\ v' = v
      \/ /\ Goto("save", 0)
         /\ \E num, a, b : v' = [v EXCEPT !.partition = num, !.loc_a = a, !.loc_b = b]
  BY Zenon DEF UsePartition
<1>2. CASE Goto("cleanup", 0) /\ v' = v
  <2>1. orig' = orig /\ pc' = "cleanup" /\ i' = 0 BY <1>2, Went
  <2> QED BY <1>0, <1>2, <2>1, BaseKept, Ended
<1>3. CASE /\ Goto("save", 0)
           /\ \E num, a, b : v' = [v EXCEPT !.partition = num, !.loc_a = a, !.loc_b = b]
  <2>1. orig' = orig /\ view' = view /\ pc' = "save" /\ i' = 0 BY <1>3, Went
  <2>2. PICK num, a, b : v' = [v EXCEPT !.partition = num, !.loc_a = a, !.loc_b = b] BY <1>3
  <2>3. Base' /\ v'.gpt = v.gpt /\ v'.mbr = v.mbr /\ v'.converting = v.converting
    BY <1>0, <2>1, <2>2 DEF Base, Locals
  <2> QED BY <1>0, <2>1, <2>3, TabRoom DEF GptPcs
<1> QED BY <1>1, <1>2, <1>3

\* The greatest used entry, or -1.
LEMMA MaxUsed ==
    ASSUME NEW n \in Nat, NEW S \in SUBSET (0..(n - 1))
    PROVE  /\ Max({-1} \cup S) \in {-1} \cup S /\ Max({-1} \cup S) \in Nat \cup {-1}
           /\ \A x \in S : x <= Max({-1} \cup S)
<1> DEFINE T == {-1} \cup S
           D == {n - x : x \in T}
           R == OpToRel(<, Nat)
<1>1. IsWellFoundedOn(R, Nat) BY NatLessThanWellFounded
<1>2. R = {ss \in Nat \X Nat : ss[1] < ss[2]} BY DEF OpToRel
<1>3. D \in SUBSET Nat /\ D # {}
  <2>1. \A x \in T : n - x \in Nat OBVIOUS
  <2>2. T # {} OBVIOUS
  <2> HIDE DEF T
  <2> QED BY <2>1, <2>2, Zenon
<1>0. \A x \in T : x \in Nat \cup {-1} /\ x \in Int OBVIOUS
<1> HIDE DEF R, D, T
<1>4. PICK t \in D : \A k \in D : ~(<<k, t>> \in R) BY <1>1, <1>3, WFMin
<1>5. \A k \in D : t <= k
  <2> SUFFICES ASSUME NEW k \in D PROVE t <= k OBVIOUS
  <2>1. <<k, t>> \notin R BY <1>4
  <2>2. ~(k < t) BY <1>2, <1>3, <2>1
  <2> QED BY <1>3, <2>2
<1>6. PICK m \in T : t = n - m BY DEF D
<1>7. \A x \in T : n - x \in D BY DEF D
<1>8. \A x \in T : m >= x BY <1>0, <1>5, <1>6, <1>7
<1>9. Max(T) \in T /\ \A x \in T : Max(T) >= x BY <1>8 DEF Max
<1>10. \A x \in T : x <= Max(T) BY <1>0, <1>9
<1> QED BY <1>0, <1>9, <1>10 DEF T

\* The plan of an embedding.
LEMMA TabPlan == ASSUME TabInv, PlanEmbedding PROVE TabInv'
<1>0. Base /\ pc = "embed" /\ v.gpt /\ v.header1[2] \in Nat
  BY DEF TabInv, PlanEmbedding, Locality, GptPcs
<1> DEFINE used == {k \in 0..(v.header1[2] - 1) : Used(Entry(k))}
           max_used == Max({-1} \cup used)
<1>1. max_used \in Nat \cup {-1} BY <1>0, MaxUsed
<1>2. \/ Goto("cleanup", 0) /\ v' = v
      \/ /\ Goto("zero1", max_used + 1) \/ Goto("header1", 0)
         /\ \E n, a, b : v' = [v EXCEPT !.max_used = max_used, !.new_count = n, !.loc_a = a, !.loc_b = b]
  BY Zenon DEF PlanEmbedding
<1> HIDE DEF max_used
<1>3. CASE Goto("cleanup", 0) /\ v' = v
  <2>1. orig' = orig /\ pc' = "cleanup" /\ i' = 0 BY <1>3, Went
  <2> QED BY <1>0, <1>3, <2>1, BaseKept, Ended
<1>4. CASE /\ Goto("zero1", max_used + 1) \/ Goto("header1", 0)
           /\ \E n, a, b : v' = [v EXCEPT !.max_used = max_used, !.new_count = n, !.loc_a = a, !.loc_b = b]
  <2>1. orig' = orig /\ view' = view /\ pc' \in {"zero1", "header1"} /\ i' \in Nat
    BY <1>1, <1>4, Went
  <2>2. PICK n, a, b : v' = [v EXCEPT !.max_used = max_used, !.new_count = n, !.loc_a = a, !.loc_b = b]
    BY <1>4
  <2>3. Base' /\ v'.gpt = v.gpt /\ v'.mbr = v.mbr /\ v'.converting = v.converting
    BY <1>0, <1>1, <2>1, <2>2 DEF Base, Locals
  <2> QED BY <1>0, <2>1, <2>3, TabRoom DEF GptPcs
<1> QED BY <1>2, <1>3, <1>4

\* What lies behind the boot sector's table.
LEMMA Behind ==
    ASSUME NEW loc \in Nat, loc >= 512, NEW count \in Nat, NEW x
    PROVE  DOMAIN Fill(loc, count, x) \cap Guarded = {}
<1>1. Touched(loc, count) \cap Guarded = {} BY Outside
<1> QED BY <1>1 DEF Fill

\* A block after the first one.
LEMMA BlockBehind ==
    ASSUME NEW lba \in Nat \ {0}, NEW off \in Nat
    PROVE  lba * LbSize + off \in Nat /\ lba * LbSize + off >= 512
<1>1. LbSize \in Nat /\ LbSize >= 512 BY GeometryAssumption
<1>2. lba * LbSize = (lba - 1) * LbSize + LbSize /\ (lba - 1) * LbSize \in Nat BY <1>1
<1> QED BY <1>1, <1>2

\* Zeroing the unused entries.
LEMMA TabZero == ASSUME TabInv, ZeroUnused PROVE TabInv'
<1>0. /\ Base /\ pc \in {"zero1", "zero2"} /\ v.gpt /\ v' = v
      /\ i \in Nat /\ v.max_used \in Nat \cup {-1}
  BY DEF TabInv, ZeroUnused, Locality, GptPcs, Base
<1> DEFINE lba == IF pc = "zero1" THEN EntryLba1 ELSE EntryLba2
           loc == lba * LbSize + i * EntrySize
           more == i + 1 < v.new_count
           next == IF more THEN pc ELSE IF pc = "zero1" THEN "zero2" ELSE "header1"
           n == IF more THEN i + 1 ELSE IF pc = "zero1" THEN v.max_used + 1 ELSE 0
           p == Fill(loc, EntrySize, Zero)
<1>1. DeviceWrite(p, next, n) BY DEF ZeroUnused
<1>2. next \in {"zero1", "zero2", "header1"} /\ n \in Nat BY <1>0
<1>3. DOMAIN p \cap Guarded = {}
  <2>1. lba \in Nat \ {0} /\ i * EntrySize \in Nat /\ EntrySize \in Nat BY <1>0, GeometryAssumption
  <2>2. loc \in Nat /\ loc >= 512 BY <2>1, BlockBehind
  <2> HIDE DEF loc
  <2> QED BY <2>1, <2>2, Behind
<1> HIDE DEF next, n, p
<1>4. /\ orig' = orig
      /\ \/ pc' = next /\ i' = n /\ view' = Apply(p, view)
         \/ pc' = "cleanup" /\ i' = 0 /\ view' = view
  BY <1>1, Wrote
<1>5. Base' BY <1>0, <1>2, <1>4, BaseKept
<1>6. CASE pc' = "cleanup" BY <1>5, <1>6, Ended
<1>7. CASE pc' # "cleanup"
  <2>1. \A a \in Guarded : view'[a] = view[a] BY <1>3, <1>4, <1>7, Missed
  <2> QED BY <1>0, <1>2, <1>4, <1>5, <1>7, <2>1, TabRoom DEF GptPcs
<1> QED BY <1>6, <1>7

\* The headers.
LEMMA TabHeaders == ASSUME TabInv, WriteHeader1 \/ WriteHeader2 PROVE TabInv'
<1>0. Base /\ pc \in {"header1", "header2"} /\ v.gpt
  BY DEF TabInv, WriteHeader1, WriteHeader2, Locality, GptPcs
<1>2. \E x, next, k :
         /\ k \in {1, 2} /\ next \in {"header2", "save"}
         /\ DeviceWrite(SetCell(<<"hdr", k>>, x), next, 0)
         /\ v' = [v EXCEPT !.header1 = x] \/ v' = [v EXCEPT !.header2 = x]
  BY DEF WriteHeader1, WriteHeader2
<1>3. PICK x, next, k :
         /\ k \in {1, 2} /\ next \in {"header2", "save"}
         /\ DeviceWrite(SetCell(<<"hdr", k>>, x), next, 0)
         /\ v' = [v EXCEPT !.header1 = x] \/ v' = [v EXCEPT !.header2 = x]
  BY <1>2
<1>4. DOMAIN SetCell(<<"hdr", k>>, x) \cap Guarded = {}
  <2>1. \E lba \in Nat \ {0} : Place(<<"hdr", k>>) = <<lba * LbSize + 0, 96>>
    <3>1. Place(<<"hdr", k>>) = <<IF k = 1 THEN LbSize ELSE LastLba * LbSize, 96>>
      BY DEF Place, MbrPlace, EntryField
    <3>2. LbSize \in Nat /\ LastLba \in Nat \ {0} BY GeometryAssumption
    <3>3. LbSize = 1 * LbSize + 0 /\ LastLba * LbSize = LastLba * LbSize + 0
      <4>1. LastLba * LbSize \in Int /\ 1 * LbSize = LbSize BY <3>2
      <4> QED BY <3>2, <4>1
    <3>4. CASE k = 1
      <4>1. Place(<<"hdr", k>>) = <<1 * LbSize + 0, 96>> BY <3>1, <3>3, <3>4
      <4> QED BY <4>1
    <3>5. CASE k # 1
      <4>1. Place(<<"hdr", k>>) = <<LastLba * LbSize + 0, 96>> BY <3>1, <3>3, <3>5
      <4> QED BY <3>2, <4>1
    <3> QED BY <3>4, <3>5
  <2>2. PICK lba \in Nat \ {0} : Place(<<"hdr", k>>) = <<lba * LbSize + 0, 96>> BY <2>1
  <2> DEFINE loc == lba * LbSize + 0
  <2>3. loc \in Nat /\ loc >= 512 BY BlockBehind
  <2> HIDE DEF loc
  <2>4. SetCell(<<"hdr", k>>, x) = Fill(loc, 96, x) BY <2>2 DEF SetCell, loc
  <2> QED BY <2>3, <2>4, Behind
<1>5. /\ orig' = orig /\ i' = 0
      /\ \/ pc' = next /\ view' = Apply(SetCell(<<"hdr", k>>, x), view)
         \/ pc' = "cleanup" /\ view' = view
  BY <1>3, Wrote
<1>6. Base' /\ v'.gpt = v.gpt /\ v'.mbr = v.mbr /\ v'.converting = v.converting
  <2>1. orig' = orig /\ i' \in Nat BY <1>5
  <2>2. CASE v' = [v EXCEPT !.header1 = x] BY <1>0, <2>1, <2>2 DEF Base, Locals
  <2>3. CASE v' = [v EXCEPT !.header2 = x] BY <1>0, <2>1, <2>3 DEF Base, Locals
  <2> QED BY <1>3, <2>2, <2>3
<1>7. CASE pc' = "cleanup" BY <1>6, <1>7, Ended
<1>8. CASE pc' # "cleanup"
  <2>1. \A a \in Guarded : view'[a] = view[a] BY <1>4, <1>5, <1>8, Missed
  <2> QED BY <1>0, <1>3, <1>5, <1>6, <1>8, <2>1, TabRoom DEF GptPcs
<1> QED BY <1>7, <1>8

\* The table is saved.
LEMMA TabSave == ASSUME TabInv, SaveTable PROVE TabInv'
<1>0. Base /\ Locality /\ pc = "save" /\ (~v.converting => Intact) BY DEF TabInv, SaveTable
<1> DEFINE S == Touched(218, 6) \cup Touched(440, 70)
           keep == [c \in S |-> view[c]]
<1>1. Goto("write", 0) /\ v' = [v EXCEPT !.saved = keep] BY DEF SaveTable
<1>2. \A c \in Guarded : keep[c] = view[c] BY Inside
<1> HIDE DEF keep
<1>3. orig' = orig /\ view' = view /\ pc' = "write" /\ i' = 0 BY <1>1, Went
<1>4. Base' /\ v'.gpt = v.gpt /\ v'.converting = v.converting /\ v'.saved = keep
  BY <1>0, <1>1, <1>3 DEF Base, Locals
<1>5. Locality' BY <1>3 DEF Locality, MbrPcs, GptPcs
<1>6. ASSUME ~v.converting PROVE Intact'
  <2>1. TableIn(view) /\ FlagsIn(view) BY <1>0, <1>6 DEF Intact, Before
  <2>2. TableIn(v.saved)' BY <1>2, <1>3, <1>4, <2>1, TableGuarded DEF TableIn
  <2>3. FlagsIn(v.saved)'
    <3>1. \A k \in 0..3 : OrigFlag(k)' = OrigFlag(k) BY <1>3 DEF OrigFlag
    <3>2. NoneActive' <=> NoneActive BY <3>1 DEF NoneActive
    <3>3. \A k \in 0..3 : FinalFlag(k)' = FinalFlag(k) BY <1>3, <1>4, <3>1, <3>2 DEF FinalFlag
    <3>4. \A k \in 0..3 : keep[Flag(k)] = view[Flag(k)] BY <1>2, FlagCell
    <3> QED BY <1>4, <2>1, <3>3, <3>4 DEF FlagsIn
  <2> QED BY <1>3, <2>2, <2>3 DEF Intact, Before, MbrPcs, GptPcs
<1> QED BY <1>4, <1>5, <1>6 DEF TabInv

\* The writes by their number.
LEMMA NineWrites ==
    /\ Len(Writes) = 9 /\ Writes[8] = Saved(218, 6) /\ Writes[9] = Saved(440, 70)
BY DEF Writes, ImageWrites, WriteBacks

\* The boot sector, stage 2, and the table put back over them.
LEMMA TabWrite == ASSUME TabInv, WriteStages PROVE TabInv'
<1>0. Base /\ Locality /\ pc = "write" /\ v' = v /\ i \in Nat /\ (~v.converting => Intact)
  BY DEF TabInv, WriteStages, Base
<1> DEFINE p == Writes[i + 1]
<1>1. \/ i + 1 < 9 /\ DeviceWrite(p, "write", i + 1)
      \/ ~(i + 1 < 9) /\ DeviceWrite(p, "flush", 0)
  BY <1>0, NineWrites DEF WriteStages, Loop
<1> HIDE DEF p
<1>2. /\ orig' = orig
      /\ \/ i + 1 < 9 /\ pc' = "write" /\ i' = i + 1 /\ view' = Apply(p, view)
         \/ ~(i + 1 < 9) /\ pc' = "flush" /\ i' = 0 /\ view' = Apply(p, view)
         \/ pc' = "cleanup" /\ i' = 0
  BY <1>1, Wrote
<1>3. Base' BY <1>0, <1>2, BaseKept
<1>4. CASE pc' = "cleanup" BY <1>3, <1>4, Ended
<1>5. CASE pc' # "cleanup"
  <2>0. pc' \in {"write", "flush"} /\ (pc' = "write" => i' <= 8) BY <1>0, <1>2, <1>5
  <2>1. Locality' BY <2>0 DEF Locality, MbrPcs, GptPcs
  <2>2. ASSUME ~v.converting PROVE Intact'
    <3>1. TableIn(v.saved) /\ FlagsIn(v.saved) BY <1>0, <2>2 DEF Intact
    <3>2. \A k \in 0..3 : OrigFlag(k)' = OrigFlag(k) BY <1>2 DEF OrigFlag
    <3>3. NoneActive' <=> NoneActive BY <3>2 DEF NoneActive
    <3>4. \A k \in 0..3 : FinalFlag(k)' = FinalFlag(k) BY <1>0, <1>2, <3>2, <3>3 DEF FinalFlag
    <3>5. TableIn(v.saved)' /\ FlagsIn(v.saved)' BY <1>0, <1>2, <3>1, <3>4 DEF TableIn, FlagsIn
    <3>6. CASE pc' = "write"
      <4>1. ASSUME i' = 8 PROVE \A c \in Touched(218, 6) : view'[c] = v.saved[c]
        <5>1. view' = Apply(Saved(218, 6), view) BY <1>0, <1>2, <3>6, <4>1, NineWrites DEF p
        <5>2. \A c \in Touched(218, 6) : c \in Cells BY TouchedIs
        <5> QED BY <5>1, <5>2 DEF Apply, Saved
      <4>2. (pc = "write" /\ i = 8 => \A c \in Touched(218, 6) : view[c] = v.saved[c])'
        BY <1>0, <4>1
      <4> QED BY <3>5, <3>6, <4>2 DEF Intact, Before, MbrPcs, GptPcs
    <3>7. CASE pc' = "flush"
      <4>1. i >= 8 BY <1>0, <1>2, <3>7
      <4>0. i = 8 BY <1>0, <4>1 DEF Locality
      <4>2. \A c \in Touched(218, 6) : view[c] = v.saved[c] BY <1>0, <2>2, <4>0 DEF Intact
      <4>3. view' = Apply(Saved(440, 70), view) BY <1>2, <3>7, <4>0, NineWrites DEF p
      <4>4. \A c \in Guarded : view'[c] = v.saved[c]
        <5>1. \A c \in Guarded : c \in Cells BY DEF Guarded
        <5> QED BY <4>2, <4>3, <5>1, Inside DEF Apply, Saved
      <4>5. TableIn(view)' BY <1>2, <3>1, <4>4, TableGuarded DEF TableIn
      <4>6. FlagsIn(view)' BY <3>1, <3>4, <4>4, FlagCell DEF FlagsIn
      <4> QED BY <3>7, <4>5, <4>6 DEF Intact, Before, MbrPcs, GptPcs
    <3> QED BY <1>2, <1>5, <3>6, <3>7
  <2> QED BY <1>0, <1>3, <2>1, <2>2 DEF TabInv
<1> QED BY <1>4, <1>5

\* Success.
LEMMA TabFlush == ASSUME TabInv, FlushAll PROVE TabInv'
<1>1. /\ Base /\ Locality /\ pc = "flush" /\ pc' = "installed" /\ i' = i /\ v' = v
      /\ orig' = orig /\ view' = view /\ (~v.converting => Intact) /\ i \in Nat
  BY DEF TabInv, FlushAll, Commit, CommitLosing, Base
<1>2. Base' BY <1>1, BaseKept
<1>3. Locality' BY <1>1 DEF Locality, MbrPcs, GptPcs
<1>4. (TableIn(view)' <=> TableIn(view)) /\ (FlagsIn(view)' <=> FlagsIn(view)) BY <1>1, Carried
<1>5. ~v.converting => Intact' BY <1>1, <1>4 DEF Intact, Before, MbrPcs, GptPcs
<1> QED BY <1>1, <1>2, <1>3, <1>5 DEF TabInv

\* Failure, cleanup and the undo promise nothing about the table.
LEMMA TabFailure ==
    ASSUME TabInv, IoError \/ Cleanup \/ UninstallRun \/ PutBack \/ UndoReturn PROVE TabInv'
<1>1. /\ pc' \in {"cleanup", "undo", "undone"} /\ i' = i /\ v' = v /\ orig' = orig
  BY DEF IoError, Cleanup, UninstallRun, PutBack, UndoReturn, Drop, UndoEntry, EntryBack,
         EntrySkipped, EndUndo, FlushFails, device
<1>2. Base' BY <1>1, BaseKept DEF TabInv, Base
<1> QED BY <1>1, <1>2, Ended

\* Nothing changes.
LEMMA TabStutter == ASSUME TabInv, UNCHANGED vars PROVE TabInv'
<1>1. UNCHANGED <<orig, view, pc, i, v>> BY DEF vars, device
<1>2. Base' BY <1>1, BaseKept DEF TabInv, Base
<1>3. Locality' BY <1>1 DEF TabInv, Locality
<1>4. /\ \A k \in 0..3 : FinalFlag(k)' = FinalFlag(k) /\ OrigFlag(k)' = OrigFlag(k)
  BY <1>1 DEF FinalFlag, OrigFlag, NoneActive
<1>5. Intact => Intact' BY <1>1, <1>4 DEF Intact, TableIn, FlagsIn, Checked
<1> QED BY <1>1, <1>2, <1>3, <1>5 DEF TabInv

-----------------------------------------------------------------------------
\* The table of the boot sector along the whole install.
THEOREM TableInvariant == Spec => []TabInv
<1>1. Init => TabInv
  <2> SUFFICES ASSUME Init PROVE TabInv OBVIOUS
  <2>1. orig \in Disks /\ view = orig /\ pc = "probe" /\ i = 0 /\ v = Locals BY DEF Init, Disks
  <2>2. Base BY <2>1 DEF Base, Locals
  <2>3. Locality BY <2>1 DEF Locality, MbrPcs, GptPcs
  <2>4. TableIn(view) /\ v.gpt = FALSE BY <2>1 DEF TableIn, Locals
  <2>5. Intact BY <2>1, <2>4 DEF Intact
  <2> QED BY <2>2, <2>3, <2>5 DEF TabInv
<1>2. TabInv /\ [Next]_vars => TabInv'
  BY TabProbe, TabSecondary, TabIso, TabGather, TabConverting, TabFlag, TabFirst, TabFs, TabActive,
     TabLayout, TabPartition, TabPlan, TabZero, TabHeaders, TabSave, TabWrite, TabFlush, TabFailure,
     TabStutter DEF Next
<1> QED BY <1>1, <1>2, PTL DEF Spec

\* Installing keeps the time stamp, the disk ID and the partition table, and
\* puts at most the boot flags of an MBR in order, for every disk, command line
\* and geometry (timestamp, orig_mbr and the writes of the sanity checks).
THEOREM InstallKeepsTable == Spec => []TableKept
<1>1. ASSUME TabInv PROVE TableKept
  <2> SUFFICES ASSUME Installed, ~v.converting
               PROVE  /\ \A c \in Cells : c[1] \in TableNames => view[c] = orig[c]
                      /\ \A k \in 0..3 : view[Flag(k)] = FinalFlag(k)
    BY DEF TableKept, TableNames, Flag, FinalFlag
  <2>1. TableIn(view) /\ FlagsIn(view) BY <1>1 DEF TabInv, Intact, Installed
  <2> QED BY <2>1 DEF TableIn, FlagsIn, TableCells
<1> QED BY <1>1, TableInvariant, PTL

-----------------------------------------------------------------------------
(* Stage 2.                                                                *)

\* The halves of stage 2 hold all of it.
LEMMA Halves ==
    /\ size_a \in Nat /\ size_b \in Nat /\ stage2_size \in Nat
    /\ size_a <= stage2_size /\ size_b <= size_a /\ size_a + size_b >= stage2_size
<1> DEFINE S == BootloaderFileSize - 512
           t == stage2_sects(S)
<1>1. S \in Nat /\ 512 <= S /\ S <= 130048 BY StageAssumption
<1> HIDE DEF S
<1>2. t \in Nat /\ 1 <= t /\ t <= 254 /\ 512 * t >= S /\ S > 512 * (t - 1)
  BY <1>1 DEF stage2_sects, DIV_ROUNDUP
<1>3. stage2_size_a(S) = ((t \div 2) * 512 + (IF t % 2 = 1 THEN 512 ELSE 0)) % 65536
  BY DEF stage2_size_a
<1>4. stage2_size_b(S) = ((t \div 2) * 512) % 65536 BY DEF stage2_size_b
<1> HIDE DEF t
<1> DEFINE h == t \div 2
           o == t % 2
<1>5. h \in Nat /\ h <= 127 /\ (o = 0 \/ o = 1) /\ t = 2 * h + o BY <1>2
<1> HIDE DEF h, o
<1> DEFINE a == h * 512 + (IF o = 1 THEN 512 ELSE 0)
<1>6. a \in Nat /\ a < 65536 /\ h * 512 \in Nat /\ h * 512 < 65536 BY <1>2, <1>5
<1>7. stage2_size_a(S) = a /\ stage2_size_b(S) = h * 512
  <2>1. \A x \in Nat : x < 65536 => x % 65536 = x OBVIOUS
  <2>2. stage2_size_a(S) = a % 65536 /\ stage2_size_b(S) = (h * 512) % 65536 BY <1>3, <1>4 DEF h, o
  <2> HIDE DEF a
  <2> QED BY <1>6, <2>1, <2>2
<1>8. a <= S /\ h * 512 <= a /\ a + h * 512 >= S BY <1>1, <1>2, <1>5
<1>9. size_a = stage2_size_a(S) /\ size_b = stage2_size_b(S) /\ stage2_size = S
  BY DEF size_a, size_b, stage2_size, S
<1> HIDE DEF a
<1> QED BY <1>1, <1>6, <1>7, <1>8, <1>9

\* A product with a larger factor is larger by at least the other factor.
LEMMA Product ==
    ASSUME NEW a \in Int, NEW b \in Int, NEW d \in Nat, a < b
    PROVE  a * d \in Int /\ b * d \in Int /\ a * d + d <= b * d
<1>1. (b - a) * d >= d OBVIOUS
<1> QED BY <1>1

\* A range of d bytes that starts at a multiple of d holds no other multiple.
LEMMA NoneBetween ==
    ASSUME NEW q \in Int, NEW r \in Int, NEW d \in Nat, r * d < q * d PROVE r * d + d <= q * d
<1>1. CASE r < q BY <1>1, Product
<1>2. CASE q <= r
  <2>1. q = r \/ q < r BY <1>2
  <2>2. q < r => q * d + d <= r * d /\ q * d \in Int /\ r * d \in Int BY Product
  <2> QED BY <2>1, <2>2
<1> QED BY <1>1, <1>2

\* The cells, and where each of them is.
LEMMA CellPlaces ==
    ASSUME NEW c \in Cells
    PROVE  \/ c \in MbrCells
           \/ c = <<"ext", 0>> /\ Place(c) = <<1080, 2>>
           \/ c = <<"iso", 0>> /\ Place(c) = <<32769, 5>>
           \/ \E lba \in Nat \ {0} : Place(c) = <<lba * LbSize, 96>>
           \/ \E lba \in Nat \ {0}, k \in Nat : Place(c) = <<lba * LbSize + k * EntrySize, EntrySize>>
           \/ \E n \in Nat \ {0} : Place(c) = <<n * 512, 512>>
           \/ \E n \in Nat \ {0} : Place(c) = <<n * LbSize, LbSize>>
<1>0. /\ LbSize \in Nat /\ NumEntries \in Nat /\ LastLba \in Nat \ {0}
      /\ EntryLba1 \in Nat \ {0} /\ EntryLba2 \in Nat \ {0}
  BY GeometryAssumption
<1>1. \/ c \in MbrCells \/ c = <<"hdr", 1>> \/ c = <<"hdr", 2>> \/ c = <<"ext", 0>> \/ c = <<"iso", 0>>
      \/ c \in {"ent1", "ent2"} \X (0..(NumEntries - 1))
      \/ c \in {"sec"} \X (1..(LbSize \div 512 - 1)) \/ c \in {"lba"} \X (1..LastLba)
  BY DEF Cells, FineCells
<1>2. CASE c = <<"hdr", 1>>
  <2>1. Place(c) = <<LbSize, 96>> BY <1>2 DEF Place, MbrPlace, EntryField
  <2>2. LbSize = 1 * LbSize BY <1>0
  <2> QED BY <2>1, <2>2
<1>3. CASE c = <<"hdr", 2>>
  <2>1. Place(c) = <<LastLba * LbSize, 96>> BY <1>3 DEF Place, MbrPlace, EntryField
  <2> QED BY <1>0, <2>1
<1>4. CASE c = <<"ext", 0>> \/ c = <<"iso", 0>> BY <1>4 DEF Place, MbrPlace, EntryField
<1>5. CASE c \in {"ent1", "ent2"} \X (0..(NumEntries - 1))
  <2>1. PICK s \in {"ent1", "ent2"}, k \in 0..(NumEntries - 1) : c = <<s, k>> BY <1>5
  <2>2. k \in Nat BY <1>0
  <2>3. Place(c) = <<(IF s = "ent1" THEN EntryLba1 ELSE EntryLba2) * LbSize + k * EntrySize, EntrySize>>
    BY <2>1 DEF Place, MbrPlace, EntryField
  <2>4. CASE s = "ent1" BY <1>0, <2>2, <2>3, <2>4
  <2>5. CASE s # "ent1" BY <1>0, <2>2, <2>3, <2>5
  <2> QED BY <2>4, <2>5
<1>6. CASE c \in {"sec"} \X (1..(LbSize \div 512 - 1))
  <2>1. PICK n \in 1..(LbSize \div 512 - 1) : c = <<"sec", n>> BY <1>6
  <2>2. Place(c) = <<n * 512, 512>> BY <2>1 DEF Place, MbrPlace, EntryField
  <2>3. n \in Nat \ {0} BY <1>0
  <2> QED BY <2>2, <2>3
<1>7. CASE c \in {"lba"} \X (1..LastLba)
  <2>1. PICK n \in 1..LastLba : c = <<"lba", n>> BY <1>7
  <2>2. Place(c) = <<n * LbSize, LbSize>> BY <2>1 DEF Place, MbrPlace, EntryField
  <2>3. n \in Nat \ {0} BY <1>0
  <2> QED BY <2>2, <2>3
<1> QED BY <1>1, <1>2, <1>3, <1>4, <1>5, <1>6, <1>7

\* The fields of the boot sector lie in it.
LEMMA MbrInSector ==
    ASSUME NEW c \in MbrCells
    PROVE  Place(c)[1] \in Nat /\ Place(c)[2] \in Nat /\ Place(c)[1] + Place(c)[2] <= 512
<1>1. PICK s, k : /\ c = <<s, k>> /\ k \in 0..3
                  /\ s \in {"sig", "code", "fat16", "fat32", "time", "size_a", "size_b", "loc_a", "loc_b",
                            "magic", "id", "flag", "chs_start", "type", "chs_end", "start", "count"}
  BY DEF MbrCells
<1>2. CASE s \in {"sig", "code", "fat16", "fat32", "time", "size_a", "size_b", "loc_a", "loc_b", "magic"}
  <2>1. c[1] = s /\ s \in DOMAIN MbrPlace BY <1>1, <1>2 DEF MbrPlace
  <2>2. Place(c) = MbrPlace[s] BY <1>2, <2>1 DEF Place, MbrPlace, EntryField
  <2> QED BY <1>2, <2>2 DEF MbrPlace
<1>3. CASE s = "id"
  <2>1. Place(c) = <<440 + k, 1>> BY <1>1, <1>3 DEF Place, MbrPlace, EntryField
  <2> QED BY <1>1, <2>1
<1>4. CASE s \in {"flag", "chs_start", "type", "chs_end", "start", "count"}
  <2>1. Place(c) = <<446 + 16 * k + EntryField[s][1], EntryField[s][2]>>
    BY <1>1, <1>4 DEF Place, MbrPlace, EntryField
  <2>2. EntryField[s] \in {<<0, 1>>, <<1, 3>>, <<4, 1>>, <<5, 3>>, <<8, 4>>, <<12, 4>>}
    BY <1>4 DEF EntryField
  <2>3. /\ EntryField[s][1] \in Nat /\ EntryField[s][2] \in Nat
        /\ EntryField[s][1] + EntryField[s][2] <= 16
    BY <2>2
  <2> QED BY <1>1, <2>1, <2>3
<1> QED BY <1>1, <1>2, <1>3, <1>4

\* A block is a whole number of sectors and of entries.
LEMMA Multiples ==
    /\ LbSize \in Nat /\ LbSize >= 512 /\ EntrySize \in Nat \ {0}
    /\ \E j \in Nat : LbSize = j * 512
    /\ \E per \in Nat \ {0} : LbSize = per * EntrySize /\ per = LbSize \div EntrySize
<1>1. LbSize \in Nat /\ LbSize >= 512 /\ EntrySize \in Nat \ {0} BY GeometryAssumption
<1>2. \E j \in Nat : LbSize = j * 512
  <2>1. LbSize = (LbSize \div 512) * 512 /\ LbSize \div 512 \in Nat BY <1>1, GeometryAssumption
  <2> QED BY <2>1
<1>3. \E per \in Nat \ {0} : LbSize = per * EntrySize /\ per = LbSize \div EntrySize
  <2> DEFINE per == LbSize \div EntrySize
  <2>1. \A x \in Nat, d \in Nat \ {0} :
           x \div d \in Nat /\ x = (x \div d) * d + (x % d)
    OBVIOUS
  <2>2. per \in Nat /\ LbSize = per * EntrySize + (LbSize % EntrySize) BY <1>1, <2>1
  <2> HIDE DEF per
  <2>3. LbSize % EntrySize = 0 BY GeometryAssumption
  <2>4. per * EntrySize \in Int BY <1>1, <2>2
  <2>5. LbSize = per * EntrySize BY <2>2, <2>3, <2>4
  <2>6. per # 0 BY <1>1, <2>5
  <2> QED BY <2>2, <2>5, <2>6 DEF per
<1> QED BY <1>1, <1>2, <1>3

\* Places are numbers, and no cell lies across the end of the boot sector.
LEMMA SectorEdge ==
    ASSUME NEW c \in Cells
    PROVE  /\ Place(c)[1] \in Nat /\ Place(c)[2] \in Nat
           /\ Place(c)[1] + Place(c)[2] <= 512 \/ Place(c)[1] >= 512
<1>0. LbSize \in Nat /\ LbSize >= 512 /\ EntrySize \in Nat BY Multiples
<1>1. \A n \in Nat \ {0}, d \in Nat, o \in Nat : d >= 512 => n * d + o \in Nat /\ n * d + o >= 512
  <2> SUFFICES ASSUME NEW n \in Nat \ {0}, NEW d \in Nat, NEW o \in Nat, d >= 512
               PROVE  n * d + o \in Nat /\ n * d + o >= 512
    OBVIOUS
  <2>1. 0 * d + d <= n * d /\ n * d \in Int BY Product
  <2> QED BY <2>1
<1>2. CASE c \in MbrCells BY <1>2, MbrInSector
<1>3. CASE c = <<"ext", 0>> /\ Place(c) = <<1080, 2>> BY <1>3
<1>4. CASE c = <<"iso", 0>> /\ Place(c) = <<32769, 5>> BY <1>4
<1>5. CASE \E lba \in Nat \ {0} : Place(c) = <<lba * LbSize, 96>>
  <2>1. PICK lba \in Nat \ {0} : Place(c) = <<lba * LbSize, 96>> BY <1>5
  <2>2. lba * LbSize + 0 \in Nat /\ lba * LbSize + 0 >= 512 /\ lba * LbSize \in Int BY <1>0, <1>1
  <2> QED BY <2>1, <2>2
<1>6. CASE \E lba \in Nat \ {0}, k \in Nat : Place(c) = <<lba * LbSize + k * EntrySize, EntrySize>>
  <2>1. PICK lba \in Nat \ {0}, k \in Nat : Place(c) = <<lba * LbSize + k * EntrySize, EntrySize>> BY <1>6
  <2>2. k * EntrySize \in Nat BY <1>0
  <2>3. lba * LbSize + k * EntrySize \in Nat /\ lba * LbSize + k * EntrySize >= 512 BY <1>0, <1>1, <2>2
  <2> QED BY <1>0, <2>1, <2>3
<1>7. CASE \E n \in Nat \ {0} : Place(c) = <<n * 512, 512>> BY <1>7
<1>8. CASE \E n \in Nat \ {0} : Place(c) = <<n * LbSize, LbSize>>
  <2>1. PICK n \in Nat \ {0} : Place(c) = <<n * LbSize, LbSize>> BY <1>8
  <2>2. n * LbSize + 0 \in Nat /\ n * LbSize + 0 >= 512 /\ n * LbSize \in Int BY <1>0, <1>1
  <2> QED BY <1>0, <2>1, <2>2
<1> QED BY <1>2, <1>3, <1>4, <1>5, <1>6, <1>7, <1>8, CellPlaces

\* No cell lies across the start of a block.
LEMMA BlockEdge ==
    ASSUME NEW c \in Cells, NEW m \in Nat, Place(c)[1] < m * LbSize
    PROVE  Place(c)[1] + Place(c)[2] <= m * LbSize
<1>0. LbSize \in Nat /\ LbSize >= 512 /\ EntrySize \in Nat \ {0} /\ m * LbSize \in Nat BY Multiples
<1>1. PICK j \in Nat : LbSize = j * 512 BY Multiples
<1>2. PICK per \in Nat \ {0} : LbSize = per * EntrySize BY Multiples
<1> DEFINE edge == m * LbSize
<1>3. \E q \in Nat : edge = q * 512
  <2>1. edge = (m * j) * 512 /\ m * j \in Nat BY <1>1
  <2> QED BY <2>1
<1>4. edge \in Nat /\ Place(c)[1] < edge BY <1>0
<1>5. CASE c \in MbrCells
  <2>1. Place(c)[1] \in Nat /\ Place(c)[2] \in Nat /\ Place(c)[1] + Place(c)[2] <= 512
    BY <1>5, MbrInSector
  <2>2. m # 0 BY <1>0, <2>1
  <2>3. 0 * LbSize + LbSize <= m * LbSize BY <1>0, <2>2, Product
  <2> QED BY <1>0, <2>1, <2>3
<1>6. CASE Place(c) \in {<<1080, 2>>, <<32769, 5>>}
  <2> HIDE DEF edge
  <2>1. Place(c)[1] + Place(c)[2] <= edge BY <1>3, <1>4, <1>6
  <2> QED BY <2>1 DEF edge
<1>7. CASE \E lba \in Nat \ {0} : Place(c) = <<lba * LbSize, 96>>
  <2>1. PICK lba \in Nat \ {0} : Place(c) = <<lba * LbSize, 96>> BY <1>7
  <2>2. lba * LbSize + LbSize <= m * LbSize BY <1>0, <2>1, NoneBetween
  <2>3. lba * LbSize \in Int BY <1>0
  <2> QED BY <1>0, <2>1, <2>2, <2>3
<1>8. CASE \E lba \in Nat \ {0}, k \in Nat : Place(c) = <<lba * LbSize + k * EntrySize, EntrySize>>
  <2>1. PICK lba \in Nat \ {0}, k \in Nat : Place(c) = <<lba * LbSize + k * EntrySize, EntrySize>> BY <1>8
  <2> DEFINE r == lba * per + k
             q == m * per
  <2>2. r \in Int /\ q \in Int OBVIOUS
  <2>3. lba * LbSize + k * EntrySize = r * EntrySize
    <3>1. lba * (per * EntrySize) + k * EntrySize = (lba * per + k) * EntrySize BY <1>0
    <3> QED BY <1>2, <3>1
  <2>4. m * LbSize = q * EntrySize
    <3>1. m * (per * EntrySize) = (m * per) * EntrySize BY <1>0
    <3> QED BY <1>2, <3>1
  <2> HIDE DEF r, q
  <2>5. r * EntrySize + EntrySize <= q * EntrySize BY <1>0, <2>1, <2>2, <2>3, <2>4, NoneBetween
  <2> QED BY <2>1, <2>3, <2>4, <2>5
<1>9. CASE \E n \in Nat \ {0} : Place(c) = <<n * 512, 512>>
  <2>1. PICK n \in Nat \ {0} : Place(c) = <<n * 512, 512>> BY <1>9
  <2> HIDE DEF edge
  <2>2. n * 512 + 512 <= edge BY <1>3, <1>4, <2>1
  <2> QED BY <2>1, <2>2 DEF edge
<1>10. CASE \E n \in Nat \ {0} : Place(c) = <<n * LbSize, LbSize>>
  <2>1. PICK n \in Nat \ {0} : Place(c) = <<n * LbSize, LbSize>> BY <1>10
  <2>2. n * LbSize + LbSize <= m * LbSize BY <1>0, <2>1, NoneBetween
  <2> QED BY <2>1, <2>2
<1> QED BY <1>5, <1>6, <1>7, <1>8, <1>9, <1>10, CellPlaces

-----------------------------------------------------------------------------
(* Where stage 2 goes and what the writes so far have put there.           *)

Untouched == {"secondary", "iso", "gather", "layout", "partition", "embed"}
Placing == {"zero1", "zero2", "header1", "header2", "save", "write", "flush", "installed"}

\* Behind the boot sector; the second half follows the first one at once, or
\* at the start of a later block.
Fits(a, b) ==
    /\ a \in Nat /\ b \in Nat /\ a >= 512 /\ b >= 512
    /\ \/ b = a + size_a
       \/ a + size_a <= b /\ \E m \in Nat : b = m * LbSize

HoldsImage(f, loc, from, count) ==
    \A c \in Touched(loc, count) : f[c] = <<-1, Place(c)[1] - loc + from>>

\* What a device f holds after n of the nine writes.
Landed(f, n) ==
    /\ n >= 1 => f[<<"code", 0>>] = <<-1, 16>> /\ f[<<"magic", 0>>] = <<-1, 510>>
    /\ n >= 2 => HoldsImage(f, v.loc_a, 512, size_a)
    /\ n >= 3 => HoldsImage(f, v.loc_b, 512 + size_a, stage2_size - size_a)
    /\ n >= 4 => f[<<"size_a", 0>>] = <<size_a>>
    /\ n >= 5 => f[<<"size_b", 0>>] = <<size_b>>
    /\ n >= 6 => f[<<"loc_a", 0>>] = <<v.loc_a>>
    /\ n >= 7 => f[<<"loc_b", 0>>] = <<v.loc_b>>

StagesInv ==
    /\ v.gpt /\ pc \in Untouched => view = orig /\ orig[<<"hdr", 1>>][1] = 1
    /\ pc \in Placing => Fits(v.loc_a, v.loc_b)
    /\ pc = "write" => Landed(view, i)
    /\ pc \in {"flush", "installed"} => Landed(view, 9)

\* Rounding down to a multiple.
LEMMA Aligned ==
    ASSUME NEW x \in Int, NEW d \in Nat \ {0}
    PROVE  /\ x \div d \in Int /\ AlignDown(x, d) = (x \div d) * d
           /\ (x \div d) * d <= x /\ x < (x \div d) * d + d
<1>1. x \div d \in Int /\ x % d \in Int /\ 0 <= x % d /\ x % d < d OBVIOUS
<1>2. x = (x \div d) * d + (x % d) OBVIOUS
<1>3. (x \div d) * d \in Int BY <1>1
<1> QED BY <1>1, <1>2, <1>3 DEF AlignDown

\* The two halves meet in no cell, or the image is in one piece there.
LEMMA HalvesApart ==
    ASSUME NEW a, NEW b, Fits(a, b), NEW count \in Nat,
           NEW c \in Touched(a, size_a), c \in Touched(b, count)
    PROVE  b = a + size_a
<1>1. c \in Cells /\ Overlap(Place(c), <<a, size_a>>) /\ Overlap(Place(c), <<b, count>>) BY TouchedIs
<1>2. Place(c)[1] \in Nat /\ Place(c)[2] \in Nat BY <1>1, SectorEdge
<1>3. Place(c)[1] < a + size_a /\ b < Place(c)[1] + Place(c)[2] BY <1>1 DEF Overlap
<1>4. ASSUME a + size_a <= b, NEW m \in Nat, b = m * LbSize PROVE FALSE
  <2>1. a \in Nat /\ b \in Nat /\ size_a \in Nat BY Halves DEF Fits
  <2>2. Place(c)[1] < m * LbSize BY <1>2, <1>3, <1>4, <2>1
  <2>3. Place(c)[1] + Place(c)[2] <= m * LbSize BY <1>1, <2>2, BlockEdge
  <2> QED BY <1>2, <1>3, <1>4, <2>1, <2>3
<1> QED BY <1>4 DEF Fits

\* A cell behind the boot sector is not touched by a write inside it.
LEMMA SectorApart ==
    ASSUME NEW a \in Nat, a >= 512, NEW n \in Nat, NEW loc \in Nat, NEW count \in Nat, loc + count <= 512
    PROVE  Touched(a, n) \cap Touched(loc, count) = {}
<1> SUFFICES ASSUME NEW c \in Touched(a, n), c \in Touched(loc, count) PROVE FALSE OBVIOUS
<1>1. c \in Cells /\ Overlap(Place(c), <<a, n>>) /\ Overlap(Place(c), <<loc, count>>) BY TouchedIs
<1>2. /\ Place(c)[1] \in Nat /\ Place(c)[2] \in Nat
      /\ Place(c)[1] + Place(c)[2] <= 512 \/ Place(c)[1] >= 512
  BY <1>1, SectorEdge
<1> QED BY <1>1, <1>2 DEF Overlap

Fields == {"code", "magic", "size_a", "size_b", "loc_a", "loc_b"}

\* The fields the boot sector is read by.
LEMMA FieldPlace ==
    /\ \A s \in Fields : <<s, 0>> \in Cells
    /\ Place(<<"code", 0>>) = <<16, 30>> /\ Place(<<"magic", 0>>) = <<510, 2>>
    /\ Place(<<"size_a", 0>>) = <<420, 2>> /\ Place(<<"size_b", 0>>) = <<422, 2>>
    /\ Place(<<"loc_a", 0>>) = <<424, 8>> /\ Place(<<"loc_b", 0>>) = <<432, 8>>
<1>1. \A s \in Fields : <<s, 0>> \in MbrCells BY DEF Fields, MbrCells
<1>2. \A s \in Fields : Place(<<s, 0>>) = MbrPlace[s]
  <2> SUFFICES ASSUME NEW s \in Fields PROVE Place(<<s, 0>>) = MbrPlace[s] OBVIOUS
  <2>1. <<s, 0>>[1] = s /\ s \in DOMAIN MbrPlace BY DEF MbrPlace, Fields
  <2> QED BY <2>1 DEF Place, Fields, MbrPlace, EntryField
<1>3. \A s \in Fields : <<s, 0>> \in Cells BY <1>1, MbrAreCells
<1> QED BY <1>2, <1>3 DEF Fields, MbrPlace

\* A write changes the cells it touches and no other.
LEMMA Patched ==
    ASSUME NEW p, NEW S, DOMAIN p = S, NEW c \in Cells
    PROVE  /\ c \in S => Apply(p, view)[c] = p[c]
           /\ c \notin S => Apply(p, view)[c] = view[c]
BY DEF Apply

-----------------------------------------------------------------------------
(* The actions, for stage 2.                                               *)

\* Elsewhere nothing is said of stage 2.
LEMMA StagesElsewhere ==
    ASSUME pc' \notin Untouched \cup Placing PROVE StagesInv'
BY DEF StagesInv, Untouched, Placing

\* Reading a GPT.
LEMMA StagesReading ==
    ASSUME StagesInv, orig' = orig, view' = view, pc' \in Untouched,
           v'.gpt => v.gpt /\ pc \in Untouched
    PROVE  StagesInv'
BY DEF StagesInv, Untouched, Placing

\* Making room once stage 2 has its places.
LEMMA StagesRoom ==
    ASSUME Fits(v'.loc_a, v'.loc_b), pc' \in {"zero1", "zero2", "header1", "header2", "save"}
    PROVE  StagesInv'
<1>1. Fits(v.loc_a, v.loc_b)' <=> Fits(v'.loc_a, v'.loc_b) BY DEF Fits
<1> QED BY <1>1 DEF StagesInv, Untouched, Placing

\* The probe for a GPT.
LEMMA StagesProbe == ASSUME TabInv, StagesInv, ProbeGpt PROVE StagesInv'
<1>0. Base /\ pc = "probe" /\ v = Locals /\ view = orig BY DEF TabInv, Locality, ProbeGpt
<1>1. CASE Goto("flag", 0) \/ Goto("cleanup", 0)
  <2>1. pc' \in {"flag", "cleanup"} BY <1>1, Went
  <2> QED BY <2>1, StagesElsewhere DEF Untouched, Placing
<1>2. CASE Goto("secondary", 0) /\ HasSignature(view[<<"hdr", 1>>])
  <2>1. orig' = orig /\ view' = view /\ pc' = "secondary" BY <1>2, Went
  <2>2. orig[<<"hdr", 1>>][1] = 1 BY <1>0, <1>2 DEF HasSignature
  <2> QED BY <1>0, <2>1, <2>2 DEF StagesInv, Untouched, Placing
<1> QED BY <1>1, <1>2 DEF ProbeGpt

\* The reads of a GPT.
LEMMA StagesRead ==
    ASSUME TabInv, StagesInv, ReadSecondary \/ DetectIso \/ GatherEntry PROVE StagesInv'
<1>0. /\ Base /\ pc \in {"secondary", "iso", "gather"} /\ v.gpt
      /\ DOMAIN v = DOMAIN Locals /\ v = [x \in DOMAIN v |-> v[x]]
  BY DEF TabInv, ReadSecondary, DetectIso, GatherEntry, Locality, GptPcs, Base
<1>1. \E next, n : Goto(next, n) /\ next \in {"iso", "cleanup", "gather", "layout", "nuke1", "undefined"}
  BY DEF ReadSecondary, DetectIso, GatherEntry
<1>2. PICK next, n :
         Goto(next, n) /\ next \in {"iso", "cleanup", "gather", "layout", "nuke1", "undefined"}
  BY <1>1
<1>3. orig' = orig /\ view' = view /\ pc' = next BY <1>2, Went
<1>4. CASE next \in Untouched BY <1>0, <1>3, <1>4, StagesReading DEF Untouched
<1>5. CASE next \notin Untouched BY <1>2, <1>3, <1>5, StagesElsewhere DEF Untouched, Placing
<1> QED BY <1>4, <1>5

\* The conversion and the checks of an MBR come before any place is chosen.
LEMMA StagesMbr ==
    ASSUME TabInv, StagesInv,
           \/ NukePrimary \/ NukeSecondary \/ WriteDiskId \/ ConvertPartition
           \/ CheckFlag \/ CheckFirstSector \/ CheckFileSystem
    PROVE  StagesInv'
<1>1. pc' \in {"nuke1", "nuke2", "diskid", "convert", "flag", "first", "fs", "active", "cleanup"}
  BY DEF NukePrimary, NukeSecondary, WriteDiskId, ConvertPartition, CheckFlag, CheckFirstSector,
         CheckFileSystem, Loop, DeviceWrite, Goto
<1> QED BY <1>1, StagesElsewhere DEF Untouched, Placing

\* The active flag.
LEMMA StagesActive == ASSUME TabInv, StagesInv, SetActive PROVE StagesInv'
<1>1. pc = "active" /\ v' = v /\ ~v.gpt BY DEF TabInv, Locality, MbrPcs, SetActive
<1>2. pc' \in {"layout", "cleanup"} BY DEF SetActive, DeviceWrite, Goto
<1> QED BY <1>1, <1>2 DEF StagesInv, Untouched, Placing

\* The places behind an MBR.
LEMMA StagesLayout == ASSUME TabInv, StagesInv, ChooseLayout PROVE StagesInv'
<1>0. /\ Base /\ pc = "layout" /\ v' = [v EXCEPT !.loc_a = 512, !.loc_b = 512 + size_a]
      /\ \/ v.gpt /\ (Goto("partition", 0) \/ Goto("embed", 0))
         \/ Goto("save", 0)
         \/ Goto("cleanup", 0)
  BY DEF TabInv, ChooseLayout, AfterFirstHalf
<1>1. v'.gpt = v.gpt /\ v'.loc_a = 512 /\ v'.loc_b = 512 + size_a BY <1>0 DEF Base, Locals
<1>2. CASE v.gpt /\ (Goto("partition", 0) \/ Goto("embed", 0))
  <2>1. orig' = orig /\ view' = view /\ pc' \in {"partition", "embed"} BY <1>2, Went
  <2> QED BY <1>0, <1>2, <2>1, StagesReading DEF Untouched
<1>3. CASE Goto("save", 0)
  <2>1. pc' = "save" BY <1>3, Went
  <2>2. Fits(v'.loc_a, v'.loc_b) BY <1>1, Halves DEF Fits
  <2> QED BY <2>1, <2>2, StagesRoom
<1>4. CASE Goto("cleanup", 0)
  <2>1. pc' = "cleanup" BY <1>4, Went
  <2> QED BY <2>1, StagesElsewhere DEF Untouched, Placing
<1> QED BY <1>0, <1>2, <1>3, <1>4

\* A used entry of the disk as it was names a block behind the first one.
LEMMA UsedEntry ==
    ASSUME view = orig, orig \in Disks, orig[<<"hdr", 1>>][1] = 1, NEW k, Used(Entry(k))
    PROVE  Entry(k)[3] \in Nat \ {0}
<1>1. CASE <<"ent1", k>> \in Cells
  <2>1. k \in 0..(NumEntries - 1) BY <1>1 DEF Cells, FineCells, MbrCells
  <2> QED BY <1>1, <2>1, FieldAssumption DEF Entry
<1>2. CASE <<"ent1", k>> \notin Cells BY <1>2, FieldAssumption DEF Entry
<1> QED BY <1>1, <1>2

\* The first block edge at or after the end of the first half.
LEMMA NextEdge ==
    ASSUME NEW x \in Nat
    PROVE  LET b == IF x % LbSize = 0 THEN x ELSE AlignDown(x + LbSize, LbSize)
           IN  b \in Nat /\ x <= b /\ \E m \in Nat : b = m * LbSize
<1>0. LbSize \in Nat \ {0} BY Multiples
<1>1. CASE x % LbSize = 0
  <2>1. x = (x \div LbSize) * LbSize + (x % LbSize) /\ x \div LbSize \in Nat BY <1>0
  <2>2. (x \div LbSize) * LbSize \in Int BY <1>0, <2>1
  <2>3. x = (x \div LbSize) * LbSize BY <1>1, <2>1, <2>2
  <2> QED BY <1>1, <2>1, <2>3
<1>2. CASE x % LbSize # 0
  <2> DEFINE m == (x + LbSize) \div LbSize
  <2>1. x + LbSize \in Nat BY <1>0
  <2>2. m \in Nat BY <1>0, <2>1
  <2>3. AlignDown(x + LbSize, LbSize) = m * LbSize /\ x + LbSize < m * LbSize + LbSize
    <3> DEFINE y == x + LbSize
    <3> HIDE DEF y
    <3>1. y \in Int BY <2>1 DEF y
    <3>2. AlignDown(y, LbSize) = (y \div LbSize) * LbSize /\ y < (y \div LbSize) * LbSize + LbSize
      BY <1>0, <3>1, Aligned
    <3> QED BY <3>2 DEF y
  <2> HIDE DEF m
  <2>4. m * LbSize \in Nat BY <1>0, <2>2
  <2> QED BY <1>0, <1>2, <2>2, <2>3, <2>4
<1> QED BY <1>1, <1>2

\* Stage 2 in a partition.
LEMMA StagesPartition == ASSUME TabInv, StagesInv, UsePartition PROVE StagesInv'
<1> DEFINE num == (opts.part_ndx - 1) % UINT32
           e == Entry(num)
           loc == e[3] * LbSize
           rest == loc + size_a
           b == IF rest % LbSize = 0 THEN rest ELSE AlignDown(rest + LbSize, LbSize)
<1>0. Base /\ v.gpt /\ pc = "partition" /\ view = orig /\ orig[<<"hdr", 1>>][1] = 1
  BY DEF TabInv, UsePartition, Locality, GptPcs, StagesInv, Untouched
<1>1. \/ Goto("cleanup", 0)
      \/ /\ Used(e) /\ Goto("save", 0)
         /\ v' = [v EXCEPT !.partition = num, !.loc_a = loc, !.loc_b = b]
  BY Zenon DEF UsePartition, AfterFirstHalf
<1>2. CASE Goto("cleanup", 0)
  <2>1. pc' = "cleanup" BY <1>2, Went
  <2> QED BY <2>1, StagesElsewhere DEF Untouched, Placing
<1>3. CASE /\ Used(e) /\ Goto("save", 0)
           /\ v' = [v EXCEPT !.partition = num, !.loc_a = loc, !.loc_b = b]
  <2>1. e[3] \in Nat \ {0} BY <1>0, <1>3, UsedEntry DEF Base
  <2> HIDE DEF e
  <2>2. loc \in Nat /\ loc >= 512
    <3>1. e[3] * LbSize + 0 \in Nat /\ e[3] * LbSize + 0 >= 512 BY <2>1, BlockBehind
    <3>2. e[3] * LbSize \in Int BY <2>1, Multiples
    <3> QED BY <3>1, <3>2
  <2> HIDE DEF loc
  <2>3. rest \in Nat BY <2>2, Halves
  <2> HIDE DEF rest
  <2>4. b \in Nat /\ rest <= b /\ \E m \in Nat : b = m * LbSize BY <2>3, NextEdge
  <2> HIDE DEF b, num
  <2>5. v'.loc_a = loc /\ v'.loc_b = b BY <1>0, <1>3 DEF Base, Locals
  <2>6. rest = loc + size_a BY DEF rest
  <2>7. b >= 512 BY <2>2, <2>3, <2>4, <2>6, Halves
  <2>8. Fits(v'.loc_a, v'.loc_b) BY <2>2, <2>4, <2>5, <2>6, <2>7 DEF Fits
  <2>9. pc' = "save" BY <1>3, Went
  <2> QED BY <2>8, <2>9, StagesRoom
<1> QED BY <1>1, <1>2, <1>3

\* n entries stay in front of stage 2 in both arrays, and each half ends inside
\* its array.
Room(a, b, n) ==
    /\ a = EntryLba1 * LbSize + n * EntrySize /\ a + size_a <= (EntryLba1 + 32) * LbSize
    /\ b >= EntryLba2 * LbSize + n * EntrySize /\ b + size_b <= (EntryLba2 + 32) * LbSize
    /\ \E m \in Nat : a = m * LbSize
    /\ \E m \in Nat : b = m * LbSize

\* The two places in the entry arrays, when a non-negative number of entries
\* is left in front of the first one.
LEMMA Embedded ==
    LET a == AlignDown((EntryLba1 + 32) * LbSize - size_a, LbSize)
        b == AlignDown((EntryLba2 + 32) * LbSize - size_b, LbSize)
        count == (a \div LbSize - EntryLba1) * (LbSize \div EntrySize)
    IN  count \in Int /\ (count >= 0 => Fits(a, b) /\ Room(a, b, count))
<1> DEFINE L == LbSize
           A == (EntryLba1 + 32) * L
           B == (EntryLba2 + 32) * L
           m == (A - size_a) \div L
           n == (B - size_b) \div L
           a == AlignDown(A - size_a, L)
           b == AlignDown(B - size_b, L)
           per == LbSize \div EntrySize
           count == (a \div L - EntryLba1) * per
<1>0. /\ L \in Nat \ {0} /\ L >= 512 /\ per \in Nat \ {0}
      /\ EntryLba1 \in Nat \ {0} /\ EntryLba2 \in Nat /\ EntryLba1 + 32 <= EntryLba2
      /\ size_a \in Nat /\ size_b \in Nat /\ size_b <= size_a
  BY Multiples, GeometryAssumption, Halves
<1>1. A \in Int /\ B \in Int BY <1>0
<1>2. m \in Int /\ a = m * L /\ m * L <= A - size_a /\ m * L \in Int
  <2> DEFINE x == A - size_a
  <2>1. x \in Int BY <1>0, <1>1
  <2> HIDE DEF x, L
  <2>2. x \div L \in Int /\ AlignDown(x, L) = (x \div L) * L /\ (x \div L) * L <= x BY <1>0, <2>1, Aligned
  <2>3. (x \div L) * L \in Int BY <1>0, <2>2
  <2> QED BY <2>2, <2>3 DEF x
<1>3. n \in Int /\ b = n * L /\ n * L <= B - size_b /\ B - size_b < n * L + L /\ n * L \in Int
  <2> DEFINE x == B - size_b
  <2>1. x \in Int BY <1>0, <1>1
  <2> HIDE DEF x, L
  <2>2. /\ x \div L \in Int /\ AlignDown(x, L) = (x \div L) * L
        /\ (x \div L) * L <= x /\ x < (x \div L) * L + L
    BY <1>0, <2>1, Aligned
  <2>3. (x \div L) * L \in Int BY <1>0, <2>2
  <2> QED BY <2>2, <2>3 DEF x
<1> HIDE DEF m, n, a, b, per
<1>4. a \div L = m
  <2>1. (m * L) \div L \in Int /\ m * L = ((m * L) \div L) * L BY <1>0, <1>2
  <2> DEFINE q == (m * L) \div L
  <2>2. q \in Int /\ m * L = q * L BY <2>1
  <2> HIDE DEF q, L
  <2>3. ~(q < m) BY <1>0, <1>2, <2>2, Product
  <2>4. ~(m < q) BY <1>0, <1>2, <2>2, Product
  <2> QED BY <1>2, <2>2, <2>3, <2>4 DEF q
<1>5. count = (m - EntryLba1) * per /\ count \in Int BY <1>0, <1>2, <1>4
<1>6. ASSUME count >= 0 PROVE Fits(a, b) /\ Room(a, b, count)
  <2>1. m >= EntryLba1
    <3>1. m < EntryLba1 => (m - EntryLba1) * per + per <= 0 * per BY <1>0, <1>2, Product
    <3>2. (m - EntryLba1) * per \in Int /\ 0 * per = 0 BY <1>0, <1>2
    <3> QED BY <1>0, <1>2, <1>5, <1>6, <3>1, <3>2
  <2>2. EntryLba1 * L <= m * L /\ EntryLba1 * L \in Int
    <3>1. EntryLba1 < m => EntryLba1 * L + L <= m * L BY <1>0, <1>2, Product
    <3>2. EntryLba1 * L \in Int BY <1>0
    <3> QED BY <1>0, <1>2, <2>1, <3>1, <3>2
  <2>3. A = EntryLba1 * L + 32 * L BY <1>0
  <2>4. size_a <= 32 * L BY <1>0, <1>1, <1>2, <2>2, <2>3
  <2>5. B = EntryLba2 * L + 32 * L /\ EntryLba2 * L \in Int BY <1>0
  <2>6. EntryLba2 * L < n * L + L BY <1>0, <1>1, <1>3, <2>4, <2>5
  <2>7. EntryLba2 <= n
    <3>1. n < EntryLba2 => n * L + L <= EntryLba2 * L BY <1>0, <1>3, Product
    <3> QED BY <1>0, <1>3, <2>5, <2>6, <3>1
  <2>8. EntryLba2 * L <= n * L
    <3>1. EntryLba2 < n => EntryLba2 * L + L <= n * L BY <1>0, <1>3, Product
    <3> QED BY <1>0, <1>3, <2>5, <2>7, <3>1
  <2>9. A <= EntryLba2 * L
    <3>1. EntryLba1 + 32 < EntryLba2 => A + L <= EntryLba2 * L BY <1>0, Product
    <3> QED BY <1>0, <1>1, <2>5, <3>1
  <2>10. a + size_a <= b BY <1>0, <1>1, <1>2, <1>3, <2>5, <2>8, <2>9
  <2>11. EntryLba1 * L + 0 >= 512 BY <1>0, BlockBehind
  <2>12. a \in Nat /\ a >= 512 BY <1>0, <1>2, <2>2, <2>11
  <2>13. n \in Nat /\ b = n * LbSize BY <1>0, <1>3, <2>7
  <2>14. b \in Nat /\ b >= 512 BY <1>0, <1>2, <1>3, <2>10, <2>12
  <2>15. Fits(a, b) BY <2>10, <2>12, <2>13, <2>14 DEF Fits
  <2> DEFINE q == m - EntryLba1
  <2>16. q \in Nat /\ m = EntryLba1 + q BY <1>0, <1>2, <2>1
  <2> HIDE DEF q
  <2>17. m * L = EntryLba1 * L + q * L /\ q * L \in Int BY <1>0, <2>16
  <2>18. q * L = count * EntrySize
    <3>1. L = per * EntrySize /\ EntrySize \in Nat BY Multiples DEF per
    <3>2. count = q * per BY <1>5 DEF q
    <3>3. q * (per * EntrySize) = (q * per) * EntrySize BY <1>0, <2>16, <3>1
    <3> QED BY <3>1, <3>2, <3>3
  <2>19. EntryLba2 * L + q * L < n * L + L
    <3> HIDE DEF L
    <3> QED BY <1>0, <1>1, <1>2, <1>3, <2>2, <2>3, <2>5, <2>17
  <2>20. EntryLba2 * L + q * L <= n * L
    <3> DEFINE r == EntryLba2 + q
    <3>1. r \in Int /\ r * L = EntryLba2 * L + q * L BY <1>0, <2>16
    <3> HIDE DEF r
    <3>2. n < r => n * L + L <= r * L BY <1>0, <1>3, <3>1, Product
    <3>3. r < n => r * L + L <= n * L BY <1>0, <1>3, <3>1, Product
    <3>4. r * L \in Int BY <1>0, <3>1
    <3> QED BY <1>0, <1>3, <2>19, <3>1, <3>2, <3>3, <3>4
  <2>21. m \in Nat BY <1>0, <2>16
  <2>22. a + size_a <= A /\ b + size_b <= B BY <1>0, <1>1, <1>2, <1>3
  <2>23. /\ a = EntryLba1 * LbSize + count * EntrySize
         /\ b >= EntryLba2 * LbSize + count * EntrySize
    BY <1>2, <1>3, <2>17, <2>18, <2>20
  <2>24. a = m * LbSize BY <1>2
  <2>25. Room(a, b, count) BY <2>13, <2>21, <2>22, <2>23, <2>24 DEF Room
  <2> QED BY <2>15, <2>25
<1> QED BY <1>5, <1>6 DEF a, b, per

\* The plan of an embedding.
LEMMA StagesPlan == ASSUME TabInv, StagesInv, PlanEmbedding PROVE StagesInv'
<1> DEFINE used == {k \in 0..(v.header1[2] - 1) : Used(Entry(k))}
           max_used == Max({-1} \cup used)
           a == AlignDown((EntryLba1 + 32) * LbSize - size_a, LbSize)
           b == AlignDown((EntryLba2 + 32) * LbSize - size_b, LbSize)
           count == (a \div LbSize - EntryLba1) * (LbSize \div EntrySize)
<1>0. Base /\ pc = "embed" /\ v.gpt /\ v.header1[2] \in Nat
  BY DEF TabInv, PlanEmbedding, Locality, GptPcs
<1>1. max_used \in Nat \cup {-1} BY <1>0, MaxUsed
<1>2. count \in Int /\ (count >= 0 => Fits(a, b) /\ Room(a, b, count)) BY Embedded
<1>3. \/ Goto("cleanup", 0)
      \/ /\ count > max_used
         /\ Goto("zero1", max_used + 1) \/ Goto("header1", 0)
         /\ v' = [v EXCEPT !.max_used = max_used, !.new_count = count, !.loc_a = a, !.loc_b = b]
  BY Zenon DEF PlanEmbedding, Enough
<1> HIDE DEF max_used, count, a, b
<1>4. CASE Goto("cleanup", 0)
  <2>1. pc' = "cleanup" BY <1>4, Went
  <2> QED BY <2>1, StagesElsewhere DEF Untouched, Placing
<1>5. CASE /\ count > max_used
           /\ Goto("zero1", max_used + 1) \/ Goto("header1", 0)
           /\ v' = [v EXCEPT !.max_used = max_used, !.new_count = count, !.loc_a = a, !.loc_b = b]
  <2>1. pc' \in {"zero1", "header1"} BY <1>5, Went
  <2>2. Fits(a, b) BY <1>1, <1>2, <1>5
  <2>3. v'.loc_a = a /\ v'.loc_b = b BY <1>0, <1>5 DEF Base, Locals
  <2> QED BY <2>1, <2>2, <2>3, StagesRoom
<1> QED BY <1>3, <1>4, <1>5

\* The entries zeroed, the headers shrunk.
LEMMA StagesShrink ==
    ASSUME TabInv, StagesInv, ZeroUnused \/ WriteHeader1 \/ WriteHeader2 PROVE StagesInv'
<1>0. Base /\ Fits(v.loc_a, v.loc_b)
  BY DEF TabInv, StagesInv, Placing, ZeroUnused, WriteHeader1, WriteHeader2
<1>1. pc' \in {"zero1", "zero2", "header1", "header2", "save", "cleanup"}
  BY DEF ZeroUnused, WriteHeader1, WriteHeader2, DeviceWrite
<1>2. v' = v \/ \E x : v' = [v EXCEPT !.header1 = x] \/ v' = [v EXCEPT !.header2 = x]
  BY DEF ZeroUnused, WriteHeader1, WriteHeader2
<1>3. v'.loc_a = v.loc_a /\ v'.loc_b = v.loc_b BY <1>0, <1>2 DEF Base, Locals
<1>4. CASE pc' = "cleanup" BY <1>4, StagesElsewhere DEF Untouched, Placing
<1>5. CASE pc' # "cleanup" BY <1>0, <1>1, <1>3, <1>5, StagesRoom
<1> QED BY <1>4, <1>5

\* The table is saved.
LEMMA StagesSave == ASSUME TabInv, StagesInv, SaveTable PROVE StagesInv'
<1>0. Base /\ Fits(v.loc_a, v.loc_b) BY DEF TabInv, StagesInv, Placing, SaveTable
<1>1. pc' = "write" /\ i' = 0 BY DEF SaveTable, Goto
<1>2. \E x : v' = [v EXCEPT !.saved = x] BY DEF SaveTable
<1>3. v'.loc_a = v.loc_a /\ v'.loc_b = v.loc_b BY <1>0, <1>2 DEF Base, Locals
<1>4. Fits(v.loc_a, v.loc_b)' BY <1>0, <1>3 DEF Fits
<1>5. Landed(view, i)' BY <1>1 DEF Landed
<1> QED BY <1>1, <1>4, <1>5 DEF StagesInv, Untouched, Placing

-----------------------------------------------------------------------------
(* The nine writes.                                                        *)

\* A write that misses a field.
LEMMA FieldMissed ==
    ASSUME NEW s \in Fields, NEW p, NEW loc, NEW count, DOMAIN p = Touched(loc, count),
           ~Overlap(Place(<<s, 0>>), <<loc, count>>)
    PROVE  Apply(p, view)[<<s, 0>>] = view[<<s, 0>>]
<1>1. <<s, 0>> \in Cells BY FieldPlace
<1>2. <<s, 0>> \notin Touched(loc, count) BY TouchedIs
<1> QED BY <1>1, <1>2, Patched

\* A write of a field.
LEMMA FieldSet ==
    ASSUME NEW s \in Fields, NEW x
    PROVE  /\ Apply(SetCell(<<s, 0>>, x), view)[<<s, 0>>] = x
           /\ DOMAIN SetCell(<<s, 0>>, x) = Touched(Place(<<s, 0>>)[1], Place(<<s, 0>>)[2])
<1> DEFINE S == Touched(Place(<<s, 0>>)[1], Place(<<s, 0>>)[2])
<1>1. DOMAIN SetCell(<<s, 0>>, x) = S /\ \A c \in S : SetCell(<<s, 0>>, x)[c] = x
  BY DEF SetCell, Fill
<1>2. <<s, 0>> \in Cells BY FieldPlace
<1>3. Overlap(Place(<<s, 0>>), <<Place(<<s, 0>>)[1], Place(<<s, 0>>)[2]>>)
  <2>1. \E l, n : Place(<<s, 0>>) = <<l, n>> /\ l \in Nat /\ n \in Nat /\ n > 0
    BY FieldPlace DEF Fields
  <2> QED BY <2>1 DEF Overlap
<1>4. <<s, 0>> \in S BY <1>2, <1>3, TouchedIs
<1> HIDE DEF S
<1> QED BY <1>1, <1>2, <1>4, Patched DEF S

\* A write in the boot sector leaves a half of stage 2 as it is.
LEMMA HalfKept ==
    ASSUME NEW a \in Nat, a >= 512, NEW n \in Nat, NEW from, HoldsImage(view, a, from, n),
           NEW p, NEW loc \in Nat, NEW count \in Nat, loc + count <= 512, DOMAIN p = Touched(loc, count)
    PROVE  HoldsImage(Apply(p, view), a, from, n)
<1> SUFFICES ASSUME NEW c \in Touched(a, n)
             PROVE  Apply(p, view)[c] = <<-1, Place(c)[1] - a + from>>
  BY DEF HoldsImage
<1>1. c \in Cells /\ c \notin Touched(loc, count) BY TouchedIs, SectorApart
<1>2. Apply(p, view)[c] = view[c] BY <1>1, Patched
<1> QED BY <1>2 DEF HoldsImage

\* A write of a part of the image.
LEMMA ImageHeld ==
    ASSUME NEW loc, NEW from, NEW count
    PROVE  /\ DOMAIN Image(loc, from, count) = Touched(loc, count)
           /\ HoldsImage(Apply(Image(loc, from, count), view), loc, from, count)
<1>1. DOMAIN Image(loc, from, count) = Touched(loc, count) BY DEF Image
<1>2. ASSUME NEW c \in Touched(loc, count)
      PROVE  Apply(Image(loc, from, count), view)[c] = <<-1, Place(c)[1] - loc + from>>
  <2>1. c \in Cells BY TouchedIs
  <2> QED BY <1>1, <2>1, Patched DEF Image
<1> QED BY <1>1, <1>2 DEF HoldsImage

\* The places in the boot sector that are patched after it is written.
LEMMA SectorWrite ==
    ASSUME Fits(v.loc_a, v.loc_b), NEW n \in 3..8, Landed(view, n),
           NEW p, NEW loc \in Nat, NEW count \in Nat, loc >= 218, loc + count <= 510,
           DOMAIN p = Touched(loc, count)
    PROVE  LET f == Apply(p, view)
           IN  /\ f[<<"code", 0>>] = <<-1, 16>> /\ f[<<"magic", 0>>] = <<-1, 510>>
               /\ HoldsImage(f, v.loc_a, 512, size_a)
               /\ HoldsImage(f, v.loc_b, 512 + size_a, stage2_size - size_a)
<1>1. /\ view[<<"code", 0>>] = <<-1, 16>> /\ view[<<"magic", 0>>] = <<-1, 510>>
      /\ HoldsImage(view, v.loc_a, 512, size_a)
      /\ HoldsImage(view, v.loc_b, 512 + size_a, stage2_size - size_a)
  BY DEF Landed
<1>2. ~Overlap(Place(<<"code", 0>>), <<loc, count>>) /\ ~Overlap(Place(<<"magic", 0>>), <<loc, count>>)
  BY FieldPlace DEF Overlap
<1>3. Apply(p, view)[<<"code", 0>>] = view[<<"code", 0>>] BY <1>2, FieldMissed DEF Fields
<1>4. Apply(p, view)[<<"magic", 0>>] = view[<<"magic", 0>>] BY <1>2, FieldMissed DEF Fields
<1>5. v.loc_a \in Nat /\ v.loc_a >= 512 /\ v.loc_b \in Nat /\ v.loc_b >= 512 BY DEF Fits
<1>6. size_a \in Nat /\ stage2_size - size_a \in Nat BY Halves
<1>7. HoldsImage(Apply(p, view), v.loc_a, 512, size_a) BY <1>1, <1>5, <1>6, HalfKept
<1>8. HoldsImage(Apply(p, view), v.loc_b, 512 + size_a, stage2_size - size_a)
  BY <1>1, <1>5, <1>6, HalfKept
<1> QED BY <1>1, <1>3, <1>4, <1>7, <1>8

\* The first three writes put the image where it belongs.
LEMMA ImageLands ==
    ASSUME Fits(v.loc_a, v.loc_b), NEW n \in 0..2, Landed(view, n)
    PROVE  Landed(Apply(Writes[n + 1], view), n + 1)
<1> DEFINE f == Apply(Writes[n + 1], view)
           rest == stage2_size - size_a
<1>1. /\ v.loc_a \in Nat /\ v.loc_a >= 512 /\ v.loc_b \in Nat /\ v.loc_b >= 512
      /\ size_a \in Nat /\ rest \in Nat
  BY Halves DEF Fits
<1>2. /\ Writes[1] = Image(0, 0, 512) /\ Writes[2] = Image(v.loc_a, 512, size_a)
      /\ Writes[3] = Image(v.loc_b, 512 + size_a, rest)
  BY DEF Writes, ImageWrites, WriteBacks
<1>3. CASE n = 0
  <2>1. HoldsImage(f, 0, 0, 512) BY <1>2, <1>3, ImageHeld
  <2>2. \A s \in Fields : <<s, 0>> \in Touched(0, 512)
    <3> SUFFICES ASSUME NEW s \in Fields PROVE <<s, 0>> \in Touched(0, 512) OBVIOUS
    <3>1. \E l, k : Place(<<s, 0>>) = <<l, k>> /\ l \in Nat /\ k \in Nat /\ k > 0 /\ l < 512
      BY FieldPlace DEF Fields
    <3>2. Overlap(Place(<<s, 0>>), <<0, 512>>) BY <3>1 DEF Overlap
    <3> QED BY <3>2, FieldPlace, TouchedIs
  <2>3. Place(<<"code", 0>>)[1] = 16 /\ Place(<<"magic", 0>>)[1] = 510 BY FieldPlace
  <2> HIDE DEF f
  <2>4. f[<<"code", 0>>] = <<-1, 16 - 0 + 0>> /\ f[<<"magic", 0>>] = <<-1, 510 - 0 + 0>>
    BY <2>1, <2>2, <2>3 DEF HoldsImage, Fields
  <2>5. Landed(f, 1) BY <2>4 DEF Landed
  <2> QED BY <1>3, <2>5 DEF f
<1>4. ASSUME NEW loc \in Nat, loc >= 512, NEW count \in Nat, NEW p, DOMAIN p = Touched(loc, count),
             NEW s \in {"code", "magic"}
      PROVE  Apply(p, view)[<<s, 0>>] = view[<<s, 0>>]
  <2>1. ~Overlap(Place(<<s, 0>>), <<loc, count>>) BY <1>4, FieldPlace DEF Overlap
  <2> QED BY <1>4, <2>1, FieldMissed DEF Fields
<1>5. CASE n = 1
  <2>1. f = Apply(Image(v.loc_a, 512, size_a), view) BY <1>2, <1>5
  <2>2. view[<<"code", 0>>] = <<-1, 16>> /\ view[<<"magic", 0>>] = <<-1, 510>> BY <1>5 DEF Landed
  <2>3. HoldsImage(f, v.loc_a, 512, size_a) BY <2>1, ImageHeld
  <2>4. DOMAIN Image(v.loc_a, 512, size_a) = Touched(v.loc_a, size_a) BY ImageHeld
  <2>5. f[<<"code", 0>>] = <<-1, 16>> /\ f[<<"magic", 0>>] = <<-1, 510>>
    BY <1>1, <1>4, <2>1, <2>2, <2>4
  <2> HIDE DEF f
  <2>6. Landed(f, 2) BY <2>3, <2>5 DEF Landed
  <2> QED BY <1>5, <2>6 DEF f
<1>6. CASE n = 2
  <2> DEFINE p == Image(v.loc_b, 512 + size_a, rest)
  <2>1. f = Apply(p, view) BY <1>2, <1>6
  <2>2. /\ view[<<"code", 0>>] = <<-1, 16>> /\ view[<<"magic", 0>>] = <<-1, 510>>
        /\ HoldsImage(view, v.loc_a, 512, size_a)
    BY <1>6 DEF Landed
  <2>3. HoldsImage(f, v.loc_b, 512 + size_a, rest) /\ DOMAIN p = Touched(v.loc_b, rest)
    BY <2>1, ImageHeld
  <2>4. f[<<"code", 0>>] = <<-1, 16>> /\ f[<<"magic", 0>>] = <<-1, 510>>
    BY <1>1, <1>4, <2>1, <2>2, <2>3
  <2>5. HoldsImage(f, v.loc_a, 512, size_a)
    <3> SUFFICES ASSUME NEW c \in Touched(v.loc_a, size_a)
                 PROVE  f[c] = <<-1, Place(c)[1] - v.loc_a + 512>>
      BY DEF HoldsImage
    <3>0. c \in Cells BY TouchedIs
    <3>1. view[c] = <<-1, Place(c)[1] - v.loc_a + 512>> BY <2>2 DEF HoldsImage
    <3>2. CASE c \notin Touched(v.loc_b, rest) BY <2>1, <2>3, <3>0, <3>1, <3>2, Patched
    <3>3. CASE c \in Touched(v.loc_b, rest)
      <4>1. f[c] = <<-1, Place(c)[1] - v.loc_b + (512 + size_a)>> BY <2>3, <3>3 DEF HoldsImage
      <4>2. v.loc_b = v.loc_a + size_a BY <1>1, <3>3, HalvesApart
      <4>3. Place(c)[1] \in Nat BY <3>0, SectorEdge
      <4>4. Place(c)[1] - v.loc_b + (512 + size_a) = Place(c)[1] - v.loc_a + 512 BY <1>1, <4>2, <4>3
      <4> QED BY <4>1, <4>4
    <3> QED BY <3>2, <3>3
  <2> HIDE DEF f
  <2>6. Landed(f, 3) BY <2>3, <2>4, <2>5 DEF Landed
  <2> QED BY <1>6, <2>6 DEF f
<1> QED BY <1>3, <1>5, <1>6

\* The others say where it is and put back what it must not change.
LEMMA PatchLands ==
    ASSUME Fits(v.loc_a, v.loc_b), NEW n \in 3..8, Landed(view, n)
    PROVE  Landed(Apply(Writes[n + 1], view), n + 1)
<1> DEFINE p == Writes[n + 1]
           f == Apply(p, view)
<1>0. /\ Writes[4] = SetCell(<<"size_a", 0>>, <<size_a>>)
      /\ Writes[5] = SetCell(<<"size_b", 0>>, <<size_b>>)
      /\ Writes[6] = SetCell(<<"loc_a", 0>>, <<v.loc_a>>)
      /\ Writes[7] = SetCell(<<"loc_b", 0>>, <<v.loc_b>>)
      /\ Writes[8] = Saved(218, 6) /\ Writes[9] = Saved(440, 70)
  BY DEF Writes, ImageWrites, WriteBacks
<1>1. \E loc, count :
         /\ loc \in Nat /\ count \in Nat /\ DOMAIN p = Touched(loc, count)
         /\ n = 3 => loc = 420 /\ count = 2
         /\ n = 4 => loc = 422 /\ count = 2
         /\ n = 5 => loc = 424 /\ count = 8
         /\ n = 6 => loc = 432 /\ count = 8
         /\ n = 7 => loc = 218 /\ count = 6
         /\ n = 8 => loc = 440 /\ count = 70
  <2>1. CASE n = 3
    <3>1. DOMAIN p = Touched(420, 2) BY <1>0, <2>1, FieldSet, FieldPlace DEF Fields
    <3> HIDE DEF p
    <3> QED BY <2>1, <3>1
  <2>2. CASE n = 4
    <3>1. DOMAIN p = Touched(422, 2) BY <1>0, <2>2, FieldSet, FieldPlace DEF Fields
    <3> HIDE DEF p
    <3> QED BY <2>2, <3>1
  <2>3. CASE n = 5
    <3>1. DOMAIN p = Touched(424, 8) BY <1>0, <2>3, FieldSet, FieldPlace DEF Fields
    <3> HIDE DEF p
    <3> QED BY <2>3, <3>1
  <2>4. CASE n = 6
    <3>1. DOMAIN p = Touched(432, 8) BY <1>0, <2>4, FieldSet, FieldPlace DEF Fields
    <3> HIDE DEF p
    <3> QED BY <2>4, <3>1
  <2>5. CASE n = 7
    <3>1. DOMAIN p = Touched(218, 6) BY <1>0, <2>5 DEF Saved
    <3> HIDE DEF p
    <3> QED BY <2>5, <3>1
  <2>6. CASE n = 8
    <3>1. DOMAIN p = Touched(440, 70) BY <1>0, <2>6 DEF Saved
    <3> HIDE DEF p
    <3> QED BY <2>6, <3>1
  <2> QED BY <2>1, <2>2, <2>3, <2>4, <2>5, <2>6
<1>2. /\ n = 3 => f[<<"size_a", 0>>] = <<size_a>>
      /\ n = 4 => f[<<"size_b", 0>>] = <<size_b>>
      /\ n = 5 => f[<<"loc_a", 0>>] = <<v.loc_a>>
      /\ n = 6 => f[<<"loc_b", 0>>] = <<v.loc_b>>
  BY <1>0, FieldSet DEF Fields
<1> HIDE DEF p
<1>3. PICK loc, count :
         /\ loc \in Nat /\ count \in Nat /\ DOMAIN p = Touched(loc, count)
         /\ n = 3 => loc = 420 /\ count = 2
         /\ n = 4 => loc = 422 /\ count = 2
         /\ n = 5 => loc = 424 /\ count = 8
         /\ n = 6 => loc = 432 /\ count = 8
         /\ n = 7 => loc = 218 /\ count = 6
         /\ n = 8 => loc = 440 /\ count = 70
  BY <1>1
<1>4. loc >= 218 /\ loc + count <= 510 BY <1>3
<1>5. /\ f[<<"code", 0>>] = <<-1, 16>> /\ f[<<"magic", 0>>] = <<-1, 510>>
      /\ HoldsImage(f, v.loc_a, 512, size_a)
      /\ HoldsImage(f, v.loc_b, 512 + size_a, stage2_size - size_a)
  BY <1>3, <1>4, SectorWrite
<1>6. /\ n >= 4 => ~Overlap(<<420, 2>>, <<loc, count>>)
      /\ n >= 5 => ~Overlap(<<422, 2>>, <<loc, count>>)
      /\ n >= 6 => ~Overlap(<<424, 8>>, <<loc, count>>)
      /\ n >= 7 => ~Overlap(<<432, 8>>, <<loc, count>>)
  BY <1>3 DEF Overlap
<1>7. /\ n >= 4 => f[<<"size_a", 0>>] = view[<<"size_a", 0>>]
      /\ n >= 5 => f[<<"size_b", 0>>] = view[<<"size_b", 0>>]
      /\ n >= 6 => f[<<"loc_a", 0>>] = view[<<"loc_a", 0>>]
      /\ n >= 7 => f[<<"loc_b", 0>>] = view[<<"loc_b", 0>>]
  BY <1>3, <1>6, FieldMissed, FieldPlace DEF Fields
<1>8. /\ n >= 4 => view[<<"size_a", 0>>] = <<size_a>>
      /\ n >= 5 => view[<<"size_b", 0>>] = <<size_b>>
      /\ n >= 6 => view[<<"loc_a", 0>>] = <<v.loc_a>>
      /\ n >= 7 => view[<<"loc_b", 0>>] = <<v.loc_b>>
  BY DEF Landed
<1> HIDE DEF f
<1>9. Landed(f, n + 1) BY <1>2, <1>5, <1>7, <1>8 DEF Landed
<1> QED BY <1>9 DEF f, p

\* The boot sector and stage 2.
LEMMA StagesWrite == ASSUME TabInv, StagesInv, WriteStages PROVE StagesInv'
<1>0. pc = "write" /\ v' = v /\ i \in 0..8 /\ Fits(v.loc_a, v.loc_b) /\ Landed(view, i)
  BY DEF TabInv, Base, Locality, StagesInv, Placing, WriteStages
<1> DEFINE p == Writes[i + 1]
<1>1. Landed(Apply(p, view), i + 1)
  <2>1. CASE i \in 0..2 BY <1>0, <2>1, ImageLands
  <2>2. CASE i \in 3..8 BY <1>0, <2>2, PatchLands
  <2> QED BY <1>0, <2>1, <2>2
<1>2. \/ i + 1 < 9 /\ DeviceWrite(p, "write", i + 1)
      \/ ~(i + 1 < 9) /\ DeviceWrite(p, "flush", 0)
  BY <1>0, NineWrites DEF WriteStages, Loop
<1> HIDE DEF p
<1>3. \/ i + 1 < 9 /\ pc' = "write" /\ i' = i + 1 /\ view' = Apply(p, view)
      \/ ~(i + 1 < 9) /\ pc' = "flush" /\ i' = 0 /\ view' = Apply(p, view)
      \/ pc' = "cleanup"
  BY <1>2, Wrote
<1>4. CASE pc' = "cleanup" BY <1>4, StagesElsewhere DEF Untouched, Placing
<1>5. CASE pc' # "cleanup"
  <2>1. view' = Apply(p, view) /\ pc' \in {"write", "flush"} BY <1>3, <1>5
  <2>2. Fits(v.loc_a, v.loc_b)' BY <1>0 DEF Fits
  <2>4. pc' = "write" => Landed(view, i)'
    <3>1. ASSUME pc' = "write" PROVE i' = i + 1 BY <1>3, <3>1
    <3> QED BY <1>0, <1>1, <2>1, <3>1 DEF Landed, HoldsImage
  <2>5. pc' = "flush" => Landed(view, 9)'
    <3>1. ASSUME pc' = "flush" PROVE i + 1 = 9 BY <1>0, <1>3, <3>1
    <3> QED BY <1>0, <1>1, <2>1, <3>1 DEF Landed, HoldsImage
  <2> QED BY <2>1, <2>2, <2>4, <2>5 DEF StagesInv, Untouched, Placing
<1> QED BY <1>4, <1>5

\* Success.
LEMMA StagesFlush == ASSUME TabInv, StagesInv, FlushAll PROVE StagesInv'
<1>1. pc = "flush" /\ pc' = "installed" /\ v' = v /\ view' = view /\ orig' = orig
  BY DEF FlushAll, Commit, CommitLosing
<1>2. Fits(v.loc_a, v.loc_b)' BY <1>1 DEF StagesInv, Placing, Fits
<1>3. Landed(view, 9)' BY <1>1 DEF StagesInv, Landed, HoldsImage
<1> QED BY <1>1, <1>2, <1>3 DEF StagesInv, Untouched, Placing

\* Failure, cleanup and the undo.
LEMMA StagesFailure ==
    ASSUME IoError \/ Cleanup \/ UninstallRun \/ PutBack \/ UndoReturn PROVE StagesInv'
<1>1. pc' \in {"cleanup", "undo", "undone"} BY DEF IoError, Cleanup, UninstallRun, PutBack, UndoReturn
<1> QED BY <1>1, StagesElsewhere DEF Untouched, Placing

\* Nothing changes.
LEMMA StagesStutter == ASSUME StagesInv, UNCHANGED vars PROVE StagesInv'
<1>1. UNCHANGED <<orig, view, pc, i, v>> BY DEF vars, device
<1> QED BY <1>1 DEF StagesInv, Fits, Landed, HoldsImage

-----------------------------------------------------------------------------
\* Where stage 2 goes, and what has been written of it.
THEOREM StagesInvariant == Spec => []StagesInv
<1>1. Init => StagesInv BY DEF Init, StagesInv, Untouched, Placing
<1>2. TabInv /\ StagesInv /\ [Next]_vars => StagesInv'
  BY StagesProbe, StagesRead, StagesMbr, StagesActive, StagesLayout, StagesPartition, StagesPlan,
     StagesShrink, StagesSave, StagesWrite, StagesFlush, StagesFailure, StagesStutter
     DEF Next
<1> QED BY <1>1, <1>2, TableInvariant, PTL DEF Spec

\* A finished install has all of stage 2 on the device, at the places the boot
\* sector names, for every geometry of the disk and every size of the image
\* whose halves fit their fields (the last writes of bios_install).
THEOREM InstallPlacesStageTwo == Spec => []StageTwoComplete
<1>1. ASSUME StagesInv PROVE StageTwoComplete
  <2> SUFFICES ASSUME Installed PROVE StageTwoComplete BY DEF StageTwoComplete
  <2>1. Landed(view, 9) BY <1>1 DEF StagesInv, Installed
  <2>2. /\ view[<<"code", 0>>] = <<-1, 16>> /\ view[<<"magic", 0>>] = <<-1, 510>>
        /\ view[<<"size_a", 0>>][1] = size_a /\ view[<<"size_b", 0>>][1] = size_b
        /\ view[<<"loc_a", 0>>][1] = v.loc_a /\ view[<<"loc_b", 0>>][1] = v.loc_b
        /\ HoldsImage(view, v.loc_a, 512, size_a)
        /\ HoldsImage(view, v.loc_b, 512 + size_a, stage2_size - size_a)
    BY <2>1 DEF Landed
  <2>3. size_a + size_b >= stage2_size BY Halves
  <2> QED BY <2>2, <2>3 DEF StageTwoComplete, HoldsImage
<1> QED BY <1>1, StagesInvariant, PTL

-----------------------------------------------------------------------------
(* The two copies of a GPT.                                                *)

Ent(c, k) == <<IF c = 1 THEN "ent1" ELSE "ent2", k>>
Hdr(c) == <<"hdr", c>>
HdrLba(c) == IF c = 1 THEN 1 ELSE LastLba

\* The cells of the first n entries, of entry k, and of a copy with n entries.
Array(c, n) == Touched(ArrayLba(c) * LbSize, n * EntrySize)
Slot(c, k) == Touched(ArrayLba(c) * LbSize + k * EntrySize, EntrySize)
Zone(c, n) == {Hdr(c)} \cup Array(c, n)

\* A block edge lies between two ranges.
Apart(x, s, y, t) ==
    \E m \in Nat : (x + s <= m * LbSize /\ m * LbSize <= y) \/ (y + t <= m * LbSize /\ m * LbSize <= x)

\* No cell is touched by two ranges with a block edge between them.
LEMMA ApartTouch ==
    ASSUME NEW x \in Nat, NEW s \in Nat, NEW y \in Nat, NEW t \in Nat, Apart(x, s, y, t)
    PROVE  Touched(x, s) \cap Touched(y, t) = {}
<1> SUFFICES ASSUME NEW c \in Touched(x, s), c \in Touched(y, t) PROVE FALSE OBVIOUS
<1>1. c \in Cells /\ Overlap(Place(c), <<x, s>>) /\ Overlap(Place(c), <<y, t>>) BY TouchedIs
<1> DEFINE p == Place(c)[1]
           q == Place(c)[2]
<1>2. p \in Nat /\ q \in Nat BY <1>1, SectorEdge
<1>3. p < x + s /\ x < p + q /\ p < y + t /\ y < p + q BY <1>1 DEF Overlap
<1>4. PICK m \in Nat : (x + s <= m * LbSize /\ m * LbSize <= y) \/ (y + t <= m * LbSize /\ m * LbSize <= x)
  BY DEF Apart
<1>5. m * LbSize \in Nat BY <1>4, Multiples
<1>6. p < m * LbSize BY <1>2, <1>3, <1>4, <1>5
<1>7. p + q <= m * LbSize BY <1>1, <1>6, BlockEdge
<1> HIDE DEF p, q
<1> QED BY <1>2, <1>3, <1>4, <1>5, <1>7

\* Multiples of a block in the order of their factors.
LEMMA BlockOrder ==
    ASSUME NEW a \in Nat, NEW b \in Nat, a <= b
    PROVE  a * LbSize \in Nat /\ b * LbSize \in Nat /\ a * LbSize <= b * LbSize
<1>1. LbSize \in Nat BY Multiples
<1>2. a < b => a * LbSize + LbSize <= b * LbSize BY <1>1, Product
<1>3. a * LbSize \in Nat /\ b * LbSize \in Nat BY <1>1
<1> QED BY <1>1, <1>2, <1>3

\* The headers and arrays in their order on the device.
LEMMA Grid ==
    /\ LbSize \in Nat /\ LbSize >= 512 /\ EntrySize \in Nat \ {0} /\ NumEntries \in Nat
    /\ EntryLba1 \in Nat /\ EntryLba2 \in Nat /\ LastLba \in Nat
    /\ EntryLba1 * LbSize \in Nat /\ EntryLba2 * LbSize \in Nat /\ LastLba * LbSize \in Nat
    /\ NumEntries * EntrySize \in Nat /\ NumEntries * EntrySize <= 32 * LbSize
    /\ (EntryLba1 + 32) * LbSize = EntryLba1 * LbSize + 32 * LbSize
    /\ (EntryLba2 + 32) * LbSize = EntryLba2 * LbSize + 32 * LbSize
    /\ 2 * LbSize <= EntryLba1 * LbSize
    /\ EntryLba1 * LbSize + 32 * LbSize <= EntryLba2 * LbSize
    /\ EntryLba2 * LbSize + 32 * LbSize <= LastLba * LbSize
    /\ (LastLba + 1) * LbSize = LastLba * LbSize + LbSize
<1>1. /\ LbSize \in Nat /\ LbSize >= 512 /\ EntrySize \in Nat \ {0} /\ NumEntries \in Nat
      /\ EntryLba1 \in Nat /\ EntryLba2 \in Nat /\ LastLba \in Nat /\ 2 <= EntryLba1
      /\ EntryLba1 + 32 <= EntryLba2 /\ EntryLba2 + 32 <= LastLba
      /\ NumEntries * EntrySize <= 32 * LbSize
  BY GeometryAssumption, GptAssumption, Multiples
<1>2. 2 * LbSize <= EntryLba1 * LbSize /\ EntryLba1 * LbSize \in Nat BY <1>1, BlockOrder
<1>3. (EntryLba1 + 32) * LbSize <= EntryLba2 * LbSize /\ EntryLba2 * LbSize \in Nat BY <1>1, BlockOrder
<1>4. (EntryLba2 + 32) * LbSize <= LastLba * LbSize /\ LastLba * LbSize \in Nat BY <1>1, BlockOrder
<1>5. /\ (EntryLba1 + 32) * LbSize = EntryLba1 * LbSize + 32 * LbSize
      /\ (EntryLba2 + 32) * LbSize = EntryLba2 * LbSize + 32 * LbSize
      /\ (LastLba + 1) * LbSize = LastLba * LbSize + LbSize
      /\ NumEntries * EntrySize \in Nat
  BY <1>1
<1> QED BY <1>1, <1>2, <1>3, <1>4, <1>5

\* The header cells and where they are.
LEMMA HdrCell ==
    ASSUME NEW c \in {1, 2}
    PROVE  /\ Hdr(c) \in Cells /\ Place(Hdr(c)) = <<HdrLba(c) * LbSize, 96>>
           /\ HdrLba(c) * LbSize \in Nat /\ Hdr(c) \in Touched(HdrLba(c) * LbSize, 96)
<1>1. Hdr(c) \in FineCells BY DEF Hdr, FineCells
<1>2. Place(Hdr(c)) = <<IF c = 1 THEN LbSize ELSE LastLba * LbSize, 96>>
  BY DEF Hdr, Place, MbrPlace, EntryField
<1>3. LbSize \in Nat /\ LastLba * LbSize \in Nat /\ 1 * LbSize = LbSize BY Grid
<1>4. Place(Hdr(c)) = <<HdrLba(c) * LbSize, 96>> /\ HdrLba(c) * LbSize \in Nat
  BY <1>2, <1>3 DEF HdrLba
<1>5. Hdr(c) \in Cells BY <1>1 DEF Cells
<1> DEFINE h == HdrLba(c) * LbSize
<1>6. Overlap(<<h, 96>>, <<h, 96>>)
  <2>1. h \in Nat BY <1>4
  <2> HIDE DEF h
  <2> QED BY <2>1 DEF Overlap
<1> QED BY <1>4, <1>5, <1>6, TouchedIs

\* The entry cells and where they are.
LEMMA EntCell ==
    ASSUME NEW c \in {1, 2}, NEW k \in 0..(NumEntries - 1)
    PROVE  /\ Ent(c, k) \in FineCells /\ Ent(c, k) \in Cells
           /\ Place(Ent(c, k)) = <<ArrayLba(c) * LbSize + k * EntrySize, EntrySize>>
<1>1. Ent(c, k) \in FineCells BY DEF Ent, FineCells
<1>2. Place(Ent(c, k)) = <<ArrayLba(c) * LbSize + k * EntrySize, EntrySize>>
  BY DEF Ent, Place, MbrPlace, EntryField, ArrayLba
<1> QED BY <1>1, <1>2 DEF Cells

\* Places in an array.
LEMMA ArrayNat ==
    ASSUME NEW c \in {1, 2}, NEW k \in Nat
    PROVE  /\ ArrayLba(c) \in Nat /\ ArrayLba(c) * LbSize \in Nat /\ k * EntrySize \in Nat
           /\ ArrayLba(c) * LbSize + k * EntrySize \in Nat
<1>1. k * EntrySize \in Nat BY Grid
<1>2. ArrayLba(c) \in Nat /\ ArrayLba(c) * LbSize \in Nat BY Grid DEF ArrayLba
<1> QED BY <1>1, <1>2

\* An entry lies in its slot and in no other one.
LEMMA EntSlot ==
    ASSUME NEW c \in {1, 2}, NEW k \in 0..(NumEntries - 1), NEW j \in Nat
    PROVE  Ent(c, k) \in Slot(c, j) <=> k = j
<1> DEFINE b == ArrayLba(c) * LbSize
           x == k * EntrySize
           y == j * EntrySize
<1>0. k \in Nat BY Grid
<1>1. b \in Nat /\ x \in Nat /\ y \in Nat /\ EntrySize \in Nat \ {0} BY <1>0, ArrayNat, Grid
<1>2. k < j => x + EntrySize <= y BY <1>0, <1>1, Product
<1>3. j < k => y + EntrySize <= x BY <1>0, <1>1, Product
<1>4. Ent(c, k) \in Slot(c, j) <=> Overlap(<<b + x, EntrySize>>, <<b + y, EntrySize>>)
  BY EntCell, TouchedIs DEF Slot
<1>5. k = j => x = y OBVIOUS
<1> HIDE DEF b, x, y
<1> QED BY <1>0, <1>1, <1>2, <1>3, <1>4, <1>5 DEF Overlap

\* The slots of the first n entries make up the array.
LEMMA SlotInArray ==
    ASSUME NEW c \in {1, 2}, NEW n \in Nat, NEW k \in Nat, k < n
    PROVE  Slot(c, k) \subseteq Array(c, n)
<1> SUFFICES ASSUME NEW x \in Slot(c, k) PROVE x \in Array(c, n) OBVIOUS
<1> DEFINE b == ArrayLba(c) * LbSize
           y == k * EntrySize
           z == n * EntrySize
<1>1. b \in Nat /\ y \in Nat /\ z \in Nat /\ EntrySize \in Nat BY ArrayNat, Grid
<1>2. y + EntrySize <= z BY <1>1, Product
<1>3. x \in Cells /\ Overlap(Place(x), <<b + y, EntrySize>>) BY TouchedIs DEF Slot
<1>4. Place(x)[1] \in Nat /\ Place(x)[2] \in Nat BY <1>3, SectorEdge
<1> HIDE DEF b, y, z
<1>5. Overlap(Place(x), <<b, z>>) BY <1>1, <1>2, <1>3, <1>4 DEF Overlap
<1> QED BY <1>3, <1>5, TouchedIs DEF Array, b, z

\* No cell is empty.
LEMMA PlaceSize ==
    ASSUME NEW c \in Cells
    PROVE  Place(c)[2] \in Nat /\ Place(c)[2] > 0
<1>0. LbSize \in Nat /\ LbSize >= 512 /\ EntrySize \in Nat \ {0} BY Multiples
<1>1. CASE c \in MbrCells
  <2>1. PICK s, k : /\ c = <<s, k>>
                    /\ s \in {"sig", "code", "fat16", "fat32", "time", "size_a", "size_b", "loc_a", "loc_b",
                              "magic", "id", "flag", "chs_start", "type", "chs_end", "start", "count"}
    BY <1>1 DEF MbrCells
  <2>2. CASE s \in {"sig", "code", "fat16", "fat32", "time", "size_a", "size_b", "loc_a", "loc_b", "magic"}
    <3>1. Place(c) = MbrPlace[s] BY <2>1, <2>2 DEF Place, MbrPlace, EntryField
    <3> QED BY <2>2, <3>1 DEF MbrPlace
  <2>3. CASE s = "id"
    <3>1. Place(c) = <<440 + k, 1>> BY <2>1, <2>3 DEF Place, MbrPlace, EntryField
    <3> QED BY <3>1
  <2>4. CASE s \in {"flag", "chs_start", "type", "chs_end", "start", "count"}
    <3>1. Place(c) = <<446 + 16 * k + EntryField[s][1], EntryField[s][2]>>
      BY <2>1, <2>4 DEF Place, MbrPlace, EntryField
    <3>2. EntryField[s] \in {<<0, 1>>, <<1, 3>>, <<4, 1>>, <<5, 3>>, <<8, 4>>, <<12, 4>>}
      BY <2>4 DEF EntryField
    <3> QED BY <3>1, <3>2
  <2> QED BY <2>1, <2>2, <2>3, <2>4
<1>2. CASE c \notin MbrCells
  <2>1. Place(c)[2] \in {2, 5, 96, EntrySize, 512, LbSize} BY <1>2, CellPlaces
  <2> QED BY <1>0, <2>1
<1> QED BY <1>1, <1>2

\* A cell of the array lies in some slot.
LEMMA ArrayInSlot ==
    ASSUME NEW c \in {1, 2}, NEW n \in Nat, NEW x \in Array(c, n)
    PROVE  \E k \in Nat : k < n /\ x \in Slot(c, k)
<1> DEFINE b == ArrayLba(c) * LbSize
           z == n * EntrySize
           p == Place(x)[1]
           q == Place(x)[2]
           k == (p - b) \div EntrySize
           y == k * EntrySize
<1>1. b \in Nat /\ z \in Nat /\ EntrySize \in Nat \ {0} /\ ArrayLba(c) \in Nat BY ArrayNat, Grid
<1>2. x \in Cells /\ Overlap(Place(x), <<b, z>>) BY TouchedIs DEF Array
<1>3. p \in Nat /\ q \in Nat BY <1>2, SectorEdge
<1>4. p < b + z /\ b < p + q BY <1>2 DEF Overlap
<1>5. p >= b
  <2>1. p < b => p + q <= b BY <1>1, <1>2, BlockEdge
  <2> HIDE DEF p, q, b
  <2> QED BY <1>1, <1>3, <1>4, <2>1
<1>6. k \in Nat /\ y \in Nat /\ y <= p - b /\ p - b < y + EntrySize
  <2> DEFINE w == p - b
  <2>1. w \in Nat BY <1>1, <1>3, <1>5
  <2> HIDE DEF w
  <2>2. w \div EntrySize \in Int /\ (w \div EntrySize) * EntrySize <= w
        /\ w < (w \div EntrySize) * EntrySize + EntrySize
    BY <1>1, <2>1, Aligned
  <2>3. w \div EntrySize \in Nat BY <1>1, <2>1
  <2>4. (w \div EntrySize) * EntrySize \in Nat BY <1>1, <2>3
  <2> QED BY <2>2, <2>3, <2>4 DEF w
<1> HIDE DEF k, b, p, q
<1>7. k < n
  <2>1. n < k => z + EntrySize <= y BY <1>1, <1>6, Product
  <2>2. n = k => z = y OBVIOUS
  <2> HIDE DEF y, z
  <2> QED BY <1>1, <1>3, <1>4, <1>5, <1>6, <2>1, <2>2
<1>8. q > 0 BY <1>1, <1>2, <1>3, PlaceSize DEF q
<1> HIDE DEF y
<1>9. Overlap(Place(x), <<b + y, EntrySize>>) BY <1>1, <1>3, <1>4, <1>5, <1>6, <1>8 DEF Overlap, p, q
<1>10. x \in Slot(c, k) BY <1>2, <1>9, TouchedIs DEF Slot, b, y
<1> QED BY <1>6, <1>7, <1>10

-----------------------------------------------------------------------------
(* The regions of the device that the writes reach.                        *)

Whole(c) == Touched(ArrayLba(c) * LbSize, 32 * LbSize)
HdrT(c) == Touched(HdrLba(c) * LbSize, 96)
Boot == Touched(0, 512)

\* What fits 32 blocks lies in the blocks of the array.
LEMMA InWhole ==
    ASSUME NEW c \in {1, 2}, NEW n \in Nat, n * EntrySize <= 32 * LbSize
    PROVE  Array(c, n) \subseteq Whole(c)
<1> SUFFICES ASSUME NEW x \in Array(c, n) PROVE x \in Whole(c) OBVIOUS
<1> DEFINE b == ArrayLba(c) * LbSize
           z == n * EntrySize
           t == 32 * LbSize
<1>1. b \in Nat /\ z \in Nat /\ t \in Nat /\ z <= t BY ArrayNat, Grid
<1>2. x \in Cells /\ Overlap(Place(x), <<b, z>>) BY TouchedIs DEF Array
<1>3. Place(x)[1] \in Nat /\ Place(x)[2] \in Nat BY <1>2, SectorEdge
<1> HIDE DEF b, z, t
<1>4. Overlap(Place(x), <<b, t>>) BY <1>1, <1>2, <1>3 DEF Overlap
<1> QED BY <1>2, <1>4, TouchedIs DEF Whole, b, t

\* An entry is in its array.
LEMMA EntIn ==
    ASSUME NEW c \in {1, 2}, NEW k \in 0..(NumEntries - 1)
    PROVE  Ent(c, k) \in Array(c, NumEntries) /\ Ent(c, k) \in Whole(c)
<1>1. k \in Nat /\ k < NumEntries /\ NumEntries \in Nat BY Grid
<1>2. Ent(c, k) \in Slot(c, k) BY <1>1, EntSlot
<1>3. Slot(c, k) \subseteq Array(c, NumEntries) BY <1>1, SlotInArray
<1>4. Array(c, NumEntries) \subseteq Whole(c) BY <1>1, InWhole, Grid
<1> QED BY <1>2, <1>3, <1>4

\* The boot sector, the headers and the arrays share no cell.
LEMMA Regions ==
    /\ Whole(1) \cap Whole(2) = {}
    /\ HdrT(1) \cap HdrT(2) = {}
    /\ \A c \in {1, 2} : HdrT(c) \cap (Whole(1) \cup Whole(2) \cup Boot) = {}
    /\ \A c \in {1, 2} : Boot \cap Whole(c) = {}
<1> DEFINE e1 == EntryLba1 * LbSize
           e2 == EntryLba2 * LbSize
           l == LastLba * LbSize
           t == 32 * LbSize
<1>1. /\ LbSize \in Nat /\ LbSize >= 512 /\ EntryLba1 \in Nat /\ EntryLba2 \in Nat /\ LastLba \in Nat
      /\ e1 \in Nat /\ e2 \in Nat /\ l \in Nat /\ t \in Nat
      /\ 2 * LbSize <= e1 /\ e1 + t <= e2 /\ e2 + t <= l
  BY Grid
<1>2. /\ Whole(1) = Touched(e1, t) /\ Whole(2) = Touched(e2, t)
      /\ HdrT(1) = Touched(LbSize, 96) /\ HdrT(2) = Touched(l, 96) /\ Boot = Touched(0, 512)
  <2>1. 1 * LbSize = LbSize BY <1>1
  <2> QED BY <2>1 DEF Whole, HdrT, Boot, ArrayLba, HdrLba
<1>3. Apart(e1, t, e2, t) BY <1>1 DEF Apart
<1>4. Apart(e1, t, l, 96) BY <1>1 DEF Apart
<1>5. Apart(e2, t, l, 96) BY <1>1 DEF Apart
<1>6. 1 * LbSize = LbSize /\ 1 \in Nat /\ 2 \in Nat /\ 2 * LbSize = LbSize + LbSize BY <1>1
<1>7. LbSize + 96 <= 2 * LbSize /\ 2 * LbSize <= l BY <1>1
<1> HIDE DEF e1, e2, l, t
<1>8. Apart(LbSize, 96, e1, t) BY <1>1, <1>6, <1>7 DEF Apart
<1>9. Apart(LbSize, 96, e2, t)
  <2>1. 2 * LbSize <= e2 BY <1>1
  <2> QED BY <1>1, <1>6, <1>7, <2>1 DEF Apart
<1>10. Apart(LbSize, 96, l, 96) BY <1>1, <1>6, <1>7 DEF Apart
<1>11. Apart(0, 512, LbSize, 96) BY <1>1, <1>6 DEF Apart
<1>12. Apart(0, 512, l, 96)
  <2>1. LbSize <= l BY <1>1
  <2> QED BY <1>1, <1>6, <2>1 DEF Apart
<1>13. Apart(0, 512, e1, t)
  <2>1. LbSize <= e1 BY <1>1
  <2> QED BY <1>1, <1>6, <2>1 DEF Apart
<1>14. Apart(0, 512, e2, t)
  <2>1. LbSize <= e2 BY <1>1
  <2> QED BY <1>1, <1>6, <2>1 DEF Apart
<1>15. Touched(e1, t) \cap Touched(e2, t) = {} BY <1>1, <1>3, ApartTouch
<1>16. Touched(e1, t) \cap Touched(l, 96) = {} BY <1>1, <1>4, ApartTouch
<1>17. Touched(e2, t) \cap Touched(l, 96) = {} BY <1>1, <1>5, ApartTouch
<1>18. Touched(LbSize, 96) \cap Touched(e1, t) = {} BY <1>1, <1>8, ApartTouch
<1>19. Touched(LbSize, 96) \cap Touched(e2, t) = {} BY <1>1, <1>9, ApartTouch
<1>20. Touched(LbSize, 96) \cap Touched(l, 96) = {} BY <1>1, <1>10, ApartTouch
<1>21. Touched(0, 512) \cap Touched(LbSize, 96) = {} BY <1>1, <1>11, ApartTouch
<1>22. Touched(0, 512) \cap Touched(l, 96) = {} BY <1>1, <1>12, ApartTouch
<1>23. Touched(0, 512) \cap Touched(e1, t) = {} BY <1>1, <1>13, ApartTouch
<1>24. Touched(0, 512) \cap Touched(e2, t) = {} BY <1>1, <1>14, ApartTouch
<1> QED BY <1>2, <1>15, <1>16, <1>17, <1>18, <1>19, <1>20, <1>21, <1>22, <1>23, <1>24

\* A magic inside an array, which is not zero, would be part of an entry.
Magics == {<<"ext", 0>>, <<"iso", 0>>}

\* The magics that lie in an array.
LEMMA MagicIn ==
    ASSUME NEW x \in Magics, InArray(x)
    PROVE  x \in Cells /\ \E c \in {1, 2} : x \in Whole(c)
<1>1. x \in Cells BY DEF Magics, Cells, FineCells
<1>2. PICK lba \in {EntryLba1, EntryLba2} : Overlap(Place(x), <<lba * LbSize, 32 * LbSize>>) BY DEF InArray
<1>3. x \in Touched(lba * LbSize, 32 * LbSize) BY <1>1, <1>2, TouchedIs
<1>4. CASE lba = EntryLba1 BY <1>1, <1>3, <1>4 DEF Whole, ArrayLba
<1>5. CASE lba = EntryLba2 BY <1>1, <1>3, <1>5 DEF Whole, ArrayLba
<1> QED BY <1>2, <1>4, <1>5

\* What lies where an entry is: the entry, or a magic.
LEMMA SlotCells ==
    ASSUME NEW c \in {1, 2}, NEW k \in 0..(NumEntries - 1), NEW x \in Slot(c, k)
    PROVE  x = Ent(c, k) \/ (x \in Magics /\ InArray(x))
<1>0. k \in Nat /\ k < NumEntries /\ NumEntries \in Nat BY Grid
<1>1. x \in Cells /\ Overlap(Place(x), Place(Ent(c, k))) BY EntCell, TouchedIs DEF Slot
<1>2. Ent(c, k) \in FineCells BY EntCell
<1>3. x \in FineCells BY <1>1, <1>2 DEF Cells
<1>4. x \in Whole(c)
  <2>1. Slot(c, k) \subseteq Array(c, NumEntries) BY <1>0, SlotInArray
  <2>2. Array(c, NumEntries) \subseteq Whole(c) BY <1>0, InWhole, Grid
  <2> QED BY <2>1, <2>2
<1>5. CASE x \in MbrCells
  <2>1. Place(x)[1] \in Nat /\ Place(x)[2] \in Nat /\ Place(x)[1] + Place(x)[2] <= 512 BY <1>5, MbrInSector
  <2>2. Place(x)[2] > 0 BY <1>1, PlaceSize
  <2>3. Overlap(Place(x), <<0, 512>>) BY <2>1, <2>2 DEF Overlap
  <2>4. x \in Boot BY <1>1, <2>3, TouchedIs DEF Boot
  <2> QED BY <1>4, <2>4, Regions
<1>6. CASE x \in {<<"hdr", 1>>, <<"hdr", 2>>}
  <2>1. PICK d \in {1, 2} : x = Hdr(d) BY <1>6 DEF Hdr
  <2>2. x \in HdrT(d) BY <2>1, HdrCell DEF HdrT
  <2> QED BY <1>4, <2>2, Regions
<1>7. CASE x \in Magics
  <2>1. Overlap(Place(x), <<ArrayLba(c) * LbSize, 32 * LbSize>>) BY <1>4, TouchedIs DEF Whole
  <2>2. InArray(x) BY <2>1 DEF InArray, ArrayLba
  <2> QED BY <1>7, <2>2
<1>8. CASE x \in {"ent1", "ent2"} \X (0..(NumEntries - 1))
  <2>1. PICK d \in {1, 2} : \E j \in 0..(NumEntries - 1) : x = Ent(d, j) BY <1>8 DEF Ent
  <2>2. PICK j \in 0..(NumEntries - 1) : x = Ent(d, j) BY <2>1
  <2>3. x \in Whole(d) BY <2>2, EntIn
  <2>4. d = c BY <1>4, <2>3, Regions
  <2>5. j = k BY <1>0, <2>2, <2>4, EntSlot
  <2> QED BY <2>2, <2>4, <2>5
<1> QED BY <1>3, <1>5, <1>6, <1>7, <1>8 DEF FineCells, Magics

-----------------------------------------------------------------------------
(* Valid copies.                                                           *)

Indexes == 0..(NumEntries - 1)

\* A copy on device d with n entries, which lists the partitions of device o.
Copy(o, d, c, n) ==
    /\ d[Hdr(c)] = Header(n, SumOf(d, ArrayLba(c), n))
    /\ \A k \in Indexes : Used(o[Ent(c, k)]) => k < n /\ d[Ent(c, k)] = o[Ent(c, k)]
Good(o, d) == \A c \in {1, 2} : \E n \in Nat : Copy(o, d, c, n)
Unused0(o) == \A k \in Indexes : Used(o[Ent(1, k)]) \/ o[Ent(1, k)] = Zero

\* The device keeps what copy c was made of.
Old(o, d, c) == \A x \in Zone(c, NumEntries) : d[x] = o[x]

\* The sum depends on the array only.
LEMMA SumSame ==
    ASSUME NEW c \in {1, 2}, NEW n, NEW d, NEW f, \A x \in Array(c, n) : f[x] = d[x]
    PROVE  SumOf(f, ArrayLba(c), n) = SumOf(d, ArrayLba(c), n)
<1> DEFINE lba == ArrayLba(c)
           S == Touched(lba * LbSize, n * EntrySize)
<1>1. \A x \in S : f[x] = d[x] BY DEF Array
<1> HIDE DEF lba, S
<1>2. {x \in S : f[x] # Zero} = {x \in S : d[x] # Zero} BY <1>1
<1> DEFINE T == {x \in S : d[x] # Zero}
<1>3. {<<Place(x)[1] - lba * LbSize, f[x]>> : x \in T} = {<<Place(x)[1] - lba * LbSize, d[x]>> : x \in T}
  BY <1>1
<1> QED BY <1>2, <1>3 DEF SumOf, S, lba

\* A write elsewhere leaves a copy valid.
LEMMA CopyKept ==
    ASSUME NEW c \in {1, 2}, NEW n \in Nat, NEW o, NEW d, NEW f, Copy(o, d, c, n),
           \A x \in Zone(c, n) : f[x] = d[x]
    PROVE  Copy(o, f, c, n)
<1>1. SumOf(f, ArrayLba(c), n) = SumOf(d, ArrayLba(c), n) BY SumSame DEF Zone
<1>2. f[Hdr(c)] = d[Hdr(c)] BY DEF Zone
<1>3. ASSUME NEW k \in Indexes, Used(o[Ent(c, k)]) PROVE k < n /\ f[Ent(c, k)] = o[Ent(c, k)]
  <2>1. k < n /\ d[Ent(c, k)] = o[Ent(c, k)] BY <1>3 DEF Copy
  <2>2. k \in Nat /\ k \in 0..(NumEntries - 1) BY Grid DEF Indexes
  <2>3. Ent(c, k) \in Slot(c, k) BY <2>2, EntSlot
  <2>4. Ent(c, k) \in Array(c, n) BY <2>1, <2>2, <2>3, SlotInArray
  <2> QED BY <2>1, <2>4 DEF Zone
<1> QED BY <1>1, <1>2, <1>3 DEF Copy

\* The copies of a valid GPT.
LEMMA OrigCopy ==
    ASSUME NEW o, ValidGpt(o), NEW c \in {1, 2}
    PROVE  Copy(o, o, c, NumEntries)
<1>1. o[Hdr(c)] = Header(NumEntries, SumOf(o, ArrayLba(c), NumEntries)) BY DEF ValidGpt, Hdr, ArrayLba
<1>2. \A k \in Indexes : k < NumEntries BY Grid DEF Indexes
<1> QED BY <1>1, <1>2 DEF Copy

\* A device that keeps what a copy was made of has that copy.
LEMMA OldCopy ==
    ASSUME NEW o, ValidGpt(o), NEW d, NEW c \in {1, 2}, Old(o, d, c)
    PROVE  \E n \in Nat : Copy(o, d, c, n)
<1>1. Copy(o, o, c, NumEntries) /\ NumEntries \in Nat BY OrigCopy, Grid
<1>2. Copy(o, d, c, NumEntries) BY <1>1, CopyKept DEF Old
<1> QED BY <1>1, <1>2

-----------------------------------------------------------------------------
(* Shrinking the arrays.                                                   *)

\* What the embedding plans: the greatest used entry m, n entries that stay,
\* and the places of the halves of stage 2.
Plan(o, m, n, a, b) ==
    /\ m \in Nat \cup {-1} /\ n \in Nat /\ m < n /\ m < NumEntries /\ Fits(a, b) /\ Room(a, b, n)
    /\ \A k \in Indexes : Used(o[Ent(1, k)]) => k <= m

Bare(d) == \A x \in Magics : InArray(x) => d[x] = Zero
KeptEnts(o, d, m) == \A c \in {1, 2} : \A k \in Indexes : k <= m => d[Ent(c, k)] = o[Ent(1, k)]
Cleared(d, c, m, j) == \A k \in Nat : m < k /\ k < j => \A x \in Slot(c, k) : d[x] = Zero

\* The entries after m are zeroed up to j1 and j2.
Shrunk(o, d, m, j1, j2) ==
    KeptEnts(o, d, m) /\ Bare(d) /\ Cleared(d, 1, m, j1) /\ Cleared(d, 2, m, j2)

\* The sum of the entries up to m and nothing else.
Canon(o, m, n) ==
    <<n, {<<k * EntrySize, o[Ent(1, k)]>> : k \in {j \in Indexes : j <= m /\ o[Ent(1, j)] # Zero}}>>

\* Both arrays have that sum once they are shrunk.
LEMMA ShrunkSum ==
    ASSUME NEW o, NEW d, NEW m \in Nat \cup {-1}, NEW n \in Nat, m < n, m < NumEntries,
           NEW c \in {1, 2}, KeptEnts(o, d, m), Bare(d), Cleared(d, c, m, n)
    PROVE  SumOf(d, ArrayLba(c), n) = Canon(o, m, n)
<1> DEFINE lba == ArrayLba(c)
           N == {x \in Array(c, n) : d[x] # Zero}
           K == {j \in Indexes : j <= m /\ o[Ent(1, j)] # Zero}
           E(k) == Ent(c, k)
<1>0. \A k \in Indexes : k \in Nat BY Grid DEF Indexes
<1>1. ASSUME NEW x \in N PROVE \E k \in K : x = E(k)
  <2>1. PICK k \in Nat : k < n /\ x \in Slot(c, k) BY ArrayInSlot
  <2>2. ~(m < k) BY <2>1 DEF Cleared
  <2>3. k <= m /\ k \in Indexes BY <2>1, <2>2, Grid DEF Indexes
  <2>4. x = Ent(c, k) \/ (x \in Magics /\ InArray(x)) BY <2>1, <2>3, SlotCells DEF Indexes
  <2>5. x = Ent(c, k) BY <2>4 DEF Bare
  <2>6. d[x] = o[Ent(1, k)] BY <2>3, <2>5 DEF KeptEnts
  <2> QED BY <2>3, <2>5, <2>6
<1>2. ASSUME NEW k \in K PROVE E(k) \in N
  <2>1. k \in Indexes /\ k \in 0..(NumEntries - 1) /\ k \in Nat /\ k <= m BY <1>0 DEF Indexes
  <2>2. d[E(k)] = o[Ent(1, k)] BY <2>1 DEF KeptEnts
  <2>3. k < n BY <2>1
  <2>4. E(k) \in Slot(c, k) BY <2>1, EntSlot
  <2>5. E(k) \in Array(c, n) BY <2>1, <2>3, <2>4, SlotInArray
  <2> QED BY <2>2, <2>5
<1>3. ASSUME NEW k \in K PROVE Place(E(k))[1] - lba * LbSize = k * EntrySize /\ d[E(k)] = o[Ent(1, k)]
  <2>1. k \in Indexes /\ k \in 0..(NumEntries - 1) /\ k \in Nat /\ k <= m BY <1>0 DEF Indexes
  <2>2. Place(E(k))[1] = lba * LbSize + k * EntrySize BY <2>1, EntCell
  <2>3. lba * LbSize \in Nat /\ k * EntrySize \in Nat BY <2>1, ArrayNat
  <2>4. d[E(k)] = o[Ent(1, k)] BY <2>1 DEF KeptEnts
  <2> QED BY <2>2, <2>3, <2>4
<1> DEFINE F(x) == <<Place(x)[1] - lba * LbSize, d[x]>>
           G(k) == <<k * EntrySize, o[Ent(1, k)]>>
<1>4. \A k \in K : F(E(k)) = G(k) BY <1>3
<1> HIDE DEF N, K, E, F, G
<1>5. {F(x) : x \in N} = {G(k) : k \in K} BY <1>1, <1>2, <1>4
<1>6. SumOf(d, lba, n) = <<n, {F(x) : x \in N}>> BY DEF SumOf, F, N, Array, lba
<1>7. Canon(o, m, n) = <<n, {G(k) : k \in K}>> BY DEF Canon, G, K
<1> QED BY <1>5, <1>6, <1>7

\* A header with that sum makes a copy.
LEMMA NewCopy ==
    ASSUME NEW o, ValidGpt(o), NEW d, NEW m, NEW n, NEW a, NEW b, Plan(o, m, n, a, b), NEW c \in {1, 2},
           KeptEnts(o, d, m), Bare(d), Cleared(d, c, m, n), d[Hdr(c)] = Header(n, Canon(o, m, n))
    PROVE  Copy(o, d, c, n)
<1>1. /\ m \in Nat \cup {-1} /\ n \in Nat /\ m < n /\ m < NumEntries
      /\ \A k \in Indexes : Used(o[Ent(1, k)]) => k <= m
  BY DEF Plan
<1>2. SumOf(d, ArrayLba(c), n) = Canon(o, m, n) BY <1>1, ShrunkSum
<1>3. ASSUME NEW k \in Indexes, Used(o[Ent(c, k)]) PROVE k < n /\ d[Ent(c, k)] = o[Ent(c, k)]
  <2>1. o[Ent(c, k)] = o[Ent(1, k)] BY DEF ValidGpt, Ent, Indexes
  <2>2. k <= m BY <1>1, <1>3, <2>1
  <2>3. k \in Int BY Grid DEF Indexes
  <2> QED BY <1>1, <2>1, <2>2, <2>3 DEF KeptEnts
<1> QED BY <1>2, <1>3 DEF Copy

\* The entries that stay fit the blocks of the array.
LEMMA PlanFits ==
    ASSUME NEW o, NEW m, NEW n, NEW a, NEW b, Plan(o, m, n, a, b)
    PROVE  n \in Nat /\ n * EntrySize \in Nat /\ n * EntrySize <= 32 * LbSize
<1> DEFINE e == EntryLba1 * LbSize
           t == 32 * LbSize
           z == n * EntrySize
<1>1. n \in Nat /\ a = e + z /\ a + size_a <= (EntryLba1 + 32) * LbSize BY DEF Plan, Room
<1>2. e \in Nat /\ t \in Nat /\ z \in Nat /\ (EntryLba1 + 32) * LbSize = e + t /\ size_a \in Nat
  BY <1>1, Grid, Halves
<1> HIDE DEF e, t, z
<1>3. z <= t BY <1>1, <1>2
<1> QED BY <1>1, <1>2, <1>3 DEF t, z

\* A write changes the cells it touches and no other, on any device.
LEMMA PatchedAt ==
    ASSUME NEW p, NEW S, DOMAIN p = S, NEW d, NEW x \in Cells
    PROVE  /\ x \in S => Apply(p, d)[x] = p[x]
           /\ x \notin S => Apply(p, d)[x] = d[x]
BY DEF Apply

\* The cells of the regions are cells.
LEMMA RegionCells ==
    ASSUME NEW loc, NEW count
    PROVE  Touched(loc, count) \subseteq Cells
BY TouchedIs

ZeroWrite(c, j) == Fill(ArrayLba(c) * LbSize + j * EntrySize, EntrySize, Zero)
ZeroSays(o, d, f, m, c, j) ==
    /\ KeptEnts(o, d, m) => KeptEnts(o, f, m)
    /\ Bare(d) => Bare(f)
    /\ \A c2 \in {1, 2}, q \in Nat : Cleared(d, c2, m, q) => Cleared(f, c2, m, q)
    /\ Cleared(d, c, m, j) => Cleared(f, c, m, j + 1)
    /\ Unused0(o) => \A c2 \in {1, 2} : Old(o, d, c2) => Old(o, f, c2)

\* Zeroing an unused entry of one array: the used ones stay in both, what was
\* zeroed stays so, and where it was zero before nothing changes.
LEMMA ZeroStep ==
    ASSUME NEW o, ValidGpt(o), NEW d, NEW m, NEW n, NEW a, NEW b, Plan(o, m, n, a, b),
           NEW c \in {1, 2}, NEW j \in Nat, m < j, j < n
    PROVE  ZeroSays(o, d, Apply(ZeroWrite(c, j), d), m, c, j)
<1> DEFINE p == ZeroWrite(c, j)
           f == Apply(p, d)
<1>1. DOMAIN p = Slot(c, j) /\ \A x \in Slot(c, j) : p[x] = Zero BY DEF ZeroWrite, Fill, Slot
<1> HIDE DEF p
<1>2. \A x \in Cells : f[x] = IF x \in Slot(c, j) THEN Zero ELSE d[x]
  BY <1>1, PatchedAt
<1> HIDE DEF f
<1>3. /\ n \in Nat /\ n * EntrySize <= 32 * LbSize /\ m \in Nat \cup {-1} /\ m < NumEntries
      /\ \A k \in Indexes : Used(o[Ent(1, k)]) => k <= m
  BY PlanFits DEF Plan
<1>4. Slot(c, j) \subseteq Whole(c) BY <1>3, SlotInArray, InWhole
<1>5. ASSUME NEW c2 \in {1, 2}, NEW k \in Indexes, Ent(c2, k) \in Slot(c, j) PROVE k = j /\ c2 = c
  <2>1. Ent(c2, k) \in Whole(c2) BY EntIn DEF Indexes
  <2>2. c2 = c BY <1>4, <1>5, <2>1, Regions
  <2> QED BY <1>5, <2>2, EntSlot DEF Indexes
<1>6. KeptEnts(o, d, m) => KeptEnts(o, f, m)
  <2> SUFFICES ASSUME KeptEnts(o, d, m), NEW c2 \in {1, 2}, NEW k \in Indexes, k <= m
               PROVE  f[Ent(c2, k)] = o[Ent(1, k)]
    BY DEF KeptEnts
  <2>1. k \in Nat BY Grid DEF Indexes
  <2>2. Ent(c2, k) \notin Slot(c, j) BY <1>3, <1>5, <2>1
  <2>3. Ent(c2, k) \in Cells BY EntCell DEF Indexes
  <2> QED BY <1>2, <2>2, <2>3 DEF KeptEnts
<1>7. Bare(d) => Bare(f) BY <1>2, MagicIn DEF Bare
<1>8. ASSUME NEW c2 \in {1, 2}, NEW q \in Nat, Cleared(d, c2, m, q) PROVE Cleared(f, c2, m, q)
  <2>1. \A k \in Nat : Slot(c2, k) \subseteq Cells BY RegionCells DEF Slot
  <2> QED BY <1>2, <1>8, <2>1 DEF Cleared
<1>9. Cleared(d, c, m, j) => Cleared(f, c, m, j + 1)
  <2>1. \A k \in Nat : Slot(c, k) \subseteq Cells BY RegionCells DEF Slot
  <2>2. \A k \in Nat : k < j + 1 => k < j \/ k = j OBVIOUS
  <2> QED BY <1>2, <2>1, <2>2 DEF Cleared
<1>10. ASSUME Unused0(o), NEW c2 \in {1, 2}, Old(o, d, c2) PROVE Old(o, f, c2)
  <2> SUFFICES ASSUME NEW x \in Zone(c2, NumEntries) PROVE f[x] = o[x] BY DEF Old
  <2>1. x \in Cells BY HdrCell, RegionCells DEF Zone, Array
  <2>2. d[x] = o[x] BY <1>10 DEF Old
  <2>3. CASE x \notin Slot(c, j) BY <1>2, <2>1, <2>2, <2>3
  <2>4. CASE x \in Slot(c, j)
    <3>1. x # Hdr(c2)
      <4>1. Hdr(c2) \in HdrT(c2) BY HdrCell DEF HdrT
      <4> QED BY <1>4, <2>4, <4>1, Regions
    <3>2. x \in Array(c2, NumEntries) BY <3>1 DEF Zone
    <3>3. PICK k \in Nat : k < NumEntries /\ x \in Slot(c2, k) BY <3>2, ArrayInSlot, Grid
    <3>4. k \in Indexes BY <3>3, Grid DEF Indexes
    <3>5. x = Ent(c2, k) \/ (x \in Magics /\ InArray(x)) BY <3>3, <3>4, SlotCells DEF Indexes
    <3>6. o[x] = Zero
      <4>1. CASE x \in Magics /\ InArray(x) BY <4>1 DEF ValidGpt, Magics
      <4>2. CASE x = Ent(c2, k)
        <5>1. k = j BY <1>5, <2>4, <3>4, <4>2
        <5>2. ~(k <= m) BY <1>3, <5>1
        <5>3. o[Ent(1, k)] = Zero BY <1>3, <1>10, <3>4, <5>2 DEF Unused0
        <5>4. o[Ent(c2, k)] = o[Ent(1, k)] BY <3>4 DEF ValidGpt, Ent, Indexes
        <5> QED BY <4>2, <5>3, <5>4
      <4> QED BY <3>5, <4>1, <4>2
    <3> QED BY <1>2, <2>1, <2>4, <3>6
  <2> QED BY <2>3, <2>4
<1>11. ZeroSays(o, d, f, m, c, j) BY <1>6, <1>7, <1>8, <1>9, <1>10 DEF ZeroSays
<1> QED BY <1>11 DEF f, p

\* Writing a header leaves the arrays and the other header alone.
LEMMA HdrStep ==
    ASSUME NEW c \in {1, 2}, NEW h, NEW d, NEW f, f = Apply(SetCell(Hdr(c), h), d)
    PROVE  /\ f[Hdr(c)] = h
           /\ \A c2 \in {1, 2} : c2 # c => f[Hdr(c2)] = d[Hdr(c2)]
           /\ \A c2 \in {1, 2} : \A x \in Whole(c2) : f[x] = d[x]
<1> DEFINE p == SetCell(Hdr(c), h)
<1>1. DOMAIN p = HdrT(c) /\ \A x \in HdrT(c) : p[x] = h
  <2>1. Place(Hdr(c)) = <<HdrLba(c) * LbSize, 96>> BY HdrCell
  <2> QED BY <2>1 DEF SetCell, Fill, HdrT
<1> HIDE DEF p
<1>2. \A x \in Cells : f[x] = IF x \in HdrT(c) THEN h ELSE d[x] BY <1>1, PatchedAt DEF p
<1>3. \A c2 \in {1, 2} : Hdr(c2) \in Cells /\ Hdr(c2) \in HdrT(c2) BY HdrCell DEF HdrT
<1>4. \A c2 \in {1, 2} : c2 # c => Hdr(c2) \notin HdrT(c) BY <1>3, Regions
<1>5. \A c2 \in {1, 2} : \A x \in Whole(c2) : x \in Cells /\ x \notin HdrT(c)
  <2>1. \A c2 \in {1, 2} : Whole(c2) \subseteq Cells BY RegionCells DEF Whole
  <2> QED BY <2>1, Regions
<1> QED BY <1>2, <1>3, <1>4, <1>5

\* What is said of the arrays depends on the arrays only.
LEMMA ShrunkSame ==
    ASSUME NEW o, NEW d, NEW f, \A c \in {1, 2} : \A x \in Whole(c) : f[x] = d[x],
           NEW m \in Nat \cup {-1}, NEW n \in Nat, n * EntrySize <= 32 * LbSize, Shrunk(o, d, m, n, n)
    PROVE  Shrunk(o, f, m, n, n)
<1>1. KeptEnts(o, f, m)
  <2>1. \A c \in {1, 2} : \A k \in Indexes : f[Ent(c, k)] = d[Ent(c, k)] BY EntIn DEF Indexes
  <2> QED BY <2>1 DEF Shrunk, KeptEnts
<1>2. Bare(f) BY MagicIn DEF Shrunk, Bare
<1>3. ASSUME NEW c \in {1, 2}, Cleared(d, c, m, n) PROVE Cleared(f, c, m, n)
  <2>1. \A k \in Nat : k < n => Slot(c, k) \subseteq Whole(c) BY SlotInArray, InWhole
  <2> QED BY <1>3, <2>1 DEF Cleared
<1> QED BY <1>1, <1>2, <1>3 DEF Shrunk

\* Nor does what a copy was made of change with the other header.
LEMMA OldSame ==
    ASSUME NEW o, NEW d, NEW f, NEW c \in {1, 2}, f[Hdr(c)] = d[Hdr(c)], \A x \in Whole(c) : f[x] = d[x],
           Old(o, d, c)
    PROVE  Old(o, f, c)
<1>1. Array(c, NumEntries) \subseteq Whole(c) BY InWhole, Grid
<1> QED BY <1>1 DEF Old, Zone

-----------------------------------------------------------------------------
(* Stage 2 and the copies.                                                 *)

\* Neither half of stage 2 reaches a copy with n entries.
Safe(a, b, n) ==
    \A c \in {1, 2} : Zone(c, n) \cap (Touched(a, size_a) \cup Touched(b, stage2_size - size_a)) = {}

\* Both copies are valid and stay so when stage 2 is written.
Ready(o, d, a, b) ==
    \E n \in Nat : n * EntrySize <= 32 * LbSize /\ Safe(a, b, n) /\ Copy(o, d, 1, n) /\ Copy(o, d, 2, n)

\* A range apart from the headers and from n entries of both arrays.
LEMMA ClearRange ==
    ASSUME NEW x \in Nat, NEW s \in Nat, NEW n \in Nat,
           Apart(x, s, LbSize, 96), Apart(x, s, LastLba * LbSize, 96),
           Apart(x, s, EntryLba1 * LbSize, n * EntrySize), Apart(x, s, EntryLba2 * LbSize, n * EntrySize)
    PROVE  \A c \in {1, 2} : Zone(c, n) \cap Touched(x, s) = {}
<1> SUFFICES ASSUME NEW c \in {1, 2} PROVE Zone(c, n) \cap Touched(x, s) = {} OBVIOUS
<1> DEFINE l == LastLba * LbSize
           e1 == EntryLba1 * LbSize
           e2 == EntryLba2 * LbSize
           z == n * EntrySize
<1>1. LbSize \in Nat /\ l \in Nat /\ e1 \in Nat /\ e2 \in Nat /\ z \in Nat /\ 1 * LbSize = LbSize BY Grid
<1>2. Hdr(c) \in Touched(HdrLba(c) * LbSize, 96) BY HdrCell
<1> HIDE DEF l, e1, e2, z
<1>3. Touched(x, s) \cap Touched(LbSize, 96) = {} BY <1>1, ApartTouch
<1>4. Touched(x, s) \cap Touched(l, 96) = {} BY <1>1, ApartTouch DEF l
<1>5. Touched(x, s) \cap Touched(e1, z) = {} BY <1>1, ApartTouch DEF e1, z
<1>6. Touched(x, s) \cap Touched(e2, z) = {} BY <1>1, ApartTouch DEF e2, z
<1>7. Hdr(c) \notin Touched(x, s) BY <1>1, <1>2, <1>3, <1>4 DEF HdrLba, l
<1>8. Array(c, n) \cap Touched(x, s) = {} BY <1>5, <1>6 DEF Array, ArrayLba, e1, e2, z
<1> QED BY <1>7, <1>8 DEF Zone

\* The places in the arrays.
LEMMA SafePlan ==
    ASSUME NEW o, NEW m, NEW n, NEW a, NEW b, Plan(o, m, n, a, b)
    PROVE  Safe(a, b, n)
<1> DEFINE l == LastLba * LbSize
           e1 == EntryLba1 * LbSize
           e2 == EntryLba2 * LbSize
           z == n * EntrySize
           t == 32 * LbSize
           r == stage2_size - size_a
<1>1. /\ LbSize \in Nat /\ LbSize >= 512 /\ l \in Nat /\ e1 \in Nat /\ e2 \in Nat /\ t \in Nat
      /\ 2 * LbSize <= e1 /\ e1 + t <= e2 /\ e2 + t <= l
      /\ EntryLba1 \in Nat /\ EntryLba2 \in Nat /\ LastLba \in Nat
      /\ (EntryLba1 + 32) * LbSize = e1 + t /\ (EntryLba2 + 32) * LbSize = e2 + t
  BY Grid
<1>2. n \in Nat /\ z \in Nat /\ z <= t BY PlanFits
<1>3. /\ a \in Nat /\ b \in Nat /\ a = e1 + z /\ b >= e2 + z
      /\ a + size_a <= e1 + t /\ b + size_b <= e2 + t
  BY <1>1 DEF Plan, Fits, Room
<1>4. size_a \in Nat /\ size_b \in Nat /\ r \in Nat /\ r <= size_b BY Halves
<1>5. PICK p \in Nat : a = p * LbSize BY DEF Plan, Room
<1>6. PICK q \in Nat : b = q * LbSize BY DEF Plan, Room
<1>7. 2 \in Nat /\ LbSize + 96 <= 2 * LbSize BY <1>1
<1> HIDE DEF l, e1, e2, z, t, r
<1>8. Apart(a, size_a, LbSize, 96)
  <2>1. 2 * LbSize <= a BY <1>1, <1>2, <1>3
  <2> QED BY <1>7, <2>1 DEF Apart
<1>9. Apart(a, size_a, l, 96)
  <2>1. a + size_a <= LastLba * LbSize BY <1>1, <1>3, <1>4 DEF l
  <2> QED BY <1>1, <2>1 DEF Apart, l
<1>10. Apart(a, size_a, e1, z) BY <1>1, <1>2, <1>3, <1>5 DEF Apart
<1>11. Apart(a, size_a, e2, z)
  <2>1. a + size_a <= EntryLba2 * LbSize BY <1>1, <1>3, <1>4 DEF e2
  <2> QED BY <1>1, <2>1 DEF Apart, e2
<1>12. Apart(b, r, LbSize, 96)
  <2>1. 2 * LbSize <= b BY <1>1, <1>2, <1>3
  <2> QED BY <1>7, <2>1 DEF Apart
<1>13. Apart(b, r, l, 96)
  <2>1. b + r <= LastLba * LbSize BY <1>1, <1>3, <1>4 DEF l
  <2> QED BY <1>1, <2>1 DEF Apart, l
<1>14. Apart(b, r, e1, z)
  <2>1. e1 + z <= q * LbSize /\ q * LbSize <= b BY <1>1, <1>2, <1>3, <1>6
  <2> QED BY <1>6, <2>1 DEF Apart
<1>15. Apart(b, r, e2, z)
  <2>1. e2 + z <= q * LbSize /\ q * LbSize <= b BY <1>1, <1>2, <1>3, <1>6
  <2> QED BY <1>6, <2>1 DEF Apart
<1>16. \A c \in {1, 2} : Zone(c, n) \cap Touched(a, size_a) = {}
  BY <1>2, <1>3, <1>4, <1>8, <1>9, <1>10, <1>11, ClearRange DEF l, e1, e2, z
<1>17. \A c \in {1, 2} : Zone(c, n) \cap Touched(b, r) = {}
  BY <1>2, <1>3, <1>4, <1>12, <1>13, <1>14, <1>15, ClearRange DEF l, e1, e2, z
<1> QED BY <1>16, <1>17 DEF Safe, r

\* A range between the arrays, or behind the second header.
LEMMA ClearBetween ==
    ASSUME NEW x \in Nat, NEW s \in Nat, (EntryLba1 + 32) * LbSize <= x,
           x + s <= EntryLba2 * LbSize \/ (LastLba + 1) * LbSize <= x
    PROVE  \A c \in {1, 2} : Zone(c, NumEntries) \cap Touched(x, s) = {}
<1> DEFINE l == LastLba * LbSize
           e1 == EntryLba1 * LbSize
           e2 == EntryLba2 * LbSize
           z == NumEntries * EntrySize
           t == 32 * LbSize
<1>1. /\ LbSize \in Nat /\ LbSize >= 512 /\ l \in Nat /\ e1 \in Nat /\ e2 \in Nat /\ t \in Nat
      /\ 2 * LbSize <= e1 /\ e1 + t <= e2 /\ e2 + t <= l /\ z \in Nat /\ z <= t /\ NumEntries \in Nat
      /\ EntryLba1 \in Nat /\ EntryLba2 \in Nat /\ LastLba \in Nat
      /\ (EntryLba1 + 32) * LbSize = e1 + t /\ (LastLba + 1) * LbSize = l + LbSize
  BY Grid
<1>2. 2 \in Nat /\ LbSize + 96 <= 2 * LbSize /\ LastLba + 1 \in Nat /\ EntryLba1 + 32 \in Nat BY <1>1
<1>3. e1 + t <= x /\ (x + s <= e2 \/ l + LbSize <= x) BY <1>1
<1> HIDE DEF l, e1, e2, z, t
<1>4. Apart(x, s, LbSize, 96)
  <2>1. 2 * LbSize <= x BY <1>1, <1>3
  <2> QED BY <1>2, <2>1 DEF Apart
<1>5. Apart(x, s, l, 96)
  <2>1. CASE x + s <= e2
    <3>1. x + s <= LastLba * LbSize BY <1>1, <2>1 DEF l
    <3> QED BY <1>1, <3>1 DEF Apart, l
  <2>2. CASE l + LbSize <= x
    <3>1. l + 96 <= (LastLba + 1) * LbSize /\ (LastLba + 1) * LbSize <= x BY <1>1, <2>2
    <3> QED BY <1>2, <3>1 DEF Apart
  <2> QED BY <1>3, <2>1, <2>2
<1>6. Apart(x, s, e1, z)
  <2>1. e1 + z <= (EntryLba1 + 32) * LbSize /\ (EntryLba1 + 32) * LbSize <= x BY <1>1, <1>3
  <2> QED BY <1>2, <2>1 DEF Apart
<1>7. Apart(x, s, e2, z)
  <2>1. CASE x + s <= e2 BY <1>1, <2>1 DEF Apart, e2
  <2>2. CASE l + LbSize <= x
    <3>1. e2 + z <= LastLba * LbSize /\ LastLba * LbSize <= x BY <1>1, <2>2 DEF l
    <3> QED BY <1>1, <3>1 DEF Apart
  <2> QED BY <1>3, <2>1, <2>2
<1> QED BY <1>1, <1>4, <1>5, <1>6, <1>7, ClearRange DEF l, e1, e2, z

\* The next block edge is less than a block away.
LEMMA NearEdge ==
    ASSUME NEW x \in Nat
    PROVE  (IF x % LbSize = 0 THEN x ELSE AlignDown(x + LbSize, LbSize)) <= x + LbSize
<1>1. LbSize \in Nat \ {0} /\ x + LbSize \in Int BY Multiples
<1> DEFINE y == x + LbSize
<1> HIDE DEF y
<1>2. AlignDown(y, LbSize) = (y \div LbSize) * LbSize /\ (y \div LbSize) * LbSize <= y
  BY <1>1, Aligned DEF y
<1>3. AlignDown(y, LbSize) <= y BY <1>2
<1> QED BY <1>1, <1>3 DEF y

\* The places in a partition.
LEMMA SafePartition ==
    ASSUME NEW e, Sound(e), ~TooSmall(e)
    PROVE  LET loc == e[3] * LbSize
               rest == loc + size_a
               b == IF rest % LbSize = 0 THEN rest ELSE AlignDown(rest + LbSize, LbSize)
           IN  Safe(loc, b, NumEntries)
<1> DEFINE first == e[3]
           last == e[4]
           loc == first * LbSize
           rest == loc + size_a
           b == IF rest % LbSize = 0 THEN rest ELSE AlignDown(rest + LbSize, LbSize)
           r == stage2_size - size_a
           size == (last - first + 1) * LbSize
<1>0. /\ LbSize \in Nat /\ EntryLba1 \in Nat /\ EntryLba2 \in Nat /\ LastLba \in Nat
      /\ EntryLba1 + 32 \in Nat /\ LastLba + 1 \in Nat
  BY Grid
<1>1. /\ first \in Nat /\ last \in Nat /\ EntryLba1 + 32 <= first /\ first <= last
      /\ last < EntryLba2 \/ LastLba < first
  BY DEF Sound
<1>2. ~(size < 32768) BY DEF TooSmall
<1> HIDE DEF first, last
<1>3. (EntryLba1 + 32) * LbSize <= loc /\ loc \in Nat /\ (EntryLba1 + 32) * LbSize \in Nat
  BY <1>0, <1>1, BlockOrder
<1>4. /\ size_a \in Nat /\ r \in Nat /\ stage2_size \in Nat /\ size_a <= stage2_size
      /\ r = stage2_size - size_a
  BY Halves
<1>5. stage2_size + LbSize <= 32768 BY GptAssumption
<1>6. size \in Int /\ size >= 32768 BY <1>0, <1>1, <1>2
<1>7. (last + 1) * LbSize = loc + size
  <2>1. last + 1 = first + (last - first + 1) /\ last - first + 1 \in Int BY <1>1
  <2> QED BY <1>0, <1>1, <2>1
<1>8. LastLba < first => (LastLba + 1) * LbSize <= loc BY <1>0, <1>1, BlockOrder
<1>9. last < EntryLba2 => (last + 1) * LbSize <= EntryLba2 * LbSize /\ EntryLba2 * LbSize \in Nat
  BY <1>0, <1>1, BlockOrder
<1> HIDE DEF loc, size, r
<1>10. rest \in Nat /\ rest = loc + size_a BY <1>3, <1>4
<1> HIDE DEF rest
<1>11. b \in Nat /\ rest <= b /\ b <= rest + LbSize BY <1>10, NextEdge, NearEdge
<1> HIDE DEF b
<1>12. b + r <= loc + 32768 /\ loc + size_a <= loc + 32768 /\ loc <= b
  BY <1>0, <1>3, <1>4, <1>5, <1>10, <1>11
<1>13. last < EntryLba2 => b + r <= EntryLba2 * LbSize /\ loc + size_a <= EntryLba2 * LbSize
  BY <1>3, <1>4, <1>6, <1>7, <1>9, <1>11, <1>12
<1>14. (LastLba + 1) * LbSize \in Nat BY <1>0, BlockOrder
<1>15. LastLba < first => (LastLba + 1) * LbSize <= b BY <1>3, <1>8, <1>11, <1>12, <1>14
<1>16. \A c \in {1, 2} : Zone(c, NumEntries) \cap Touched(loc, size_a) = {}
  BY <1>1, <1>3, <1>4, <1>8, <1>13, ClearBetween
<1>17. (EntryLba1 + 32) * LbSize <= b BY <1>3, <1>11, <1>12
<1>18. \A c \in {1, 2} : Zone(c, NumEntries) \cap Touched(b, r) = {}
  BY <1>1, <1>4, <1>11, <1>13, <1>15, <1>17, ClearBetween
<1>19. Safe(loc, b, NumEntries) BY <1>16, <1>18 DEF Safe, r
<1> QED BY <1>19 DEF b, rest, loc, first

\* A write to the boot sector or of a half of stage 2.
LEMMA ReadyKept ==
    ASSUME NEW o, NEW d, NEW a, NEW b, Ready(o, d, a, b), NEW p,
           \/ DOMAIN p \subseteq Boot
           \/ DOMAIN p = Touched(a, size_a)
           \/ DOMAIN p = Touched(b, stage2_size - size_a)
    PROVE  Ready(o, Apply(p, d), a, b)
<1>1. PICK n \in Nat : /\ n * EntrySize <= 32 * LbSize /\ Safe(a, b, n)
                       /\ Copy(o, d, 1, n) /\ Copy(o, d, 2, n)
  BY DEF Ready
<1>2. ASSUME NEW c \in {1, 2} PROVE Zone(c, n) \subseteq Cells /\ Zone(c, n) \cap Boot = {}
  <2>1. Array(c, n) \subseteq Whole(c) BY <1>1, InWhole
  <2>2. Hdr(c) \in HdrT(c) /\ Hdr(c) \in Cells BY HdrCell DEF HdrT
  <2>3. Whole(c) \subseteq Cells BY RegionCells DEF Whole
  <2> QED BY <2>1, <2>2, <2>3, Regions DEF Zone
<1>3. \A c \in {1, 2} : Zone(c, n) \cap DOMAIN p = {} BY <1>1, <1>2 DEF Safe
<1>4. \A c \in {1, 2} : \A x \in Zone(c, n) : Apply(p, d)[x] = d[x] BY <1>2, <1>3, PatchedAt
<1>5. Copy(o, Apply(p, d), 1, n) /\ Copy(o, Apply(p, d), 2, n) BY <1>1, <1>4, CopyKept
<1> QED BY <1>1, <1>5 DEF Ready

-----------------------------------------------------------------------------
(* The inductive invariant.                                                *)

Signed(o) == HasSignature(o[Hdr(1)]) /\ HasSignature(o[Hdr(2)])
ShrinkPcs == {"zero1", "zero2", "header1", "header2"}
LastPcs == {"save", "write", "flush", "installed"}

\* What device d and locals w hold at step p, loop index j, of an install on a
\* device that was o.  Where the unused entries were zero, a copy is as it was
\* until its header is written.
StageOf(o, d, p, j, w) ==
    /\ p \notin MbrPcs
    /\ p \in Untouched => w.gpt /\ w.header1 = o[Hdr(1)]
    /\ p \in ShrinkPcs => Plan(o, w.max_used, w.new_count, w.loc_a, w.loc_b)
    /\ p = "zero1" => j \in Nat /\ w.max_used < j /\ j < w.new_count
                      /\ Shrunk(o, d, w.max_used, j, w.max_used + 1)
    /\ p = "zero2" => j \in Nat /\ w.max_used < j /\ j < w.new_count
                      /\ Shrunk(o, d, w.max_used, w.new_count, j)
    /\ p \in {"header1", "header2"} => Shrunk(o, d, w.max_used, w.new_count, w.new_count)
    /\ p = "header2" => /\ w.header1 = Header(w.new_count, Canon(o, w.max_used, w.new_count))
                        /\ d[Hdr(1)] = w.header1
    /\ Unused0(o) => /\ p \in {"zero1", "zero2", "header1"} => Old(o, d, 1)
                     /\ p \in ShrinkPcs => Old(o, d, 2)
    /\ p \in LastPcs => Ready(o, d, w.loc_a, w.loc_b)

\* Device d came from valid contents by the writes in log l, and putting the
\* entries back passes through them again.
Trail(o, l, d) ==
    \E h : /\ h[Len(l) + 1] = d
           /\ \A k \in 1..(Len(l) + 1) : Good(o, h[k])
           /\ \A k \in 1..Len(l) : h[k] = Apply(l[k], h[k + 1])

GptInv ==
    Signed(orig) /\ ~v.converting =>
        StageOf(orig, view, pc, i, v) /\ (Unused0(orig) /\ ~failed => Trail(orig, log, view))

\* The command line is the one the install started with.
Asked == \E s \in Starts : orig = s[1] /\ opts = s[2]

-----------------------------------------------------------------------------
(* The trail.                                                              *)

\* The device before the first write.
LEMMA TrailStart == ASSUME NEW o, Good(o, o) PROVE Trail(o, <<>>, o)
<1> DEFINE h == [k \in {1} |-> o]
<1>1. Len(<<>>) = 0 OBVIOUS
<1>2. h[1] = o OBVIOUS
<1> HIDE DEF h
<1>3. /\ h[Len(<<>>) + 1] = o
      /\ \A k \in 1..(Len(<<>>) + 1) : Good(o, h[k])
      /\ \A k \in 1..Len(<<>>) : h[k] = Apply(<<>>[k], h[k + 1])
  <2>1. \A k \in 1..1 : k = 1 OBVIOUS
  <2> QED BY <1>1, <1>2, <2>1
<1> QED BY <1>3 DEF Trail

\* The device it leads to is valid.
LEMMA TrailGood == ASSUME NEW o, NEW l, IsSeq(l), NEW d, Trail(o, l, d) PROVE Good(o, d)
<1>1. Len(l) \in Nat BY DEF IsSeq
<1>2. PICK h : h[Len(l) + 1] = d /\ \A k \in 1..(Len(l) + 1) : Good(o, h[k]) BY DEF Trail
<1> QED BY <1>1, <1>2

\* A logged write.
LEMMA TrailWrite ==
    ASSUME NEW o, NEW l, IsSeq(l), NEW d, d = [c \in Cells |-> d[c]], Trail(o, l, d),
           NEW p, NEW q, q = [a \in DOMAIN p |-> d[a]], Good(o, Apply(p, d))
    PROVE  Trail(o, Append(l, q), Apply(p, d))
<1> DEFINE n == Len(l)
           f == Apply(p, d)
           s == Append(l, q)
<1>1. /\ n \in Nat /\ Len(s) = n + 1 /\ s[n + 1] = q
      /\ \A k \in 1..n : s[k] = l[k]
  BY Appended, Zenon
<1>2. PICK h : /\ h[n + 1] = d /\ \A k \in 1..(n + 1) : Good(o, h[k])
               /\ \A k \in 1..n : h[k] = Apply(l[k], h[k + 1])
  BY DEF Trail
<1>3. Apply(q, f) = d
  <2>1. \A a \in Cells : Apply(q, f)[a] = d[a] BY DEF Apply
  <2>2. Apply(q, f) = [a \in Cells |-> Apply(q, f)[a]] BY DEF Apply
  <2> QED BY <2>1, <2>2
<1> DEFINE g == [k \in 1..(n + 2) |-> IF k = n + 2 THEN f ELSE h[k]]
<1> HIDE DEF n, f, s
<1>4. g[n + 2] = f /\ \A k \in 1..(n + 1) : g[k] = h[k] BY <1>1
<1> HIDE DEF g
<1>5. Good(o, f) BY DEF f
<1>6. \A k \in 1..(n + 2) : Good(o, g[k])
  <2>1. \A k \in 1..(n + 2) : k = n + 2 \/ k \in 1..(n + 1) BY <1>1
  <2> QED BY <1>2, <1>4, <1>5, <2>1
<1>7. ASSUME NEW k \in 1..(n + 1) PROVE g[k] = Apply(s[k], g[k + 1])
  <2>1. CASE k = n + 1
    <3>1. g[k] = d /\ g[k + 1] = f /\ s[k] = q BY <1>1, <1>2, <1>4, <2>1
    <3> QED BY <1>3, <3>1
  <2>2. CASE k # n + 1
    <3>1. k \in 1..n /\ k + 1 \in 1..(n + 1) BY <1>1, <2>2
    <3>2. g[k] = h[k] /\ g[k + 1] = h[k + 1] /\ s[k] = l[k] BY <1>1, <1>4, <3>1
    <3> QED BY <1>2, <3>1, <3>2
  <2> QED BY <2>1, <2>2
<1>8. Len(s) + 1 = n + 2 /\ 1..Len(s) = 1..(n + 1) BY <1>1
<1>9. Trail(o, s, f) BY <1>4, <1>6, <1>7, <1>8 DEF Trail
<1> QED BY <1>9 DEF s, f

\* An entry goes back.
LEMMA TrailUndo ==
    ASSUME NEW o, NEW l, IsSeq(l), l # <<>>, NEW d, Trail(o, l, d)
    PROVE  Trail(o, SubSeq(l, 1, Len(l) - 1), Apply(l[Len(l)], d))
<1> DEFINE n == Len(l)
           s == SubSeq(l, 1, n - 1)
           f == Apply(l[n], d)
<1>1. /\ n \in Nat \ {0} /\ Len(s) = n - 1 /\ \A k \in 1..(n - 1) : s[k] = l[k]
  BY Popped, Zenon
<1>2. PICK h : /\ h[n + 1] = d /\ \A k \in 1..(n + 1) : Good(o, h[k])
               /\ \A k \in 1..n : h[k] = Apply(l[k], h[k + 1])
  BY DEF Trail
<1> HIDE DEF n, s
<1>3. h[n] = f BY <1>1, <1>2
<1> HIDE DEF f
<1>4. Len(s) + 1 = n /\ Len(s) = n - 1 BY <1>1
<1>5. \A k \in 1..n : Good(o, h[k]) BY <1>1, <1>2
<1>6. \A k \in 1..(n - 1) : h[k] = Apply(s[k], h[k + 1]) BY <1>1, <1>2
<1>7. Trail(o, s, f) BY <1>3, <1>4, <1>5, <1>6 DEF Trail
<1> QED BY <1>7 DEF s, f, n

-----------------------------------------------------------------------------
(* What a step must show.                                                  *)

\* A signed disk has a valid GPT.
LEMMA SignedValid ==
    ASSUME Base, Signed(orig) PROVE ValidGpt(orig)
BY GptAssumption DEF Base, Signed, Hdr

\* Where the unused entries were zero, every stage has valid contents.
LEMMA StageGood ==
    ASSUME NEW o, ValidGpt(o), Unused0(o), NEW d, NEW p, NEW j, NEW w, StageOf(o, d, p, j, w),
           p \in ShrinkPcs \cup LastPcs
    PROVE  Good(o, d)
<1>1. CASE p \in {"zero1", "zero2", "header1"}
  <2>1. Old(o, d, 1) /\ Old(o, d, 2) BY <1>1 DEF StageOf, ShrinkPcs
  <2> QED BY <2>1, OldCopy DEF Good
<1>2. CASE p = "header2"
  <2> DEFINE m == w.max_used
             n == w.new_count
  <2>1. /\ Plan(o, m, n, w.loc_a, w.loc_b) /\ Shrunk(o, d, m, n, n) /\ Old(o, d, 2)
        /\ d[Hdr(1)] = Header(n, Canon(o, m, n))
    BY <1>2 DEF StageOf, ShrinkPcs
  <2>2. Copy(o, d, 1, n) BY <2>1, NewCopy DEF Shrunk
  <2>3. n \in Nat BY <2>1 DEF Plan
  <2>4. \E k \in Nat : Copy(o, d, 2, k) BY <2>1, OldCopy
  <2> QED BY <2>2, <2>3, <2>4 DEF Good
<1>3. CASE p \in LastPcs BY <1>3 DEF StageOf, Ready, Good
<1> QED BY <1>1, <1>2, <1>3 DEF ShrinkPcs

\* A stage of which nothing is said.
LEMMA StageOver ==
    ASSUME NEW o, NEW d, NEW p, NEW j, NEW w, p \notin MbrPcs \cup Untouched \cup ShrinkPcs \cup LastPcs
    PROVE  StageOf(o, d, p, j, w)
BY DEF StageOf, ShrinkPcs, LastPcs

\* A step that writes nothing.
LEMMA GptQuiet ==
    ASSUME GptInv, orig' = orig, view' = view, log' = log, failed' = failed, v'.converting = v.converting,
           Signed(orig) /\ ~v.converting => StageOf(orig, view, pc', i', v')
    PROVE  GptInv'
BY DEF GptInv

\* A step without a write to where nothing is said.
LEMMA GptOver ==
    ASSUME GptInv, orig' = orig, view' = view, log' = log, failed' = failed, v'.converting = v.converting,
           pc' \notin MbrPcs \cup Untouched \cup ShrinkPcs \cup LastPcs
    PROVE  GptInv'
BY GptQuiet, StageOver

\* A step that writes, or fails, or finds the log full.
LEMMA GptWrite ==
    ASSUME LogInv, Base, GptInv, NEW p, NEW next, NEW n, DeviceWrite(p, next, n),
           v'.converting = v.converting, next \in ShrinkPcs \cup LastPcs,
           Signed(orig) /\ ~v.converting => StageOf(orig, Apply(p, view), next, n, v')
    PROVE  GptInv'
<1>1. CASE Write(p) /\ pc' = next /\ i' = n
  <2>1. /\ orig' = orig /\ pc' = next /\ i' = n /\ view' = Apply(p, view) /\ failed' = failed
        /\ log' = Append(log, Overwritten(DOMAIN p))
    BY <1>1 DEF Write
  <2> SUFFICES ASSUME Signed(orig), ~v.converting
               PROVE  /\ StageOf(orig, view, pc, i, v)'
                      /\ Unused0(orig) /\ ~failed => Trail(orig, log', view')
    BY <2>1 DEF GptInv
  <2>2. StageOf(orig, Apply(p, view), next, n, v') OBVIOUS
  <2>3. StageOf(orig, view', pc', i', v') BY <2>1, <2>2
  <2>4. ASSUME Unused0(orig), ~failed PROVE Trail(orig, log', view')
    <3>1. Good(orig, Apply(p, view)) BY <2>2, <2>4, StageGood, SignedValid
    <3>2. Trail(orig, log, view) BY <2>4 DEF GptInv
    <3>3. IsSeq(log) /\ view = [c \in Cells |-> view[c]] BY DEF LogInv
    <3>4. Overwritten(DOMAIN p) = [a \in DOMAIN p |-> view[a]] BY DEF Overwritten
    <3>5. Trail(orig, Append(log, Overwritten(DOMAIN p)), Apply(p, view))
      BY <3>1, <3>2, <3>3, <3>4, TrailWrite
    <3> QED BY <2>1, <3>5
  <2> QED BY <2>1, <2>3, <2>4
<1>2. CASE /\ pc' = "cleanup"
           /\ (\E cut \in Cuts(p) : TornWrite(p, cut)) \/ UNCHANGED device
  <2>1. orig' = orig /\ pc' = "cleanup" /\ view' = view /\ log' = log /\ failed' = failed
    BY <1>2 DEF TornWrite, Drop, device
  <2> QED BY <2>1, GptOver DEF MbrPcs, Untouched, ShrinkPcs, LastPcs
<1> QED BY <1>1, <1>2 DEF DeviceWrite

-----------------------------------------------------------------------------
(* The actions.                                                            *)

\* A step without a write leaves the device and the log.
LEMMA WentLog ==
    ASSUME NEW next, NEW n, Goto(next, n)
    PROVE  orig' = orig /\ view' = view /\ log' = log /\ failed' = failed /\ pc' = next /\ i' = n /\ opts' = opts
BY DEF Goto, device

\* Reading a GPT changes nothing that is said of it.
LEMMA GptReading ==
    ASSUME GptInv, orig' = orig, view' = view, log' = log, failed' = failed, v'.converting = v.converting,
           v'.gpt = v.gpt, v'.header1 = v.header1, pc \in Untouched, pc' \in Untouched
    PROVE  GptInv'
<1>1. ASSUME Signed(orig), ~v.converting PROVE StageOf(orig, view, pc', i', v')
  <2>1. v.gpt /\ v.header1 = orig[Hdr(1)] BY <1>1 DEF GptInv, StageOf
  <2> QED BY <2>1 DEF StageOf, Untouched, MbrPcs, ShrinkPcs, LastPcs
<1> QED BY <1>1, GptQuiet

\* The probe for a GPT.
LEMMA GptProbe == ASSUME TabInv, GptInv, ProbeGpt PROVE GptInv'
<1>0. Base /\ pc = "probe" /\ view = orig BY DEF TabInv, Locality, ProbeGpt
<1>1. CASE ~HasSignature(view[<<"hdr", 1>>])
  <2>1. orig' = orig /\ ~Signed(orig) BY <1>0, <1>1, WentLog DEF ProbeGpt, Signed, Hdr
  <2> QED BY <2>1 DEF GptInv
<1>2. CASE Goto("cleanup", 0) /\ v' = v
  <2>1. orig' = orig /\ view' = view /\ log' = log /\ failed' = failed /\ pc' = "cleanup" BY <1>2, WentLog
  <2> QED BY <1>2, <2>1, GptOver DEF MbrPcs, Untouched, ShrinkPcs, LastPcs
<1>3. CASE Goto("secondary", 0) /\ v' = [v EXCEPT !.gpt = TRUE, !.header1 = view[<<"hdr", 1>>]]
  <2>1. orig' = orig /\ view' = view /\ log' = log /\ failed' = failed /\ pc' = "secondary" BY <1>3, WentLog
  <2>2. v'.gpt = TRUE /\ v'.header1 = orig[Hdr(1)] /\ v'.converting = v.converting
    BY <1>0, <1>3 DEF Base, Locals, Hdr
  <2>3. StageOf(orig, view, pc', i', v') BY <2>1, <2>2 DEF StageOf, MbrPcs, ShrinkPcs, LastPcs
  <2> QED BY <2>1, <2>2, <2>3, GptQuiet
<1> QED BY <1>1, <1>2, <1>3 DEF ProbeGpt

\* The other reads of a GPT.
LEMMA GptRead ==
    ASSUME TabInv, GptInv, ReadSecondary \/ DetectIso \/ GatherEntry PROVE GptInv'
<1>0. Base /\ pc \in {"secondary", "iso", "gather"} BY DEF TabInv, ReadSecondary, DetectIso, GatherEntry
<1>1. PICK next, n :
         Goto(next, n) /\ next \in {"iso", "cleanup", "gather", "layout", "nuke1", "undefined"}
  <2>1. \E next, n : Goto(next, n) /\ next \in {"iso", "cleanup", "gather", "layout", "nuke1", "undefined"}
    BY DEF ReadSecondary, DetectIso, GatherEntry
  <2> QED BY <2>1
<1>2. v' = v \/ \E x : v' = [v EXCEPT !.header2 = x] \/ v' = [v EXCEPT !.part_to_conv = x]
  BY DEF ReadSecondary, DetectIso, GatherEntry
<1>3. v'.gpt = v.gpt /\ v'.header1 = v.header1 /\ v'.converting = v.converting
  BY <1>0, <1>2 DEF Base, Locals
<1>4. orig' = orig /\ view' = view /\ log' = log /\ failed' = failed /\ pc' = next BY <1>1, WentLog
<1>5. CASE next \in Untouched BY <1>0, <1>3, <1>4, <1>5, GptReading DEF Untouched
<1>6. CASE next \notin Untouched
  BY <1>1, <1>3, <1>4, <1>6, GptOver DEF Untouched, MbrPcs, ShrinkPcs, LastPcs
<1> QED BY <1>5, <1>6

\* A conversion is not spoken of, and an MBR is no GPT.
LEMMA GptMbr ==
    ASSUME TabInv, GptInv,
           \/ NukePrimary \/ NukeSecondary \/ WriteDiskId \/ ConvertPartition
           \/ CheckFlag \/ CheckFirstSector \/ CheckFileSystem \/ SetActive
    PROVE  GptInv'
<1>0. Base BY DEF TabInv
<1>1. orig' = orig
  BY DEF NukePrimary, NukeSecondary, WriteDiskId, ConvertPartition, CheckFlag, CheckFirstSector,
         CheckFileSystem, SetActive, Loop, DeviceWrite, Goto, Write, TornWrite,
         Drop, device
<1>2. CASE NukePrimary
  <2>1. v'.converting = TRUE BY <1>0, <1>2 DEF NukePrimary, Base, Locals
  <2> QED BY <2>1 DEF GptInv
<1>3. CASE NukeSecondary \/ WriteDiskId \/ ConvertPartition
  <2>1. v.converting BY <1>3 DEF TabInv, Locality, NukeSecondary, WriteDiskId, ConvertPartition
  <2>2. v' = v \/ v' = [v EXCEPT !.gpt = FALSE] BY <1>3 DEF NukeSecondary, WriteDiskId, ConvertPartition
  <2>3. v'.converting = v.converting BY <1>0, <2>2 DEF Base, Locals
  <2> QED BY <2>1, <2>3 DEF GptInv
<1>4. CASE CheckFlag \/ CheckFirstSector \/ CheckFileSystem \/ SetActive
  <2>1. pc \in MbrPcs BY <1>4 DEF CheckFlag, CheckFirstSector, CheckFileSystem, SetActive, MbrPcs
  <2>2. ~(Signed(orig) /\ ~v.converting) BY <2>1 DEF GptInv, StageOf
  <2>3. v'.converting = v.converting
    <3>1. CASE CheckFlag
      <4> DEFINE flag == view[<<"flag", i>>][1]
                 masked == IF flag >= 128 THEN 128 ELSE 0
                 ok == flag \in {0, 128}
      <4>1. v' = [v EXCEPT !.mbr = (i = 0 \/ @) /\ (ok \/ opts.force_mbr),
                           !.any_active = @ \/ masked = 128]
        BY <3>1 DEF CheckFlag
      <4> QED BY <1>0, <4>1 DEF Base, Locals
    <3>2. CASE CheckFileSystem
      <4>1. v' = v \/ \E x : v' = [v EXCEPT !.mbr = x] BY <3>2, Zenon DEF CheckFileSystem
      <4> QED BY <1>0, <4>1 DEF Base, Locals
    <3>3. CASE CheckFirstSector \/ SetActive BY <3>3 DEF CheckFirstSector, SetActive
    <3> QED BY <1>4, <3>1, <3>2, <3>3
  <2> QED BY <1>1, <2>2, <2>3 DEF GptInv
<1> QED BY <1>2, <1>3, <1>4

\* The choice of a layout.
LEMMA GptLayout == ASSUME TabInv, GptInv, ChooseLayout PROVE GptInv'
<1>0. /\ Base /\ pc = "layout" /\ v' = [v EXCEPT !.loc_a = 512, !.loc_b = 512 + size_a]
      /\ \/ Goto("partition", 0) \/ Goto("embed", 0) \/ Goto("cleanup", 0)
         \/ ~v.gpt /\ Goto("save", 0)
  BY DEF TabInv, ChooseLayout, AfterFirstHalf
<1>1. v'.gpt = v.gpt /\ v'.header1 = v.header1 /\ v'.converting = v.converting
  BY <1>0 DEF Base, Locals
<1>2. CASE Goto("partition", 0) \/ Goto("embed", 0)
  <2>1. orig' = orig /\ view' = view /\ log' = log /\ failed' = failed /\ pc' \in {"partition", "embed"} BY <1>2, WentLog
  <2> QED BY <1>0, <1>1, <2>1, GptReading DEF Untouched
<1>3. CASE Goto("cleanup", 0)
  <2>1. orig' = orig /\ view' = view /\ log' = log /\ failed' = failed /\ pc' = "cleanup" BY <1>3, WentLog
  <2> QED BY <1>1, <2>1, GptOver DEF MbrPcs, Untouched, ShrinkPcs, LastPcs
<1>4. CASE ~v.gpt /\ Goto("save", 0)
  <2>1. ~(Signed(orig) /\ ~v.converting) BY <1>0, <1>4 DEF GptInv, StageOf, Untouched
  <2>2. orig' = orig BY <1>4, WentLog
  <2> QED BY <1>1, <2>1, <2>2 DEF GptInv
<1> QED BY <1>0, <1>2, <1>3, <1>4

\* Stage 2 in a partition.
LEMMA GptPartition == ASSUME TabInv, StagesInv, Asked, GptInv, UsePartition PROVE GptInv'
<1> DEFINE num == (opts.part_ndx - 1) % UINT32
           e == Entry(num)
           loc == e[3] * LbSize
           rest == loc + size_a
           b == IF rest % LbSize = 0 THEN rest ELSE AlignDown(rest + LbSize, LbSize)
<1>0. Base /\ v.gpt /\ pc = "partition" /\ view = orig
  BY DEF TabInv, UsePartition, Locality, GptPcs, StagesInv, Untouched
<1>1. \/ Goto("cleanup", 0) /\ v' = v
      \/ /\ ~(num > v.header1[2]) /\ Used(e) /\ ~TooSmall(e) /\ Goto("save", 0)
         /\ v' = [v EXCEPT !.partition = num, !.loc_a = loc, !.loc_b = b]
  BY Zenon DEF UsePartition, AfterFirstHalf
<1>2. CASE Goto("cleanup", 0) /\ v' = v
  <2>1. orig' = orig /\ view' = view /\ log' = log /\ failed' = failed /\ pc' = "cleanup" BY <1>2, WentLog
  <2> QED BY <1>2, <2>1, GptOver DEF MbrPcs, Untouched, ShrinkPcs, LastPcs
<1>3. CASE /\ ~(num > v.header1[2]) /\ Used(e) /\ ~TooSmall(e) /\ Goto("save", 0)
           /\ v' = [v EXCEPT !.partition = num, !.loc_a = loc, !.loc_b = b]
  <2>0. orig' = orig /\ view' = view /\ log' = log /\ failed' = failed /\ pc' = "save" BY <1>3, WentLog
  <2>1. num \in Nat
    <3>1. opts.part_ndx \in Int /\ UINT32 \in Nat \ {0} BY BeyondAssumption DEF Asked
    <3> QED BY <3>1
  <2>2. Used(Beyond) => num # NumEntries BY BeyondAssumption DEF Asked
  <2>3. v'.loc_a = loc /\ v'.loc_b = b /\ v'.converting = v.converting
    <3> HIDE DEF loc, b, num
    <3> QED BY <1>0, <1>3 DEF Base, Locals
  <2>4. ASSUME Signed(orig), ~v.converting PROVE StageOf(orig, view, pc', i', v')
    <3>1. ValidGpt(orig) BY <1>0, <2>4, SignedValid
    <3>2. v.header1 = orig[Hdr(1)] BY <1>0, <2>4 DEF GptInv, StageOf, Untouched
    <3>3. v.header1[2] = NumEntries BY <3>1, <3>2 DEF ValidGpt, Hdr, Header
    <3> HIDE DEF num
    <3>4. num <= NumEntries /\ NumEntries \in Nat BY <1>3, <2>1, <3>3, Grid
    <3>5. num \in 0..(NumEntries - 1) \/ num = NumEntries BY <2>1, <3>4
    <3>6. num \in 0..(NumEntries - 1)
      <4>1. num = NumEntries => <<"ent1", num>> \notin Cells
        <5>1. NumEntries \notin 0..(NumEntries - 1) BY <3>4
        <5> QED BY <5>1 DEF Cells, FineCells, MbrCells
      <4>2. num = NumEntries => e = Beyond BY <4>1 DEF Entry
      <4> QED BY <1>3, <2>2, <3>5, <4>2
    <3>7. Ent(1, num) \in Cells /\ Ent(1, num) = <<"ent1", num>> BY <3>6, EntCell DEF Ent
    <3>8. e = orig[<<"ent1", num>>] BY <1>0, <3>7 DEF Entry
    <3>9. Sound(e) BY <1>3, <3>1, <3>6, <3>8 DEF ValidGpt
    <3>10. Safe(loc, b, NumEntries)
      <4> HIDE DEF e
      <4> QED BY <1>3, <3>9, SafePartition
    <3> HIDE DEF e, loc, b
    <3>11. Copy(orig, orig, 1, NumEntries) /\ Copy(orig, orig, 2, NumEntries) BY <3>1, OrigCopy
    <3>12. Ready(orig, view, loc, b) BY <1>0, <3>4, <3>10, <3>11, Grid DEF Ready
    <3> QED BY <2>0, <2>3, <3>12 DEF StageOf, MbrPcs, Untouched, ShrinkPcs, LastPcs
  <2> QED BY <2>0, <2>3, <2>4, GptQuiet
<1> QED BY <1>1, <1>2, <1>3

\* A plan that nothing has been done for yet.
LEMMA PlanStart ==
    ASSUME NEW o, ValidGpt(o), NEW m \in Nat \cup {-1}
    PROVE  Shrunk(o, o, m, m + 1, m + 1) /\ Old(o, o, 1) /\ Old(o, o, 2)
<1>1. KeptEnts(o, o, m)
  <2>1. \A c \in {1, 2} : \A k \in Indexes : o[Ent(c, k)] = o[Ent(1, k)] BY DEF ValidGpt, Ent, Indexes
  <2> QED BY <2>1 DEF KeptEnts
<1>2. Bare(o) BY DEF ValidGpt, Bare, Magics
<1>3. \A k \in Nat : ~(m < k /\ k < m + 1) OBVIOUS
<1>4. Cleared(o, 1, m, m + 1) /\ Cleared(o, 2, m, m + 1) BY <1>3 DEF Cleared
<1> QED BY <1>1, <1>2, <1>4 DEF Shrunk, Old

\* The plan of an embedding.
LEMMA GptPlan == ASSUME TabInv, StagesInv, GptInv, PlanEmbedding PROVE GptInv'
<1> DEFINE used == {k \in 0..(v.header1[2] - 1) : Used(Entry(k))}
           m == Max({-1} \cup used)
           a == AlignDown((EntryLba1 + 32) * LbSize - size_a, LbSize)
           b == AlignDown((EntryLba2 + 32) * LbSize - size_b, LbSize)
           count == (a \div LbSize - EntryLba1) * (LbSize \div EntrySize)
<1>0. Base /\ pc = "embed" /\ v.gpt /\ v.header1[2] \in Nat /\ view = orig
  BY DEF TabInv, PlanEmbedding, Locality, GptPcs, StagesInv, Untouched
<1>1. m \in {-1} \cup used /\ m \in Nat \cup {-1} /\ \A k \in used : k <= m BY <1>0, MaxUsed
<1>2. count \in Int /\ (count >= 0 => Fits(a, b) /\ Room(a, b, count)) BY Embedded
<1>3. \/ Goto("cleanup", 0) /\ v' = v
      \/ /\ count > m
         /\ (m + 1 < count /\ Goto("zero1", m + 1)) \/ (~(m + 1 < count) /\ Goto("header1", 0))
         /\ v' = [v EXCEPT !.max_used = m, !.new_count = count, !.loc_a = a, !.loc_b = b]
  BY Zenon DEF PlanEmbedding, Enough
<1>4. ASSUME NEW k \in Indexes PROVE Entry(k) = orig[Ent(1, k)]
  <2>1. Ent(1, k) \in Cells /\ Ent(1, k) = <<"ent1", k>> BY EntCell DEF Ent, Indexes
  <2> QED BY <1>0, <2>1 DEF Entry
<1>5. \A k \in used : k \in 0..(v.header1[2] - 1) OBVIOUS
<1>6. \A k \in 0..(v.header1[2] - 1) : Used(Entry(k)) => k \in used OBVIOUS
<1> HIDE DEF used, m, a, b, count
<1>7. CASE Goto("cleanup", 0) /\ v' = v
  <2>1. orig' = orig /\ view' = view /\ log' = log /\ failed' = failed /\ pc' = "cleanup" BY <1>7, WentLog
  <2> QED BY <1>7, <2>1, GptOver DEF MbrPcs, Untouched, ShrinkPcs, LastPcs
<1>8. CASE /\ count > m
           /\ (m + 1 < count /\ Goto("zero1", m + 1)) \/ (~(m + 1 < count) /\ Goto("header1", 0))
           /\ v' = [v EXCEPT !.max_used = m, !.new_count = count, !.loc_a = a, !.loc_b = b]
  <2>0. /\ orig' = orig /\ view' = view /\ log' = log /\ failed' = failed
        /\ \/ pc' = "zero1" /\ i' = m + 1 /\ m + 1 < count
           \/ pc' = "header1" /\ ~(m + 1 < count)
    BY <1>8, WentLog
  <2>1. /\ v'.max_used = m /\ v'.new_count = count /\ v'.loc_a = a /\ v'.loc_b = b
        /\ v'.converting = v.converting
    BY <1>0, <1>8 DEF Base, Locals
  <2>2. count \in Nat /\ m < count /\ Fits(a, b) /\ Room(a, b, count) BY <1>1, <1>2, <1>8
  <2>3. ASSUME Signed(orig), ~v.converting PROVE StageOf(orig, view, pc', i', v')
    <3>1. ValidGpt(orig) BY <1>0, <2>3, SignedValid
    <3>2. v.header1 = orig[Hdr(1)] BY <1>0, <2>3 DEF GptInv, StageOf, Untouched
    <3>3. v.header1[2] = NumEntries BY <3>1, <3>2 DEF ValidGpt, Hdr, Header
    <3>4. m < NumEntries
      <4>1. m = -1 \/ m \in 0..(NumEntries - 1) BY <1>1, <1>5, <3>3
      <4> QED BY <4>1, Grid
    <3>5. \A k \in Indexes : Used(orig[Ent(1, k)]) => k <= m BY <1>1, <1>4, <1>6, <3>3 DEF Indexes
    <3>6. Plan(orig, m, count, a, b) BY <1>1, <2>2, <3>4, <3>5 DEF Plan
    <3>7. Shrunk(orig, view, m, m + 1, m + 1) /\ Old(orig, view, 1) /\ Old(orig, view, 2)
      BY <1>0, <1>1, <3>1, PlanStart
    <3>8. CASE pc' = "zero1" /\ i' = m + 1 /\ m + 1 < count
      <4>1. m + 1 \in Nat /\ m < m + 1 BY <1>1
      <4> QED BY <2>1, <3>6, <3>7, <3>8, <4>1 DEF StageOf, MbrPcs, Untouched, ShrinkPcs, LastPcs
    <3>9. CASE pc' = "header1" /\ ~(m + 1 < count)
      <4>1. count = m + 1 BY <1>1, <2>2, <3>9
      <4> QED BY <2>1, <3>6, <3>7, <3>9, <4>1 DEF StageOf, MbrPcs, Untouched, ShrinkPcs, LastPcs
    <3> QED BY <2>0, <3>8, <3>9
  <2> QED BY <2>0, <2>1, <2>3, GptQuiet
<1> QED BY <1>3, <1>7, <1>8

\* Zeroing an entry in the first array.
LEMMA GptZero1 == ASSUME LogInv, TabInv, GptInv, ZeroUnused, pc = "zero1" PROVE GptInv'
<1> DEFINE m == v.max_used
           n == v.new_count
           p == ZeroWrite(1, i)
           f == Apply(p, view)
<1>0. Base /\ v' = v BY DEF TabInv, ZeroUnused
<1>1. \/ i + 1 < n /\ DeviceWrite(p, "zero1", i + 1)
      \/ ~(i + 1 < n) /\ DeviceWrite(p, "zero2", m + 1)
  BY DEF ZeroUnused, ZeroWrite, ArrayLba
<1>2. ASSUME Signed(orig), ~v.converting
      PROVE  /\ i + 1 < n => StageOf(orig, f, "zero1", i + 1, v)
             /\ ~(i + 1 < n) => StageOf(orig, f, "zero2", m + 1, v)
  <2>1. ValidGpt(orig) BY <1>0, <1>2, SignedValid
  <2>2. /\ Plan(orig, m, n, v.loc_a, v.loc_b) /\ i \in Nat /\ m < i /\ i < n
        /\ Shrunk(orig, view, m, i, m + 1)
        /\ Unused0(orig) => Old(orig, view, 1) /\ Old(orig, view, 2)
    BY <1>2 DEF GptInv, StageOf, ShrinkPcs
  <2>3. m \in Nat \cup {-1} /\ n \in Nat BY <2>2 DEF Plan
  <2>5. /\ KeptEnts(orig, view, m) /\ Bare(view) /\ Cleared(view, 1, m, i) /\ Cleared(view, 2, m, m + 1)
    BY <2>2 DEF Shrunk
  <2> HIDE DEF m, n
  <2>6. /\ KeptEnts(orig, f, m) /\ Bare(f) /\ Cleared(f, 1, m, i + 1)
        /\ \A q \in Nat : Cleared(view, 2, m, q) => Cleared(f, 2, m, q)
        /\ Unused0(orig) => Old(orig, f, 1) /\ Old(orig, f, 2)
    <3>1. ZeroSays(orig, view, f, m, 1, i) BY <2>1, <2>2, ZeroStep
    <3> HIDE DEF f
    <3> QED BY <2>2, <2>5, <3>1 DEF ZeroSays
  <2>7. m + 1 \in Nat /\ i + 1 \in Nat /\ m < i + 1 /\ m < m + 1 /\ m + 1 < n + 1 BY <2>2, <2>3
  <2>8. Shrunk(orig, f, m, i + 1, m + 1) BY <2>5, <2>6, <2>7 DEF Shrunk
  <2> HIDE DEF f
  <2>9. CASE i + 1 < n
    BY <2>2, <2>6, <2>7, <2>8, <2>9 DEF StageOf, MbrPcs, Untouched, ShrinkPcs, LastPcs, m, n
  <2>10. CASE ~(i + 1 < n)
    <3>1. i + 1 = n /\ m + 1 < n BY <2>2, <2>3, <2>10
    <3> QED BY <2>2, <2>6, <2>7, <2>8, <2>10, <3>1
            DEF StageOf, MbrPcs, Untouched, ShrinkPcs, LastPcs, m, n
  <2> QED BY <2>9, <2>10
<1> HIDE DEF p
<1>3. CASE i + 1 < n /\ DeviceWrite(p, "zero1", i + 1) BY <1>0, <1>2, <1>3, GptWrite DEF ShrinkPcs
<1>4. CASE ~(i + 1 < n) /\ DeviceWrite(p, "zero2", m + 1) BY <1>0, <1>2, <1>4, GptWrite DEF ShrinkPcs
<1> QED BY <1>1, <1>3, <1>4

\* Zeroing an entry in the second array.
LEMMA GptZero2 == ASSUME LogInv, TabInv, GptInv, ZeroUnused, pc = "zero2" PROVE GptInv'
<1> DEFINE m == v.max_used
           n == v.new_count
           p == ZeroWrite(2, i)
           f == Apply(p, view)
<1>0. Base /\ v' = v BY DEF TabInv, ZeroUnused
<1>1. \/ i + 1 < n /\ DeviceWrite(p, "zero2", i + 1)
      \/ ~(i + 1 < n) /\ DeviceWrite(p, "header1", 0)
  BY DEF ZeroUnused, ZeroWrite, ArrayLba
<1>2. ASSUME Signed(orig), ~v.converting
      PROVE  /\ i + 1 < n => StageOf(orig, f, "zero2", i + 1, v)
             /\ ~(i + 1 < n) => StageOf(orig, f, "header1", 0, v)
  <2>1. ValidGpt(orig) BY <1>0, <1>2, SignedValid
  <2>2. /\ Plan(orig, m, n, v.loc_a, v.loc_b) /\ i \in Nat /\ m < i /\ i < n
        /\ Shrunk(orig, view, m, n, i)
        /\ Unused0(orig) => Old(orig, view, 1) /\ Old(orig, view, 2)
    BY <1>2 DEF GptInv, StageOf, ShrinkPcs
  <2>3. m \in Nat \cup {-1} /\ n \in Nat BY <2>2 DEF Plan
  <2>4. /\ KeptEnts(orig, view, m) /\ Bare(view) /\ Cleared(view, 1, m, n) /\ Cleared(view, 2, m, i)
    BY <2>2 DEF Shrunk
  <2> HIDE DEF m, n
  <2>5. /\ KeptEnts(orig, f, m) /\ Bare(f) /\ Cleared(f, 1, m, n) /\ Cleared(f, 2, m, i + 1)
        /\ Unused0(orig) => Old(orig, f, 1) /\ Old(orig, f, 2)
    <3>1. ZeroSays(orig, view, f, m, 2, i) BY <2>1, <2>2, ZeroStep
    <3> HIDE DEF f
    <3> QED BY <2>2, <2>3, <2>4, <3>1 DEF ZeroSays
  <2>6. i + 1 \in Nat /\ m < i + 1 BY <2>2, <2>3
  <2>7. Shrunk(orig, f, m, n, i + 1) BY <2>5 DEF Shrunk
  <2> HIDE DEF f
  <2>8. CASE i + 1 < n
    BY <2>2, <2>5, <2>6, <2>7, <2>8 DEF StageOf, MbrPcs, Untouched, ShrinkPcs, LastPcs, m, n
  <2>9. CASE ~(i + 1 < n)
    <3>1. i + 1 = n BY <2>2, <2>3, <2>9
    <3> QED BY <2>2, <2>5, <2>7, <2>9, <3>1 DEF StageOf, MbrPcs, Untouched, ShrinkPcs, LastPcs, m, n
  <2> QED BY <2>8, <2>9
<1> HIDE DEF p
<1>3. CASE i + 1 < n /\ DeviceWrite(p, "zero2", i + 1) BY <1>0, <1>2, <1>3, GptWrite DEF ShrinkPcs
<1>4. CASE ~(i + 1 < n) /\ DeviceWrite(p, "header1", 0) BY <1>0, <1>2, <1>4, GptWrite DEF ShrinkPcs
<1> QED BY <1>1, <1>3, <1>4

\* The first header.
LEMMA GptHeader1 == ASSUME LogInv, TabInv, GptInv, WriteHeader1 PROVE GptInv'
<1> DEFINE m == v.max_used
           n == v.new_count
           h == Header(n, SumOf(view, EntryLba1, n))
           p == SetCell(Hdr(1), h)
           f == Apply(p, view)
<1>0. Base /\ pc = "header1" BY DEF TabInv, WriteHeader1
<1>1. DeviceWrite(p, "header2", 0) /\ v' = [v EXCEPT !.header1 = h]
  BY DEF WriteHeader1, ArraySum, Hdr
<1> HIDE DEF h
<1>2. /\ v'.max_used = m /\ v'.new_count = n /\ v'.loc_a = v.loc_a /\ v'.loc_b = v.loc_b
      /\ v'.converting = v.converting /\ v'.header1 = h
  BY <1>0, <1>1 DEF Base, Locals
<1>3. ASSUME Signed(orig), ~v.converting PROVE StageOf(orig, f, "header2", 0, v')
  <2>1. ValidGpt(orig) BY <1>0, <1>3, SignedValid
  <2>2. /\ Plan(orig, m, n, v.loc_a, v.loc_b) /\ Shrunk(orig, view, m, n, n)
        /\ Unused0(orig) => Old(orig, view, 2)
    BY <1>0, <1>3 DEF GptInv, StageOf, ShrinkPcs
  <2>3. m \in Nat \cup {-1} /\ n \in Nat /\ m < n /\ m < NumEntries BY <2>2 DEF Plan
  <2>4. n * EntrySize <= 32 * LbSize BY <2>2, PlanFits
  <2>5. SumOf(view, ArrayLba(1), n) = Canon(orig, m, n) BY <2>2, <2>3, ShrunkSum DEF Shrunk
  <2>6. h = Header(n, Canon(orig, m, n)) BY <2>5 DEF h, ArrayLba
  <2>7. /\ f[Hdr(1)] = h /\ f[Hdr(2)] = view[Hdr(2)]
        /\ \A c \in {1, 2} : \A x \in Whole(c) : f[x] = view[x]
    BY HdrStep
  <2> HIDE DEF f
  <2>8. Shrunk(orig, f, m, n, n) BY <2>2, <2>3, <2>4, <2>7, ShrunkSame
  <2>9. Unused0(orig) => Old(orig, f, 2) BY <2>2, <2>7, OldSame
  <2> QED BY <1>2, <2>2, <2>6, <2>7, <2>8, <2>9 DEF StageOf, MbrPcs, Untouched, ShrinkPcs, LastPcs
<1> HIDE DEF p
<1> QED BY <1>0, <1>1, <1>2, <1>3, GptWrite DEF ShrinkPcs

\* The second header.
LEMMA GptHeader2 == ASSUME LogInv, TabInv, GptInv, WriteHeader2 PROVE GptInv'
<1> DEFINE m == v.max_used
           n == v.new_count
           h == Header(n, v.header1[3])
           p == SetCell(Hdr(2), h)
           f == Apply(p, view)
<1>0. Base /\ pc = "header2" BY DEF TabInv, WriteHeader2
<1>1. DeviceWrite(p, "save", 0) /\ v' = [v EXCEPT !.header2 = h] BY DEF WriteHeader2, Hdr
<1> HIDE DEF h
<1>2. v'.loc_a = v.loc_a /\ v'.loc_b = v.loc_b /\ v'.converting = v.converting
  BY <1>0, <1>1 DEF Base, Locals
<1>3. ASSUME Signed(orig), ~v.converting PROVE StageOf(orig, f, "save", 0, v')
  <2>1. ValidGpt(orig) BY <1>0, <1>3, SignedValid
  <2>2. /\ Plan(orig, m, n, v.loc_a, v.loc_b) /\ Shrunk(orig, view, m, n, n)
        /\ v.header1 = Header(n, Canon(orig, m, n)) /\ view[Hdr(1)] = v.header1
    BY <1>0, <1>3 DEF GptInv, StageOf, ShrinkPcs
  <2>3. m \in Nat \cup {-1} /\ n \in Nat BY <2>2 DEF Plan
  <2>4. n * EntrySize <= 32 * LbSize BY <2>2, PlanFits
  <2>5. h = Header(n, Canon(orig, m, n)) BY <2>2 DEF h, Header
  <2>6. /\ f[Hdr(2)] = h /\ f[Hdr(1)] = view[Hdr(1)]
        /\ \A c \in {1, 2} : \A x \in Whole(c) : f[x] = view[x]
    BY HdrStep
  <2> HIDE DEF f
  <2>7. Shrunk(orig, f, m, n, n) BY <2>2, <2>3, <2>4, <2>6, ShrunkSame
  <2>8. Copy(orig, f, 1, n) /\ Copy(orig, f, 2, n)
    BY <2>1, <2>2, <2>5, <2>6, <2>7, NewCopy DEF Shrunk
  <2>9. Safe(v.loc_a, v.loc_b, n) BY <2>2, SafePlan
  <2>10. Ready(orig, f, v.loc_a, v.loc_b) BY <2>3, <2>4, <2>8, <2>9 DEF Ready
  <2> QED BY <1>2, <2>10 DEF StageOf, MbrPcs, Untouched, ShrinkPcs, LastPcs
<1> HIDE DEF p
<1> QED BY <1>0, <1>1, <1>2, <1>3, GptWrite DEF LastPcs

\* Once stage 2 has its places the stages differ by their writes only.
LEMMA LastStage ==
    ASSUME NEW o, NEW d, NEW p \in LastPcs, NEW j, NEW w, Ready(o, d, w.loc_a, w.loc_b)
    PROVE  StageOf(o, d, p, j, w)
BY DEF StageOf, MbrPcs, Untouched, ShrinkPcs, LastPcs

\* The table is saved.
LEMMA GptSave == ASSUME TabInv, GptInv, SaveTable PROVE GptInv'
<1>0. Base /\ pc = "save" BY DEF TabInv, SaveTable
<1>1. orig' = orig /\ view' = view /\ log' = log /\ failed' = failed /\ pc' = "write" BY WentLog DEF SaveTable
<1>2. \E x : v' = [v EXCEPT !.saved = x] BY DEF SaveTable
<1>3. v'.loc_a = v.loc_a /\ v'.loc_b = v.loc_b /\ v'.converting = v.converting
  BY <1>0, <1>2 DEF Base, Locals
<1>4. ASSUME Signed(orig), ~v.converting PROVE StageOf(orig, view, pc', i', v')
  <2>1. Ready(orig, view, v.loc_a, v.loc_b) BY <1>0, <1>4 DEF GptInv, StageOf, LastPcs
  <2> QED BY <1>1, <1>3, <2>1, LastStage DEF LastPcs
<1> QED BY <1>1, <1>3, <1>4, GptQuiet

\* Where the nine writes go.
LEMMA WritePlaces ==
    ASSUME NEW n \in 0..8
    PROVE  \/ DOMAIN Writes[n + 1] \subseteq Boot
           \/ DOMAIN Writes[n + 1] = Touched(v.loc_a, size_a)
           \/ DOMAIN Writes[n + 1] = Touched(v.loc_b, stage2_size - size_a)
<1> DEFINE p == Writes[n + 1]
<1>0. /\ Writes[1] = Image(0, 0, 512) /\ Writes[2] = Image(v.loc_a, 512, size_a)
      /\ Writes[3] = Image(v.loc_b, 512 + size_a, stage2_size - size_a)
      /\ Writes[4] = SetCell(<<"size_a", 0>>, <<size_a>>)
      /\ Writes[5] = SetCell(<<"size_b", 0>>, <<size_b>>)
      /\ Writes[6] = SetCell(<<"loc_a", 0>>, <<v.loc_a>>)
      /\ Writes[7] = SetCell(<<"loc_b", 0>>, <<v.loc_b>>)
      /\ Writes[8] = Saved(218, 6) /\ Writes[9] = Saved(440, 70)
  BY DEF Writes, ImageWrites, WriteBacks
<1>1. ASSUME NEW loc \in Nat, NEW count \in Nat, loc + count <= 512
      PROVE  Touched(loc, count) \subseteq Boot
  <2> SUFFICES ASSUME NEW x \in Touched(loc, count) PROVE x \in Boot OBVIOUS
  <2>1. x \in Cells /\ Overlap(Place(x), <<loc, count>>) BY TouchedIs
  <2>2. Place(x)[1] \in Nat /\ Place(x)[2] \in Nat BY <2>1, SectorEdge
  <2>3. Overlap(Place(x), <<0, 512>>) BY <1>1, <2>1, <2>2 DEF Overlap
  <2> QED BY <2>1, <2>3, TouchedIs DEF Boot
<1>2. CASE n = 0
  <2>1. DOMAIN p = Touched(0, 512) BY <1>0, <1>2, ImageHeld
  <2> QED BY <2>1 DEF Boot
<1>3. CASE n = 1 BY <1>0, <1>3, ImageHeld
<1>4. CASE n = 2 BY <1>0, <1>4, ImageHeld
<1>5. CASE n = 3
  <2>1. DOMAIN p = Touched(420, 2) BY <1>0, <1>5, FieldSet, FieldPlace DEF Fields
  <2> QED BY <1>1, <2>1
<1>6. CASE n = 4
  <2>1. DOMAIN p = Touched(422, 2) BY <1>0, <1>6, FieldSet, FieldPlace DEF Fields
  <2> QED BY <1>1, <2>1
<1>7. CASE n = 5
  <2>1. DOMAIN p = Touched(424, 8) BY <1>0, <1>7, FieldSet, FieldPlace DEF Fields
  <2> QED BY <1>1, <2>1
<1>8. CASE n = 6
  <2>1. DOMAIN p = Touched(432, 8) BY <1>0, <1>8, FieldSet, FieldPlace DEF Fields
  <2> QED BY <1>1, <2>1
<1>9. CASE n = 7
  <2>1. DOMAIN p = Touched(218, 6) BY <1>0, <1>9 DEF Saved
  <2> QED BY <1>1, <2>1
<1>10. CASE n = 8
  <2>1. DOMAIN p = Touched(440, 70) BY <1>0, <1>10 DEF Saved
  <2> QED BY <1>1, <2>1
<1> QED BY <1>2, <1>3, <1>4, <1>5, <1>6, <1>7, <1>8, <1>9, <1>10

\* The boot sector and stage 2.
LEMMA GptStages == ASSUME LogInv, TabInv, GptInv, WriteStages PROVE GptInv'
<1> DEFINE p == Writes[i + 1]
           f == Apply(p, view)
<1>0. Base /\ pc = "write" /\ v' = v /\ i \in 0..8 BY DEF TabInv, Base, Locality, WriteStages
<1>1. \/ DeviceWrite(p, "write", i + 1)
      \/ DeviceWrite(p, "flush", 0)
  BY <1>0, NineWrites DEF WriteStages, Loop
<1>2. \/ DOMAIN p \subseteq Boot
      \/ DOMAIN p = Touched(v.loc_a, size_a)
      \/ DOMAIN p = Touched(v.loc_b, stage2_size - size_a)
  BY <1>0, WritePlaces
<1> HIDE DEF p
<1>3. ASSUME Signed(orig), ~v.converting PROVE Ready(orig, f, v.loc_a, v.loc_b)
  <2>1. Ready(orig, view, v.loc_a, v.loc_b) BY <1>0, <1>3 DEF GptInv, StageOf, LastPcs
  <2> QED BY <1>2, <2>1, ReadyKept
<1> HIDE DEF f
<1>4. ASSUME Signed(orig), ~v.converting
      PROVE  StageOf(orig, f, "write", i + 1, v') /\ StageOf(orig, f, "flush", 0, v')
  BY <1>0, <1>3, <1>4, LastStage DEF LastPcs
<1>5. CASE DeviceWrite(p, "write", i + 1) BY <1>0, <1>4, <1>5, GptWrite DEF LastPcs, f
<1>6. CASE DeviceWrite(p, "flush", 0) BY <1>0, <1>4, <1>6, GptWrite DEF LastPcs, f
<1> QED BY <1>1, <1>5, <1>6

\* Success.
LEMMA GptFlush == ASSUME GptInv, FlushAll PROVE GptInv'
<1>1. /\ pc = "flush" /\ pc' = "installed" /\ v' = v /\ orig' = orig /\ view' = view /\ log' = log /\ failed' = failed
  BY DEF FlushAll, Commit, CommitLosing
<1>2. ASSUME Signed(orig), ~v.converting PROVE StageOf(orig, view, pc', i', v')
  <2>1. Ready(orig, view, v.loc_a, v.loc_b) BY <1>1, <1>2 DEF GptInv, StageOf, LastPcs
  <2> QED BY <1>1, <2>1, LastStage DEF LastPcs
<1> QED BY <1>1, <1>2, GptQuiet

\* Failure, cleanup and the undo, which goes the way back.
LEMMA GptFailure ==
    ASSUME LogInv, GptInv, IoError \/ Cleanup \/ UninstallRun \/ PutBack \/ UndoReturn PROVE GptInv'
<1>1. CASE IoError \/ Cleanup \/ UninstallRun
  <2>1. /\ orig' = orig /\ view' = view /\ log' = log /\ failed' = failed /\ v' = v
        /\ pc' \in {"cleanup", "undo"}
    BY <1>1 DEF IoError, Cleanup, UninstallRun, Drop, device
  <2> QED BY <2>1, GptOver DEF MbrPcs, Untouched, ShrinkPcs, LastPcs
<1>2. CASE UndoReturn
  <2>1. /\ orig' = orig /\ view' = view /\ log' = log /\ v' = v /\ pc' \in {"undo", "undone"}
        /\ failed' = failed \/ failed' = TRUE
    BY <1>2 DEF UndoReturn, EndUndo, FlushFails
  <2>2. StageOf(orig, view', pc', i', v')
    BY <2>1, StageOver DEF MbrPcs, Untouched, ShrinkPcs, LastPcs
  <2> QED BY <2>1, <2>2 DEF GptInv
<1>3. CASE PutBack
  <2>1. orig' = orig /\ v' = v /\ pc' = "undo" BY <1>3 DEF PutBack, UndoEntry, EntryBack, EntrySkipped
  <2>2. StageOf(orig, view', pc', i', v')
    BY <2>1, StageOver DEF MbrPcs, Untouched, ShrinkPcs, LastPcs
  <2>3. CASE EntrySkipped
    <3>1. failed' = TRUE BY <2>3 DEF EntrySkipped
    <3> QED BY <2>1, <2>2, <3>1 DEF GptInv
  <2>4. CASE \E D : EntryBack(D)
    <3>1. /\ log # <<>> /\ view' = Apply(log[Len(log)], view) /\ log' = SubSeq(log, 1, Len(log) - 1)
          /\ failed' = failed
      BY <2>4 DEF EntryBack
    <3>2. ASSUME Trail(orig, log, view) PROVE Trail(orig, log', view')
      <4>1. IsSeq(log) BY DEF LogInv
      <4> QED BY <3>1, <3>2, <4>1, TrailUndo
    <3> QED BY <2>1, <2>2, <3>1, <3>2 DEF GptInv
  <2> QED BY <1>3, <2>3, <2>4 DEF PutBack, UndoEntry
<1> QED BY <1>1, <1>2, <1>3

\* The command line and the contents at the start do not change.
LEMMA AskedKept == ASSUME Asked, [Next]_vars PROVE Asked'
<1>1. orig' = orig /\ opts' = opts
  <2>1. CASE \/ NukePrimary \/ NukeSecondary \/ WriteDiskId \/ ConvertPartition \/ WriteStages
    BY <2>1 DEF NukePrimary, NukeSecondary, WriteDiskId, ConvertPartition, WriteStages, Loop, DeviceWrite,
                Write, TornWrite, Drop, device
  <2>2. CASE ProbeGpt \/ ReadSecondary \/ DetectIso \/ GatherEntry \/ CheckFirstSector
    BY <2>2 DEF ProbeGpt, ReadSecondary, DetectIso, GatherEntry, CheckFirstSector, Goto, device
  <2>3. CASE CheckFlag \/ CheckFileSystem \/ SetActive
    BY <2>3 DEF CheckFlag, CheckFileSystem, SetActive, DeviceWrite, Goto, Write, TornWrite, Drop,
                device
  <2>4. CASE ChooseLayout \/ UsePartition \/ PlanEmbedding \/ SaveTable
    BY <2>4 DEF ChooseLayout, UsePartition, PlanEmbedding, SaveTable, Goto, device
  <2>5. CASE ZeroUnused \/ WriteHeader1 \/ WriteHeader2
    BY <2>5 DEF ZeroUnused, WriteHeader1, WriteHeader2, DeviceWrite, Write, TornWrite, Drop, device
  <2>6. CASE FlushAll \/ IoError \/ Cleanup \/ UninstallRun \/ PutBack \/ UndoReturn
    BY <2>6 DEF FlushAll, IoError, Cleanup, UninstallRun, PutBack, UndoReturn, Commit, CommitLosing, Drop,
                UndoEntry, EntryBack, EntrySkipped, EndUndo, FlushFails, device
  <2>7. CASE UNCHANGED vars BY <2>7 DEF vars, device
  <2> QED BY <2>1, <2>2, <2>3, <2>4, <2>5, <2>6, <2>7 DEF Next
<1> QED BY <1>1 DEF Asked

\* Every step keeps the invariant.
LEMMA GptNext == ASSUME LogInv, TabInv, StagesInv, Asked, GptInv, [Next]_vars PROVE GptInv'
<1>1. CASE ProbeGpt BY <1>1, GptProbe
<1>2. CASE ReadSecondary \/ DetectIso \/ GatherEntry BY <1>2, GptRead
<1>3. CASE \/ NukePrimary \/ NukeSecondary \/ WriteDiskId \/ ConvertPartition
           \/ CheckFlag \/ CheckFirstSector \/ CheckFileSystem \/ SetActive
  BY <1>3, GptMbr
<1>4. CASE ChooseLayout BY <1>4, GptLayout
<1>5. CASE UsePartition BY <1>5, GptPartition
<1>6. CASE PlanEmbedding BY <1>6, GptPlan
<1>7. CASE ZeroUnused
  <2>1. pc \in {"zero1", "zero2"} BY <1>7 DEF ZeroUnused
  <2> QED BY <1>7, <2>1, GptZero1, GptZero2
<1>8. CASE WriteHeader1 BY <1>8, GptHeader1
<1>9. CASE WriteHeader2 BY <1>9, GptHeader2
<1>10. CASE SaveTable BY <1>10, GptSave
<1>11. CASE WriteStages BY <1>11, GptStages
<1>12. CASE FlushAll BY <1>12, GptFlush
<1>13. CASE IoError \/ Cleanup \/ UninstallRun \/ PutBack \/ UndoReturn BY <1>13, GptFailure
<1>14. CASE UNCHANGED vars BY <1>14 DEF GptInv, vars, device
<1> QED BY <1>1, <1>2, <1>3, <1>4, <1>5, <1>6, <1>7, <1>8, <1>9, <1>10, <1>11, <1>12, <1>13, <1>14
        DEF Next

\* Before the first step.
LEMMA GptStart == ASSUME Init PROVE Asked /\ GptInv
<1>1. /\ view = orig /\ log = <<>> /\ pc = "probe" /\ orig \in Disks
      /\ Asked
  BY DEF Init, Disks, Asked
<1>2. ASSUME Signed(orig) PROVE StageOf(orig, view, pc, i, v) /\ Trail(orig, log, view)
  <2>1. ValidGpt(orig) BY <1>1, <1>2, GptAssumption DEF Signed, Hdr
  <2>2. Good(orig, orig) BY <2>1, OrigCopy, Grid DEF Good
  <2>3. Trail(orig, log, view) BY <1>1, <2>2, TrailStart
  <2>4. StageOf(orig, view, pc, i, v) BY <1>1, StageOver DEF MbrPcs, Untouched, ShrinkPcs, LastPcs
  <2> QED BY <2>3, <2>4
<1> QED BY <1>1, <1>2 DEF GptInv

\* A copy of the invariant, where nothing is damaged, is one of the property.
LEMMA CopyValid ==
    ASSUME view = [x \in Cells |-> view[x]],
           NEW c \in {1, 2}, NEW n \in Nat, Copy(orig, view, c, n), Sane(c)
    PROVE  ValidCopy(c)
<1>0. view[Hdr(c)] = <<1, n, SumOf(view, ArrayLba(c), n), <<n, SumOf(view, ArrayLba(c), n)>>>>
  BY DEF Copy, Header
<1>1. Hdr(c) \notin damaged /\ Array(c, n) \cap damaged = {} BY <1>0 DEF Sane, Hdr, Array
<1>2. \A x \in Zone(c, n) : x \in Cells /\ x \notin damaged
  <2>1. Hdr(c) \in Cells BY DEF Hdr, Cells, FineCells
  <2>2. \A x \in Array(c, n) : x \in Cells BY TouchedIs DEF Array
  <2> QED BY <1>1, <2>1, <2>2 DEF Zone
<1>3. \A x \in Zone(c, n) : Held[x] = view[x] BY <1>2 DEF Held
<1>4. Copy(orig, Held, c, n) BY <1>3, CopyKept
<1> DEFINE sum == SumOf(Held, ArrayLba(c), n)
<1>5. \A k \in 0..(NumEntries - 1) : Used(orig[Ent(c, k)]) => k < n /\ Held[Ent(c, k)] = orig[Ent(c, k)]
  BY <1>4 DEF Copy, Indexes
<1>6. Held[<<"hdr", c>>] = <<1, n, sum, <<n, sum>>>> BY <1>4 DEF Copy, Hdr, Header
<1>7. sum = SumOf(Held, ArrayLba(c), n) OBVIOUS
<1> HIDE DEF sum
<1> QED BY <1>5, <1>6, <1>7 DEF ValidCopy, HasSignature, Ent

\* What the invariant says of the two copies.
LEMMA GptHolds == ASSUME LogInv, GptInv PROVE GptStaysValid
<1> SUFFICES ASSUME GptDisk, ~v.converting, UnusedWereZero \/ Installed, HasSignature(orig[<<"hdr", 2>>]),
                    ~failed, NEW c \in 1..2, Sane(c)
             PROVE  ValidCopy(c)
  BY DEF GptStaysValid
<1>1. Signed(orig) BY DEF Signed, Hdr, GptDisk
<1>2. StageOf(orig, view, pc, i, v) /\ (Unused0(orig) => Trail(orig, log, view)) BY <1>1 DEF GptInv
<1>3. Good(orig, view)
  <2>1. CASE Installed
    <3>1. Ready(orig, view, v.loc_a, v.loc_b) BY <1>2, <2>1 DEF StageOf, LastPcs, Installed
    <3> QED BY <3>1 DEF Ready, Good
  <2>2. CASE UnusedWereZero
    <3>1. Unused0(orig) BY <2>2 DEF UnusedWereZero, Unused0, Ent, Indexes
    <3>2. IsSeq(log) BY DEF LogInv
    <3> QED BY <1>2, <3>1, <3>2, TrailGood
  <2> QED BY <2>1, <2>2
<1>4. c \in {1, 2} /\ view = [x \in Cells |-> view[x]] BY DEF LogInv
<1>5. PICK n \in Nat : Copy(orig, view, c, n) BY <1>3, <1>4 DEF Good
<1> QED BY <1>4, <1>5, CopyValid

-----------------------------------------------------------------------------
\* The two copies along the whole install and its undo, damage apart, until an
\* entry is given up.
THEOREM GptInvariant == Spec => [](Asked /\ GptInv)
<1>1. Init => Asked /\ GptInv BY GptStart
<1>2. LogInv /\ TabInv /\ StagesInv /\ (Asked /\ GptInv) /\ [Next]_vars => (Asked /\ GptInv)'
  <2>1. ASSUME LogInv, TabInv, StagesInv, Asked, GptInv, [Next]_vars PROVE Asked' /\ GptInv'
    BY <2>1, AskedKept, GptNext
  <2> QED BY <2>1
<1> QED BY <1>1, <1>2, LogSuffices, TableInvariant, StagesInvariant, PTL DEF Spec

\* For every valid GPT whose arrays lie between its headers, both copies stay
\* valid and keep every partition: after a finished install, and when the
\* unused entries were zero after each completed write, each failure and each
\* entry put back, until an entry is given up, wherever no torn write or lost
\* block has damaged the copy (the order in which bios_install zeroes entries,
\* writes the headers and then stage 2).
THEOREM GptIsNeverLost == Spec => []GptStaysValid
<1>1. LogInv /\ (Asked /\ GptInv) => GptStaysValid BY GptHolds
<1> QED BY <1>1, LogSuffices, GptInvariant, PTL

-----------------------------------------------------------------------------
(* The conversion of an ISOHYBRID's GPT.                                   *)

\* The used entries, and how many of them come before the k-th entry.
UsedOf(o) == {k \in Indexes : Used(o[Ent(1, k)])}
Rank(o, k) == Cardinality({x \in UsedOf(o) : x < k})

PartOf(e) ==
    [type |-> gpt2mbr_type(e[2]), lba_start |-> e[3], lba_end |-> e[4],
     chs_start |-> lba2chs(e[3]), chs_end |-> lba2chs(e[4])]
Convertible(e) == e[3] < UINT32 /\ e[4] < UINT32 /\ gpt2mbr_type(e[2]) # -1

\* List l holds the used entries below n, each at its rank.
Gathered(o, l, n) ==
    /\ IsSeq(l) /\ Len(l) <= 4 /\ Len(l) = Rank(o, n)
    /\ \A k \in UsedOf(o) : k < n =>
          Rank(o, k) + 1 \in 1..Len(l) /\ l[Rank(o, k) + 1] = PartOf(o[Ent(1, k)]) /\ Convertible(o[Ent(1, k)])
    /\ \A j \in 1..Len(l) : \E k \in UsedOf(o) : k < n /\ Rank(o, k) = j - 1

\* The used entries below the next number.
LEMMA RankNext ==
    ASSUME NEW o, NEW n \in Nat
    PROVE  /\ Rank(o, n) \in Nat
           /\ n \in UsedOf(o) => Rank(o, n + 1) = Rank(o, n) + 1
           /\ n \notin UsedOf(o) => Rank(o, n + 1) = Rank(o, n)
<1> DEFINE S == {x \in UsedOf(o) : x < n}
           T == {x \in UsedOf(o) : x < n + 1}
<1>0. UsedOf(o) \subseteq Nat BY DEF UsedOf, Indexes
<1>1. S \in SUBSET Nat /\ \A s \in S : s <= n BY <1>0
<1>2. IsFiniteSet(S) BY <1>1, FS_BoundedSetOfNaturals
<1>3. Rank(o, n) = Cardinality(S) /\ Rank(o, n + 1) = Cardinality(T) BY DEF Rank
<1>4. Cardinality(S) \in Nat BY <1>2, FS_CardinalityType
<1>5. ASSUME n \in UsedOf(o) PROVE T = S \cup {n} /\ n \notin S BY <1>0, <1>5
<1>6. ASSUME n \notin UsedOf(o) PROVE T = S BY <1>0, <1>6
<1> HIDE DEF S, T
<1>7. Cardinality(S \cup {n}) = IF n \in S THEN Cardinality(S) ELSE Cardinality(S) + 1
  BY <1>2, FS_AddElement
<1> QED BY <1>3, <1>4, <1>5, <1>6, <1>7

\* Before the first entry.
LEMMA GatheredNone == ASSUME NEW o PROVE Gathered(o, <<>>, 0)
<1>0. UsedOf(o) \subseteq Nat BY DEF UsedOf, Indexes
<1>1. {x \in UsedOf(o) : x < 0} = {} BY <1>0
<1>2. Rank(o, 0) = 0 BY <1>1, FS_EmptySet DEF Rank
<1>3. IsSeq(<<>>)
  <2>1. <<>> \in Seq({}) BY EmptySeq, Zenon
  <2> QED BY <2>1, Zenon DEF IsSeq
<1>4. Len(<<>>) = 0 BY EmptySeq
<1> QED BY <1>0, <1>2, <1>3, <1>4 DEF Gathered

\* An unused entry is passed over.
LEMMA GatheredSkip ==
    ASSUME NEW o, NEW l, NEW n \in Nat, Gathered(o, l, n), n \notin UsedOf(o)
    PROVE  Gathered(o, l, n + 1)
<1>0. \A k \in UsedOf(o) : k \in Nat /\ (k < n + 1 <=> k < n) BY DEF UsedOf, Indexes
<1>1. Rank(o, n + 1) = Rank(o, n) BY RankNext
<1> QED BY <1>0, <1>1 DEF Gathered

\* A used one becomes the last of the list.
LEMMA GatheredOne ==
    ASSUME NEW o, NEW l, NEW n \in Nat, Gathered(o, l, n), n \in UsedOf(o), Len(l) # 4,
           Convertible(o[Ent(1, n)])
    PROVE  Gathered(o, Append(l, PartOf(o[Ent(1, n)])), n + 1)
<1> DEFINE e == PartOf(o[Ent(1, n)])
           m == Append(l, e)
<1>0. \A k \in UsedOf(o) : k \in Nat /\ (k < n + 1 <=> k < n \/ k = n) BY DEF UsedOf, Indexes
<1>1. Rank(o, n + 1) = Rank(o, n) + 1 /\ Rank(o, n) \in Nat BY RankNext
<1>2. IsSeq(l) /\ Len(l) <= 4 /\ Len(l) = Rank(o, n) BY DEF Gathered
<1>3. /\ IsSeq(m) /\ Len(l) \in Nat /\ Len(m) = Len(l) + 1 /\ m[Len(l) + 1] = e
      /\ \A k \in 1..Len(l) : m[k] = l[k]
  <2> HIDE DEF e
  <2> QED BY <1>2, Appended
<1> HIDE DEF m, e
<1>4. Len(m) <= 4 /\ Len(m) = Rank(o, n + 1) BY <1>1, <1>2, <1>3
<1>5. ASSUME NEW k \in UsedOf(o), k < n + 1
      PROVE  /\ Rank(o, k) + 1 \in 1..Len(m) /\ m[Rank(o, k) + 1] = PartOf(o[Ent(1, k)])
             /\ Convertible(o[Ent(1, k)])
  <2>1. CASE k < n
    <3>1. Rank(o, k) + 1 \in 1..Len(l) /\ l[Rank(o, k) + 1] = PartOf(o[Ent(1, k)]) /\ Convertible(o[Ent(1, k)])
      BY <2>1 DEF Gathered
    <3> QED BY <1>3, <3>1
  <2>2. CASE k = n
    <3>1. Rank(o, k) + 1 = Len(m) /\ Len(m) \in 1..Len(m) BY <1>1, <1>2, <1>3, <2>2
    <3>2. m[Rank(o, k) + 1] = PartOf(o[Ent(1, k)]) BY <1>2, <1>3, <2>2 DEF e
    <3> QED BY <2>2, <3>1, <3>2
  <2> QED BY <1>0, <1>5, <2>1, <2>2
<1>6. ASSUME NEW j \in 1..Len(m) PROVE \E k \in UsedOf(o) : k < n + 1 /\ Rank(o, k) = j - 1
  <2>1. CASE j \in 1..Len(l)
    <3>1. PICK k \in UsedOf(o) : k < n /\ Rank(o, k) = j - 1 BY <2>1 DEF Gathered
    <3> QED BY <1>0, <3>1
  <2>2. CASE j = Len(l) + 1
    <3>1. n < n + 1 /\ Rank(o, n) = j - 1 BY <1>2, <1>3, <2>2
    <3> QED BY <3>1
  <2> QED BY <1>3, <2>1, <2>2
<1> QED BY <1>3, <1>4, <1>5, <1>6 DEF Gathered, m, e

\* A type that the table knows is no empty one.
LEMMA KnownType == ASSUME NEW g, gpt2mbr_type(g) # -1 PROVE gpt2mbr_type(g) \in {239, 7, 175}
<1> DEFINE hits == {k \in DOMAIN gpt2mbr_type_conv_table : gpt2mbr_type_conv_table[k][1] = g}
<1>1. hits # {} /\ gpt2mbr_type(g) = gpt2mbr_type_conv_table[Min(hits)][2] BY DEF gpt2mbr_type
<1>2. DOMAIN gpt2mbr_type_conv_table = {1, 2, 3} /\ \A k \in {1, 2, 3} : gpt2mbr_type_conv_table[k][1] = k
  BY DEF gpt2mbr_type_conv_table, EfiSystem, MicrosoftBasicData, Hfs
<1>3. PICK k \in {1, 2, 3} : hits = {k} BY <1>1, <1>2
<1>4. Min(hits) = k BY <1>3 DEF Min
<1> QED BY <1>1, <1>4 DEF gpt2mbr_type_conv_table

\* What a full list says of the partitions the disk had.
LEMMA GatheredParts ==
    ASSUME Base, Signed(orig), NEW l, Gathered(orig, l, NumEntries)
    PROVE  /\ Len(OrigParts) = Len(l) /\ Len(l) \in 0..4
           /\ \A j \in 1..Len(l) :
                 /\ l[j] = PartOf(OrigParts[j]) /\ OrigParts[j] \in {orig[Ent(1, k)] : k \in UsedOf(orig)}
                 /\ gpt2mbr_type(OrigParts[j][2]) > 0
                 /\ OrigParts[j][3] \in Nat /\ OrigParts[j][4] \in Nat /\ OrigParts[j][3] <= OrigParts[j][4]
                 /\ OrigParts[j][4] < UINT32 /\ OrigParts[j][3] > 0
                 /\ sect_count(l[j]) = OrigParts[j][4] - OrigParts[j][3] + 1
<1> DEFINE used == UsedOf(orig)
           at(j) == CHOOSE k \in used : Cardinality({x \in used : x < k}) = j - 1
<1>1. NumEntries \in Nat /\ UINT32 \in Nat BY GeometryAssumption, BeyondAssumption
<1>2. \A x \in used : x \in Nat /\ x < NumEntries BY <1>1 DEF UsedOf, Indexes
<1>3. {x \in used : x < NumEntries} = used BY <1>2
<1>4. Cardinality(used) = Len(l) /\ Len(l) \in 0..4
  <2>1. Rank(orig, NumEntries) = Cardinality(used) BY <1>3 DEF Rank
  <2>2. Rank(orig, NumEntries) \in Nat BY <1>1, RankNext
  <2>3. Len(l) <= 4 /\ Len(l) = Rank(orig, NumEntries) BY DEF Gathered
  <2> QED BY <2>1, <2>2, <2>3
<1>5. used = {k \in 0..(NumEntries - 1) : GptDisk /\ Used(orig[<<"ent1", k>>])}
  BY DEF UsedOf, Indexes, Ent, GptDisk, Signed, Hdr
<1>6. OrigParts = [j \in 1..Cardinality(used) |-> orig[<<"ent1", at(j)>>]] BY <1>5 DEF OrigParts
<1>7. \A j \in 1..Len(l) : at(j) \in used /\ Rank(orig, at(j)) = j - 1
  <2> SUFFICES ASSUME NEW j \in 1..Len(l) PROVE at(j) \in used /\ Rank(orig, at(j)) = j - 1 OBVIOUS
  <2>1. \E k \in used : Cardinality({x \in used : x < k}) = j - 1 BY DEF Gathered, Rank
  <2>2. at(j) \in used /\ Cardinality({x \in used : x < at(j)}) = j - 1 BY <2>1
  <2> QED BY <2>2 DEF Rank
<1> HIDE DEF at
<1>8. /\ Len(OrigParts) = Len(l)
      /\ \A j \in 1..Len(l) : OrigParts[j] = orig[Ent(1, at(j))]
  BY <1>4, <1>6 DEF Ent
<1>9. ValidGpt(orig) BY SignedValid
<1>10. ASSUME NEW j \in 1..Len(l)
       PROVE  /\ l[j] = PartOf(OrigParts[j]) /\ OrigParts[j] \in {orig[Ent(1, k)] : k \in used}
              /\ gpt2mbr_type(OrigParts[j][2]) > 0
              /\ OrigParts[j][3] \in Nat /\ OrigParts[j][4] \in Nat /\ OrigParts[j][3] <= OrigParts[j][4]
              /\ OrigParts[j][4] < UINT32 /\ OrigParts[j][3] > 0
              /\ sect_count(l[j]) = OrigParts[j][4] - OrigParts[j][3] + 1
  <2> DEFINE k == at(j)
             e == orig[Ent(1, k)]
  <2>1. k \in used /\ Rank(orig, k) = j - 1 /\ OrigParts[j] = e BY <1>7, <1>8
  <2>2. k < NumEntries BY <1>2, <2>1
  <2>3. Rank(orig, k) + 1 = j BY <1>4, <2>1
  <2>4. l[j] = PartOf(e) /\ Convertible(e) BY <2>1, <2>2, <2>3 DEF Gathered
  <2>5. Sound(e)
    <3>1. k \in 0..(NumEntries - 1) /\ Used(orig[<<"ent1", k>>]) /\ e = orig[<<"ent1", k>>]
      BY <2>1 DEF UsedOf, Indexes, Ent
    <3> HIDE DEF k, e
    <3> QED BY <1>9, <3>1 DEF ValidGpt
  <2>6. e \in {orig[Ent(1, x)] : x \in used} BY <2>1
  <2> HIDE DEF k, e
  <2>7. e[3] \in Nat /\ e[4] \in Nat /\ e[3] <= e[4] /\ e[3] > 0 /\ e[4] < UINT32
    BY <2>4, <2>5, GeometryAssumption DEF Sound, Convertible
  <2>8. gpt2mbr_type(e[2]) > 0 BY <2>4, KnownType DEF Convertible
  <2>9. sect_count(l[j]) = (e[4] - e[3] + 1) % UINT32 BY <2>4 DEF sect_count, PartOf
  <2>10. (e[4] - e[3] + 1) % UINT32 = e[4] - e[3] + 1
    <3>1. \A x, y, u \in Nat : x <= y /\ x > 0 /\ y < u => (y - x + 1) % u = y - x + 1 OBVIOUS
    <3> QED BY <1>1, <2>7, <3>1
  <2> QED BY <2>1, <2>4, <2>6, <2>7, <2>8, <2>9, <2>10
<1> QED BY <1>4, <1>8, <1>10

-----------------------------------------------------------------------------
(* The fields of a converted table.                                        *)

\* The fields of a converted table in the order they are written.
Columns == <<"type", "start", "count", "chs_start", "chs_end">>
Col(j) == <<Columns[(j % 5) + 1], j \div 5>>
FieldsOf(part) == <<<<part.type>>, <<part.lba_start>>, <<sect_count(part)>>, part.chs_start, part.chs_end>>
Val(l, j) == FieldsOf(l[(j \div 5) + 1])[(j % 5) + 1]

\* Device d has the first n of them, and no other.
Filled(l, d, n) == \A j \in 0..19 : d[Col(j)] = IF j < n THEN Val(l, j) ELSE Zero
Passive(d) == \A k \in 0..3 : d[Flag(k)] = Zero
Blank(d) == \A c \in Guarded : d[c] = Zero
Done(l, d) == Filled(l, d, 5 * Len(l)) /\ d[Flag(0)] = <<128>>

\* A field of the table overlaps no other.
LEMMA OwnCell ==
    ASSUME NEW b \in Guarded, NEW c \in Guarded, c \in Touched(Place(b)[1], Place(b)[2])
    PROVE  c = b
<1>1. Overlap(Place(c), <<Place(b)[1], Place(b)[2]>>) BY TouchedIs
<1>2. PICK n, m : /\ c = <<n, m>>
                  /\ \/ n = "time" /\ m = 0
                     \/ /\ n \in {"id", "flag", "chs_start", "type", "chs_end", "start", "count"}
                        /\ m \in 0..3
  BY GuardedIsMbr
<1>3. PICK p, q : /\ b = <<p, q>>
                  /\ \/ p = "time" /\ q = 0
                     \/ /\ p \in {"id", "flag", "chs_start", "type", "chs_end", "start", "count"}
                        /\ q \in 0..3
  BY GuardedIsMbr
<1> DEFINE At(s, x) ==
      IF s = "time" THEN <<218, 6>> ELSE IF s = "id" THEN <<440 + x, 1>>
      ELSE IF s = "flag" THEN <<446 + 16 * x, 1>> ELSE IF s = "chs_start" THEN <<446 + 16 * x + 1, 3>>
      ELSE IF s = "type" THEN <<446 + 16 * x + 4, 1>> ELSE IF s = "chs_end" THEN <<446 + 16 * x + 5, 3>>
      ELSE IF s = "start" THEN <<446 + 16 * x + 8, 4>> ELSE <<446 + 16 * x + 12, 4>>
<1>4. Place(c) = At(n, m) BY <1>2, GuardedPlace
<1>5. Place(b) = At(p, q) BY <1>3, GuardedPlace
<1>6. p = n /\ q = m BY <1>1, <1>2, <1>3, <1>4, <1>5 DEF Overlap
<1> QED BY <1>2, <1>3, <1>6

\* A field touches itself.
LEMMA SelfTouched ==
    ASSUME NEW b \in Guarded PROVE b \in Touched(Place(b)[1], Place(b)[2])
<1>1. Place(b)[1] \in Nat /\ Place(b)[2] \in Nat \ {0} BY GuardedPlace, GuardedIsMbr
<1>2. Overlap(Place(b), <<Place(b)[1], Place(b)[2]>>) BY <1>1 DEF Overlap
<1> QED BY <1>2, TouchedIs DEF Guarded

\* Writing one field of the table changes no other.
LEMMA FieldWritten ==
    ASSUME NEW b \in Guarded, NEW x, NEW d
    PROVE  /\ Apply(SetCell(b, x), d)[b] = x
           /\ \A c \in Guarded : c # b => Apply(SetCell(b, x), d)[c] = d[c]
<1> DEFINE S == Touched(Place(b)[1], Place(b)[2])
           p == SetCell(b, x)
<1>1. p = [c \in S |-> x] BY DEF SetCell, Fill
<1>2. b \in S /\ \A c \in Guarded : c \in S => c = b BY SelfTouched, OwnCell
<1> HIDE DEF S
<1>3. p[b] = x /\ DOMAIN p = S BY <1>1, <1>2
<1> HIDE DEF p
<1>4. \A c \in Guarded : Apply(p, d)[c] = IF c \in S THEN p[c] ELSE d[c] BY <1>3 DEF Apply, Guarded
<1> QED BY <1>2, <1>3, <1>4 DEF p

\* The columns are distinct fields of the table, and no flags.
LEMMA ColCell ==
    /\ \A j \in 0..19 : Col(j) \in Guarded /\ \A k \in 0..3 : Col(j) # Flag(k) /\ Col(j) # <<"id", k>>
    /\ \A j, k \in 0..19 : Col(j) = Col(k) => j = k
    /\ \A k \in 0..3 : /\ <<"type", k>> = Col(5 * k) /\ <<"start", k>> = Col(5 * k + 1)
                       /\ <<"count", k>> = Col(5 * k + 2) /\ <<"chs_start", k>> = Col(5 * k + 3)
                       /\ <<"chs_end", k>> = Col(5 * k + 4)
                       /\ <<"id", k>> \in Guarded /\ <<"id", k>> # Flag(0) /\ <<"id", k>> # Flag(1)
                       /\ <<"id", k>> # Flag(2) /\ <<"id", k>> # Flag(3)
<1>1. ASSUME NEW j \in 0..19 PROVE j % 5 \in 0..4 /\ j \div 5 \in 0..3 /\ j = 5 * (j \div 5) + (j % 5)
  <2>1. j % 5 \in 0..4 BY <1>1
  <2>2. j \div 5 \in Int /\ j = 5 * (j \div 5) + (j % 5) BY <1>1
  <2>3. \A q \in Int, r \in 0..4 : j = 5 * q + r => q \in 0..3 BY <1>1
  <2> QED BY <2>1, <2>2, <2>3
<1>2. /\ Columns[1] = "type" /\ Columns[2] = "start" /\ Columns[3] = "count"
      /\ Columns[4] = "chs_start" /\ Columns[5] = "chs_end"
  BY DEF Columns
<1>3. ASSUME NEW j \in 0..19
      PROVE  Col(j) \in Guarded /\ \A k \in 0..3 : Col(j) # Flag(k) /\ Col(j) # <<"id", k>>
  <2> DEFINE r == (j % 5) + 1
             q == j \div 5
  <2>1. r \in 1..5 /\ q \in 0..3 BY <1>1
  <2>2. Col(j) = <<Columns[r], q>> BY DEF Col
  <2> HIDE DEF r, q
  <2>3. Columns[r] \in {"type", "start", "count", "chs_start", "chs_end"} BY <1>2, <2>1
  <2>4. <<Columns[r], q>> \in MbrCells BY <2>1, <2>3 DEF MbrCells
  <2>5. <<Columns[r], q>> \in Guarded BY <2>3, <2>4, MbrAreCells DEF Guarded, TableNames
  <2> QED BY <2>2, <2>3, <2>5 DEF Flag
<1>4. ASSUME NEW j \in 0..19, NEW k \in 0..19, Col(j) = Col(k) PROVE j = k
  <2>1. /\ Columns[(j % 5) + 1] = Columns[(k % 5) + 1] /\ j \div 5 = k \div 5 BY <1>4 DEF Col
  <2>2. \A x, y \in 1..5 : Columns[x] = Columns[y] => x = y BY <1>2
  <2>3. j % 5 = k % 5 BY <1>1, <2>1, <2>2
  <2> QED BY <1>1, <2>1, <2>3
<1>5. ASSUME NEW k \in 0..3
      PROVE  /\ <<"type", k>> = Col(5 * k) /\ <<"start", k>> = Col(5 * k + 1)
             /\ <<"count", k>> = Col(5 * k + 2) /\ <<"chs_start", k>> = Col(5 * k + 3)
             /\ <<"chs_end", k>> = Col(5 * k + 4)
  <2>1. ASSUME NEW r \in 0..4 PROVE (5 * k + r) % 5 = r /\ (5 * k + r) \div 5 = k BY <2>1
  <2>2. \A r \in 0..4 : Col(5 * k + r) = <<Columns[r + 1], k>> BY <2>1 DEF Col
  <2>3. 5 * k + 0 = 5 * k OBVIOUS
  <2> QED BY <1>2, <2>2, <2>3
<1>6. ASSUME NEW k \in 0..3 PROVE <<"id", k>> \in Guarded
  <2>1. <<"id", k>> \in MbrCells BY DEF MbrCells
  <2> QED BY <2>1, MbrAreCells DEF Guarded, TableNames
<1> QED BY <1>3, <1>4, <1>5, <1>6 DEF Flag

\* What is said of a device carries over to one with the same table.
LEMMA SameTable ==
    ASSUME NEW d, NEW f, \A c \in Guarded : f[c] = d[c], NEW l
    PROVE  /\ Blank(d) => Blank(f)
           /\ Passive(d) => Passive(f)
           /\ \A n : Filled(l, d, n) => Filled(l, f, n)
           /\ Done(l, d) => Done(l, f)
<1>1. \A j \in 0..19 : f[Col(j)] = d[Col(j)] BY ColCell
<1>2. \A k \in 0..3 : f[Flag(k)] = d[Flag(k)] BY FlagCell
<1>3. \A n : Filled(l, d, n) => Filled(l, f, n) BY <1>1 DEF Filled
<1>4. 0 \in 0..3 OBVIOUS
<1> QED BY <1>2, <1>3, <1>4 DEF Blank, Passive, Done

\* A cleared table.
LEMMA BlankIs ==
    ASSUME NEW d, Blank(d), NEW l PROVE Filled(l, d, 0) /\ Passive(d)
<1>1. \A j \in 0..19 : ~(j < 0) OBVIOUS
<1> QED BY <1>1, ColCell, FlagCell DEF Blank, Filled, Passive

\* The disk ID is no part of what is filled in.
LEMMA IdWritten ==
    ASSUME NEW d, NEW l, NEW n, Filled(l, d, n), Passive(d), NEW k \in 0..3, NEW x
    PROVE  Filled(l, Apply(SetCell(<<"id", k>>, x), d), n) /\ Passive(Apply(SetCell(<<"id", k>>, x), d))
<1> DEFINE f == Apply(SetCell(<<"id", k>>, x), d)
           b == <<"id", k>>
<1>1. b \in Guarded BY ColCell
<1>2. \A c \in Guarded : c # b => f[c] = d[c] BY <1>1, FieldWritten
<1> HIDE DEF f
<1>3. \A j \in 0..19 : f[Col(j)] = d[Col(j)] BY <1>2, ColCell
<1>4. \A m \in 0..3 : f[Flag(m)] = d[Flag(m)] BY <1>2, FlagCell DEF Flag
<1> QED BY <1>3, <1>4 DEF Filled, Passive, f

\* The next field is filled in.
LEMMA ColWritten ==
    ASSUME NEW d, NEW l, NEW n \in 0..19, Filled(l, d, n), Passive(d)
    PROVE  /\ Filled(l, Apply(SetCell(Col(n), Val(l, n)), d), n + 1)
           /\ Passive(Apply(SetCell(Col(n), Val(l, n)), d))
<1> DEFINE x == Val(l, n)
           b == Col(n)
           f == Apply(SetCell(b, x), d)
<1>1. b \in Guarded BY ColCell
<1> HIDE DEF x
<1>2. f[b] = x /\ \A c \in Guarded : c # b => f[c] = d[c] BY <1>1, FieldWritten
<1> HIDE DEF f
<1>3. \A j \in 0..19 : j # n => f[Col(j)] = d[Col(j)] BY <1>2, ColCell
<1>4. \A j \in 0..19 : (j < n + 1 <=> j < n \/ j = n) /\ (j < n => j # n) OBVIOUS
<1>5. Filled(l, f, n + 1) BY <1>2, <1>3, <1>4 DEF Filled, x
<1>6. \A m \in 0..3 : f[Flag(m)] = d[Flag(m)] BY <1>2, ColCell, FlagCell
<1> QED BY <1>5, <1>6 DEF Passive, f, x

\* The active flag is the last thing missing.
LEMMA ActiveWritten ==
    ASSUME NEW d, NEW l, Filled(l, d, 5 * Len(l)) PROVE Done(l, Apply(SetCell(Flag(0), <<128>>), d))
<1> DEFINE f == Apply(SetCell(Flag(0), <<128>>), d)
           b == Flag(0)
           x == <<128>>
<1>0. 0 \in 0..3 OBVIOUS
<1>1. b \in Guarded BY <1>0, FlagCell
<1>2. f[b] = x /\ \A c \in Guarded : c # b => f[c] = d[c]
  <2> HIDE DEF b, x
  <2>1. Apply(SetCell(b, x), d)[b] = x /\ \A c \in Guarded : c # b => Apply(SetCell(b, x), d)[c] = d[c]
    BY <1>1, FieldWritten
  <2> QED BY <2>1 DEF b, x
<1> HIDE DEF f
<1>3. \A j \in 0..19 : f[Col(j)] = d[Col(j)] BY <1>0, <1>2, ColCell
<1> QED BY <1>2, <1>3 DEF Filled, Done, f

-----------------------------------------------------------------------------
(* The inductive invariant and the steps of the conversion.                *)

\* The steps a conversion passes through.
ConvPcs ==
    {"nuke1", "nuke2", "diskid", "convert", "layout", "cleanup", "undo", "undone"} \cup MbrPcs \cup LastPcs
ReadPcs == {"secondary", "iso", "gather", "nuke1"}

\* What the device holds while the table is rewritten.
Rewritten ==
    /\ pc \in ConvPcs
    /\ pc \in {"nuke1", "nuke2"} => Blank(view)
    /\ pc = "diskid" => i <= 3 /\ Filled(v.part_to_conv, view, 0) /\ Passive(view)
    /\ pc = "convert" => i < 5 * Len(v.part_to_conv) /\ Filled(v.part_to_conv, view, i) /\ Passive(view)
    /\ pc \in MbrPcs => Filled(v.part_to_conv, view, 5 * Len(v.part_to_conv)) /\ Passive(view)
    /\ pc = "layout" => ~v.gpt /\ (v.mbr => Done(v.part_to_conv, view))
    /\ pc \in {"save", "flush", "installed"} => Done(v.part_to_conv, view)
    /\ pc = "write" => Done(v.part_to_conv, v.saved)
    /\ pc = "write" /\ i = 8 => \A c \in Touched(218, 6) : view[c] = v.saved[c]

ConvInv ==
    /\ v.gpt \/ v.converting \/ pc = "nuke1" => ~v.any_active
    /\ pc \in {"secondary", "iso"} => v.part_to_conv = <<>>
    /\ pc \in {"iso", "gather", "nuke1"} \/ v.converting => Signed(orig)
    /\ pc = "gather" => Gathered(orig, v.part_to_conv, i)
    /\ pc = "nuke1" \/ v.converting => Gathered(orig, v.part_to_conv, NumEntries)
    /\ pc = "nuke1" /\ ~v.converting => i = 0
    /\ v.converting => Rewritten

\* A step after the conversion or without one.
LEMMA ConvKept ==
    ASSUME ConvInv, orig' = orig, v'.part_to_conv = v.part_to_conv, v'.converting = v.converting,
           v'.gpt => v.gpt, v'.any_active = v.any_active, pc' \notin ReadPcs, v.converting => Rewritten'
    PROVE  ConvInv'
BY DEF ConvInv, ReadPcs

\* A step of an install that converts nothing.
LEMMA ConvIdle ==
    ASSUME ~v'.converting, ~v'.gpt, pc' \notin ReadPcs PROVE ConvInv'
BY DEF ConvInv, ReadPcs

\* The end of an install.
LEMMA ConvOver ==
    ASSUME ConvInv, orig' = orig, v'.part_to_conv = v.part_to_conv, v'.converting = v.converting,
           v'.gpt => v.gpt, v'.any_active = v.any_active, pc' \in {"cleanup", "undo", "undone"}
    PROVE  ConvInv'
<1>1. Rewritten' BY DEF Rewritten, ConvPcs, MbrPcs, LastPcs
<1> QED BY <1>1, ConvKept DEF ReadPcs

\* The first steps.
LEMMA ConvProbe == ASSUME TabInv, ConvInv, ProbeGpt PROVE ConvInv'
<1>0. Base /\ pc = "probe" /\ v = Locals BY DEF TabInv, Locality, ProbeGpt
<1>1. v.part_to_conv = <<>> /\ v.converting = FALSE /\ v.any_active = FALSE /\ v.gpt = FALSE
  BY <1>0 DEF Locals
<1>2. CASE Goto("flag", 0) /\ v' = v
  <2>1. pc' = "flag" BY <1>2, Went
  <2> QED BY <1>1, <1>2, <2>1, ConvIdle DEF ReadPcs
<1>3. CASE Goto("cleanup", 0) /\ v' = v
  <2>1. pc' = "cleanup" BY <1>3, Went
  <2> QED BY <1>1, <1>3, <2>1, ConvIdle DEF ReadPcs
<1>4. CASE Goto("secondary", 0) /\ v' = [v EXCEPT !.gpt = TRUE, !.header1 = view[<<"hdr", 1>>]]
  <2>1. pc' = "secondary" BY <1>4, Went
  <2>2. v'.part_to_conv = <<>> /\ v'.converting = FALSE /\ v'.any_active = FALSE
    BY <1>0, <1>1, <1>4 DEF Base, Locals
  <2> QED BY <2>1, <2>2 DEF ConvInv
<1> QED BY <1>2, <1>3, <1>4 DEF ProbeGpt

\* While a GPT is read nothing is converted yet.
LEMMA ConvReading ==
    ASSUME ConvInv, pc \in GptPcs PROVE ~v.converting
BY DEF ConvInv, Rewritten, ConvPcs, MbrPcs, LastPcs, GptPcs

\* Two signatures.
LEMMA ConvSecondary == ASSUME TabInv, StagesInv, ConvInv, ReadSecondary PROVE ConvInv'
<1>0. Base /\ pc = "secondary" /\ v.gpt BY DEF TabInv, Locality, GptPcs, ReadSecondary
<1>1. v.part_to_conv = <<>> /\ ~v.converting /\ ~v.any_active
  BY <1>0, ConvReading DEF ConvInv, GptPcs
<1>2. CASE HasSignature(view[<<"hdr", 2>>])
  <2>1. Goto("iso", 0) /\ v' = [v EXCEPT !.header2 = view[<<"hdr", 2>>]] BY <1>2 DEF ReadSecondary
  <2>2. pc' = "iso" /\ orig' = orig BY <2>1, Went
  <2>3. /\ v'.part_to_conv = v.part_to_conv /\ v'.converting = v.converting /\ v'.any_active = v.any_active
    BY <1>0, <2>1 DEF Base, Locals
  <2>4. Signed(orig) BY <1>0, <1>2 DEF StagesInv, Untouched, Signed, HasSignature, Hdr
  <2> QED BY <1>1, <2>2, <2>3, <2>4 DEF ConvInv
<1>3. CASE ~HasSignature(view[<<"hdr", 2>>])
  <2>1. Goto("cleanup", 0) /\ v' = v BY <1>3 DEF ReadSecondary
  <2>2. pc' = "cleanup" /\ orig' = orig BY <2>1, Went
  <2> QED BY <2>1, <2>2, ConvOver
<1> QED BY <1>2, <1>3

\* The start of the loop over the entries.
LEMMA ConvIso == ASSUME TabInv, ConvInv, DetectIso PROVE ConvInv'
<1>0. Base /\ pc = "iso" /\ v' = v BY DEF TabInv, DetectIso
<1>1. v.part_to_conv = <<>> /\ ~v.converting /\ Signed(orig)
  BY <1>0, ConvReading DEF ConvInv, GptPcs
<1>2. CASE Goto("gather", 0)
  <2>1. pc' = "gather" /\ orig' = orig /\ i' = 0 BY <1>2, Went
  <2>2. Gathered(orig, v.part_to_conv, 0) BY <1>1, GatheredNone
  <2> QED BY <1>0, <1>1, <2>1, <2>2 DEF ConvInv
<1>3. CASE Goto("layout", 0)
  <2>1. pc' = "layout" /\ orig' = orig BY <1>3, Went
  <2> QED BY <1>0, <1>1, <2>1, ConvKept DEF ReadPcs
<1> QED BY <1>2, <1>3 DEF DetectIso

\* One entry.
LEMMA ConvGather == ASSUME TabInv, StagesInv, GptInv, ConvInv, GatherEntry PROVE ConvInv'
<1>0. Base /\ pc = "gather" /\ v.gpt /\ i \in Nat BY DEF TabInv, Locality, GptPcs, GatherEntry, Base
<1>1. /\ ~v.converting /\ Signed(orig) /\ Gathered(orig, v.part_to_conv, i) /\ ~v.any_active
      /\ view = orig
  BY <1>0, ConvReading DEF ConvInv, GptPcs, StagesInv, Untouched
<1>2. v.header1[2] = NumEntries /\ NumEntries \in Nat
  <2>1. v.header1 = orig[Hdr(1)] BY <1>0, <1>1 DEF GptInv, StageOf, Untouched
  <2>2. \E x : orig[Hdr(1)] = Header(NumEntries, x) BY <1>0, <1>1, SignedValid DEF ValidGpt, Hdr
  <2> QED BY <2>1, <2>2, GeometryAssumption DEF Header
<1> DEFINE e == Entry(i)
<1>3. CASE Goto("nuke1", 0) /\ i >= NumEntries /\ v' = v
  <2>1. pc' = "nuke1" /\ i' = 0 /\ orig' = orig BY <1>3, Went
  <2>2. Gathered(orig, v.part_to_conv, NumEntries)
    <3>1. \A k \in UsedOf(orig) : k \in Nat /\ k < NumEntries /\ k < i
      BY <1>0, <1>2, <1>3 DEF UsedOf, Indexes
    <3>2. {x \in UsedOf(orig) : x < i} = {x \in UsedOf(orig) : x < NumEntries} BY <3>1
    <3>3. Rank(orig, i) = Rank(orig, NumEntries) BY <3>2 DEF Rank
    <3> QED BY <1>1, <3>1, <3>3 DEF Gathered
  <2> QED BY <1>1, <1>3, <2>1, <2>2 DEF ConvInv
<1>4. CASE i < NumEntries
  <2>0. i \in Indexes BY <1>0, <1>2, <1>4 DEF Indexes
  <2>1. e = orig[Ent(1, i)]
    <3>1. <<"ent1", i>> \in Cells BY <2>0 DEF Indexes, Cells, FineCells
    <3> QED BY <1>1, <3>1 DEF Entry, Ent
  <2>2. i \in UsedOf(orig) <=> Used(e) BY <2>0, <2>1 DEF UsedOf
  <2>3. CASE ~Used(e) /\ Goto("gather", i + 1) /\ v' = v
    <3>1. pc' = "gather" /\ i' = i + 1 /\ orig' = orig BY <2>3, Went
    <3>2. Gathered(orig, v.part_to_conv, i + 1) BY <1>0, <1>1, <2>2, <2>3, GatheredSkip
    <3> QED BY <1>1, <2>3, <3>1, <3>2 DEF ConvInv
  <2>4. CASE /\ Used(e) /\ Convertible(e) /\ Len(v.part_to_conv) # 4 /\ Goto("gather", i + 1)
             /\ v' = [v EXCEPT !.part_to_conv = Append(@, PartOf(e))]
    <3>1. pc' = "gather" /\ i' = i + 1 /\ orig' = orig BY <2>4, Went
    <3> DEFINE parts == Append(v.part_to_conv, PartOf(orig[Ent(1, i)]))
    <3>2. Gathered(orig, parts, i + 1) BY <1>0, <1>1, <2>1, <2>2, <2>4, GatheredOne
    <3>3. v' = [v EXCEPT !.part_to_conv = parts] BY <2>1, <2>4
    <3> HIDE DEF parts
    <3>4. v'.part_to_conv = parts /\ v'.converting = v.converting /\ v'.any_active = v.any_active
      BY <1>0, <3>3 DEF Base, Locals
    <3> QED BY <1>1, <3>1, <3>2, <3>4 DEF ConvInv
  <2>5. CASE (Goto("layout", 0) \/ Goto("undefined", 0)) /\ v' = v
    <3>1. pc' \in {"layout", "undefined"} /\ orig' = orig BY <2>5, Went
    <3> QED BY <1>1, <2>5, <3>1, ConvKept DEF ReadPcs
  <2>6. \/ ~Used(e) /\ Goto("gather", i + 1) /\ v' = v
        \/ (Goto("layout", 0) \/ Goto("undefined", 0)) /\ v' = v
        \/ /\ Used(e) /\ ~(e[3] >= UINT32) /\ ~(e[4] >= UINT32) /\ gpt2mbr_type(e[2]) # -1
           /\ Len(v.part_to_conv) # 4 /\ Goto("gather", i + 1)
           /\ v' = [v EXCEPT !.part_to_conv = Append(@, PartOf(e))]
    <3>1. ~(i >= v.header1[2]) BY <1>0, <1>2, <1>4
    <3> QED BY <3>1, Zenon DEF GatherEntry, PartOf
  <2>7. Used(e) /\ ~(e[3] >= UINT32) /\ ~(e[4] >= UINT32) /\ gpt2mbr_type(e[2]) # -1 => Convertible(e)
    <3>1. Used(e) => Sound(e)
      <4>1. i \in 0..(NumEntries - 1) /\ e = orig[<<"ent1", i>>] BY <2>0, <2>1 DEF Indexes, Ent
      <4> HIDE DEF e
      <4> QED BY <1>0, <1>1, <4>1, SignedValid DEF ValidGpt
    <3> HIDE DEF e
    <3>2. Used(e) => e[3] \in Nat /\ e[4] \in Nat BY <3>1 DEF Sound
    <3> QED BY <3>2, BeyondAssumption DEF Convertible
  <2> QED BY <2>3, <2>4, <2>5, <2>6, <2>7
<1>5. ~(i < NumEntries) => Goto("nuke1", 0) /\ i >= NumEntries /\ v' = v
  BY <1>0, <1>2 DEF GatherEntry
<1> QED BY <1>3, <1>4, <1>5

\* A write of a loop, or a full log.
LEMMA Looped ==
    ASSUME NEW p, NEW times, NEW after, Loop(p, times, after)
    PROVE  /\ orig' = orig
           /\ \/ i + 1 < times /\ pc' = pc /\ i' = i + 1 /\ view' = Apply(p, view)
              \/ ~(i + 1 < times) /\ pc' = after /\ i' = 0 /\ view' = Apply(p, view)
              \/ pc' = "cleanup" /\ i' = 0 /\ view' = view
<1>1. CASE i + 1 < times
  <2>1. DeviceWrite(p, pc, i + 1) BY <1>1 DEF Loop
  <2> QED BY <1>1, <2>1, Wrote
<1>2. CASE ~(i + 1 < times)
  <2>1. DeviceWrite(p, after, 0) BY <1>2 DEF Loop
  <2> QED BY <1>2, <2>1, Wrote
<1> QED BY <1>1, <1>2

\* Clearing a block clears the table or misses it.
LEMMA BlockCleared ==
    ASSUME NEW n \in Nat, NEW d, n = 0 \/ Blank(d)
    PROVE  Blank(Apply(Fill(n * LbSize, LbSize, Zero), d))
<1> DEFINE S == Touched(n * LbSize, LbSize)
           p == Fill(n * LbSize, LbSize, Zero)
<1>1. p = [c \in S |-> Zero] BY DEF Fill
<1>2. n = 0 => Guarded \subseteq S
  <2> SUFFICES ASSUME n = 0, NEW c \in Guarded PROVE c \in S OBVIOUS
  <2>1. /\ Place(c)[1] \in Nat /\ Place(c)[2] \in Nat \ {0} /\ Place(c)[1] < 512
    BY GuardedPlace, GuardedIsMbr
  <2>2. LbSize \in Nat /\ LbSize >= 512 BY GeometryAssumption
  <2>3. n * LbSize = 0 BY <2>2
  <2>4. Overlap(Place(c), <<0, LbSize>>) BY <2>1, <2>2 DEF Overlap
  <2> QED BY <2>3, <2>4, TouchedIs DEF Guarded
<1> HIDE DEF S
<1>3. DOMAIN p = S /\ \A c \in S : p[c] = Zero BY <1>1
<1> HIDE DEF p
<1>4. \A c \in Guarded : Apply(p, d)[c] = IF c \in S THEN Zero ELSE d[c] BY <1>3 DEF Apply, Guarded
<1> QED BY <1>2, <1>4 DEF Blank, p

\* The blocks of the primary GPT, the table's among them.
LEMMA ConvNuke1 == ASSUME TabInv, ConvInv, NukePrimary PROVE ConvInv'
<1>0. Base /\ pc = "nuke1" /\ i \in Nat BY DEF TabInv, Base, NukePrimary
<1> DEFINE p == Fill(i * LbSize, LbSize, Zero)
<1>1. Loop(p, 34, "nuke2") /\ v' = [v EXCEPT !.converting = TRUE] BY DEF NukePrimary
<1>2. /\ v'.part_to_conv = v.part_to_conv /\ v'.converting = TRUE /\ v'.any_active = v.any_active
      /\ v'.gpt = v.gpt
  BY <1>0, <1>1 DEF Base, Locals
<1>3. i = 0 \/ Blank(view) BY <1>0 DEF ConvInv, Rewritten
<1>4. Blank(Apply(p, view)) BY <1>0, <1>3, BlockCleared
<1> HIDE DEF p
<1>5. /\ orig' = orig /\ pc' \in {"nuke1", "nuke2", "cleanup"}
      /\ pc' # "cleanup" => view' = Apply(p, view)
  BY <1>0, <1>1, Looped
<1>6. Rewritten' BY <1>4, <1>5 DEF Rewritten, ConvPcs, MbrPcs, LastPcs
<1>7. Signed(orig) /\ Gathered(orig, v.part_to_conv, NumEntries) BY <1>0 DEF ConvInv
<1>8. ~v.any_active BY <1>0 DEF ConvInv
<1> QED BY <1>2, <1>5, <1>6, <1>7, <1>8 DEF ConvInv

\* The blocks of the secondary one lie behind the table.
LEMMA ConvNuke2 == ASSUME TabInv, ConvInv, NukeSecondary PROVE ConvInv'
<1>0. Base /\ pc = "nuke2" /\ i \in Nat /\ v.converting /\ v' = v
  BY DEF TabInv, Base, NukeSecondary, Locality
<1> DEFINE n == LastLba - 32 + i
           p == Fill(n * LbSize, LbSize, Zero)
<1>1. Loop(p, 33, "diskid") BY DEF NukeSecondary
<1>2. n \in Nat BY <1>0, GptAssumption, GeometryAssumption
<1>3. Blank(view) BY <1>0 DEF ConvInv, Rewritten
<1> HIDE DEF n
<1>4. Blank(Apply(p, view)) BY <1>2, <1>3, BlockCleared
<1> HIDE DEF p
<1>5. /\ orig' = orig /\ pc' \in {"nuke2", "diskid", "cleanup"}
      /\ pc' # "cleanup" => view' = Apply(p, view)
      /\ pc' = "diskid" => i' = 0
  BY <1>0, <1>1, Looped
<1>6. pc' # "cleanup" => Filled(v.part_to_conv, view', 0) /\ Passive(view') BY <1>4, <1>5, BlankIs
<1>7. Rewritten' BY <1>0, <1>4, <1>5, <1>6 DEF Rewritten, ConvPcs, MbrPcs, LastPcs
<1> QED BY <1>0, <1>5, <1>7, ConvKept DEF ReadPcs

\* The four bytes of the disk ID.
LEMMA ConvDiskId == ASSUME TabInv, ConvInv, WriteDiskId PROVE ConvInv'
<1>0. Base /\ pc = "diskid" /\ i \in Nat /\ v.converting
  BY DEF TabInv, Base, WriteDiskId, Locality
<1> DEFINE l == v.part_to_conv
           p == SetCell(<<"id", i>>, <<3>>)
           after == IF l = <<>> THEN "flag" ELSE "convert"
<1>1. Loop(p, 4, after) /\ v' = [v EXCEPT !.gpt = FALSE] BY DEF WriteDiskId
<1>2. /\ v'.part_to_conv = l /\ v'.converting = v.converting /\ v'.any_active = v.any_active
      /\ v'.gpt = FALSE
  BY <1>0, <1>1 DEF Base, Locals
<1>3. i \in 0..3 /\ Filled(l, view, 0) /\ Passive(view) BY <1>0 DEF ConvInv, Rewritten
<1>4. Filled(l, Apply(p, view), 0) /\ Passive(Apply(p, view))
  <2> DEFINE x == <<3>>
  <2> HIDE DEF x
  <2>1. Filled(l, Apply(SetCell(<<"id", i>>, x), view), 0) /\ Passive(Apply(SetCell(<<"id", i>>, x), view))
    BY <1>3, IdWritten
  <2> QED BY <2>1 DEF x
<1> HIDE DEF p
<1>5. /\ orig' = orig
      /\ \/ pc' = "diskid" /\ i' = i + 1 /\ i + 1 < 4 /\ view' = Apply(p, view)
         \/ pc' = after /\ i' = 0 /\ view' = Apply(p, view)
         \/ pc' = "cleanup"
  BY <1>0, <1>1, Looped
<1>6. /\ l = <<>> => 5 * Len(l) = 0
      /\ l # <<>> => 0 < 5 * Len(l)
  <2>1. IsSeq(l) BY <1>0 DEF ConvInv, Gathered
  <2>2. l = <<>> => Len(l) = 0 BY EmptySeq
  <2>3. l # <<>> => Len(l) \in Nat \ {0} BY <2>1, Popped
  <2> QED BY <2>2, <2>3
<1>7. Rewritten'
  <2>1. CASE pc' = "diskid" BY <1>2, <1>3, <1>4, <1>5, <2>1 DEF Rewritten, ConvPcs, MbrPcs, LastPcs
  <2>2. CASE pc' = "cleanup" BY <2>2 DEF Rewritten, ConvPcs, MbrPcs, LastPcs
  <2>3. CASE pc' = after /\ i' = 0 /\ view' = Apply(p, view)
    BY <1>2, <1>4, <1>6, <2>3 DEF Rewritten, ConvPcs, MbrPcs, LastPcs
  <2> QED BY <1>5, <2>1, <2>2, <2>3
<1> QED BY <1>0, <1>2, <1>5, <1>7, ConvKept DEF ReadPcs

\* One field of one partition.
LEMMA ConvConvert == ASSUME TabInv, ConvInv, ConvertPartition PROVE ConvInv'
<1>0. Base /\ pc = "convert" /\ i \in Nat /\ v.converting /\ v' = v
  BY DEF TabInv, Base, ConvertPartition, Locality
<1> DEFINE l == v.part_to_conv
           part == l[(i \div 5) + 1]
           fields == <<<<"type", <<part.type>>>>, <<"start", <<part.lba_start>>>>,
                       <<"count", <<sect_count(part)>>>>,
                       <<"chs_start", part.chs_start>>, <<"chs_end", part.chs_end>>>>
           f == fields[(i % 5) + 1]
           p == SetCell(Col(i), Val(l, i))
<1>1. /\ Gathered(orig, l, NumEntries) /\ i < 5 * Len(l) /\ Filled(l, view, i) /\ Passive(view)
  BY <1>0 DEF ConvInv, Rewritten
<1>2. Len(l) \in 0..4 BY <1>1, RankNext, GeometryAssumption DEF Gathered
<1>3. i \in 0..19
  <2>1. \A n \in 0..4 : i < 5 * n => i \in 0..19 BY <1>0
  <2> QED BY <1>1, <1>2, <2>1
<1>4. f[1] = Columns[(i % 5) + 1] /\ f[2] = Val(l, i)
  <2>1. (i % 5) + 1 \in 1..5 BY <1>0
  <2>2. \A r \in 1..5 : fields[r][1] = Columns[r] /\ fields[r][2] = FieldsOf(part)[r]
    <3> HIDE DEF part
    <3> QED BY DEF Columns, FieldsOf
  <2> HIDE DEF fields
  <2> QED BY <2>1, <2>2 DEF Val
<1>5. Loop(p, 5 * Len(l), "flag")
  <2>1. Loop(SetCell(<<f[1], i \div 5>>, f[2]), 5 * Len(l), "flag") BY DEF ConvertPartition
  <2>2. SetCell(<<f[1], i \div 5>>, f[2]) = p BY <1>4 DEF Col
  <2> QED BY <2>1, <2>2
<1>6. Filled(l, Apply(p, view), i + 1) /\ Passive(Apply(p, view)) BY <1>1, <1>3, ColWritten
<1> HIDE DEF p
<1>7. /\ orig' = orig
      /\ \/ i + 1 < 5 * Len(l) /\ pc' = "convert" /\ i' = i + 1 /\ view' = Apply(p, view)
         \/ ~(i + 1 < 5 * Len(l)) /\ pc' = "flag" /\ i' = 0 /\ view' = Apply(p, view)
         \/ pc' = "cleanup"
  BY <1>0, <1>5, Looped
<1>8. ~(i + 1 < 5 * Len(l)) => i + 1 = 5 * Len(l) BY <1>0, <1>1, <1>2
<1>9. Rewritten'
  <2>1. CASE pc' = "convert" BY <1>0, <1>6, <1>7, <2>1 DEF Rewritten, ConvPcs, MbrPcs, LastPcs
  <2>2. CASE pc' = "cleanup" BY <2>2 DEF Rewritten, ConvPcs, MbrPcs, LastPcs
  <2>3. CASE pc' = "flag" BY <1>0, <1>6, <1>7, <1>8, <2>3 DEF Rewritten, ConvPcs, MbrPcs, LastPcs
  <2> QED BY <1>7, <2>1, <2>2, <2>3
<1> QED BY <1>0, <1>7, <1>9, ConvKept DEF ReadPcs

\* A step of the sanity checks on a converted table.
LEMMA ConvChecks ==
    ASSUME ConvInv, pc \in MbrPcs, pc' \in MbrPcs, orig' = orig, \A c \in Guarded : view'[c] = view[c],
           v'.part_to_conv = v.part_to_conv, v'.converting = v.converting, v'.gpt => v.gpt,
           v'.any_active = v.any_active
    PROVE  ConvInv'
<1>1. ASSUME v.converting PROVE Rewritten'
  <2>1. Filled(v.part_to_conv, view, 5 * Len(v.part_to_conv)) /\ Passive(view)
    BY <1>1 DEF ConvInv, Rewritten
  <2>2. Filled(v.part_to_conv, view', 5 * Len(v.part_to_conv)) /\ Passive(view')
    <3> DEFINE l == v.part_to_conv
               d == view
               f == view'
    <3> HIDE DEF l, d, f
    <3>1. \A c \in Guarded : f[c] = d[c] BY DEF d, f
    <3>2. Filled(l, d, 5 * Len(l)) /\ Passive(d) BY <2>1 DEF l, d
    <3>3. Passive(f) /\ \A n : Filled(l, d, n) => Filled(l, f, n) BY <3>1, <3>2, SameTable
    <3>4. Filled(l, f, 5 * Len(l)) BY <3>2, <3>3
    <3> QED BY <3>3, <3>4 DEF l, f
  <2> QED BY <2>2 DEF Rewritten, ConvPcs, MbrPcs
<1> QED BY <1>1, ConvKept DEF ReadPcs, MbrPcs

\* No flag of a converted table is set.
LEMMA ConvFlag == ASSUME TabInv, ConvInv, CheckFlag PROVE ConvInv'
<1>0. /\ Base /\ pc = "flag" /\ i \in 0..3 /\ ~v.gpt
  BY DEF TabInv, CheckFlag, Locality, MbrPcs, Base
<1> DEFINE flag == view[Flag(i)][1]
           masked == IF flag >= 128 THEN 128 ELSE 0
           ok == flag \in {0, 128}
           fits == ok \/ opts.force_mbr
<1>1. v' = [v EXCEPT !.mbr = (i = 0 \/ @) /\ fits, !.any_active = @ \/ masked = 128]
  BY DEF CheckFlag, Flag
<1>2. \/ /\ ~ok /\ opts.force_mbr
         /\ DeviceWrite(SetCell(Flag(i), <<masked>>), "first", i)
      \/ ~(~ok /\ opts.force_mbr) /\ Goto("first", i)
  BY DEF CheckFlag, Flag
<1>3. /\ v'.any_active = (v.any_active \/ masked = 128) /\ v'.gpt = v.gpt
      /\ v'.converting = v.converting /\ v'.part_to_conv = v.part_to_conv
  BY <1>0, <1>1 DEF Base, Locals
<1>4. CASE ~v.converting
  <2>1. pc' \in {"first", "cleanup"} BY <1>2, Wrote, Went
  <2> QED BY <1>0, <1>3, <1>4, <2>1, ConvIdle DEF ReadPcs
<1>5. CASE v.converting
  <2>1. view[Flag(i)] = Zero BY <1>0, <1>5 DEF ConvInv, Rewritten, MbrPcs, Passive
  <2>2. flag = 0 BY <2>1 DEF Zero
  <2> HIDE DEF flag
  <2>3. ok /\ masked = 0 BY <2>2
  <2>4. Goto("first", i) BY <1>2, <2>3
  <2>5. orig' = orig /\ view' = view /\ pc' = "first" BY <2>4, Went
  <2>6. v'.any_active = v.any_active
    <3>1. ~v.any_active BY <1>5 DEF ConvInv
    <3>2. v.any_active \in BOOLEAN BY <1>0 DEF Base
    <3>3. ~(masked = 128) BY <2>3
    <3> HIDE DEF masked
    <3> QED BY <1>3, <3>1, <3>2, <3>3, Zenon
  <2> QED BY <1>0, <1>3, <2>5, <2>6, ConvChecks DEF MbrPcs
<1> QED BY <1>4, <1>5

\* The first sectors.
LEMMA ConvFirst == ASSUME TabInv, ConvInv, CheckFirstSector PROVE ConvInv'
<1>0. pc = "first" /\ v' = v BY DEF CheckFirstSector
<1>1. PICK next, n : Goto(next, n) /\ next \in {"cleanup", "flag", "fs"}
  <2>1. \E next, n : Goto(next, n) /\ next \in {"cleanup", "flag", "fs"} BY DEF CheckFirstSector
  <2> QED BY <2>1
<1>2. orig' = orig /\ view' = view /\ pc' = next BY <1>1, Went
<1>3. CASE next = "cleanup" BY <1>0, <1>2, <1>3, ConvOver
<1>4. CASE next # "cleanup" BY <1>0, <1>1, <1>2, <1>4, ConvChecks DEF MbrPcs
<1> QED BY <1>3, <1>4

\* The file systems.
LEMMA ConvFs == ASSUME TabInv, ConvInv, CheckFileSystem PROVE ConvInv'
<1>0. Base /\ pc = "fs" /\ i \in 0..5
  BY DEF TabInv, CheckFileSystem, Locality, Base
<1> DEFINE c == <<FileSystems[i + 1][1], 0>>
           found == view[c] = <<FileSystems[i + 1][2]>>
           next == IF i < 5 THEN <<"fs", i + 1>> ELSE <<"active", 0>>
<1>1. \/ DeviceWrite(SetCell(c, Zero), next[1], next[2]) /\ v' = v
      \/ Goto(next[1], next[2]) /\ v' = [v EXCEPT !.mbr = @ /\ ~found]
  BY Zenon DEF CheckFileSystem
<1>2. next[1] \in {"fs", "active"} BY <1>0
<1>3. DOMAIN SetCell(c, Zero) \cap Guarded = {} BY <1>0, FsCell
<1> HIDE DEF next, found
<1>4. CASE DeviceWrite(SetCell(c, Zero), next[1], next[2]) /\ v' = v
  <2>1. /\ orig' = orig
        /\ \/ pc' = next[1] /\ i' = next[2] /\ view' = Apply(SetCell(c, Zero), view)
           \/ pc' = "cleanup" /\ i' = 0 /\ view' = view
    BY <1>4, Wrote
  <2>2. CASE pc' = "cleanup" BY <1>4, <2>1, <2>2, ConvOver
  <2>3. CASE pc' # "cleanup"
    <3>1. \A a \in Guarded : view'[a] = view[a] BY <1>3, <2>1, <2>3, Missed
    <3> QED BY <1>0, <1>2, <1>4, <2>1, <2>3, <3>1, ConvChecks DEF MbrPcs
  <2> QED BY <2>2, <2>3
<1>5. CASE Goto(next[1], next[2]) /\ v' = [v EXCEPT !.mbr = @ /\ ~found]
  <2>1. orig' = orig /\ view' = view /\ pc' = next[1] /\ i' = next[2] BY <1>5, Went
  <2>2. /\ v'.gpt = v.gpt /\ v'.converting = v.converting
        /\ v'.any_active = v.any_active /\ v'.part_to_conv = v.part_to_conv
    BY <1>0, <1>5 DEF Base, Locals
  <2> QED BY <1>0, <1>2, <2>1, <2>2, ConvChecks DEF MbrPcs
<1> QED BY <1>1, <1>4, <1>5

\* The first partition becomes the active one.
LEMMA ConvActive == ASSUME TabInv, ConvInv, SetActive PROVE ConvInv'
<1>0. Base /\ pc = "active" /\ ~v.gpt /\ v' = v BY DEF TabInv, SetActive, Locality, MbrPcs
<1>1. \/ v.mbr /\ ~v.any_active /\ DeviceWrite(SetCell(Flag(0), <<128>>), "layout", 0)
      \/ ~(v.mbr /\ ~v.any_active) /\ Goto("layout", 0)
  BY DEF SetActive, Flag
<1>2. /\ orig' = orig /\ pc' \in {"layout", "cleanup"}
      /\ pc' = "layout" =>
           \/ v.mbr /\ ~v.any_active /\ view' = Apply(SetCell(Flag(0), <<128>>), view)
           \/ ~(v.mbr /\ ~v.any_active)
  BY <1>1, Wrote, Went
<1>3. CASE pc' = "cleanup" BY <1>0, <1>2, <1>3, ConvOver
<1>4. CASE pc' = "layout"
  <2>1. ASSUME v.converting PROVE Rewritten'
    <3>1. ~v.any_active /\ Filled(v.part_to_conv, view, 5 * Len(v.part_to_conv))
      BY <1>0, <2>1 DEF ConvInv, Rewritten, MbrPcs
    <3>2. Done(v.part_to_conv, Apply(SetCell(Flag(0), <<128>>), view)) BY <3>1, ActiveWritten
    <3>3. v.mbr => view' = Apply(SetCell(Flag(0), <<128>>), view) BY <1>2, <1>4, <3>1
    <3>4. v.mbr => Done(v.part_to_conv, view') BY <3>2, <3>3
    <3> QED BY <1>0, <1>4, <3>4 DEF Rewritten, ConvPcs, MbrPcs
  <2> QED BY <1>0, <1>2, <1>4, <2>1, ConvKept DEF ReadPcs
<1> QED BY <1>2, <1>3, <1>4

\* The layout.
LEMMA ConvLayout == ASSUME TabInv, ConvInv, ChooseLayout PROVE ConvInv'
<1>0. Base /\ pc = "layout" BY DEF TabInv, ChooseLayout
<1>1. v' = [v EXCEPT !.loc_a = 512, !.loc_b = AfterFirstHalf(512)] BY DEF ChooseLayout
<1>2. \/ v.gpt /\ (Goto("partition", 0) \/ Goto("embed", 0))
      \/ ~v.gpt /\ v.mbr /\ Goto("save", 0)
      \/ Goto("cleanup", 0)
  BY Zenon DEF ChooseLayout
<1>3. /\ orig' = orig /\ view' = view
      /\ \/ v.gpt /\ pc' \in {"partition", "embed"}
         \/ ~v.gpt /\ v.mbr /\ pc' = "save"
         \/ pc' = "cleanup"
  BY <1>2, Went
<1>4. /\ v'.gpt = v.gpt /\ v'.part_to_conv = v.part_to_conv /\ v'.converting = v.converting
      /\ v'.any_active = v.any_active
  <2>1. PICK a, b : v' = [v EXCEPT !.loc_a = a, !.loc_b = b] BY <1>1, Zenon
  <2> QED BY <1>0, <2>1 DEF Base, Locals
<1>5. CASE pc' = "cleanup" BY <1>3, <1>4, <1>5, ConvOver
<1>6. CASE pc' # "cleanup"
  <2>1. ASSUME v.converting PROVE Rewritten'
    <3>1. ~v.gpt /\ (v.mbr => Done(v.part_to_conv, view)) BY <1>0, <2>1 DEF ConvInv, Rewritten
    <3>2. pc' = "save" /\ Done(v.part_to_conv, view) BY <1>3, <1>6, <3>1
    <3> QED BY <1>3, <1>4, <3>2 DEF Rewritten, ConvPcs, LastPcs, MbrPcs
  <2> QED BY <1>3, <1>4, <1>6, <2>1, ConvKept DEF ReadPcs
<1> QED BY <1>5, <1>6

\* The steps of a GPT that stays one.
LEMMA ConvRoom ==
    ASSUME TabInv, ConvInv, UsePartition \/ PlanEmbedding \/ ZeroUnused \/ WriteHeader1 \/ WriteHeader2
    PROVE  ConvInv'
<1>0. Base /\ pc \in GptPcs
  BY DEF TabInv, UsePartition, PlanEmbedding, ZeroUnused, WriteHeader1, WriteHeader2, GptPcs
<1>1. ~v.converting BY <1>0, ConvReading
<1>2. pc' \notin ReadPcs /\ orig' = orig
  <2>1. \E p, next, n : /\ Goto(next, n) \/ DeviceWrite(p, next, n)
                        /\ next \in {"cleanup", "save", "zero1", "zero2", "header1", "header2"}
    BY DEF UsePartition, PlanEmbedding, ZeroUnused, WriteHeader1, WriteHeader2
  <2>2. PICK p, next, n : /\ Goto(next, n) \/ DeviceWrite(p, next, n)
                          /\ next \in {"cleanup", "save", "zero1", "zero2", "header1", "header2"}
    BY <2>1
  <2> QED BY <2>2, Went, Wrote DEF ReadPcs
<1>3. CASE UsePartition
  <2> DEFINE num == (opts.part_ndx - 1) % UINT32
             loc == Entry(num)[3] * LbSize
             rest == AfterFirstHalf(loc)
             next == IF rest % LbSize = 0 THEN rest ELSE AlignDown(rest + LbSize, LbSize)
  <2>1. v' = v \/ v' = [v EXCEPT !.partition = num, !.loc_a = loc, !.loc_b = next]
    BY <1>3 DEF UsePartition
  <2> HIDE DEF num, loc, next
  <2>2. /\ v'.gpt = v.gpt /\ v'.part_to_conv = v.part_to_conv /\ v'.converting = v.converting
        /\ v'.any_active = v.any_active
    BY <1>0, <2>1 DEF Base, Locals
  <2> QED BY <1>1, <1>2, <2>2, ConvKept
<1>4. CASE PlanEmbedding
  <2> DEFINE max_used == Max({-1} \cup {k \in 0..(v.header1[2] - 1) : Used(Entry(k))})
             a == AlignDown((EntryLba1 + 32) * LbSize - size_a, LbSize)
             b == AlignDown((EntryLba2 + 32) * LbSize - size_b, LbSize)
             count == (a \div LbSize - EntryLba1) * (LbSize \div EntrySize)
  <2>1. \/ v' = v
        \/ v' = [v EXCEPT !.max_used = max_used, !.new_count = count, !.loc_a = a, !.loc_b = b]
    BY <1>4 DEF PlanEmbedding
  <2> HIDE DEF max_used, a, b, count
  <2>2. /\ v'.gpt = v.gpt /\ v'.part_to_conv = v.part_to_conv /\ v'.converting = v.converting
        /\ v'.any_active = v.any_active
    BY <1>0, <2>1 DEF Base, Locals
  <2> QED BY <1>1, <1>2, <2>2, ConvKept
<1>5. CASE ZeroUnused \/ WriteHeader1 \/ WriteHeader2
  <2>1. v' = v \/ \E x : v' = [v EXCEPT !.header1 = x] \/ v' = [v EXCEPT !.header2 = x]
    BY <1>5 DEF ZeroUnused, WriteHeader1, WriteHeader2
  <2>2. /\ v'.gpt = v.gpt /\ v'.part_to_conv = v.part_to_conv /\ v'.converting = v.converting
        /\ v'.any_active = v.any_active
    BY <1>0, <2>1 DEF Base, Locals
  <2> QED BY <1>1, <1>2, <2>2, ConvKept
<1> QED BY <1>3, <1>4, <1>5

\* The table is saved.
LEMMA ConvSave == ASSUME TabInv, ConvInv, SaveTable PROVE ConvInv'
<1>0. Base /\ pc = "save" BY DEF TabInv, SaveTable
<1> DEFINE S == Touched(218, 6) \cup Touched(440, 70)
           keep == [c \in S |-> view[c]]
<1>1. Goto("write", 0) /\ v' = [v EXCEPT !.saved = keep] BY DEF SaveTable
<1>2. \A c \in Guarded : keep[c] = view[c] BY Inside
<1> HIDE DEF keep
<1>3. orig' = orig /\ view' = view /\ pc' = "write" /\ i' = 0 BY <1>1, Went
<1>4. /\ v'.gpt = v.gpt /\ v'.part_to_conv = v.part_to_conv /\ v'.converting = v.converting
      /\ v'.any_active = v.any_active /\ v'.saved = keep
  BY <1>0, <1>1 DEF Base, Locals
<1>5. ASSUME v.converting PROVE Rewritten'
  <2>1. Done(v.part_to_conv, view) BY <1>0, <1>5 DEF ConvInv, Rewritten
  <2>2. Done(v.part_to_conv, keep) BY <1>2, <2>1, SameTable
  <2> QED BY <1>3, <1>4, <2>2 DEF Rewritten, ConvPcs, LastPcs, MbrPcs
<1> QED BY <1>3, <1>4, <1>5, ConvKept DEF ReadPcs

\* The boot sector and stage 2, and the table over them.
LEMMA ConvWrite == ASSUME TabInv, ConvInv, WriteStages PROVE ConvInv'
<1>0. Base /\ Locality /\ pc = "write" /\ v' = v /\ i \in Nat /\ i <= 8
  BY DEF TabInv, WriteStages, Base, Locality
<1> DEFINE p == Writes[i + 1]
<1>1. Loop(p, 9, "flush") BY <1>0, NineWrites DEF WriteStages
<1>2. /\ orig' = orig
      /\ \/ i + 1 < 9 /\ pc' = "write" /\ i' = i + 1 /\ view' = Apply(p, view)
         \/ ~(i + 1 < 9) /\ pc' = "flush" /\ i' = 0 /\ view' = Apply(p, view)
         \/ pc' = "cleanup" /\ i' = 0
  <2> HIDE DEF p
  <2> QED BY <1>0, <1>1, Looped
<1>3. CASE pc' = "cleanup" BY <1>0, <1>2, <1>3, ConvOver
<1>4. CASE pc' # "cleanup"
  <2>1. ASSUME v.converting PROVE Rewritten'
    <3>1. Done(v.part_to_conv, v.saved) BY <1>0, <2>1 DEF ConvInv, Rewritten
    <3>2. CASE pc' = "write"
      <4>1. ASSUME i' = 8 PROVE \A c \in Touched(218, 6) : view'[c] = v.saved[c]
        <5>1. view' = Apply(Saved(218, 6), view) BY <1>0, <1>2, <3>2, <4>1, NineWrites
        <5>2. \A c \in Touched(218, 6) : c \in Cells BY TouchedIs
        <5> QED BY <5>1, <5>2 DEF Apply, Saved
      <4> QED BY <1>0, <3>1, <3>2, <4>1 DEF Rewritten, ConvPcs, LastPcs, MbrPcs
    <3>3. CASE pc' = "flush"
      <4>1. i = 8 BY <1>0, <1>2, <3>3
      <4>2. \A c \in Touched(218, 6) : view[c] = v.saved[c] BY <1>0, <2>1, <4>1 DEF ConvInv, Rewritten
      <4>3. view' = Apply(Saved(440, 70), view) BY <1>2, <3>3, <4>1, NineWrites
      <4>4. \A c \in Guarded : view'[c] = v.saved[c]
        <5>1. \A c \in Guarded : c \in Cells BY DEF Guarded
        <5> QED BY <4>2, <4>3, <5>1, Inside DEF Apply, Saved
      <4>5. Done(v.part_to_conv, view') BY <3>1, <4>4, SameTable
      <4> QED BY <1>0, <3>3, <4>5 DEF Rewritten, ConvPcs, LastPcs, MbrPcs
    <3> QED BY <1>2, <1>4, <3>2, <3>3
  <2> QED BY <1>0, <1>2, <1>4, <2>1, ConvKept DEF ReadPcs
<1> QED BY <1>3, <1>4

\* Success.
LEMMA ConvFlush == ASSUME ConvInv, FlushAll PROVE ConvInv'
<1>1. pc = "flush" /\ pc' = "installed" /\ v' = v /\ orig' = orig /\ view' = view BY DEF FlushAll, Commit, CommitLosing
<1>2. ASSUME v.converting PROVE Rewritten'
  <2>1. Done(v.part_to_conv, view) BY <1>1, <1>2 DEF ConvInv, Rewritten
  <2> QED BY <1>1, <2>1 DEF Rewritten, ConvPcs, LastPcs, MbrPcs
<1> QED BY <1>1, <1>2, ConvKept DEF ReadPcs

\* Failure, cleanup and the undo.
LEMMA ConvFailure ==
    ASSUME ConvInv, IoError \/ Cleanup \/ UninstallRun \/ PutBack \/ UndoReturn PROVE ConvInv'
<1>1. /\ pc' \in {"cleanup", "undo", "undone"} /\ v' = v /\ orig' = orig
  BY DEF IoError, Cleanup, UninstallRun, PutBack, UndoReturn, Drop, UndoEntry, EntryBack,
         EntrySkipped, EndUndo, FlushFails, device
<1> QED BY <1>1, ConvOver

\* Every step.
LEMMA ConvNext ==
    ASSUME TabInv, StagesInv, GptInv, ConvInv, [Next]_vars PROVE ConvInv'
<1>1. CASE UNCHANGED vars
  <2>1. UNCHANGED <<orig, view, pc, i, v>> BY <1>1 DEF vars, device
  <2> QED BY <2>1 DEF ConvInv, Rewritten
<1>2. CASE ProbeGpt \/ ReadSecondary \/ DetectIso \/ GatherEntry
  BY <1>2, ConvProbe, ConvSecondary, ConvIso, ConvGather
<1>3. CASE NukePrimary \/ NukeSecondary \/ WriteDiskId \/ ConvertPartition
  BY <1>3, ConvNuke1, ConvNuke2, ConvDiskId, ConvConvert
<1>4. CASE CheckFlag \/ CheckFirstSector \/ CheckFileSystem \/ SetActive
  BY <1>4, ConvFlag, ConvFirst, ConvFs, ConvActive
<1>5. CASE \/ ChooseLayout \/ UsePartition \/ PlanEmbedding \/ ZeroUnused \/ WriteHeader1 \/ WriteHeader2
           \/ SaveTable \/ WriteStages \/ FlushAll
  BY <1>5, ConvLayout, ConvRoom, ConvSave, ConvWrite, ConvFlush
<1>6. CASE IoError \/ Cleanup \/ UninstallRun \/ PutBack \/ UndoReturn BY <1>6, ConvFailure
<1> QED BY <1>1, <1>2, <1>3, <1>4, <1>5, <1>6 DEF Next

\* The steps of a conversion.
THEOREM ConversionInvariant == Spec => []ConvInv
<1>1. Init => ConvInv
  <2> SUFFICES ASSUME Init PROVE ConvInv OBVIOUS
  <2>1. pc = "probe" /\ v.gpt = FALSE /\ v.converting = FALSE BY DEF Init, Locals
  <2> QED BY <2>1 DEF ConvInv
<1>2. TabInv /\ StagesInv /\ GptInv /\ ConvInv /\ [Next]_vars => ConvInv' BY ConvNext
<1> QED BY <1>1, <1>2, TableInvariant, StagesInvariant, GptInvariant, PTL DEF Spec

\* A converted table read by its columns.
LEMMA ConvHolds == ASSUME TabInv, ConvInv PROVE ConvertedTable
<1> SUFFICES ASSUME Installed, v.converting
             PROVE  /\ Len(OrigParts) <= 4 /\ view[<<"flag", 0>>] = <<128>>
                    /\ \A k \in 0..3 :
                          IF k >= Len(OrigParts) THEN view[<<"type", k>>] = Zero
                          ELSE LET e == OrigParts[k + 1]
                               IN  /\ view[<<"type", k>>] = <<gpt2mbr_type(e[2])>> /\ gpt2mbr_type(e[2]) > 0
                                   /\ view[<<"start", k>>] = <<e[3]>> /\ view[<<"count", k>>] = <<e[4] - e[3] + 1>>
                                   /\ view[<<"chs_start", k>>] = lba2chs(e[3]) /\ view[<<"chs_end", k>>] = lba2chs(e[4])
  BY DEF ConvertedTable
<1> DEFINE l == v.part_to_conv
<1>0. Base BY DEF TabInv
<1>1. Signed(orig) /\ Gathered(orig, l, NumEntries) /\ Done(l, view)
  BY DEF ConvInv, Rewritten, Installed
<1>2. /\ Len(OrigParts) = Len(l) /\ Len(l) \in 0..4
      /\ \A j \in 1..Len(l) :
            /\ l[j] = PartOf(OrigParts[j]) /\ gpt2mbr_type(OrigParts[j][2]) > 0
            /\ sect_count(l[j]) = OrigParts[j][4] - OrigParts[j][3] + 1
  <2> HIDE DEF l
  <2> QED BY <1>0, <1>1, GatheredParts
<1>3. view[<<"flag", 0>>] = <<128>> BY <1>1 DEF Done, Flag
<1>4. \A j \in 0..19 : view[Col(j)] = IF j < 5 * Len(l) THEN Val(l, j) ELSE Zero
  BY <1>1 DEF Done, Filled
<1> HIDE DEF l
<1>5. ASSUME NEW k \in 0..3, k >= Len(l) PROVE view[<<"type", k>>] = Zero
  <2>1. 5 * k \in 0..19 /\ ~(5 * k < 5 * Len(l)) BY <1>2, <1>5
  <2>2. <<"type", k>> = Col(5 * k) BY ColCell
  <2> QED BY <1>4, <2>1, <2>2
<1>6. ASSUME NEW k \in 0..3, ~(k >= Len(l)), NEW e, e = OrigParts[k + 1]
      PROVE  /\ view[<<"type", k>>] = <<gpt2mbr_type(e[2])>> /\ gpt2mbr_type(e[2]) > 0
             /\ view[<<"start", k>>] = <<e[3]>> /\ view[<<"count", k>>] = <<e[4] - e[3] + 1>>
             /\ view[<<"chs_start", k>>] = lba2chs(e[3]) /\ view[<<"chs_end", k>>] = lba2chs(e[4])
  <2>1. k + 1 \in 1..Len(l) BY <1>2, <1>6
  <2>2. /\ l[k + 1] = PartOf(e) /\ gpt2mbr_type(e[2]) > 0 /\ sect_count(l[k + 1]) = e[4] - e[3] + 1
    BY <1>2, <1>6, <2>1
  <2>3. \A r \in 0..4 : 5 * k + r \in 0..19 /\ 5 * k + r < 5 * Len(l) BY <1>2, <2>1
  <2>4. \A r \in 0..4 : view[Col(5 * k + r)] = Val(l, 5 * k + r) BY <1>4, <2>3
  <2>5. \A r \in 0..4 : Val(l, 5 * k + r) = FieldsOf(l[k + 1])[r + 1]
    <3>1. ASSUME NEW r \in 0..4 PROVE (5 * k + r) % 5 = r /\ (5 * k + r) \div 5 = k BY <3>1
    <3> QED BY <3>1 DEF Val
  <2>6. \A r \in 0..4 : view[Col(5 * k + r)] = FieldsOf(l[k + 1])[r + 1] BY <2>4, <2>5
  <2>7. 5 * k + 0 = 5 * k OBVIOUS
  <2>8. /\ view[<<"type", k>>] = FieldsOf(l[k + 1])[1] /\ view[<<"start", k>>] = FieldsOf(l[k + 1])[2]
        /\ view[<<"count", k>>] = FieldsOf(l[k + 1])[3] /\ view[<<"chs_start", k>>] = FieldsOf(l[k + 1])[4]
        /\ view[<<"chs_end", k>>] = FieldsOf(l[k + 1])[5]
    BY <2>6, <2>7, ColCell
  <2>9. /\ FieldsOf(l[k + 1])[1] = <<gpt2mbr_type(e[2])>> /\ FieldsOf(l[k + 1])[2] = <<e[3]>>
        /\ FieldsOf(l[k + 1])[3] = <<e[4] - e[3] + 1>> /\ FieldsOf(l[k + 1])[4] = lba2chs(e[3])
        /\ FieldsOf(l[k + 1])[5] = lba2chs(e[4])
    BY <2>2 DEF FieldsOf, PartOf
  <2> QED BY <2>2, <2>8, <2>9
<1>7. Len(OrigParts) <= 4
  <2>1. Len(OrigParts) \in 0..4 BY <1>2, Zenon
  <2>2. \A n \in 0..4 : n <= 4 OBVIOUS
  <2> QED BY <2>1, <2>2, Zenon
<1>8. ASSUME NEW k \in 0..3, ~(k >= Len(OrigParts))
      PROVE  LET e == OrigParts[k + 1]
             IN  /\ view[<<"type", k>>] = <<gpt2mbr_type(e[2])>> /\ gpt2mbr_type(e[2]) > 0
                 /\ view[<<"start", k>>] = <<e[3]>> /\ view[<<"count", k>>] = <<e[4] - e[3] + 1>>
                 /\ view[<<"chs_start", k>>] = lba2chs(e[3]) /\ view[<<"chs_end", k>>] = lba2chs(e[4])
  <2> DEFINE w == OrigParts[k + 1]
  <2>1. ~(k >= Len(l)) /\ w = OrigParts[k + 1] BY <1>2, <1>8
  <2> HIDE DEF w
  <2>2. /\ view[<<"type", k>>] = <<gpt2mbr_type(w[2])>> /\ gpt2mbr_type(w[2]) > 0
        /\ view[<<"start", k>>] = <<w[3]>> /\ view[<<"count", k>>] = <<w[4] - w[3] + 1>>
        /\ view[<<"chs_start", k>>] = lba2chs(w[3]) /\ view[<<"chs_end", k>>] = lba2chs(w[4])
    BY <1>6, <2>1
  <2> QED BY <2>2 DEF w
<1>9. ASSUME NEW k \in 0..3, k >= Len(OrigParts) PROVE view[<<"type", k>>] = Zero BY <1>2, <1>5, <1>9
<1> QED BY <1>3, <1>7, <1>8, <1>9

\* A converted ISOHYBRID's MBR lists exactly the partitions of its GPT, in
\* order, each with its extent, type and CHS fields, and one is active, for
\* every valid GPT and however many of its entries are used (the loops of
\* bios_install over part_to_conv, and the checks of the new table).
THEOREM ConversionIsExact == Spec => []ConvertedTable
<1>1. TabInv /\ ConvInv => ConvertedTable BY ConvHolds
<1> QED BY <1>1, TableInvariant, ConversionInvariant, PTL

-----------------------------------------------------------------------------
(* The sectors in front of the first partition, and the used entries.      *)

\* The cells that end before sector 63.
Foreground == {c \in Cells : Place(c)[1] + Place(c)[2] <= 63 * 512}

\* No cell is larger than a block.
LEMMA BlockHolds ==
    ASSUME NEW c \in Cells
    PROVE  Place(c)[1] \in Nat /\ Place(c)[2] \in Nat /\ Place(c)[2] <= LbSize
<1>0. LbSize \in Nat /\ LbSize >= 512 /\ EntrySize \in Nat /\ EntrySize <= LbSize
  BY Multiples, GeometryAssumption
<1>1. Place(c)[1] \in Nat /\ Place(c)[2] \in Nat BY SectorEdge
<1>2. CASE c \in MbrCells
  <2>1. Place(c)[1] + Place(c)[2] <= 512 BY <1>2, MbrInSector
  <2> QED BY <1>0, <1>1, <2>1
<1>3. CASE c \notin MbrCells
  <2>1. Place(c)[2] \in {2, 5, 96, EntrySize, 512, LbSize} BY <1>3, CellPlaces
  <2> QED BY <1>0, <1>1, <2>1
<1> QED BY <1>2, <1>3

\* What a write below the end of stage 2, or of a magic, touches.
LEMMA FrontTouched ==
    ASSUME NEW loc \in Nat, NEW count \in Nat,
           loc + count <= BootloaderFileSize \/ loc + count <= 1082
    PROVE  Touched(loc, count) \subseteq Foreground
<1> SUFFICES ASSUME NEW c \in Touched(loc, count) PROVE c \in Foreground OBVIOUS
<1>1. c \in Cells /\ Overlap(Place(c), <<loc, count>>) BY TouchedIs
<1>2. Place(c)[1] \in Nat /\ Place(c)[2] \in Nat /\ Place(c)[2] <= LbSize BY <1>1, BlockHolds
<1>3. Place(c)[1] < loc + count BY <1>1 DEF Overlap
<1>4. /\ LbSize \in Nat /\ BootloaderFileSize \in Nat /\ LbSize <= 4096
      /\ BootloaderFileSize + LbSize <= 63 * 512
  BY Multiples, StageAssumption, FrontAssumption
<1>5. Place(c)[1] + Place(c)[2] <= 63 * 512 BY <1>2, <1>3, <1>4
<1> QED BY <1>1, <1>5 DEF Foreground

\* The boot sector is in front, and what lies in it.
LEMMA BootFront ==
    Boot \subseteq Foreground
BY FrontTouched DEF Boot

\* Part of a range.
LEMMA TouchedPart ==
    ASSUME NEW x \in Int, NEW s \in Int, NEW y \in Int, NEW t \in Int, y <= x, x + s <= y + t
    PROVE  Touched(x, s) \subseteq Touched(y, t)
<1> SUFFICES ASSUME NEW c \in Touched(x, s) PROVE c \in Touched(y, t) OBVIOUS
<1>1. c \in Cells /\ Overlap(Place(c), <<x, s>>) BY TouchedIs
<1>2. Place(c)[1] \in Nat /\ Place(c)[2] \in Nat BY <1>1, SectorEdge
<1>3. Overlap(Place(c), <<y, t>>) BY <1>1, <1>2 DEF Overlap
<1> QED BY <1>1, <1>3, TouchedIs

\* An extent behind sector 63 has none of the cells in front.
LEMMA FrontApart ==
    ASSUME NEW x \in Int, NEW s, x >= 63 * 512
    PROVE  Touched(x, s) \cap Foreground = {}
<1> SUFFICES ASSUME NEW c \in Touched(x, s), c \in Foreground PROVE FALSE OBVIOUS
<1>1. c \in Cells /\ Overlap(Place(c), <<x, s>>) BY TouchedIs
<1>2. Place(c)[1] \in Nat /\ Place(c)[2] \in Nat BY <1>1, SectorEdge
<1>3. x < Place(c)[1] + Place(c)[2] BY <1>1 DEF Overlap
<1>4. Place(c)[1] + Place(c)[2] <= 63 * 512 BY DEF Foreground
<1> QED BY <1>2, <1>3, <1>4

\* The used entries of the disk as it was have every rank there is.
LEMMA RankReached ==
    ASSUME NEW o, NEW j \in Nat, j < Rank(o, NumEntries)
    PROVE  \E k \in UsedOf(o) : Rank(o, k) = j
<1> DEFINE T == {k \in Nat : j < Rank(o, k)}
           R == OpToRel(<, Nat)
<1>1. IsWellFoundedOn(R, Nat) BY NatLessThanWellFounded
<1>2. R = {ss \in Nat \X Nat : ss[1] < ss[2]} BY DEF OpToRel
<1>3. T \in SUBSET Nat /\ T # {} BY Grid
<1>4. \A k \in Nat : k \in T <=> j < Rank(o, k) OBVIOUS
<1> HIDE DEF R, T
<1>5. PICK t \in T : \A k \in T : ~(<<k, t>> \in R) BY <1>1, <1>3, WFMin
<1>6. t \in Nat /\ \A k \in T : ~(k < t)
  <2>1. t \in Nat BY <1>3
  <2> SUFFICES ASSUME NEW k \in T, k < t PROVE FALSE BY <2>1
  <2>2. k \in Nat BY <1>3
  <2>3. <<k, t>> \in R BY <1>2, <2>1, <2>2
  <2> QED BY <1>5, <2>3
<1>7. t # 0
  <2>1. UsedOf(o) \subseteq Nat BY DEF UsedOf, Indexes
  <2>2. {x \in UsedOf(o) : x < 0} = {} BY <2>1
  <2>3. Rank(o, 0) = 0 BY <2>2, FS_EmptySet DEF Rank
  <2> QED BY <1>4, <1>5, <1>6, <2>3
<1> DEFINE k == t - 1
<1>8. k \in Nat /\ k < t /\ k + 1 = t BY <1>6, <1>7
<1> HIDE DEF k
<1>9. ~(j < Rank(o, k)) BY <1>4, <1>6, <1>8
<1>10. j < Rank(o, k + 1) BY <1>4, <1>6, <1>8
<1>11. /\ Rank(o, k) \in Nat
       /\ k \in UsedOf(o) => Rank(o, k + 1) = Rank(o, k) + 1
       /\ k \notin UsedOf(o) => Rank(o, k + 1) = Rank(o, k)
  BY <1>8, RankNext
<1>12. k \in UsedOf(o) BY <1>9, <1>10, <1>11
<1>13. Rank(o, k) = j BY <1>9, <1>10, <1>11, <1>12
<1> QED BY <1>12, <1>13

\* The partitions of a GPT are its used entries, and sound.
LEMMA PartsUsed ==
    ASSUME Base, Signed(orig), NEW j \in DOMAIN OrigParts
    PROVE  j \in Nat \ {0} /\ j <= Len(OrigParts) /\ Len(OrigParts) \in Nat /\ Sound(OrigParts[j])
<1> DEFINE used == UsedOf(orig)
           at(n) == CHOOSE k \in used : Cardinality({x \in used : x < k}) = n - 1
<1>1. NumEntries \in Nat BY Grid
<1>2. \A x \in used : x \in Nat /\ x < NumEntries BY <1>1 DEF UsedOf, Indexes
<1>3. {x \in used : x < NumEntries} = used BY <1>2
<1>4. Rank(orig, NumEntries) = Cardinality(used) BY <1>3 DEF Rank
<1>5. Cardinality(used) \in Nat BY <1>1, <1>4, RankNext
<1>6. used = {k \in 0..(NumEntries - 1) : GptDisk /\ Used(orig[<<"ent1", k>>])}
  BY DEF UsedOf, Indexes, Ent, GptDisk, Signed, Hdr
<1>7. OrigParts = [n \in 1..Cardinality(used) |-> orig[<<"ent1", at(n)>>]] BY <1>6 DEF OrigParts
<1>8. j \in 1..Cardinality(used) /\ OrigParts[j] = orig[<<"ent1", at(j)>>] BY <1>7
<1>9. Len(OrigParts) = Cardinality(used) BY <1>5, <1>7
<1>10. at(j) \in used
  <2>1. j - 1 \in Nat /\ j - 1 < Rank(orig, NumEntries) BY <1>4, <1>5, <1>8
  <2>2. \E k \in used : Rank(orig, k) = j - 1 BY <2>1, RankReached
  <2>3. \E k \in used : Cardinality({x \in used : x < k}) = j - 1 BY <2>2 DEF Rank
  <2> QED BY <2>3
<1> DEFINE k == at(j)
<1>11. k \in used /\ OrigParts[j] = orig[<<"ent1", k>>] BY <1>8, <1>10
<1> HIDE DEF k, at
<1>12. k \in 0..(NumEntries - 1) /\ Used(orig[<<"ent1", k>>]) BY <1>11 DEF UsedOf, Indexes, Ent
<1>13. ValidGpt(orig) BY SignedValid
<1>14. Sound(OrigParts[j]) BY <1>11, <1>12, <1>13 DEF ValidGpt
<1> QED BY <1>5, <1>8, <1>9, <1>14

-----------------------------------------------------------------------------
(* The first sectors of the table that is checked.                         *)

\* The partitions below n start behind sector 62.
Highs(f, n) == \A k \in 0..3 : k < n => f[<<"type", k>>] = Zero \/ ~(f[<<"start", k>>][1] < 63)

AsMbr == ~v.gpt \/ v.converting
CheckedPcs == {"layout", "save", "flush", "installed"}

HighInv ==
    /\ pc \in {"flag", "first"} => Highs(view, i)
    /\ pc \in {"fs", "active"} => Highs(view, 4)
    /\ AsMbr /\ pc \in CheckedPcs => Highs(view, 4)
    /\ AsMbr /\ pc = "write" => Highs(v.saved, 4)

\* The fields in question.
LEMMA TypeStart ==
    ASSUME NEW k \in 0..3
    PROVE  \A c \in {<<"type", k>>, <<"start", k>>} :
              /\ c \in Guarded /\ c \in Cells /\ c \in Touched(440, 70) /\ c \in TableCells
              /\ \A m \in 0..3 : c # Flag(m)
<1> SUFFICES ASSUME NEW s \in {"type", "start"}
             PROVE  /\ <<s, k>> \in Guarded /\ <<s, k>> \in Cells /\ <<s, k>> \in Touched(440, 70)
                    /\ <<s, k>> \in TableCells /\ \A m \in 0..3 : <<s, k>> # Flag(m)
  OBVIOUS
<1>1. <<s, k>> \in MbrCells BY DEF MbrCells
<1>2. <<s, k>> \in Cells BY <1>1, MbrAreCells
<1>3. <<s, k>> \in Guarded /\ <<s, k>> \in TableCells BY <1>2 DEF Guarded, TableCells, TableNames
<1>4. Place(<<s, k>>) \in {<<446 + 16 * k + 4, 1>>, <<446 + 16 * k + 8, 4>>} BY <1>3, GuardedPlace
<1>5. Overlap(Place(<<s, k>>), <<440, 70>>) BY <1>4 DEF Overlap
<1>6. <<s, k>> \in Touched(440, 70) BY <1>2, <1>5, TouchedIs
<1>7. \A m \in 0..3 : <<s, k>> # Flag(m) BY DEF Flag
<1> QED BY <1>2, <1>3, <1>6, <1>7

\* A device with the same table.
LEMMA SameHighs ==
    ASSUME NEW d, NEW f, \A k \in 0..3 : f[<<"type", k>>] = d[<<"type", k>>] /\ f[<<"start", k>>] = d[<<"start", k>>],
           NEW n, Highs(d, n)
    PROVE  Highs(f, n)
BY DEF Highs

\* A step that leaves the table.
LEMMA TableSame ==
    ASSUME NEW d, NEW f, \A c \in Guarded : (\A m \in 0..3 : c # Flag(m)) => f[c] = d[c]
    PROVE  \A k \in 0..3 : f[<<"type", k>>] = d[<<"type", k>>] /\ f[<<"start", k>>] = d[<<"start", k>>]
BY TypeStart

\* Steps of which nothing is said.
LEMMA HighElsewhere ==
    ASSUME pc' \notin {"flag", "first", "fs", "active", "write"} \cup CheckedPcs PROVE HighInv'
BY DEF HighInv

\* Steps of a GPT that stays one.
LEMMA HighGpt ==
    ASSUME v'.gpt, ~v'.converting, pc' \notin {"flag", "first", "fs", "active"} PROVE HighInv'
BY DEF HighInv, AsMbr

\* The checks begin.
LEMMA HighStart == ASSUME pc' = "flag", i' = 0 PROVE HighInv'
<1>1. \A k \in 0..3 : ~(k < i') OBVIOUS
<1>2. Highs(view', i') BY <1>1 DEF Highs
<1> QED BY <1>2 DEF HighInv, CheckedPcs

\* The probe for a GPT.
LEMMA HighProbe == ASSUME ProbeGpt PROVE HighInv'
<1>1. CASE Goto("flag", 0)
  <2>1. pc' = "flag" /\ i' = 0 BY <1>1, Went
  <2> QED BY <2>1, HighStart
<1>2. CASE Goto("cleanup", 0) \/ Goto("secondary", 0)
  <2>1. pc' \in {"cleanup", "secondary"} BY <1>2, Went
  <2> QED BY <2>1, HighElsewhere DEF CheckedPcs
<1> QED BY <1>1, <1>2 DEF ProbeGpt

\* Reading a GPT.
LEMMA HighRead ==
    ASSUME TabInv, ConvInv, ReadSecondary \/ DetectIso \/ GatherEntry PROVE HighInv'
<1>0. Base /\ v.gpt /\ pc \in GptPcs
  BY DEF TabInv, Locality, GptPcs, ReadSecondary, DetectIso, GatherEntry
<1>1. ~v.converting BY <1>0, ConvReading
<1>2. PICK next, n :
         Goto(next, n) /\ next \in {"iso", "cleanup", "gather", "layout", "nuke1", "undefined"}
  <2>1. \E next, n : Goto(next, n) /\ next \in {"iso", "cleanup", "gather", "layout", "nuke1", "undefined"}
    BY DEF ReadSecondary, DetectIso, GatherEntry
  <2> QED BY <2>1
<1>3. v' = v \/ \E x : v' = [v EXCEPT !.header2 = x] \/ v' = [v EXCEPT !.part_to_conv = x]
  BY DEF ReadSecondary, DetectIso, GatherEntry
<1>4. v'.gpt = v.gpt /\ v'.converting = v.converting BY <1>0, <1>3 DEF Base, Locals
<1>5. pc' = next BY <1>2, Went
<1> QED BY <1>0, <1>1, <1>2, <1>4, <1>5, HighGpt

\* The conversion.
LEMMA HighConvert ==
    ASSUME NukePrimary \/ NukeSecondary \/ WriteDiskId \/ ConvertPartition PROVE HighInv'
<1>1. \E p, times, after :
         Loop(p, times, after) /\ pc \in {"nuke1", "nuke2", "diskid", "convert"}
         /\ after \in {"nuke2", "diskid", "convert", "flag"}
  BY DEF NukePrimary, NukeSecondary, WriteDiskId, ConvertPartition
<1>2. PICK p, times, after :
         Loop(p, times, after) /\ pc \in {"nuke1", "nuke2", "diskid", "convert"}
         /\ after \in {"nuke2", "diskid", "convert", "flag"}
  BY <1>1
<1>3. \/ pc' \in {"nuke1", "nuke2", "diskid", "convert", "cleanup"}
      \/ pc' = "flag" /\ i' = 0
  BY <1>2, Looped
<1> QED BY <1>3, HighStart, HighElsewhere DEF CheckedPcs

\* A boot flag.
LEMMA HighFlag == ASSUME TabInv, HighInv, CheckFlag PROVE HighInv'
<1>0. pc = "flag" /\ i \in 0..3 BY DEF TabInv, CheckFlag, Locality, MbrPcs, Base
<1>1. \E x : DeviceWrite(SetCell(Flag(i), x), "first", i) \/ Goto("first", i) BY DEF CheckFlag, Flag
<1>2. PICK x : DeviceWrite(SetCell(Flag(i), x), "first", i) \/ Goto("first", i) BY <1>1
<1> DEFINE f == Apply(SetCell(Flag(i), x), view)
<1>3. pc' = "cleanup" \/ (pc' = "first" /\ i' = i /\ (view' = view \/ view' = f)) BY <1>2, Wrote, Went
<1>4. Highs(view, i) BY <1>0 DEF HighInv
<1>5. Highs(f, i)
  <2>1. \A c \in Guarded : c # Flag(i) => f[c] = view[c] BY <1>0, FlagCell, FieldWritten
  <2> HIDE DEF f
  <2>2. \A k \in 0..3 : f[<<"type", k>>] = view[<<"type", k>>] /\ f[<<"start", k>>] = view[<<"start", k>>]
    BY <1>0, <2>1, TypeStart
  <2> QED BY <1>4, <2>2, SameHighs
<1> HIDE DEF f
<1>6. CASE pc' = "cleanup" BY <1>6, HighElsewhere DEF CheckedPcs
<1>7. CASE pc' = "first" /\ i' = i /\ (view' = view \/ view' = f)
  <2>1. Highs(view', i') BY <1>4, <1>5, <1>7
  <2> QED BY <1>7, <2>1 DEF HighInv, CheckedPcs
<1> QED BY <1>3, <1>6, <1>7

\* A first sector.
LEMMA HighFirst == ASSUME TabInv, HighInv, CheckFirstSector PROVE HighInv'
<1>0. pc = "first" /\ i \in 0..3 BY DEF TabInv, CheckFirstSector, Locality, Base
<1>1. Highs(view, i) BY <1>0 DEF HighInv
<1>2. CASE TooLow(i)
  <2>1. pc' = "cleanup" BY <1>2, Went DEF CheckFirstSector
  <2> QED BY <2>1, HighElsewhere DEF CheckedPcs
<1>3. CASE ~TooLow(i)
  <2>1. view[<<"type", i>>] = Zero \/ ~(view[<<"start", i>>][1] < 63) BY <1>3 DEF TooLow
  <2>2. \A k \in 0..3 : k < i + 1 => k < i \/ k = i BY <1>0
  <2>3. Highs(view, i + 1) BY <1>1, <2>1, <2>2 DEF Highs
  <2>4. CASE i < 3
    <3>1. view' = view /\ pc' = "flag" /\ i' = i + 1 BY <1>3, <2>4, Went DEF CheckFirstSector
    <3> QED BY <2>3, <3>1 DEF HighInv, CheckedPcs
  <2>5. CASE ~(i < 3)
    <3>1. view' = view /\ pc' = "fs" BY <1>3, <2>5, Went DEF CheckFirstSector
    <3>2. i + 1 = 4 BY <1>0, <2>5
    <3> QED BY <2>3, <3>1, <3>2 DEF HighInv, CheckedPcs
  <2> QED BY <2>4, <2>5
<1> QED BY <1>2, <1>3

\* A file system, and the active partition.
LEMMA HighFs == ASSUME TabInv, HighInv, CheckFileSystem PROVE HighInv'
<1>0. pc = "fs" /\ i \in 0..5 /\ Highs(view, 4) BY DEF TabInv, CheckFileSystem, Locality, Base, HighInv
<1> DEFINE c == <<FileSystems[i + 1][1], 0>>
           next == IF i < 5 THEN <<"fs", i + 1>> ELSE <<"active", 0>>
           f == Apply(SetCell(c, Zero), view)
<1>1. DeviceWrite(SetCell(c, Zero), next[1], next[2]) \/ Goto(next[1], next[2])
  BY Zenon DEF CheckFileSystem
<1>2. next[1] \in {"fs", "active"} BY <1>0
<1>3. DOMAIN SetCell(c, Zero) \cap Guarded = {} BY <1>0, FsCell
<1>4. \A a \in Guarded : f[a] = view[a] BY <1>3, Missed
<1> HIDE DEF next, c
<1>5. pc' = "cleanup" \/ (pc' \in {"fs", "active"} /\ (view' = view \/ view' = f))
  BY <1>1, <1>2, Wrote, Went
<1> HIDE DEF f
<1>6. CASE pc' = "cleanup" BY <1>6, HighElsewhere DEF CheckedPcs
<1>7. CASE pc' \in {"fs", "active"} /\ (view' = view \/ view' = f)
  <2>1. Highs(f, 4) BY <1>0, <1>4, TableSame, SameHighs
  <2>2. Highs(view', 4) BY <1>0, <1>7, <2>1
  <2> QED BY <1>7, <2>2 DEF HighInv, CheckedPcs
<1> QED BY <1>5, <1>6, <1>7

\* The first partition becomes active.
LEMMA HighActive == ASSUME HighInv, SetActive PROVE HighInv'
<1>0. pc = "active" /\ Highs(view, 4) BY DEF SetActive, HighInv
<1> DEFINE f == Apply(SetCell(Flag(0), <<128>>), view)
<1>1. pc' = "cleanup" \/ (pc' = "layout" /\ (view' = view \/ view' = f))
  BY Wrote, Went DEF SetActive, Flag
<1>2. Highs(f, 4)
  <2>1. \A c \in Guarded : c # Flag(0) => f[c] = view[c] BY FlagCell, FieldWritten
  <2> HIDE DEF f
  <2> QED BY <1>0, <2>1, TableSame, SameHighs
<1> HIDE DEF f
<1>3. CASE pc' = "cleanup" BY <1>3, HighElsewhere DEF CheckedPcs
<1>4. CASE pc' = "layout" /\ (view' = view \/ view' = f)
  <2>1. Highs(view', 4) BY <1>0, <1>2, <1>4
  <2> QED BY <1>4, <2>1 DEF HighInv, CheckedPcs
<1> QED BY <1>1, <1>3, <1>4

\* The layout.
LEMMA HighLayout == ASSUME TabInv, HighInv, ChooseLayout PROVE HighInv'
<1>0. Base /\ pc = "layout" BY DEF TabInv, ChooseLayout
<1>1. v' = [v EXCEPT !.loc_a = 512, !.loc_b = AfterFirstHalf(512)] BY DEF ChooseLayout
<1>2. Goto("partition", 0) \/ Goto("embed", 0) \/ Goto("save", 0) \/ Goto("cleanup", 0)
  BY Zenon DEF ChooseLayout
<1>3. view' = view /\ pc' \in {"partition", "embed", "save", "cleanup"} BY <1>2, Went
<1>4. v'.gpt = v.gpt /\ v'.converting = v.converting
  <2>1. PICK a, b : v' = [v EXCEPT !.loc_a = a, !.loc_b = b] BY <1>1, Zenon
  <2> QED BY <1>0, <2>1 DEF Base, Locals
<1>5. CASE pc' = "save" BY <1>0, <1>3, <1>4, <1>5 DEF HighInv, AsMbr, CheckedPcs
<1>6. CASE pc' # "save" BY <1>3, <1>6, HighElsewhere DEF CheckedPcs
<1> QED BY <1>5, <1>6

\* The steps of a GPT that stays one.
LEMMA HighRoom ==
    ASSUME TabInv, ConvInv, UsePartition \/ PlanEmbedding \/ ZeroUnused \/ WriteHeader1 \/ WriteHeader2
    PROVE  HighInv'
<1>0. Base /\ pc \in GptPcs /\ v.gpt
  BY DEF TabInv, Locality, UsePartition, PlanEmbedding, ZeroUnused, WriteHeader1, WriteHeader2, GptPcs
<1>1. ~v.converting BY <1>0, ConvReading
<1>2. pc' \notin MbrPcs
  <2>1. \E p, next, n : /\ Goto(next, n) \/ DeviceWrite(p, next, n)
                        /\ next \in {"cleanup", "save", "zero1", "zero2", "header1", "header2"}
    BY DEF UsePartition, PlanEmbedding, ZeroUnused, WriteHeader1, WriteHeader2
  <2>2. PICK p, next, n : /\ Goto(next, n) \/ DeviceWrite(p, next, n)
                          /\ next \in {"cleanup", "save", "zero1", "zero2", "header1", "header2"}
    BY <2>1
  <2> QED BY <2>2, Went, Wrote DEF MbrPcs
<1>3. v'.gpt = v.gpt /\ v'.converting = v.converting
  <2>1. CASE UsePartition
    <3>1. v' = v \/ \E x, a, b : v' = [v EXCEPT !.partition = x, !.loc_a = a, !.loc_b = b]
      BY <2>1 DEF UsePartition
    <3> QED BY <1>0, <3>1 DEF Base, Locals
  <2>2. CASE PlanEmbedding
    <3> DEFINE max_used == Max({-1} \cup {k \in 0..(v.header1[2] - 1) : Used(Entry(k))})
               a == AlignDown((EntryLba1 + 32) * LbSize - size_a, LbSize)
               b == AlignDown((EntryLba2 + 32) * LbSize - size_b, LbSize)
               count == (a \div LbSize - EntryLba1) * (LbSize \div EntrySize)
    <3>1. \/ v' = v
          \/ v' = [v EXCEPT !.max_used = max_used, !.new_count = count, !.loc_a = a, !.loc_b = b]
      BY <2>2 DEF PlanEmbedding
    <3> HIDE DEF max_used, a, b, count
    <3> QED BY <1>0, <3>1 DEF Base, Locals
  <2>3. CASE ZeroUnused \/ WriteHeader1 \/ WriteHeader2
    <3>1. v' = v \/ \E x : v' = [v EXCEPT !.header1 = x] \/ v' = [v EXCEPT !.header2 = x]
      BY <2>3 DEF ZeroUnused, WriteHeader1, WriteHeader2
    <3> QED BY <1>0, <3>1 DEF Base, Locals
  <2> QED BY <2>1, <2>2, <2>3
<1> QED BY <1>0, <1>1, <1>2, <1>3, HighGpt DEF MbrPcs

\* The table is saved,
LEMMA HighSave == ASSUME TabInv, HighInv, SaveTable PROVE HighInv'
<1>0. Base /\ pc = "save" BY DEF TabInv, SaveTable
<1> DEFINE S == Touched(218, 6) \cup Touched(440, 70)
           keep == [c \in S |-> view[c]]
<1>1. Goto("write", 0) /\ v' = [v EXCEPT !.saved = keep] BY DEF SaveTable
<1>2. \A c \in Guarded : keep[c] = view[c] BY Inside
<1> HIDE DEF keep
<1>3. pc' = "write" BY <1>1, Went
<1>4. v'.gpt = v.gpt /\ v'.converting = v.converting /\ v'.saved = keep BY <1>0, <1>1 DEF Base, Locals
<1>5. ASSUME AsMbr PROVE Highs(keep, 4)
  <2>1. Highs(view, 4) BY <1>0, <1>5 DEF HighInv, CheckedPcs
  <2> QED BY <1>2, <2>1, TableSame, SameHighs
<1> QED BY <1>3, <1>4, <1>5 DEF HighInv, AsMbr, CheckedPcs

\* and written back last.
LEMMA HighWrite == ASSUME TabInv, HighInv, WriteStages PROVE HighInv'
<1>0. pc = "write" /\ v' = v /\ i \in Nat /\ i <= 8
  BY DEF TabInv, WriteStages, Base, Locality
<1> DEFINE p == Writes[i + 1]
<1>1. Loop(p, 9, "flush") BY <1>0, NineWrites DEF WriteStages
<1>2. \/ pc' = "write"
      \/ ~(i + 1 < 9) /\ pc' = "flush" /\ view' = Apply(p, view)
      \/ pc' = "cleanup"
  <2> HIDE DEF p
  <2> QED BY <1>0, <1>1, Looped
<1>3. CASE pc' = "cleanup" BY <1>3, HighElsewhere DEF CheckedPcs
<1>4. CASE pc' = "write" BY <1>0, <1>4 DEF HighInv, AsMbr, CheckedPcs
<1>5. CASE ~(i + 1 < 9) /\ pc' = "flush" /\ view' = Apply(p, view)
  <2>1. i = 8 BY <1>0, <1>5
  <2>2. view' = Apply(Saved(440, 70), view) BY <1>5, <2>1, NineWrites
  <2>3. \A c \in Cells : c \in Touched(440, 70) => view'[c] = v.saved[c] BY <2>2 DEF Apply, Saved
  <2>4. \A k \in 0..3 : /\ view'[<<"type", k>>] = v.saved[<<"type", k>>]
                        /\ view'[<<"start", k>>] = v.saved[<<"start", k>>]
    BY <2>3, TypeStart
  <2>5. ASSUME AsMbr PROVE Highs(view', 4)
    <3>1. Highs(v.saved, 4) BY <1>0, <2>5 DEF HighInv
    <3> QED BY <2>4, <3>1, SameHighs
  <2> QED BY <1>0, <1>5, <2>5 DEF HighInv, AsMbr, CheckedPcs
<1> QED BY <1>2, <1>3, <1>4, <1>5

\* Every step.
LEMMA HighNext == ASSUME TabInv, ConvInv, HighInv, [Next]_vars PROVE HighInv'
<1>1. CASE UNCHANGED vars
  <2>1. UNCHANGED <<view, pc, i, v>> BY <1>1 DEF vars, device
  <2> QED BY <2>1 DEF HighInv, AsMbr
<1>2. CASE ProbeGpt \/ ReadSecondary \/ DetectIso \/ GatherEntry BY <1>2, HighProbe, HighRead
<1>3. CASE NukePrimary \/ NukeSecondary \/ WriteDiskId \/ ConvertPartition BY <1>3, HighConvert
<1>4. CASE CheckFlag \/ CheckFirstSector \/ CheckFileSystem \/ SetActive
  BY <1>4, HighFlag, HighFirst, HighFs, HighActive
<1>5. CASE \/ ChooseLayout \/ UsePartition \/ PlanEmbedding \/ ZeroUnused \/ WriteHeader1 \/ WriteHeader2
           \/ SaveTable \/ WriteStages
  BY <1>5, HighLayout, HighRoom, HighSave, HighWrite
<1>6. CASE FlushAll
  <2>1. pc = "flush" /\ pc' = "installed" /\ v' = v /\ view' = view BY <1>6 DEF FlushAll, Commit, CommitLosing
  <2> QED BY <2>1 DEF HighInv, AsMbr, CheckedPcs
<1>7. CASE IoError \/ Cleanup \/ UninstallRun \/ PutBack \/ UndoReturn
  <2>1. pc' \in {"cleanup", "undo", "undone"}
    BY <1>7 DEF IoError, Cleanup, UninstallRun, PutBack, UndoReturn
  <2> QED BY <2>1, HighElsewhere DEF CheckedPcs
<1> QED BY <1>1, <1>2, <1>3, <1>4, <1>5, <1>6, <1>7 DEF Next

\* Every partition of an MBR that bios_install installs to, one that it has just
\* converted included, starts behind sector 62 (the check for sector 63).
THEOREM HighInvariant == Spec => []HighInv
<1>1. Init => HighInv BY DEF Init, HighInv, CheckedPcs
<1>2. TabInv /\ ConvInv /\ HighInv /\ [Next]_vars => HighInv' BY HighNext
<1> QED BY <1>1, <1>2, TableInvariant, ConversionInvariant, PTL DEF Spec

-----------------------------------------------------------------------------
(* How far the writes of an install reach.                                 *)

Over == {"cleanup", "undo", "undone", "undefined"}

\* What the conversion zeroes, with the sectors in front, and what an install
\* to a GPT writes, apart from a partition that the user names.
ConvReach == Foreground \cup Touched(0, 34 * LbSize) \cup Touched((LastLba - 32) * LbSize, 33 * LbSize)
GptReach == Boot \cup HdrT(1) \cup HdrT(2) \cup Whole(1) \cup Whole(2)
Reach ==
    IF v.converting THEN ConvReach
    ELSE IF v.gpt THEN GptReach \cup {c \in Cells : Chosen(c)}
    ELSE Foreground

Stages == Touched(v.loc_a, size_a) \cup Touched(v.loc_b, stage2_size - size_a)
Within == \A c \in Cells : view[c] = orig[c] \/ c \in Reach

KeptInv ==
    /\ pc \notin Over => Within
    /\ pc \in LastPcs => Stages \subseteq Reach
    /\ pc = "nuke1" /\ ~v.converting => view = orig
    /\ pc = "nuke1" => i < 34
    /\ pc = "nuke2" => i < 33
    /\ v.gpt /\ pc \notin Over \cup {"secondary"} => Signed(orig)
    /\ ~v.gpt /\ ~v.converting /\ pc \notin Over \cup {"probe"} => ~GptDisk

\* A write into what is reached.
LEMMA WriteWithin ==
    ASSUME Within, NEW p, DOMAIN p \subseteq Reach, NEW c \in Cells
    PROVE  Apply(p, view)[c] = orig[c] \/ c \in Reach
<1> DEFINE S == DOMAIN p
<1>1. c \notin S => Apply(p, view)[c] = view[c] BY PatchedAt
<1> QED BY <1>1 DEF Within

\* The boot sector is always reached, the sectors in front unless there is a GPT.
LEMMA FrontReach ==
    Boot \subseteq Reach /\ (~v.gpt \/ v.converting => Foreground \subseteq Reach)
BY BootFront DEF Reach, ConvReach, GptReach

\* What is reached depends on the path alone.
LEMMA SameReach ==
    ASSUME orig' = orig, v'.gpt = v.gpt, v'.converting = v.converting, v'.partition = v.partition
    PROVE  Reach' = Reach
BY DEF Reach, Chosen

\* The step ends the install.
LEMMA KeptOver == ASSUME pc' \in Over PROVE KeptInv'
BY DEF KeptInv, Over, LastPcs

\* The device is as it was.
LEMMA KeptFresh ==
    ASSUME view' = orig', pc' \notin LastPcs, pc' \in {"nuke1", "nuke2"} => i' = 0,
           v'.gpt /\ pc' # "secondary" => Signed(orig'), ~v'.gpt => ~GptDisk'
    PROVE  KeptInv'
BY DEF KeptInv, Within

\* A step that writes nothing or into what is reached.
LEMMA KeptStep ==
    ASSUME KeptInv, pc \notin Over \cup {"probe", "secondary"}, orig' = orig,
           v'.gpt = v.gpt, v'.converting = v.converting, v'.partition = v.partition,
           NEW p, DOMAIN p \subseteq Reach,
           pc' = "cleanup" \/ view' = view \/ view' = Apply(p, view),
           pc' \notin {"nuke1", "nuke2"},
           pc' \in LastPcs => Stages' \subseteq Reach
    PROVE  KeptInv'
<1>1. CASE pc' \in Over BY <1>1, KeptOver
<1>2. CASE pc' \notin Over
  <2>1. Within BY DEF KeptInv
  <2>2. Reach' = Reach BY SameReach
  <2>3. view' = view \/ view' = Apply(p, view) BY <1>2 DEF Over
  <2>4. \A c \in Cells : view'[c] = orig[c] \/ c \in Reach
    <3>1. CASE view' = view BY <2>1, <3>1 DEF Within
    <3>2. CASE view' = Apply(p, view) BY <2>1, <3>2, WriteWithin
    <3> QED BY <2>3, <3>1, <3>2
  <2>5. Within' BY <2>2, <2>4 DEF Within
  <2>6. GptDisk' = GptDisk BY DEF GptDisk
  <2>7. /\ v'.gpt => Signed(orig')
        /\ ~v'.gpt /\ ~v'.converting => ~GptDisk'
    BY <2>6 DEF KeptInv
  <2> QED BY <2>2, <2>5, <2>7 DEF KeptInv
<1> QED BY <1>1, <1>2

\* The probe for a GPT.
LEMMA KeptProbe == ASSUME TabInv, ProbeGpt PROVE KeptInv'
<1>0. pc = "probe" /\ view = orig /\ v = Locals BY DEF ProbeGpt, TabInv, Locality
<1>1. CASE ~HasSignature(view[<<"hdr", 1>>])
  <2>1. Goto("flag", 0) /\ v' = v BY <1>1 DEF ProbeGpt
  <2>2. orig' = orig /\ view' = view /\ pc' = "flag" BY <2>1, Went
  <2>3. ~GptDisk' BY <1>0, <1>1, <2>2 DEF GptDisk
  <2>4. ~v'.gpt BY <1>0, <2>1 DEF Locals
  <2> QED BY <1>0, <2>2, <2>3, <2>4, KeptFresh DEF LastPcs
<1>2. CASE HasSignature(view[<<"hdr", 1>>]) /\ opts.force_mbr
  <2>1. Goto("cleanup", 0) BY <1>2 DEF ProbeGpt
  <2>2. pc' = "cleanup" BY <2>1, Went
  <2> QED BY <2>2, KeptOver DEF Over
<1>3. CASE HasSignature(view[<<"hdr", 1>>]) /\ ~opts.force_mbr
  <2> DEFINE h == view[<<"hdr", 1>>]
  <2>1. Goto("secondary", 0) /\ v' = [v EXCEPT !.gpt = TRUE, !.header1 = h] BY <1>3 DEF ProbeGpt
  <2>2. orig' = orig /\ view' = view /\ pc' = "secondary" BY <2>1, Went
  <2> HIDE DEF h
  <2>3. v'.gpt BY <1>0, <2>1 DEF Locals
  <2> QED BY <1>0, <2>2, <2>3, KeptFresh DEF LastPcs
<1> QED BY <1>1, <1>2, <1>3

\* Reading a GPT.
LEMMA KeptRead ==
    ASSUME TabInv, StagesInv, KeptInv, ReadSecondary \/ DetectIso \/ GatherEntry PROVE KeptInv'
<1>0. Base /\ v.gpt /\ view = orig /\ orig[<<"hdr", 1>>][1] = 1
  BY DEF TabInv, Locality, GptPcs, StagesInv, Untouched, ReadSecondary, DetectIso, GatherEntry
<1>1. PICK next, n :
         /\ Goto(next, n) /\ next \in {"iso", "cleanup", "gather", "layout", "nuke1", "undefined"}
         /\ next = "nuke1" => n = 0
  <2>1. \E next, n :
           /\ Goto(next, n) /\ next \in {"iso", "cleanup", "gather", "layout", "nuke1", "undefined"}
           /\ next = "nuke1" => n = 0
    BY DEF ReadSecondary, DetectIso, GatherEntry
  <2> QED BY <2>1
<1>2. v' = v \/ \E x : v' = [v EXCEPT !.header2 = x] \/ v' = [v EXCEPT !.part_to_conv = x]
  BY DEF ReadSecondary, DetectIso, GatherEntry
<1>3. v'.gpt BY <1>0, <1>2 DEF Base, Locals
<1>4. pc' = next /\ i' = n /\ orig' = orig /\ view' = view BY <1>1, Went
<1>5. CASE pc' \in Over BY <1>5, KeptOver
<1>6. CASE pc' \notin Over
  <2>1. Signed(orig)
    <3>1. CASE ReadSecondary
      <4>1. HasSignature(view[<<"hdr", 2>>])
        <5>1. ~HasSignature(view[<<"hdr", 2>>]) => Goto("cleanup", 0) BY <3>1 DEF ReadSecondary
        <5>2. Goto("cleanup", 0) => pc' = "cleanup" BY Went
        <5> QED BY <1>6, <5>1, <5>2 DEF Over
      <4> QED BY <1>0, <4>1 DEF Signed, Hdr, HasSignature
    <3>2. CASE DetectIso \/ GatherEntry BY <1>0, <3>2 DEF KeptInv, DetectIso, GatherEntry, Over
    <3> QED BY <3>1, <3>2
  <2> QED BY <1>0, <1>1, <1>3, <1>4, <2>1, KeptFresh DEF LastPcs
<1> QED BY <1>5, <1>6

\* Steps of the conversion, once blocks are zeroed.
LEMMA KeptConvert ==
    ASSUME KeptInv, ConvInv, pc \in {"nuke1", "nuke2", "diskid", "convert"},
           pc # "nuke1" => v.converting, v'.converting, orig' = orig,
           NEW p, DOMAIN p \subseteq ConvReach,
           \/ pc' = "cleanup"
           \/ /\ view' = Apply(p, view) /\ pc' \notin LastPcs
              /\ pc' = "nuke1" => i' < 34
              /\ pc' = "nuke2" => i' < 33
    PROVE  KeptInv'
<1>1. CASE pc' \in Over BY <1>1, KeptOver
<1>2. CASE pc' \notin Over
  <2>0. /\ view' = Apply(p, view) /\ pc' \notin LastPcs
        /\ pc' = "nuke1" => i' < 34
        /\ pc' = "nuke2" => i' < 33
    BY <1>2 DEF Over
  <2>1. Reach' = ConvReach BY DEF Reach, ConvReach, Foreground, Cells, Touched, Placed
  <2>2. \A c \in Cells : view[c] = orig[c] \/ c \in ConvReach
    <3>1. CASE v.converting
      <4>1. Within BY DEF KeptInv, Over
      <4> QED BY <3>1, <4>1 DEF Within, Reach
    <3>2. CASE ~v.converting
      <4>1. view = orig BY <3>2 DEF KeptInv
      <4> QED BY <4>1
    <3> QED BY <3>1, <3>2
  <2>3. \A c \in Cells : view'[c] = orig[c] \/ c \in ConvReach
    <3> SUFFICES ASSUME NEW c \in Cells PROVE view'[c] = orig[c] \/ c \in ConvReach OBVIOUS
    <3> DEFINE S == DOMAIN p
    <3>1. c \notin S => Apply(p, view)[c] = view[c] BY PatchedAt
    <3> QED BY <2>0, <2>2, <3>1
  <2>4. Within' BY <2>1, <2>3 DEF Within
  <2>5. Signed(orig)
    <3>1. pc = "nuke1" \/ v.converting OBVIOUS
    <3> QED BY <3>1 DEF ConvInv
  <2> QED BY <2>0, <2>4, <2>5 DEF KeptInv
<1> QED BY <1>1, <1>2

\* One of the first 34 blocks.
LEMMA KeptNuke1 == ASSUME TabInv, ConvInv, KeptInv, NukePrimary PROVE KeptInv'
<1>0. Base /\ pc = "nuke1" /\ i \in Nat /\ i < 34 BY DEF TabInv, Base, NukePrimary, KeptInv
<1> DEFINE p == Fill(i * LbSize, LbSize, Zero)
<1>1. Loop(p, 34, "nuke2") /\ v' = [v EXCEPT !.converting = TRUE] BY DEF NukePrimary
<1>2. v'.converting BY <1>0, <1>1 DEF Base, Locals
<1>3. DOMAIN p \subseteq ConvReach
  <2>1. LbSize \in Nat BY Grid
  <2>2. i * LbSize \in Int /\ 34 * LbSize \in Int /\ i * LbSize + LbSize <= 34 * LbSize
    BY <1>0, <2>1, Product
  <2>3. 0 <= i * LbSize BY <1>0, <2>1
  <2>4. Touched(i * LbSize, LbSize) \subseteq Touched(0, 34 * LbSize)
    <3> DEFINE x == i * LbSize
               t == 34 * LbSize
    <3>1. x \in Int /\ t \in Int /\ x + LbSize <= 0 + t /\ 0 <= x BY <2>2, <2>3
    <3> HIDE DEF x, t
    <3>2. Touched(x, LbSize) \subseteq Touched(0, t) BY <2>1, <3>1, TouchedPart
    <3> QED BY <3>2 DEF x, t
  <2>5. DOMAIN p = Touched(i * LbSize, LbSize) BY DEF Fill
  <2> QED BY <2>4, <2>5 DEF ConvReach
<1> HIDE DEF p
<1>4. /\ orig' = orig
      /\ \/ i + 1 < 34 /\ pc' = "nuke1" /\ i' = i + 1 /\ view' = Apply(p, view)
         \/ pc' = "nuke2" /\ i' = 0 /\ view' = Apply(p, view)
         \/ pc' = "cleanup"
  BY <1>0, <1>1, Looped
<1>5. \/ pc' = "cleanup"
      \/ view' = Apply(p, view) /\ pc' \notin LastPcs /\ (pc' = "nuke1" => i' < 34) /\ (pc' = "nuke2" => i' < 33)
  BY <1>4 DEF LastPcs
<1> QED BY <1>0, <1>2, <1>3, <1>4, <1>5, KeptConvert

\* One of the last 33 blocks.
LEMMA KeptNuke2 == ASSUME TabInv, ConvInv, KeptInv, NukeSecondary PROVE KeptInv'
<1>0. Base /\ pc = "nuke2" /\ i \in Nat /\ i < 33 /\ v.converting /\ v' = v
  BY DEF TabInv, Base, Locality, NukeSecondary, KeptInv
<1> DEFINE p == Fill((LastLba - 32 + i) * LbSize, LbSize, Zero)
<1>1. Loop(p, 33, "diskid") BY DEF NukeSecondary
<1>3. DOMAIN p \subseteq ConvReach
  <2>1. LbSize \in Nat /\ LastLba \in Nat BY Grid
  <2> DEFINE q == LastLba - 32
             x == (q + i) * LbSize
             y == q * LbSize
             t == 33 * LbSize
             s == i * LbSize
  <2>2. q \in Int BY <2>1
  <2> HIDE DEF q
  <2>3. x = y + s BY <1>0, <2>1, <2>2
  <2>4. s \in Int /\ t \in Int /\ s + LbSize <= t BY <1>0, <2>1, Product
  <2>5. 0 <= s /\ y \in Int BY <1>0, <2>1, <2>2
  <2> HIDE DEF x, y, t, s
  <2>6. x \in Int /\ y <= x /\ x + LbSize <= y + t BY <2>1, <2>3, <2>4, <2>5
  <2>7. Touched(x, LbSize) \subseteq Touched(y, t) BY <2>1, <2>4, <2>5, <2>6, TouchedPart
  <2>8. DOMAIN p = Touched(x, LbSize) BY DEF Fill, x, q
  <2>9. Touched(y, t) \subseteq ConvReach BY DEF ConvReach, y, t, q
  <2> QED BY <2>7, <2>8, <2>9
<1> HIDE DEF p
<1>4. /\ orig' = orig
      /\ \/ i + 1 < 33 /\ pc' = "nuke2" /\ i' = i + 1 /\ view' = Apply(p, view)
         \/ pc' = "diskid" /\ i' = 0 /\ view' = Apply(p, view)
         \/ pc' = "cleanup"
  BY <1>0, <1>1, Looped
<1>5. \/ pc' = "cleanup"
      \/ view' = Apply(p, view) /\ pc' \notin LastPcs /\ (pc' = "nuke1" => i' < 34) /\ (pc' = "nuke2" => i' < 33)
  BY <1>4 DEF LastPcs
<1> QED BY <1>0, <1>3, <1>4, <1>5, KeptConvert

\* The fields of the table are in front.
LEMMA GuardedFront ==
    ASSUME NEW b \in Guarded, NEW x PROVE DOMAIN SetCell(b, x) \subseteq Foreground
<1>1. b \in MbrCells BY GuardedIsMbr DEF MbrCells
<1>2. Place(b)[1] \in Nat /\ Place(b)[2] \in Nat /\ Place(b)[1] + Place(b)[2] <= 512 BY <1>1, MbrInSector
<1>3. Place(b)[1] + Place(b)[2] <= 1082 BY <1>2
<1>4. Touched(Place(b)[1], Place(b)[2]) \subseteq Foreground BY <1>2, <1>3, FrontTouched
<1> QED BY <1>4 DEF SetCell, Fill

\* The disk ID.
LEMMA KeptDiskId == ASSUME TabInv, ConvInv, KeptInv, WriteDiskId PROVE KeptInv'
<1>0. Base /\ pc = "diskid" /\ i \in Nat /\ v.converting
  BY DEF TabInv, Base, WriteDiskId, Locality
<1> DEFINE p == SetCell(<<"id", i>>, <<3>>)
           after == IF v.part_to_conv = <<>> THEN "flag" ELSE "convert"
<1>1. Loop(p, 4, after) /\ v' = [v EXCEPT !.gpt = FALSE] BY DEF WriteDiskId
<1>2. v'.converting BY <1>0, <1>1 DEF Base, Locals
<1>3. i \in 0..3 BY <1>0 DEF ConvInv, Rewritten
<1>4. <<"id", i>> \in Guarded BY <1>3, ColCell
<1>5. DOMAIN p \subseteq ConvReach BY <1>4, GuardedFront DEF ConvReach
<1> HIDE DEF p
<1>6. after \in {"flag", "convert"} OBVIOUS
<1> HIDE DEF after
<1>7. /\ orig' = orig
      /\ \/ pc' \in {"diskid", "flag", "convert"} /\ view' = Apply(p, view)
         \/ pc' = "cleanup"
  BY <1>0, <1>1, <1>6, Looped
<1>8. \/ pc' = "cleanup"
      \/ view' = Apply(p, view) /\ pc' \notin LastPcs /\ (pc' = "nuke1" => i' < 34) /\ (pc' = "nuke2" => i' < 33)
  BY <1>7 DEF LastPcs
<1> QED BY <1>0, <1>2, <1>5, <1>7, <1>8, KeptConvert

\* A field of a partition.
LEMMA KeptField == ASSUME TabInv, ConvInv, KeptInv, ConvertPartition PROVE KeptInv'
<1>0. Base /\ pc = "convert" /\ i \in Nat /\ v.converting /\ v' = v
  BY DEF TabInv, Base, ConvertPartition, Locality
<1> DEFINE l == v.part_to_conv
           part == l[(i \div 5) + 1]
           fields == <<<<"type", <<part.type>>>>, <<"start", <<part.lba_start>>>>,
                       <<"count", <<sect_count(part)>>>>,
                       <<"chs_start", part.chs_start>>, <<"chs_end", part.chs_end>>>>
           f == fields[(i % 5) + 1]
           p == SetCell(Col(i), f[2])
<1>1. Gathered(orig, l, NumEntries) /\ i < 5 * Len(l) BY <1>0 DEF ConvInv, Rewritten
<1>2. Len(l) \in 0..4 BY <1>1, RankNext, GeometryAssumption DEF Gathered
<1>3. i \in 0..19
  <2>1. \A n \in 0..4 : i < 5 * n => i \in 0..19 BY <1>0
  <2> QED BY <1>1, <1>2, <2>1
<1>4. f[1] = Columns[(i % 5) + 1]
  <2>1. (i % 5) + 1 \in 1..5 BY <1>0
  <2>2. \A r \in 1..5 : fields[r][1] = Columns[r]
    <3> HIDE DEF part
    <3> QED BY DEF Columns
  <2> HIDE DEF fields
  <2> QED BY <2>1, <2>2
<1>5. Loop(p, 5 * Len(l), "flag")
  <2>1. Loop(SetCell(<<f[1], i \div 5>>, f[2]), 5 * Len(l), "flag") BY DEF ConvertPartition
  <2>2. SetCell(<<f[1], i \div 5>>, f[2]) = p BY <1>4 DEF Col
  <2> QED BY <2>1, <2>2
<1>6. DOMAIN p \subseteq ConvReach
  <2>1. Col(i) \in Guarded BY <1>3, ColCell
  <2> HIDE DEF f
  <2> QED BY <2>1, GuardedFront DEF ConvReach
<1> HIDE DEF p
<1>7. /\ orig' = orig
      /\ \/ pc' \in {"convert", "flag"} /\ view' = Apply(p, view)
         \/ pc' = "cleanup"
  BY <1>0, <1>5, Looped
<1>8. \/ pc' = "cleanup"
      \/ view' = Apply(p, view) /\ pc' \notin LastPcs /\ (pc' = "nuke1" => i' < 34) /\ (pc' = "nuke2" => i' < 33)
  BY <1>7 DEF LastPcs
<1> QED BY <1>0, <1>6, <1>7, <1>8, KeptConvert

\* A magic is in front.
LEMMA MagicFront ==
    ASSUME NEW n \in 0..5, NEW x PROVE DOMAIN SetCell(<<FileSystems[n + 1][1], 0>>, x) \subseteq Foreground
<1> DEFINE s == FileSystems[n + 1][1]
<1>1. s \in {"sig", "fat16", "fat32", "ext"}
  <2>1. \A m \in 1..6 : FileSystems[m][1] \in {"sig", "fat16", "fat32", "ext"} BY DEF FileSystems
  <2> QED BY <2>1
<1> HIDE DEF s
<1>2. Place(<<s, 0>>) \in {<<3, 9>>, <<54, 5>>, <<82, 5>>, <<1080, 2>>}
  <2>1. <<s, 0>>[1] = s OBVIOUS
  <2>2. s \in DOMAIN MbrPlace /\ MbrPlace[s] \in {<<3, 9>>, <<54, 5>>, <<82, 5>>, <<1080, 2>>}
    BY <1>1 DEF MbrPlace
  <2>3. Place(<<s, 0>>) = MbrPlace[s] BY <1>1, <2>1, <2>2 DEF Place, MbrPlace, EntryField
  <2> QED BY <2>2, <2>3
<1> DEFINE a == Place(<<s, 0>>)[1]
           m == Place(<<s, 0>>)[2]
<1>3. a \in Nat /\ m \in Nat /\ a + m <= 1082 BY <1>2
<1> HIDE DEF a, m
<1>4. Touched(a, m) \subseteq Foreground BY <1>3, FrontTouched
<1>5. DOMAIN SetCell(<<s, 0>>, x) = Touched(a, m) BY DEF SetCell, Fill, a, m
<1> QED BY <1>4, <1>5 DEF s

\* The sanity checks on an MBR.
LEMMA KeptChecks ==
    ASSUME TabInv, KeptInv, CheckFlag \/ CheckFirstSector \/ CheckFileSystem \/ SetActive PROVE KeptInv'
<1>0. Base /\ ~v.gpt /\ pc \in MbrPcs
  BY DEF TabInv, Locality, MbrPcs, CheckFlag, CheckFirstSector, CheckFileSystem, SetActive
<1>1. Foreground \subseteq Reach BY <1>0, FrontReach
<1>2. pc \notin Over \cup {"probe", "secondary"} BY <1>0 DEF MbrPcs, Over
<1>3. v'.gpt = v.gpt /\ v'.converting = v.converting /\ v'.partition = v.partition
  <2>1. CASE CheckFlag
    <3> DEFINE flag == view[Flag(i)][1]
               masked == IF flag >= 128 THEN 128 ELSE 0
               fits == flag \in {0, 128} \/ opts.force_mbr
    <3>1. v' = [v EXCEPT !.mbr = (i = 0 \/ @) /\ fits, !.any_active = @ \/ masked = 128]
      BY <2>1 DEF CheckFlag, Flag
    <3> HIDE DEF masked, fits
    <3> QED BY <1>0, <3>1 DEF Base, Locals
  <2>2. CASE CheckFirstSector \/ SetActive BY <2>2 DEF CheckFirstSector, SetActive
  <2>3. CASE CheckFileSystem
    <3>1. v' = v \/ \E a : v' = [v EXCEPT !.mbr = a] BY <2>3, Zenon DEF CheckFileSystem
    <3> QED BY <1>0, <3>1 DEF Base, Locals
  <2> QED BY <2>1, <2>2, <2>3
<1>4. \E p, next, n : /\ DeviceWrite(p, next, n) \/ Goto(next, n)
                      /\ DOMAIN p \subseteq Foreground /\ next \in MbrPcs \cup {"cleanup", "layout"}
  <2>1. CASE CheckFlag
    <3>0. i \in 0..3 BY <2>1 DEF TabInv, CheckFlag, Locality, Base
    <3>1. PICK x : DeviceWrite(SetCell(Flag(i), x), "first", i) \/ Goto("first", i)
      <4>1. \E x : DeviceWrite(SetCell(Flag(i), x), "first", i) \/ Goto("first", i)
        BY <2>1 DEF CheckFlag, Flag
      <4> QED BY <4>1
    <3>2. DOMAIN SetCell(Flag(i), x) \subseteq Foreground BY <3>0, FlagCell, GuardedFront
    <3> QED BY <3>1, <3>2 DEF MbrPcs
  <2>2. CASE CheckFirstSector
    <3>1. \E next, n : Goto(next, n) /\ next \in {"cleanup", "flag", "fs"} BY <2>2 DEF CheckFirstSector
    <3>2. DOMAIN SetCell(Flag(0), Zero) \subseteq Foreground BY FlagCell, GuardedFront
    <3> QED BY <3>1, <3>2 DEF MbrPcs
  <2>3. CASE CheckFileSystem
    <3>0. i \in 0..5 BY <2>3 DEF TabInv, CheckFileSystem, Locality, Base
    <3> DEFINE c == <<FileSystems[i + 1][1], 0>>
               next == IF i < 5 THEN <<"fs", i + 1>> ELSE <<"active", 0>>
    <3>1. DeviceWrite(SetCell(c, Zero), next[1], next[2]) \/ Goto(next[1], next[2])
      BY <2>3, Zenon DEF CheckFileSystem
    <3>2. next[1] \in {"fs", "active"} OBVIOUS
    <3>3. DOMAIN SetCell(c, Zero) \subseteq Foreground BY <3>0, MagicFront
    <3> HIDE DEF c, next
    <3> QED BY <3>1, <3>2, <3>3 DEF MbrPcs
  <2>4. CASE SetActive
    <3> DEFINE x == <<128>>
    <3>1. DeviceWrite(SetCell(Flag(0), x), "layout", 0) \/ Goto("layout", 0) BY <2>4 DEF SetActive, Flag
    <3> HIDE DEF x
    <3>2. DOMAIN SetCell(Flag(0), x) \subseteq Foreground BY FlagCell, GuardedFront
    <3> QED BY <3>1, <3>2
  <2> QED BY <2>1, <2>2, <2>3, <2>4
<1>5. PICK p, next, n : /\ DeviceWrite(p, next, n) \/ Goto(next, n)
                        /\ DOMAIN p \subseteq Foreground /\ next \in MbrPcs \cup {"cleanup", "layout"}
  BY <1>4
<1>6. /\ orig' = orig /\ pc' \in MbrPcs \cup {"cleanup", "layout"}
      /\ view' = view \/ view' = Apply(p, view)
  BY <1>5, Wrote, Went
<1>7. pc' \notin {"nuke1", "nuke2"} /\ pc' \notin LastPcs BY <1>6 DEF MbrPcs, LastPcs
<1> QED BY <1>1, <1>2, <1>3, <1>5, <1>6, <1>7, KeptStep

\* Stage 2 behind the boot sector.
LEMMA KeptLayout == ASSUME TabInv, KeptInv, ChooseLayout PROVE KeptInv'
<1>0. Base /\ pc = "layout" BY DEF TabInv, ChooseLayout
<1> DEFINE b == 512 + size_a
<1>1. v' = [v EXCEPT !.loc_a = 512, !.loc_b = b] BY DEF ChooseLayout, AfterFirstHalf
<1>2. Goto("partition", 0) \/ Goto("embed", 0) \/ (~v.gpt /\ Goto("save", 0)) \/ Goto("cleanup", 0)
  BY Zenon DEF ChooseLayout
<1>3. /\ view' = view /\ orig' = orig /\ pc' \in {"partition", "embed", "save", "cleanup"}
      /\ pc' = "save" => ~v.gpt
  BY <1>2, Went
<1>4. size_a \in Nat /\ stage2_size \in Nat /\ size_a <= stage2_size BY Halves
<1>5. BootloaderFileSize \in Nat /\ stage2_size = BootloaderFileSize - 512
  BY StageAssumption DEF stage2_size
<1> DEFINE r == stage2_size - size_a
<1>6. r \in Nat /\ b \in Nat /\ b + r <= BootloaderFileSize /\ 512 + size_a <= BootloaderFileSize
  BY <1>4, <1>5
<1> HIDE DEF r, b
<1>7. Touched(512, size_a) \subseteq Foreground /\ Touched(b, r) \subseteq Foreground BY <1>4, <1>6, FrontTouched
<1>8. /\ v'.gpt = v.gpt /\ v'.converting = v.converting /\ v'.partition = v.partition
      /\ v'.loc_a = 512 /\ v'.loc_b = b
  BY <1>0, <1>1 DEF Base, Locals
<1>9. Stages' = Touched(512, size_a) \cup Touched(b, r)
  BY <1>8 DEF Stages, Touched, Placed, Cells, r, size_a, stage2_size
<1>10. pc' \in LastPcs => Stages' \subseteq Reach BY <1>3, <1>7, <1>9, FrontReach DEF LastPcs
<1>11. DOMAIN SetCell(Flag(0), Zero) \subseteq Reach
  <2>1. Touched(446, 1) \subseteq Boot BY TouchedPart DEF Boot
  <2>2. Place(Flag(0)) = <<446, 1>> BY FlagCell
  <2> QED BY <2>1, <2>2, FrontReach DEF SetCell, Fill
<1>12. pc \notin Over \cup {"probe", "secondary"} /\ pc' \notin {"nuke1", "nuke2"} BY <1>0, <1>3 DEF Over
<1> QED BY <1>3, <1>8, <1>10, <1>11, <1>12, KeptStep

\* Both halves fit a partition that is large enough.
LEMMA HalvesInside ==
    ASSUME NEW e, Sound(e), ~TooSmall(e)
    PROVE  LET loc == e[3] * LbSize
               rest == loc + size_a
               b == IF rest % LbSize = 0 THEN rest ELSE AlignDown(rest + LbSize, LbSize)
           IN  \A c \in Touched(loc, size_a) \cup Touched(b, stage2_size - size_a) : Overlap(Place(c), Extent(e))
<1> DEFINE first == e[3]
           last == e[4]
           loc == first * LbSize
           rest == loc + size_a
           b == IF rest % LbSize = 0 THEN rest ELSE AlignDown(rest + LbSize, LbSize)
           r == stage2_size - size_a
           size == (last - first + 1) * LbSize
<1>0. LbSize \in Nat BY Grid
<1>1. first \in Nat /\ last \in Nat /\ first <= last BY DEF Sound
<1>2. ~(size < 32768) BY DEF TooSmall
<1>3. Extent(e) = <<loc, size>> BY DEF Extent
<1> HIDE DEF first, last
<1>4. loc \in Nat /\ size \in Int /\ size >= 32768 BY <1>0, <1>1, <1>2
<1>5. size_a \in Nat /\ r \in Nat /\ stage2_size \in Nat /\ size_a <= stage2_size /\ r = stage2_size - size_a
  BY Halves
<1>6. stage2_size + LbSize <= 32768 BY GptAssumption
<1> HIDE DEF loc, size, r
<1>7. rest \in Nat /\ rest = loc + size_a BY <1>4, <1>5
<1> HIDE DEF rest
<1>8. b \in Nat /\ rest <= b /\ b <= rest + LbSize BY <1>7, NextEdge, NearEdge
<1> HIDE DEF b
<1>9. loc <= b /\ b + r <= loc + size /\ loc + size_a <= loc + size
  BY <1>0, <1>4, <1>5, <1>6, <1>7, <1>8
<1>10. Touched(loc, size_a) \subseteq Touched(loc, size) /\ Touched(b, r) \subseteq Touched(loc, size)
  BY <1>4, <1>5, <1>8, <1>9, TouchedPart
<1>11. \A c \in Touched(loc, size) : Overlap(Place(c), <<loc, size>>) BY TouchedIs
<1>12. \A c \in Touched(loc, size_a) \cup Touched(b, r) : Overlap(Place(c), Extent(e)) BY <1>3, <1>10, <1>11
<1> QED BY <1>12 DEF b, rest, loc, first, r

\* A partition for stage 2.
LEMMA KeptPartition ==
    ASSUME TabInv, StagesInv, Asked, GptInv, ConvInv, KeptInv, UsePartition PROVE KeptInv'
<1> DEFINE num == (opts.part_ndx - 1) % UINT32
           e == Entry(num)
           loc == e[3] * LbSize
           rest == loc + size_a
           b == IF rest % LbSize = 0 THEN rest ELSE AlignDown(rest + LbSize, LbSize)
<1>0. Base /\ v.gpt /\ pc = "partition" /\ view = orig
  BY DEF TabInv, UsePartition, Locality, GptPcs, StagesInv, Untouched
<1>1. \/ Goto("cleanup", 0)
      \/ /\ ~(num > v.header1[2]) /\ Used(e) /\ ~TooSmall(e) /\ Goto("save", 0)
         /\ v' = [v EXCEPT !.partition = num, !.loc_a = loc, !.loc_b = b]
  BY Zenon DEF UsePartition, AfterFirstHalf
<1>2. CASE Goto("cleanup", 0)
  <2>1. pc' = "cleanup" BY <1>2, Went
  <2> QED BY <2>1, KeptOver DEF Over
<1>3. CASE /\ ~(num > v.header1[2]) /\ Used(e) /\ ~TooSmall(e) /\ Goto("save", 0)
           /\ v' = [v EXCEPT !.partition = num, !.loc_a = loc, !.loc_b = b]
  <2>0. orig' = orig /\ view' = view /\ pc' = "save" BY <1>3, Went
  <2>1. num \in Nat
    <3>1. opts.part_ndx \in Int /\ UINT32 \in Nat \ {0} BY BeyondAssumption DEF Asked
    <3> QED BY <3>1
  <2>2. Used(Beyond) => num # NumEntries BY BeyondAssumption DEF Asked
  <2>3. /\ v'.loc_a = loc /\ v'.loc_b = b /\ v'.converting = v.converting /\ v'.gpt = v.gpt
        /\ v'.partition = num
    <3> HIDE DEF loc, b, num
    <3> QED BY <1>0, <1>3 DEF Base, Locals
  <2>4. Signed(orig) /\ ~v.converting
    <3>1. Signed(orig) BY <1>0 DEF KeptInv, Over
    <3>2. ~v.converting BY <1>0, ConvReading DEF GptPcs
    <3> QED BY <3>1, <3>2
  <2>5. ValidGpt(orig) BY <1>0, <2>4, SignedValid
  <2>6. v.header1 = orig[Hdr(1)] BY <1>0, <2>4 DEF GptInv, StageOf, Untouched
  <2>7. v.header1[2] = NumEntries BY <2>5, <2>6 DEF ValidGpt, Hdr, Header
  <2> HIDE DEF num
  <2>8. num <= NumEntries /\ NumEntries \in Nat BY <1>3, <2>1, <2>7, Grid
  <2>9. num \in 0..(NumEntries - 1) \/ num = NumEntries BY <2>1, <2>8
  <2>10. num \in 0..(NumEntries - 1)
    <3>1. num = NumEntries => <<"ent1", num>> \notin Cells
      <4>1. NumEntries \notin 0..(NumEntries - 1) BY <2>8
      <4> QED BY <4>1 DEF Cells, FineCells, MbrCells
    <3>2. num = NumEntries => e = Beyond BY <3>1 DEF Entry
    <3> QED BY <1>3, <2>2, <2>9, <3>2
  <2>11. Ent(1, num) \in Cells /\ Ent(1, num) = <<"ent1", num>> BY <2>10, EntCell DEF Ent
  <2>12. e = orig[<<"ent1", num>>] BY <1>0, <2>11 DEF Entry
  <2>13. Sound(e) BY <1>3, <2>5, <2>10, <2>12 DEF ValidGpt
  <2> DEFINE S == Touched(loc, size_a) \cup Touched(b, stage2_size - size_a)
  <2>14. \A c \in S : Overlap(Place(c), Extent(e))
    <3> HIDE DEF e
    <3> QED BY <1>3, <2>13, HalvesInside
  <2>15. S \subseteq Cells BY RegionCells
  <2>16. Stages' = S
    <3> HIDE DEF loc, b
    <3> QED BY <2>3 DEF Stages, Touched, Placed, Cells, size_a, stage2_size
  <2> HIDE DEF S, loc, b
  <2>17. \A c \in S : Chosen(c)'
    <3>1. Extent(e) = Extent(orig'[<<"ent1", v'.partition>>]) BY <2>0, <2>3, <2>12
    <3> HIDE DEF e
    <3>2. v'.partition >= 0 BY <2>1, <2>3
    <3> QED BY <2>14, <3>1, <3>2 DEF Chosen
  <2>18. S \subseteq Reach' BY <1>0, <2>3, <2>4, <2>15, <2>17 DEF Reach
  <2>19. Within' BY <1>0, <2>0 DEF Within
  <2> QED BY <1>0, <2>0, <2>3, <2>4, <2>16, <2>18, <2>19 DEF KeptInv
<1> QED BY <1>1, <1>2, <1>3

\* A plan for the arrays.
LEMMA KeptPlan == ASSUME TabInv, StagesInv, ConvInv, KeptInv, PlanEmbedding PROVE KeptInv'
<1>0. Base /\ v.gpt /\ pc = "embed" /\ view = orig
  BY DEF TabInv, PlanEmbedding, Locality, GptPcs, StagesInv, Untouched
<1>1. Signed(orig) BY <1>0 DEF KeptInv, Over
<1> DEFINE max_used == Max({-1} \cup {k \in 0..(v.header1[2] - 1) : Used(Entry(k))})
           a == AlignDown((EntryLba1 + 32) * LbSize - size_a, LbSize)
           b == AlignDown((EntryLba2 + 32) * LbSize - size_b, LbSize)
           count == (a \div LbSize - EntryLba1) * (LbSize \div EntrySize)
<1>2. v' = v \/ v' = [v EXCEPT !.max_used = max_used, !.new_count = count, !.loc_a = a, !.loc_b = b]
  BY DEF PlanEmbedding
<1> HIDE DEF max_used, a, b, count
<1>3. v'.gpt BY <1>0, <1>2 DEF Base, Locals
<1>4. \E next, n : Goto(next, n) /\ next \in {"cleanup", "zero1", "header1"} BY DEF PlanEmbedding
<1>5. view' = view /\ orig' = orig /\ pc' \in {"cleanup", "zero1", "header1"} BY <1>4, Went
<1> QED BY <1>0, <1>1, <1>3, <1>5, KeptFresh DEF LastPcs

\* Zeroing an entry.
LEMMA KeptZero == ASSUME TabInv, GptInv, ConvInv, KeptInv, ZeroUnused PROVE KeptInv'
<1>0. Base /\ v' = v /\ v.gpt /\ pc \in {"zero1", "zero2"}
  BY DEF TabInv, Locality, GptPcs, ZeroUnused
<1>1. ~v.converting BY <1>0, ConvReading DEF GptPcs
<1>2. Signed(orig) BY <1>0 DEF KeptInv, Over
<1> DEFINE c == IF pc = "zero1" THEN 1 ELSE 2
           p == ZeroWrite(c, i)
           n == v.new_count
<1>3. \E next, m : DeviceWrite(p, next, m) /\ next \in {"zero1", "zero2", "header1"}
  <2>1. p = Fill((IF pc = "zero1" THEN EntryLba1 ELSE EntryLba2) * LbSize + i * EntrySize, EntrySize, Zero)
    BY DEF ZeroWrite, ArrayLba
  <2> HIDE DEF p
  <2> QED BY <1>0, <2>1 DEF ZeroUnused
<1>4. i \in Nat /\ i < n /\ Plan(orig, v.max_used, n, v.loc_a, v.loc_b)
  BY <1>0, <1>1, <1>2 DEF GptInv, StageOf, ShrinkPcs
<1>5. n \in Nat /\ n * EntrySize <= 32 * LbSize BY <1>4, PlanFits
<1>6. c \in {1, 2} OBVIOUS
<1> HIDE DEF c, n
<1>7. Slot(c, i) \subseteq Whole(c) BY <1>4, <1>5, <1>6, SlotInArray, InWhole
<1>8. DOMAIN p = Slot(c, i) BY DEF ZeroWrite, Fill, Slot
<1>9. DOMAIN p \subseteq Reach BY <1>0, <1>1, <1>6, <1>7, <1>8 DEF Reach, GptReach
<1> HIDE DEF p
<1>10. /\ orig' = orig /\ pc' \in {"zero1", "zero2", "header1", "cleanup"}
       /\ view' = view \/ view' = Apply(p, view)
  BY <1>3, Wrote
<1>11. pc \notin Over \cup {"probe", "secondary"} /\ pc' \notin {"nuke1", "nuke2"} /\ pc' \notin LastPcs
  BY <1>0, <1>10 DEF Over, LastPcs
<1> QED BY <1>0, <1>9, <1>10, <1>11, KeptStep

\* A planned stage 2 lies in the arrays.
LEMMA PlanInside ==
    ASSUME NEW o, NEW m, NEW n, NEW a, NEW b, Plan(o, m, n, a, b)
    PROVE  Touched(a, size_a) \cup Touched(b, stage2_size - size_a) \subseteq Whole(1) \cup Whole(2)
<1> DEFINE x == EntryLba1 * LbSize
           y == EntryLba2 * LbSize
           t == 32 * LbSize
           s == n * EntrySize
           r == stage2_size - size_a
<1>1. n \in Nat /\ s \in Nat BY PlanFits
<1>2. /\ a = x + s /\ a + size_a <= (EntryLba1 + 32) * LbSize
      /\ b >= y + s /\ b + size_b <= (EntryLba2 + 32) * LbSize /\ a \in Nat /\ b \in Nat
  BY DEF Plan, Room, Fits
<1>3. /\ x \in Nat /\ y \in Nat /\ LbSize \in Nat /\ t \in Nat
      /\ (EntryLba1 + 32) * LbSize = x + t /\ (EntryLba2 + 32) * LbSize = y + t
  BY Grid
<1>4. /\ size_a \in Nat /\ size_b \in Nat /\ r \in Nat /\ r <= size_b
  BY Halves
<1>5. ArrayLba(1) * LbSize = x /\ ArrayLba(2) * LbSize = y BY DEF ArrayLba
<1> HIDE DEF x, y, t, s
<1>6. x <= a /\ a + size_a <= x + t /\ y <= b BY <1>1, <1>2, <1>3
<1>7. b + r <= y + t
  <2> HIDE DEF r
  <2> QED BY <1>2, <1>3, <1>4
<1>8. Touched(a, size_a) \subseteq Touched(x, t) BY <1>2, <1>3, <1>4, <1>6, TouchedPart
<1>9. Touched(b, r) \subseteq Touched(y, t)
  <2> HIDE DEF r
  <2> QED BY <1>2, <1>3, <1>4, <1>6, <1>7, TouchedPart
<1>10. Whole(1) = Touched(x, t) /\ Whole(2) = Touched(y, t) BY <1>5 DEF Whole, t
<1> QED BY <1>8, <1>9, <1>10

\* Writing a header.
LEMMA KeptHeader ==
    ASSUME TabInv, GptInv, ConvInv, KeptInv, WriteHeader1 \/ WriteHeader2 PROVE KeptInv'
<1>0. Base /\ v.gpt /\ pc \in {"header1", "header2"}
  BY DEF TabInv, Locality, GptPcs, WriteHeader1, WriteHeader2
<1>1. ~v.converting BY <1>0, ConvReading DEF GptPcs
<1>2. Signed(orig) BY <1>0 DEF KeptInv, Over
<1>3. \E x : v' = [v EXCEPT !.header1 = x] \/ v' = [v EXCEPT !.header2 = x] BY DEF WriteHeader1, WriteHeader2
<1>4. /\ v'.gpt = v.gpt /\ v'.converting = v.converting /\ v'.partition = v.partition
      /\ v'.loc_a = v.loc_a /\ v'.loc_b = v.loc_b
  BY <1>0, <1>3 DEF Base, Locals
<1>5. \E c, h, next : /\ c \in {1, 2} /\ next \in {"header2", "save"}
                       /\ DeviceWrite(SetCell(Hdr(c), h), next, 0)
  BY DEF WriteHeader1, WriteHeader2, Hdr
<1>6. PICK c, h, next : /\ c \in {1, 2} /\ next \in {"header2", "save"}
                         /\ DeviceWrite(SetCell(Hdr(c), h), next, 0)
  BY <1>5
<1> DEFINE p == SetCell(Hdr(c), h)
<1>7. DOMAIN p = HdrT(c)
  <2>1. DOMAIN p = Touched(Place(Hdr(c))[1], Place(Hdr(c))[2]) BY DEF SetCell, Fill
  <2> HIDE DEF p
  <2> QED BY <1>6, <2>1, HdrCell DEF HdrT
<1>8. DOMAIN p \subseteq Reach BY <1>0, <1>1, <1>6, <1>7 DEF Reach, GptReach
<1> HIDE DEF p
<1>9. DeviceWrite(p, next, 0) BY <1>6 DEF p
<1>10. /\ orig' = orig /\ pc' \in {"header2", "save", "cleanup"}
       /\ view' = view \/ view' = Apply(p, view)
  BY <1>6, <1>9, Wrote
<1>11. Stages' \subseteq Reach
  <2>1. Plan(orig, v.max_used, v.new_count, v.loc_a, v.loc_b)
    BY <1>0, <1>1, <1>2 DEF GptInv, StageOf, ShrinkPcs
  <2>2. Stages \subseteq Whole(1) \cup Whole(2) BY <2>1, PlanInside DEF Stages
  <2>3. Stages' = Stages BY <1>4 DEF Stages, Touched, Placed, Cells, size_a, stage2_size
  <2> QED BY <1>0, <1>1, <2>2, <2>3 DEF Reach, GptReach
<1>12. pc \notin Over \cup {"probe", "secondary"} /\ pc' \notin {"nuke1", "nuke2"}
  BY <1>0, <1>10 DEF Over
<1> QED BY <1>4, <1>8, <1>10, <1>11, <1>12, KeptStep

\* The table is saved.
LEMMA KeptSave == ASSUME TabInv, KeptInv, SaveTable PROVE KeptInv'
<1>0. Base /\ pc = "save" BY DEF TabInv, SaveTable
<1> DEFINE keep == [c \in Touched(218, 6) \cup Touched(440, 70) |-> view[c]]
<1>1. Goto("write", 0) /\ v' = [v EXCEPT !.saved = keep] BY DEF SaveTable
<1> HIDE DEF keep
<1>2. orig' = orig /\ view' = view /\ pc' = "write" BY <1>1, Went
<1>3. /\ v'.gpt = v.gpt /\ v'.converting = v.converting /\ v'.partition = v.partition
      /\ v'.loc_a = v.loc_a /\ v'.loc_b = v.loc_b
  BY <1>0, <1>1 DEF Base, Locals
<1>4. Stages \subseteq Reach BY <1>0 DEF KeptInv, LastPcs
<1>5. Stages' = Stages BY <1>3 DEF Stages, Touched, Placed, Cells, size_a, stage2_size
<1>6. DOMAIN Writes[1] \subseteq Reach
  <2>1. Writes[1] = Image(0, 0, 512) BY DEF Writes, ImageWrites, WriteBacks
  <2> QED BY <2>1, ImageHeld, FrontReach DEF Boot
<1>7. pc \notin Over \cup {"probe", "secondary"} /\ pc' \notin {"nuke1", "nuke2"} BY <1>0, <1>2 DEF Over
<1> DEFINE p == Writes[1]
<1> HIDE DEF p
<1>8. DOMAIN p \subseteq Reach BY <1>6 DEF p
<1> QED BY <1>2, <1>3, <1>4, <1>5, <1>7, <1>8, KeptStep

\* The nine writes.
LEMMA KeptWrite == ASSUME TabInv, KeptInv, WriteStages PROVE KeptInv'
<1>0. pc = "write" /\ v' = v /\ i \in Nat /\ i <= 8 BY DEF TabInv, WriteStages, Base, Locality
<1> DEFINE p == Writes[i + 1]
<1>1. Loop(p, 9, "flush") BY <1>0, NineWrites DEF WriteStages
<1>2. Stages \subseteq Reach BY <1>0 DEF KeptInv, LastPcs
<1>3. DOMAIN p \subseteq Reach
  <2>1. i \in 0..8 BY <1>0
  <2>2. \/ DOMAIN p \subseteq Boot
        \/ DOMAIN p = Touched(v.loc_a, size_a)
        \/ DOMAIN p = Touched(v.loc_b, stage2_size - size_a)
    BY <2>1, WritePlaces
  <2> HIDE DEF p
  <2> QED BY <1>2, <2>2, FrontReach DEF Stages
<1> HIDE DEF p
<1>4. /\ orig' = orig /\ pc' \in {"write", "flush", "cleanup"}
      /\ view' = view \/ view' = Apply(p, view)
  BY <1>0, <1>1, Looped
<1>5. Stages' = Stages BY <1>0 DEF Stages, Touched, Placed, Cells, size_a, stage2_size
<1>6. pc \notin Over \cup {"probe", "secondary"} /\ pc' \notin {"nuke1", "nuke2"} BY <1>0, <1>4 DEF Over
<1> QED BY <1>0, <1>2, <1>3, <1>4, <1>5, <1>6, KeptStep

\* The last step.
LEMMA KeptFlush == ASSUME KeptInv, FlushAll PROVE KeptInv'
<1>0. pc = "flush" /\ pc' = "installed" /\ v' = v /\ view' = view /\ orig' = orig BY DEF FlushAll, Commit, CommitLosing
<1>1. Stages' = Stages BY <1>0 DEF Stages, Touched, Placed, Cells, size_a, stage2_size
<1>2. Reach' = Reach BY <1>0, SameReach
<1>3. Within' <=> Within BY <1>0, <1>2 DEF Within
<1>4. GptDisk' = GptDisk BY <1>0 DEF GptDisk
<1> QED BY <1>0, <1>1, <1>2, <1>3, <1>4 DEF KeptInv, LastPcs, Over

\* Nothing happens.
LEMMA KeptStutter == ASSUME KeptInv, UNCHANGED vars PROVE KeptInv'
<1>0. pc' = pc /\ v' = v /\ view' = view /\ orig' = orig /\ i' = i BY DEF vars, device
<1>1. Stages' = Stages BY <1>0 DEF Stages, Touched, Placed, Cells, size_a, stage2_size
<1>2. Reach' = Reach BY <1>0, SameReach
<1>3. Within' <=> Within BY <1>0, <1>2 DEF Within
<1>4. GptDisk' = GptDisk BY <1>0 DEF GptDisk
<1> QED BY <1>0, <1>1, <1>2, <1>3, <1>4 DEF KeptInv

\* Every step.
LEMMA KeptNext ==
    ASSUME TabInv, StagesInv, Asked, GptInv, ConvInv, KeptInv, [Next]_vars PROVE KeptInv'
<1>1. CASE UNCHANGED vars BY <1>1, KeptStutter
<1>2. CASE ProbeGpt \/ ReadSecondary \/ DetectIso \/ GatherEntry BY <1>2, KeptProbe, KeptRead
<1>3. CASE NukePrimary \/ NukeSecondary \/ WriteDiskId \/ ConvertPartition
  BY <1>3, KeptNuke1, KeptNuke2, KeptDiskId, KeptField
<1>4. CASE CheckFlag \/ CheckFirstSector \/ CheckFileSystem \/ SetActive BY <1>4, KeptChecks
<1>5. CASE ChooseLayout \/ UsePartition \/ PlanEmbedding BY <1>5, KeptLayout, KeptPartition, KeptPlan
<1>6. CASE ZeroUnused \/ WriteHeader1 \/ WriteHeader2 BY <1>6, KeptZero, KeptHeader
<1>7. CASE SaveTable \/ WriteStages \/ FlushAll BY <1>7, KeptSave, KeptWrite, KeptFlush
<1>8. CASE IoError \/ Cleanup \/ UninstallRun \/ PutBack \/ UndoReturn
  <2>1. pc' \in {"cleanup", "undo", "undone"} BY <1>8 DEF IoError, Cleanup, UninstallRun, PutBack, UndoReturn
  <2> QED BY <2>1, KeptOver DEF Over
<1> QED BY <1>1, <1>2, <1>3, <1>4, <1>5, <1>6, <1>7, <1>8 DEF Next

\* Until an install ends or gives up, whatever bios_install has changed lies in
\* what the path it is on may reach: the sectors in front for an MBR, headers,
\* arrays and a named partition for a GPT, the zeroed blocks for a conversion.
THEOREM ReachInvariant == Spec => []KeptInv
<1>1. Init => KeptInv BY DEF Init, KeptInv, Within, LastPcs, Locals
<1>2. TabInv /\ StagesInv /\ Asked /\ GptInv /\ ConvInv /\ KeptInv /\ [Next]_vars => KeptInv' BY KeptNext
<1> QED BY <1>1, <1>2, TableInvariant, StagesInvariant, GptInvariant, ConversionInvariant, PTL DEF Spec

-----------------------------------------------------------------------------
(* Nothing that is reached belongs to a partition.                         *)

\* A range between the arrays or beyond the device.
LEMMA ReachApart ==
    ASSUME NEW x \in Nat, NEW s \in Nat, (EntryLba1 + 32) * LbSize <= x,
           x + s <= EntryLba2 * LbSize \/ (LastLba + 1) * LbSize <= x
    PROVE  /\ Touched(x, s) \cap GptReach = {}
           /\ Touched(x, s) \cap Touched(0, 34 * LbSize) = {}
           /\ Touched(x, s) \cap Touched((LastLba - 32) * LbSize, 33 * LbSize) = {}
<1> DEFINE l == LastLba * LbSize
           e1 == EntryLba1 * LbSize
           e2 == EntryLba2 * LbSize
           t == 32 * LbSize
           y == (LastLba - 32) * LbSize
           low == (EntryLba1 + 32) * LbSize
           high == (LastLba + 1) * LbSize
<1>1. /\ LbSize \in Nat /\ LbSize >= 512 /\ l \in Nat /\ e1 \in Nat /\ e2 \in Nat /\ t \in Nat
      /\ 2 * LbSize <= e1 /\ e1 + t <= e2 /\ e2 + t <= l
      /\ EntryLba1 \in Nat /\ EntryLba2 \in Nat /\ LastLba \in Nat
      /\ low = e1 + t /\ high = l + LbSize
  BY Grid
<1>2. y \in Nat /\ y + 33 * LbSize = high /\ e2 <= y
  <2>1. y = l - t BY <1>1
  <2> HIDE DEF y, l, t, e2
  <2>2. y \in Nat /\ e2 <= y BY <1>1, <2>1
  <2>3. 33 * LbSize = t + LbSize BY <1>1 DEF t
  <2> QED BY <1>1, <2>1, <2>2, <2>3
<1>3. ASSUME NEW a \in Nat, NEW b \in Nat, a + b <= low PROVE Touched(x, s) \cap Touched(a, b) = {}
  <2>1. EntryLba1 + 32 \in Nat BY <1>1
  <2>2. Apart(x, s, a, b) BY <1>3, <2>1 DEF Apart
  <2> QED BY <1>3, <2>2, ApartTouch
<1>4. ASSUME NEW a \in Nat, NEW b \in Nat, e2 <= a, a + b <= high PROVE Touched(x, s) \cap Touched(a, b) = {}
  <2>1. LastLba + 1 \in Nat /\ EntryLba2 \in Nat BY <1>1
  <2>2. Apart(x, s, a, b) BY <1>4, <2>1 DEF Apart
  <2> QED BY <1>4, <2>2, ApartTouch
<1>5. 1 * LbSize = LbSize /\ 34 * LbSize = 2 * LbSize + t BY <1>1
<1>6. /\ Whole(1) = Touched(e1, t) /\ Whole(2) = Touched(e2, t)
      /\ HdrT(1) = Touched(LbSize, 96) /\ HdrT(2) = Touched(l, 96) /\ Boot = Touched(0, 512)
  BY <1>5 DEF Whole, HdrT, Boot, ArrayLba, HdrLba
<1> HIDE DEF l, e1, e2, t, y, low, high
<1>7. /\ 0 + 512 <= low /\ LbSize + 96 <= low /\ e1 + t <= low /\ 0 + 34 * LbSize <= low
      /\ e2 <= e2 /\ e2 + t <= high /\ e2 <= l /\ l + 96 <= high /\ 34 * LbSize \in Nat /\ 33 * LbSize \in Nat
  BY <1>1, <1>5
<1>8. Touched(x, s) \cap Touched(0, 512) = {} BY <1>3, <1>7
<1>9. Touched(x, s) \cap Touched(LbSize, 96) = {} BY <1>1, <1>3, <1>7
<1>10. Touched(x, s) \cap Touched(e1, t) = {} BY <1>1, <1>3, <1>7
<1>11. Touched(x, s) \cap Touched(0, 34 * LbSize) = {}
  <2> DEFINE n == 34 * LbSize
  <2>1. n \in Nat /\ 0 + n <= low BY <1>7
  <2> HIDE DEF n
  <2>2. Touched(x, s) \cap Touched(0, n) = {} BY <1>3, <2>1
  <2> QED BY <2>2 DEF n
<1>12. Touched(x, s) \cap Touched(e2, t) = {} BY <1>1, <1>4, <1>7
<1>13. Touched(x, s) \cap Touched(l, 96) = {} BY <1>1, <1>4, <1>7
<1>14. Touched(x, s) \cap Touched(y, 33 * LbSize) = {}
  <2> DEFINE n == 33 * LbSize
  <2>1. n \in Nat /\ y + n = high BY <1>2, <1>7
  <2> HIDE DEF n
  <2>2. y + n <= high BY <1>1, <1>2, <2>1
  <2>3. Touched(x, s) \cap Touched(y, n) = {} BY <1>2, <1>4, <2>1, <2>2
  <2> QED BY <2>3 DEF n
<1>15. Touched(x, s) \cap GptReach = {} BY <1>6, <1>8, <1>9, <1>10, <1>12, <1>13 DEF GptReach
<1> QED BY <1>11, <1>14, <1>15 DEF y

\* The extent of a partition of a GPT.
LEMMA SoundApart ==
    ASSUME NEW e, Sound(e)
    PROVE  LET S == Touched(Extent(e)[1], Extent(e)[2])
           IN  /\ S \cap GptReach = {}
               /\ e[3] >= 63 => S \cap ConvReach = {}
<1> DEFINE first == e[3]
           last == e[4]
           x == first * LbSize
           s == (last - first + 1) * LbSize
<1>0. /\ LbSize \in Nat /\ LbSize >= 512 /\ EntryLba1 \in Nat /\ EntryLba2 \in Nat /\ LastLba \in Nat
      /\ EntryLba1 + 32 \in Nat /\ LastLba + 1 \in Nat
  BY Grid
<1>1. /\ first \in Nat /\ last \in Nat /\ EntryLba1 + 32 <= first /\ first <= last
      /\ last < EntryLba2 \/ LastLba < first
  BY DEF Sound
<1>2. Extent(e) = <<x, s>> BY DEF Extent
<1> HIDE DEF first, last
<1>3. (EntryLba1 + 32) * LbSize <= x /\ x \in Nat BY <1>0, <1>1, BlockOrder
<1>4. s \in Nat /\ (last + 1) * LbSize = x + s
  <2> DEFINE n == last - first + 1
  <2>1. n \in Nat /\ last + 1 = first + n BY <1>1
  <2> HIDE DEF n
  <2>2. n * LbSize \in Nat BY <1>0, <2>1, BlockOrder
  <2>3. (first + n) * LbSize = first * LbSize + n * LbSize BY <1>0, <1>1, <2>1
  <2> QED BY <2>1, <2>2, <2>3 DEF n
<1>5. x + s <= EntryLba2 * LbSize \/ (LastLba + 1) * LbSize <= x
  <2>1. CASE last < EntryLba2
    <3>1. last + 1 \in Nat /\ last + 1 <= EntryLba2 BY <1>0, <1>1, <2>1
    <3>2. (last + 1) * LbSize <= EntryLba2 * LbSize BY <1>0, <3>1, BlockOrder
    <3> QED BY <1>4, <3>2
  <2>2. CASE LastLba < first BY <1>0, <1>1, <2>2, BlockOrder
  <2> QED BY <1>1, <2>1, <2>2
<1>6. first >= 63 => x >= 63 * 512
  <2>1. \A a, b \in Nat : a >= 63 /\ b >= 512 => a * b >= 63 * 512
    <3> SUFFICES ASSUME NEW a \in Nat, NEW b \in Nat, a >= 63, b >= 512 PROVE a * b >= 63 * 512 OBVIOUS
    <3>1. a * b >= 63 * b
      <4>1. a = 63 \/ 63 < a OBVIOUS
      <4>2. 63 < a => 63 * b + b <= a * b BY Product
      <4> QED BY <4>1, <4>2
    <3> QED BY <3>1
  <2> QED BY <1>0, <1>1, <2>1
<1> HIDE DEF x, s
<1>7. /\ Touched(x, s) \cap GptReach = {}
      /\ Touched(x, s) \cap Touched(0, 34 * LbSize) = {}
      /\ Touched(x, s) \cap Touched((LastLba - 32) * LbSize, 33 * LbSize) = {}
  BY <1>3, <1>4, <1>5, ReachApart
<1>8. first >= 63 => Touched(x, s) \cap Foreground = {} BY <1>3, <1>6, FrontApart
<1>9. first >= 63 => Touched(x, s) \cap ConvReach = {} BY <1>7, <1>8 DEF ConvReach
<1>10. Extent(e)[1] = x /\ Extent(e)[2] = s BY <1>2
<1> QED BY <1>7, <1>9, <1>10 DEF first

\* The ISO 9660 volume descriptor.
LEMMA VolumeApart ==
    /\ <<"iso", 0>> \in Cells /\ <<"iso", 0>> \notin Foreground
    /\ Base /\ Signed(orig) => <<"iso", 0>> \notin GptReach /\ <<"iso", 0>> \notin ConvReach
<1> DEFINE c == <<"iso", 0>>
<1>1. c \in Cells BY DEF Cells, FineCells
<1>2. Place(c) = <<32769, 5>>
  <2>1. c[1] = "iso" OBVIOUS
  <2>2. "iso" \in DOMAIN MbrPlace /\ MbrPlace["iso"] = <<32769, 5>> BY DEF MbrPlace
  <2> QED BY <2>1, <2>2 DEF Place, MbrPlace, EntryField
<1>3. c \notin Foreground BY <1>2 DEF Foreground
<1>4. ASSUME Base, Signed(orig) PROVE c \notin GptReach /\ c \notin ConvReach
  <2>1. (EntryLba1 + 32) * LbSize <= 32769 /\ 32774 <= EntryLba2 * LbSize
    BY <1>4, VolumeAssumption DEF Base, Signed, Hdr
  <2>2. 32769 + 5 <= EntryLba2 * LbSize BY <2>1
  <2>3. Overlap(Place(c), <<32769, 5>>) BY <1>2 DEF Overlap
  <2>4. c \in Touched(32769, 5) BY <1>1, <2>3, TouchedIs
  <2>5. /\ Touched(32769, 5) \cap GptReach = {}
        /\ Touched(32769, 5) \cap Touched(0, 34 * LbSize) = {}
        /\ Touched(32769, 5) \cap Touched((LastLba - 32) * LbSize, 33 * LbSize) = {}
    BY <2>1, <2>2, ReachApart
  <2> QED BY <1>3, <2>4, <2>5 DEF ConvReach
<1> QED BY <1>1, <1>3, <1>4

\* An installed MBR's partitions.
LEMMA MbrApart ==
    ASSUME TabInv, HighInv, Installed, ~v.gpt, ~v.converting, NEW x \in MbrExtents
    PROVE  Touched(x[1], x[2]) \cap Foreground = {}
<1>1. PICK k \in 0..3 : orig[<<"type", k>>] # Zero
                        /\ x = <<512 * orig[<<"start", k>>][1], 512 * orig[<<"count", k>>][1]>>
  BY DEF MbrExtents
<1>2. TableIn(view) BY DEF TabInv, Intact, Installed
<1>3. view[<<"type", k>>] = orig[<<"type", k>>] /\ view[<<"start", k>>] = orig[<<"start", k>>]
  BY <1>2, TypeStart DEF TableIn
<1>4. Highs(view, 4) BY DEF HighInv, AsMbr, CheckedPcs, Installed
<1>5. k < 4 OBVIOUS
<1>6. ~(orig[<<"start", k>>][1] < 63) BY <1>1, <1>3, <1>4, <1>5 DEF Highs
<1>7. orig[<<"start", k>>][1] \in Nat BY FrontAssumption DEF TabInv, Base
<1>8. x[1] = 512 * orig[<<"start", k>>][1] BY <1>1
<1>9. x[1] \in Int /\ x[1] >= 63 * 512 BY <1>6, <1>7, <1>8
<1> QED BY <1>9, FrontApart

\* A converted table's partitions start behind sector 62.
LEMMA ConvertedHigh ==
    ASSUME TabInv, ConvInv, HighInv, Installed, v.converting, NEW j \in DOMAIN OrigParts
    PROVE  OrigParts[j][3] >= 63
<1>0. Base /\ Signed(orig) BY DEF TabInv, ConvInv
<1> DEFINE e == OrigParts[j]
           k == j - 1
<1>1. j \in Nat \ {0} /\ j <= Len(OrigParts) /\ Len(OrigParts) \in Nat /\ Sound(OrigParts[j])
  BY <1>0, PartsUsed
<1>2. ConvertedTable BY ConvHolds
<1>3. Len(OrigParts) <= 4 BY <1>2 DEF ConvertedTable
<1>4. k \in 0..3 /\ ~(k >= Len(OrigParts)) /\ k + 1 = j /\ k < 4 BY <1>1, <1>3
<1> HIDE DEF k
<1>5. /\ view[<<"type", k>>] = <<gpt2mbr_type(e[2])>> /\ gpt2mbr_type(e[2]) > 0
      /\ view[<<"start", k>>] = <<e[3]>>
  BY <1>2, <1>4 DEF ConvertedTable
<1>6. Highs(view, 4) BY DEF HighInv, AsMbr, CheckedPcs, Installed
<1>7. view[<<"type", k>>] # Zero
  <2> DEFINE t == gpt2mbr_type(e[2])
  <2>1. t # 0 BY <1>5
  <2> HIDE DEF t
  <2>2. <<t>> # <<0>> BY <2>1
  <2> QED BY <1>5, <2>2 DEF t, Zero
<1>8. ~(view[<<"start", k>>][1] < 63) BY <1>4, <1>6, <1>7 DEF Highs
<1>9. e[3] \in Nat BY <1>1 DEF Sound
<1>10. view[<<"start", k>>][1] = e[3] BY <1>5
<1> QED BY <1>8, <1>9, <1>10

\* What is installed has every partition as it was.
LEMMA KeptHolds == ASSUME TabInv, ConvInv, HighInv, KeptInv PROVE PartitionsKept
<1> SUFFICES ASSUME Installed
             PROVE  /\ \A x \in Extents : \A c \in Touched(x[1], x[2]) : view[c] = orig[c] \/ Chosen(c)
                    /\ view[<<"iso", 0>>] = orig[<<"iso", 0>>] \/ Chosen(<<"iso", 0>>)
  BY DEF PartitionsKept
<1>0. Base BY DEF TabInv
<1>1. \A c \in Cells : view[c] = orig[c] \/ c \in Reach BY DEF KeptInv, Within, Installed, Over
<1>2. /\ v.gpt \/ v.converting => Signed(orig)
      /\ ~v.gpt /\ ~v.converting => ~GptDisk
  BY DEF KeptInv, ConvInv, Installed, Over
<1>3. Signed(orig) => GptDisk BY DEF Signed, GptDisk, Hdr
<1>4. ASSUME NEW x \in Extents, NEW c \in Touched(x[1], x[2]) PROVE c \notin Reach \/ Chosen(c)
  <2>1. CASE v.gpt \/ v.converting
    <3>1. PICK j \in DOMAIN OrigParts : x = Extent(OrigParts[j]) BY <1>2, <1>3, <2>1 DEF Extents
    <3> DEFINE e == OrigParts[j]
    <3>2. Sound(e) BY <1>0, <1>2, <2>1, PartsUsed
    <3>3. v.converting => e[3] >= 63 BY ConvertedHigh
    <3>4. c \in Touched(Extent(e)[1], Extent(e)[2]) BY <1>4, <3>1
    <3> HIDE DEF e
    <3>5. c \notin GptReach /\ (v.converting => c \notin ConvReach) BY <3>2, <3>3, <3>4, SoundApart
    <3> QED BY <2>1, <3>5 DEF Reach
  <2>2. CASE ~v.gpt /\ ~v.converting
    <3>1. x \in MbrExtents BY <1>2, <1>4, <2>2 DEF Extents
    <3>2. c \notin Foreground BY <1>4, <2>2, <3>1, MbrApart
    <3> QED BY <2>2, <3>2 DEF Reach
  <2> QED BY <2>1, <2>2
<1>5. \A x \in Extents : \A c \in Touched(x[1], x[2]) : view[c] = orig[c] \/ Chosen(c)
  BY <1>1, <1>4, RegionCells
<1>6. <<"iso", 0>> \notin Reach \/ Chosen(<<"iso", 0>>) BY <1>0, <1>2, VolumeApart DEF Reach
<1>7. <<"iso", 0>> \in Cells BY VolumeApart
<1> QED BY <1>1, <1>5, <1>6, <1>7

\* No byte of a partition changes, and the ISO 9660 volume stays, except in
\* the partition that the user names, on every device the assumptions allow
\* and wherever stage 2 goes (bios_install from the probe to the last flush).
THEOREM InstallKeepsPartitions == Spec => []PartitionsKept
<1>1. TabInv /\ ConvInv /\ HighInv /\ KeptInv => PartitionsKept BY KeptHolds
<1> QED BY <1>1, TableInvariant, ConversionInvariant, HighInvariant, ReachInvariant, PTL
=============================================================================
