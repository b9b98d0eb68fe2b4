------------------------------ MODULE UndoDisk ------------------------------
(***************************************************************************)
(* What the device layer of limine.c promises bios_install: a device that  *)
(* reads back what was written, and a log of the overwritten data from     *)
(* which the install can be undone.                                        *)
(*                                                                         *)
(* A write is a patch, a function from some addresses to values, and so is *)
(* a log entry.  The promise has two exceptions.  A write that fails half  *)
(* way is not in the log, and a block that stdio accepted may never reach  *)
(* the device: the addresses where the device may hold something other     *)
(* than what the completed writes and put-backs made of it are `damaged`   *)
(* until an entry puts them back.  And once an entry is reported as not    *)
(* put back, nothing is promised any more (`failed`).                      *)
(***************************************************************************)
EXTENDS Naturals, Sequences

CONSTANTS
    Addr, Value,         \* the addresses of the device, what one holds
    UNINSTALL_DATA_MAX   \* capacity of the log

\* What the proofs assume of it.
LogAssumption == UNINSTALL_DATA_MAX \in Nat

VARIABLES
    orig,     \* the contents the install starts from
    view,     \* the contents, as the writes and put-backs made them
    log,      \* the overwritten data, oldest first
    phase,    \* "install", "installed", "undo", "undone"
    damaged,  \* where the contents may be something else
    failed    \* an entry could not be put back

undoVars == <<orig, view, log, phase, damaged, failed>>

Patch == UNION {[S -> Value] : S \in SUBSET Addr}

Apply(p, f) == [a \in Addr |-> IF a \in DOMAIN p THEN p[a] ELSE f[a]]

\* What a write to S replaces.
Overwritten(S) == [a \in S |-> view[a]]

\* Some entry of the log holds an old value of address a.
Covered(a) == \E i \in 1..Len(log) : a \in DOMAIN log[i]

UndoInit ==
    /\ orig \in [Addr -> Value] /\ view = orig /\ log = <<>> /\ phase = "install"
    /\ damaged = {} /\ failed = FALSE

\* Some data is written to the addresses of S.
WriteTo(S) ==
    /\ phase = "install" /\ Len(log) < UNINSTALL_DATA_MAX
    /\ view' \in [Addr -> Value]
    /\ \A a \in Addr \ S : view'[a] = view[a]
    /\ log' = Append(log, Overwritten(S))
    /\ UNCHANGED <<orig, phase, damaged, failed>>

\* The write of a given patch, which is such a write.
Write(p) ==
    /\ phase = "install" /\ Len(log) < UNINSTALL_DATA_MAX
    /\ view' = Apply(p, view)
    /\ log' = Append(log, Overwritten(DOMAIN p))
    /\ UNCHANGED <<orig, phase, damaged, failed>>

\* The install ends; data for D, its last, may never arrive.
CommitLosing(D) ==
    /\ phase = "install" /\ phase' = "installed"
    /\ damaged' = damaged \cup D
    /\ UNCHANGED <<orig, view, log, failed>>

Commit == CommitLosing({})

\* Data on its way to the device does not get there.
Damage ==
    /\ view' \in [Addr -> Value] /\ damaged' \in SUBSET Addr /\ damaged \subseteq damaged'
    /\ \A a \in Addr \ damaged' : view'[a] = view[a]

\* The install fails, or its result is uninstalled.
GiveUp ==
    /\ phase \in {"install", "installed"} /\ phase' = "undo"
    /\ Damage /\ UNCHANGED <<orig, log, failed>>

\* Data is lost without notice after the last write or during the undo.
Lose ==
    /\ phase \in {"installed", "undo"}
    /\ Damage /\ UNCHANGED <<orig, log, phase, failed>>

\* Data for D is dropped when the undo begins, or before its first entry.
Drop(D) ==
    /\ phase \in {"install", "installed", "undo"} /\ phase' = "undo"
    /\ damaged' = damaged \cup D
    /\ UNCHANGED <<orig, view, log, failed>>

\* One entry is going back; parts of it may be there already.
UndoPart ==
    /\ phase = "undo" /\ log # <<>>
    /\ view' \in [Addr -> Value]
    /\ \A a \in Addr : a \in DOMAIN log[Len(log)] \/ view'[a] = view[a]
    /\ UNCHANGED <<orig, log, phase, damaged, failed>>

\* Mutant: the oldest entry goes back first.
OldestBack(D) ==
    /\ phase = "undo" /\ log # <<>>
    /\ view' = Apply(log[1], view)
    /\ log' = SubSeq(log, 2, Len(log))
    /\ damaged' = (damaged \ DOMAIN log[1]) \cup D
    /\ UNCHANGED <<orig, phase, failed>>

\* The newest entry goes back, and then data for D is lost.
EntryBack(D) ==
    /\ phase = "undo" /\ log # <<>>
    /\ view' = Apply(log[Len(log)], view)
    /\ log' = SubSeq(log, 1, Len(log) - 1)
    /\ damaged' = (damaged \ DOMAIN log[Len(log)]) \cup D
    /\ UNCHANGED <<orig, phase, failed>>

\* The newest entry goes back.
UndoEntry == EntryBack({})

\* Putting data back failed; from here on anything may happen.
UndoFails ==
    /\ phase = "undo"
    /\ view' \in [Addr -> Value] /\ damaged' \in SUBSET Addr /\ failed' = TRUE
    /\ log' = log \/ (log # <<>> /\ log' = SubSeq(log, 1, Len(log) - 1))
    /\ UNCHANGED <<orig, phase>>

\* The newest entry is given up.
EntrySkipped ==
    /\ phase = "undo" /\ log # <<>>
    /\ log' = SubSeq(log, 1, Len(log) - 1) /\ damaged' = damaged \cup DOMAIN log[Len(log)]
    /\ failed' = TRUE
    /\ UNCHANGED <<orig, view, phase>>

\* The last data to be put back may not have gone out, which is reported.
FlushFails ==
    /\ phase = "undo" /\ failed' = TRUE
    /\ UNCHANGED <<orig, view, log, phase, damaged>>

\* Every entry went back; the last data to be put back may still be lost.
Finish ==
    /\ phase = "undo" /\ log = <<>> /\ phase' = "undone"
    /\ Damage /\ UNCHANGED <<orig, log, failed>>

\* Every entry went back, and nothing more is lost.
EndUndo ==
    /\ phase = "undo" /\ log = <<>> /\ phase' = "undone"
    /\ UNCHANGED <<orig, view, log, damaged, failed>>

UndoNext ==
    \/ \E S \in SUBSET Addr : WriteTo(S)
    \/ Commit \/ GiveUp \/ Lose \/ UndoPart \/ UndoEntry \/ UndoFails \/ Finish

UndoSpec == UndoInit /\ [][UndoNext]_undoVars

-----------------------------------------------------------------------------
UndoTypeOK ==
    /\ orig \in [Addr -> Value] /\ view \in [Addr -> Value]
    /\ log \in Seq(Patch) /\ Len(log) <= UNINSTALL_DATA_MAX
    /\ phase \in {"install", "installed", "undo", "undone"}
    /\ damaged \in SUBSET Addr /\ failed \in BOOLEAN

\* The oldest entry that covers an address holds its original value: putting
\* the entries back newest first ends with it (reverse_uninstall_data).
OldestIsOriginal ==
    \A i \in 1..Len(log) : \A a \in DOMAIN log[i] :
        (\A j \in 1..(i - 1) : a \notin DOMAIN log[j]) => log[i][a] = orig[a]

\* An address no entry covers and no failure damaged holds its original value.
UncoveredIsOriginal ==
    ~failed => \A a \in Addr : a \in damaged \/ Covered(a) \/ view[a] = orig[a]

\* An install that was undone without a reported error left the device as it
\* found it, except where data was lost ("If we failed, attempt to reverse
\* install process", and --uninstall: "Reverse the entire install procedure").
UndoRestores == phase = "undone" /\ ~failed => \A a \in Addr \ damaged : view[a] = orig[a]

\* Nothing goes wrong with the log before the undo begins.
SoundUntilUndo ==
    /\ phase = "install" => damaged = {}
    /\ phase \in {"install", "installed"} => ~failed

UndoInv ==
    /\ UndoTypeOK /\ OldestIsOriginal /\ UncoveredIsOriginal /\ SoundUntilUndo
    /\ phase = "undone" => log = <<>>
=============================================================================
