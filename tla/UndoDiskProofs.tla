-------------------------- MODULE UndoDiskProofs --------------------------
(***************************************************************************)
(* Proof that the log of overwritten data undoes an install, for every     *)
(* device, every log capacity and every sequence of overlapping writes.    *)
(***************************************************************************)
EXTENDS UndoDisk, TLAPS, SequenceTheorems

\* A patch keeps the type of what it is applied to.
LEMMA ApplyType ==
    ASSUME NEW p \in Patch, NEW f \in [Addr -> Value]
    PROVE  Apply(p, f) \in [Addr -> Value]
<1>1. PICK S \in SUBSET Addr : p \in [S -> Value] BY DEF Patch
<1> QED BY <1>1 DEF Apply

\* What a write to S replaces is a patch of S.
LEMMA OverwrittenType ==
    ASSUME view \in [Addr -> Value], NEW S \in SUBSET Addr
    PROVE  /\ Overwritten(S) \in Patch /\ DOMAIN Overwritten(S) = S
           /\ \A a \in S : Overwritten(S)[a] = view[a]
<1>1. Overwritten(S) \in [S -> Value] BY DEF Overwritten
<1> QED BY <1>1 DEF Patch, Overwritten

\* The log without its newest entry.
LEMMA Popped ==
    ASSUME NEW s \in Seq(Patch), s # <<>>
    PROVE  /\ Len(s) \in Nat \ {0}
           /\ SubSeq(s, 1, Len(s) - 1) \in Seq(Patch)
           /\ Len(SubSeq(s, 1, Len(s) - 1)) = Len(s) - 1
           /\ \A k \in 1..(Len(s) - 1) : SubSeq(s, 1, Len(s) - 1)[k] = s[k]
<1>1. Len(s) \in Nat \ {0} BY EmptySeq
<1>2. \A k \in 1..(Len(s) - 1) : s[k] \in Patch BY <1>1, ElementOfSeq
<1>3. SubSeq(s, 1, Len(s) - 1) \in Seq(Patch)
  <2>1. 1 \in Int /\ Len(s) - 1 \in Int BY <1>1
  <2>2. \A m, n \in Int : (\A k \in m..n : s[k] \in Patch) => SubSeq(s, m, n) \in Seq(Patch)
    BY SubSeqProperties, Zenon
  <2> QED BY <1>2, <2>1, <2>2, Zenon
<1>4. Len(SubSeq(s, 1, Len(s) - 1)) = Len(s) - 1
  <2>1. 1 \in Int /\ Len(s) - 1 \in Int BY <1>1
  <2>2. \A m, n \in Int : (\A k \in m..n : s[k] \in Patch) => Len(SubSeq(s, m, n)) = IF m <= n THEN n - m + 1 ELSE 0
    BY SubSeqProperties, Zenon
  <2>3. Len(SubSeq(s, 1, Len(s) - 1)) = IF 1 <= Len(s) - 1 THEN Len(s) - 1 - 1 + 1 ELSE 0
    BY <1>2, <2>1, <2>2, Zenon
  <2>4. \A n \in Nat \ {0} : (IF 1 <= n - 1 THEN n - 1 - 1 + 1 ELSE 0) = n - 1 OBVIOUS
  <2> QED BY <1>1, <2>3, <2>4, Zenon
<1>5. \A k \in 1..(Len(s) - 1) : SubSeq(s, 1, Len(s) - 1)[k] = s[k] BY <1>1
<1> QED BY <1>1, <1>3, <1>4, <1>5

\* Dropping the newest entry leaves the oldest entries as they were.
LEMMA PoppedOldest ==
    ASSUME UndoTypeOK, OldestIsOriginal, log # <<>>, orig' = orig, log' = SubSeq(log, 1, Len(log) - 1)
    PROVE  OldestIsOriginal'
<1>1. /\ Len(log') = Len(log) - 1 /\ Len(log) \in Nat \ {0}
      /\ \A k \in 1..(Len(log) - 1) : log'[k] = log[k]
  BY Popped DEF UndoTypeOK
<1> QED BY <1>1 DEF OldestIsOriginal

\* The initial state satisfies the invariant: nothing is logged or changed.
LEMMA InitInv == ASSUME LogAssumption PROVE UndoInit => UndoInv
<1> SUFFICES ASSUME UndoInit PROVE UndoInv OBVIOUS
<1>1. log = <<>> /\ Len(log) = 0 BY DEF UndoInit
<1>2. log \in Seq(Patch)
  <2>1. <<>> \in Seq(Patch) BY EmptySeq, Zenon
  <2> QED BY <1>1, <2>1
<1>3. UndoTypeOK
  <2>1. Len(log) <= UNINSTALL_DATA_MAX BY <1>1 DEF LogAssumption
  <2> QED BY <1>2, <2>1, Zenon DEF UndoInit, UndoTypeOK
<1>4. OldestIsOriginal BY <1>1 DEF OldestIsOriginal
<1>5. UncoveredIsOriginal BY DEF UndoInit, UncoveredIsOriginal
<1> QED BY <1>3, <1>4, <1>5 DEF UndoInit, UndoInv, SoundUntilUndo

\* A write to S: an address covered for the first time still had its original
\* value.
LEMMA WriteInv == ASSUME LogAssumption, UndoInv, NEW S \in SUBSET Addr, WriteTo(S) PROVE UndoInv'
<1> USE DEF UndoInv
<1>1. /\ Overwritten(S) \in Patch /\ DOMAIN Overwritten(S) = S
      /\ \A a \in S : Overwritten(S)[a] = view[a]
  BY OverwrittenType DEF UndoTypeOK
<1>2. /\ log' \in Seq(Patch) /\ Len(log) \in Nat /\ Len(log') = Len(log) + 1
      /\ log'[Len(log) + 1] = Overwritten(S)
      /\ \A k \in 1..Len(log) : log'[k] = log[k]
  BY <1>1, AppendProperties, LenProperties DEF WriteTo, UndoTypeOK
<1>3. UndoTypeOK' BY <1>2 DEF LogAssumption, WriteTo, UndoTypeOK
<1>4. damaged = {} /\ ~failed BY DEF WriteTo, SoundUntilUndo
<1>5. OldestIsOriginal'
  <2> SUFFICES ASSUME NEW i \in 1..Len(log'), NEW a \in DOMAIN log'[i],
                      \A j \in 1..(i - 1) : a \notin DOMAIN log'[j]
               PROVE  log'[i][a] = orig[a]
    BY DEF OldestIsOriginal, WriteTo
  <2>1. CASE i \in 1..Len(log)
    <3>1. \A j \in 1..(i - 1) : log'[j] = log[j] BY <1>2, <2>1
    <3> QED BY <1>2, <2>1, <3>1 DEF OldestIsOriginal
  <2>2. CASE i = Len(log) + 1
    <3>1. a \in S /\ log'[i][a] = view[a] BY <1>1, <1>2, <2>2
    <3>2. ~Covered(a) BY <1>2, <2>2 DEF Covered
    <3> QED BY <1>4, <3>1, <3>2 DEF UncoveredIsOriginal
  <2> QED BY <1>2, <2>1, <2>2
<1>6. UncoveredIsOriginal'
  <2> SUFFICES ASSUME NEW a \in Addr, ~Covered(a)' PROVE view'[a] = orig[a]
    BY DEF UncoveredIsOriginal, WriteTo
  <2>1. a \notin S BY <1>1, <1>2 DEF Covered
  <2>2. ~Covered(a) BY <1>2 DEF Covered
  <2> QED BY <1>4, <2>1, <2>2 DEF UncoveredIsOriginal, WriteTo
<1> QED BY <1>3, <1>5, <1>6 DEF WriteTo, SoundUntilUndo

\* The end of the install leaves the log alone, whatever it loses.
LEMMA CommitInv == ASSUME UndoInv, NEW D \in SUBSET Addr, CommitLosing(D) PROVE UndoInv'
<1>1. UndoTypeOK' /\ OldestIsOriginal' BY DEF UndoInv, CommitLosing, UndoTypeOK, OldestIsOriginal
<1>2. UncoveredIsOriginal' BY DEF UndoInv, CommitLosing, UncoveredIsOriginal, Covered
<1> QED BY <1>1, <1>2 DEF UndoInv, CommitLosing, SoundUntilUndo

\* Lost data: what is not damaged keeps its value.
LEMMA DamageInv ==
    ASSUME UndoTypeOK, OldestIsOriginal, UncoveredIsOriginal, Damage,
           UNCHANGED <<orig, log, failed>>, phase' \in {"install", "installed", "undo", "undone"}
    PROVE  UndoTypeOK' /\ OldestIsOriginal' /\ UncoveredIsOriginal'
<1>1. UndoTypeOK' /\ OldestIsOriginal' BY DEF Damage, UndoTypeOK, OldestIsOriginal
<1>2. UncoveredIsOriginal'
  <2> SUFFICES ASSUME ~failed, NEW a \in Addr, a \notin damaged', ~Covered(a)' PROVE view'[a] = orig[a]
    BY DEF UncoveredIsOriginal
  <2>1. a \notin damaged /\ view'[a] = view[a] BY DEF Damage
  <2>2. ~Covered(a) BY DEF Covered
  <2> QED BY <2>1, <2>2 DEF UncoveredIsOriginal
<1> QED BY <1>1, <1>2

\* Whatever the failing call damaged, the log is as it was.
LEMMA GiveUpInv == ASSUME UndoInv, GiveUp PROVE UndoInv'
<1>1. UndoTypeOK' /\ OldestIsOriginal' /\ UncoveredIsOriginal' BY DamageInv DEF UndoInv, GiveUp
<1> QED BY <1>1 DEF UndoInv, GiveUp, SoundUntilUndo

\* Lost data changes what is damaged and nothing else.
LEMMA LoseInv == ASSUME UndoInv, Lose PROVE UndoInv'
<1>1. UndoTypeOK' /\ OldestIsOriginal' /\ UncoveredIsOriginal' BY DamageInv DEF UndoInv, Lose
<1> QED BY <1>1 DEF UndoInv, Lose, SoundUntilUndo

\* Parts of the newest entry go back: only covered addresses change.
LEMMA UndoPartInv == ASSUME UndoInv, UndoPart PROVE UndoInv'
<1>1. UndoTypeOK' /\ OldestIsOriginal' BY DEF UndoInv, UndoPart, UndoTypeOK, OldestIsOriginal
<1>2. Len(log) \in 1..Len(log) BY Popped DEF UndoInv, UndoPart, UndoTypeOK
<1>3. UncoveredIsOriginal' BY <1>2 DEF UndoInv, UndoPart, UncoveredIsOriginal, Covered
<1> QED BY <1>1, <1>3 DEF UndoInv, UndoPart, SoundUntilUndo

\* The newest entry goes back and leaves the log: what no other entry covers
\* now has its original value, because that entry was its oldest.
LEMMA EntryBackInv ==
    ASSUME LogAssumption, UndoInv, NEW D \in SUBSET Addr, EntryBack(D) PROVE UndoInv'
<1> USE DEF UndoInv
<1> DEFINE n == Len(log)
<1>1. /\ log' \in Seq(Patch) /\ Len(log') = n - 1 /\ n \in Nat \ {0}
      /\ \A k \in 1..(n - 1) : log'[k] = log[k]
  BY Popped DEF EntryBack, UndoTypeOK
<1>2. log[n] \in Patch BY <1>1, ElementOfSeq DEF UndoTypeOK
<1>3. view' \in [Addr -> Value] BY <1>2, ApplyType DEF EntryBack, UndoTypeOK
<1>4. UndoTypeOK' BY <1>1, <1>3 DEF LogAssumption, EntryBack, UndoTypeOK
<1>5. OldestIsOriginal' BY PoppedOldest DEF EntryBack
<1>6. UncoveredIsOriginal'
  <2> SUFFICES ASSUME ~failed, NEW a \in Addr, a \notin damaged', ~Covered(a)' PROVE view'[a] = orig[a]
    BY DEF UncoveredIsOriginal, EntryBack
  <2>1. \A j \in 1..(n - 1) : a \notin DOMAIN log[j] BY <1>1 DEF Covered
  <2>2. CASE a \in DOMAIN log[n]
    <3>1. log[n][a] = orig[a] BY <1>1, <2>1, <2>2 DEF OldestIsOriginal
    <3> QED BY <2>2, <3>1 DEF EntryBack, Apply
  <2>3. CASE a \notin DOMAIN log[n]
    <3>1. ~Covered(a) BY <1>1, <2>1, <2>3 DEF Covered
    <3>2. a \notin damaged BY <2>3 DEF EntryBack
    <3> QED BY <2>3, <3>1, <3>2 DEF UncoveredIsOriginal, EntryBack, Apply
  <2> QED BY <2>2, <2>3
<1> QED BY <1>4, <1>5, <1>6 DEF EntryBack, SoundUntilUndo

\* A failure while putting data back ends the promise, not the order of the log.
LEMMA UndoFailsInv == ASSUME LogAssumption, UndoInv, UndoFails PROVE UndoInv'
<1> USE DEF UndoInv
<1>1. CASE log' = log
  <2>1. UndoTypeOK' /\ OldestIsOriginal' BY <1>1 DEF UndoFails, UndoTypeOK, OldestIsOriginal
  <2> QED BY <2>1 DEF UndoFails, UncoveredIsOriginal, SoundUntilUndo
<1>2. CASE log # <<>> /\ log' = SubSeq(log, 1, Len(log) - 1)
  <2>1. log' \in Seq(Patch) /\ Len(log') = Len(log) - 1 /\ Len(log) \in Nat \ {0}
    BY <1>2, Popped DEF UndoTypeOK
  <2>2. UndoTypeOK' BY <2>1 DEF LogAssumption, UndoFails, UndoTypeOK
  <2>3. OldestIsOriginal' BY <1>2, PoppedOldest DEF UndoFails
  <2> QED BY <2>2, <2>3 DEF UndoFails, UncoveredIsOriginal, SoundUntilUndo
<1> QED BY <1>1, <1>2 DEF UndoFails

\* With the log empty, what is not damaged is original.
LEMMA FinishInv == ASSUME UndoInv, Finish PROVE UndoInv'
<1>1. UndoTypeOK' /\ OldestIsOriginal' /\ UncoveredIsOriginal' BY DamageInv DEF UndoInv, Finish
<1> QED BY <1>1 DEF UndoInv, Finish, SoundUntilUndo

\* Nothing happens.
LEMMA StutterInv == ASSUME UndoInv, UNCHANGED undoVars PROVE UndoInv'
BY DEF UndoInv, undoVars, UndoTypeOK, OldestIsOriginal, UncoveredIsOriginal, Covered, SoundUntilUndo

\* Every step, or none, keeps the invariant.
LEMMA NextInv == ASSUME LogAssumption, UndoInv, [UndoNext]_undoVars PROVE UndoInv'
<1>1. {} \in SUBSET Addr OBVIOUS
<1>2. CASE Commit BY <1>1, <1>2, CommitInv DEF Commit
<1>3. CASE UndoEntry BY <1>1, <1>3, EntryBackInv DEF UndoEntry
<1> QED BY <1>2, <1>3, WriteInv, GiveUpInv, LoseInv, UndoPartInv, UndoFailsInv, FinishInv, StutterInv
        DEF UndoNext

\* The invariant of the device layer's promise holds in every reachable state.
THEOREM UndoInvariant ==
    ASSUME LogAssumption PROVE UndoSpec => []UndoInv
<1>1. ASSUME UndoInv, [UndoNext]_undoVars PROVE UndoInv' BY <1>1, NextInv
<1> QED BY <1>1, InitInv, PTL DEF UndoSpec

\* An install that is undone without a reported error leaves the device as it
\* was wherever no data was lost, whatever was written over what
\* (reverse_uninstall_data, uninstall).
THEOREM UndoRestoresTheDevice ==
    ASSUME LogAssumption PROVE UndoSpec => []UndoRestores
<1>1. ASSUME UndoInv PROVE UndoRestores
  <2> SUFFICES ASSUME phase = "undone", ~failed, NEW a \in Addr \ damaged PROVE view[a] = orig[a]
    BY DEF UndoRestores
  <2>1. ~Covered(a) BY <1>1, EmptySeq DEF UndoInv, Covered
  <2> QED BY <1>1, <2>1 DEF UndoInv, UncoveredIsOriginal
<1> QED BY <1>1, UndoInvariant, PTL

\* The steps BiosInstall makes are steps of the promise: the write of a patch,
\* data dropped as the undo begins or before, an entry given up, and the two
\* ends of the undo.  CommitLosing and EntryBack with data to lose are two steps
\* in one, Commit or UndoEntry and then Lose, and keep the invariant too.
THEOREM PatchIsAWrite ==
    ASSUME NEW p \in Patch, UndoTypeOK, Write(p) PROVE WriteTo(DOMAIN p) /\ DOMAIN p \in SUBSET Addr
<1>1. Apply(p, view) \in [Addr -> Value] BY ApplyType DEF UndoTypeOK
<1>2. DOMAIN p \in SUBSET Addr
  <2>1. PICK S \in SUBSET Addr : p \in [S -> Value] BY DEF Patch
  <2> QED BY <2>1
<1> QED BY <1>1, <1>2 DEF Write, WriteTo, Apply

\* Dropping is giving up, or a loss.
LEMMA DropIsAllowed ==
    ASSUME UndoTypeOK, NEW D \in SUBSET Addr, Drop(D) PROVE GiveUp \/ Lose
BY DEF UndoTypeOK, Drop, GiveUp, Lose, Damage

\* Giving an entry up is a reported failure.
LEMMA SkipIsAFailure == ASSUME UndoTypeOK, EntrySkipped PROVE UndoFails
<1>1. log[Len(log)] \in Patch BY Popped, ElementOfSeq DEF UndoTypeOK, EntrySkipped
<1>2. DOMAIN log[Len(log)] \in SUBSET Addr
  <2>1. PICK S \in SUBSET Addr : log[Len(log)] \in [S -> Value] BY <1>1 DEF Patch
  <2> QED BY <2>1
<1> QED BY <1>2 DEF UndoTypeOK, EntrySkipped, UndoFails

\* The undo ends, or its last flush fails.
LEMMA EndsAreAllowed ==
    ASSUME UndoTypeOK PROVE (EndUndo => Finish) /\ (FlushFails => UndoFails)
BY DEF UndoTypeOK, EndUndo, Finish, Damage, FlushFails, UndoFails
=============================================================================
