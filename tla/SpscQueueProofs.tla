--------------------------- MODULE SpscQueueProofs ---------------------------
(***************************************************************************)
(* Proofs about SpscQueue, for every capacity that divides the number of   *)
(* values of a usize (every power of two does).                            *)
(***************************************************************************)
EXTENDS SpscQueue, TLAPS

\* Needed where `head % CAP` crosses the wrap of head: see IndexDistinct.
CapDividesWord == WORD % CAP = 0

-----------------------------------------------------------------------------
(* The inductive invariant.                                                *)

\* Every store the consumer may read lies between T and H, in order, and
\* every store the producer may read lies between H - CAP and T, in order:
\* a stale load errs on the safe side.
CountersInv ==
    /\ Occupancy <= CAP
    /\ \A j \in DOMAIN head : WrappingSub(head[j].val, T) <= Occupancy
    /\ \A j, k \in DOMAIN head :
         j <= k => WrappingSub(head[j].val, T) <= WrappingSub(head[k].val, T)
    /\ \A i \in DOMAIN tail : /\ Occupancy <= WrappingSub(H, tail[i].val)
                              /\ WrappingSub(H, tail[i].val) <= CAP
    /\ \A i, k \in DOMAIN tail :
         i <= k => WrappingSub(H, tail[k].val) <= WrappingSub(H, tail[i].val)

\* What a call in progress has checked still holds.
LocalsInv ==
    /\ ppc \in {"write", "store"} =>
         /\ phead = H
         /\ pitem \in Items
         /\ \A i \in DOMAIN tail : WrappingSub(H, tail[i].val) < CAP
    /\ cpc \in {"read", "store"} =>
         /\ ctail = T
         /\ \A j \in DOMAIN head : WrappingSub(head[j].val, T) > 0

\* The slots from T up to H hold the items, and push and pop move them whole.
SlotsInv ==
    /\ \A k \in 0..(Occupancy - 1) : buffer[Index(WrappingAdd(T, k))] \in Items
    /\ ppc = "store" => buffer[Index(H)] = pitem
    /\ cpc = "store" => citem = buffer[Index(T)]

\* A store to head orders the writes of all slots from T up to it, and a
\* store to tail orders the reads of all slots it gives back, for whoever
\* acquires it; the first store of each log has been acquired.
OrderInv ==
    /\ \A j \in DOMAIN head : \A k \in 0..(WrappingSub(head[j].val, T) - 1) :
         Index(WrappingAdd(T, k)) \in head[j].hb
    /\ \A k \in 0..(WrappingSub(head[1].val, T) - 1) :
         Index(WrappingAdd(T, k)) \in cHB
    /\ \A i \in DOMAIN tail : \A k \in 0..(CAP - WrappingSub(H, tail[i].val) - 1) :
         Index(WrappingAdd(H, k)) \in tail[i].hb
    /\ \A k \in 0..(CAP - WrappingSub(H, tail[1].val) - 1) :
         Index(WrappingAdd(H, k)) \in pHB

\* drop sees the newest head, and ends only when nothing is left.
DropInv ==
    /\ ppc = "gone" => Len(head) = 1
    /\ cpc = "gone" => ppc = "gone" /\ Occupancy = 0

(***************************************************************************)
(* The inductive invariant behind the queue's safety: where the visible    *)
(* stores to head and tail lie, what push_inner and pop_inner know in the  *)
(* middle of a call, what the slots hold and who may touch them.           *)
(***************************************************************************)
IInv ==
    /\ TypeOK
    /\ CountersInv
    /\ LocalsInv
    /\ SlotsInv
    /\ OrderInv
    /\ CheckThenAct
    /\ DropInv

-----------------------------------------------------------------------------
(* Wrapping arithmetic.                                                    *)

\* wrapping_sub is a distance: it lies in Word, and is zero only between equals.
LEMMA SubRange ==
    ASSUME NEW a \in Word, NEW b \in Word
    PROVE  /\ WrappingSub(a, b) = IF a >= b THEN a - b ELSE a - b + WORD
           /\ WrappingSub(a, b) \in 0..(WORD - 1)
           /\ WrappingSub(a, b) = 0 <=> a = b
  BY CapAssumption DEF WrappingSub, Word

\* wrapping_add stays in Word.
LEMMA AddRange ==
    ASSUME NEW a \in Word, NEW k \in 0..WORD
    PROVE  /\ WrappingAdd(a, k) = IF a + k < WORD THEN a + k ELSE a + k - WORD
           /\ WrappingAdd(a, k) \in Word
  BY CapAssumption DEF WrappingAdd, Word

\* Incrementing head grows a distance that is not yet maximal by one.
LEMMA SubSucc ==
    ASSUME NEW a \in Word, NEW b \in Word, WrappingSub(a, b) < WORD - 1
    PROVE  WrappingSub(WrappingAdd(a, 1), b) = WrappingSub(a, b) + 1
  <1>1. WrappingAdd(a, 1) = (IF a + 1 < WORD THEN a + 1 ELSE a + 1 - WORD)
        /\ WrappingAdd(a, 1) \in Word
    BY AddRange, CapAssumption
  <1>2. WrappingSub(a, b) = IF a >= b THEN a - b ELSE a - b + WORD
    BY SubRange
  <1>3. WrappingSub(WrappingAdd(a, 1), b) =
          IF WrappingAdd(a, 1) >= b THEN WrappingAdd(a, 1) - b
                                    ELSE WrappingAdd(a, 1) - b + WORD
    BY <1>1, SubRange
  <1> QED
    BY <1>1, <1>2, <1>3, CapAssumption DEF Word

\* Incrementing tail shrinks a distance that is not zero by one.
LEMMA SubPred ==
    ASSUME NEW a \in Word, NEW b \in Word, WrappingSub(a, b) > 0
    PROVE  WrappingSub(a, WrappingAdd(b, 1)) = WrappingSub(a, b) - 1
  <1>1. WrappingAdd(b, 1) = (IF b + 1 < WORD THEN b + 1 ELSE b + 1 - WORD)
        /\ WrappingAdd(b, 1) \in Word
    BY AddRange, CapAssumption
  <1>2. WrappingSub(a, b) = IF a >= b THEN a - b ELSE a - b + WORD
    BY SubRange
  <1>3. WrappingSub(a, WrappingAdd(b, 1)) =
          IF a >= WrappingAdd(b, 1) THEN a - WrappingAdd(b, 1)
                                    ELSE a - WrappingAdd(b, 1) + WORD
    BY <1>1, SubRange
  <1> QED
    BY <1>1, <1>2, <1>3, CapAssumption DEF Word

\* Steps along the ring add up.
LEMMA AddSucc ==
    ASSUME NEW a \in Word, NEW k \in 0..(WORD - 1)
    PROVE  WrappingAdd(WrappingAdd(a, 1), k) = WrappingAdd(a, k + 1)
  <1>1. WrappingAdd(a, 1) = (IF a + 1 < WORD THEN a + 1 ELSE a + 1 - WORD)
        /\ WrappingAdd(a, 1) \in Word
    BY AddRange, CapAssumption
  <1>2. k \in 0..WORD /\ k + 1 \in 0..WORD
    BY CapAssumption
  <1>3. WrappingAdd(a, k + 1) =
          IF a + (k + 1) < WORD THEN a + (k + 1) ELSE a + (k + 1) - WORD
    BY <1>2, AddRange
  <1>4. WrappingAdd(WrappingAdd(a, 1), k) =
          IF WrappingAdd(a, 1) + k < WORD THEN WrappingAdd(a, 1) + k
                                          ELSE WrappingAdd(a, 1) + k - WORD
    BY <1>1, <1>2, AddRange
  <1> QED
    BY <1>1, <1>3, <1>4, CapAssumption DEF Word

\* Walking the distance from b to a leads to a, and k further to a + k.
LEMMA AddSub ==
    ASSUME NEW a \in Word, NEW b \in Word, NEW k \in Nat,
           WrappingSub(a, b) + k <= WORD
    PROVE  WrappingAdd(b, WrappingSub(a, b) + k) = WrappingAdd(a, k)
  <1>1. WrappingSub(a, b) = (IF a >= b THEN a - b ELSE a - b + WORD)
        /\ WrappingSub(a, b) \in 0..(WORD - 1)
    BY SubRange
  <1>2. k \in 0..WORD /\ WrappingSub(a, b) + k \in 0..WORD
    BY <1>1, CapAssumption
  <1>3. WrappingAdd(b, WrappingSub(a, b) + k) =
          IF b + (WrappingSub(a, b) + k) < WORD
            THEN b + (WrappingSub(a, b) + k)
            ELSE b + (WrappingSub(a, b) + k) - WORD
    BY <1>2, AddRange
  <1>4. WrappingAdd(a, k) = IF a + k < WORD THEN a + k ELSE a + k - WORD
    BY <1>2, AddRange
  <1> QED
    BY <1>1, <1>3, <1>4, CapAssumption DEF Word

LEMMA AddZero ==
    ASSUME NEW a \in Word
    PROVE  WrappingAdd(a, 0) = a
  BY AddRange, CapAssumption DEF Word

\* Distances measured back from a common end: t lies between u and h.
LEMMA SubChain ==
    ASSUME NEW h \in Word, NEW t \in Word, NEW u \in Word,
           WrappingSub(h, t) <= WrappingSub(h, u)
    PROVE  WrappingSub(t, u) = WrappingSub(h, u) - WrappingSub(h, t)
  <1>1. /\ WrappingSub(h, t) = IF h >= t THEN h - t ELSE h - t + WORD
        /\ WrappingSub(h, u) = IF h >= u THEN h - u ELSE h - u + WORD
        /\ WrappingSub(t, u) = IF t >= u THEN t - u ELSE t - u + WORD
    BY SubRange
  <1> QED
    BY <1>1, CapAssumption DEF Word

\* Distances measured forward from a common start: u lies between t and h.
LEMMA SubChainFwd ==
    ASSUME NEW h \in Word, NEW t \in Word, NEW u \in Word,
           WrappingSub(u, t) <= WrappingSub(h, t)
    PROVE  WrappingSub(h, u) = WrappingSub(h, t) - WrappingSub(u, t)
  <1>1. /\ WrappingSub(h, t) = IF h >= t THEN h - t ELSE h - t + WORD
        /\ WrappingSub(u, t) = IF u >= t THEN u - t ELSE u - t + WORD
        /\ WrappingSub(h, u) = IF h >= u THEN h - u ELSE h - u + WORD
    BY SubRange
  <1> QED
    BY <1>1, CapAssumption DEF Word

\* index = counter % CAP is a slot.
LEMMA IndexRange ==
    ASSUME NEW a \in Word
    PROVE  Index(a) \in Slots
  BY CapAssumption DEF Index, Slots, Word

\* Integers with the same residue differ by a multiple of the modulus.
LEMMA SameResidue ==
    ASSUME NEW n \in Nat \ {0}, NEW x \in Int, NEW y \in Int, x % n = y % n
    PROVE  \E w \in Int : y - x = n * w
  <1>1. /\ x = n * (x \div n) + (x % n)
        /\ y = n * (y \div n) + (y % n)
        /\ x \div n \in Int /\ y \div n \in Int /\ x % n \in Int
    OBVIOUS
  <1> DEFINE w == (y \div n) - (x \div n)
  <1>2. w \in Int /\ y - x = n * w
    BY <1>1
  <1> HIDE DEF w
  <1> QED
    BY <1>2

\* Fewer than CAP consecutive counter values use different slots, also where
\* the counter wraps, provided CAP divides WORD.
LEMMA IndexDistinct ==
    ASSUME CapDividesWord, NEW a \in Word,
           NEW j \in 0..WORD, NEW k \in 0..WORD, j < k, k - j < CAP
    PROVE  Index(WrappingAdd(a, j)) # Index(WrappingAdd(a, k))
  <1> DEFINE x == WrappingAdd(a, j)
             y == WrappingAdd(a, k)
  <1>1. x \in Word /\ y \in Word
    BY AddRange
  <1>2. \/ y - x = k - j
        \/ y - x = k - j - WORD
    <2>1. /\ x = IF a + j < WORD THEN a + j ELSE a + j - WORD
          /\ y = IF a + k < WORD THEN a + k ELSE a + k - WORD
      BY AddRange
    <2> QED
      BY <2>1, CapAssumption DEF Word
  <1>3. PICK m \in Int : WORD = CAP * m
    <2>1. WORD % CAP = 0 % CAP
      BY CapAssumption DEF CapDividesWord
    <2>2. PICK n \in Int : 0 - WORD = CAP * n
      <3>1. WORD \in Int /\ 0 \in Int /\ CAP \in Nat \ {0}
        BY CapAssumption
      <3> QED
        BY <2>1, <3>1, SameResidue
    <2>3. -n \in Int /\ WORD = CAP * (-n)
      BY <2>2, CapAssumption
    <2> QED
      BY <2>3
  <1>4. SUFFICES ASSUME x % CAP = y % CAP PROVE FALSE
    BY DEF Index
  <1>5. PICK u \in Int : y - x = CAP * u
    <2> HIDE DEF x, y
    <2>1. x \in Int /\ y \in Int /\ CAP \in Nat \ {0}
      BY <1>1, CapAssumption DEF Word
    <2> QED
      BY <1>4, <2>1, SameResidue
  <1>6. \E w \in Int : k - j = CAP * w
    <2> HIDE DEF x, y
    <2>1. CASE y - x = k - j
      BY <2>1, <1>5
    <2>2. CASE y - x = k - j - WORD
      <3>1. k - j = CAP * u + CAP * m
        BY <2>2, <1>3, <1>5, <1>1, CapAssumption DEF Word
      <3>2. k - j = CAP * (u + m)
        BY <3>1, CapAssumption
      <3> QED
        BY <3>2
    <2> QED
      BY <2>1, <2>2, <1>2
  <1>7. PICK w \in Int : k - j = CAP * w
    BY <1>6
  <1>8. w > 0 => CAP * w >= CAP
    BY CapAssumption
  <1>9. w <= 0 => CAP * w <= 0
    BY CapAssumption
  <1> QED
    BY <1>7, <1>8, <1>9, CapAssumption

-----------------------------------------------------------------------------
(* The store logs.                                                         *)

\* A log is never empty, and its entries are stores.
LEMMA LogEntries ==
    ASSUME NEW L \in Seq(Store), L # <<>>
    PROVE  /\ Len(L) \in Nat \ {0} /\ DOMAIN L = 1..Len(L)
           /\ 1 \in DOMAIN L /\ Len(L) \in DOMAIN L
           /\ \A i \in DOMAIN L : L[i].val \in Word /\ L[i].hb \in SUBSET Slots
           /\ Newest(L) \in Word
  <1>1. Len(L) \in Nat \ {0} /\ DOMAIN L = 1..Len(L)
    OBVIOUS
  <1>2. \A i \in DOMAIN L : L[i] \in Store
    BY <1>1
  <1> QED
    BY <1>1, <1>2 DEF Store, Newest

\* A Release store becomes the newest entry and keeps the others.
LEMMA StoreReleaseLog ==
    ASSUME NEW L \in Seq(Store), L # <<>>, NEW v \in Word
    PROVE  LET M == StoreRelease(L, v)
           IN  /\ M \in Seq(Store) /\ M # <<>>
               /\ DOMAIN M = DOMAIN L \cup {Len(L) + 1}
               /\ \A i \in DOMAIN L : M[i] = L[i] /\ i < Len(L) + 1
               /\ M[Len(L) + 1] = [val |-> v, hb |-> Slots]
               /\ Newest(M) = v
               /\ M[1] = L[1]
               /\ 1 \in DOMAIN L
  BY DEF StoreRelease, Store, Newest

\* A load drops the entries older than the one it read.
LEMMA LoadFromLog ==
    ASSUME NEW L \in Seq(Store), NEW i \in DOMAIN L
    PROVE  LET M == LoadFrom(L, i)
           IN  /\ M \in Seq(Store) /\ M # <<>>
               /\ \A k \in DOMAIN M : /\ k + i - 1 \in DOMAIN L
                                      /\ M[k] = L[k + i - 1]
               /\ M[1] = L[i]
               /\ Len(M) = Len(L) - i + 1
               /\ Newest(M) = Newest(L)
  <1> DEFINE M == LoadFrom(L, i)
  <1>1. Len(L) \in Nat /\ i \in 1..Len(L)
    OBVIOUS
  <1>2. M \in Seq(Store) /\ Len(M) = Len(L) - i + 1
    BY <1>1 DEF LoadFrom
  <1>3. DOMAIN M = 1..(Len(L) - i + 1)
    BY <1>1, <1>2
  <1>4. \A k \in DOMAIN M : k + i - 1 \in DOMAIN L /\ M[k] = L[k + i - 1]
    BY <1>1, <1>3 DEF LoadFrom
  <1>5. 1 \in DOMAIN M /\ M # <<>> /\ M[1] = L[i]
    <2> HIDE DEF M
    <2>1. 1 \in DOMAIN M /\ 1 + i - 1 = i
      BY <1>1, <1>3
    <2>2. M[1] = L[1 + i - 1]
      BY <1>4, <2>1
    <2>3. M # <<>>
      BY <1>1, <1>2
    <2> QED
      BY <2>1, <2>2, <2>3
  <1>6. M[Len(M)] = L[Len(L)]
    BY <1>1, <1>2, <1>3, <1>4
  <1> QED
    BY <1>2, <1>4, <1>5, <1>6 DEF Newest

\* Forgetting the order of one slot changes no value.
LEMMA UnorderedLog ==
    ASSUME NEW L \in Seq(Store), L # <<>>, NEW s \in Slots
    PROVE  LET M == Unordered(L, s)
           IN  /\ M \in Seq(Store) /\ M # <<>>
               /\ DOMAIN M = DOMAIN L
               /\ Len(M) = Len(L)
               /\ \A i \in DOMAIN L : /\ M[i].val = L[i].val
                                      /\ M[i].hb = L[i].hb \ {s}
               /\ Newest(M) = Newest(L)
  <1> DEFINE M == Unordered(L, s)
  <1>1. Len(L) \in Nat \ {0} /\ DOMAIN L = 1..Len(L) /\ \A i \in DOMAIN L : L[i] \in Store
    OBVIOUS
  <1>2. \A i \in DOMAIN L : /\ M[i] \in Store
                            /\ M[i].val = L[i].val
                            /\ M[i].hb = L[i].hb \ {s}
    BY <1>1 DEF Unordered, Store
  <1>3. DOMAIN M = 1..Len(L) /\ M = [i \in 1..Len(L) |-> M[i]]
    BY <1>1 DEF Unordered
  <1>4. M \in Seq(Store) /\ Len(M) = Len(L)
    BY <1>1, <1>2, <1>3
  <1> QED
    BY <1>1, <1>2, <1>3, <1>4 DEF Newest

\* The counters and every visible store to them are words.
LEMMA LogWords ==
    ASSUME TypeOK
    PROVE  /\ H \in Word /\ T \in Word
           /\ \A j \in DOMAIN head : head[j].val \in Word /\ head[j].hb \in SUBSET Slots
           /\ \A i \in DOMAIN tail : tail[i].val \in Word /\ tail[i].hb \in SUBSET Slots
           /\ 1 \in DOMAIN head /\ 1 \in DOMAIN tail
           /\ Len(head) \in DOMAIN head /\ Len(tail) \in DOMAIN tail
  BY LogEntries DEF TypeOK, H, T

-----------------------------------------------------------------------------
(* Init and the steps of push.                                             *)

LEMMA InitIInv == Init => IInv
  <1> SUFFICES ASSUME Init PROVE IInv
    OBVIOUS
  <1>1. H = 0 /\ T = 0 /\ Occupancy = 0
    BY CapAssumption DEF Init, H, T, Newest, Occupancy, WrappingSub
  <1>2. TypeOK
    <2>1. 0 \in Word /\ [val |-> 0, hb |-> Slots] \in Store
      BY CapAssumption DEF Store, Word
    <2>2. head \in Seq(Store) /\ head # <<>> /\ tail \in Seq(Store) /\ tail # <<>>
      BY <2>1 DEF Init
    <2> QED
      BY <2>1, <2>2 DEF Init, TypeOK
  <1>3. WrappingSub(0, 0) = 0
    BY CapAssumption DEF WrappingSub
  <1>4. CountersInv
    BY <1>1, <1>3, CapAssumption DEF Init, CountersInv
  <1>5. LocalsInv /\ SlotsInv
    BY <1>1 DEF Init, LocalsInv, SlotsInv
  <1>6. \A k \in 0..(CAP - 1) : Index(WrappingAdd(0, k)) \in Slots
    BY AddRange, IndexRange, CapAssumption DEF Word
  <1>7. OrderInv
    BY <1>1, <1>3, <1>6, CapAssumption DEF Init, OrderInv
  <1>8. CheckThenAct /\ DropInv
    BY <1>1 DEF Init, CheckThenAct, DropInv
  <1> QED
    BY <1>2, <1>4, <1>5, <1>7, <1>8 DEF IInv

\* The producer's loads, by push or is_full: the tail log loses a prefix.
LEMMA ProducerLoadsIInv ==
    ASSUME IInv, NEW i \in DOMAIN tail, ProducerLoads(i)
    PROVE  /\ H' = H /\ T' = T /\ Occupancy' = Occupancy
           /\ tail' \in Seq(Store) /\ tail' # <<>> /\ pHB' \in SUBSET Slots
           /\ CountersInv'
           /\ OrderInv'
           /\ \A k \in DOMAIN tail' :
                /\ WrappingSub(H, tail'[k].val) \in Nat
                /\ WrappingSub(H, tail'[k].val) <= WrappingSub(H, tail[i].val)
                /\ \E m \in DOMAIN tail : tail'[k] = tail[m]
  <1>1. TypeOK /\ CountersInv /\ OrderInv
    BY DEF IInv
  <1>2. /\ tail' \in Seq(Store) /\ tail' # <<>>
        /\ \A k \in DOMAIN tail' : k + i - 1 \in DOMAIN tail /\ tail'[k] = tail[k + i - 1]
        /\ tail'[1] = tail[i]
        /\ Newest(tail') = Newest(tail)
    BY <1>1, LoadFromLog DEF TypeOK, ProducerLoads
  <1>3. head' = head /\ buffer' = buffer /\ cHB' = cHB
    BY DEF ProducerLoads
  <1>4. H' = H /\ T' = T /\ Occupancy' = Occupancy
    BY <1>2, <1>3 DEF H, T, Occupancy
  <1>5. pHB' = pHB \cup tail[i].hb /\ pHB' \in SUBSET Slots
    BY <1>1, LogWords DEF ProducerLoads, LoadAcquire, TypeOK
  <1>6. \A k \in DOMAIN tail' : k \in Nat /\ k >= 1
    BY <1>2
  <1>7. CountersInv'
    <2>1. \A k, m \in DOMAIN tail' : k <= m => k + i - 1 <= m + i - 1
      BY <1>6, <1>1 DEF TypeOK
    <2> QED
      BY <1>1, <1>2, <1>3, <1>4, <2>1 DEF CountersInv
  <1>8. OrderInv'
    BY <1>1, <1>2, <1>3, <1>4, <1>5 DEF OrderInv
  <1>9. ASSUME NEW k \in DOMAIN tail'
        PROVE  /\ WrappingSub(H, tail'[k].val) \in Nat
               /\ WrappingSub(H, tail'[k].val) <= WrappingSub(H, tail[i].val)
               /\ \E m \in DOMAIN tail : tail'[k] = tail[m]
    <2>1. k + i - 1 \in DOMAIN tail /\ tail'[k] = tail[k + i - 1] /\ i <= k + i - 1
      BY <1>1, <1>2, <1>6 DEF TypeOK
    <2>2. WrappingSub(H, tail[k + i - 1].val) \in Nat
      BY <1>1, <2>1, LogWords, SubRange
    <2> QED
      BY <1>1, <2>1, <2>2 DEF CountersInv
  <1> QED
    BY <1>2, <1>4, <1>5, <1>7, <1>8, <1>9

LEMMA PushFullIInv ==
    ASSUME IInv, NEW i \in DOMAIN tail, PushFull(i)
    PROVE  IInv'
  <1>1. ProducerLoads(i) /\ UNCHANGED prodVars
    BY DEF PushFull
  <1>2. UNCHANGED <<head, buffer, cHB, consVars, prodVars>> /\ ppc = "idle"
    BY <1>1 DEF ProducerLoads
  <1>3. TypeOK'
    BY <1>1, <1>2, ProducerLoadsIInv DEF IInv, TypeOK, prodVars, consVars
  <1>4. LocalsInv' /\ SlotsInv' /\ DropInv'
    BY <1>1, <1>2, ProducerLoadsIInv
       DEF IInv, LocalsInv, SlotsInv, DropInv, prodVars, consVars
  <1>5. CheckThenAct'
    BY <1>1, <1>2, ProducerLoadsIInv
       DEF IInv, CheckThenAct, FullAt, EmptyAt, H, T, prodVars, consVars
  <1> QED
    BY <1>1, <1>3, <1>4, <1>5, ProducerLoadsIInv DEF IInv

LEMMA PushLoadIInv ==
    ASSUME IInv, NEW i \in DOMAIN tail, NEW item \in Items, PushLoad(i, item)
    PROVE  IInv'
  <1>1. ProducerLoads(i) /\ ~FullAt(i)
    BY DEF PushLoad
  <1>2. /\ UNCHANGED <<head, buffer, cHB, consVars, proom>>
        /\ ppc = "idle" /\ ppc' = "write" /\ phead' = H /\ pitem' = item
    BY <1>1 DEF ProducerLoads, PushLoad, H
  <1>3. TypeOK'
    <2>1. H \in Word
      BY LogWords DEF IInv
    <2> QED
      BY <1>1, <1>2, <2>1, ProducerLoadsIInv DEF IInv, TypeOK, consVars
  <1>4. \A k \in DOMAIN tail' : WrappingSub(H, tail'[k].val) < CAP
    <2>1. WrappingSub(H, tail[i].val) < CAP /\ WrappingSub(H, tail[i].val) \in Nat
      BY <1>1, LogWords, SubRange, CapAssumption DEF IInv, CountersInv, FullAt, H
    <2> QED
      BY <1>1, <2>1, ProducerLoadsIInv, CapAssumption
  <1>5. LocalsInv' /\ SlotsInv' /\ DropInv'
    BY <1>1, <1>2, <1>4, ProducerLoadsIInv
       DEF IInv, LocalsInv, SlotsInv, DropInv, consVars
  <1>6. CheckThenAct'
    BY <1>1, <1>2, ProducerLoadsIInv
       DEF IInv, CheckThenAct, FullAt, EmptyAt, H, T, consVars
  <1> QED
    BY <1>1, <1>3, <1>5, <1>6, ProducerLoadsIInv DEF IInv

LEMMA IsFullIInv ==
    ASSUME IInv, NEW i \in DOMAIN tail, IsFull(i)
    PROVE  IInv'
  <1>1. ProducerLoads(i)
    BY DEF IsFull
  <1>2. /\ UNCHANGED <<head, buffer, cHB, consVars, ppc, phead, pitem>>
        /\ ppc = "idle" /\ proom' = ~FullAt(i)
    BY <1>1 DEF ProducerLoads, IsFull
  <1>3. TypeOK'
    BY <1>1, <1>2, ProducerLoadsIInv DEF IInv, TypeOK, consVars
  <1>4. proom' => \A k \in DOMAIN tail' : WrappingSub(H, tail'[k].val) < CAP
    <2>1. WrappingSub(H, tail[i].val) <= CAP /\ WrappingSub(H, tail[i].val) \in Nat
      BY LogWords, SubRange DEF IInv, CountersInv
    <2>2. proom' => ~FullAt(i)
      BY <1>2
    <2>3. ~FullAt(i) => WrappingSub(H, tail[i].val) < CAP
      BY <2>1, CapAssumption DEF FullAt, H
    <2> QED
      BY <1>1, <2>1, <2>2, <2>3, ProducerLoadsIInv, CapAssumption
  <1>5. LocalsInv' /\ SlotsInv' /\ DropInv'
    BY <1>1, <1>2, ProducerLoadsIInv
       DEF IInv, LocalsInv, SlotsInv, DropInv, consVars
  <1>6. CheckThenAct'
    BY <1>1, <1>2, <1>4, ProducerLoadsIInv, CapAssumption
       DEF IInv, CheckThenAct, FullAt, EmptyAt, H, T, consVars
  <1> QED
    BY <1>1, <1>3, <1>5, <1>6, ProducerLoadsIInv DEF IInv

\* Writing the slot at H disturbs no slot between T and H.
LEMMA PushWriteIInv ==
    ASSUME CapDividesWord, IInv, PushWrite
    PROVE  IInv'
  <1> DEFINE s == Index(H)
  <1>1. TypeOK /\ CountersInv /\ LocalsInv /\ SlotsInv /\ OrderInv /\ CheckThenAct /\ DropInv
    BY DEF IInv
  <1>2. /\ ppc = "write" /\ ppc' = "store" /\ phead = H /\ pitem \in Items
        /\ UNCHANGED <<tail, pHB, phead, pitem, proom, consVars>>
        /\ buffer' = [buffer EXCEPT ![s] = pitem]
        /\ head' = Unordered(head, s)
        /\ cHB' = cHB \ {s}
        /\ \A i \in DOMAIN tail : WrappingSub(H, tail[i].val) < CAP
    BY <1>1 DEF PushWrite, LocalsInv
  <1>3. H \in Word /\ T \in Word /\ s \in Slots /\ 1 \in DOMAIN head
    BY <1>1, LogWords, IndexRange
  <1> HIDE DEF s
  <1>4. /\ head' \in Seq(Store) /\ head' # <<>>
        /\ DOMAIN head' = DOMAIN head /\ Len(head') = Len(head)
        /\ \A j \in DOMAIN head : head'[j].val = head[j].val /\ head'[j].hb = head[j].hb \ {s}
        /\ Newest(head') = Newest(head)
    BY <1>1, <1>2, <1>3, UnorderedLog DEF TypeOK
  <1>5. H' = H /\ T' = T /\ Occupancy' = Occupancy
    BY <1>2, <1>4 DEF H, T, Occupancy
  <1>6. Occupancy \in 0..(CAP - 1)
    <2>1. Len(tail) \in DOMAIN tail /\ T = tail[Len(tail)].val
      BY <1>1, LogWords DEF T, Newest
    <2> QED
      BY <1>2, <1>3, <2>1, SubRange, CapAssumption DEF Occupancy
  <1>7. \A k \in 0..(Occupancy - 1) : Index(WrappingAdd(T, k)) # s /\ Index(WrappingAdd(T, k)) \in Slots
    <2> SUFFICES ASSUME NEW k \in 0..(Occupancy - 1)
                 PROVE  Index(WrappingAdd(T, k)) # s /\ Index(WrappingAdd(T, k)) \in Slots
      OBVIOUS
    <2>1. WrappingAdd(T, Occupancy) = H
      <3>1. WrappingAdd(T, WrappingSub(H, T) + 0) = WrappingAdd(H, 0)
        BY <1>3, <1>6, AddSub, CapAssumption DEF Occupancy
      <3> QED
        BY <1>3, <1>6, <3>1, AddZero DEF Occupancy
    <2>2. k \in 0..WORD /\ Occupancy \in 0..WORD /\ k < Occupancy /\ Occupancy - k < CAP
      BY <1>6, CapAssumption
    <2>3. Index(WrappingAdd(T, k)) # Index(WrappingAdd(T, Occupancy))
      BY <1>3, <2>2, IndexDistinct
    <2> QED
      BY <1>3, <2>1, <2>2, <2>3, AddRange, IndexRange DEF s
  <1>8. \A j \in DOMAIN head : /\ WrappingSub(head[j].val, T) \in Nat
                              /\ WrappingSub(head[j].val, T) <= Occupancy
    BY <1>1, <1>3, LogWords, SubRange DEF CountersInv
  <1>9. TypeOK'
    <2>1. buffer' \in [Slots -> Items \cup {Uninit}]
      BY <1>1, <1>2, <1>3 DEF TypeOK
    <2> QED
      BY <1>1, <1>2, <1>4, <2>1 DEF TypeOK, consVars
  <1>10. CountersInv'
    BY <1>1, <1>2, <1>4, <1>5 DEF CountersInv
  <1>11. LocalsInv' /\ DropInv'
    BY <1>1, <1>2, <1>4, <1>5 DEF LocalsInv, DropInv, consVars
  <1>12. SlotsInv'
    <2>1. \A k \in 0..(Occupancy - 1) :
            buffer'[Index(WrappingAdd(T, k))] = buffer[Index(WrappingAdd(T, k))]
      BY <1>1, <1>2, <1>7 DEF TypeOK
    <2>2. buffer'[s] = pitem
      BY <1>1, <1>2, <1>3 DEF TypeOK
    <2>3. cpc = "store" => buffer'[Index(T)] = buffer[Index(T)]
      <3> SUFFICES ASSUME cpc = "store" PROVE buffer'[Index(T)] = buffer[Index(T)]
        OBVIOUS
      <3>1. Occupancy > 0
        BY <1>1, <1>3, <1>6, <1>8 DEF LocalsInv
      <3>2. 0 \in 0..(Occupancy - 1) /\ WrappingAdd(T, 0) = T
        BY <1>3, <1>6, <3>1, AddZero
      <3> QED
        BY <2>1, <3>2
    <2> QED
      BY <1>1, <1>2, <1>5, <2>1, <2>2, <2>3 DEF SlotsInv, consVars, s
  <1>13. OrderInv'
    <2>1. ASSUME NEW j \in DOMAIN head, NEW k \in 0..(WrappingSub(head[j].val, T) - 1)
          PROVE  /\ Index(WrappingAdd(T, k)) \in head[j].hb \ {s}
                 /\ j = 1 => Index(WrappingAdd(T, k)) \in cHB \ {s}
      <3>1. k \in 0..(Occupancy - 1)
        BY <1>6, <1>8
      <3> QED
        BY <1>1, <1>7, <3>1 DEF OrderInv
    <2> QED
      BY <1>1, <1>2, <1>3, <1>4, <1>5, <2>1 DEF OrderInv
  <1>14. CheckThenAct'
    BY <1>1, <1>2, <1>4, <1>5 DEF CheckThenAct, FullAt, EmptyAt, H, T, consVars
  <1> QED
    BY <1>9, <1>10, <1>11, <1>12, <1>13, <1>14 DEF IInv

\* Publishing head + 1 adds the item the slot at H already holds.
LEMMA PushStoreIInv ==
    ASSUME IInv, PushStore
    PROVE  IInv'
  <1> DEFINE n == Len(head) + 1
             h == WrappingAdd(H, 1)
  <1>1. TypeOK /\ CountersInv /\ LocalsInv /\ SlotsInv /\ OrderInv /\ CheckThenAct /\ DropInv
    BY DEF IInv
  <1>2. /\ ppc = "store" /\ ppc' = "idle" /\ proom' = FALSE
        /\ UNCHANGED <<tail, buffer, pHB, cHB, phead, pitem, consVars>>
        /\ head' = StoreRelease(head, h)
        /\ pitem \in Items /\ buffer[Index(H)] = pitem
        /\ \A i \in DOMAIN tail : WrappingSub(H, tail[i].val) < CAP
    BY <1>1 DEF PushStore, LocalsInv, SlotsInv
  <1>3. H \in Word /\ T \in Word /\ h \in Word
    BY <1>1, LogWords, AddRange, CapAssumption
  <1>4. /\ head' \in Seq(Store) /\ head' # <<>>
        /\ DOMAIN head' = DOMAIN head \cup {n}
        /\ \A j \in DOMAIN head : head'[j] = head[j] /\ j < n
        /\ head'[n] = [val |-> h, hb |-> Slots]
        /\ H' = h /\ head'[1] = head[1] /\ 1 \in DOMAIN head
    BY <1>1, <1>2, <1>3, StoreReleaseLog DEF TypeOK, H
  <1> HIDE DEF n, h
  <1>5. T' = T
    BY <1>2 DEF T
  <1>6. Occupancy \in 0..(CAP - 1) /\ Occupancy = WrappingSub(H, T)
    <2>1. Len(tail) \in DOMAIN tail /\ T = tail[Len(tail)].val
      BY <1>1, LogWords DEF T, Newest
    <2> QED
      BY <1>2, <1>3, <2>1, SubRange, CapAssumption DEF Occupancy
  <1>7. Occupancy' = Occupancy + 1 /\ WrappingSub(h, T) = Occupancy + 1
    BY <1>3, <1>4, <1>5, <1>6, SubSucc, CapAssumption DEF Occupancy, h
  <1>8. \A i \in DOMAIN tail : /\ WrappingSub(H, tail[i].val) \in 0..(CAP - 1)
                               /\ WrappingSub(h, tail[i].val) = WrappingSub(H, tail[i].val) + 1
    <2> SUFFICES ASSUME NEW i \in DOMAIN tail
                 PROVE  /\ WrappingSub(H, tail[i].val) \in 0..(CAP - 1)
                        /\ WrappingSub(h, tail[i].val) = WrappingSub(H, tail[i].val) + 1
      OBVIOUS
    <2>1. WrappingSub(H, tail[i].val) \in 0..(CAP - 1) /\ tail[i].val \in Word
      BY <1>1, <1>2, <1>3, LogWords, SubRange, CapAssumption
    <2> QED
      BY <1>3, <2>1, SubSucc, CapAssumption DEF h
  <1>9. \A j \in DOMAIN head : /\ WrappingSub(head[j].val, T) \in Nat
                              /\ WrappingSub(head[j].val, T) <= Occupancy
    BY <1>1, <1>3, LogWords, SubRange DEF CountersInv
  <1>10. TypeOK'
    BY <1>1, <1>2, <1>4 DEF TypeOK, consVars
  <1>11. CountersInv'
    <2>1. Occupancy' <= CAP
      BY <1>6, <1>7, CapAssumption
    <2>2. \A j \in DOMAIN head' : WrappingSub(head'[j].val, T) <= Occupancy + 1
      BY <1>4, <1>6, <1>7, <1>9
    <2>3. \A j, k \in DOMAIN head' :
            j <= k => WrappingSub(head'[j].val, T) <= WrappingSub(head'[k].val, T)
      <3>1. \A j \in DOMAIN head : j \in Nat
        BY <1>1 DEF TypeOK
      <3>2. n \in Nat
        BY <1>1 DEF TypeOK, n
      <3> QED
        BY <1>1, <1>4, <1>6, <1>7, <1>9, <3>1, <3>2 DEF CountersInv
    <2>4. \A i \in DOMAIN tail : /\ Occupancy + 1 <= WrappingSub(h, tail[i].val)
                                 /\ WrappingSub(h, tail[i].val) <= CAP
      BY <1>1, <1>6, <1>8, CapAssumption DEF CountersInv
    <2>5. \A i, k \in DOMAIN tail :
            i <= k => WrappingSub(h, tail[k].val) <= WrappingSub(h, tail[i].val)
      BY <1>1, <1>8 DEF CountersInv
    <2> QED
      BY <1>2, <1>4, <1>5, <1>7, <2>1, <2>2, <2>3, <2>4, <2>5 DEF CountersInv
  <1>12. LocalsInv'
    BY <1>1, <1>2, <1>4, <1>5, <1>6, <1>7 DEF LocalsInv, consVars
  <1>13. SlotsInv'
    <2>1. WrappingAdd(T, Occupancy) = H
      <3>1. WrappingAdd(T, WrappingSub(H, T) + 0) = WrappingAdd(H, 0)
        BY <1>3, <1>6, AddSub, CapAssumption
      <3> QED
        BY <1>3, <1>6, <3>1, AddZero
    <2>2. \A k \in 0..Occupancy : buffer[Index(WrappingAdd(T, k))] \in Items
      BY <1>1, <1>2, <1>6, <2>1 DEF SlotsInv
    <2> QED
      BY <1>1, <1>2, <1>5, <1>6, <1>7, <2>2 DEF SlotsInv, consVars
  <1>14. OrderInv'
    <2>1. \A k \in 0..Occupancy : Index(WrappingAdd(T, k)) \in Slots
      BY <1>3, <1>6, AddRange, IndexRange, CapAssumption
    <2>2. ASSUME NEW i \in DOMAIN tail, NEW k \in 0..(CAP - WrappingSub(h, tail[i].val) - 1)
          PROVE  /\ Index(WrappingAdd(h, k)) \in tail[i].hb
                 /\ i = 1 => Index(WrappingAdd(h, k)) \in pHB
      <3>1. k + 1 \in 0..(CAP - WrappingSub(H, tail[i].val) - 1) /\ k \in 0..(WORD - 1)
        BY <1>8, CapAssumption
      <3>2. WrappingAdd(h, k) = WrappingAdd(H, k + 1)
        BY <1>3, <3>1, AddSucc DEF h
      <3> QED
        BY <1>1, <3>1, <3>2 DEF OrderInv
    <2>3. 1 \in DOMAIN tail
      BY <1>1, LogWords
    <2>4. \A j \in DOMAIN head' : \A k \in 0..(WrappingSub(head'[j].val, T) - 1) :
            Index(WrappingAdd(T, k)) \in head'[j].hb
      BY <1>1, <1>4, <1>6, <1>7, <2>1 DEF OrderInv
    <2> QED
      BY <1>1, <1>2, <1>4, <1>5, <2>2, <2>3, <2>4 DEF OrderInv
  <1>15. CheckThenAct'
    <2>1. h # T
      BY <1>3, <1>6, <1>7, SubRange
    <2> QED
      BY <1>1, <1>2, <1>4, <1>5, <2>1 DEF CheckThenAct, EmptyAt, T, consVars
  <1>16. DropInv'
    BY <1>1, <1>2 DEF DropInv, consVars
  <1> QED
    BY <1>10, <1>11, <1>12, <1>13, <1>14, <1>15, <1>16 DEF IInv

-----------------------------------------------------------------------------
(* The steps of pop and drop.                                              *)

\* The consumer's loads, by pop or is_empty: the head log loses a prefix.
LEMMA ConsumerLoadsIInv ==
    ASSUME IInv, NEW j \in DOMAIN head, ConsumerLoads(j)
    PROVE  /\ H' = H /\ T' = T /\ Occupancy' = Occupancy
           /\ head' \in Seq(Store) /\ head' # <<>> /\ cHB' \in SUBSET Slots
           /\ Len(head') = Len(head) - j + 1
           /\ CountersInv'
           /\ OrderInv'
           /\ \A k \in DOMAIN head' :
                /\ WrappingSub(head'[k].val, T) \in Nat
                /\ WrappingSub(head'[k].val, T) >= WrappingSub(head[j].val, T)
                /\ \E m \in DOMAIN head : head'[k] = head[m]
  <1>1. TypeOK /\ CountersInv /\ OrderInv
    BY DEF IInv
  <1>2. /\ head' \in Seq(Store) /\ head' # <<>>
        /\ \A k \in DOMAIN head' : k + j - 1 \in DOMAIN head /\ head'[k] = head[k + j - 1]
        /\ head'[1] = head[j]
        /\ Len(head') = Len(head) - j + 1
        /\ Newest(head') = Newest(head)
    BY <1>1, LoadFromLog DEF TypeOK, ConsumerLoads
  <1>3. tail' = tail /\ buffer' = buffer /\ pHB' = pHB
    BY DEF ConsumerLoads
  <1>4. H' = H /\ T' = T /\ Occupancy' = Occupancy
    BY <1>2, <1>3 DEF H, T, Occupancy
  <1>5. cHB' = cHB \cup head[j].hb /\ cHB' \in SUBSET Slots
    BY <1>1, LogWords DEF ConsumerLoads, LoadAcquire, TypeOK
  <1>6. \A k \in DOMAIN head' : k \in Nat /\ k >= 1
    BY <1>2
  <1>7. CountersInv'
    <2>1. \A k, m \in DOMAIN head' : k <= m => k + j - 1 <= m + j - 1
      BY <1>6, <1>1 DEF TypeOK
    <2> QED
      BY <1>1, <1>2, <1>3, <1>4, <2>1 DEF CountersInv
  <1>8. OrderInv'
    BY <1>1, <1>2, <1>3, <1>4, <1>5 DEF OrderInv
  <1>9. ASSUME NEW k \in DOMAIN head'
        PROVE  /\ WrappingSub(head'[k].val, T) \in Nat
               /\ WrappingSub(head'[k].val, T) >= WrappingSub(head[j].val, T)
               /\ \E m \in DOMAIN head : head'[k] = head[m]
    <2>1. k + j - 1 \in DOMAIN head /\ head'[k] = head[k + j - 1] /\ j <= k + j - 1
      BY <1>1, <1>2, <1>6 DEF TypeOK
    <2>2. WrappingSub(head[k + j - 1].val, T) \in Nat /\ WrappingSub(head[j].val, T) \in Nat
      BY <1>1, <2>1, LogWords, SubRange
    <2> QED
      BY <1>1, <2>1, <2>2 DEF CountersInv
  <1> QED
    BY <1>2, <1>4, <1>5, <1>7, <1>8, <1>9

\* With one store left to read, drop's last pop sees that the queue is empty.
LEMMA PopEmptyIInv ==
    ASSUME IInv, NEW j \in DOMAIN head, PopEmpty(j)
    PROVE  IInv'
  <1>1. ConsumerLoads(j) /\ EmptyAt(j)
    BY DEF PopEmpty
  <1>2. /\ UNCHANGED <<tail, buffer, pHB, prodVars, ctail, citem, csome, out>>
        /\ cpc = "idle"
        /\ cpc' = IF ppc = "gone" THEN "gone" ELSE "idle"
    BY <1>1 DEF ConsumerLoads, PopEmpty
  <1>3. TypeOK'
    BY <1>1, <1>2, ConsumerLoadsIInv DEF IInv, TypeOK, prodVars
  <1>4. LocalsInv' /\ SlotsInv'
    BY <1>1, <1>2, ConsumerLoadsIInv DEF IInv, LocalsInv, SlotsInv, prodVars
  <1>5. CheckThenAct'
    BY <1>1, <1>2, ConsumerLoadsIInv
       DEF IInv, CheckThenAct, FullAt, EmptyAt, H, T, prodVars
  <1>6. DropInv'
    <2>1. ASSUME ppc = "gone" PROVE Len(head') = 1 /\ Occupancy = 0
      <3>1. Len(head) = 1 /\ j = 1
        BY <2>1 DEF IInv, DropInv, TypeOK
      <3>2. H = T /\ H \in Word
        BY <1>1, <3>1, LogWords DEF IInv, EmptyAt, H, T, Newest
      <3>3. Len(head') = Len(head) - j + 1
        BY <1>1, ConsumerLoadsIInv
      <3>4. Occupancy = 0
        BY <3>2, SubRange DEF Occupancy
      <3> QED
        BY <3>1, <3>3, <3>4
    <2> QED
      BY <1>1, <1>2, <2>1, ConsumerLoadsIInv DEF DropInv, prodVars
  <1> QED
    BY <1>1, <1>3, <1>4, <1>5, <1>6, ConsumerLoadsIInv DEF IInv

LEMMA PopLoadIInv ==
    ASSUME IInv, NEW j \in DOMAIN head, PopLoad(j)
    PROVE  IInv'
  <1>1. ConsumerLoads(j) /\ ~EmptyAt(j)
    BY DEF PopLoad
  <1>2. /\ UNCHANGED <<tail, buffer, pHB, prodVars, citem, csome, out>>
        /\ cpc = "idle" /\ cpc' = "read" /\ ctail' = T
    BY <1>1 DEF ConsumerLoads, PopLoad, T
  <1>3. TypeOK'
    <2>1. T \in Word
      BY LogWords DEF IInv
    <2> QED
      BY <1>1, <1>2, <2>1, ConsumerLoadsIInv DEF IInv, TypeOK, prodVars
  <1>4. \A k \in DOMAIN head' : WrappingSub(head'[k].val, T) > 0
    <2>1. WrappingSub(head[j].val, T) \in Nat \ {0}
      BY <1>1, LogWords, SubRange DEF IInv, EmptyAt, T
    <2> QED
      BY <1>1, <2>1, ConsumerLoadsIInv
  <1>5. LocalsInv' /\ SlotsInv'
    BY <1>1, <1>2, <1>4, ConsumerLoadsIInv DEF IInv, LocalsInv, SlotsInv, prodVars
  <1>6. CheckThenAct'
    BY <1>1, <1>2, ConsumerLoadsIInv
       DEF IInv, CheckThenAct, FullAt, EmptyAt, H, T, prodVars
  <1>7. DropInv'
    <2>1. ppc = "gone" => Len(head') = 1
      <3> SUFFICES ASSUME ppc = "gone" PROVE Len(head') = 1
        OBVIOUS
      <3>1. Len(head) = 1 /\ j = 1
        BY DEF IInv, DropInv, TypeOK
      <3>2. Len(head') = Len(head) - j + 1
        BY <1>1, ConsumerLoadsIInv
      <3> QED
        BY <3>1, <3>2
    <2> QED
      BY <1>2, <2>1 DEF DropInv, prodVars
  <1> QED
    BY <1>1, <1>3, <1>5, <1>6, <1>7, ConsumerLoadsIInv DEF IInv

LEMMA IsEmptyIInv ==
    ASSUME IInv, NEW j \in DOMAIN head, IsEmpty(j)
    PROVE  IInv'
  <1>1. ConsumerLoads(j) /\ ppc # "gone"
    BY DEF IsEmpty
  <1>2. /\ UNCHANGED <<tail, buffer, pHB, prodVars, cpc, ctail, citem, out>>
        /\ cpc = "idle" /\ csome' = ~EmptyAt(j)
    BY <1>1 DEF ConsumerLoads, IsEmpty
  <1>3. TypeOK'
    BY <1>1, <1>2, ConsumerLoadsIInv DEF IInv, TypeOK, prodVars
  <1>4. csome' => \A k \in DOMAIN head' : head'[k].val # T
    <2>1. csome' => ~EmptyAt(j)
      BY <1>2
    <2>2. /\ T \in Word /\ \A m \in DOMAIN head : head[m].val \in Word
          /\ WrappingSub(T, T) = 0
      BY LogWords, SubRange DEF IInv
    <2>3. ~EmptyAt(j) => WrappingSub(head[j].val, T) \in Nat \ {0}
      BY <2>2, SubRange DEF EmptyAt, T
    <2> QED
      BY <1>1, <2>1, <2>2, <2>3, ConsumerLoadsIInv
  <1>5. LocalsInv' /\ SlotsInv' /\ DropInv'
    BY <1>1, <1>2, ConsumerLoadsIInv
       DEF IInv, LocalsInv, SlotsInv, DropInv, prodVars
  <1>6. CheckThenAct'
    BY <1>1, <1>2, <1>4, ConsumerLoadsIInv
       DEF IInv, CheckThenAct, FullAt, EmptyAt, H, T, prodVars
  <1> QED
    BY <1>1, <1>3, <1>5, <1>6, ConsumerLoadsIInv DEF IInv

\* Reading the slot at T disturbs no slot that was given back.
LEMMA PopReadIInv ==
    ASSUME CapDividesWord, IInv, PopRead
    PROVE  IInv'
  <1> DEFINE s == Index(T)
  <1>1. TypeOK /\ CountersInv /\ LocalsInv /\ SlotsInv /\ OrderInv /\ CheckThenAct /\ DropInv
    BY DEF IInv
  <1>2. /\ cpc = "read" /\ cpc' = "store" /\ ctail = T
        /\ UNCHANGED <<head, buffer, cHB, prodVars, ctail, csome, out>>
        /\ citem' \in IF s \in cHB THEN {buffer[s]} ELSE Items \cup {Uninit}
        /\ tail' = Unordered(tail, s)
        /\ pHB' = pHB \ {s}
        /\ \A j \in DOMAIN head : WrappingSub(head[j].val, T) > 0
    BY <1>1 DEF PopRead, LocalsInv
  <1>3. /\ H \in Word /\ T \in Word /\ s \in Slots
        /\ 1 \in DOMAIN head /\ head[1].val \in Word /\ 1 \in DOMAIN tail
        /\ \A i \in DOMAIN tail : tail[i].val \in Word
    BY <1>1, LogWords, IndexRange
  <1> HIDE DEF s
  <1>4. /\ tail' \in Seq(Store) /\ tail' # <<>>
        /\ DOMAIN tail' = DOMAIN tail
        /\ \A i \in DOMAIN tail : tail'[i].val = tail[i].val /\ tail'[i].hb = tail[i].hb \ {s}
        /\ Newest(tail') = Newest(tail)
    BY <1>1, <1>2, <1>3, UnorderedLog DEF TypeOK
  <1>5. H' = H /\ T' = T /\ Occupancy' = Occupancy
    BY <1>2, <1>4 DEF H, T, Occupancy
  <1>6. Occupancy \in 1..CAP /\ Occupancy = WrappingSub(H, T)
    <2>1. Occupancy \in Nat /\ WrappingSub(head[1].val, T) \in Nat
      BY <1>3, SubRange DEF Occupancy
    <2> QED
      BY <1>1, <1>2, <1>3, <2>1, CapAssumption DEF CountersInv, Occupancy
  <1>7. s \in cHB /\ citem' = buffer[s]
    <2>1. 0 \in 0..(WrappingSub(head[1].val, T) - 1) /\ WrappingAdd(T, 0) = T
      BY <1>2, <1>3, SubRange, AddZero
    <2>2. s \in cHB
      BY <1>1, <2>1 DEF OrderInv, s
    <2> QED
      BY <1>2, <2>2
  <1>8. TypeOK'
    <2>1. buffer[s] \in Items \cup {Uninit} /\ pHB' \in SUBSET Slots
      BY <1>1, <1>2, <1>3 DEF TypeOK
    <2> QED
      BY <1>1, <1>2, <1>4, <1>7, <2>1 DEF TypeOK, prodVars
  <1>9. CountersInv'
    BY <1>1, <1>2, <1>4, <1>5 DEF CountersInv
  <1>10. LocalsInv' /\ DropInv'
    BY <1>1, <1>2, <1>4, <1>5 DEF LocalsInv, DropInv, prodVars
  <1>11. SlotsInv'
    BY <1>1, <1>2, <1>5, <1>7 DEF SlotsInv, prodVars, s
  <1>12. OrderInv'
    <2>1. ASSUME NEW i \in DOMAIN tail, NEW k \in 0..(CAP - WrappingSub(H, tail[i].val) - 1)
          PROVE  /\ Index(WrappingAdd(H, k)) \in tail[i].hb \ {s}
                 /\ i = 1 => Index(WrappingAdd(H, k)) \in pHB \ {s}
      <3>1. WrappingSub(H, tail[i].val) \in Nat /\ Occupancy <= WrappingSub(H, tail[i].val)
        BY <1>1, <1>3, SubRange DEF CountersInv
      <3>2. /\ k \in Nat /\ Occupancy + k \in 0..WORD /\ 0 \in 0..WORD
            /\ 0 < Occupancy + k /\ Occupancy + k - 0 < CAP
        BY <1>6, <3>1, CapAssumption
      <3>3. WrappingAdd(T, Occupancy + k) = WrappingAdd(H, k)
        BY <1>3, <1>6, <3>2, AddSub
      <3>4. Index(WrappingAdd(T, 0)) # Index(WrappingAdd(T, Occupancy + k))
        BY <1>3, <3>2, IndexDistinct
      <3>5. Index(WrappingAdd(H, k)) # s
        BY <1>3, <3>3, <3>4, AddZero DEF s
      <3> QED
        BY <1>1, <3>5 DEF OrderInv
    <2> QED
      BY <1>1, <1>2, <1>3, <1>4, <1>5, <2>1 DEF OrderInv
  <1>13. CheckThenAct'
    BY <1>1, <1>2, <1>4, <1>5 DEF CheckThenAct, FullAt, EmptyAt, H, T, prodVars
  <1> QED
    BY <1>8, <1>9, <1>10, <1>11, <1>12, <1>13 DEF IInv

\* Publishing tail + 1 gives the slot at T back.
LEMMA PopStoreIInv ==
    ASSUME IInv, PopStore
    PROVE  IInv'
  <1> DEFINE n == Len(tail) + 1
             t == WrappingAdd(T, 1)
  <1>1. TypeOK /\ CountersInv /\ LocalsInv /\ SlotsInv /\ OrderInv /\ CheckThenAct /\ DropInv
    BY DEF IInv
  <1>2. /\ cpc = "store" /\ cpc' = "idle" /\ csome' = FALSE /\ out' = citem
        /\ UNCHANGED <<head, buffer, pHB, cHB, prodVars, ctail, citem>>
        /\ tail' = StoreRelease(tail, t)
        /\ \A j \in DOMAIN head : WrappingSub(head[j].val, T) > 0
    BY <1>1 DEF PopStore, LocalsInv
  <1>3. /\ H \in Word /\ T \in Word /\ t \in Word /\ 1 \in DOMAIN head
        /\ \A j \in DOMAIN head : head[j].val \in Word
        /\ \A i \in DOMAIN tail : tail[i].val \in Word
    BY <1>1, LogWords, AddRange, CapAssumption
  <1>4. /\ tail' \in Seq(Store) /\ tail' # <<>>
        /\ DOMAIN tail' = DOMAIN tail \cup {n}
        /\ \A i \in DOMAIN tail : tail'[i] = tail[i] /\ i < n
        /\ tail'[n] = [val |-> t, hb |-> Slots]
        /\ T' = t /\ tail'[1] = tail[1] /\ 1 \in DOMAIN tail
    BY <1>1, <1>2, <1>3, StoreReleaseLog DEF TypeOK, T
  <1> HIDE DEF n, t
  <1>5. H' = H
    BY <1>2 DEF H
  <1>6. \A j \in DOMAIN head : /\ WrappingSub(head[j].val, T) \in Nat
                              /\ WrappingSub(head[j].val, t) = WrappingSub(head[j].val, T) - 1
    BY <1>2, <1>3, SubRange, SubPred DEF t
  <1>7. Occupancy \in 1..CAP /\ Occupancy = WrappingSub(H, T)
    <2>1. Occupancy \in Nat
      BY <1>3, SubRange DEF Occupancy
    <2> QED
      BY <1>1, <1>2, <1>3, <1>6, <2>1, CapAssumption DEF CountersInv, Occupancy
  <1>8. Occupancy' = Occupancy - 1 /\ WrappingSub(H, t) = Occupancy - 1
    BY <1>3, <1>4, <1>5, <1>7, SubPred DEF Occupancy, t
  <1>9. \A i \in DOMAIN tail : WrappingSub(H, tail[i].val) \in Nat
    BY <1>3, SubRange
  <1>10. TypeOK'
    BY <1>1, <1>2, <1>4 DEF TypeOK, prodVars
  <1>11. CountersInv'
    <2>1. \A j \in DOMAIN head : WrappingSub(head[j].val, t) <= Occupancy - 1
      BY <1>1, <1>6, <1>7 DEF CountersInv
    <2>2. \A j, k \in DOMAIN head :
            j <= k => WrappingSub(head[j].val, t) <= WrappingSub(head[k].val, t)
      BY <1>1, <1>6 DEF CountersInv
    <2>3. \A i \in DOMAIN tail' : /\ Occupancy - 1 <= WrappingSub(H, tail'[i].val)
                                  /\ WrappingSub(H, tail'[i].val) <= CAP
      BY <1>1, <1>4, <1>7, <1>8, <1>9, CapAssumption DEF CountersInv
    <2>4. \A i, k \in DOMAIN tail' :
            i <= k => WrappingSub(H, tail'[k].val) <= WrappingSub(H, tail'[i].val)
      <3>1. n \in Nat /\ \A i \in DOMAIN tail : i \in Nat
        BY <1>1 DEF TypeOK, n
      <3> QED
        BY <1>1, <1>4, <1>7, <1>8, <1>9, <3>1 DEF CountersInv
    <2> QED
      BY <1>2, <1>4, <1>5, <1>7, <1>8, <2>1, <2>2, <2>3, <2>4, CapAssumption DEF CountersInv
  <1>12. LocalsInv'
    BY <1>1, <1>2, <1>4, <1>5, <1>7, <1>8, CapAssumption DEF LocalsInv, prodVars
  <1>13. \A k \in 0..(Occupancy - 2) : /\ k + 1 \in 0..(Occupancy - 1)
                                      /\ WrappingAdd(t, k) = WrappingAdd(T, k + 1)
    BY <1>3, <1>7, AddSucc, CapAssumption DEF t
  <1>14. SlotsInv'
    <2>1. \A k \in 0..(Occupancy - 2) : buffer[Index(WrappingAdd(t, k))] \in Items
      BY <1>1, <1>13 DEF SlotsInv
    <2>2. Occupancy' - 1 = Occupancy - 2
      BY <1>7, <1>8
    <2> QED
      BY <1>1, <1>2, <1>4, <1>5, <2>1, <2>2 DEF SlotsInv, prodVars
  <1>15. OrderInv'
    <2>1. ASSUME NEW j \in DOMAIN head, NEW k \in 0..(WrappingSub(head[j].val, t) - 1)
          PROVE  /\ Index(WrappingAdd(t, k)) \in head[j].hb
                 /\ j = 1 => Index(WrappingAdd(t, k)) \in cHB
      <3>1. /\ k \in 0..(Occupancy - 2)
            /\ k + 1 \in 0..(WrappingSub(head[j].val, T) - 1)
        BY <1>1, <1>6, <1>7 DEF CountersInv
      <3> QED
        BY <1>1, <1>13, <3>1 DEF OrderInv
    <2>2. \A k \in 0..(CAP - 1) : Index(WrappingAdd(H, k)) \in Slots
      BY <1>3, AddRange, IndexRange, CapAssumption
    <2>3. \A i \in DOMAIN tail' : \A k \in 0..(CAP - WrappingSub(H, tail'[i].val) - 1) :
            Index(WrappingAdd(H, k)) \in tail'[i].hb
      BY <1>1, <1>4, <1>7, <1>8, <2>2, CapAssumption DEF OrderInv
    <2> QED
      BY <1>1, <1>2, <1>3, <1>4, <1>5, <2>1, <2>3 DEF OrderInv
  <1>16. CheckThenAct'
    <2>1. WrappingSub(H, t) # CAP
      BY <1>7, <1>8, CapAssumption
    <2> QED
      BY <1>1, <1>2, <1>4, <1>5, <2>1 DEF CheckThenAct, FullAt, H, prodVars
  <1>17. DropInv'
    BY <1>1, <1>2 DEF DropInv, prodVars
  <1> QED
    BY <1>10, <1>11, <1>12, <1>14, <1>15, <1>16, <1>17 DEF IInv

\* drop begins with both sides' accesses ordered before it.
LEMMA DropIInv ==
    ASSUME IInv, Drop
    PROVE  IInv'
  <1>1. TypeOK /\ CountersInv /\ LocalsInv /\ SlotsInv /\ OrderInv /\ CheckThenAct /\ DropInv
    BY DEF IInv
  <1>2. /\ ppc = "idle" /\ cpc = "idle" /\ ppc' = "gone" /\ pHB' = Slots /\ cHB' = Slots
        /\ UNCHANGED <<buffer, phead, pitem, proom, consVars>>
    BY DEF Drop
  <1>3. /\ head \in Seq(Store) /\ tail \in Seq(Store)
        /\ Len(head) \in DOMAIN head /\ Len(tail) \in DOMAIN tail
        /\ H \in Word /\ T \in Word
    BY <1>1, LogWords DEF TypeOK
  <1>4. /\ head' \in Seq(Store) /\ head' # <<>> /\ Len(head') = 1 /\ DOMAIN head' = {1}
        /\ head'[1] = head[Len(head)] /\ Newest(head') = Newest(head)
    <2>1. head' = LoadFrom(head, Len(head))
      BY DEF Drop
    <2>2. /\ head' \in Seq(Store) /\ head' # <<>> /\ head'[1] = head[Len(head)]
          /\ Len(head') = Len(head) - Len(head) + 1 /\ Newest(head') = Newest(head)
      BY <1>3, <2>1, LoadFromLog
    <2> QED
      BY <1>3, <2>2
  <1>5. /\ tail' \in Seq(Store) /\ tail' # <<>> /\ Len(tail') = 1 /\ DOMAIN tail' = {1}
        /\ tail'[1] = tail[Len(tail)] /\ Newest(tail') = Newest(tail)
    <2>1. tail' = LoadFrom(tail, Len(tail))
      BY DEF Drop
    <2>2. /\ tail' \in Seq(Store) /\ tail' # <<>> /\ tail'[1] = tail[Len(tail)]
          /\ Len(tail') = Len(tail) - Len(tail) + 1 /\ Newest(tail') = Newest(tail)
      BY <1>3, <2>1, LoadFromLog
    <2> QED
      BY <1>3, <2>2
  <1>6. H' = H /\ T' = T /\ Occupancy' = Occupancy
    BY <1>4, <1>5 DEF H, T, Occupancy
  <1>7. TypeOK'
    BY <1>1, <1>2, <1>4, <1>5 DEF TypeOK, consVars
  <1>8. Occupancy \in Nat /\ WrappingSub(H, T) = Occupancy
    BY <1>3, SubRange DEF Occupancy
  <1>9. CountersInv'
    <2>1. head'[1].val = H /\ tail'[1].val = T
      BY <1>4, <1>5 DEF H, T, Newest
    <2> QED
      BY <1>1, <1>4, <1>5, <1>6, <1>8, <2>1 DEF CountersInv
  <1>10. LocalsInv' /\ SlotsInv' /\ DropInv'
    BY <1>1, <1>2, <1>4, <1>6 DEF LocalsInv, SlotsInv, DropInv, consVars
  <1>11. OrderInv'
    <2>1. \A k \in 0..(CAP - 1) : Index(WrappingAdd(H, k)) \in Slots
      BY <1>3, AddRange, IndexRange, CapAssumption
    <2>2. \A k \in 0..(CAP - 1) : Index(WrappingAdd(T, k)) \in Slots
      BY <1>3, AddRange, IndexRange, CapAssumption
    <2>3. head'[1].val = H /\ tail'[1].val = T
      BY <1>4, <1>5 DEF H, T, Newest
    <2>4. /\ \A k \in 0..(Occupancy - 1) : Index(WrappingAdd(T, k)) \in Slots
          /\ \A k \in 0..(CAP - Occupancy - 1) : Index(WrappingAdd(H, k)) \in Slots
      BY <1>1, <1>8, <2>1, <2>2, CapAssumption DEF CountersInv
    <2> QED
      BY <1>1, <1>2, <1>3, <1>4, <1>5, <1>6, <1>8, <2>3, <2>4 DEF OrderInv
  <1>12. CheckThenAct'
    BY <1>1, <1>2, <1>3, <1>4, <1>5 DEF CheckThenAct, FullAt, EmptyAt, Newest, consVars
  <1> QED
    BY <1>7, <1>9, <1>10, <1>11, <1>12 DEF IInv

-----------------------------------------------------------------------------
(* The theorems.                                                           *)

LEMMA NextIInv ==
    ASSUME CapDividesWord, IInv, [Next]_vars
    PROVE  IInv'
  <1>1. ASSUME NEW i \in DOMAIN tail, PushFull(i) PROVE IInv'
    BY <1>1, PushFullIInv
  <1>2. ASSUME NEW i \in DOMAIN tail, NEW item \in Items, PushLoad(i, item) PROVE IInv'
    BY <1>2, PushLoadIInv
  <1>3. ASSUME NEW i \in DOMAIN tail, IsFull(i) PROVE IInv'
    BY <1>3, IsFullIInv
  <1>4. ASSUME NEW j \in DOMAIN head, PopEmpty(j) PROVE IInv'
    BY <1>4, PopEmptyIInv
  <1>5. ASSUME NEW j \in DOMAIN head, PopLoad(j) PROVE IInv'
    BY <1>5, PopLoadIInv
  <1>6. ASSUME NEW j \in DOMAIN head, IsEmpty(j) PROVE IInv'
    BY <1>6, IsEmptyIInv
  <1>7. CASE UNCHANGED vars
    <2>1. /\ UNCHANGED <<head, tail, buffer, pHB, cHB>>
          /\ UNCHANGED <<ppc, phead, pitem, proom>>
          /\ UNCHANGED <<cpc, ctail, citem, csome, out>>
      BY <1>7 DEF vars, memVars, prodVars, consVars
    <2>2. H' = H /\ T' = T /\ Occupancy' = Occupancy
      BY <2>1 DEF H, T, Occupancy
    <2>3. TypeOK' /\ CountersInv' /\ LocalsInv' /\ SlotsInv' /\ OrderInv' /\ DropInv'
      BY <2>1, <2>2
         DEF IInv, TypeOK, CountersInv, LocalsInv, SlotsInv, OrderInv, DropInv
    <2>4. CheckThenAct'
      BY <2>1 DEF IInv, CheckThenAct, FullAt, EmptyAt
    <2> QED
      BY <2>3, <2>4 DEF IInv
  <1>8. CASE PushWrite
    BY <1>8, PushWriteIInv
  <1>9. CASE PushStore
    BY <1>9, PushStoreIInv
  <1>10. CASE PopRead
    BY <1>10, PopReadIInv
  <1>11. CASE PopStore
    BY <1>11, PopStoreIInv
  <1>12. CASE Drop
    BY <1>12, DropIInv
  <1> QED
    BY <1>1, <1>2, <1>3, <1>4, <1>5, <1>6, <1>7, <1>8, <1>9, <1>10, <1>11, <1>12
       DEF Next, ProducerStep, PopStep, Dropped

(***************************************************************************)
(* The inductive invariant holds: type correctness, where the visible      *)
(* stores to head and tail lie, and what push_inner and pop_inner rely on. *)
(***************************************************************************)
THEOREM QueueInvariant ==
    ASSUME CapDividesWord
    PROVE  Spec => []IInv
  <1>1. IInv /\ [Next]_vars => IInv'
    BY NextIInv
  <1> QED
    BY InitIInv, <1>1, PTL DEF Spec

(***************************************************************************)
(* Every state of push_inner, pop_inner, is_full, is_empty and drop is     *)
(* well typed.                                                             *)
(***************************************************************************)
THEOREM QueueTypeOK ==
    ASSUME CapDividesWord
    PROVE  Spec => []TypeOK
  <1>1. IInv => TypeOK
    BY DEF IInv
  <1> QED
    BY QueueInvariant, <1>1, PTL

(***************************************************************************)
(* The unsafe slot accesses of push_inner and pop_inner never race.        *)
(***************************************************************************)
THEOREM QueueRaceFree ==
    ASSUME CapDividesWord
    PROVE  Spec => []NoDataRace
  <1>1. IInv => NoDataRace
    <2> SUFFICES ASSUME IInv PROVE NoDataRace
      OBVIOUS
    <2>1. TypeOK /\ LocalsInv /\ OrderInv
      BY DEF IInv
    <2>2. /\ H \in Word /\ T \in Word /\ 1 \in DOMAIN head /\ 1 \in DOMAIN tail
          /\ head[1].val \in Word /\ tail[1].val \in Word
      BY <2>1, LogWords
    <2>3. WrappingSub(head[1].val, T) \in Nat /\ WrappingSub(H, tail[1].val) \in Nat
      BY <2>2, SubRange
    <2>4. ASSUME ppc = "write" PROVE Index(phead) \in pHB
      <3>1. 0 \in 0..(CAP - WrappingSub(H, tail[1].val) - 1) /\ phead = H
        BY <2>1, <2>2, <2>3, <2>4, CapAssumption DEF LocalsInv
      <3> QED
        BY <2>1, <2>2, <3>1, AddZero DEF OrderInv
    <2>5. ASSUME cpc = "read" PROVE Index(ctail) \in cHB
      <3>1. 0 \in 0..(WrappingSub(head[1].val, T) - 1) /\ ctail = T
        BY <2>1, <2>2, <2>3, <2>5 DEF LocalsInv
      <3> QED
        BY <2>1, <2>2, <3>1, AddZero DEF OrderInv
    <2> QED
      BY <2>4, <2>5 DEF NoDataRace
  <1> QED
    BY QueueInvariant, <1>1, PTL

(***************************************************************************)
(* push_inner writes no slot that still holds an item, and pop_inner's     *)
(* assume_init_read reads only initialised slots.                          *)
(***************************************************************************)
THEOREM QueueSlotsSafe ==
    ASSUME CapDividesWord
    PROVE  Spec => [](NoOverwrite /\ ReadsInitialised)
  <1>1. IInv => NoOverwrite /\ ReadsInitialised
    <2> SUFFICES ASSUME IInv PROVE NoOverwrite /\ ReadsInitialised
      OBVIOUS
    <2>1. TypeOK /\ CountersInv /\ LocalsInv /\ SlotsInv
      BY DEF IInv
    <2>2. /\ H \in Word /\ T \in Word /\ 1 \in DOMAIN head /\ head[1].val \in Word
          /\ Len(tail) \in DOMAIN tail /\ T = tail[Len(tail)].val
      BY <2>1, LogWords DEF T, Newest
    <2>3. Occupancy \in 0..(WORD - 1) /\ Occupancy = WrappingSub(H, T)
      BY <2>2, SubRange DEF Occupancy
    <2>4. ASSUME ppc = "write", NEW k \in 0..(Occupancy - 1)
          PROVE  Index(WrappingAdd(T, k)) # Index(phead)
      <3>1. phead = H /\ Occupancy < CAP
        BY <2>1, <2>2, <2>3, <2>4 DEF LocalsInv
      <3>2. k \in 0..WORD /\ Occupancy \in 0..WORD /\ k < Occupancy /\ Occupancy - k < CAP
        BY <2>3, <3>1, CapAssumption
      <3>3. WrappingAdd(T, Occupancy + 0) = WrappingAdd(H, 0)
        BY <2>2, <2>3, AddSub, CapAssumption
      <3>4. WrappingAdd(T, Occupancy) = H
        BY <2>2, <2>3, <3>3, AddZero
      <3>5. Index(WrappingAdd(T, k)) # Index(WrappingAdd(T, Occupancy))
        BY <2>2, <3>2, IndexDistinct
      <3> QED
        BY <3>1, <3>4, <3>5
    <2>5. ASSUME cpc = "read" PROVE buffer[Index(ctail)] # Uninit
      <3>1. WrappingSub(head[1].val, T) \in Nat /\ ctail = T /\ WrappingSub(head[1].val, T) > 0
        BY <2>1, <2>2, <2>5, SubRange DEF LocalsInv
      <3>2. Occupancy > 0
        BY <2>1, <2>2, <2>3, <3>1 DEF CountersInv
      <3>3. 0 \in 0..(Occupancy - 1) /\ WrappingAdd(T, 0) = T
        BY <2>2, <2>3, <3>2, AddZero
      <3> QED
        BY <2>1, <3>1, <3>3, UninitAssumption DEF SlotsInv
    <2> QED
      BY <2>4, <2>5 DEF NoOverwrite, ReadsInitialised
  <1> QED
    BY QueueInvariant, <1>1, PTL

(***************************************************************************)
(* is_full() = false lets the next push through and is_empty() = false the *)
(* next pop, whatever the other side does in between.                      *)
(***************************************************************************)
THEOREM QueueCheckThenAct ==
    ASSUME CapDividesWord
    PROVE  Spec => []CheckThenAct
  <1>1. IInv => CheckThenAct
    BY DEF IInv
  <1> QED
    BY QueueInvariant, <1>1, PTL

(***************************************************************************)
(* When Drop returns, every element that was pushed has been popped or     *)
(* dropped: no slot still holds one.                                       *)
(***************************************************************************)
THEOREM QueueDropDrains ==
    ASSUME CapDividesWord
    PROVE  Spec => []DropDrains
  <1>1. IInv => DropDrains
    BY DEF IInv, DropInv, DropDrains
  <1> QED
    BY QueueInvariant, <1>1, PTL

-----------------------------------------------------------------------------
(* The queue implements BoundedFifo.                                       *)

\* The distances behind the refinement mapping.
LEMMA LagRange ==
    ASSUME IInv
    PROVE  /\ Occupancy \in 0..CAP /\ Occupancy = WrappingSub(H, T)
           /\ H \in Word /\ T \in Word
           /\ \A i \in DOMAIN tail :
                /\ tail[i].val \in Word
                /\ WrappingSub(H, tail[i].val) \in 0..CAP
                /\ WrappingSub(T, tail[i].val) = WrappingSub(H, tail[i].val) - Occupancy
                /\ WrappingSub(T, tail[i].val) \in 0..Freed
           /\ \A j \in DOMAIN head :
                /\ head[j].val \in Word
                /\ WrappingSub(head[j].val, T) \in 0..CAP
                /\ WrappingSub(H, head[j].val) = Occupancy - WrappingSub(head[j].val, T)
                /\ WrappingSub(H, head[j].val) \in 0..Fresh
           /\ 1 \in DOMAIN head /\ 1 \in DOMAIN tail
           /\ Freed \in Nat /\ Fresh \in Nat
  <1>1. TypeOK /\ CountersInv
    BY DEF IInv
  <1>2. /\ H \in Word /\ T \in Word /\ 1 \in DOMAIN head /\ 1 \in DOMAIN tail
        /\ \A j \in DOMAIN head : head[j].val \in Word
        /\ \A i \in DOMAIN tail : tail[i].val \in Word
        /\ DOMAIN head \subseteq Nat \ {0} /\ DOMAIN tail \subseteq Nat \ {0}
    BY <1>1, LogWords DEF TypeOK
  <1>3. Occupancy \in 0..CAP /\ Occupancy = WrappingSub(H, T)
    BY <1>1, <1>2, SubRange, CapAssumption DEF Occupancy, CountersInv
  <1>4. \A i \in DOMAIN tail :
          /\ WrappingSub(H, tail[i].val) \in 0..CAP
          /\ WrappingSub(T, tail[i].val) = WrappingSub(H, tail[i].val) - Occupancy
    BY <1>1, <1>2, <1>3, SubRange, SubChain, CapAssumption DEF CountersInv
  <1>5. \A j \in DOMAIN head :
          /\ WrappingSub(head[j].val, T) \in 0..CAP
          /\ WrappingSub(H, head[j].val) = Occupancy - WrappingSub(head[j].val, T)
    BY <1>1, <1>2, <1>3, SubRange, SubChainFwd, CapAssumption DEF CountersInv
  <1>6. \A i \in DOMAIN tail : WrappingSub(T, tail[i].val) \in 0..Freed
    <2>1. \A i \in DOMAIN tail : /\ WrappingSub(H, tail[i].val) <= WrappingSub(H, tail[1].val)
                                 /\ Occupancy <= WrappingSub(H, tail[i].val)
      BY <1>1, <1>2 DEF CountersInv
    <2> QED
      BY <1>2, <1>3, <1>4, <2>1, CapAssumption DEF Freed
  <1>7. \A j \in DOMAIN head : WrappingSub(H, head[j].val) \in 0..Fresh
    <2>1. \A j \in DOMAIN head : /\ WrappingSub(head[1].val, T) <= WrappingSub(head[j].val, T)
                                 /\ WrappingSub(head[j].val, T) <= Occupancy
      BY <1>1, <1>2 DEF CountersInv
    <2> QED
      BY <1>2, <1>3, <1>5, <2>1, CapAssumption DEF Fresh
  <1> QED
    BY <1>2, <1>3, <1>4, <1>5, <1>6, <1>7, SubRange DEF Freed, Fresh

LEMMA InitFifo == Init => Fifo!FifoInit(Uninit)
  <1> SUFFICES ASSUME Init PROVE Fifo!FifoInit(Uninit)
    OBVIOUS
  <1>1. Occupancy = 0 /\ Freed = 0 /\ Fresh = 0
    BY CapAssumption DEF Init, H, T, Newest, Occupancy, Freed, Fresh, WrappingSub
  <1>2. Contents = <<>>
    BY <1>1 DEF Contents
  <1> QED
    BY <1>1, <1>2 DEF Init, Fifo!FifoInit

\* The producer's loads only let it notice freed room.
LEMMA ProducerLoadsFifo ==
    ASSUME IInv, NEW i \in DOMAIN tail, ProducerLoads(i)
    PROVE  [Fifo!FifoNext]_(Fifo!fifoVars)
  <1>1. H' = H /\ T' = T /\ Occupancy' = Occupancy
    BY ProducerLoadsIInv
  <1>2. head' = head /\ buffer' = buffer /\ out' = out /\ tail'[1] = tail[i]
    BY LoadFromLog DEF ProducerLoads, IInv, TypeOK, consVars
  <1>3. Contents' = Contents /\ Fresh' = Fresh
    BY <1>1, <1>2 DEF Contents, Fresh
  <1>4. Freed' \in 0..Freed /\ Freed \in Nat
    BY <1>1, <1>2, LagRange DEF Freed
  <1> QED
    BY <1>2, <1>3, <1>4 DEF Fifo!FifoNext, Fifo!NoticeFreed, Fifo!fifoVars

\* The consumer's loads only let it notice fresh items.
LEMMA ConsumerLoadsFifo ==
    ASSUME IInv, NEW j \in DOMAIN head, ConsumerLoads(j), out' = out
    PROVE  [Fifo!FifoNext]_(Fifo!fifoVars)
  <1>1. H' = H /\ T' = T /\ Occupancy' = Occupancy
    BY ConsumerLoadsIInv
  <1>2. tail' = tail /\ buffer' = buffer /\ head'[1] = head[j]
    BY LoadFromLog DEF ConsumerLoads, IInv, TypeOK
  <1>3. Contents' = Contents /\ Freed' = Freed
    BY <1>1, <1>2 DEF Contents, Freed
  <1>4. Fresh' \in 0..Fresh /\ Fresh \in Nat
    BY <1>1, <1>2, LagRange DEF Fresh
  <1> QED
    BY <1>2, <1>3, <1>4 DEF Fifo!FifoNext, Fifo!NoticeFresh, Fifo!fifoVars

\* Writing the free slot at H is invisible.
LEMMA PushWriteFifo ==
    ASSUME CapDividesWord, IInv, PushWrite
    PROVE  UNCHANGED Fifo!fifoVars
  <1> DEFINE s == Index(H)
  <1>1. TypeOK /\ LocalsInv
    BY DEF IInv
  <1>2. /\ ppc = "write" /\ phead = H /\ tail' = tail /\ out' = out
        /\ buffer' = [buffer EXCEPT ![s] = pitem]
        /\ head' = Unordered(head, s)
    BY <1>1 DEF PushWrite, LocalsInv, consVars
  <1>3. s \in Slots /\ H \in Word /\ T \in Word
    BY <1>1, LogWords, IndexRange
  <1>4. Newest(head') = Newest(head) /\ head'[1].val = head[1].val
    <2>1. 1 \in DOMAIN head
      BY LagRange
    <2> QED
      BY <1>1, <1>2, <1>3, <2>1, UnorderedLog DEF TypeOK
  <1>5. H' = H /\ T' = T /\ Occupancy' = Occupancy /\ Freed' = Freed /\ Fresh' = Fresh
    BY <1>2, <1>4 DEF H, T, Occupancy, Freed, Fresh
  <1>6. ASSUME NEW k \in 1..Occupancy
        PROVE  buffer'[Index(WrappingAdd(T, k - 1))] = buffer[Index(WrappingAdd(T, k - 1))]
    <2>1. Occupancy \in 0..(CAP - 1) /\ Occupancy = WrappingSub(H, T)
      <3>1. Len(tail) \in DOMAIN tail /\ T = tail[Len(tail)].val
        BY <1>1, LogWords DEF T, Newest
      <3> QED
        BY <1>1, <1>2, <3>1, LagRange, CapAssumption DEF LocalsInv
    <2>2. /\ k - 1 \in 0..WORD /\ Occupancy \in 0..WORD
          /\ k - 1 < Occupancy /\ Occupancy - (k - 1) < CAP
      <3>1. k <= Occupancy /\ k >= 1
        BY <2>1
      <3> QED
        BY <2>1, <3>1, CapAssumption
    <2>3. WrappingAdd(T, Occupancy + 0) = WrappingAdd(H, 0)
      BY <1>3, <2>1, AddSub, CapAssumption
    <2>4. WrappingAdd(T, Occupancy) = H
      BY <1>3, <2>1, <2>3, AddZero
    <2>5. Index(WrappingAdd(T, k - 1)) # s
      BY <1>3, <2>2, <2>4, IndexDistinct
    <2>6. Index(WrappingAdd(T, k - 1)) \in Slots
      BY <1>3, <2>2, AddRange, IndexRange
    <2> QED
      BY <1>1, <1>2, <2>5, <2>6 DEF TypeOK
  <1>7. Contents' = Contents
    BY <1>5, <1>6 DEF Contents
  <1> QED
    BY <1>2, <1>5, <1>7 DEF Fifo!fifoVars

\* Sequences of one length with the same elements are equal.
LEMMA SeqExt ==
    ASSUME NEW S, NEW s \in Seq(S), NEW t \in Seq(S), Len(s) = Len(t),
           \A k \in 1..Len(s) : s[k] = t[k]
    PROVE  s = t
  <1>1. s = [k \in 1..Len(s) |-> s[k]] /\ t = [k \in 1..Len(t) |-> t[k]]
    OBVIOUS
  <1> QED BY <1>1

\* What an appended sequence looks like, element by element.
LEMMA IsAppend ==
    ASSUME NEW S, NEW s \in Seq(S), NEW t \in Seq(S), NEW x \in S,
           Len(t) = Len(s) + 1, \A k \in 1..Len(s) : t[k] = s[k],
           t[Len(s) + 1] = x
    PROVE  t = Append(s, x)
  <1> DEFINE u == Append(s, x)
  <1>1. u \in Seq(S) /\ Len(u) = Len(s) + 1 /\ u[Len(s) + 1] = x
        /\ \A k \in 1..Len(s) : u[k] = s[k]
    OBVIOUS
  <1> HIDE DEF u
  <1>2. \A k \in 1..Len(t) : t[k] = u[k]
    <2> TAKE k \in 1..Len(t)
    <2>1. k \in 1..Len(s) \/ k = Len(s) + 1 
      OBVIOUS
    <2> QED BY <1>1, <2>1
  <1>3. t = u
    BY <1>1, <1>2, SeqExt
  <1> QED BY <1>3 DEF u

\* What a tail looks like, element by element.
LEMMA IsTail ==
    ASSUME NEW S, NEW s \in Seq(S), NEW t \in Seq(S), s # <<>>,
           Len(t) = Len(s) - 1, \A k \in 1..Len(t) : t[k] = s[k + 1]
    PROVE  t = Tail(s)
  <1> DEFINE u == Tail(s)
  <1>1. u \in Seq(S) /\ Len(u) = Len(s) - 1
        /\ \A k \in 1..(Len(s) - 1) : u[k] = s[k + 1]
    OBVIOUS
  <1> HIDE DEF u
  <1>3. t = u
    BY <1>1, SeqExt
  <1> QED BY <1>3 DEF u

\* Publishing head + 1 is the abstract enqueue.
LEMMA PushStoreFifo ==
    ASSUME IInv, PushStore
    PROVE  pitem \in Items /\ Fifo!Enqueue(pitem)
  <1> DEFINE h == WrappingAdd(H, 1)
  <1>1. TypeOK /\ LocalsInv /\ SlotsInv
    BY DEF IInv
  <1>2. /\ ppc = "store" /\ tail' = tail /\ buffer' = buffer /\ out' = out
        /\ head' = StoreRelease(head, h)
        /\ pitem \in Items /\ buffer[Index(H)] = pitem
        /\ \A i \in DOMAIN tail : WrappingSub(H, tail[i].val) < CAP
    BY <1>1 DEF PushStore, LocalsInv, SlotsInv, consVars
  <1>3. H \in Word /\ T \in Word /\ h \in Word
    BY <1>1, LogWords, AddRange, CapAssumption
  <1>4. H' = h /\ head'[1] = head[1] /\ T' = T
    BY <1>1, <1>2, <1>3, StoreReleaseLog DEF TypeOK, H, T
  <1> HIDE DEF h
  <1>5. /\ Occupancy \in Nat /\ Occupancy + Freed < CAP
        /\ Occupancy = WrappingSub(H, T)
    BY <1>2, LagRange, CapAssumption DEF Freed
  <1>6. Occupancy' = Occupancy + 1
    <2>1. Occupancy < WORD - 1
      BY <1>5, LagRange, CapAssumption
    <2> QED
      BY <1>3, <1>4, <1>5, <2>1, SubSucc DEF Occupancy, h
  <1>7. Freed' = Freed
    BY <1>2, <1>4 DEF Freed
  <1>8. Fresh' = Fresh + 1
    <2>1. Fresh < WORD - 1 /\ head[1].val \in Word
      BY <1>5, LagRange, CapAssumption DEF Fresh
    <2> QED
      BY <1>3, <1>4, <2>1, SubSucc DEF Fresh, h
  <1>9. Contents \in Seq(Items) /\ Len(Contents) = Occupancy
    <2>1. \A k \in 1..Occupancy : k - 1 \in 0..(Occupancy - 1)
      BY <1>5
    <2>2. \A k \in 1..Occupancy : buffer[Index(WrappingAdd(T, k - 1))] \in Items
      BY <1>1, <2>1 DEF SlotsInv
    <2> QED
      BY <1>5, <2>2 DEF Contents
  <1>10. Contents' = [k \in 1..(Occupancy + 1) |-> buffer[Index(WrappingAdd(T, k - 1))]]
    BY <1>2, <1>4, <1>6 DEF Contents
  <1>11. buffer[Index(WrappingAdd(T, Occupancy + 1 - 1))] = pitem
    <2>1. WrappingAdd(T, Occupancy + 0) = WrappingAdd(H, 0)
      BY <1>3, <1>5, LagRange, AddSub, CapAssumption
    <2>2. WrappingAdd(T, Occupancy + 1 - 1) = H
      BY <1>3, <1>5, <2>1, AddZero
    <2> QED
      BY <1>2, <2>2
  <1>12. Contents' = Append(Contents, pitem)
    <2>1. \A k \in 1..Occupancy : Contents'[k] = Contents[k]
      <3> TAKE k \in 1..Occupancy
      <3>1. k \in 1..(Occupancy + 1)
        BY <1>5
      <3>2. Contents'[k] = buffer[Index(WrappingAdd(T, k - 1))]
        BY <1>10, <3>1
      <3>3. Contents[k] = buffer[Index(WrappingAdd(T, k - 1))]
        BY DEF Contents
      <3> QED
        BY <3>2, <3>3
    <2>2. Contents'[Occupancy + 1] = pitem
      BY <1>5, <1>10, <1>11
    <2>3. \A k \in 1..(Occupancy + 1) : Contents'[k] \in Items
      <3> TAKE k \in 1..(Occupancy + 1)
      <3>1. k \in 1..Occupancy \/ k = Occupancy + 1
        BY <1>5
      <3> QED
        BY <1>2, <1>9, <2>1, <2>2, <3>1
    <2>4. Contents' \in Seq(Items) /\ Len(Contents') = Occupancy + 1
      BY <1>5, <1>10, <2>3
    <2> QED
      BY <1>2, <1>9, <2>1, <2>2, <2>4, IsAppend
  <1> QED
    BY <1>2, <1>5, <1>7, <1>8, <1>9, <1>12 DEF Fifo!Enqueue

\* Reading the slot at T is invisible.
LEMMA PopReadFifo ==
    ASSUME IInv, PopRead
    PROVE  UNCHANGED Fifo!fifoVars
  <1>1. TypeOK /\ LocalsInv
    BY DEF IInv
  <1>2. /\ head' = head /\ buffer' = buffer /\ out' = out
        /\ ctail = T /\ tail' = Unordered(tail, Index(T))
    BY <1>1 DEF PopRead, LocalsInv
  <1>3. Newest(tail') = Newest(tail) /\ tail'[1].val = tail[1].val
    <2>1. Index(T) \in Slots /\ 1 \in DOMAIN tail
      BY LagRange, IndexRange
    <2> QED
      BY <1>1, <1>2, <2>1, UnorderedLog DEF TypeOK
  <1>4. H' = H /\ T' = T /\ Occupancy' = Occupancy /\ Freed' = Freed /\ Fresh' = Fresh
    BY <1>2, <1>3 DEF H, T, Occupancy, Freed, Fresh
  <1> QED
    BY <1>2, <1>4 DEF Fifo!fifoVars, Contents

\* Publishing tail + 1 is the abstract dequeue.
LEMMA PopStoreFifo ==
    ASSUME IInv, PopStore
    PROVE  Fifo!Dequeue
  <1> DEFINE t == WrappingAdd(T, 1)
  <1>1. TypeOK /\ LocalsInv /\ SlotsInv
    BY DEF IInv
  <1>2. /\ cpc = "store" /\ head' = head /\ buffer' = buffer /\ out' = citem
        /\ tail' = StoreRelease(tail, t)
        /\ citem = buffer[Index(T)]
        /\ \A j \in DOMAIN head : WrappingSub(head[j].val, T) > 0
    BY <1>1 DEF PopStore, LocalsInv, SlotsInv
  <1>3. H \in Word /\ T \in Word /\ t \in Word
    BY <1>1, LogWords, AddRange, CapAssumption
  <1>4. T' = t /\ tail'[1] = tail[1] /\ H' = H
    BY <1>1, <1>2, <1>3, StoreReleaseLog DEF TypeOK, H, T
  <1> HIDE DEF t
  <1>5. /\ Occupancy \in Nat \ {0} /\ Fresh < Occupancy /\ Occupancy <= CAP
        /\ Occupancy = WrappingSub(H, T)
    BY <1>2, LagRange, CapAssumption DEF Fresh
  <1>6. Occupancy' = Occupancy - 1
    BY <1>3, <1>4, <1>5, SubPred DEF Occupancy, t
  <1>7. Fresh' = Fresh
    BY <1>2, <1>4 DEF Fresh
  <1>8. Freed' = Freed + 1
    <2>1. Freed < WORD - 1 /\ tail[1].val \in Word
      BY <1>5, LagRange, CapAssumption DEF Freed
    <2> QED
      BY <1>3, <1>4, <2>1, SubSucc DEF Freed, t
  <1>9. Contents \in Seq(Items) /\ Len(Contents) = Occupancy
    <2>1. \A k \in 1..Occupancy : k - 1 \in 0..(Occupancy - 1)
      BY <1>5
    <2>2. \A k \in 1..Occupancy : buffer[Index(WrappingAdd(T, k - 1))] \in Items
      BY <1>1, <2>1 DEF SlotsInv
    <2> QED
      BY <1>5, <2>2 DEF Contents
  <1>10. Head(Contents) = citem
    <2>1. 1 \in 1..Occupancy /\ 1 - 1 = 0
      BY <1>5
    <2>2. Contents[1] = buffer[Index(WrappingAdd(T, 0))]
      BY <2>1 DEF Contents
    <2> QED
      BY <1>2, <1>3, <1>9, <2>2, AddZero
  <1>11. ASSUME NEW k \in 1..(Occupancy - 1)
         PROVE  /\ k + 1 \in 1..Occupancy
                /\ buffer[Index(WrappingAdd(t, k - 1))] = Contents[k + 1]
    <2>1. /\ k \in 0..(WORD - 1) /\ k - 1 \in 0..(WORD - 1)
          /\ (k - 1) + 1 = k /\ (k + 1) - 1 = k /\ k + 1 \in 1..Occupancy
      BY <1>5, CapAssumption
    <2>2. WrappingAdd(t, k - 1) = WrappingAdd(T, (k - 1) + 1)
      BY <1>3, <2>1, AddSucc DEF t
    <2>3. Contents[k + 1] = buffer[Index(WrappingAdd(T, (k + 1) - 1))]
      BY <2>1 DEF Contents
    <2> QED
      BY <2>1, <2>2, <2>3
  <1>12. Contents' = [k \in 1..(Occupancy - 1) |-> buffer[Index(WrappingAdd(t, k - 1))]]
    BY <1>2, <1>4, <1>6 DEF Contents
  <1>13. Contents' = Tail(Contents)
    <2>1. \A k \in 1..(Occupancy - 1) :
            Contents'[k] = Contents[k + 1] /\ k + 1 \in 1..Occupancy
      BY <1>11, <1>12
    <2>2. \A k \in 1..(Occupancy - 1) : Contents'[k] \in Items
      BY <1>9, <2>1
    <2>3. Contents' \in Seq(Items) /\ Len(Contents') = Occupancy - 1
      BY <1>5, <1>12, <2>2
    <2>4. Contents # <<>>
      BY <1>5, <1>9
    <2> QED
      BY <1>9, <2>1, <2>3, <2>4, IsTail
  <1> QED
    BY <1>2, <1>5, <1>7, <1>8, <1>9, <1>10, <1>13 DEF Fifo!Dequeue

\* The exclusive borrow of drop lets both sides notice everything.
LEMMA DropFifo ==
    ASSUME IInv, Drop
    PROVE  Fifo!NoticeAll
  <1>1. /\ head \in Seq(Store) /\ tail \in Seq(Store)
        /\ Len(head) \in DOMAIN head /\ Len(tail) \in DOMAIN tail
    BY LogWords DEF IInv, TypeOK
  <1>2. /\ head'[1] = head[Len(head)] /\ Newest(head') = Newest(head)
        /\ tail'[1] = tail[Len(tail)] /\ Newest(tail') = Newest(tail)
    BY <1>1, LoadFromLog DEF Drop
  <1>3. /\ H' = H /\ T' = T /\ Occupancy' = Occupancy
        /\ head'[1].val = H /\ tail'[1].val = T /\ buffer' = buffer /\ out' = out
    BY <1>2 DEF H, T, Occupancy, Newest, Drop, consVars
  <1>4. Freed' = 0 /\ Fresh' = 0
    BY <1>3, LagRange, SubRange DEF Freed, Fresh
  <1> QED
    BY <1>3, <1>4 DEF Fifo!NoticeAll, Contents

LEMMA NextFifo ==
    ASSUME CapDividesWord, IInv, [Next]_vars
    PROVE  [Fifo!FifoNext]_(Fifo!fifoVars)
  <1>1. ASSUME NEW i \in DOMAIN tail,
               PushFull(i) \/ IsFull(i) \/ \E item \in Items : PushLoad(i, item)
        PROVE  [Fifo!FifoNext]_(Fifo!fifoVars)
    BY <1>1, ProducerLoadsFifo DEF PushFull, IsFull, PushLoad
  <1>2. ASSUME NEW j \in DOMAIN head, PopEmpty(j) \/ PopLoad(j) \/ IsEmpty(j)
        PROVE  [Fifo!FifoNext]_(Fifo!fifoVars)
    BY <1>2, ConsumerLoadsFifo DEF PopEmpty, PopLoad, IsEmpty
  <1>3. CASE PushWrite
    BY <1>3, PushWriteFifo
  <1>4. CASE PushStore
    BY <1>4, PushStoreFifo DEF Fifo!FifoNext
  <1>5. CASE PopRead
    BY <1>5, PopReadFifo
  <1>6. CASE PopStore
    BY <1>6, PopStoreFifo DEF Fifo!FifoNext
  <1>7. CASE Drop
    BY <1>7, DropFifo DEF Fifo!FifoNext
  <1>8. CASE UNCHANGED vars
    BY <1>8 DEF vars, memVars, consVars, Fifo!fifoVars,
                Contents, Freed, Fresh, Occupancy, H, T
  <1> QED
    BY <1>1, <1>2, <1>3, <1>4, <1>5, <1>6, <1>7, <1>8
       DEF Next, ProducerStep, PopStep, Dropped

(***************************************************************************)
(* The ring buffer implements the bounded FIFO: every item pushed is       *)
(* popped exactly once and in order, and at most CAP are inside, for every *)
(* interleaving, every choice of stale loads and any number of wraps.      *)
(***************************************************************************)
THEOREM QueueImplementsFifo ==
    ASSUME CapDividesWord
    PROVE  Spec => FifoSafety
  <1>1. IInv /\ [Next]_vars => [Fifo!FifoNext]_(Fifo!fifoVars)
    BY NextFifo
  <1> QED
    BY QueueInvariant, InitFifo, <1>1, PTL DEF Spec, FifoSafety
=============================================================================
