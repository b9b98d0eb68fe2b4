-------------------------- MODULE ArithmeticProofs --------------------------
(***************************************************************************)
(* The theorems about the arithmetic of TensorChunk and of the disk        *)
(* formats: for every shape and width of a usize, every position and every *)
(* sector, where TLC checks the inputs up to a bound.                      *)
(***************************************************************************)
EXTENDS TensorChunk, DiskWalk, WellFoundedInduction, TLAPS

-----------------------------------------------------------------------------
(* Induction over the numbers a loop counts.                               *)

\* A nonempty set of naturals has a least element.
LEMMA Least ==
    ASSUME NEW S \in SUBSET Nat, S # {}
    PROVE  \E m \in S : \A k \in S : m <= k
<1> DEFINE R == OpToRel(<, Nat)
<1>1. IsWellFoundedOn(R, Nat) BY NatLessThanWellFounded
<1>2. R = {ss \in Nat \X Nat : ss[1] < ss[2]} BY DEF OpToRel
<1> HIDE DEF R
<1>3. PICK m \in S : \A k \in S : ~(<<k, m>> \in R) BY <1>1, WFMin
<1>4. ASSUME NEW k \in S PROVE m <= k
  <2>1. <<k, m>> \notin R BY <1>3
  <2> QED BY <1>2, <2>1
<1> QED BY <1>4

\* Induction, on the set of the numbers a predicate holds of.
LEMMA Induct ==
    ASSUME NEW S, 0 \in S, \A j \in Nat : j \in S => j + 1 \in S
    PROVE  Nat \subseteq S
<1> DEFINE Out == {j \in Nat : j \notin S}
<1> SUFFICES ASSUME Out # {} PROVE FALSE OBVIOUS
<1>1. PICK m \in Out : \A k \in Out : m <= k BY Least
<1>2. m # 0 BY DEF Out
<1>3. m - 1 \in Nat /\ m - 1 \in S BY <1>1, <1>2
<1> QED BY <1>3

-----------------------------------------------------------------------------
(* The loop of total_elements.                                             *)

Products(dims, m, f) == f = [k \in 0..m |-> IF k = 0 THEN 1 ELSE f[k - 1] * dims[k]]
Totals(dims, m, f) == f = [k \in 0..m |-> IF k = 0 THEN 1 ELSE saturating_mul(f[k - 1], dims[k])]

LEMMA ProductExists ==
    ASSUME NEW dims, NEW m \in Nat
    PROVE  \E f : Products(dims, m, f) /\ Product(dims, m) = f[m]
<1> DEFINE S == {j \in Nat : \E f : Products(dims, j, f)}
<1>1. 0 \in S
  <2> DEFINE f == [k \in 0..0 |-> 1]
  <2>1. f = [k \in 0..0 |-> IF k = 0 THEN 1 ELSE f[k - 1] * dims[k]] OBVIOUS
  <2> HIDE DEF f
  <2> QED BY <2>1 DEF Products
<1>2. ASSUME NEW j \in Nat, j \in S PROVE j + 1 \in S
  <2>1. PICK f : Products(dims, j, f) BY <1>2
  <2> DEFINE g == [k \in 0..(j + 1) |-> IF k = j + 1 THEN f[j] * dims[j + 1] ELSE f[k]]
  <2>2. g = [k \in 0..(j + 1) |-> IF k = 0 THEN 1 ELSE g[k - 1] * dims[k]]
    <3> SUFFICES ASSUME NEW k \in 0..(j + 1) PROVE g[k] = IF k = 0 THEN 1 ELSE g[k - 1] * dims[k]
      OBVIOUS
    <3>1. CASE k = j + 1
      <4>1. g[k - 1] = f[j] BY <3>1
      <4> QED BY <3>1, <4>1
    <3>2. CASE k # j + 1
      <4>1. k \in 0..j /\ g[k] = f[k] BY <3>2
      <4>2. f[k] = IF k = 0 THEN 1 ELSE f[k - 1] * dims[k] BY <2>1, <4>1 DEF Products
      <4>3. k # 0 => g[k - 1] = f[k - 1] BY <4>1
      <4> QED BY <4>1, <4>2, <4>3
    <3> QED BY <3>1, <3>2
  <2> HIDE DEF g
  <2> QED BY <2>2 DEF Products
<1> HIDE DEF S
<1>3. m \in S BY <1>1, <1>2, Induct
<1> DEFINE h == CHOOSE f : Products(dims, m, f)
<1>4. Products(dims, m, h) BY <1>3 DEF S
<1>5. Product(dims, m) = h[m] BY DEF Product, Products
<1> QED BY <1>4, <1>5

LEMMA TotalExists ==
    ASSUME NEW shape, shape.rank \in Nat
    PROVE  \E f : Totals(shape.dims, shape.rank, f) /\ total_elements(shape) = f[shape.rank]
<1> DEFINE dims == shape.dims
           m == shape.rank
           S == {j \in Nat : \E f : Totals(dims, j, f)}
<1>1. 0 \in S
  <2> DEFINE f == [k \in 0..0 |-> 1]
  <2>1. f = [k \in 0..0 |-> IF k = 0 THEN 1 ELSE saturating_mul(f[k - 1], dims[k])] OBVIOUS
  <2> HIDE DEF f
  <2> QED BY <2>1 DEF Totals
<1>2. ASSUME NEW j \in Nat, j \in S PROVE j + 1 \in S
  <2>1. PICK f : Totals(dims, j, f) BY <1>2
  <2> DEFINE g == [k \in 0..(j + 1) |-> IF k = j + 1 THEN saturating_mul(f[j], dims[j + 1]) ELSE f[k]]
  <2>2. g = [k \in 0..(j + 1) |-> IF k = 0 THEN 1 ELSE saturating_mul(g[k - 1], dims[k])]
    <3> SUFFICES ASSUME NEW k \in 0..(j + 1)
                 PROVE  g[k] = IF k = 0 THEN 1 ELSE saturating_mul(g[k - 1], dims[k])
      OBVIOUS
    <3>1. CASE k = j + 1
      <4>1. g[k - 1] = f[j] BY <3>1
      <4> QED BY <3>1, <4>1
    <3>2. CASE k # j + 1
      <4>1. k \in 0..j /\ g[k] = f[k] BY <3>2
      <4>2. f[k] = IF k = 0 THEN 1 ELSE saturating_mul(f[k - 1], dims[k]) BY <2>1, <4>1 DEF Totals
      <4>3. k # 0 => g[k - 1] = f[k - 1] BY <4>1
      <4> QED BY <4>1, <4>2, <4>3
    <3> QED BY <3>1, <3>2
  <2> HIDE DEF g
  <2> QED BY <2>2 DEF Totals
<1> DEFINE h == CHOOSE f : Totals(dims, m, f)
<1>3. total_elements(shape) = h[m] BY DEF total_elements, UsedDims, Totals
<1> HIDE DEF S, m
<1>4. m \in S BY <1>1, <1>2, Induct DEF m
<1>5. Totals(dims, m, h) BY <1>4 DEF S
<1> QED BY <1>3, <1>5 DEF m

\* One multiplication: exact below WORD, zero for a zero factor.
LEMMA MulStep ==
    ASSUME NEW p \in Nat, NEW t \in Nat, NEW d \in Nat, p = 0 => t = 0, p # 0 /\ p < WORD => t = p
    PROVE  /\ p * d \in Nat /\ saturating_mul(t, d) \in Nat
           /\ p * d = 0 => saturating_mul(t, d) = 0
           /\ p * d # 0 /\ p * d < WORD => saturating_mul(t, d) = p * d
<1>0. WORD \in Nat /\ WORD # 0 BY ShapesAssumption
<1>1. p * d \in Nat /\ t * d \in Nat OBVIOUS
<1>2. CASE d = 0 \/ t = 0
  <2>1. t * d = 0 BY <1>2
  <2>2. saturating_mul(t, d) = 0 BY <1>0, <2>1 DEF saturating_mul
  <2>3. CASE d = 0
    <3>1. p * d = 0 BY <2>3
    <3> QED BY <1>1, <2>2, <3>1
  <2>4. CASE t = 0 /\ d # 0
    <3>1. p = 0 \/ p >= WORD BY <1>0, <2>4
    <3>2. p >= WORD => p * d >= WORD
      <4>1. d >= 1 BY <2>4
      <4>2. p * d >= p BY <4>1
      <4> QED BY <1>0, <1>1, <4>2
    <3> QED BY <1>0, <1>1, <2>2, <3>1, <3>2
  <2> QED BY <1>2, <2>3, <2>4
<1>3. CASE d # 0 /\ t # 0
  <2>1. p # 0 BY <1>3
  <2>2. p * d >= p /\ p * d # 0
    <3>1. d >= 1 /\ p >= 1 BY <1>3, <2>1
    <3>2. p * d >= p BY <3>1
    <3> QED BY <1>1, <3>1, <3>2
  <2>3. p * d < WORD => t = p BY <1>0, <1>1, <2>1, <2>2
  <2>4. p * d < WORD => saturating_mul(t, d) = p * d BY <1>0, <1>1, <2>3 DEF saturating_mul
  <2>5. saturating_mul(t, d) \in Nat BY <1>0, <1>1 DEF saturating_mul
  <2> QED BY <1>1, <2>2, <2>4, <2>5
<1> QED BY <1>2, <1>3

\* The saturated product is the product whenever that fits, also when a zero
\* comes after a prefix that saturated.
LEMMA TotalIsProduct ==
    ASSUME NEW shape, shape.rank \in Nat, \A k \in 1..shape.rank : shape.dims[k] \in Nat
    PROVE  /\ Product(shape.dims, shape.rank) \in Nat /\ total_elements(shape) \in Nat
           /\ Product(shape.dims, shape.rank) < WORD => total_elements(shape) = Product(shape.dims, shape.rank)
<1> DEFINE dims == shape.dims
           m == shape.rank
<1>1. PICK p : Products(dims, m, p) /\ Product(dims, m) = p[m] BY ProductExists
<1>2. PICK t : Totals(dims, m, t) /\ total_elements(shape) = t[m] BY TotalExists
<1>3. m \in Nat /\ \A k \in 1..m : dims[k] \in Nat OBVIOUS
<1> DEFINE Exact(k) == p[k] \in Nat /\ t[k] \in Nat /\ (p[k] = 0 => t[k] = 0) /\ (p[k] # 0 /\ p[k] < WORD => t[k] = p[k])
           S == {k \in Nat : k <= m => Exact(k)}
<1> HIDE DEF dims, m
<1>4. 0 \in S
  <2>1. p[0] = 1 /\ t[0] = 1 BY <1>1, <1>2, <1>3 DEF Products, Totals
  <2> QED BY <2>1
<1>5. ASSUME NEW k \in Nat, k \in S PROVE k + 1 \in S
  <2> SUFFICES ASSUME k + 1 <= m PROVE Exact(k + 1) OBVIOUS
  <2>1. Exact(k) BY <1>3, <1>5
  <2>2. k + 1 \in 0..m /\ k + 1 # 0 /\ (k + 1) - 1 = k /\ k + 1 \in 1..m BY <1>3
  <2>3. p[k + 1] = p[k] * dims[k + 1] BY <1>1, <2>2 DEF Products
  <2>4. t[k + 1] = saturating_mul(t[k], dims[k + 1]) BY <1>2, <2>2 DEF Totals
  <2>5. dims[k + 1] \in Nat BY <1>3, <2>2
  <2> DEFINE a == p[k]
             b == t[k]
             d == dims[k + 1]
  <2>6. a \in Nat /\ b \in Nat /\ d \in Nat /\ (a = 0 => b = 0) /\ (a # 0 /\ a < WORD => b = a) BY <2>1, <2>5
  <2> HIDE DEF a, b, d
  <2>7. /\ a * d \in Nat /\ saturating_mul(b, d) \in Nat
        /\ a * d = 0 => saturating_mul(b, d) = 0
        /\ a * d # 0 /\ a * d < WORD => saturating_mul(b, d) = a * d
    BY <2>6, MulStep
  <2>8. p[k + 1] = a * d /\ t[k + 1] = saturating_mul(b, d) BY <2>3, <2>4 DEF a, b, d
  <2> QED BY <2>7, <2>8
<1> HIDE DEF S
<1>6. m \in S BY <1>3, <1>4, <1>5, Induct
<1>7. Exact(m) BY <1>3, <1>6 DEF S
<1> HIDE DEF Exact
<1>8. p[m] \in Nat /\ t[m] \in Nat /\ (p[m] < WORD => t[m] = p[m]) BY <1>7 DEF Exact
<1> QED BY <1>1, <1>2, <1>8 DEF dims, m

-----------------------------------------------------------------------------
(* TensorChunk.                                                            *)

SliceInv ==
    /\ slice_len \in Int
    /\ state # "none" =>
         /\ chunk.dtype \in DTypes /\ chunk.shape \in Shapes
         /\ chunk.byte_len = (total_elements(chunk.shape) * size_in_bytes(chunk.dtype)) % WORD
    /\ slice_len >= 0 => state # "none" /\ slice_len = chunk.byte_len \div size_in_bytes(chunk.dtype)

LEMMA SizeNat == ASSUME NEW d PROVE size_in_bytes(d) \in {1, 2, 4}
BY DEF size_in_bytes

\* A length below WORD is not changed by the remainder, and divides back.
LEMMA BytesBack ==
    ASSUME NEW e \in Nat, NEW size \in {1, 2, 4}, e * size < WORD
    PROVE  ((e * size) % WORD) \div size = e
<1>1. WORD \in Nat /\ WORD # 0 BY ShapesAssumption
<1>2. e * size \in Nat OBVIOUS
<1>3. (e * size) % WORD = e * size BY <1>1, <1>2
<1>4. (e * size) \div size = e
  <2>1. CASE size = 1 BY <2>1
  <2>2. CASE size = 2 BY <2>2
  <2>3. CASE size = 4 BY <2>3
  <2> QED BY <2>1, <2>2, <2>3
<1> QED BY <1>3, <1>4

LEMMA SliceWhole == ASSUME SliceInv PROVE SliceIsWhole
<1> SUFFICES ASSUME slice_len >= 0, Elements * size_in_bytes(chunk.dtype) < WORD PROVE slice_len = Elements
  BY DEF SliceIsWhole, Sliced
<1> DEFINE size == size_in_bytes(chunk.dtype)
           total == total_elements(chunk.shape)
           e == Elements
<1>1. size \in {1, 2, 4} BY SizeNat
<1>2. WORD \in Nat /\ WORD # 0 BY ShapesAssumption
<1>3. chunk.shape \in Shapes /\ slice_len = ((total * size) % WORD) \div size BY DEF SliceInv
<1>4. /\ e \in Nat /\ total \in Nat /\ (e < WORD => total = e)
  BY <1>3, ShapesAssumption, TotalIsProduct DEF Elements
<1>5. e * size < WORD OBVIOUS
<1> HIDE DEF size, total, e
<1>6. e <= e * size
  <2>1. CASE size = 1 BY <1>4, <2>1
  <2>2. CASE size = 2 BY <1>4, <2>2
  <2>3. CASE size = 4 BY <1>4, <2>3
  <2> QED BY <1>1, <2>1, <2>2, <2>3
<1>7. e * size \in Nat BY <1>1, <1>4
<1>8. total = e BY <1>2, <1>4, <1>5, <1>6, <1>7
<1>9. slice_len = e BY <1>1, <1>3, <1>4, <1>5, <1>8, BytesBack
<1> QED BY <1>9 DEF e

\* SliceIsWhole holds for every shape, rank and width of a usize: a slice of a
\* tensor that fits in memory has exactly its elements, although
\* total_elements saturates and new may wrap.
THEOREM SliceTheorem == Spec => []SliceIsWhole
<1>1. Init => SliceInv BY DEF Init, SliceInv
<1>2. SliceInv /\ [Next]_vars => SliceInv'
  <2> SUFFICES ASSUME SliceInv, [Next]_vars PROVE SliceInv' OBVIOUS
  <2>1. ASSUME NEW shape \in Shapes, NEW dtype \in DTypes, NEW virt_ptr \in Pointers, New(shape, dtype, virt_ptr)
        PROVE  SliceInv'
    <3>1. slice_len' = slice_len /\ ~(slice_len >= 0) /\ slice_len \in Int BY <2>1 DEF New, SliceInv
    <3> DEFINE bytes == (total_elements(shape) * size_in_bytes(dtype)) % WORD
    <3>2. chunk' = [shape |-> shape, dtype |-> dtype, virt_ptr |-> virt_ptr, byte_len |-> bytes]
      BY <2>1 DEF New
    <3> HIDE DEF bytes
    <3>3. chunk'.dtype = dtype /\ chunk'.shape = shape /\ chunk'.byte_len = bytes BY <3>2
    <3>4. chunk'.byte_len = (total_elements(chunk'.shape) * size_in_bytes(chunk'.dtype)) % WORD
      BY <3>3 DEF bytes
    <3> QED BY <3>1, <3>3, <3>4 DEF SliceInv
  <2>2. CASE Freeze BY <2>2 DEF Freeze, SliceInv
  <2>3. ASSUME NEW size \in {1, 2, 4}, AsSlice(size) PROVE SliceInv'
    <3>1. CASE Checks(size)
      <4>1. slice_len' = chunk.byte_len \div size /\ UNCHANGED <<state, chunk>> BY <2>3, <3>1 DEF AsSlice
      <4>2. size = size_in_bytes(chunk.dtype) BY <3>1 DEF Checks
      <4>3. chunk.byte_len \in Int
        <5> DEFINE total == total_elements(chunk.shape)
                   bytes == total * size
        <5>1. chunk.shape \in Shapes /\ chunk.byte_len = bytes % WORD BY <2>3, <4>2 DEF SliceInv, AsSlice
        <5>2. total \in Nat BY <5>1, ShapesAssumption, TotalIsProduct
        <5> HIDE DEF total
        <5>3. bytes \in Int BY <5>2
        <5> HIDE DEF bytes
        <5> QED BY <5>1, <5>3, ShapesAssumption
      <4>4. slice_len' \in Int BY <4>1, <4>3
      <4> QED BY <2>3, <4>1, <4>2, <4>4 DEF SliceInv, AsSlice
    <3>2. CASE ~Checks(size) BY <2>3, <3>2 DEF AsSlice, SliceInv
    <3> QED BY <3>1, <3>2
  <2>4. CASE Deconstruct BY <2>4 DEF Deconstruct, SliceInv
  <2>5. CASE UNCHANGED vars BY <2>5 DEF vars, SliceInv
  <2> QED BY <2>1, <2>2, <2>3, <2>4, <2>5 DEF Next
<1> QED BY <1>1, <1>2, SliceWhole, PTL DEF Spec

-----------------------------------------------------------------------------
(* The disk formats.                                                       *)

\* CHS addresses name the sector of every LBA they can, and no other is
\* written as if they could (lba2chs).
THEOREM ChsExact ==
    \A lba \in Nat : IF lba <= LastChs THEN Decoded(lba2chs(lba)) = lba ELSE lba2chs(lba) = TooBig
<1> SUFFICES ASSUME NEW lba \in Nat
             PROVE  IF lba <= LastChs THEN Decoded(lba2chs(lba)) = lba ELSE lba2chs(lba) = TooBig
  OBVIOUS
<1> DEFINE c == lba \div 16065
           r == lba % 16065
           h == (lba \div 63) % 255
           x == lba % 63
<1>1. c \in Nat /\ r \in 0..16064 /\ lba = 16065 * c + r OBVIOUS
<1>2. x \in 0..62 /\ h \in 0..254 /\ r = 63 * h + x OBVIOUS
<1>3. LastChs = 16450559 BY DEF LastChs
<1>4. c >= 1024 <=> lba > 16450559 BY <1>1
<1>5. lba2chs(lba) = IF lba > 16450560 \/ c >= 1024 THEN TooBig ELSE <<h, Packed(c, x + 1), c % 256>>
  BY DEF lba2chs
<1>6. CASE lba > LastChs BY <1>3, <1>4, <1>5, <1>6
<1>7. CASE lba <= LastChs
  <2> DEFINE y == Packed(c, x + 1)
  <2>1. c < 1024 BY <1>1, <1>3, <1>4, <1>7
  <2>2. lba2chs(lba) = <<h, y, c % 256>> BY <1>3, <1>4, <1>5, <1>7
  <2> HIDE DEF c, r, h, x
  <2>3. y \div 64 = c \div 256 /\ y % 64 = x + 1 BY <1>1, <1>2, <2>1 DEF Packed
  <2>4. (c \div 256) * 256 + (c % 256) = c BY <1>1
  <2> HIDE DEF y
  <2>5. Decoded(<<h, y, c % 256>>) = ((((y \div 64) * 256 + (c % 256)) * 255) + h) * 63 + (y % 64) - 1 BY DEF Decoded
  <2>6. Decoded(<<h, y, c % 256>>) = ((c * 255) + h) * 63 + (x + 1) - 1 BY <2>3, <2>4, <2>5
  <2>7. ((c * 255) + h) * 63 + (x + 1) - 1 = lba BY <1>1, <1>2
  <2> QED BY <1>7, <2>2, <2>6, <2>7
<1> QED BY <1>3, <1>6, <1>7

\* The halves of every stage 2 the code can place hold all of it.
LEMMA HalvesCover ==
    ASSUME NEW size \in Nat, size <= 254 * 512
    PROVE  Covers(size, stage2_size_a(size), stage2_size_b(size))
<1> DEFINE q == stage2_sects(size)
           h == q \div 2
           o == q % 2
<1>1. q \in Nat /\ 512 * q >= size /\ 512 * q <= size + 511 /\ q <= 254
  BY DEF stage2_sects, DIV_ROUNDUP
<1>2. stage2_size_a(size) = (h * 512 + (IF o = 1 THEN 512 ELSE 0)) % 65536 BY DEF stage2_size_a
<1>3. stage2_size_b(size) = (h * 512) % 65536 BY DEF stage2_size_b
<1> HIDE DEF q
<1>4. h \in Nat /\ o \in {0, 1} /\ q = 2 * h + o /\ h <= 127 /\ h + o <= 127 BY <1>1
<1> HIDE DEF h, o
<1>5. stage2_size_a(size) = 512 * (h + o) BY <1>2, <1>4
<1>6. stage2_size_b(size) = 512 * h BY <1>3, <1>4
<1> DEFINE a == stage2_size_a(size)
           b == stage2_size_b(size)
<1>7. a = 512 * (h + o) /\ b = 512 * h BY <1>5, <1>6
<1> HIDE DEF a, b
<1>8. a + b >= size /\ a <= size + 511 /\ size - a <= b BY <1>1, <1>4, <1>7
<1>9. a % 512 = 0 /\ b % 512 = 0 BY <1>4, <1>7
<1> QED BY <1>8, <1>9 DEF a, b, Covers

Sums(s, f) == f = [k \in 0..Len(s) |-> IF k = 0 THEN 0 ELSE f[k - 1] + s[k]]

LEMMA SumExists ==
    ASSUME NEW s, Len(s) \in Nat
    PROVE  \E f : Sums(s, f) /\ SumOf(s) = f[Len(s)]
<1> DEFINE Upto(j, f) == f = [k \in 0..j |-> IF k = 0 THEN 0 ELSE f[k - 1] + s[k]]
           S == {j \in Nat : \E f : Upto(j, f)}
<1>1. 0 \in S
  <2> DEFINE f == [k \in 0..0 |-> 0]
  <2>1. f = [k \in 0..0 |-> IF k = 0 THEN 0 ELSE f[k - 1] + s[k]] OBVIOUS
  <2> HIDE DEF f
  <2> QED BY <2>1
<1>2. ASSUME NEW j \in Nat, j \in S PROVE j + 1 \in S
  <2>1. PICK f : Upto(j, f) BY <1>2
  <2> DEFINE g == [k \in 0..(j + 1) |-> IF k = j + 1 THEN f[j] + s[j + 1] ELSE f[k]]
  <2>2. g = [k \in 0..(j + 1) |-> IF k = 0 THEN 0 ELSE g[k - 1] + s[k]]
    <3> SUFFICES ASSUME NEW k \in 0..(j + 1) PROVE g[k] = IF k = 0 THEN 0 ELSE g[k - 1] + s[k]
      OBVIOUS
    <3>1. CASE k = j + 1
      <4>1. g[k - 1] = f[j] BY <3>1
      <4> QED BY <3>1, <4>1
    <3>2. CASE k # j + 1
      <4>1. k \in 0..j /\ g[k] = f[k] BY <3>2
      <4>2. f[k] = IF k = 0 THEN 0 ELSE f[k - 1] + s[k] BY <2>1, <4>1
      <4>3. k # 0 => g[k - 1] = f[k - 1] BY <4>1
      <4> QED BY <4>1, <4>2, <4>3
    <3> QED BY <3>1, <3>2
  <2> HIDE DEF g
  <2>3. Upto(j + 1, g) BY <2>2
  <2> QED BY <2>3
<1> DEFINE m == Len(s)
           h == CHOOSE f : Upto(m, f)
<1>3. SumOf(s) = h[m] BY DEF SumOf
<1> HIDE DEF S, m
<1>4. m \in S BY <1>1, <1>2, Induct DEF m
<1>5. Upto(m, h) BY <1>4 DEF S
<1> QED BY <1>3, <1>5 DEF m, Sums

\* A number is its quotient times the divisor and its remainder.
LEMMA Division ==
    ASSUME NEW a \in Nat, NEW b \in Nat \ {0}
    PROVE  a \div b \in Nat /\ a % b \in Nat /\ a % b < b /\ a = b * (a \div b) + (a % b)
OBVIOUS

\* set_pos reaches every position with offsets a long can hold.
LEMMA SeekExact ==
    ASSUME NEW pos \in Nat
    PROVE  /\ SumOf(Seeks(pos, LONG_MAX)) = pos
           /\ \A k \in DOMAIN Seeks(pos, LONG_MAX) : Seeks(pos, LONG_MAX)[k] <= LONG_MAX
<1> DEFINE jump == jump_size(LONG_MAX)
           q == pos \div jump
           rest == pos % jump
           s == Seeks(pos, LONG_MAX)
           jumps == [k \in 1..q |-> jump]
<1>1. jump \in Nat \ {0} /\ jump <= LONG_MAX /\ LONG_MAX \in Nat BY InputAssumption DEF jump_size
<1>2. s = Append(jumps, rest) BY DEF Seeks, SeekJumps
<1> HIDE DEF jump, s
<1>3. q \in Nat /\ rest \in Nat /\ rest < jump /\ pos = jump * q + rest BY <1>1, Division
<1> HIDE DEF q, rest
<1>4. jumps \in Seq(Nat) /\ Len(jumps) = q /\ \A k \in 1..q : jumps[k] = jump BY <1>1, <1>3
<1> HIDE DEF jumps
<1>5. Len(s) = q + 1 /\ DOMAIN s = 1..(q + 1) /\ s[q + 1] = rest /\ \A k \in 1..q : s[k] = jump
  BY <1>2, <1>3, <1>4
<1>6. \A k \in DOMAIN s : s[k] <= LONG_MAX BY <1>1, <1>3, <1>5
<1>7. PICK f : Sums(s, f) /\ SumOf(s) = f[Len(s)] BY <1>3, <1>5, SumExists
<1>8. f = [k \in 0..(q + 1) |-> IF k = 0 THEN 0 ELSE f[k - 1] + s[k]] BY <1>5, <1>7 DEF Sums
<1> DEFINE S == {k \in Nat : k <= q => f[k] = jump * k}
<1>9. 0 \in S
  <2>1. f[0] = 0 BY <1>3, <1>8
  <2>2. jump * 0 = 0 BY <1>1
  <2> QED BY <2>1, <2>2
<1>10. ASSUME NEW k \in Nat, k \in S PROVE k + 1 \in S
  <2> SUFFICES ASSUME k + 1 <= q PROVE f[k + 1] = jump * (k + 1) OBVIOUS
  <2>1. f[k] = jump * k BY <1>3, <1>10
  <2>2. k + 1 \in 0..(q + 1) /\ k + 1 # 0 /\ (k + 1) - 1 = k /\ k + 1 \in 1..q BY <1>3
  <2>3. f[k + 1] = f[k] + s[k + 1] BY <1>8, <2>2
  <2>4. s[k + 1] = jump BY <1>5, <2>2
  <2>5. jump * (k + 1) = jump * k + jump BY <1>1
  <2> QED BY <2>1, <2>3, <2>4, <2>5
<1> HIDE DEF S
<1>11. q \in S BY <1>3, <1>9, <1>10, Induct
<1>12. f[q] = jump * q BY <1>3, <1>11 DEF S
<1>13. f[q + 1] = f[q] + s[q + 1]
  <2>1. q + 1 \in 0..(q + 1) /\ q + 1 # 0 /\ (q + 1) - 1 = q BY <1>3
  <2> QED BY <1>8, <2>1
<1>14. SumOf(s) = pos BY <1>3, <1>5, <1>7, <1>12, <1>13
<1> QED BY <1>6, <1>14 DEF s

\* The inputs are natural numbers.
LEMMA WalkNat == WalkSpec => [](n \in Nat)
<1>1. WalkInit => n \in Nat BY DEF WalkInit
<1>2. n \in Nat /\ [WalkNext]_n => (n \in Nat)' BY DEF WalkNext
<1> QED BY <1>1, <1>2, PTL DEF WalkSpec

\* SeekReaches for every position and every size of a long (set_pos).
THEOREM SeekTheorem == WalkSpec => []SeekReaches
<1>1. n \in Nat => SeekReaches BY SeekExact DEF SeekReaches
<1> QED BY <1>1, WalkNat, PTL

\* ChsDecodes for every range of sectors (lba2chs).
THEOREM ChsTheorem == WalkSpec => []ChsDecodes
<1>1. n \in Nat => ChsDecodes
  <2> SUFFICES ASSUME n \in Nat PROVE ChsDecodes OBVIOUS
  <2>1. LastChs \in Nat /\ MaxInput \in Nat \ {0} /\ MaxInput <= LastChs BY InputAssumption DEF LastChs
  <2>2. LastChs + n - (MaxInput \div 2) \in Nat BY <2>1
  <2>3. LastChs \div MaxInput \in Nat BY <2>1, Division
  <2>4. (LastChs \div MaxInput) * n \in Nat
    <3> DEFINE d == LastChs \div MaxInput
    <3> HIDE DEF d
    <3>1. d \in Nat BY <2>3 DEF d
    <3>2. d * n \in Nat BY <3>1
    <3> QED BY <3>2 DEF d
  <2> QED BY <2>2, <2>4, ChsExact DEF ChsDecodes
<1> QED BY <1>1, WalkNat, PTL

\* StageTwoCovered for every size stage 2 may have (bios_install's split).
THEOREM HalvesTheorem == WalkSpec => []StageTwoCovered
<1>1. n \in Nat => StageTwoCovered
  <2> SUFFICES ASSUME n \in Nat, NEW size \in (64 * n)..(64 * n + 63), size <= 254 * 512
               PROVE  Covers(size, stage2_size_a(size), stage2_size_b(size))
    BY DEF StageTwoCovered
  <2>1. size \in Nat OBVIOUS
  <2> QED BY <2>1, HalvesCover
<1> QED BY <1>1, WalkNat, PTL
=============================================================================
