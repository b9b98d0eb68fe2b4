---------------------------- MODULE TensorChunk ----------------------------
(***************************************************************************)
(* cell-core's TensorChunk: its shape's arithmetic and the typestate from  *)
(* new through freeze to deconstruct, over a usize with WORD values.  A    *)
(* multiplication that overflows panics or wraps, as the build decides.    *)
(***************************************************************************)
EXTENDS Integers, Sequences

CONSTANTS
    WORD,       \* number of values of a usize
    Shapes,     \* records [dims, rank], with the unused dims 0
    Pointers    \* values of virt_ptr

ASSUME ShapesAssumption ==
    /\ WORD \in Nat \ {0}
    /\ \A shape \in Shapes : shape.rank \in Nat /\ \A k \in 1..shape.rank : shape.dims[k] \in Nat

DTypes == {"F32", "F16", "BF16", "I8", "U8"}
size_in_bytes(d) == IF d = "F32" THEN 4 ELSE IF d \in {"F16", "BF16"} THEN 2 ELSE 1

VARIABLES state, chunk, slice_len   \* slice_len: -1 before as_slice

vars == <<state, chunk, slice_len>>

NoChunk == [shape |-> [dims |-> <<0, 0, 0, 0>>, rank |-> 0], dtype |-> "U8", virt_ptr |-> 0, byte_len |-> 0]

Init == state = "none" /\ chunk = NoChunk /\ slice_len = -1

saturating_mul(a, b) == IF a * b >= WORD THEN WORD - 1 ELSE a * b

\* Mutant: every dimension is multiplied, the unused ones as well.
AllDims(shape) == Len(shape.dims)

UsedDims(shape) == shape.rank

total_elements(shape) ==
    LET total[index \in 0..UsedDims(shape)] ==
            IF index = 0 THEN 1 ELSE saturating_mul(total[index - 1], shape.dims[index])
    IN  total[UsedDims(shape)]

New(shape, dtype, virt_ptr) ==
    /\ state = "none" /\ UNCHANGED slice_len
    /\ LET bytes == total_elements(shape) * size_in_bytes(dtype)
       IN  /\ chunk' = [shape |-> shape, dtype |-> dtype, virt_ptr |-> virt_ptr, byte_len |-> bytes % WORD]
           /\ state' = "mutable" \/ (bytes >= WORD /\ state' = "panicked")

Freeze == state = "mutable" /\ state' = "ready" /\ UNCHANGED <<chunk, slice_len>>

Checks(size) ==
    size = size_in_bytes(chunk.dtype) /\ chunk.byte_len % size = 0 /\ chunk.virt_ptr % size = 0

\* as_slice::<T> for a T of the given size, which is also its alignment.
AsSlice(size) ==
    /\ state = "ready" /\ slice_len = -1 /\ UNCHANGED chunk
    /\ IF Checks(size) THEN slice_len' = chunk.byte_len \div size /\ UNCHANGED state
       ELSE state' = "panicked" /\ UNCHANGED slice_len

Deconstruct == state = "ready" /\ state' = "moved" /\ UNCHANGED <<chunk, slice_len>>

Next ==
    \/ \E shape \in Shapes, dtype \in DTypes, virt_ptr \in Pointers : New(shape, dtype, virt_ptr)
    \/ Freeze \/ (\E size \in {1, 2, 4} : AsSlice(size)) \/ Deconstruct

Spec == Init /\ [][Next]_vars

-----------------------------------------------------------------------------
\* The product of the dimensions in use, in unbounded arithmetic.
Product(dims, n) ==
    LET product[k \in 0..n] == IF k = 0 THEN 1 ELSE product[k - 1] * dims[k] IN product[n]
Elements == Product(chunk.shape.dims, chunk.shape.rank)
Sliced == slice_len >= 0

\* Whenever the tensor fits in the address space a slice of it has exactly
\* its elements, also when a zero dimension follows dimensions whose product
\* saturates (total_elements, as_slice).
SliceIsWhole ==
    Sliced /\ Elements * size_in_bytes(chunk.dtype) < WORD => slice_len = Elements
=============================================================================
