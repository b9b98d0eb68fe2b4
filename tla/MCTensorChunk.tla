--------------------------- MODULE MCTensorChunk ---------------------------
(* Instances of TensorChunk for TLC.                                       *)
EXTENDS TensorChunk

CONSTANT Sizes   \* the lengths of a dimension

SomeShapes ==
    {[dims |-> [k \in 1..4 |-> IF k <= rank THEN dims[k] ELSE 0], rank |-> rank] :
        rank \in 1..4, dims \in [1..4 -> Sizes]}
=============================================================================
