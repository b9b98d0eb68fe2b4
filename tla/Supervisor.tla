----------------------------- MODULE Supervisor -----------------------------
(***************************************************************************)
(* cell-supervisor's Supervisor<CAP>: a log of at most CAP failures.  The  *)
(* sequence `records` is records[..len] of the code.  A result is a record *)
(* with the field `failed`; what a failure says besides its trace (node,   *)
(* reason) travels with it unchanged.                                      *)
(***************************************************************************)
EXTENDS Naturals, Sequences

CONSTANT CAP

VARIABLE records

SupervisorInit == records = <<>>

\* A failure beyond CAP is returned to the caller but not recorded.
Observe(result) ==
    records' = IF result.failed /\ Len(records) < CAP
               THEN Append(records, result)
               ELSE records

FailureCount == Len(records)

=============================================================================
