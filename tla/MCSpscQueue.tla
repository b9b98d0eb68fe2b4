---------------------------- MODULE MCSpscQueue ----------------------------
(* Small instances of SpscQueue for TLC.                                   *)
EXTENDS SpscQueueProofs
=============================================================================
