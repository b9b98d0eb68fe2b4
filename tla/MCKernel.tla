------------------------------ MODULE MCKernel ------------------------------
(* Instances of Kernel for TLC.                                            *)
EXTENDS Kernel

\* Every answer Limine can give, on a machine of MAX_FRAMES frames.
AllBoots == BootType

\* Answers that let the batch run.
HealthyBoots ==
    [memmap : {TRUE}, usable : {{1}}, hhdm : {"ok"}, smp : {TRUE}, ap : {TRUE}]
=============================================================================
