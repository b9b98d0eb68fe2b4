---------------------------- MODULE EnrollConfig ----------------------------
(***************************************************************************)
(* limine.c's enroll_config: the command line, the search for the          *)
(* signature in the executable, and the rewrite of the file with the       *)
(* BLAKE2B sum of the config file in the slot after the signature.  Later  *)
(* invocations meet the file as earlier ones left it.                      *)
(*                                                                         *)
(* Files and sums are sequences of characters; the signature and the sum   *)
(* have the lengths of Sig and HashLen (26 and 128 in the code).           *)
(***************************************************************************)
EXTENDS Integers, Sequences, SequencesExt

CONSTANTS
    Sig, HashLen,
    Text,         \* what an argument says when it is used as a sum
    Executable,   \* the name of the one file there is
    MaxFaults     \* bound on the calls of the C library that fail

ASSUME SigAssumption ==
    Len(Sig) \in Nat \ {0} /\ Sig = [k \in 1..Len(Sig) |-> Sig[k]] /\ HashLen \in Nat

VARIABLES
    pc, argv, index, reset,  \* the step, what is left of the arguments, the loop over them, the option
    file, bootloader,        \* the executable, its copy in memory
    orig, faults             \* the executable before the first run

enrollVars == <<pc, argv, index, reset, file, bootloader, orig, faults>>

EnrollInit(contents) ==
    /\ file = contents /\ orig = contents /\ bootloader = <<>> /\ faults = 0
    /\ pc = "main" /\ argv = <<>> /\ index = 1 /\ reset = FALSE

\* The call of enroll_config with these arguments.
Enroll(args) ==
    /\ pc' = "args" /\ argv' = args /\ index' = 1 /\ reset' = FALSE /\ bootloader' = <<>>
    /\ UNCHANGED <<file, orig, faults>>

-----------------------------------------------------------------------------
(* The arguments.  argv leaves out the name of the command.                *)
remove_arg(args, k) == RemoveAt(args, k)

\* An option is taken out of argv, and index still moves on.
ParseOption ==
    /\ pc = "args" /\ index <= Len(argv)
    /\ LET arg == argv[index]
           option == arg \in {"--quiet", "--reset"}
       IN  /\ pc' = IF arg \in {"--help", "-h"} THEN "help" ELSE pc
           /\ argv' = IF option THEN remove_arg(argv, index) ELSE argv
           /\ reset' = (reset \/ arg = "--reset")
    /\ index' = index + 1
    /\ UNCHANGED <<file, bootloader, orig, faults>>

CheckArgs ==
    /\ pc = "args" /\ index > Len(argv)
    /\ pc' = IF Len(argv) < (IF reset THEN 1 ELSE 2) THEN "usage"
             ELSE IF ~reset /\ Len(Text[argv[2]]) # HashLen THEN "failed" ELSE "open"
    /\ UNCHANGED <<argv, index, reset, file, bootloader, orig, faults>>

-----------------------------------------------------------------------------
(* The file.                                                               *)
Step(next, data, buf) ==
    /\ pc' = next /\ file' = data /\ bootloader' = buf
    /\ UNCHANGED <<argv, index, reset, orig>>

\* fopen, and fread of the whole file.
ReadFile ==
    /\ pc = "open" /\ UNCHANGED faults
    /\ IF argv[1] # Executable \/ file = <<>> THEN Step("failed", file, <<>>)
       ELSE Step("scan", file, file)

\* fseek, malloc or fread fails.
ReadFails ==
    /\ pc = "open" /\ faults < MaxFaults /\ faults' = faults + 1
    /\ Step("failed", file, <<>>)

\* The number of characters the loop looks at.  It is a size_t that wraps for
\* a short file; the first read past the end is all that matters then.
ScanBound(size) ==
    LET bound == size - (Len(Sig) + HashLen) + 1 IN IF bound >= 0 THEN bound ELSE size + 1

\* Mutant: the search goes on after a match.
NeverFound(s) == FALSE

Found(s) == s.loc # 0

\* The loop: how much of the signature the last characters match, where the
\* slot starts (0 for nowhere), and whether it left the buffer.
Look(buf, s, k) ==
    IF Found(s) \/ s.oob THEN s
    ELSE IF k > Len(buf) THEN [s EXCEPT !.oob = TRUE]
    ELSE IF buf[k] # Sig[s.count + 1] THEN [s EXCEPT !.count = 0]
    ELSE IF s.count + 1 = Len(Sig) THEN [s EXCEPT !.loc = k + 1, !.count = 0]
    ELSE [s EXCEPT !.count = @ + 1]

Scan(buf) ==
    LET look[k \in 0..ScanBound(Len(buf))] ==
            IF k = 0 THEN [count |-> 0, loc |-> 0, oob |-> FALSE] ELSE Look(buf, look[k - 1], k)
    IN  look[ScanBound(Len(buf))]

Zeros == [k \in 1..HashLen |-> "0"]
Sum == IF reset THEN Zeros ELSE Text[argv[2]]
Patched(buf, loc) ==
    [k \in DOMAIN buf |-> IF k \in loc..(loc + HashLen - 1) THEN Sum[k - loc + 1] ELSE buf[k]]

\* A slot that does not fit is a memcpy past the buffer.
PatchCopy ==
    /\ pc = "scan" /\ UNCHANGED faults
    /\ LET s == Scan(bootloader)
       IN  IF s.oob \/ s.loc + HashLen - 1 > Len(bootloader) THEN Step("overrun", file, bootloader)
           ELSE IF s.loc = 0 THEN Step("not_found", file, bootloader)
           ELSE Step("write", file, Patched(bootloader, s.loc))

\* fwrite of the whole copy over the file.
WriteFile == pc = "write" /\ Step("done", bootloader, bootloader) /\ UNCHANGED faults

\* fseek fails, or fwrite stops after n characters.
WriteFails ==
    /\ pc = "write" /\ faults < MaxFaults /\ faults' = faults + 1
    /\ \E n \in 0..Len(bootloader) :
         Step("failed", SubSeq(bootloader, 1, n) \o SubSeq(file, n + 1, Len(file)), bootloader)

EnrollEnded == pc \in {"help", "usage", "failed", "not_found", "done"}

EnrollNext == ParseOption \/ CheckArgs \/ ReadFile \/ ReadFails \/ PatchCopy \/ WriteFile \/ WriteFails

-----------------------------------------------------------------------------
\* The characters from k on are a slot of the file as it first was.
SlotAt(k) ==
    LET start == k - Len(Sig)
    IN  start >= 1 /\ k + HashLen - 1 <= Len(orig) /\ SubSeq(orig, start, k - 1) = Sig

\* However many runs, whatever sums they leave for the next search, and even
\* when an fwrite stops half way: nothing but one slot after a signature of
\* the original executable ever changes, always the same one, and the file
\* keeps its length (fopen "r+b", the first match, the rewrite of the copy).
OnlyOneSlotChanges ==
    /\ Len(file) = Len(orig)
    /\ LET changed == {k \in DOMAIN orig : file[k] # orig[k]}
       IN  changed = {} \/ \E k \in DOMAIN orig : SlotAt(k) /\ changed \subseteq k..(k + HashLen - 1)
=============================================================================
