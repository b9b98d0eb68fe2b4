----------------------------- MODULE LimineCli -----------------------------
(***************************************************************************)
(* limine.c's main and the arguments of its commands: which command runs,  *)
(* with which options, and what bios_install is told to do with the        *)
(* device.  It calls EnrollConfig; BiosInstall takes over from "install".  *)
(* limine is started several times, each time on the executable the        *)
(* earlier runs left.                                                      *)
(*                                                                         *)
(* An argument is <<head, rest>>; rest is what follows the 21 characters   *)
(* "--uninstall-data-file" and empty for every other argument.             *)
(***************************************************************************)
EXTENDS EnrollConfig

CONSTANTS
    Starts,          \* pairs of an executable and a command line to begin with
    LaterLines,      \* command lines of later runs
    Devices,         \* names that fopen opens for bios-install
    NoBios, DataDir, \* LIMINE_NO_BIOS and LIMINE_DATADIR are defined
    MaxRuns

\* Executables and command lines are sequences.
ASSUME LinesAssumption ==
    /\ \A s \in Starts : \A q \in {s[1], s[2]} : Len(q) \in Nat /\ q = [k \in 1..Len(q) |-> q[k]]
    /\ \A l \in LaterLines : Len(l) \in Nat

VARIABLES
    line, i,    \* the command line, without the program's name, and bios_install's place in it
    opt,        \* the options of bios_install
    said,       \* what was printed
    runs        \* how often limine was started

cliVars == <<line, i, opt, said, runs>>
vars == <<cliVars, enrollVars>>

None == <<>>
DataFile == "--uninstall-data-file"
NoOptions ==
    [force_mbr |-> FALSE, gpt2mbr_allowed |-> TRUE, uninstall_mode |-> FALSE, quiet |-> FALSE,
     uninstall_file |-> None, device |-> None, part_ndx |-> None]

Init ==
    /\ \E start \in Starts : EnrollInit(start[1]) /\ line = start[2]
    /\ i = 2 /\ opt = NoOptions /\ said = None /\ runs = 1

enrollLocals == <<argv, index, reset, file, bootloader, orig, faults>>
Exit(code, text) == pc' = code /\ said' = text /\ UNCHANGED <<line, i, opt, runs, enrollLocals>>
Goto(next) == pc' = next /\ UNCHANGED <<cliVars, enrollLocals>>

\* main.
Main ==
    /\ pc = "main"
    /\ IF line = <<>> THEN Exit("failure", "usage")
       ELSE CASE line[1][1] \in {"help", "--help", "-h"} -> Exit("success", "usage")
              [] line[1][1] = "bios-install" -> IF NoBios THEN Exit("failure", "no_bios") ELSE Goto("bios_install")
              [] line[1][1] = "enroll-config" -> Enroll([k \in 1..(Len(line) - 1) |-> line[k + 1][1]]) /\ UNCHANGED cliVars
              [] line[1][1] = "--print-datadir" -> Goto("print_datadir")
              [] line[1][1] \in {"version", "--version"} -> Goto("version")
              [] OTHER -> Exit("failure", "usage")

PrintDatadir ==
    pc = "print_datadir" /\ IF DataDir THEN Exit("success", "datadir") ELSE Exit("failure", "no_datadir")

Version ==
    /\ pc = "version"
    /\ LET arg == IF Len(line) >= 2 THEN line[2][1] ELSE "none"
       IN  Exit("success", CASE arg = "--help" -> "version_usage"
                             [] arg = "--version-only" -> "number"
                             [] OTHER -> "version")

-----------------------------------------------------------------------------
(* bios_install up to the device.                                          *)
NextArg(o) == pc' = pc /\ i' = i + 1 /\ opt' = o /\ UNCHANGED <<line, said, runs, enrollLocals>>

\* The name is what follows the 21 characters compared.
SetDataFile(rest) ==
    IF rest = <<>> THEN Exit("failure", "zero_length") ELSE NextArg([opt EXCEPT !.uninstall_file = rest])

\* Mutant: a later name that can be opened becomes the device.
LaterDevice(name) ==
    IF name \in Devices THEN NextArg([opt EXCEPT !.device = <<name>>])
    ELSE IF opt.device # None THEN NextArg([opt EXCEPT !.part_ndx = <<name>>])
    ELSE Exit("failure", "fopen")

\* The first name is the device, every later one the partition index.
Positional(name) ==
    IF opt.device # None THEN NextArg([opt EXCEPT !.part_ndx = <<name>>])
    ELSE IF name \notin Devices THEN Exit("failure", "fopen")
    ELSE NextArg([opt EXCEPT !.device = <<name>>])

ParseArg ==
    /\ pc = "bios_install" /\ i <= Len(line)
    /\ LET head == line[i][1]
       IN  CASE head \in {"--help", "-h"} -> Exit("success", "install_usage")
             [] head = "--quiet" -> NextArg([opt EXCEPT !.quiet = TRUE])
             [] head = "--force-mbr" -> NextArg([opt EXCEPT !.force_mbr = TRUE])
             [] head = "--no-gpt-to-mbr-isohybrid-conversion" -> NextArg([opt EXCEPT !.gpt2mbr_allowed = FALSE])
             [] head = "--uninstall" -> NextArg([opt EXCEPT !.uninstall_mode = TRUE])
             [] head = DataFile -> SetDataFile(line[i][2])
             [] OTHER -> Positional(head)

\* device_init may fail and end the run.
StartInstall ==
    /\ pc = "bios_install" /\ i > Len(line)
    /\ IF opt.device = None THEN Exit("failure", "install_usage")
       ELSE \/ Exit("failure", "device_init")
            \/ IF ~opt.uninstall_mode THEN Goto("install")
               ELSE IF opt.uninstall_file = None THEN Exit("failure", "no_data_file")
               ELSE Goto("uninstall")

Ended == EnrollEnded \/ pc \in {"success", "failure", "install", "uninstall"}

Again ==
    /\ Ended /\ runs < MaxRuns /\ runs' = runs + 1 /\ line' \in LaterLines
    /\ pc' = "main" /\ i' = 2 /\ opt' = NoOptions /\ said' = None /\ UNCHANGED enrollLocals

Next ==
    \/ Main \/ PrintDatadir \/ Version \/ ParseArg \/ StartInstall \/ Again
    \/ EnrollNext /\ UNCHANGED cliVars

Spec == Init /\ [][Next]_vars

-----------------------------------------------------------------------------
Given(head) == \E k \in 2..Len(line) : line[k][1] = head

OptionHeads == {"--quiet", "--force-mbr", "--no-gpt-to-mbr-isohybrid-conversion", "--uninstall", DataFile}
Names == {k \in 2..Len(line) : line[k][1] \notin OptionHeads}

\* Wherever the options of bios-install stand among the names, each has its
\* effect, the device is the first name and the partition index the last; and
\* "--uninstall" anywhere means that no install writes to the device.
PlaceOfOptionsIrrelevant ==
    pc \in {"install", "uninstall"} =>
        /\ pc = "uninstall" <=> Given("--uninstall")
        /\ opt.force_mbr = Given("--force-mbr") /\ opt.quiet = Given("--quiet")
        /\ opt.gpt2mbr_allowed = ~Given("--no-gpt-to-mbr-isohybrid-conversion")
        /\ (opt.uninstall_file # None) = Given(DataFile)
        /\ opt.device = <<line[Min(Names)][1]>>
        /\ opt.part_ndx = IF Min(Names) = Max(Names) THEN None ELSE <<line[Max(Names)][1]>>
=============================================================================
