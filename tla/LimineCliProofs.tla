-------------------------- MODULE LimineCliProofs --------------------------
(***************************************************************************)
(* The theorems about LimineCli and EnrollConfig: what bios_install is     *)
(* told to do, for command lines of any length, and what any number of     *)
(* enroll_config runs change in any executable.                            *)
(***************************************************************************)
EXTENDS LimineCli, SequenceTheorems, WellFoundedInduction, TLAPS

-----------------------------------------------------------------------------
(* The arguments of bios_install.                                          *)

\* What the loop over the arguments has seen before position n.
Seen(l, n, head) == \E k \in 2..(n - 1) : l[k][1] = head
NamesSeen(l, n) == {k \in 2..(n - 1) : l[k][1] \notin OptionHeads}

Options(o) ==
    \E force, allowed, mode, quiet \in BOOLEAN : \E data, dev, ndx :
        o = [force_mbr |-> force, gpt2mbr_allowed |-> allowed, uninstall_mode |-> mode, quiet |-> quiet,
             uninstall_file |-> data, device |-> dev, part_ndx |-> ndx]

FlagsRead(l, o, n) ==
    /\ o.force_mbr <=> Seen(l, n, "--force-mbr")
    /\ o.gpt2mbr_allowed <=> ~Seen(l, n, "--no-gpt-to-mbr-isohybrid-conversion")
    /\ o.uninstall_mode <=> Seen(l, n, "--uninstall")
    /\ o.quiet <=> Seen(l, n, "--quiet")
    /\ (o.uninstall_file # None) <=> Seen(l, n, DataFile)

DeviceRead(l, o, n) ==
    IF o.device = None THEN NamesSeen(l, n) = {}
    ELSE \E k \in NamesSeen(l, n) : o.device = <<l[k][1]>> /\ \A j \in NamesSeen(l, n) : k <= j

IndexRead(l, o, n) ==
    IF o.part_ndx = None THEN \A j, k \in NamesSeen(l, n) : j = k
    ELSE \E j, k \in NamesSeen(l, n) :
            j # k /\ o.part_ndx = <<l[k][1]>> /\ \A m \in NamesSeen(l, n) : m <= k

LineInv ==
    /\ Len(line) \in Nat /\ i \in Nat /\ Options(opt)
    /\ pc = "main" => i = 2 /\ opt = NoOptions
    /\ pc = "bios_install" =>
         /\ i >= 2 /\ (i = 2 \/ i <= Len(line) + 1)
         /\ FlagsRead(line, opt, i) /\ DeviceRead(line, opt, i) /\ IndexRead(line, opt, i)
    /\ pc \in {"install", "uninstall"} =>
         /\ i > Len(line) /\ i >= 2 /\ (i = 2 \/ i <= Len(line) + 1)
         /\ FlagsRead(line, opt, i) /\ DeviceRead(line, opt, i) /\ IndexRead(line, opt, i)
         /\ opt.device # None
         /\ pc = "uninstall" <=> opt.uninstall_mode

\* The record of the options, by its fields.
LEMMA IsOptions ==
    ASSUME NEW force \in BOOLEAN, NEW allowed \in BOOLEAN, NEW mode \in BOOLEAN, NEW quiet \in BOOLEAN,
           NEW data, NEW dev, NEW ndx, NEW p,
           p = [force_mbr |-> force, gpt2mbr_allowed |-> allowed, uninstall_mode |-> mode, quiet |-> quiet,
                uninstall_file |-> data, device |-> dev, part_ndx |-> ndx]
    PROVE  Options(p)
BY Zenon DEF Options

\* One more argument: what has been seen grows by its head.
LEMMA SeenNext ==
    ASSUME NEW l, NEW n \in Nat, n >= 2, NEW head
    PROVE  Seen(l, n + 1, head) <=> (Seen(l, n, head) \/ l[n][1] = head)
<1>1. \A k : k \in 2..(n + 1 - 1) <=> (k \in 2..(n - 1) \/ k = n) OBVIOUS
<1> QED BY <1>1 DEF Seen

LEMMA NamesNext ==
    ASSUME NEW l, NEW n \in Nat, n >= 2
    PROVE  NamesSeen(l, n + 1) = IF l[n][1] \in OptionHeads THEN NamesSeen(l, n) ELSE NamesSeen(l, n) \cup {n}
<1>1. \A k : k \in 2..(n + 1 - 1) <=> (k \in 2..(n - 1) \/ k = n) OBVIOUS
<1>2. CASE l[n][1] \in OptionHeads BY <1>1, <1>2 DEF NamesSeen
<1>3. CASE l[n][1] \notin OptionHeads BY <1>1, <1>3 DEF NamesSeen
<1> QED BY <1>2, <1>3

\* An option sets its field and leaves the others and the names alone.
LEMMA OptionRead ==
    ASSUME NEW l, NEW o, Options(o), NEW n \in Nat, n >= 2, FlagsRead(l, o, n), DeviceRead(l, o, n), IndexRead(l, o, n),
           NEW p,
           \/ l[n][1] = "--quiet" /\ p = [o EXCEPT !.quiet = TRUE]
           \/ l[n][1] = "--force-mbr" /\ p = [o EXCEPT !.force_mbr = TRUE]
           \/ l[n][1] = "--no-gpt-to-mbr-isohybrid-conversion" /\ p = [o EXCEPT !.gpt2mbr_allowed = FALSE]
           \/ l[n][1] = "--uninstall" /\ p = [o EXCEPT !.uninstall_mode = TRUE]
           \/ \E rest : rest # None /\ l[n][1] = DataFile /\ p = [o EXCEPT !.uninstall_file = rest]
    PROVE  Options(p) /\ FlagsRead(l, p, n + 1) /\ DeviceRead(l, p, n + 1) /\ IndexRead(l, p, n + 1)
<1> PICK force \in BOOLEAN, allowed \in BOOLEAN, mode \in BOOLEAN, quiet \in BOOLEAN :
        \E data, dev, ndx :
            o = [force_mbr |-> force, gpt2mbr_allowed |-> allowed, uninstall_mode |-> mode, quiet |-> quiet,
                 uninstall_file |-> data, device |-> dev, part_ndx |-> ndx]
    BY Zenon DEF Options
<1> PICK data, dev, ndx :
        o = [force_mbr |-> force, gpt2mbr_allowed |-> allowed, uninstall_mode |-> mode, quiet |-> quiet,
             uninstall_file |-> data, device |-> dev, part_ndx |-> ndx]
    OBVIOUS
<1>1. l[n][1] \in OptionHeads BY DEF OptionHeads
<1>2. NamesSeen(l, n + 1) = NamesSeen(l, n) BY <1>1, NamesNext
<1>3. p.device = o.device /\ p.part_ndx = o.part_ndx OBVIOUS
<1>4. DeviceRead(l, p, n + 1) /\ IndexRead(l, p, n + 1) BY <1>2, <1>3 DEF DeviceRead, IndexRead
<1>5. \A head : Seen(l, n + 1, head) <=> (Seen(l, n, head) \/ l[n][1] = head) BY SeenNext
<1>6. CASE l[n][1] = "--quiet" /\ p = [o EXCEPT !.quiet = TRUE]
  <2>1. p = [force_mbr |-> force, gpt2mbr_allowed |-> allowed, uninstall_mode |-> mode, quiet |-> TRUE,
             uninstall_file |-> data, device |-> dev, part_ndx |-> ndx] BY <1>6
  <2>2. Options(p)
    <3>1. PICK b \in BOOLEAN : b = TRUE OBVIOUS
    <3>2. p = [force_mbr |-> force, gpt2mbr_allowed |-> allowed, uninstall_mode |-> mode, quiet |-> b,
               uninstall_file |-> data, device |-> dev, part_ndx |-> ndx] BY <2>1, <3>1
    <3> QED BY <3>2, IsOptions
  <2>3. FlagsRead(l, p, n + 1) BY <1>5, <1>6, <2>1 DEF FlagsRead, DataFile
  <2> QED BY <1>4, <2>2, <2>3
<1>7. CASE l[n][1] = "--force-mbr" /\ p = [o EXCEPT !.force_mbr = TRUE]
  <2>1. p = [force_mbr |-> TRUE, gpt2mbr_allowed |-> allowed, uninstall_mode |-> mode, quiet |-> quiet,
             uninstall_file |-> data, device |-> dev, part_ndx |-> ndx] BY <1>7
  <2>2. Options(p)
    <3>1. PICK b \in BOOLEAN : b = TRUE OBVIOUS
    <3>2. p = [force_mbr |-> b, gpt2mbr_allowed |-> allowed, uninstall_mode |-> mode, quiet |-> quiet,
               uninstall_file |-> data, device |-> dev, part_ndx |-> ndx] BY <2>1, <3>1
    <3> QED BY <3>2, IsOptions
  <2>3. FlagsRead(l, p, n + 1) BY <1>5, <1>7, <2>1 DEF FlagsRead, DataFile
  <2> QED BY <1>4, <2>2, <2>3
<1>8. CASE l[n][1] = "--no-gpt-to-mbr-isohybrid-conversion" /\ p = [o EXCEPT !.gpt2mbr_allowed = FALSE]
  <2>1. p = [force_mbr |-> force, gpt2mbr_allowed |-> FALSE, uninstall_mode |-> mode, quiet |-> quiet,
             uninstall_file |-> data, device |-> dev, part_ndx |-> ndx] BY <1>8
  <2>2. Options(p)
    <3>1. PICK b \in BOOLEAN : b = FALSE OBVIOUS
    <3>2. p = [force_mbr |-> force, gpt2mbr_allowed |-> b, uninstall_mode |-> mode, quiet |-> quiet,
               uninstall_file |-> data, device |-> dev, part_ndx |-> ndx] BY <2>1, <3>1
    <3> QED BY <3>2, IsOptions
  <2>3. FlagsRead(l, p, n + 1) BY <1>5, <1>8, <2>1 DEF FlagsRead, DataFile
  <2> QED BY <1>4, <2>2, <2>3
<1>9. CASE l[n][1] = "--uninstall" /\ p = [o EXCEPT !.uninstall_mode = TRUE]
  <2>1. p = [force_mbr |-> force, gpt2mbr_allowed |-> allowed, uninstall_mode |-> TRUE, quiet |-> quiet,
             uninstall_file |-> data, device |-> dev, part_ndx |-> ndx] BY <1>9
  <2>2. Options(p)
    <3>1. PICK b \in BOOLEAN : b = TRUE OBVIOUS
    <3>2. p = [force_mbr |-> force, gpt2mbr_allowed |-> allowed, uninstall_mode |-> b, quiet |-> quiet,
               uninstall_file |-> data, device |-> dev, part_ndx |-> ndx] BY <2>1, <3>1
    <3> QED BY <3>2, IsOptions
  <2>3. FlagsRead(l, p, n + 1) BY <1>5, <1>9, <2>1 DEF FlagsRead, DataFile
  <2> QED BY <1>4, <2>2, <2>3
<1>10. ASSUME NEW rest, rest # None, l[n][1] = DataFile, p = [o EXCEPT !.uninstall_file = rest]
       PROVE  Options(p) /\ FlagsRead(l, p, n + 1)
  <2>1. p = [force_mbr |-> force, gpt2mbr_allowed |-> allowed, uninstall_mode |-> mode, quiet |-> quiet,
             uninstall_file |-> rest, device |-> dev, part_ndx |-> ndx] BY <1>10
  <2>2. Options(p) BY <2>1, IsOptions
  <2>3. FlagsRead(l, p, n + 1) BY <1>5, <1>10, <2>1 DEF FlagsRead, DataFile
  <2> QED BY <1>4, <2>2, <2>3
<1> QED BY <1>4, <1>6, <1>7, <1>8, <1>9, <1>10

\* The first name becomes the device, a later one the partition index.
LEMMA NameRead ==
    ASSUME NEW l, NEW o, Options(o), NEW n \in Nat, n >= 2, FlagsRead(l, o, n), DeviceRead(l, o, n), IndexRead(l, o, n),
           l[n][1] \notin OptionHeads, NEW p,
           p = IF o.device # None THEN [o EXCEPT !.part_ndx = <<l[n][1]>>] ELSE [o EXCEPT !.device = <<l[n][1]>>]
    PROVE  Options(p) /\ FlagsRead(l, p, n + 1) /\ DeviceRead(l, p, n + 1) /\ IndexRead(l, p, n + 1)
<1> PICK force \in BOOLEAN, allowed \in BOOLEAN, mode \in BOOLEAN, quiet \in BOOLEAN :
        \E data, dev, ndx :
            o = [force_mbr |-> force, gpt2mbr_allowed |-> allowed, uninstall_mode |-> mode, quiet |-> quiet,
                 uninstall_file |-> data, device |-> dev, part_ndx |-> ndx]
    BY Zenon DEF Options
<1> PICK data, dev, ndx :
        o = [force_mbr |-> force, gpt2mbr_allowed |-> allowed, uninstall_mode |-> mode, quiet |-> quiet,
             uninstall_file |-> data, device |-> dev, part_ndx |-> ndx]
    OBVIOUS
<1>1. NamesSeen(l, n + 1) = NamesSeen(l, n) \cup {n} BY NamesNext
<1>2. \A k \in NamesSeen(l, n) : k \in Nat /\ k < n BY DEF NamesSeen
<1>3. \A head \in OptionHeads : Seen(l, n + 1, head) <=> Seen(l, n, head) BY SeenNext
<1>4. Seen(l, n + 1, "--force-mbr") <=> Seen(l, n, "--force-mbr") BY <1>3 DEF OptionHeads
<1>5. Seen(l, n + 1, "--no-gpt-to-mbr-isohybrid-conversion") <=> Seen(l, n, "--no-gpt-to-mbr-isohybrid-conversion")
  BY <1>3 DEF OptionHeads
<1>6. Seen(l, n + 1, "--uninstall") <=> Seen(l, n, "--uninstall") BY <1>3 DEF OptionHeads
<1>7. Seen(l, n + 1, "--quiet") <=> Seen(l, n, "--quiet") BY <1>3 DEF OptionHeads
<1>8. Seen(l, n + 1, DataFile) <=> Seen(l, n, DataFile) BY <1>3 DEF OptionHeads
<1> DEFINE name == <<l[n][1]>>
<1>9. name # None BY DEF None
<1> HIDE DEF name
<1>10. CASE o.device # None
  <2>1. p = [force_mbr |-> force, gpt2mbr_allowed |-> allowed, uninstall_mode |-> mode, quiet |-> quiet,
             uninstall_file |-> data, device |-> dev, part_ndx |-> name] BY <1>10 DEF name
  <2>2. Options(p) BY <2>1, IsOptions
  <2>3. FlagsRead(l, p, n + 1) BY <1>4, <1>5, <1>6, <1>7, <1>8, <2>1 DEF FlagsRead
  <2>4. PICK k \in NamesSeen(l, n) : o.device = <<l[k][1]>> /\ \A j \in NamesSeen(l, n) : k <= j
    BY <1>10 DEF DeviceRead
  <2>5. p.device = o.device /\ p.part_ndx = name BY <2>1
  <2>6. k \in NamesSeen(l, n + 1) /\ \A j \in NamesSeen(l, n + 1) : k <= j BY <1>1, <1>2, <2>4
  <2>7. DeviceRead(l, p, n + 1) BY <1>10, <2>4, <2>5, <2>6 DEF DeviceRead
  <2>8. n \in NamesSeen(l, n + 1) /\ k # n /\ \A m \in NamesSeen(l, n + 1) : m <= n BY <1>1, <1>2
  <2>9. IndexRead(l, p, n + 1) BY <1>9, <2>5, <2>6, <2>8 DEF IndexRead, name
  <2> QED BY <2>2, <2>3, <2>7, <2>9
<1>11. CASE o.device = None
  <2>1. p = [force_mbr |-> force, gpt2mbr_allowed |-> allowed, uninstall_mode |-> mode, quiet |-> quiet,
             uninstall_file |-> data, device |-> name, part_ndx |-> ndx] BY <1>11 DEF name
  <2>2. Options(p) BY <2>1, IsOptions
  <2>3. FlagsRead(l, p, n + 1) BY <1>4, <1>5, <1>6, <1>7, <1>8, <2>1 DEF FlagsRead
  <2>4. NamesSeen(l, n) = {} BY <1>11 DEF DeviceRead
  <2>5. p.device = name /\ p.part_ndx = o.part_ndx BY <2>1
  <2>6. NamesSeen(l, n + 1) = {n} BY <1>1, <2>4
  <2>7. DeviceRead(l, p, n + 1) BY <1>9, <2>5, <2>6 DEF DeviceRead, name
  <2>8. o.part_ndx = None BY <2>4 DEF IndexRead
  <2>9. IndexRead(l, p, n + 1) BY <2>5, <2>6, <2>8 DEF IndexRead
  <2> QED BY <2>2, <2>3, <2>7, <2>9
<1> QED BY <1>10, <1>11

\* The first argument is read with nothing seen.
LEMMA NothingSeen ==
    ASSUME NEW l
    PROVE  Options(NoOptions) /\ FlagsRead(l, NoOptions, 2) /\ DeviceRead(l, NoOptions, 2) /\ IndexRead(l, NoOptions, 2)
<1>1. \A head : ~Seen(l, 2, head) BY DEF Seen
<1>2. NamesSeen(l, 2) = {} BY DEF NamesSeen
<1>3. Options(NoOptions) BY IsOptions, Zenon DEF NoOptions
<1>4. FlagsRead(l, NoOptions, 2) BY <1>1 DEF FlagsRead, NoOptions, None
<1>5. DeviceRead(l, NoOptions, 2) /\ IndexRead(l, NoOptions, 2) BY <1>2 DEF DeviceRead, IndexRead, NoOptions, None
<1> QED BY <1>3, <1>4, <1>5

\* What LineInv says depends on the command line, the place in it, the options
\* and the step alone.
LEMMA LineKept ==
    ASSUME LineInv, line' = line, i' = i, opt' = opt,
           pc' = pc \/ pc' \notin {"main", "bios_install", "install", "uninstall"}
    PROVE  LineInv'
BY DEF LineInv

LEMMA LineMain == ASSUME LineInv, Main PROVE LineInv'
<1>1. \A code, text : code \in {"success", "failure"} /\ Exit(code, text) => LineInv'
  BY LineKept DEF Exit
<1>2. \A next : next \in {"print_datadir", "version"} /\ Goto(next) => LineInv'
  BY LineKept DEF Goto, cliVars
<1>3. Goto("bios_install") => LineInv'
  <2> SUFFICES ASSUME Goto("bios_install") PROVE LineInv' OBVIOUS
  <2>1. line' = line /\ i' = i /\ opt' = opt /\ pc' = "bios_install" BY DEF Goto, cliVars
  <2>2. i = 2 /\ opt = NoOptions BY DEF Main, LineInv
  <2> QED BY <2>1, <2>2, NothingSeen DEF LineInv
<1>4. \A args : Enroll(args) /\ UNCHANGED cliVars => LineInv'
  BY LineKept DEF Enroll, cliVars
<1> QED BY <1>1, <1>2, <1>3, <1>4 DEF Main

LEMMA LineParse == ASSUME LineInv, ParseArg PROVE LineInv'
<1>1. \A code, text : code \in {"success", "failure"} /\ Exit(code, text) => LineInv'
  BY LineKept DEF Exit
<1>2. /\ pc = "bios_install" /\ i <= Len(line) /\ Len(line) \in Nat /\ i \in Nat /\ i >= 2 /\ Options(opt)
      /\ FlagsRead(line, opt, i) /\ DeviceRead(line, opt, i) /\ IndexRead(line, opt, i)
  BY DEF ParseArg, LineInv
<1>3. ASSUME NEW o, NextArg(o), Options(o), FlagsRead(line, o, i + 1), DeviceRead(line, o, i + 1), IndexRead(line, o, i + 1)
      PROVE  LineInv'
  <2>1. pc' = "bios_install" /\ i' = i + 1 /\ opt' = o /\ line' = line BY <1>2, <1>3 DEF NextArg
  <2> QED BY <1>2, <1>3, <2>1 DEF LineInv
<1> DEFINE head == line[i][1]
<1>4. CASE head \in {"--help", "-h"} BY <1>1, <1>4 DEF ParseArg, DataFile
<1>5. CASE head = "--quiet"
  <2>1. NextArg([opt EXCEPT !.quiet = TRUE]) BY <1>5 DEF ParseArg, DataFile
  <2> QED BY <1>2, <1>3, <1>5, <2>1, OptionRead
<1>6. CASE head = "--force-mbr"
  <2>1. NextArg([opt EXCEPT !.force_mbr = TRUE]) BY <1>6 DEF ParseArg, DataFile
  <2> QED BY <1>2, <1>3, <1>6, <2>1, OptionRead
<1>7. CASE head = "--no-gpt-to-mbr-isohybrid-conversion"
  <2>1. NextArg([opt EXCEPT !.gpt2mbr_allowed = FALSE]) BY <1>7 DEF ParseArg, DataFile
  <2> QED BY <1>2, <1>3, <1>7, <2>1, OptionRead
<1>8. CASE head = "--uninstall"
  <2>1. NextArg([opt EXCEPT !.uninstall_mode = TRUE]) BY <1>8 DEF ParseArg, DataFile
  <2> QED BY <1>2, <1>3, <1>8, <2>1, OptionRead
<1>9. CASE head = DataFile
  <2>1. SetDataFile(line[i][2]) BY <1>9 DEF ParseArg, DataFile
  <2>2. CASE line[i][2] = <<>> BY <1>1, <2>1, <2>2 DEF SetDataFile
  <2>3. CASE line[i][2] # <<>>
    <3>1. NextArg([opt EXCEPT !.uninstall_file = line[i][2]]) BY <2>1, <2>3 DEF SetDataFile
    <3> QED BY <1>2, <1>3, <1>9, <2>3, <3>1, OptionRead DEF None
  <2> QED BY <2>2, <2>3
<1>10. CASE head \notin OptionHeads /\ head \notin {"--help", "-h"}
  <2>1. Positional(head) BY <1>10 DEF ParseArg, OptionHeads
  <2>2. CASE opt.device # None
    <3>1. NextArg([opt EXCEPT !.part_ndx = <<head>>]) BY <2>1, <2>2 DEF Positional
    <3> QED BY <1>2, <1>3, <1>10, <2>2, <3>1, NameRead
  <2>3. CASE opt.device = None /\ head \notin Devices BY <1>1, <2>1, <2>3 DEF Positional
  <2>4. CASE opt.device = None /\ head \in Devices
    <3>1. NextArg([opt EXCEPT !.device = <<head>>]) BY <2>1, <2>4 DEF Positional
    <3> QED BY <1>2, <1>3, <1>10, <2>4, <3>1, NameRead
  <2> QED BY <2>2, <2>3, <2>4
<1> QED BY <1>4, <1>5, <1>6, <1>7, <1>8, <1>9, <1>10 DEF OptionHeads

LEMMA LineStart == ASSUME LineInv, StartInstall PROVE LineInv'
<1>1. \A code, text : code \in {"success", "failure"} /\ Exit(code, text) => LineInv'
  BY LineKept DEF Exit
<1>2. ASSUME opt.device # None, ~opt.uninstall_mode, Goto("install") PROVE LineInv'
  BY <1>2 DEF LineInv, StartInstall, Goto, cliVars
<1>3. ASSUME opt.device # None, opt.uninstall_mode, Goto("uninstall") PROVE LineInv'
  BY <1>3 DEF LineInv, StartInstall, Goto, cliVars
<1> QED BY <1>1, <1>2, <1>3 DEF StartInstall

\* The step of enroll_config never is one of those LineInv is about.
LEMMA LineEnroll == ASSUME LineInv, EnrollNext, UNCHANGED cliVars PROVE LineInv'
<1>1. pc' = pc \/ pc' \notin {"main", "bios_install", "install", "uninstall"}
  BY DEF EnrollNext, ParseOption, CheckArgs, ReadFile, ReadFails, PatchCopy, WriteFile, WriteFails, Step
<1> QED BY <1>1, LineKept DEF cliVars

\* The invariant says what the property does once the arguments are through.
LEMMA LinePlace == ASSUME LineInv PROVE PlaceOfOptionsIrrelevant
<1> SUFFICES ASSUME pc \in {"install", "uninstall"}
             PROVE  /\ pc = "uninstall" <=> Given("--uninstall")
                    /\ opt.force_mbr = Given("--force-mbr") /\ opt.quiet = Given("--quiet")
                    /\ opt.gpt2mbr_allowed = ~Given("--no-gpt-to-mbr-isohybrid-conversion")
                    /\ (opt.uninstall_file # None) = Given(DataFile)
                    /\ opt.device = <<line[Min(Names)][1]>>
                    /\ opt.part_ndx = IF Min(Names) = Max(Names) THEN None ELSE <<line[Max(Names)][1]>>
  BY DEF PlaceOfOptionsIrrelevant
<1>1. 2..Len(line) = 2..(i - 1) BY DEF LineInv
<1>2. \A head : Given(head) <=> Seen(line, i, head) BY <1>1 DEF Given, Seen
<1>3. Names = NamesSeen(line, i) BY <1>1 DEF Names, NamesSeen
<1>4. PICK k \in Names : opt.device = <<line[k][1]>> /\ \A j \in Names : k <= j
  BY <1>3 DEF LineInv, DeviceRead
<1>5. \A j \in Names : j \in Nat BY DEF Names, LineInv
<1>6. Min(Names) = k BY <1>4, <1>5 DEF Min
<1>7. opt.part_ndx = IF Min(Names) = Max(Names) THEN None ELSE <<line[Max(Names)][1]>>
  <2>1. CASE opt.part_ndx = None
    <3>1. \A j \in Names : j = k BY <1>3, <1>4, <2>1 DEF LineInv, IndexRead
    <3>2. Max(Names) = k BY <1>4, <1>5, <3>1 DEF Max
    <3> QED BY <1>6, <2>1, <3>2
  <2>2. CASE opt.part_ndx # None
    <3>1. PICK j \in Names, m \in Names : j # m /\ opt.part_ndx = <<line[m][1]>> /\ \A n \in Names : n <= m
      BY <1>3, <2>2 DEF LineInv, IndexRead
    <3>2. Max(Names) = m BY <1>5, <3>1 DEF Max
    <3>3. m # k BY <1>4, <1>5, <3>1
    <3> QED BY <1>6, <3>1, <3>2, <3>3
  <2> QED BY <2>1, <2>2
<1>8. /\ pc = "uninstall" <=> Given("--uninstall")
      /\ opt.force_mbr <=> Given("--force-mbr")
      /\ opt.quiet <=> Given("--quiet")
      /\ opt.gpt2mbr_allowed <=> ~Given("--no-gpt-to-mbr-isohybrid-conversion")
      /\ (opt.uninstall_file # None) <=> Given(DataFile)
  BY <1>2 DEF LineInv, FlagsRead
<1>9. opt.force_mbr \in BOOLEAN /\ opt.quiet \in BOOLEAN /\ opt.gpt2mbr_allowed \in BOOLEAN
  BY DEF LineInv, Options
<1>10. \A head : Given(head) \in BOOLEAN BY DEF Given
<1>11. opt.force_mbr = Given("--force-mbr") BY <1>8, <1>9, <1>10, Zenon
<1>12. opt.quiet = Given("--quiet") BY <1>8, <1>9, <1>10, Zenon
<1>13. opt.gpt2mbr_allowed = ~Given("--no-gpt-to-mbr-isohybrid-conversion") BY <1>8, <1>9, <1>10, Zenon
<1>14. (opt.uninstall_file # None) = Given(DataFile) BY <1>8, <1>10, Zenon
<1> QED BY <1>4, <1>6, <1>7, <1>8, <1>11, <1>12, <1>13, <1>14

\* PlaceOfOptionsIrrelevant holds of every command line, whatever its length
\* and however often limine runs: the loop of bios_install over argv reads the
\* options the same wherever they stand.
THEOREM OptionsTheorem == Spec => []PlaceOfOptionsIrrelevant
<1>1. Init => LineInv
  <2> SUFFICES ASSUME Init PROVE LineInv OBVIOUS
  <2>1. PICK start \in Starts : EnrollInit(start[1]) /\ line = start[2] BY DEF Init
  <2>2. Len(line) \in Nat BY <2>1, LinesAssumption
  <2>3. pc = "main" BY <2>1 DEF EnrollInit
  <2> QED BY <2>2, <2>3, NothingSeen DEF Init, LineInv
<1>2. LineInv /\ [Next]_vars => LineInv'
  <2> SUFFICES ASSUME LineInv, [Next]_vars PROVE LineInv' OBVIOUS
  <2>1. CASE Main BY <2>1, LineMain
  <2>2. CASE PrintDatadir BY <2>2, LineKept DEF PrintDatadir, Exit
  <2>3. CASE Version BY <2>3, LineKept DEF Version, Exit
  <2>4. CASE ParseArg BY <2>4, LineParse
  <2>5. CASE StartInstall BY <2>5, LineStart
  <2>6. CASE Again BY <2>6, LinesAssumption, NothingSeen DEF Again, LineInv
  <2>7. CASE EnrollNext /\ UNCHANGED cliVars BY <2>7, LineEnroll
  <2>8. CASE UNCHANGED vars BY <2>8, LineKept DEF vars, cliVars, enrollVars
  <2> QED BY <2>1, <2>2, <2>3, <2>4, <2>5, <2>6, <2>7, <2>8 DEF Next
<1> QED BY <1>1, <1>2, LinePlace, PTL DEF Spec

-----------------------------------------------------------------------------
(* The search for the signature.                                           *)

\* A nonempty set of naturals has a least element.
LEMMA Least ==
    ASSUME NEW S \in SUBSET Nat, S # {}
    PROVE  \E m \in S : \A k \in S : m <= k
<1> DEFINE R == OpToRel(<, Nat)
<1>1. IsWellFoundedOn(R, Nat) BY NatLessThanWellFounded
<1>2. R = {ss \in Nat \X Nat : ss[1] < ss[2]} BY DEF OpToRel
<1> HIDE DEF R
<1>3. PICK m \in S : \A k \in S : ~(<<k, m>> \in R) BY <1>1, WFMin
<1>4. ASSUME NEW k \in S PROVE m <= k
  <2>1. <<k, m>> \notin R BY <1>3
  <2> QED BY <1>2, <2>1
<1> QED BY <1>4

\* Induction, on the set of the numbers a predicate holds of.
LEMMA Induct ==
    ASSUME NEW S, 0 \in S, \A n \in Nat : n \in S => n + 1 \in S
    PROVE  Nat \subseteq S
<1> DEFINE Out == {n \in Nat : n \notin S}
<1> SUFFICES ASSUME Out # {} PROVE FALSE OBVIOUS
<1>1. PICK m \in Out : \A k \in Out : m <= k BY Least
<1>2. m # 0 BY DEF Out
<1>3. m - 1 \in Nat /\ m - 1 \in S BY <1>1, <1>2
<1> QED BY <1>3

Start == [count |-> 0, loc |-> 0, oob |-> FALSE]
Looks(buf, f) ==
    f = [k \in 0..ScanBound(Len(buf)) |-> IF k = 0 THEN Start ELSE Look(buf, f[k - 1], k)]

LEMMA BoundNat == ASSUME NEW n \in Nat PROVE ScanBound(n) \in Nat
BY SigAssumption DEF ScanBound

\* The loop's states, as a function of how many characters it looked at.
LEMMA LooksExists ==
    ASSUME NEW buf, Len(buf) \in Nat
    PROVE  \E f : Looks(buf, f) /\ Scan(buf) = f[ScanBound(Len(buf))]
<1> DEFINE Upto(n, f) == f = [k \in 0..n |-> IF k = 0 THEN Start ELSE Look(buf, f[k - 1], k)]
           S == {n \in Nat : \E f : Upto(n, f)}
<1>1. 0 \in S
  <2> DEFINE f == [k \in 0..0 |-> Start]
  <2>1. f = [k \in 0..0 |-> IF k = 0 THEN Start ELSE Look(buf, f[k - 1], k)] OBVIOUS
  <2> HIDE DEF f
  <2> QED BY <2>1
<1>2. ASSUME NEW n \in Nat, n \in S PROVE n + 1 \in S
  <2>1. PICK f : Upto(n, f) BY <1>2
  <2> DEFINE g == [k \in 0..(n + 1) |-> IF k = n + 1 THEN Look(buf, f[n], n + 1) ELSE f[k]]
  <2>2. g = [k \in 0..(n + 1) |-> IF k = 0 THEN Start ELSE Look(buf, g[k - 1], k)]
    <3> SUFFICES ASSUME NEW k \in 0..(n + 1)
                 PROVE  g[k] = IF k = 0 THEN Start ELSE Look(buf, g[k - 1], k)
      OBVIOUS
    <3>1. CASE k = n + 1
      <4>1. g[k - 1] = f[n] BY <3>1
      <4> QED BY <3>1, <4>1
    <3>2. CASE k # n + 1
      <4>1. k \in 0..n /\ g[k] = f[k] BY <3>2
      <4>2. f[k] = IF k = 0 THEN Start ELSE Look(buf, f[k - 1], k) BY <2>1, <4>1
      <4>3. k # 0 => g[k - 1] = f[k - 1] BY <4>1
      <4> QED BY <4>1, <4>2, <4>3
    <3> QED BY <3>1, <3>2
  <2> HIDE DEF g
  <2>3. Upto(n + 1, g) BY <2>2
  <2> QED BY <2>3
<1> DEFINE N == ScanBound(Len(buf))
<1>3. N \in Nat BY BoundNat
<1> HIDE DEF N
<1>4. N \in S
  <2> HIDE DEF S
  <2> QED BY <1>1, <1>2, <1>3, Induct
<1>5. \E f : Upto(N, f) BY <1>4
<1> DEFINE h == CHOOSE f : Upto(N, f)
<1>6. Upto(N, h) BY <1>5
<1>7. Scan(buf) = h[N] BY DEF Scan, N, Start
<1>8. Looks(buf, h) BY <1>6 DEF Looks, N
<1> QED BY <1>7, <1>8 DEF N

\* The states of the loop, one by one.
LEMMA LooksStep ==
    ASSUME NEW buf, Len(buf) \in Nat, NEW f, Looks(buf, f)
    PROVE  /\ f[0] = Start
           /\ \A k \in Nat : k + 1 <= ScanBound(Len(buf)) => f[k + 1] = Look(buf, f[k], k + 1)
<1> DEFINE N == ScanBound(Len(buf))
<1>1. N \in Nat BY BoundNat
<1>2. f = [k \in 0..N |-> IF k = 0 THEN Start ELSE Look(buf, f[k - 1], k)] BY DEF Looks
<1> HIDE DEF N
<1>3. f[0] = Start BY <1>1, <1>2
<1>4. ASSUME NEW k \in Nat, k + 1 <= N PROVE f[k + 1] = Look(buf, f[k], k + 1)
  <2>1. k + 1 \in 0..N /\ k + 1 # 0 /\ (k + 1) - 1 = k BY <1>1, <1>4
  <2> QED BY <1>2, <2>1
<1> QED BY <1>3, <1>4 DEF N

\* What the loop's state says of the characters it looked at: the last ones
\* are a beginning of the signature, or the whole of it was found.
Looked(buf, s, k) ==
    /\ \E count, loc \in Nat, oob \in BOOLEAN : s = [count |-> count, loc |-> loc, oob |-> oob]
    /\ s.count < Len(Sig)
    /\ ~s.oob /\ s.loc = 0 =>
         s.count <= k /\ k <= Len(buf) /\ \A j \in 1..s.count : buf[k - s.count + j] = Sig[j]
    /\ s.loc # 0 =>
         /\ ~s.oob /\ s.loc > Len(Sig) /\ s.loc <= Len(buf) + 1
         /\ \A j \in 1..Len(Sig) : buf[s.loc - Len(Sig) - 1 + j] = Sig[j]

LEMMA LookedLoc ==
    ASSUME NEW buf, NEW s, NEW k, Looked(buf, s, k)
    PROVE  s.loc \in Nat
<1>1. PICK count \in Nat, loc \in Nat, oob \in BOOLEAN : s = [count |-> count, loc |-> loc, oob |-> oob]
  BY DEF Looked
<1> QED BY <1>1

LEMMA LookKeeps ==
    ASSUME NEW buf, Len(buf) \in Nat, NEW k \in Nat, NEW s, Looked(buf, s, k)
    PROVE  Looked(buf, Look(buf, s, k + 1), k + 1)
<1>1. PICK count \in Nat, loc \in Nat, oob \in BOOLEAN : s = [count |-> count, loc |-> loc, oob |-> oob]
  BY DEF Looked
<1>2. Len(Sig) \in Nat /\ Len(Sig) # 0 BY SigAssumption
<1> DEFINE t == Look(buf, s, k + 1)
<1>3. CASE Found(s) \/ s.oob
  <2>1. t = s BY <1>3 DEF Look
  <2> QED BY <1>3, <2>1 DEF Looked, Found
<1>4. CASE ~Found(s) /\ ~s.oob /\ k + 1 > Len(buf)
  <2>1. t = [count |-> count, loc |-> loc, oob |-> TRUE] BY <1>1, <1>4 DEF Look
  <2>2. s.loc = 0 /\ loc = 0 BY <1>1, <1>4 DEF Found
  <2>3. s.count < Len(Sig) BY DEF Looked
  <2>4. PICK b \in BOOLEAN : b = TRUE OBVIOUS
  <2>5. t = [count |-> count, loc |-> loc, oob |-> b] BY <2>1, <2>4
  <2> HIDE DEF t
  <2>6. t.count < Len(Sig) /\ t.oob /\ t.loc = 0 BY <1>1, <2>1, <2>2, <2>3
  <2> QED BY <2>5, <2>6 DEF Looked, t
<1>5. CASE ~Found(s) /\ ~s.oob /\ k + 1 <= Len(buf) /\ buf[k + 1] # Sig[s.count + 1]
  <2>1. t = [count |-> 0, loc |-> loc, oob |-> oob] BY <1>1, <1>5 DEF Look
  <2>2. s.loc = 0 /\ loc = 0 BY <1>1, <1>5 DEF Found
  <2> HIDE DEF t
  <2>3. t.count = 0 /\ ~t.oob /\ t.loc = 0 BY <1>1, <1>5, <2>1, <2>2
  <2> QED BY <1>2, <1>5, <2>1, <2>3 DEF Looked, t
<1>6. CASE /\ ~Found(s) /\ ~s.oob /\ k + 1 <= Len(buf) /\ buf[k + 1] = Sig[s.count + 1]
           /\ s.count + 1 = Len(Sig)
  <2>1. t = [count |-> 0, loc |-> k + 2, oob |-> oob]
    <3>1. t = [s EXCEPT !.loc = k + 1 + 1, !.count = 0] BY <1>6 DEF Look
    <3>2. k + 1 + 1 = k + 2 OBVIOUS
    <3> HIDE DEF t
    <3> QED BY <1>1, <3>1, <3>2
  <2>2. s.loc = 0 /\ count <= k /\ s.count = count BY <1>1, <1>6 DEF Found, Looked
  <2>3. \A j \in 1..count : buf[k - count + j] = Sig[j] BY <1>6, <2>2 DEF Looked
  <2> HIDE DEF t
  <2>4. t.count = 0 /\ ~t.oob /\ t.loc = k + 2 BY <1>1, <1>6, <2>1
  <2>5. ASSUME NEW j \in 1..Len(Sig) PROVE buf[t.loc - Len(Sig) - 1 + j] = Sig[j]
    <3>1. t.loc - Len(Sig) - 1 + j = k - count + j BY <1>2, <1>6, <2>2, <2>4
    <3>2. CASE j = count + 1
      <4>1. k - count + j = k + 1 BY <3>2
      <4> QED BY <1>6, <2>2, <3>1, <3>2, <4>1
    <3>3. CASE j # count + 1
      <4>1. j \in 1..count BY <1>2, <1>6, <2>2, <3>3
      <4> QED BY <2>3, <3>1, <4>1
    <3> QED BY <3>2, <3>3
  <2>6. t.loc > Len(Sig) /\ t.loc <= Len(buf) + 1 /\ t.loc # 0 BY <1>2, <1>6, <2>2, <2>4
  <2>7. k + 2 \in Nat OBVIOUS
  <2> QED BY <1>2, <2>1, <2>4, <2>5, <2>6, <2>7 DEF Looked, t
<1>7. CASE /\ ~Found(s) /\ ~s.oob /\ k + 1 <= Len(buf) /\ buf[k + 1] = Sig[s.count + 1]
           /\ s.count + 1 # Len(Sig)
  <2>1. t = [count |-> count + 1, loc |-> loc, oob |-> oob] BY <1>1, <1>7 DEF Look
  <2>2. s.loc = 0 /\ loc = 0 /\ count <= k /\ s.count = count /\ count < Len(Sig)
    BY <1>1, <1>7 DEF Found, Looked
  <2>3. \A j \in 1..count : buf[k - count + j] = Sig[j] BY <1>7, <2>2 DEF Looked
  <2> HIDE DEF t
  <2>4. t.count = count + 1 /\ ~t.oob /\ t.loc = 0 BY <1>1, <1>7, <2>1, <2>2
  <2>5. ASSUME NEW j \in 1..t.count PROVE buf[k + 1 - t.count + j] = Sig[j]
    <3>1. k + 1 - t.count + j = k - count + j BY <2>4
    <3>2. CASE j = count + 1
      <4>1. k - count + j = k + 1 BY <3>2
      <4> QED BY <1>7, <2>2, <3>1, <3>2, <4>1
    <3>3. CASE j # count + 1
      <4>1. j \in 1..count BY <2>4, <3>3
      <4> QED BY <2>3, <3>1, <4>1
    <3> QED BY <3>2, <3>3
  <2>6. t.count < Len(Sig) /\ t.count <= k + 1 BY <1>2, <1>7, <2>2, <2>4
  <2>7. count + 1 \in Nat OBVIOUS
  <2>8. \E c, l \in Nat, b \in BOOLEAN : t = [count |-> c, loc |-> l, oob |-> b] BY <2>1, <2>7
  <2>9. Looked(buf, t, k + 1) BY <1>7, <2>4, <2>5, <2>6, <2>8 DEF Looked
  <2> QED BY <2>9 DEF t
<1> QED BY <1>1, <1>2, <1>3, <1>4, <1>5, <1>6, <1>7

\* The search of a file: the signature stands before the slot it reports.
LEMMA ScanLooked ==
    ASSUME NEW buf, Len(buf) \in Nat, NEW f, Looks(buf, f), NEW n \in Nat, n <= ScanBound(Len(buf))
    PROVE  Looked(buf, f[n], n)
<1> DEFINE N == ScanBound(Len(buf))
           S == {k \in Nat : k <= N => Looked(buf, f[k], k)}
<1>1. N \in Nat BY BoundNat
<1>2. f[0] = Start /\ \A k \in Nat : k + 1 <= N => f[k + 1] = Look(buf, f[k], k + 1) BY LooksStep
<1> HIDE DEF N
<1>3. 0 \in S
  <2>1. PICK b \in BOOLEAN : b = FALSE OBVIOUS
  <2>2. Start = [count |-> 0, loc |-> 0, oob |-> b] BY <2>1 DEF Start
  <2>3. Start.count = 0 /\ Start.loc = 0 /\ ~Start.oob BY DEF Start
  <2>4. \E c, l \in Nat, d \in BOOLEAN : Start = [count |-> c, loc |-> l, oob |-> d] BY <2>2
  <2>5. Looked(buf, Start, 0) 
    <3> HIDE DEF S
    <3>1. \A j \in 1..0 : FALSE OBVIOUS
    <3>2. Start.count < Len(Sig) /\ Start.count <= 0 /\ 0 <= Len(buf) BY <2>3, SigAssumption
    <3>3. \A j \in 1..Start.count : buf[0 - Start.count + j] = Sig[j] BY <2>3, <3>1
    <3> QED BY <2>3, <2>4, <3>2, <3>3 DEF Looked
  <2> QED BY <1>2, <2>5
<1>4. ASSUME NEW k \in Nat, k \in S PROVE k + 1 \in S BY <1>1, <1>2, <1>4, LookKeeps
<1> HIDE DEF S
<1>5. n \in S BY <1>3, <1>4, Induct
<1> QED BY <1>5 DEF S, N

\* What was found stays found, from the step that found it on.
LEMMA FoundStays ==
    ASSUME NEW buf, Len(buf) \in Nat, NEW f, Looks(buf, f), NEW n \in Nat, n <= ScanBound(Len(buf)),
           f[n].loc # 0
    PROVE  f[n].loc \in Nat /\ \A m \in Nat : m <= n /\ m + 1 >= f[n].loc => f[m].loc = f[n].loc
<1> DEFINE N == ScanBound(Len(buf))
           Stays(k) == f[k].loc # 0 => \A m \in Nat : m <= k /\ m + 1 >= f[k].loc => f[m].loc = f[k].loc
           S == {k \in Nat : k <= N => Stays(k)}
<1>1. N \in Nat BY BoundNat
<1>2. f[0] = Start /\ \A k \in Nat : k + 1 <= N => f[k + 1] = Look(buf, f[k], k + 1) BY LooksStep
<1>3. \A k \in Nat : k <= N => Looked(buf, f[k], k) BY ScanLooked
<1> HIDE DEF N
<1>4. 0 \in S BY <1>2 DEF Start
<1>5. ASSUME NEW k \in Nat, k \in S PROVE k + 1 \in S
  <2> SUFFICES ASSUME k + 1 <= N, f[k + 1].loc # 0, NEW m \in Nat, m <= k + 1, m + 1 >= f[k + 1].loc
               PROVE  f[m].loc = f[k + 1].loc
    OBVIOUS
  <2>1. f[k + 1] = Look(buf, f[k], k + 1) BY <1>2
  <2>2. CASE m = k + 1 BY <2>2
  <2>3. CASE m # k + 1
    <3>1. m <= k /\ k <= N BY <1>1, <2>3
    <3>2. PICK count \in Nat, loc \in Nat, oob \in BOOLEAN : f[k] = [count |-> count, loc |-> loc, oob |-> oob]
      BY <1>3, <3>1 DEF Looked
    <3>3. CASE loc # 0
      <4>1. f[k + 1] = f[k] BY <2>1, <3>2, <3>3 DEF Look, Found
      <4> QED BY <1>5, <3>1, <3>2, <3>3, <4>1
    <3>4. CASE loc = 0
      <4>1. f[k + 1].loc \in {0, k + 2} BY <2>1, <3>2, <3>4 DEF Look, Found
      <4> QED BY <3>1, <4>1
    <3> QED BY <3>3, <3>4
  <2> QED BY <2>2, <2>3
<1> HIDE DEF S
<1>6. n \in S BY <1>4, <1>5, Induct
<1>7. f[n].loc \in Nat BY <1>3, LookedLoc DEF N
<1> QED BY <1>6, <1>7 DEF S, N

-----------------------------------------------------------------------------
(* The file.                                                               *)

\* The slot the search of the first executable reports.
Slot(o) ==
    {k \in 1..Len(o) :
        LET s == Scan(o)
        IN  ~s.oob /\ s.loc # 0 /\ s.loc + HashLen - 1 <= Len(o) /\ s.loc <= k /\ k <= s.loc + HashLen - 1}

IsSeq(f) == Len(f) \in Nat /\ f = [k \in 1..Len(f) |-> f[k]]
Same(f, o) == IsSeq(f) /\ Len(f) = Len(o) /\ \A k \in 1..Len(o) : f[k] = o[k] \/ k \in Slot(o)

\* A file that differs from the first in its slot at most is searched with the
\* same result: the search looks at nothing from the slot on.
LEMMA SameScan ==
    ASSUME NEW o, IsSeq(o), NEW f, Same(f, o)
    PROVE  Scan(f) = Scan(o)
<1> DEFINE N == ScanBound(Len(o))
<1>1. Len(o) \in Nat /\ Len(f) = Len(o) /\ N \in Nat BY BoundNat DEF Same, IsSeq
<1>2. PICK a : Looks(o, a) /\ Scan(o) = a[N] BY <1>1, LooksExists
<1>3. PICK b : Looks(f, b) /\ Scan(f) = b[N] BY <1>1, LooksExists
<1>4. a[0] = Start /\ \A k \in Nat : k + 1 <= N => a[k + 1] = Look(o, a[k], k + 1) BY <1>1, <1>2, LooksStep
<1>5. b[0] = Start /\ \A k \in Nat : k + 1 <= N => b[k + 1] = Look(f, b[k], k + 1) BY <1>1, <1>3, LooksStep
<1>6. \A n \in Nat : n <= N => Looked(o, a[n], n) BY <1>1, <1>2, ScanLooked
<1>7. a[N].loc # 0 => \A m \in Nat : m <= N /\ m + 1 >= a[N].loc => a[m].loc = a[N].loc
  BY <1>1, <1>2, FoundStays
<1>8. a[N].loc \in Nat
  <2> HIDE DEF N
  <2> QED BY <1>1, <1>6, LookedLoc
<1> HIDE DEF N
<1> DEFINE S == {k \in Nat : k <= N => a[k] = b[k]}
<1>9. 0 \in S BY <1>4, <1>5
<1>10. ASSUME NEW k \in Nat, k \in S PROVE k + 1 \in S
  <2> SUFFICES ASSUME k + 1 <= N PROVE a[k + 1] = b[k + 1] OBVIOUS
  <2>1. a[k] = b[k] BY <1>1, <1>10
  <2>2. a[k + 1] = Look(o, a[k], k + 1) /\ b[k + 1] = Look(f, a[k], k + 1) BY <1>4, <1>5, <2>1
  <2>3. CASE Found(a[k]) \/ a[k].oob \/ k + 1 > Len(o) BY <1>1, <2>2, <2>3 DEF Look
  <2>4. CASE ~Found(a[k]) /\ ~a[k].oob /\ k + 1 <= Len(o)
    <3>1. a[k].loc = 0 BY <2>4 DEF Found
    <3>2. a[N].loc = 0 \/ k + 1 < a[N].loc BY <1>1, <1>7, <1>8, <3>1
    <3>3. k + 1 \notin Slot(o) BY <1>1, <1>2, <1>8, <3>2 DEF Slot
    <3>4. f[k + 1] = o[k + 1] BY <1>1, <2>4, <3>3 DEF Same
    <3> QED BY <1>1, <2>2, <3>4 DEF Look
  <2> QED BY <2>3, <2>4
<1> HIDE DEF S
<1>11. N \in S BY <1>1, <1>9, <1>10, Induct
<1> QED BY <1>1, <1>2, <1>3, <1>11 DEF S

LEMMA SeqLen ==
    ASSUME NEW n \in Nat, NEW f, f = [k \in 1..n |-> f[k]]
    PROVE  Len(f) = n /\ IsSeq(f) /\ f \in Seq({f[k] : k \in 1..n})
<1> DEFINE T == {f[k] : k \in 1..n}
<1>1. f \in [1..n -> T] OBVIOUS
<1> HIDE DEF T
<1>2. f \in Seq(T) BY <1>1
<1>3. DOMAIN f = 1..n BY <1>1
<1>4. Len(f) = n BY <1>2, <1>3
<1> QED BY <1>2, <1>4 DEF T, IsSeq

\* The n characters of b after the first start, and a beginning of one
\* sequence followed by the rest of another of its length.
Part(T, p, b, start, n) == p \in Seq(T) /\ Len(p) = n /\ \A k \in 1..n : p[k] = b[start + k]
Mixed(T, g, b, f, n, size) ==
    g \in Seq(T) /\ Len(g) = size /\ \A k \in 1..size : g[k] = IF k <= n THEN b[k] ELSE f[k]

LEMMA Joined ==
    ASSUME NEW T, NEW p, NEW q, NEW b, NEW f, NEW n \in Nat, NEW size \in Nat, n <= size,
           Part(T, p, b, 0, n), Part(T, q, f, n, size - n)
    PROVE  Mixed(T, p \o q, b, f, n, size)
<1>1. p \in Seq(T) /\ q \in Seq(T) /\ Len(p) = n /\ Len(q) = size - n BY DEF Part
<1>2. /\ p \o q \in Seq(T) /\ Len(p \o q) = Len(p) + Len(q)
      /\ \A k \in 1..(Len(p) + Len(q)) : (p \o q)[k] = IF k <= Len(p) THEN p[k] ELSE q[k - Len(p)]
  BY <1>1, ConcatProperties
<1> DEFINE g == p \o q
<1> HIDE DEF g
<1>3. /\ g \in Seq(T) /\ Len(g) = size
      /\ \A k \in 1..size : g[k] = IF k <= n THEN p[k] ELSE q[k - n]
  BY <1>1, <1>2 DEF g
<1>4. ASSUME NEW k \in 1..size PROVE g[k] = IF k <= n THEN b[k] ELSE f[k]
  <2>1. CASE k <= n
    <3>1. k \in 1..n /\ 0 + k = k BY <2>1
    <3>2. g[k] = p[k] BY <1>3, <2>1
    <3>3. p[k] = b[0 + k] BY <3>1 DEF Part
    <3> QED BY <2>1, <3>1, <3>2, <3>3
  <2>2. CASE k > n
    <3>1. k - n \in 1..(size - n) /\ n + (k - n) = k BY <2>2
    <3>2. g[k] = q[k - n] BY <1>3, <2>2
    <3>3. q[k - n] = f[n + (k - n)] BY <3>1 DEF Part
    <3>4. ~ (k <= n) BY <2>2
    <3> QED BY <3>1, <3>2, <3>3, <3>4
  <2> QED BY <2>1, <2>2
<1>5. Mixed(T, g, b, f, n, size) BY <1>3, <1>4 DEF Mixed
<1> QED BY <1>5 DEF g

LEMMA Spliced ==
    ASSUME NEW T, NEW b \in Seq(T), NEW f \in Seq(T), Len(f) = Len(b), NEW n \in Nat, n <= Len(b)
    PROVE  Mixed(T, SubSeq(b, 1, n) \o SubSeq(f, n + 1, Len(f)), b, f, n, Len(b))
<1> DEFINE p == SubSeq(b, 1, n)
           q == SubSeq(f, n + 1, Len(f))
<1>1. Part(T, p, b, 0, n) BY DEF Part
<1>2. Part(T, q, f, n, Len(b) - n) BY DEF Part
<1>3. Len(b) \in Nat OBVIOUS
<1> HIDE DEF p, q
<1>4. Mixed(T, p \o q, b, f, n, Len(b)) BY <1>1, <1>2, <1>3, Joined
<1> QED BY <1>4 DEF p, q

\* The file a write that stopped after n characters leaves.
LEMMA Halfway ==
    ASSUME NEW b, IsSeq(b), NEW f, IsSeq(f), Len(f) = Len(b), NEW n \in 0..Len(b)
    PROVE  LET g == SubSeq(b, 1, n) \o SubSeq(f, n + 1, Len(f))
           IN  IsSeq(g) /\ Len(g) = Len(b) /\ \A k \in 1..Len(b) : g[k] \in {b[k], f[k]}
<1> DEFINE g == SubSeq(b, 1, n) \o SubSeq(f, n + 1, Len(f))
           T == {b[k] : k \in 1..Len(b)} \cup {f[k] : k \in 1..Len(f)}
<1>1. b \in [1..Len(b) -> T] /\ f \in [1..Len(f) -> T] BY DEF IsSeq
<1> HIDE DEF T
<1>2. Len(b) \in Nat /\ Len(f) = Len(b) /\ n \in Nat /\ n <= Len(b) BY DEF IsSeq
<1>3. b \in Seq(T) /\ f \in Seq(T) BY <1>1, <1>2
<1>4. Mixed(T, g, b, f, n, Len(b)) BY <1>2, <1>3, Spliced
<1> HIDE DEF g
<1>5. IsSeq(g) BY <1>2, <1>4 DEF IsSeq, Mixed
<1>6. IsSeq(g) /\ Len(g) = Len(b) /\ \A k \in 1..Len(b) : g[k] \in {b[k], f[k]} BY <1>4, <1>5 DEF Mixed
<1> QED BY <1>6 DEF g

FileInv ==
    /\ IsSeq(orig) /\ Same(file, orig)
    /\ pc = "scan" => bootloader = file
    /\ pc = "write" => Same(bootloader, orig)

\* The write may stop anywhere between two files that differ in the slot alone.
LEMMA SameHalfway ==
    ASSUME NEW o, IsSeq(o), NEW b, Same(b, o), NEW f, Same(f, o), NEW n \in 0..Len(b)
    PROVE  Same(SubSeq(b, 1, n) \o SubSeq(f, n + 1, Len(f)), o)
<1> DEFINE g == SubSeq(b, 1, n) \o SubSeq(f, n + 1, Len(f))
<1>1. IsSeq(b) /\ IsSeq(f) /\ Len(f) = Len(b) /\ Len(b) = Len(o) BY DEF Same
<1>2. IsSeq(g) /\ Len(g) = Len(b) /\ \A k \in 1..Len(b) : g[k] \in {b[k], f[k]} BY <1>1, Halfway
<1> HIDE DEF g
<1>3. ASSUME NEW k \in 1..Len(o) PROVE g[k] = o[k] \/ k \in Slot(o)
  <2>1. b[k] = o[k] \/ k \in Slot(o) BY DEF Same
  <2>2. f[k] = o[k] \/ k \in Slot(o) BY DEF Same
  <2> QED BY <1>1, <1>2, <2>1, <2>2
<1>4. Same(g, o) BY <1>1, <1>2, <1>3 DEF Same
<1> QED BY <1>4 DEF g

\* The patched copy differs from the first executable in the slot at most.
LEMMA SamePatched ==
    ASSUME NEW o, IsSeq(o), NEW b, Same(b, o), ~Scan(b).oob, Scan(b).loc # 0,
           Scan(b).loc + HashLen - 1 <= Len(b)
    PROVE  Same(Patched(b, Scan(b).loc), o)
<1>1. Len(o) \in Nat /\ Len(b) = Len(o) /\ DOMAIN b = 1..Len(o) BY DEF Same, IsSeq
<1>2. Scan(b) = Scan(o) BY SameScan
<1> DEFINE loc == Scan(b).loc
           g == Patched(b, loc)
<1>3. loc \in Nat
  <2> DEFINE N == ScanBound(Len(b))
  <2>1. N \in Nat BY <1>1, BoundNat
  <2>2. PICK f : Looks(b, f) /\ Scan(b) = f[N] BY <1>1, LooksExists
  <2>3. Looked(b, f[N], N) BY <1>1, <2>1, <2>2, ScanLooked
  <2> QED BY <2>2, <2>3, LookedLoc
<1>4. ASSUME NEW k \in 1..Len(o) PROVE k \in loc..(loc + HashLen - 1) => k \in Slot(o)
  BY <1>1, <1>2, <1>3, <1>4, SigAssumption DEF Slot
<1> HIDE DEF loc
<1>5. g = [k \in 1..Len(o) |-> g[k]] BY <1>1 DEF Patched
<1>6. ASSUME NEW k \in 1..Len(o) PROVE g[k] = b[k] \/ k \in loc..(loc + HashLen - 1) BY <1>1 DEF Patched
<1> HIDE DEF g
<1>7. Len(g) = Len(o) /\ IsSeq(g) BY <1>1, <1>5, SeqLen
<1>8. Same(g, o)
  <2>1. ASSUME NEW k \in 1..Len(o) PROVE g[k] = o[k] \/ k \in Slot(o)
    <3>1. b[k] = o[k] \/ k \in Slot(o) BY DEF Same
    <3> QED BY <1>4, <1>6, <3>1
  <2> QED BY <1>7, <2>1 DEF Same
<1> QED BY <1>8 DEF g, loc

\* A step that leaves the file alone, and reads it before the search.
LEMMA FileKept ==
    ASSUME FileInv, file' = file, orig' = orig, pc' # "write",
           pc' = "scan" => bootloader' = file
    PROVE  FileInv'
BY DEF FileInv

LEMMA FileEnroll == ASSUME FileInv, EnrollNext PROVE FileInv'
<1>1. CASE ParseOption BY <1>1, FileKept DEF ParseOption
<1>2. CASE CheckArgs BY <1>2, FileKept DEF CheckArgs
<1>3. CASE ReadFile BY <1>3, FileKept DEF ReadFile, Step
<1>4. CASE ReadFails BY <1>4, FileKept DEF ReadFails, Step
<1>5. CASE PatchCopy
  <2> DEFINE s == Scan(bootloader)
  <2>1. pc = "scan" /\ bootloader = file /\ Same(bootloader, orig) /\ IsSeq(orig) BY <1>5 DEF PatchCopy, FileInv
  <2>2. CASE s.oob \/ s.loc + HashLen - 1 > Len(bootloader)
    <3>1. Step("overrun", file, bootloader) BY <1>5, <2>2 DEF PatchCopy
    <3> QED BY <3>1, FileKept DEF Step
  <2>3. CASE ~(s.oob \/ s.loc + HashLen - 1 > Len(bootloader)) /\ s.loc = 0
    <3>1. Step("not_found", file, bootloader) BY <1>5, <2>3 DEF PatchCopy
    <3> QED BY <3>1, FileKept DEF Step
  <2>4. CASE ~(s.oob \/ s.loc + HashLen - 1 > Len(bootloader)) /\ s.loc # 0
    <3>1. Step("write", file, Patched(bootloader, s.loc)) BY <1>5, <2>4 DEF PatchCopy
    <3>2. s.loc + HashLen - 1 <= Len(bootloader)
      <4> DEFINE N == ScanBound(Len(bootloader))
      <4>1. Len(bootloader) \in Nat BY <2>1 DEF Same, IsSeq
      <4>2. N \in Nat BY <4>1, BoundNat
      <4>3. PICK f : Looks(bootloader, f) /\ s = f[N] BY <4>1, LooksExists
      <4>4. Looked(bootloader, f[N], N) BY <4>1, <4>2, <4>3, ScanLooked
      <4>5. s.loc \in Nat BY <4>3, <4>4, LookedLoc
      <4> HIDE DEF s
      <4> QED BY <2>4, <4>1, <4>5, SigAssumption
    <3>3. Same(Patched(bootloader, s.loc), orig) BY <2>1, <2>4, <3>2, SamePatched
    <3>4. pc' = "write" /\ file' = file /\ orig' = orig /\ bootloader' = Patched(bootloader, s.loc)
      BY <3>1 DEF Step
    <3> HIDE DEF s
    <3> QED BY <3>3, <3>4 DEF FileInv
  <2> QED BY <2>2, <2>3, <2>4
<1>6. CASE WriteFile BY <1>6 DEF WriteFile, Step, FileInv
<1>7. CASE WriteFails
  <2>1. PICK n \in 0..Len(bootloader) :
            Step("failed", SubSeq(bootloader, 1, n) \o SubSeq(file, n + 1, Len(file)), bootloader)
    BY <1>7 DEF WriteFails
  <2>2. IsSeq(orig) /\ Same(bootloader, orig) /\ Same(file, orig) BY <1>7 DEF WriteFails, FileInv
  <2>3. Same(SubSeq(bootloader, 1, n) \o SubSeq(file, n + 1, Len(file)), orig) BY <2>2, SameHalfway
  <2>4. file' = SubSeq(bootloader, 1, n) \o SubSeq(file, n + 1, Len(file)) /\ orig' = orig /\ pc' = "failed"
    BY <2>1 DEF Step
  <2>5. Same(file', orig') BY <2>3, <2>4
  <2> QED BY <2>2, <2>4, <2>5 DEF FileInv
<1> QED BY <1>1, <1>2, <1>3, <1>4, <1>5, <1>6, <1>7 DEF EnrollNext

LEMMA FileOneSlot == ASSUME FileInv PROVE OnlyOneSlotChanges
<1> DEFINE changed == {k \in DOMAIN orig : file[k] # orig[k]}
           s == Scan(orig)
           N == ScanBound(Len(orig))
<1>1. Len(orig) \in Nat /\ DOMAIN orig = 1..Len(orig) /\ Len(file) = Len(orig) BY DEF FileInv, Same, IsSeq
<1>2. \A k \in changed : k \in Slot(orig) BY <1>1 DEF FileInv, Same
<1>3. CASE changed = {} BY <1>1, <1>3 DEF OnlyOneSlotChanges
<1>4. CASE changed # {}
  <2>1. N \in Nat BY <1>1, BoundNat
  <2>2. PICK f : Looks(orig, f) /\ s = f[N] BY <1>1, LooksExists
  <2>3. Looked(orig, s, N) BY <1>1, <2>1, <2>2, ScanLooked
  <2>4. s.loc \in Nat BY <2>3, LookedLoc
  <2>5. PICK c \in changed : c \in Slot(orig) BY <1>2, <1>4
  <2>6. /\ s.loc # 0 /\ s.loc + HashLen - 1 <= Len(orig) /\ s.loc <= c /\ c <= s.loc + HashLen - 1 /\ c \in Nat
    BY <1>1, <2>5 DEF Slot
  <2>7. \A k \in changed : k \in s.loc..(s.loc + HashLen - 1) BY <1>1, <1>2, <2>4, SigAssumption DEF Slot
  <2> HIDE DEF s, N, changed
  <2> DEFINE loc == s.loc
             start == loc - Len(Sig)
  <2>8. loc \in 1..Len(orig) /\ start >= 1 /\ start \in Nat /\ Len(Sig) \in Nat /\ Len(Sig) # 0
    BY <1>1, <2>3, <2>4, <2>6, SigAssumption DEF Looked
  <2>9. \A j \in 1..Len(Sig) : orig[loc - Len(Sig) - 1 + j] = Sig[j] BY <2>3, <2>6 DEF Looked
  <2> HIDE DEF loc
  <2>10. SubSeq(orig, start, loc - 1) = Sig
    <3> DEFINE T == {orig[k] : k \in 1..Len(orig)}
    <3>1. orig \in Seq(T) BY <1>1, SeqLen DEF FileInv, IsSeq
    <3> HIDE DEF T
    <3> DEFINE sub == SubSeq(orig, start, loc - 1)
    <3>2. sub = [k \in 1..Len(Sig) |-> orig[start + k - 1]] BY <1>1, <2>8, <3>1
    <3> HIDE DEF sub
    <3>3. ASSUME NEW k \in 1..Len(Sig) PROVE orig[start + k - 1] = Sig[k]
      <4>1. start + k - 1 = loc - Len(Sig) - 1 + k BY <2>8
      <4> QED BY <2>9, <4>1
    <3>4. sub = [k \in 1..Len(Sig) |-> Sig[k]] BY <3>2, <3>3
    <3> QED BY <3>4, SigAssumption DEF sub
  <2>11. SlotAt(loc) BY <2>6, <2>8, <2>10 DEF SlotAt, loc
  <2>12. loc \in DOMAIN orig /\ changed \subseteq loc..(loc + HashLen - 1) BY <1>1, <2>7, <2>8 DEF loc
  <2> QED BY <1>1, <2>11, <2>12 DEF OnlyOneSlotChanges, changed
<1> QED BY <1>3, <1>4

\* OnlyOneSlotChanges holds of every executable, for any signature and sum,
\* any number of enroll-config runs and writes that stop anywhere: the search
\* of enroll_config finds the slot of the first run again whatever sum was
\* left in it.
THEOREM SlotTheorem == Spec => []OnlyOneSlotChanges
<1>1. Init => FileInv
  <2> SUFFICES ASSUME Init PROVE FileInv OBVIOUS
  <2>1. PICK start \in Starts : EnrollInit(start[1]) /\ line = start[2] BY DEF Init
  <2>2. IsSeq(orig) BY <2>1, LinesAssumption DEF EnrollInit, IsSeq
  <2>3. file = orig /\ pc = "main" BY <2>1 DEF EnrollInit
  <2> QED BY <2>2, <2>3 DEF FileInv, Same
<1>2. FileInv /\ [Next]_vars => FileInv'
  <2> SUFFICES ASSUME FileInv, [Next]_vars PROVE FileInv' OBVIOUS
  <2>1. CASE Main
    <3>1. \A code, text : code \in {"success", "failure"} /\ Exit(code, text) => FileInv'
      BY FileKept DEF Exit, enrollLocals
    <3>2. \A next : next \in {"print_datadir", "version", "bios_install"} /\ Goto(next) => FileInv'
      BY FileKept DEF Goto, enrollLocals
    <3>3. \A args : Enroll(args) => FileInv' BY FileKept DEF Enroll
    <3> QED BY <2>1, <3>1, <3>2, <3>3 DEF Main
  <2>2. CASE PrintDatadir BY <2>2, FileKept DEF PrintDatadir, Exit, enrollLocals
  <2>3. CASE Version BY <2>3, FileKept DEF Version, Exit, enrollLocals
  <2>4. CASE ParseArg
    <3>1. pc' \in {"success", "failure", "bios_install"} /\ UNCHANGED enrollLocals
      BY <2>4 DEF ParseArg, Exit, NextArg, SetDataFile, Positional
    <3> QED BY <3>1, FileKept DEF enrollLocals
  <2>5. CASE StartInstall
    <3>1. pc' \in {"failure", "install", "uninstall"} /\ UNCHANGED enrollLocals
      BY <2>5 DEF StartInstall, Exit, Goto
    <3> QED BY <3>1, FileKept DEF enrollLocals
  <2>6. CASE Again BY <2>6, FileKept DEF Again, enrollLocals
  <2>7. CASE EnrollNext /\ UNCHANGED cliVars BY <2>7, FileEnroll
  <2>8. CASE UNCHANGED vars BY <2>8 DEF vars, enrollVars, FileInv
  <2> QED BY <2>1, <2>2, <2>3, <2>4, <2>5, <2>6, <2>7, <2>8 DEF Next
<1> QED BY <1>1, <1>2, FileOneSlot, PTL DEF Spec
=============================================================================
