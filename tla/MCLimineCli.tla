---------------------------- MODULE MCLimineCli ----------------------------
(* Instances of LimineCli for TLC: every bios-install line of up to four    *)
(* arguments on one executable, and enroll-config lines on many.  The       *)
(* signature starts and ends with the same character, as the code's does.   *)
EXTENDS LimineCli, TLC

PlusSig == <<"+", "C", "+">>
\* Short files that end with "0", and longer ones where a sum that holds the
\* signature is searched as well.
ShortFiles == {f \o <<"0">> : f \in [1..4 -> {"+", "C", "0"}] \cup [1..8 -> {"+", "C", "0"}]}
LongFiles == {PlusSig \o f \o <<"0", "0", "0", "0", "0">> : f \in [1..3 -> {"+", "C", "0"}]}
OneFile == PlusSig \o <<"0", "0", "0">>

SomeText ==
    "signature" :> PlusSig @@ "sum" :> <<"C", "+", "C">> @@ "short" :> <<"C">>
        @@ [name \in {"limine.sys", "--quiet", "--reset"} |-> <<>>]

Word(head) == <<head, <<>>>>
Words(heads) == [k \in DOMAIN heads |-> Word(heads[k])]
EnrollLines ==
    {Words(<<"enroll-config">> \o args) :
        args \in {<<"limine.sys", "signature">>, <<"limine.sys", "sum">>, <<"--reset", "limine.sys">>}}
OtherLines ==
    {<<>>, Words(<<"version", "--help">>), Words(<<"version", "--version-only">>), Words(<<"version", "x">>)}
    \cup {<<Word(w)>> : w \in {"help", "-h", "--print-datadir", "--version", "nonsense"}}
    \cup {Words(<<"enroll-config">> \o args) :
            args \in {<<>>, <<"--help">>, <<"limine.sys">>, <<"limine.sys", "short">>, <<"other", "sum">>,
                      <<"--quiet", "--reset", "limine.sys">>}}

InstallWords ==
    {Word(w) : w \in {"--help", "--quiet", "--force-mbr", "--no-gpt-to-mbr-isohybrid-conversion", "--uninstall",
                      DataFile, "disk", "other", "1"}}
    \cup {<<DataFile, <<"=", "f">>>>, <<DataFile, <<"=">>>>}
InstallLines(n) == {<<Word("bios-install")>> \o args : args \in SeqOf(InstallWords, n)}

SomeStarts ==
    ((ShortFiles \cup LongFiles) \X EnrollLines) \cup ({OneFile, <<>>} \X OtherLines)
        \cup ({OneFile} \X InstallLines(4))
=============================================================================
