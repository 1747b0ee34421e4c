----------------------------- MODULE MCLauncher -----------------------------
(***************************************************************************)
(* Instances of Launcher for TLC: b\c stands for MyApps.dir\bin, and Path  *)
(* lists up to three texts: the directory in both spellings and behind a   *)
(* drive, parts of it, two of it in one, something else, and nothing.      *)
(***************************************************************************)
EXTENDS Launcher

CONSTANT MaxEntries    \* the number of texts in Path

Bin     == <<"b", "\\", "c">>
CertDir == <<"x">>
Texts   == {Empty} \cup
    {<<"b", "\\", "c">>, <<"b", "\\", "c", "\\">>, <<"a", "b", "\\", "c">>,
     <<"a", "\\", "b", "\\", "c", "\\">>, <<"b", "\\">>, <<"c", "\\">>, <<"b", "\\", "c", "c">>,
     <<"b", "\\", "c", "b", "\\", "c">>, <<"b", "\\", "c", "\\", "\\">>, <<"a">>}
QtDirs  == {Empty, <<"q">>}
NoArgs  == {<<>>, <<"-C">>}

Joined(entries) ==
    FlattenSeq([k \in DOMAIN entries |-> IF k = 1 THEN entries[k]
                                         ELSE <<Semicolon>> \o entries[k]])
Joins   == {Joined(v) : v \in UNION {[1 .. n -> Texts] : n \in 0 .. MaxEntries}}
=============================================================================
