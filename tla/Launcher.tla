------------------------------ MODULE Launcher ------------------------------
(***************************************************************************)
(* The launcher (launcher_main.cpp): it puts the Qt directory in front of  *)
(* the MyApps directory in Path, says where the plug-ins are, and starts   *)
(* the store with the certificates of the MyApps directory.                *)
(*                                                                         *)
(* Paths are sequences of characters, since what the launcher does to them *)
(* is its whole work; the constants hold few of each.                      *)
(***************************************************************************)
EXTENDS Integers, Sequences, FiniteSets, SequencesExt

CONSTANTS
    BinPath,       \* MyApps.dir\bin
    Certs,         \* certs
    PathTexts,     \* what Path may be
    QtEnvs,        \* values of MYAPPS_QT_PATH, the empty one included
    UserArgs       \* command lines of the launcher

Backslash == "\\"
Semicolon == ";"
Empty == <<>>

ASSUME LauncherAssumption ==
    /\ \A s \in {BinPath, Certs} \cup PathTexts \cup QtEnvs \cup UserArgs : s \in Seq(Range(s))
    /\ BinPath # Empty /\ Last(BinPath) # Backslash
    /\ \A p \in QtEnvs : Semicolon \notin Range(p)

VARIABLES
    path,          \* Path at the start
    qt_path,       \* the directory compute_qt_path found, or Empty
    given,         \* the launcher's own arguments
    env_path,      \* Path as the store gets it, or Unset while it is prepared
    plugin_path,   \* QT_PLUGIN_PATH as the store gets it; Empty: left alone
    args           \* the arguments of the store; Unset until it is started

vars == <<path, qt_path, given, env_path, plugin_path, args>>

Unset == <<"unset">>

-----------------------------------------------------------------------------
(* Strings.                                                                *)

\* rfind: the offset of the last occurrence, or -1 (npos).
RFind(s, pattern) ==
    LET at == {k \in 0 .. Len(s) - Len(pattern) :
                 SubSeq(s, k + 1, k + Len(pattern)) = pattern}
    IN  IF at = {} THEN -1 ELSE CHOOSE k \in at : \A l \in at : l <= k

\* Mutant of matches: a trailing backslash is not allowed for.
matchesNoBackslash(s, pattern) ==
    LET off == RFind(s, pattern)
    IN  off # -1 /\ off = Len(s) - Len(pattern)

matches(s, pattern) ==
    LET off == RFind(s, pattern)
    IN  off # -1 /\ off = IF Last(s) = Backslash THEN Len(s) - 1 - Len(pattern)
                                                 ELSE Len(s) - Len(pattern)

\* to_vector: what is before, between and after the semicolons.
Cut(entries, c) == IF c = Semicolon THEN Append(entries, Empty)
                   ELSE [entries EXCEPT ![Len(entries)] = Append(@, c)]

Scan(text) == LET scan[k \in 0 .. Len(text)] ==
                    IF k = 0 THEN <<Empty>> ELSE Cut(scan[k - 1], text[k])
              IN  scan

Entries(text) == Scan(text)[Len(text)]

path_vec == Entries(path)

-----------------------------------------------------------------------------
(* The loop over the entries of Path: the text of the new Path, and the    *)
(* last MyApps directory among them.                                       *)

AddEntry(acc, p, qt) ==
    LET sep == IF acc.text # Empty THEN <<Semicolon>> ELSE Empty
    IN  IF matches(p, BinPath)
          THEN [text |-> acc.text \o sep
                           \o (IF qt # Empty THEN Append(qt, Semicolon) ELSE Empty) \o p,
                bin |-> p]
        ELSE IF p # Empty THEN [acc EXCEPT !.text = @ \o sep \o p]
        ELSE acc

Loop(entries, qt) == LET new[k \in 0 .. Len(entries)] ==
                           IF k = 0 THEN [text |-> Empty, bin |-> Empty]
                           ELSE AddEntry(new[k - 1], entries[k], qt)
                     IN  new

NewPaths == Loop(path_vec, qt_path)[Len(path_vec)]

\* native_environment's append.
EnvAppend(text, value) == IF text = Empty THEN value ELSE text \o <<Semicolon>> \o value

Init ==
    /\ path \in PathTexts
    /\ qt_path \in QtEnvs \cup {Empty}
    /\ given \in UserArgs
    /\ env_path = Unset /\ plugin_path = Empty /\ args = Unset

SetEnvironment ==
    /\ env_path = Unset
    /\ LET new == NewPaths
       IN  /\ env_path' = IF new.bin = Empty THEN EnvAppend(path, qt_path)
                          ELSE IF qt_path # Empty THEN new.text
                          ELSE path
           /\ plugin_path' = IF qt_path # Empty THEN qt_path ELSE new.bin
    /\ UNCHANGED <<path, qt_path, given, args>>

\* Mutant of CertsOf: the trailing backslash stays.
CertsOfWhole(bin) == bin \o <<Backslash>> \o Certs

CertsOf(bin) ==
    (IF Last(bin) = Backslash THEN Front(bin) ELSE bin) \o <<Backslash>> \o Certs

Spawn ==
    /\ env_path # Unset /\ args = Unset
    /\ LET bin == NewPaths.bin
       IN  args' = (IF bin # Empty THEN <<"--secure-prefix", CertsOf(bin)>> ELSE <<>>) \o given
    /\ UNCHANGED <<path, qt_path, given, env_path, plugin_path>>

Next == SetEnvironment \/ Spawn

Spec == Init /\ [][Next]_vars

-----------------------------------------------------------------------------
(* Properties.                                                             *)

IsBin(p) == IsSuffix(BinPath, p) \/ IsSuffix(Append(BinPath, Backslash), p)

\* What a loader goes through: the entries that are not empty; and the
\* directory qt, if there is one, right before each MyApps directory.
WithQt(p, qt) == IF p = Empty THEN <<>>
                 ELSE IF qt # Empty /\ IsBin(p) THEN <<qt, p>> ELSE <<p>>

Listed(entries, qt) == FlattenSeq([k \in 1 .. Len(entries) |-> WithQt(entries[k], qt)])

Listing(text) == Listed(Entries(text), Empty)

\* The store's Path lists what Path listed, in its order, and a Qt directory
\* that was found right before each MyApps directory, however that is spelt,
\* or last where there is none: never behind a MyApps directory, whose own
\* Qt libraries would be loaded instead.
PathFindsQt ==
    env_path # Unset =>
      Listing(env_path) =
        IF qt_path # Empty /\ ~\E p \in Range(path_vec) : IsBin(p)
          THEN Append(Listing(path), qt_path)
          ELSE Listed(path_vec, qt_path)

\* The certificates are those beside a MyApps directory of the new Path,
\* whichever way it is spelt, and the user's arguments follow.
CertsInBin ==
    args # Unset =>
      IF Len(args) > Len(given)
        THEN /\ IsSuffix(BinPath \o <<Backslash>> \o Certs, args[2])
             /\ \E p \in Range(Listing(env_path)) : IsBin(p) /\ IsPrefix(p, args[2])
             /\ IsSuffix(given, args)
        ELSE args = given /\ ~\E p \in Range(path_vec) : IsBin(p)
=============================================================================
