------------------------------ MODULE Startup ------------------------------
(***************************************************************************)
(* The parameters of the store (store_main.cpp): options on the command    *)
(* line, in a configuration file or by default; the configuration file     *)
(* that --generate-config writes; and the process that may die while it    *)
(* does.  A mutex keeps the store to one process, so there is one here; a  *)
(* second one ends before it reads anything, as does one that is asked for *)
(* help or given options that do not parse.                                *)
(*                                                                         *)
(* An option's value is what it parses to.  boost::program_options is      *)
(* modelled as it is used: storing takes the options that no earlier store *)
(* has set, and a configuration file loses what follows a '#'.             *)
(***************************************************************************)
EXTENDS Integers, Sequences, FiniteSets, SequencesExt

CONSTANTS
    Options,      \* the configuration options, in the order they are written
    Default,      \* the default of each
    Implicit,     \* the value of an option that is given alone, if it has one
    Values,       \* values the user gives each
    ReadBack,     \* what a value written to the file is read as
    Paths,        \* configuration files
    DefaultPath   \* configPath

OptionSet == Range(Options)
None  == "none"       \* no configuration path on the command line
Alone == "alone"      \* an option given without a value

ASSUME StartupAssumption ==
    /\ Options \in Seq(OptionSet) /\ IsInjective(Options)
    /\ DOMAIN Default = OptionSet /\ DOMAIN Values = OptionSet
    /\ DOMAIN Implicit \subseteq OptionSet
    /\ DefaultPath \in Paths /\ None \notin Paths

VARIABLES
    phase,        \* the process: off, rename, open, write, running
    args,         \* its command line
    params,       \* the parameters; while generating, the values to write
    file,         \* the configuration file at each path
    old,          \* the file renamed to .old
    prior,        \* history: the file there was when the last generation began
    generated     \* history: what a generation has written, until it is changed

histVars == <<prior, generated>>
vars == <<phase, args, params, file, old, histVars>>

\* A file: whether it is there, and the options in it.
File(options) == [there |-> TRUE, options |-> options]
Missing       == [there |-> FALSE, options |-> <<>>]

\* One more option after those in a file.
Listed(options, o, v) ==
    [x \in DOMAIN options \cup {o} |-> IF x \in DOMAIN options THEN options[x] ELSE v]

\* A command line: the options with their texts, --config, --generate-config.
Texts(o) == Values[o] \cup (IF o \in DOMAIN Implicit THEN {Alone} ELSE {})
Given == UNION {[S -> UNION {Texts(o) : o \in OptionSet}] : S \in SUBSET OptionSet}
CommandLines ==
    [given : {g \in Given : \A o \in DOMAIN g : g[o] \in Texts(o)},
     config : Paths \cup {None}, generate : BOOLEAN]

Parsed(given) == [o \in DOMAIN given |-> IF given[o] = Alone THEN Implicit[o] ELSE given[o]]
ReadFile(f)   == [o \in DOMAIN f.options |-> ReadBack[f.options[o]]]
CfgPath(a)    == IF a.config = None THEN DefaultPath ELSE a.config

-----------------------------------------------------------------------------
(* variables_map: options set by an earlier store stay.                    *)

Defaults == [o \in OptionSet |-> [value |-> Default[o], defaulted |-> TRUE]]
Store(vm, parsed) ==
    [o \in OptionSet |-> IF o \in DOMAIN parsed /\ vm[o].defaulted
                           THEN [value |-> parsed[o], defaulted |-> FALSE] ELSE vm[o]]
ValuesOf(vm) == [o \in OptionSet |-> vm[o].value]

\* Mutant of Merged: the file is stored before the command line.
MergedFileFirst(given, f) ==
    ValuesOf(Store(Store(Defaults, IF f.there THEN ReadFile(f) ELSE <<>>), Parsed(given)))

\* The parameters of a command line and a file that may be missing.
Merged(given, f) ==
    ValuesOf(Store(Store(Defaults, Parsed(given)), IF f.there THEN ReadFile(f) ELSE <<>>))

-----------------------------------------------------------------------------
NoArgs == [given |-> <<>>, config |-> None, generate |-> FALSE]

\* The process is gone, and with it its command line and parameters.
Gone == /\ phase' = "off"
        /\ args' = NoArgs
        /\ params' = ValuesOf(Defaults)

Init ==
    /\ phase = "off"
    /\ args = NoArgs
    /\ params = ValuesOf(Defaults)
    /\ file = [p \in Paths |-> Missing]
    /\ old = file /\ prior = file /\ generated = file

\* parse, up to the writing of a file.  A file that was asked for and is not
\* there ends the program; the default one may be missing.
Start(a) ==
    /\ phase = "off"
    /\ args' = a
    /\ LET path == CfgPath(a)
       IN  \/ /\ a.generate
              /\ phase' = "rename"
              /\ params' = Merged(a.given, Missing)
              /\ prior' = [prior EXCEPT ![path] = file[path]]
              /\ generated' = [generated EXCEPT ![path] = Missing]
           \/ /\ ~a.generate
              /\ file[path].there \/ a.config = None
              /\ phase' = "running"
              /\ params' = Merged(a.given, file[path])
              /\ UNCHANGED histVars
    /\ UNCHANGED <<file, old>>

\* Mutant of Rename: a file that is there is written over.
RenameNothing ==
    /\ phase = "rename"
    /\ phase' = "open"
    /\ UNCHANGED <<args, params, file, old, histVars>>

\* writeConfigurationFile: an existing file becomes .old.
Rename ==
    /\ phase = "rename"
    /\ phase' = "open"
    /\ LET path == CfgPath(args)
       IN  IF file[path].there
             THEN /\ old' = [old EXCEPT ![path] = file[path]]
                  /\ file' = [file EXCEPT ![path] = Missing]
             ELSE UNCHANGED <<old, file>>
    /\ UNCHANGED <<args, params, histVars>>

\* Mutant of OpenFile: a file that cannot be created is not noticed.
OpenFileUnchecked ==
    /\ phase = "open"
    /\ phase' = "write"
    /\ file' \in {[file EXCEPT ![CfgPath(args)] = File(<<>>)], file}
    /\ UNCHANGED <<args, params, old, histVars>>

\* The new file is created, or cannot be, which ends the program.
OpenFile ==
    /\ phase = "open"
    /\ \/ /\ phase' = "write"
          /\ file' = [file EXCEPT ![CfgPath(args)] = File(<<>>)]
          /\ UNCHANGED <<args, params>>
       \/ /\ Gone
          /\ UNCHANGED file
    /\ UNCHANGED <<old, histVars>>

\* Mutant of WriteOption: what is written is the default.
WriteOptionDefault ==
    /\ phase = "write"
    /\ LET path == CfgPath(args)
           k    == Cardinality(DOMAIN file[path].options) + 1
       IN  /\ k <= Len(Options)
           /\ file' = [file EXCEPT ![path].options = Listed(@, Options[k], Default[Options[k]])]
    /\ UNCHANGED <<phase, args, params, old, histVars>>

WriteOption ==
    /\ phase = "write"
    /\ LET path == CfgPath(args)
           k    == Cardinality(DOMAIN file[path].options) + 1
       IN  /\ k <= Len(Options)
           /\ file' = [file EXCEPT ![path].options = Listed(@, Options[k], params[Options[k]])]
    /\ UNCHANGED <<phase, args, params, old, histVars>>

FileWritten ==
    /\ phase = "write"
    /\ DOMAIN file[CfgPath(args)].options = OptionSet
    /\ Gone
    /\ generated' = [generated EXCEPT ![CfgPath(args)] = File(params)]
    /\ UNCHANGED <<file, old, prior>>

\* The process ends: the user quits, or it is killed wherever it is.
End ==
    /\ phase # "off"
    /\ Gone
    /\ UNCHANGED <<file, old, histVars>>

\* The user edits a configuration file while the store is not running.
Edit ==
    /\ phase = "off"
    /\ \E p \in Paths, o \in OptionSet : \E v \in Values[o] :
         /\ file' = [file EXCEPT ![p] = File(Listed(<<>>, o, v))]
         /\ prior' = [prior EXCEPT ![p] = Missing]
         /\ generated' = [generated EXCEPT ![p] = Missing]
    /\ UNCHANGED <<phase, args, params, old>>

Next == \/ \E a \in CommandLines : Start(a)
        \/ Rename \/ OpenFile \/ WriteOption \/ FileWritten \/ End \/ Edit

Spec == Init /\ [][Next]_vars

-----------------------------------------------------------------------------
(* Properties.                                                             *)

TypeOK ==
    /\ phase \in {"off", "rename", "open", "write", "running"}
    /\ args \in CommandLines
    /\ DOMAIN params = OptionSet
    /\ \A p \in Paths : /\ DOMAIN file[p].options \subseteq OptionSet
                        /\ ~file[p].there => file[p] = Missing

\* The command line wins over the file, and the file over the defaults, for
\* each option on its own: also with a file that lists some options only, or
\* that was cut off while it was written.
CommandLineWins ==
    phase = "running" =>
      LET f == file[CfgPath(args)]
      IN  \A o \in OptionSet :
            params[o] = IF o \in DOMAIN args.given THEN Parsed(args.given)[o]
                        ELSE IF o \in DOMAIN f.options THEN ReadBack[f.options[o]]
                        ELSE Default[o]

\* A generation does not lose the file it replaces, whenever it is
\* interrupted or cannot go on: the file is where it was, or under .old.  (The
\* next generation does.)
PreviousSurvives ==
    \A p \in Paths : prior[p].there => prior[p] \in {file[p], old[p]}

\* A store started with nothing but a generated file has the parameters of
\* the command line that generated it - those whose values survive being
\* written to a file.
GeneratedReproduces ==
    LET g == generated[CfgPath(args)]
    IN  (phase = "running" /\ args.given = <<>> /\ g.there) =>
          \A o \in OptionSet : ReadBack[g.options[o]] = g.options[o] => params[o] = g.options[o]

\* The option -S is described as "Debug unbuffered": given on its own it
\* would make the log unbuffered.
DebugUnbuffered ==
    (phase = "running" /\ "debug-buffered" \in DOMAIN args.given) =>
      (args.given["debug-buffered"] = Alone => params["debug-buffered"] = "false")
=============================================================================
