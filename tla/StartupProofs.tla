--------------------------- MODULE StartupProofs ---------------------------
(***************************************************************************)
(* Proofs about Startup, for any options, values and configuration files.  *)
(*                                                                         *)
(* Each of the three properties is about a file that another step could    *)
(* change in between, so the invariant says for each phase of a generation *)
(* where the previous file is and what the new one holds so far, and that  *)
(* a running store still has the file it was started with.                 *)
(***************************************************************************)
EXTENDS Startup, FiniteSetTheorems, SequenceTheorems, TLAPS

IsFunction(f) == f = [o \in DOMAIN f |-> f[o]]

\* A file that is missing, or one with some of the options.
IsFile(f) ==
    \/ f = Missing
    \/ /\ f = File(f.options) /\ f.there
       /\ IsFunction(f.options) /\ DOMAIN f.options \subseteq OptionSet

Types ==
    /\ phase \in {"off", "rename", "open", "write", "running"}
    /\ args \in CommandLines
    /\ IsFunction(params) /\ DOMAIN params = OptionSet
    /\ DOMAIN file = Paths /\ \A p \in Paths : IsFile(file[p])
    /\ DOMAIN old = Paths /\ DOMAIN prior = Paths /\ DOMAIN generated = Paths

\* The file that a generation replaces, and where it is in each phase.
Replaced ==
    /\ phase = "rename" => prior[CfgPath(args)] = file[CfgPath(args)]
    /\ phase \in {"open", "write"} =>
         (prior[CfgPath(args)].there => prior[CfgPath(args)] = old[CfgPath(args)])
    /\ PreviousSurvives

\* A file that is being written holds what is to be written, as far as it goes.
Written ==
    /\ phase \in {"rename", "open", "write"} => ~generated[CfgPath(args)].there
    /\ phase = "write" =>
         LET f == file[CfgPath(args)]
         IN  f.there /\ \A o \in DOMAIN f.options : f.options[o] = params[o]
    /\ \A p \in Paths : generated[p].there =>
         generated[p] = file[p] /\ DOMAIN file[p].options = OptionSet

Running == phase = "running" => params = Merged(args.given, file[CfgPath(args)])

SInv == Types /\ Replaced /\ Written /\ Running

-----------------------------------------------------------------------------
(* Files and parameters.                                                   *)

LEMMA CfgPathType == ASSUME NEW a \in CommandLines PROVE CfgPath(a) \in Paths
BY StartupAssumption DEF CommandLines, CfgPath

LEMMA NoArgsType == NoArgs \in CommandLines
<1>1. <<>> \in Given
  <2>1. <<>> \in [{} -> UNION {Texts(o) : o \in OptionSet}]
    OBVIOUS
  <2>2. {} \in SUBSET OptionSet
    OBVIOUS
  <2> QED
    BY <2>1, <2>2 DEF Given
<1> QED
  BY <1>1 DEF NoArgs, CommandLines

LEMMA FileFields ==
    /\ ~Missing.there /\ Missing.options = <<>>
    /\ \A f : File(f).there /\ File(f).options = f /\ File(f) = File(File(f).options)
BY DEF Missing, File

LEMMA ValuesAreParameters ==
    ASSUME NEW vm PROVE IsFunction(ValuesOf(vm)) /\ DOMAIN ValuesOf(vm) = OptionSet
BY DEF ValuesOf, IsFunction

\* What a store finds for each option.
LEMMA MergedValues ==
    ASSUME NEW given, NEW f, IsFile(f), NEW o \in OptionSet
    PROVE  Merged(given, f)[o] =
             IF o \in DOMAIN given THEN Parsed(given)[o]
             ELSE IF o \in DOMAIN f.options THEN ReadBack[f.options[o]]
             ELSE Default[o]
<1> DEFINE read == IF f.there THEN ReadFile(f) ELSE <<>>
           vm1  == Store(Defaults, Parsed(given))
           vm2  == Store(vm1, read)
<1>1. DOMAIN Parsed(given) = DOMAIN given
  BY DEF Parsed
<1>2. DOMAIN read = DOMAIN f.options
      /\ \A x \in DOMAIN f.options : read[x] = ReadBack[f.options[x]]
  <2>1. CASE f = Missing
    BY <2>1, FileFields
  <2>2. CASE f # Missing
    BY <2>2 DEF IsFile, ReadFile
  <2> QED
    BY <2>1, <2>2
<1>3. Defaults[o] = [value |-> Default[o], defaulted |-> TRUE]
  BY DEF Defaults
<1>4. vm1[o] = IF o \in DOMAIN given THEN [value |-> Parsed(given)[o], defaulted |-> FALSE]
               ELSE [value |-> Default[o], defaulted |-> TRUE]
  BY <1>1, <1>3 DEF Store
<1> HIDE DEF vm1, read
<1>5. vm2[o] = IF o \in DOMAIN f.options /\ vm1[o].defaulted
                 THEN [value |-> read[o], defaulted |-> FALSE] ELSE vm1[o]
  BY <1>2 DEF Store
<1> HIDE DEF vm2
<1>6. Merged(given, f)[o] = vm2[o].value
  BY DEF Merged, ValuesOf, vm2, vm1, read
<1> QED
  BY <1>2, <1>4, <1>5, <1>6

LEMMA InitSInv == Init => SInv
<1> SUFFICES ASSUME Init PROVE SInv
  OBVIOUS
<1>1. IsFunction(params) /\ DOMAIN params = OptionSet
  BY ValuesAreParameters DEF Init
<1>2. Types
  BY <1>1, NoArgsType DEF Init, Types, IsFile
<1>3. \A p \in Paths : ~prior[p].there /\ ~generated[p].there
  BY FileFields DEF Init
<1> QED
  BY <1>2, <1>3 DEF Init, SInv, Replaced, PreviousSurvives, Written, Running

-----------------------------------------------------------------------------
(* The steps.                                                              *)

\* An option is at each place of the list, and the count of those a file has
\* is a place or past the end.
LEMMA NextOption ==
    ASSUME NEW f, IsFile(f), Cardinality(DOMAIN f.options) + 1 <= Len(Options)
    PROVE  Options[Cardinality(DOMAIN f.options) + 1] \in OptionSet
<1>1. Options \in Seq(OptionSet)
  BY StartupAssumption
<1>2. IsFiniteSet(DOMAIN Options)
  BY <1>1, FS_Interval
<1>3. IsFiniteSet(OptionSet)
  <2>1. Options \in Surjection(DOMAIN Options, OptionSet)
    BY <1>1 DEF OptionSet, Range, Surjection
  <2> QED
    BY <1>2, <2>1, FS_Surjection
<1>4. DOMAIN f.options \subseteq OptionSet
  BY FileFields DEF IsFile
<1>5. Cardinality(DOMAIN f.options) \in Nat
  BY <1>3, <1>4, FS_Subset, FS_CardinalityType
<1> QED
  BY <1>1, <1>5

\* The end of the process leaves the files and what is known of them alone.
LEMMA GoneSInv ==
    ASSUME SInv, Gone, UNCHANGED <<file, old, histVars>>
    PROVE  SInv'
<1>1. IsFunction(params') /\ DOMAIN params' = OptionSet /\ args' \in CommandLines
  BY ValuesAreParameters, NoArgsType DEF Gone
<1>2. Types'
  BY <1>1 DEF SInv, Types, Gone, histVars
<1>3. phase' = "off"
  BY DEF Gone
<1> QED
  BY <1>2, <1>3 DEF SInv, Replaced, PreviousSurvives, Written, Running, histVars

LEMMA StartSInv ==
    ASSUME SInv, NEW a \in CommandLines, Start(a)
    PROVE  SInv'
<1> DEFINE path == CfgPath(a)
<1>1. path \in Paths /\ CfgPath(args)' = path
  BY CfgPathType DEF Start, CfgPath
<1>2. IsFunction(params') /\ DOMAIN params' = OptionSet
  BY ValuesAreParameters DEF Start, Merged
<1>3. Types'
  BY <1>2 DEF SInv, Types, Start, histVars
<1>4. CASE a.generate
  <2>1. /\ phase' = "rename"
        /\ prior' = [prior EXCEPT ![path] = file[path]]
        /\ generated' = [generated EXCEPT ![path] = Missing]
        /\ file' = file /\ old' = old
    BY <1>4 DEF Start
  <2>2. prior'[path] = file[path] /\ ~generated'[path].there
    BY <1>1, <2>1, FileFields DEF SInv, Types
  <2>3. \A p \in Paths \ {path} : prior'[p] = prior[p] /\ generated'[p] = generated[p]
    BY <2>1 DEF SInv, Types
  <2>4. Replaced'
    BY <1>1, <2>1, <2>2, <2>3 DEF SInv, Replaced, PreviousSurvives
  <2>5. Written'
    BY <1>1, <2>1, <2>2, <2>3 DEF SInv, Written
  <2> QED
    BY <1>3, <2>1, <2>4, <2>5 DEF SInv, Running
<1>5. CASE ~a.generate
  <2>1. /\ phase' = "running" /\ params' = Merged(a.given, file[path]) /\ args' = a
        /\ UNCHANGED <<file, old, prior, generated>>
    BY <1>5 DEF Start, histVars
  <2>2. Running'
    BY <1>1, <2>1 DEF Running
  <2> QED
    BY <1>3, <2>1, <2>2 DEF SInv, Replaced, PreviousSurvives, Written
<1> QED
  BY <1>4, <1>5

LEMMA RenameSInv == ASSUME SInv, Rename PROVE SInv'
<1> DEFINE path == CfgPath(args)
<1>1. path \in Paths /\ CfgPath(args)' = path
  BY CfgPathType DEF SInv, Types, Rename, CfgPath
<1>2. /\ phase = "rename" /\ phase' = "open"
      /\ args' = args /\ params' = params /\ prior' = prior /\ generated' = generated
  BY DEF Rename, histVars
<1>3. prior[path] = file[path] /\ ~generated[path].there
  BY <1>2 DEF SInv, Replaced, Written
<1>4. CASE file[path].there
  <2>1. /\ old' = [old EXCEPT ![path] = file[path]]
        /\ file' = [file EXCEPT ![path] = Missing]
    BY <1>4 DEF Rename
  <2>2. old'[path] = prior[path] /\ file'[path] = Missing
    BY <1>1, <1>3, <2>1 DEF SInv, Types
  <2>3. \A p \in Paths \ {path} : file'[p] = file[p] /\ old'[p] = old[p]
    BY <2>1 DEF SInv, Types
  <2>4. Types'
    BY <1>2, <2>1, <2>2, <2>3 DEF SInv, Types, IsFile
  <2>5. Replaced'
    BY <1>1, <1>2, <2>2, <2>3 DEF SInv, Replaced, PreviousSurvives
  <2>6. Written'
    BY <1>1, <1>2, <1>3, <2>3 DEF SInv, Written
  <2> QED
    BY <1>2, <2>4, <2>5, <2>6 DEF SInv, Running
<1>5. CASE ~file[path].there
  <2>1. old' = old /\ file' = file
    BY <1>5 DEF Rename
  <2> QED
    BY <1>1, <1>2, <1>3, <1>5, <2>1
    DEF SInv, Types, Replaced, PreviousSurvives, Written, Running
<1> QED
  BY <1>4, <1>5

LEMMA OpenFileSInv == ASSUME SInv, OpenFile PROVE SInv'
<1> DEFINE path == CfgPath(args)
<1>1. path \in Paths
  BY CfgPathType DEF SInv, Types
<1>2. phase = "open" /\ UNCHANGED <<old, histVars>>
  BY DEF OpenFile
<1>3. CASE phase' = "write" /\ file' = [file EXCEPT ![path] = File(<<>>)]
           /\ UNCHANGED <<args, params>>
  <2>1. CfgPath(args)' = path /\ prior' = prior /\ generated' = generated /\ old' = old
    BY <1>2, <1>3 DEF CfgPath, histVars
  <2>2. file'[path] = File(<<>>) /\ \A p \in Paths \ {path} : file'[p] = file[p]
    BY <1>1, <1>3 DEF SInv, Types
  <2>3. DOMAIN file'[path].options = {} /\ file'[path].there
    BY <2>2, FileFields
  <2>4. IsFile(file'[path])
    <3>1. IsFunction(<<>>) /\ DOMAIN <<>> = {}
      BY DEF IsFunction
    <3> QED
      BY <2>2, <3>1, FileFields DEF IsFile
  <2>5. prior[path].there => prior[path] = old[path]
    BY <1>2 DEF SInv, Replaced
  <2>6. ~generated[path].there
    BY <1>2 DEF SInv, Written
  <2>7. Types'
    BY <1>3, <2>1, <2>2, <2>4 DEF SInv, Types
  <2>8. Replaced'
    BY <1>3, <2>1, <2>2, <2>5 DEF SInv, Replaced, PreviousSurvives
  <2>9. Written'
    BY <1>3, <2>1, <2>2, <2>3, <2>6 DEF SInv, Written
  <2> QED
    BY <1>3, <2>7, <2>8, <2>9 DEF SInv, Running
<1>4. CASE Gone /\ file' = file
  BY <1>2, <1>4, GoneSInv
<1> QED
  BY <1>3, <1>4 DEF OpenFile

LEMMA WriteOptionSInv == ASSUME SInv, WriteOption PROVE SInv'
<1> DEFINE path == CfgPath(args)
           f    == file[path].options
           o    == Options[Cardinality(DOMAIN f) + 1]
           g    == Listed(f, o, params[o])
<1>1. path \in Paths
  BY CfgPathType DEF SInv, Types
<1>2. /\ phase = "write" /\ phase' = "write" /\ CfgPath(args)' = path
      /\ UNCHANGED <<args, params, old, prior, generated>>
  BY DEF WriteOption, CfgPath, histVars
<1>3. Cardinality(DOMAIN f) + 1 <= Len(Options)
      /\ file' = [file EXCEPT ![path].options = g]
  BY DEF WriteOption
<1>4. /\ IsFile(file[path]) /\ file[path].there /\ file[path] = File(f)
      /\ DOMAIN f \subseteq OptionSet /\ \A x \in DOMAIN f : f[x] = params[x]
      /\ ~generated[path].there
  BY <1>1, <1>2, FileFields DEF SInv, Types, Written, IsFile
<1>5. o \in OptionSet
  BY <1>3, <1>4, NextOption
<1>6. IsFunction(g) /\ DOMAIN g = DOMAIN f \cup {o} /\ \A x \in DOMAIN g : g[x] = params[x]
  BY <1>4 DEF Listed, IsFunction
<1> HIDE DEF g, o
<1>7. file'[path] = File(g) /\ \A p \in Paths \ {path} : file'[p] = file[p]
  BY <1>1, <1>3, <1>4 DEF SInv, Types, File
<1>8. DOMAIN file' = Paths /\ IsFile(file'[path])
  <2>1. DOMAIN g \subseteq OptionSet
    BY <1>4, <1>5, <1>6
  <2>2. DOMAIN file' = Paths
    BY <1>3 DEF SInv, Types
  <2> QED
    BY <1>6, <1>7, <2>1, <2>2, FileFields DEF IsFile
<1>9. Types'
  BY <1>2, <1>7, <1>8 DEF SInv, Types
<1>10. Replaced'
  BY <1>2, <1>7 DEF SInv, Replaced, PreviousSurvives
<1>11. Written'
  BY <1>2, <1>4, <1>6, <1>7, FileFields DEF SInv, Written
<1> QED
  BY <1>2, <1>9, <1>10, <1>11 DEF SInv, Running

LEMMA FileWrittenSInv == ASSUME SInv, FileWritten PROVE SInv'
<1> DEFINE path == CfgPath(args)
<1>1. path \in Paths
  BY CfgPathType DEF SInv, Types
<1>2. /\ phase = "write" /\ DOMAIN file[path].options = OptionSet
      /\ generated' = [generated EXCEPT ![path] = File(params)]
      /\ UNCHANGED <<file, old, prior>> /\ Gone
  BY DEF FileWritten
<1>3. file[path] = File(params)
  <2>1. /\ IsFile(file[path]) /\ file[path].there
        /\ \A o \in DOMAIN file[path].options : file[path].options[o] = params[o]
    BY <1>1, <1>2 DEF SInv, Types, Written
  <2>2. file[path] = File(file[path].options) /\ IsFunction(file[path].options)
    BY <2>1, FileFields DEF IsFile
  <2>3. IsFunction(params) /\ DOMAIN params = OptionSet
    BY DEF SInv, Types
  <2>4. file[path].options = params
    BY <1>2, <2>1, <2>2, <2>3 DEF IsFunction
  <2> QED
    BY <2>2, <2>4
<1>4. generated'[path] = file[path]
      /\ \A p \in Paths \ {path} : generated'[p] = generated[p]
  BY <1>1, <1>2, <1>3 DEF SInv, Types
<1>5. IsFunction(params') /\ DOMAIN params' = OptionSet /\ args' \in CommandLines
  BY <1>2, ValuesAreParameters, NoArgsType DEF Gone
<1>6. phase' = "off"
  BY <1>2 DEF Gone
<1>7. Types'
  BY <1>2, <1>5, <1>6 DEF SInv, Types
<1>8. Written'
  BY <1>2, <1>4, <1>6 DEF SInv, Written
<1> QED
  BY <1>2, <1>6, <1>7, <1>8 DEF SInv, Replaced, PreviousSurvives, Running

LEMMA EditSInv == ASSUME SInv, Edit PROVE SInv'
<1>1. PICK q \in Paths, o \in OptionSet, v \in UNION {Values[x] : x \in OptionSet} :
        /\ file' = [file EXCEPT ![q] = File(Listed(<<>>, o, v))]
        /\ prior' = [prior EXCEPT ![q] = Missing]
        /\ generated' = [generated EXCEPT ![q] = Missing]
  BY DEF Edit
<1>2. phase = "off" /\ UNCHANGED <<phase, args, params, old>>
  BY DEF Edit
<1>3. IsFile(File(Listed(<<>>, o, v)))
  <2>1. IsFunction(Listed(<<>>, o, v)) /\ DOMAIN Listed(<<>>, o, v) = {o}
    BY DEF Listed, IsFunction
  <2> QED
    BY <2>1, FileFields DEF IsFile
<1>4. /\ IsFile(file'[q]) /\ ~prior'[q].there /\ ~generated'[q].there
      /\ \A p \in Paths \ {q} : /\ file'[p] = file[p] /\ prior'[p] = prior[p]
                                /\ generated'[p] = generated[p]
  BY <1>1, <1>3, FileFields DEF SInv, Types
<1>5. Types'
  BY <1>1, <1>2, <1>4 DEF SInv, Types
<1> QED
  BY <1>2, <1>4, <1>5 DEF SInv, Replaced, PreviousSurvives, Written, Running

LEMMA NextSInv == SInv /\ [Next]_vars => SInv'
<1> SUFFICES ASSUME SInv, [Next]_vars PROVE SInv'
  OBVIOUS
<1>1. ASSUME NEW a \in CommandLines, Start(a) PROVE SInv'
  BY <1>1, StartSInv
<1>2. CASE Rename
  BY <1>2, RenameSInv
<1>3. CASE OpenFile
  BY <1>3, OpenFileSInv
<1>4. CASE WriteOption
  BY <1>4, WriteOptionSInv
<1>5. CASE FileWritten
  BY <1>5, FileWrittenSInv
<1>6. CASE End
  BY <1>6, GoneSInv DEF End
<1>7. CASE Edit
  BY <1>7, EditSInv
<1>8. CASE UNCHANGED vars
  BY <1>8 DEF SInv, Types, Replaced, PreviousSurvives, Written, Running, vars, histVars, CfgPath
<1> QED
  BY <1>1, <1>2, <1>3, <1>4, <1>5, <1>6, <1>7, <1>8 DEF Next

\* Every state of the program satisfies the invariant, from Init and by each step.
THEOREM StartupInvariant == Spec => []SInv
<1>1. SInv /\ [Next]_vars => SInv'
  BY NextSInv
<1> QED
  BY <1>1, InitSInv, PTL DEF Spec

-----------------------------------------------------------------------------
(* What the invariant says of the properties.                              *)

\* The parameters, the command line and the files are well formed in every
\* phase, a file that is cut off included.
THEOREM StartupTypes == Spec => []TypeOK
<1>1. SInv => TypeOK
  BY FileFields DEF SInv, Types, TypeOK, IsFile
<1> QED
  BY <1>1, StartupInvariant, PTL

\* parse and the readers of the configuration file: whatever became of the
\* file, a running store has for each option the value of the command line,
\* or else the file's, or else the default.
THEOREM CommandLineAlwaysWins == Spec => []CommandLineWins
<1>1. SInv => CommandLineWins
  <2> SUFFICES ASSUME SInv, phase = "running", NEW o \in OptionSet
               PROVE  LET f == file[CfgPath(args)]
                      IN  params[o] = IF o \in DOMAIN args.given THEN Parsed(args.given)[o]
                                      ELSE IF o \in DOMAIN f.options THEN ReadBack[f.options[o]]
                                      ELSE Default[o]
    BY DEF CommandLineWins
  <2>1. IsFile(file[CfgPath(args)])
    BY CfgPathType DEF SInv, Types
  <2>2. params = Merged(args.given, file[CfgPath(args)])
    BY DEF SInv, Running
  <2> QED
    BY <2>1, <2>2, MergedValues
<1> QED
  BY <1>1, StartupInvariant, PTL

\* writeConfigurationFile: wherever a generation is killed or gives up, the
\* file it was to replace is still there, or under .old.
THEOREM PreviousFileSurvives == Spec => []PreviousSurvives
<1>1. SInv => PreviousSurvives
  BY DEF SInv, Replaced
<1> QED
  BY <1>1, StartupInvariant, PTL

\* writeConfigurationFile, then parse: a store started with nothing but a
\* generated file runs with the parameters that were written to it.
THEOREM GeneratedFileReproduces == Spec => []GeneratedReproduces
<1>1. SInv => GeneratedReproduces
  <2> DEFINE path == CfgPath(args)
  <2> SUFFICES ASSUME SInv, phase = "running", args.given = <<>>, generated[path].there,
                      NEW o \in OptionSet,
                      ReadBack[generated[path].options[o]] = generated[path].options[o]
               PROVE  params[o] = generated[path].options[o]
    BY DEF GeneratedReproduces
  <2>1. path \in Paths /\ IsFile(file[path])
    BY CfgPathType DEF SInv, Types
  <2>2. generated[path] = file[path] /\ DOMAIN file[path].options = OptionSet
    BY <2>1 DEF SInv, Written
  <2>3. params = Merged(args.given, file[path])
    BY DEF SInv, Running
  <2>4. params[o] = ReadBack[file[path].options[o]]
    BY <2>1, <2>2, <2>3, MergedValues
  <2> QED
    BY <2>2, <2>4
<1> QED
  BY <1>1, StartupInvariant, PTL
=============================================================================
