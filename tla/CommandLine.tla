---------------------------- MODULE CommandLine -----------------------------
(***************************************************************************)
(* The command line tool, run several times over one disk, while another   *)
(* process serves one of the caches through a CacheLoader.                 *)
(*                                                                         *)
(* A run is one process: main reads the settings, chooses the mode and the *)
(* mode runs to its end, to an exception or to the death of the process.   *)
(* The benchmark writes and reads a cache of its own through the C API.    *)
(***************************************************************************)
EXTENDS PeriodicLoader, Integers

CONSTANTS
  ConfigFiles,    \* the contents the properties file may have
  CommandLines,   \* the options of the runs
  MaxRuns,        \* bound on the runs
  BenchKeys       \* the number of keys of the benchmark

IsSequence(x) == x \in Seq(Range(x))

\* A text that stands for a list is split at its commas, whatever it is, and
\* a file can be split at any delimiter.
ASSUME CommandLineAssumption ==
  /\ MaxRuns \in Nat /\ MaxFaults \in Nat
  /\ \A config \in ConfigFiles :
       LET s == ReadSettings(config)
       IN /\ \A n \in DOMAIN s :
               n[1] \in {"names", "input_files"} => IsSequence(s[n])
          /\ \A p \in DOMAIN InputFiles :
               LineDelimiter(s) \in DOMAIN InputFiles[p]
  /\ \A o \in CommandLines : /\ IsSequence(o.inputFiles) /\ IsSequence(o.stdin)
                             /\ o.repeat \in Int
  /\ \A p \in DOMAIN InputFiles : \A d \in DOMAIN InputFiles[p] :
       IsSequence(InputFiles[p][d])

VARIABLES
  runs,           \* the runs so far
  options,        \* those of this run
  answers,        \* what read mode has printed
  bench,          \* the state of the benchmark
  source,         \* history: the lines write mode made a file from
  torn            \* history: the files whose last writer died

vars == <<generatorVars, loaderVars, runs, options, answers, bench, source,
          torn>>

historyVars == <<source, torn>>

NoBench == [inserted |-> 0, written |-> FALSE, renamed |-> FALSE, round |-> 0]

Init ==
  /\ LoaderInit
  /\ pc = "idle"
  /\ settings = NoSettings
  /\ args = <<>> /\ current = 0 /\ file = 0 /\ lines = <<>>
  /\ types = [id \in {} |-> "String"]
  /\ cache = EmptyCache
  /\ disk = [path \in {} |-> [state |-> "empty"]]
  /\ clock = 0
  /\ runs = 0
  /\ options \in CommandLines
  /\ answers = <<>>
  /\ bench = NoBench
  /\ source = [path \in {} |-> <<>>]
  /\ torn = {}

-----------------------------------------------------------------------------
(* main *)

\* The first option that is given decides.
Mode(o) ==
  IF ~o.input /\ ~o.load /\ o.abspath = <<>> /\ ~o.create /\ ~o.bench
  THEN "usage"
  ELSE IF o.input THEN "write"
  ELSE IF o.create THEN "create"
  ELSE IF o.bench THEN "bench"
  ELSE "read"

\* writeMode and readMode: the properties file goes before the options.
ModeSettings(s, o) ==
  CASE Mode(o) = "write" ->
         SetIfNotSet(SetIfNotSet(SetIfNotSet(SetIfNotSet(s,
           <<"names">>, <<o.name>>),
           <<"type", o.name>>, o.type),
           <<"input_files", o.name>>, o.inputFiles),
           <<"output_dir", o.name>>, o.outputDir)
    [] Mode(o) = "read" ->
         SetIfNotSet(SetIfNotSet(s, <<"type", o.name>>, o.type),
                     <<"load_dir", o.name>>, o.loadDir)
    [] OTHER -> s

Refused(o) ==
  \/ Mode(o) = "usage"
  \/ Mode(o) = "create" /\ CreateRefused(o.name, o.outputDir, o.createFile)

FirstPc(o) ==
  IF Refused(o) THEN "done"
  ELSE CASE Mode(o) = "write" -> "start"
         [] Mode(o) = "create" -> "create"
         [] Mode(o) = "bench" -> "bench"
         [] Mode(o) = "read" -> "load"

\* argv, the properties file, and main up to the mode.
Run(o, config) ==
  LET s == ModeSettings(ReadSettings(config), o)
  IN /\ pc \in {"idle", "done", "threw", "died"}
     /\ runs < MaxRuns
     /\ runs' = runs + 1
     /\ options' = o
     /\ settings' = s
     /\ pc' = FirstPc(o)
     /\ args' = CASE FirstPc(o) = "start" -> GeneratorArgs(s)
                  [] FirstPc(o) = "create" ->
                       <<CreateArgs(o.name, o.outputDir, o.slots, o.createFile)>>
                  [] OTHER -> <<>>
     /\ lines' = IF FirstPc(o) = "create" THEN InputFiles[o.createFile]["LF"]
                 ELSE <<>>
     /\ current' = 1 /\ file' = 1
     /\ types' = [id \in {} |-> "String"]
     /\ cache' = EmptyCache
     /\ answers' = <<>>
     /\ bench' = [NoBench EXCEPT !.round = 1]
     /\ UNCHANGED <<disk, clock, loaderVars, historyVars>>

\* The process may die at any step.
Die ==
  /\ pc \notin {"idle", "done", "threw", "died"}
  /\ pc' = "died"
  /\ torn' = IF pc \in {"write", "flush"} THEN torn \cup {OutputPath} ELSE torn
  /\ UNCHANGED <<settings, args, current, file, lines, types, cache, disk,
                 clock, loaderVars, runs, options, answers, bench, source>>

\* The lines that a cache is made from, in order.
LinesOf(a) ==
  FlattenSeq([i \in DOMAIN a.inputFiles |->
                InputFiles[a.inputFiles[i]][LineDelimiter(settings)]])

\* A file that another mode writes is no longer made from these lines.
Forget(f, path) == [p \in DOMAIN f \ {path} |-> f[p]]

Generate ==
  /\ GeneratorStep
  /\ source' = IF pc # "flush" \/ Arg.outputDirectory \notin Directories
               THEN source
               ELSE IF Mode(options) = "write"
               THEN SetSetting(source, OutputPath, LinesOf(Arg))
               ELSE Forget(source, OutputPath)
  /\ torn' = IF pc' = "write" /\ Arg.outputDirectory \in Directories
             THEN torn \ {OutputPath} ELSE torn
  /\ UNCHANGED <<loaderVars, runs, options, answers, bench>>

ServeFrame ==
  UNCHANGED <<generatorVars, runs, options, answers, bench, historyVars>>

Serve == LoaderStep /\ ServeFrame

ServeLookupCrashes == LookupCrashes /\ ServeFrame

-----------------------------------------------------------------------------
(* Read mode *)

ReadPath ==
  IF options.abspath # <<>> THEN options.abspath
  ELSE IF options.latest
       THEN LatestTimestampFullCacheFileName(settings, options.name,
                                             options.timestamp)
       ELSE FullCacheFileName(settings, options.name)

Loadable == HeaderReadable(ReadPath) /\ LoadsAsDedupCache(disk[ReadPath].header)

LoadCacheThrows ==
  /\ pc = "load" /\ ~Loadable
  /\ Throw
  /\ answers' = <<>>
  /\ UNCHANGED <<loaderVars, runs, options, bench, historyVars>>

\* parseLine: a known command with its argument; GETFLOATATINDEX needs an
\* index too, which is not passed on.
Accepted(command) == command.key # "" /\ command.name # "unknown"

\* executeCommand: GETBOOL is accepted and not executed.
Executed(command) == command.name # "GETBOOL"

\* What a handler prints: the value, if it is stored under a type the command
\* reads, and otherwise the value of its type that stands for nothing.
Reads == [GET |-> {"String"}, GETVECTOR |-> {"StringList"},
          GETINTEGER |-> {"Int64", "String"}, GETLONG |-> {"Int64", "String"},
          GETINT64 |-> {"Int64", "String"}, GETDOUBLE |-> {"Double", "String"},
          GETFLOATVECTOR |-> {"FloatList", "String"},
          GETFLOATSPAN |-> {"FloatList"},
          GETFLOATATINDEX |-> {"FloatList", "String"}]

Answer(pairs, command) ==
  LET found == {p \in pairs : /\ p.key = command.key
                              /\ p.type \in Reads[command.name]}
  IN [name |-> command.name, key |-> command.key,
      value |-> IF found = {} THEN "" ELSE (CHOOSE p \in found : TRUE).value]

\* getFloatSpan throws for every string, the others for one that is no list
\* of floats; nothing catches it.
CommandThrows(pairs, command) ==
  \E p \in pairs :
    /\ p.key = command.key /\ p.type = "String"
    /\ \/ command.name = "GETFLOATSPAN"
       \/ /\ command.name \in {"GETFLOATVECTOR", "GETFLOATATINDEX"}
          /\ p.value \in NotFloats

\* parseInputFromStdin, its first loop: all lines are read, and those that
\* parseLine accepts are kept in their order; those that executeCommand has
\* no branch for are left out here.
ExecutedCommands(stdin) ==
  LET commands[i \in 0 .. Len(stdin)] ==
        IF i = 0 THEN <<>>
        ELSE IF Accepted(stdin[i]) /\ Executed(stdin[i])
             THEN Append(commands[i - 1], stdin[i])
             ELSE commands[i - 1]
  IN commands[Len(stdin)]

\* Mutant: the commands that were accepted are forgotten after one round.
AnswersOnce(pairs, stdin, repeat) ==
  LET executed == ExecutedCommands(stdin)
  IN [i \in DOMAIN executed |-> Answer(pairs, executed[i])]

\* The second loop executes them so many times, if that is not negative.
Answers(pairs, stdin, repeat) ==
  LET executed == ExecutedCommands(stdin)
      n == Len(executed)
  IN [i \in 1 .. repeat * n |-> Answer(pairs, executed[((i - 1) % n) + 1])]

\* The commands that throw, if there is a round.
Throwing(pairs, stdin, repeat) ==
  {i \in DOMAIN ExecutedCommands(stdin) :
     repeat > 0 /\ CommandThrows(pairs, ExecutedCommands(stdin)[i])}

ReadFrame ==
  UNCHANGED <<settings, args, current, file, lines, types, cache, disk, clock,
              loaderVars, runs, options, bench, historyVars>>

LoadCache ==
  LET pairs == disk[ReadPath].pairs
  IN /\ pc = "load" /\ Loadable
     /\ disk[ReadPath].state = "complete"
     /\ Throwing(pairs, options.stdin, options.repeat) = {}
     /\ answers' = Answers(pairs, options.stdin, options.repeat)
     /\ pc' = "done"
     /\ ReadFrame

\* The process ends at the first command that throws, in the first round.
ReadModeThrows ==
  LET pairs == disk[ReadPath].pairs
      throwing == Throwing(pairs, options.stdin, options.repeat)
  IN /\ pc = "load" /\ Loadable
     /\ disk[ReadPath].state = "complete"
     /\ throwing # {}
     /\ answers' = [i \in 1 .. Min(throwing) - 1 |->
                      Answer(pairs, ExecutedCommands(options.stdin)[i])]
     /\ pc' = "threw"
     /\ ReadFrame

\* A file that a death has cut short: its mapping is null or short, and the
\* lookups read what happens to be there, or end the process.
ReadTornFile ==
  /\ pc = "load" /\ Loadable
  /\ disk[ReadPath].state = "partial"
  /\ \/ answers' = [i \in DOMAIN Answers({}, options.stdin, options.repeat) |->
             [Answers({}, options.stdin, options.repeat)[i]
                EXCEPT !.value = "undefined"]]
        /\ pc' = "done"
     \/ pc' \in {"threw", "died"} /\ answers' = <<>>
  /\ ReadFrame

-----------------------------------------------------------------------------
(* Bench mode: twice the same cache, for each of the APIs *)

BenchPath == <<".", "bench_cli_test">>
BenchTimestampPath == <<".", "bench_cli_test", "1690484217134">>

\* The writer is made with two slots per key, half of which may be filled.
BenchArgs ==
  [cacheName |-> "bench_cli_test", cacheType |-> "LINEAR_PROBE_DEDUP_TYPED",
   offsetBits |-> 28, numberOfKeySlots |-> 2 * BenchKeys,
   maxLoadPercent |-> kMaxLoadPercent, outputDirectory |-> ".",
   inputFiles |-> <<>>]

BenchRoom == bench.inserted < MaxNumberOfEntries(BenchArgs)

BenchFrame ==
  UNCHANGED <<settings, args, current, file, lines, types, cache, loaderVars,
              runs, options, answers, torn>>

BenchInsert ==
  /\ pc = "bench" /\ bench.inserted < BenchKeys
  /\ pc' = IF BenchRoom THEN pc ELSE "threw"
  /\ bench' = [bench EXCEPT !.inserted = @ + 1]
  /\ BenchFrame
  /\ UNCHANGED <<disk, clock, source>>

\* CacheWriter_FinishCacheCreation, Finalize and DeleteCppObject
BenchFinish ==
  /\ pc = "bench" /\ bench.inserted = BenchKeys /\ ~bench.written
  /\ clock' = clock + 1
  /\ disk' = SetSetting(disk, BenchPath,
                        [state |-> "complete", mtime |-> clock + 1,
                         header |-> Header(BenchArgs), pairs |-> {}])
  /\ bench' = [bench EXCEPT !.written = TRUE]
  /\ source' = Forget(source, BenchPath)
  /\ BenchFrame
  /\ UNCHANGED pc

BenchRename ==
  /\ pc = "bench" /\ bench.written /\ ~bench.renamed
  /\ disk' = [p \in (DOMAIN disk \ {BenchPath}) \cup {BenchTimestampPath} |->
                IF p = BenchTimestampPath THEN disk[BenchPath] ELSE disk[p]]
  /\ bench' = [bench EXCEPT !.renamed = TRUE]
  /\ BenchFrame
  /\ UNCHANGED <<pc, clock, source>>

\* The reader is initialized with the timestamp and every key is looked up;
\* then the other API has its turn.
BenchRead ==
  /\ pc = "bench" /\ bench.renamed
  /\ IF HeaderReadable(BenchTimestampPath)
        /\ LoadsAsDedupCache(disk[BenchTimestampPath].header)
     THEN /\ pc' = IF bench.round = 2 THEN "done" ELSE pc
          /\ bench' = IF bench.round = 2 THEN bench
                      ELSE [NoBench EXCEPT !.round = 2]
     ELSE pc' = "threw" /\ UNCHANGED bench
  /\ BenchFrame
  /\ UNCHANGED <<disk, clock, source>>

Bench == BenchInsert \/ BenchFinish \/ BenchRename \/ BenchRead

-----------------------------------------------------------------------------
(* The specification *)

Next ==
  \/ \E o \in CommandLines, config \in ConfigFiles : Run(o, config)
  \/ Die
  \/ Generate
  \/ LoadCacheThrows \/ LoadCache \/ ReadModeThrows \/ ReadTornFile
  \/ Bench
  \/ Serve
  \/ ServeLookupCrashes

\* The serving process goes on calling load, and is started again when it has
\* crashed.  No lookup need ever meet a mapping that crashes it.
Spec == Init /\ [][Next]_vars /\ WF_vars(Serve)

-----------------------------------------------------------------------------
(* Properties *)

FileStates == {"empty", "partial", "complete"}

\* Every variable has its type.
TypeOK ==
  /\ pc \in {"idle", "start", "open", "read", "create", "write", "flush",
             "load", "bench", "done", "threw", "died"}
  /\ \A p \in DOMAIN disk : disk[p].state \in FileStates /\ disk[p].mtime <= clock
  /\ loaderPc \in {"idle", "header", "map", "down"}
  /\ lastModified <= clock
  /\ runs <= MaxRuns /\ faults <= MaxFaults
  /\ \A p \in cache.pairs : p.type \in KnownTypes

\* The first of the lines with a key.
FirstLine(all, key) ==
  ParseValue(all[Min({i \in DOMAIN all : ParseValue(all[i]).key = key})])

KeysOf(all) == {ParseValue(all[i]).key : i \in DOMAIN all}

Finished(path) == path \in DOMAIN disk /\ disk[path].state = "complete"

\* A file that write mode has finished holds one pair for every key of its
\* input, the one of the first line with the key, and nothing of the caches
\* made before it; lines without separator share the empty key.  (A MAP
\* cache may hold two, of different types.)
GeneratedExact ==
  \A path \in DOMAIN source :
    Finished(path) /\ disk[path].header.cacheType # "MAP" =>
      disk[path].pairs = {FirstLine(source[path], k) : k \in KeysOf(source[path])}

\* A run that ends in an exception, or refuses its input, leaves no file that
\* is not complete: the output is opened when nothing can fail any more.
TornOnlyByDeath ==
  \A path \in DOMAIN disk :
    \/ Finished(path)
    \/ path \in torn
    \/ pc \in {"write", "flush"} /\ path = OutputPath

\* The serving process never uses a file of another family, although neither
\* loader looks at the type in the header before it maps the file, whatever
\* the settings of the generator say.
ServedFamily == served.header.cacheType \in LinearTypes \cup {"NONE"}

\* For a cache that write mode made, GET prints the value of the first input
\* line with the key, if that is a string, and nothing otherwise, also when a
\* later command ends the process.
GetsFirstValue ==
  /\ pc \in {"done", "threw"} /\ Mode(options) = "read"
  /\ ReadPath \in DOMAIN source /\ Finished(ReadPath)
  => \A i \in DOMAIN answers :
       LET all == source[ReadPath]
           k == answers[i].key
           stored == k \in KeysOf(all) /\ FirstLine(all, k).type = "String"
       IN answers[i].name = "GET" =>
            answers[i].value = IF stored THEN FirstLine(all, k).value ELSE ""

\* Read mode that comes to its end prints as many answers as there are
\* commands it executes, times repeat.
AnswersEveryCommand ==
  pc = "done" /\ Mode(options) = "read" =>
    Len(answers) =
      (IF options.repeat < 0 THEN 0 ELSE options.repeat)
      * Cardinality({i \in DOMAIN options.stdin :
                       Accepted(options.stdin[i]) /\ Executed(options.stdin[i])})

\* Read mode answers every command it executes, as often as it is told to,
\* and what GET prints is what write mode was given.
ReadsWhatWasWritten == AnswersEveryCommand /\ GetsFirstValue

Ready ==
  Finished(LoadPath) /\ LoadsAsDedupCache(disk[LoadPath].header)

\* When the generator has left a complete file, the serving process comes to
\* use all of it under its own header, even if it has met the file half
\* written, has used a part of it or crashed over it: unless a load of just
\* this file failed, which is not tried again.
FinishedIsLoaded ==
  <>[]Ready => <>[](Ready => \/ ServesWhole(disk[LoadPath])
                             \/ disk[LoadPath].mtime \in missed)

\* main.cpp:589, "Comma separated list of files to read from": when all the
\* files that the setting names are in the input directory, none fails to
\* open.
NamedFilesAreFound ==
  pc = "open" /\ file <= Len(Arg.inputFiles) =>
    LET names == GetString(settings, <<"input_files", Arg.cacheName>>, <<>>)
        dir == GetString(settings, <<"input_dir", Arg.cacheName>>, kInputDir)
    IN (\A i \in DOMAIN names : <<dir, names[i]>> \in DOMAIN InputFiles) =>
         Path \in DOMAIN InputFiles

=============================================================================
