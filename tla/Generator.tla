----------------------------- MODULE Generator ------------------------------
(***************************************************************************)
(* How the command line tool makes cache files: CacheGenerator with        *)
(* CacheFileBuilder, DataFileReader, CacheValueParser, CacheValueConsumer  *)
(* and CacheFileWriter (write mode), and createMode, which reads typed     *)
(* lines into a cache of its own and uses the same writer.                 *)
(*                                                                         *)
(* A path is a sequence, a directory and then a name.  A cache is a set of *)
(* pairs with the number of entries that the header counts; which pair a   *)
(* put adds is the business of the modules on the caches themselves.  What *)
(* is on the disk before the output is flushed is a prefix of the file.    *)
(* Only cxxopts exceptions are caught: any other ends the process.         *)
(***************************************************************************)
EXTENDS Settings, FiniteSets, FiniteSetsExt

CONSTANTS
  InputFiles,     \* [path -> [line delimiter -> sequence of lines]]
  NotFloats,      \* the values stringViewToVector<float> throws for
  Directories     \* those in which a file can be opened for writing

kOutputDir == "datamover"        \* ConfDefault, and the next ones
kInputDir == "datamover"
kKeySlots == 1024
kMaxLoadPercent == 50
kLinearProbeMaxLoadPercent == 80
kLinearProbeOffsetBits == 35
kBucketChainOffsetBits == 64
kControlCharLine == "RS"
kMinLinearProbeOffsetBits == 16
kMaxLinearProbeOffsetBits == 38

CacheTypeOf == <<"MAP", "BUCKET_CHAIN", "LINEAR_PROBE",
                 "LINEAR_PROBE_DEDUP", "LINEAR_PROBE_DEDUP_TYPED">>
LinearTypes == {CacheTypeOf[i] : i \in 3 .. 5}

VARIABLES
  pc,         \* where the process is
  settings,   \* its settings
  args,       \* mCacheArgs
  current,    \* the one in work
  file,       \* the input file in work, an index into its inputFiles
  lines,      \* what getline has yet to return
  types,      \* queryIdToType, in createMode
  cache,      \* the cache being filled
  disk,       \* the cache files: [path -> file]
  clock       \* the time of the last write

generatorVars == <<pc, settings, args, current, file, lines, types, cache,
                   disk, clock>>

EmptyCache == [pairs |-> {}, entries |-> 0]

-----------------------------------------------------------------------------
(* CacheGenerator::CacheGenerator *)

CacheType(n) == IF n \in 1 .. 5 THEN CacheTypeOf[n] ELSE "NONE"

\* The name is appended to inputDir, which keeps it for the next file.
InputPaths(dir, names) ==
  [i \in DOMAIN names |-> <<dir>> \o SubSeq(names, 1, i)]

CacheArgs(s, name) ==
  LET type == CacheType(GetInt(s, <<"type", name>>, 2))
      bits == CASE type = "BUCKET_CHAIN" -> kBucketChainOffsetBits
                [] type = "LINEAR_PROBE" -> kLinearProbeOffsetBits
                [] OTHER -> 0
  IN [cacheName |-> name,
      cacheType |-> type,
      offsetBits |-> GetInt(s, <<"offset_bits", name>>, bits),
      numberOfKeySlots |-> GetInt(s, <<"key_slots", name>>, kKeySlots),
      maxLoadPercent |->
        GetInt(s, <<"max_load_percent", name>>, kMaxLoadPercent),
      outputDirectory |-> GetString(s, <<"output_dir", name>>, kOutputDir),
      inputFiles |-> InputPaths(GetString(s, <<"input_dir", name>>, kInputDir),
                                GetString(s, <<"input_files", name>>, <<>>))]

GeneratorArgs(s) ==
  LET names == GetString(s, <<"names">>, <<"axoncache">>)
  IN [i \in DOMAIN names |-> CacheArgs(s, names[i])]

-----------------------------------------------------------------------------
(* CacheGenerator::start, one cache after the other *)

Arg == args[current]

Throw ==
  /\ pc' = "threw"
  /\ UNCHANGED <<settings, args, current, file, lines, types, cache, disk, clock>>

\* CacheFactory::createCache, and the checks of the constructors.
Rejected(a) ==
  \/ a.cacheType = "NONE"
  \/ /\ a.cacheType \in LinearTypes
     /\ \/ a.offsetBits \notin
             kMinLinearProbeOffsetBits .. kMaxLinearProbeOffsetBits
        \/ a.maxLoadPercent > kLinearProbeMaxLoadPercent

CreateCacheThrows ==
  /\ pc = "start" /\ current <= Len(args)
  /\ Rejected(Arg) \/ Arg.inputFiles = <<>>    \* "No input datafile"
  /\ Throw

\* Mutant: the cache is made once for all names.
NewCacheShared == cache

NewCache == EmptyCache

\* Mutant: the output file is opened before the input is read.
CreateCacheOpeningOutput ==
  /\ pc = "start" /\ current <= Len(args)
  /\ ~Rejected(Arg) /\ Arg.inputFiles # <<>>
  /\ pc' = "open"
  /\ file' = 1
  /\ cache' = NewCache
  /\ clock' = clock + 1
  /\ disk' = SetSetting(disk, <<Arg.outputDirectory, Arg.cacheName>>,
                        [state |-> "empty", mtime |-> clock + 1,
                         header |-> [name |-> "", cacheType |-> "NONE",
                                     offsetBits |-> 0],
                         pairs |-> {}])
  /\ UNCHANGED <<settings, args, current, lines, types>>

CreateCache ==
  /\ pc = "start" /\ current <= Len(args)
  /\ ~Rejected(Arg) /\ Arg.inputFiles # <<>>
  /\ pc' = "open"
  /\ file' = 1
  /\ cache' = NewCache
  /\ UNCHANGED <<settings, args, current, lines, types, disk, clock>>

GeneratorDone ==
  /\ pc = "start" /\ current > Len(args)
  /\ pc' = "done"
  /\ UNCHANGED <<settings, args, current, file, lines, types, cache, disk, clock>>

-----------------------------------------------------------------------------
(* DataFileReader::readValues *)

LineDelimiter(s) == GetChar(s, <<"control_char.line">>, kControlCharLine)

Path == Arg.inputFiles[file]

OpenInputThrows ==
  /\ pc = "open" /\ file <= Len(Arg.inputFiles)
  /\ Path \notin DOMAIN InputFiles
  /\ Throw

OpenInput ==
  /\ pc = "open" /\ file <= Len(Arg.inputFiles)
  /\ Path \in DOMAIN InputFiles
  /\ lines' = InputFiles[Path][LineDelimiter(settings)]
  /\ pc' = "read"
  /\ UNCHANGED <<settings, args, current, file, types, cache, disk, clock>>

CloseInput ==
  /\ pc = "read" /\ lines = <<>>
  /\ file' = file + 1
  /\ pc' = "open"
  /\ UNCHANGED <<settings, args, current, lines, types, cache, disk, clock>>

\* parseValue: an empty line, or one without separator, becomes the empty
\* key with the empty string.
ParseValue(line) ==
  IF line.kind = "invalid" THEN [key |-> "", type |-> "String", value |-> ""]
  ELSE [key |-> line.key,
        type |-> IF line.kind = "vector" THEN "StringList" ELSE "String",
        value |-> line.value]

MaxNumberOfEntries(a) == (a.numberOfKeySlots * a.maxLoadPercent) \div 100

Full(a, c) == a.cacheType # "MAP" /\ c.entries >= MaxNumberOfEntries(a)

\* put of a cache that is not full: the first pair of a key wins, in a MAP
\* for each type; a bucket chain cache counts the others too.
PutPair(a, c, p) ==
  LET known == \E q \in c.pairs :
                 q.key = p.key /\ (a.cacheType = "MAP" => q.type = p.type)
  IN [pairs |-> IF known THEN c.pairs ELSE c.pairs \cup {p},
      entries |-> IF known /\ a.cacheType # "BUCKET_CHAIN" THEN c.entries
                  ELSE c.entries + 1]

ConsumeThrows ==
  /\ pc = "read" /\ lines # <<>>
  /\ Full(Arg, cache)
  /\ Throw

Consume ==
  /\ pc = "read" /\ lines # <<>>
  /\ ~Full(Arg, cache)
  /\ cache' = PutPair(Arg, cache, ParseValue(Head(lines)))
  /\ lines' = Tail(lines)
  /\ UNCHANGED <<pc, settings, args, current, file, types, disk, clock>>

-----------------------------------------------------------------------------
(* createMode *)

\* The cache that createMode makes, whatever the settings say.
CreateArgs(name, dir, slots, path) ==
  [cacheName |-> name, cacheType |-> "LINEAR_PROBE_DEDUP_TYPED",
   offsetBits |-> 35, numberOfKeySlots |-> slots, maxLoadPercent |-> 50,
   outputDirectory |-> dir, inputFiles |-> <<path>>]

\* A missing parameter, or a file that cannot be opened: a message, no cache.
CreateRefused(name, dir, path) ==
  "" \in {name, dir} \/ path \notin DOMAIN InputFiles

\* A line is refused when it does not have the form of the first line, or of
\* the others.
WrongFormat(line, first) ==
  line.kind # "empty" /\ line.kind # (IF first THEN "types" ELSE "typed")

ReadCreateWrong ==
  /\ pc = "create" /\ lines # <<>>
  /\ WrongFormat(Head(lines), file = 1)
  /\ pc' = "done"
  /\ UNCHANGED <<settings, args, current, file, lines, types, cache, disk, clock>>

QueryType(line) == IF line.id \in DOMAIN types THEN types[line.id] ELSE "String"

KnownTypes == {"String", "StringList", "Bool", "Int64", "Double", "FloatList"}

\* A line of an unknown type is skipped.
Storable(line) == line.kind = "typed" /\ QueryType(line) \in KnownTypes

CreatePutThrows(line) ==
  /\ Storable(line)
  /\ \/ Full(Arg, cache)
     \/ QueryType(line) = "FloatList" /\ line.value \in NotFloats

\* file counts the lines here.  An empty first line leaves all keys strings.
ReadCreateLine ==
  LET line == Head(lines)
  IN /\ pc = "create" /\ lines # <<>>
     /\ ~WrongFormat(line, file = 1)
     /\ ~CreatePutThrows(line)
     /\ lines' = Tail(lines)
     /\ file' = file + 1
     /\ types' = IF line.kind = "types" THEN line.types ELSE types
     /\ cache' = IF Storable(line)
                 THEN PutPair(Arg, cache, [key |-> line.key,
                                           type |-> QueryType(line),
                                           value |-> line.value])
                 ELSE cache
     /\ UNCHANGED <<pc, settings, args, current, disk, clock>>

ReadCreateThrows ==
  LET line == Head(lines)
  IN /\ pc = "create" /\ lines # <<>>
     /\ ~WrongFormat(line, file = 1)
     /\ CreatePutThrows(line)
     /\ Throw

-----------------------------------------------------------------------------
(* CacheFileWriter *)

FileName(dir, name) == <<dir, name>>

OutputPath == FileName(Arg.outputDirectory, Arg.cacheName)

\* Mutant: the offset bits of the settings go into every header.
HeaderOffsetBitsAsked(a) == a.offsetBits

\* What SimpleProbe and MapCacheBase answer is not what was asked for.
HeaderOffsetBits(a) ==
  CASE a.cacheType = "BUCKET_CHAIN" -> 64
    [] a.cacheType = "MAP" -> 0
    [] OTHER -> a.offsetBits

\* GenerateHeader::write
Header(a) ==
  [name |-> a.cacheName, cacheType |-> a.cacheType,
   offsetBits |-> HeaderOffsetBits(a)]

NoHeader == [name |-> "", cacheType |-> "NONE", offsetBits |-> 0]

InputRead ==
  \/ pc = "open" /\ file > Len(Arg.inputFiles)
  \/ pc = "create" /\ lines = <<>>

\* A file that cannot be opened is not noticed: what is written is lost.
OpenOutput ==
  /\ InputRead
  /\ clock' = clock + 1
  /\ disk' = IF Arg.outputDirectory \in Directories
             THEN SetSetting(disk, OutputPath,
                             [state |-> "empty", mtime |-> clock + 1,
                              header |-> NoHeader, pairs |-> {}])
             ELSE disk
  /\ pc' = "write"
  /\ UNCHANGED <<settings, args, current, file, lines, types, cache>>

\* startWrite, and the part of writeData that has reached the disk.
WriteHeader ==
  /\ pc = "write"
  /\ clock' = clock + 1
  /\ disk' = IF Arg.outputDirectory \in Directories
             THEN SetSetting(disk, OutputPath,
                             [state |-> "partial", mtime |-> clock + 1,
                              header |-> Header(Arg), pairs |-> {}])
             ELSE disk
  /\ pc' = "flush"
  /\ UNCHANGED <<settings, args, current, file, lines, types, cache>>

\* writeData and endWrite; the generator goes on with the next name.
EndWrite ==
  /\ pc = "flush"
  /\ clock' = clock + 1
  /\ disk' = IF Arg.outputDirectory \in Directories
             THEN SetSetting(disk, OutputPath,
                             [state |-> "complete", mtime |-> clock + 1,
                              header |-> Header(Arg), pairs |-> cache.pairs])
             ELSE disk
  /\ current' = current + 1
  /\ pc' = "start"
  /\ UNCHANGED <<settings, args, file, lines, types, cache>>

GeneratorStep ==
  \/ CreateCacheThrows \/ CreateCache \/ GeneratorDone
  \/ OpenInputThrows \/ OpenInput \/ CloseInput
  \/ ConsumeThrows \/ Consume
  \/ ReadCreateWrong \/ ReadCreateLine \/ ReadCreateThrows
  \/ OpenOutput \/ WriteHeader \/ EndWrite

=============================================================================
