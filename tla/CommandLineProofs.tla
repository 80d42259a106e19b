-------------------------- MODULE CommandLineProofs --------------------------
(***************************************************************************)
(* Proofs about the command line tool and the process that serves its      *)
(* caches, for any settings, command lines, input files and directories,   *)
(* and any number of runs.                                                 *)
(***************************************************************************)
EXTENDS CommandLine, FiniteSetTheorems, SequenceTheorems, WellFoundedInduction,
        TLAPS

Ended == {"idle", "done", "threw", "died"}

Busy == {"open", "read", "create", "write", "flush"}

CacheTypes == {"MAP", "BUCKET_CHAIN", "NONE"} \cup LinearTypes

\* What has offset bits that the linear probe accepts is of its family.
Sane(header) ==
  LoadsAsDedupCache(header) => header.cacheType \in LinearTypes

\* The caches to make are of known types, and the header of the one in work,
\* which was not rejected, is that of its family.
ArgsInOrder ==
  /\ current \in Nat
  /\ pc \in Busy \cup {"start"} =>
       /\ current >= 1 /\ Len(args) \in Nat
       /\ DOMAIN args = 1 .. Len(args)
       /\ \A i \in DOMAIN args : args[i].cacheType \in CacheTypes
  /\ pc \in Busy => Sane(Header(Arg))

BenchInOrder ==
  /\ bench \in [inserted : Nat, written : BOOLEAN, renamed : BOOLEAN, round : Nat]
  /\ pc = "bench" /\ bench.written /\ ~bench.renamed => Finished(BenchPath)

\* TornOnlyByDeath, and that the file in work could be opened.
TornInv ==
  \A path \in DOMAIN disk :
    \/ Finished(path)
    \/ path \in torn
    \/ /\ pc \in {"write", "flush"} /\ path = OutputPath
       /\ Arg.outputDirectory \in Directories

HeadersSane ==
  /\ \A path \in DOMAIN disk : Sane(disk[path].header)
  /\ Sane(readHeader)

\* TypeOK, and that times are numbers.
WellTyped ==
  /\ TypeOK
  /\ clock \in Nat /\ lastModified \in Nat /\ runs \in Nat /\ faults \in Nat
  /\ \A p \in DOMAIN disk : disk[p].mtime \in Nat

IInv ==
  WellTyped /\ ArgsInOrder /\ BenchInOrder /\ TornInv /\ HeadersSane /\ ServedFamily

-----------------------------------------------------------------------------
(* The operators the model is built from *)

LEMMA LinearTypesAre ==
  LinearTypes = {"LINEAR_PROBE", "LINEAR_PROBE_DEDUP", "LINEAR_PROBE_DEDUP_TYPED"}
<1>1. 3 .. 5 = {3, 4, 5}
  OBVIOUS
<1>2. /\ CacheTypeOf[3] = "LINEAR_PROBE"
      /\ CacheTypeOf[4] = "LINEAR_PROBE_DEDUP"
      /\ CacheTypeOf[5] = "LINEAR_PROBE_DEDUP_TYPED"
  BY DEF CacheTypeOf
<1>3. LinearTypes = {CacheTypeOf[i] : i \in {3, 4, 5}}
  BY <1>1 DEF LinearTypes
<1> QED
  BY <1>2, <1>3

\* The header of a cache that a constructor accepted never has the offset
\* bits of another family, whatever the settings asked for.
LEMMA AcceptedHeaderSane ==
  ASSUME NEW a, a.cacheType \in CacheTypes, ~Rejected(a)
  PROVE  Sane(Header(a))
<1>1. a.cacheType # "NONE"
  BY DEF Rejected
<1>2. Header(a).cacheType = a.cacheType /\ Header(a).offsetBits = HeaderOffsetBits(a)
  BY DEF Header
<1>3. CASE a.cacheType \in LinearTypes
  BY <1>2, <1>3 DEF Sane
<1>4. CASE a.cacheType = "BUCKET_CHAIN"
  BY <1>2, <1>4 DEF Sane, LoadsAsDedupCache, HeaderOffsetBits,
     kMinLinearProbeOffsetBits, kMaxLinearProbeOffsetBits
<1>5. CASE a.cacheType = "MAP"
  BY <1>2, <1>5 DEF Sane, LoadsAsDedupCache, HeaderOffsetBits,
     kMinLinearProbeOffsetBits, kMaxLinearProbeOffsetBits
<1> QED
  BY <1>1, <1>3, <1>4, <1>5 DEF CacheTypes

LEMMA NoHeaderSane == Sane(NoHeader)
BY DEF Sane, NoHeader, LoadsAsDedupCache, kMinLinearProbeOffsetBits

LEMMA CacheTypeKnown ==
  ASSUME NEW n
  PROVE  CacheType(n) \in CacheTypes
<1>1. 1 .. 5 = {1, 2, 3, 4, 5}
  OBVIOUS
<1>2. /\ CacheTypeOf[1] = "MAP" /\ CacheTypeOf[2] = "BUCKET_CHAIN"
      /\ CacheTypeOf[3] = "LINEAR_PROBE"
      /\ CacheTypeOf[4] = "LINEAR_PROBE_DEDUP"
      /\ CacheTypeOf[5] = "LINEAR_PROBE_DEDUP_TYPED"
  BY DEF CacheTypeOf
<1> QED
  BY <1>1, <1>2, LinearTypesAre DEF CacheType, CacheTypes

\* CacheGenerator has one entry for every name, of a known type.
LEMMA GeneratorArgsInOrder ==
  ASSUME NEW s,
         IsSequence(GetString(s, <<"names">>, <<"axoncache">>))
  PROVE  /\ Len(GeneratorArgs(s)) \in Nat
         /\ DOMAIN GeneratorArgs(s) = 1 .. Len(GeneratorArgs(s))
         /\ \A i \in DOMAIN GeneratorArgs(s) :
              GeneratorArgs(s)[i].cacheType \in CacheTypes
<1> DEFINE names == GetString(s, <<"names">>, <<"axoncache">>)
           all == {CacheArgs(s, names[i]) : i \in DOMAIN names}
<1>1. IsSequence(names)
  OBVIOUS
<1>2. DOMAIN names = 1 .. Len(names) /\ Len(names) \in Nat
  BY <1>1 DEF IsSequence
<1>3. GeneratorArgs(s) = [i \in DOMAIN names |-> CacheArgs(s, names[i])]
  BY DEF GeneratorArgs
<1>4. \A i \in DOMAIN names : CacheArgs(s, names[i]).cacheType \in CacheTypes
  BY CacheTypeKnown DEF CacheArgs
<1> HIDE DEF names
<1>5. GeneratorArgs(s) \in [1 .. Len(names) -> all]
  BY <1>2, <1>3
<1>6. GeneratorArgs(s) \in Seq(all)
  BY <1>2, <1>5, SeqDef
<1> QED
  BY <1>2, <1>3, <1>4, <1>6

LEMMA SingletonIsSequence ==
  ASSUME NEW x
  PROVE  IsSequence(<<x>>)
<1>1. x \in Range(<<x>>)
  BY DEF Range
<1>2. <<x>> \in Seq(Range(<<x>>))
  BY <1>1
<1> QED
  BY <1>2 DEF IsSequence

\* The settings that are lists are sequences.
Listed(s) ==
  \A n \in DOMAIN s : n[1] \in {"names", "input_files"} => IsSequence(s[n])

LEMMA SetListed ==
  ASSUME NEW s, Listed(s), NEW n, NEW v,
         n[1] \in {"names", "input_files"} => IsSequence(v)
  PROVE  Listed(SetIfNotSet(s, n, v))
BY DEF Listed, SetIfNotSet, SetSetting, IsSet

LEMMA ModeSettingsListed ==
  ASSUME NEW o \in CommandLines, NEW config \in ConfigFiles
  PROVE  Listed(ModeSettings(ReadSettings(config), o))
<1> DEFINE s == ReadSettings(config)
           s1 == SetIfNotSet(s, <<"names">>, <<o.name>>)
           s2 == SetIfNotSet(s1, <<"type", o.name>>, o.type)
           s3 == SetIfNotSet(s2, <<"input_files", o.name>>, o.inputFiles)
           s4 == SetIfNotSet(s3, <<"output_dir", o.name>>, o.outputDir)
           r1 == SetIfNotSet(s, <<"type", o.name>>, o.type)
           r2 == SetIfNotSet(r1, <<"load_dir", o.name>>, o.loadDir)
<1>1. ModeSettings(s, o) \in {s, s4, r2}
  BY DEF ModeSettings
<1>2. Listed(s)
  BY CommandLineAssumption DEF Listed
<1>3. IsSequence(<<o.name>>) /\ IsSequence(o.inputFiles)
  BY CommandLineAssumption, SingletonIsSequence
<1>4. /\ <<"type", o.name>>[1] = "type"
      /\ <<"output_dir", o.name>>[1] = "output_dir"
      /\ <<"load_dir", o.name>>[1] = "load_dir"
  OBVIOUS
<1> HIDE DEF s
<1>5. Listed(s1)
  BY <1>2, <1>3, SetListed
<1>6. Listed(s2)
  <2> HIDE DEF s1
  <2> QED
    BY <1>4, <1>5, SetListed
<1>7. Listed(s3)
  <2> HIDE DEF s2
  <2> QED
    BY <1>3, <1>6, SetListed
<1>8. Listed(s4)
  <2> HIDE DEF s3
  <2> QED
    BY <1>4, <1>7, SetListed
<1>9. Listed(r1)
  BY <1>2, <1>4, SetListed
<1>10. Listed(r2)
  <2> HIDE DEF r1
  <2> QED
    BY <1>4, <1>9, SetListed
<1> QED
  BY <1>1, <1>2, <1>8, <1>10 DEF s

LEMMA ListedGet ==
  ASSUME NEW s, Listed(s), NEW n, n[1] \in {"names", "input_files"},
         NEW default, IsSequence(default)
  PROVE  IsSequence(GetString(s, n, default))
BY DEF Listed, GetString, IsSet

LEMMA NamesListed ==
  ASSUME NEW o \in CommandLines, NEW config \in ConfigFiles
  PROVE  IsSequence(GetString(ModeSettings(ReadSettings(config), o),
                              <<"names">>, <<"axoncache">>))
<1> DEFINE s == ModeSettings(ReadSettings(config), o)
           n == <<"names">>
           default == <<"axoncache">>
<1>1. n[1] = "names"
  OBVIOUS
<1>3. IsSequence(default)
  BY SingletonIsSequence
<1>4. Listed(s)
  BY ModeSettingsListed
<1> HIDE DEF s, n, default
<1>5. IsSequence(GetString(s, n, default))
  BY <1>1, <1>3, <1>4, ListedGet
<1> QED
  BY <1>5 DEF s, n, default

LEMMA FirstPcIs ==
  ASSUME NEW o
  PROVE  /\ FirstPc(o) \in {"done", "start", "create", "bench", "load"}
         /\ FirstPc(o) = "start" => Mode(o) = "write"
         /\ FirstPc(o) = "create" => Mode(o) = "create"
         /\ FirstPc(o) = "bench" => Mode(o) = "bench"
<1>1. Mode(o) \in {"usage", "write", "create", "bench", "read"}
  BY DEF Mode
<1>2. ~Refused(o) => Mode(o) # "usage"
  BY DEF Refused
<1> QED
  BY <1>1, <1>2 DEF FirstPc

\* A put keeps the types of the pairs known.
LEMMA PutPairTyped ==
  ASSUME NEW a, NEW c, NEW p, p.type \in KnownTypes,
         \A q \in c.pairs : q.type \in KnownTypes
  PROVE  \A q \in PutPair(a, c, p).pairs : q.type \in KnownTypes
BY DEF PutPair

-----------------------------------------------------------------------------
(* main *)

LEMMA InitIInv == Init => IInv
<1> SUFFICES ASSUME Init PROVE IInv
  OBVIOUS
<1>1. /\ pc = "idle" /\ current = 0 /\ clock = 0 /\ runs = 0
      /\ cache.pairs = {} /\ DOMAIN disk = {} /\ bench = NoBench
  BY DEF Init, EmptyCache
<1>2. /\ loaderPc = "idle" /\ lastModified = 0 /\ readHeader = NoHeader
      /\ served.header = NoHeader /\ faults = 0
  BY DEF Init, LoaderInit, NotServed
<1>3. WellTyped
  BY <1>1, <1>2, CommandLineAssumption DEF WellTyped, TypeOK
<1>4. ArgsInOrder /\ BenchInOrder
  BY <1>1 DEF ArgsInOrder, BenchInOrder, Busy, NoBench
<1>5. TornInv /\ HeadersSane
  BY <1>1, <1>2, NoHeaderSane DEF TornInv, HeadersSane
<1>6. ServedFamily
  <2>1. NoHeader.cacheType = "NONE"
    BY DEF NoHeader
  <2> QED
    BY <1>2, <2>1 DEF ServedFamily
<1> QED
  BY <1>3, <1>4, <1>5, <1>6 DEF IInv

LEMMA RunStep ==
  ASSUME IInv, NEW o \in CommandLines, NEW config \in ConfigFiles, Run(o, config)
  PROVE  IInv'
<1> DEFINE s == ModeSettings(ReadSettings(config), o)
<1>1. /\ pc \in Ended /\ runs < MaxRuns /\ runs' = runs + 1
      /\ pc' = FirstPc(o) /\ current' = 1
      /\ cache' = EmptyCache /\ bench' = [NoBench EXCEPT !.round = 1]
      /\ UNCHANGED <<disk, clock, torn>>
      /\ UNCHANGED <<loaderPc, lastModified, readHeader, served, faults>>
  BY DEF Run, Ended, loaderVars, historyVars
<1>2. /\ FirstPc(o) = "start" => args' = GeneratorArgs(s)
      /\ FirstPc(o) = "create" =>
           args' = <<CreateArgs(o.name, o.outputDir, o.slots, o.createFile)>>
  BY DEF Run
<1>3. pc' \in {"done", "start", "create", "bench", "load"}
  BY <1>1, FirstPcIs
<1> HIDE DEF s
<1>4. WellTyped'
  BY <1>1, <1>3, CommandLineAssumption DEF IInv, WellTyped, TypeOK, EmptyCache
<1>5. ArgsInOrder'
  <2>1. CASE FirstPc(o) = "start"
    <3>1. Mode(o) = "write"
      BY <2>1, FirstPcIs
    <3>2. IsSequence(GetString(s, <<"names">>, <<"axoncache">>))
      BY NamesListed DEF s
    <3>3. /\ Len(args') \in Nat /\ DOMAIN args' = 1 .. Len(args')
          /\ \A i \in DOMAIN args' : args'[i].cacheType \in CacheTypes
      BY <1>2, <2>1, <3>2, GeneratorArgsInOrder
    <3> QED
      BY <1>1, <2>1, <3>3 DEF ArgsInOrder, Busy
  <2>2. CASE FirstPc(o) = "create"
    <3> DEFINE a == CreateArgs(o.name, o.outputDir, o.slots, o.createFile)
    <3>1. a.cacheType \in LinearTypes
      BY LinearTypesAre DEF CreateArgs
    <3>2. Sane(Header(a))
      BY <3>1 DEF Sane, Header
    <3>3. args' = <<a>>
      BY <1>2, <2>2
    <3> HIDE DEF a
    <3>4. /\ Len(args') = 1 /\ DOMAIN args' = 1 .. 1 /\ args'[1] = a
      BY <3>3
    <3>5. Sane(Header(Arg))'
      BY <1>1, <3>2, <3>4 DEF Sane, Header, Arg, HeaderOffsetBits, LoadsAsDedupCache
    <3> QED
      BY <1>1, <3>1, <3>4, <3>5 DEF ArgsInOrder, CacheTypes
  <2>3. CASE FirstPc(o) \notin {"start", "create"}
    BY <1>1, <1>3, <2>3 DEF ArgsInOrder, Busy
  <2> QED
    BY <2>1, <2>2, <2>3
<1>6. BenchInOrder'
  BY <1>1 DEF BenchInOrder, NoBench
<1>7. TornInv'
  BY <1>1, <1>3 DEF IInv, TornInv, Finished, Ended
<1>8. HeadersSane' /\ ServedFamily'
  BY <1>1 DEF IInv, HeadersSane, ServedFamily, Sane, LoadsAsDedupCache
<1> QED
  BY <1>4, <1>5, <1>6, <1>7, <1>8 DEF IInv

LEMMA DieStep ==
  ASSUME IInv, Die
  PROVE  IInv'
<1>1. /\ pc' = "died" /\ torn \subseteq torn'
      /\ pc \in {"write", "flush"} => OutputPath \in torn'
      /\ UNCHANGED <<current, cache, disk, clock, runs, bench>>
      /\ UNCHANGED <<loaderPc, lastModified, readHeader, served, faults>>
  BY DEF Die, loaderVars
<1>2. WellTyped'
  BY <1>1 DEF IInv, WellTyped, TypeOK
<1>3. ArgsInOrder' /\ BenchInOrder'
  BY <1>1 DEF IInv, ArgsInOrder, BenchInOrder, Busy
<1>4. TornInv'
  BY <1>1 DEF IInv, TornInv, Finished
<1>5. HeadersSane' /\ ServedFamily'
  BY <1>1 DEF IInv, HeadersSane, ServedFamily, Sane, LoadsAsDedupCache
<1> QED
  BY <1>2, <1>3, <1>4, <1>5 DEF IInv

-----------------------------------------------------------------------------
(* The generator *)

\* The process goes from one place to another, or ends, and touches no file.
LEMMA QuietStep ==
  ASSUME IInv, pc \notin {"bench", "write", "flush"},
         pc' \in Ended \cup {"open", "read", "create"},
         pc' \in Busy => Sane(Header(Arg)) /\ pc \in Busy \cup {"start"},
         \A p \in cache'.pairs : p.type \in KnownTypes,
         UNCHANGED <<args, current, disk, clock, runs, bench, torn>>,
         UNCHANGED loaderVars
  PROVE  IInv'
<1>1. UNCHANGED <<loaderPc, lastModified, readHeader, served, faults>>
  BY DEF loaderVars
<1>2. WellTyped'
  BY <1>1 DEF IInv, WellTyped, TypeOK, Ended
<1>3. ArgsInOrder'
  BY DEF IInv, ArgsInOrder, Busy, Ended, Sane, Header, Arg, HeaderOffsetBits,
     LoadsAsDedupCache
<1>4. BenchInOrder'
  BY DEF IInv, BenchInOrder, Ended
<1>5. TornInv'
  BY DEF IInv, TornInv, Finished, Ended
<1>6. HeadersSane' /\ ServedFamily'
  BY <1>1 DEF IInv, HeadersSane, ServedFamily, Sane, LoadsAsDedupCache
<1> QED
  BY <1>2, <1>3, <1>4, <1>5, <1>6 DEF IInv

LEMMA ThrowStep ==
  ASSUME IInv, Throw, pc \in Busy \cup {"start", "load"},
         pc \notin {"write", "flush"},
         UNCHANGED <<runs, bench, torn, loaderVars>>
  PROVE  IInv'
<1>1. pc' = "threw" /\ UNCHANGED <<args, current, cache, disk, clock>>
  BY DEF Throw
<1>2. \A p \in cache'.pairs : p.type \in KnownTypes
  BY <1>1 DEF IInv, WellTyped, TypeOK
<1> QED
  BY <1>1, <1>2, QuietStep DEF Busy, Ended

\* A write to the output file, as OpenOutput, WriteHeader and EndWrite do it.
LEMMA OutputStep ==
  ASSUME IInv, pc \in Busy, pc' \in {"write", "flush", "start"},
         NEW state \in FileStates, NEW header, NEW pairs, Sane(header),
         state = "complete" <=> pc' = "start",
         clock' = clock + 1,
         disk' = IF Arg.outputDirectory \in Directories
                 THEN SetSetting(disk, OutputPath,
                                 [state |-> state, mtime |-> clock + 1,
                                  header |-> header, pairs |-> pairs])
                 ELSE disk,
         current' = IF pc' = "start" THEN current + 1 ELSE current,
         torn' = IF pc' = "write" /\ Arg.outputDirectory \in Directories
                 THEN torn \ {OutputPath} ELSE torn,
         UNCHANGED <<args, cache, runs, bench>>,
         UNCHANGED loaderVars
  PROVE  IInv'
<1> DEFINE new == [state |-> state, mtime |-> clock + 1, header |-> header,
                   pairs |-> pairs]
<1>1. UNCHANGED <<loaderPc, lastModified, readHeader, served, faults>>
  BY DEF loaderVars
<1>2. new.state = state /\ new.mtime = clock + 1 /\ new.header = header
  OBVIOUS
<1>3. disk' = IF Arg.outputDirectory \in Directories
              THEN SetSetting(disk, OutputPath, new) ELSE disk
  OBVIOUS
<1> HIDE DEF new
<1>4. \A p \in DOMAIN disk' :
        \/ /\ p = OutputPath /\ Arg.outputDirectory \in Directories
           /\ disk'[p] = new
        \/ /\ p \in DOMAIN disk /\ disk'[p] = disk[p]
           /\ Arg.outputDirectory \in Directories => p # OutputPath
  BY <1>3 DEF SetSetting
<1>5. WellTyped'
  <2>1. \A p \in DOMAIN disk' : /\ disk'[p].state \in FileStates
                                /\ disk'[p].mtime <= clock'
                                /\ disk'[p].mtime \in Nat
    BY <1>2, <1>4 DEF IInv, WellTyped, TypeOK
  <2>2. clock' \in Nat /\ clock <= clock'
    BY DEF IInv, WellTyped
  <2>3. lastModified' <= clock'
    BY <1>1, <2>2 DEF IInv, WellTyped, TypeOK
  <2> QED
    BY <1>1, <2>1, <2>2, <2>3 DEF IInv, WellTyped, TypeOK
<1>6. ArgsInOrder'
  <2>1. CASE pc' = "start"
    BY <2>1 DEF IInv, ArgsInOrder, Busy
  <2>2. CASE pc' # "start"
    BY <2>2 DEF IInv, ArgsInOrder, Busy, Sane, Header, Arg, HeaderOffsetBits,
       LoadsAsDedupCache
  <2> QED
    BY <2>1, <2>2
<1>7. BenchInOrder'
  BY DEF IInv, BenchInOrder
<1>8. TornInv'
  <2> SUFFICES ASSUME NEW p \in DOMAIN disk'
               PROVE  \/ disk'[p].state = "complete"
                      \/ p \in torn'
                      \/ /\ pc' \in {"write", "flush"} /\ p = OutputPath'
                         /\ Arg'.outputDirectory \in Directories
    BY DEF TornInv, Finished
  <2>1. pc' # "start" => Arg' = Arg /\ OutputPath' = OutputPath
    BY DEF Arg, OutputPath, FileName
  <2>2. CASE p = OutputPath /\ Arg.outputDirectory \in Directories
    BY <1>2, <1>4, <2>1, <2>2
  <2>3. CASE ~(p = OutputPath /\ Arg.outputDirectory \in Directories)
    BY <1>4, <2>3 DEF IInv, TornInv, Finished
  <2> QED
    BY <2>2, <2>3
<1>9. HeadersSane' /\ ServedFamily'
  <2>1. \A p \in DOMAIN disk' : Sane(disk'[p].header)
    BY <1>2, <1>4 DEF IInv, HeadersSane
  <2> QED
    BY <1>1, <2>1 DEF IInv, HeadersSane, ServedFamily, Sane, LoadsAsDedupCache
<1> QED
  BY <1>5, <1>6, <1>7, <1>8, <1>9 DEF IInv

LEMMA GenerateStep ==
  ASSUME IInv, Generate
  PROVE  IInv'
<1>1. GeneratorStep
  BY DEF Generate
<1>2. /\ UNCHANGED <<runs, bench>> /\ UNCHANGED loaderVars
      /\ torn' = IF pc' = "write" /\ Arg.outputDirectory \in Directories
                 THEN torn \ {OutputPath} ELSE torn
  BY DEF Generate
<1>3. pc \in Busy => Sane(Header(Arg))
  BY DEF IInv, ArgsInOrder
<1>4. pc \in Busy \cup {"start"} =>
        /\ current >= 1 /\ current \in Nat /\ Len(args) \in Nat
        /\ DOMAIN args = 1 .. Len(args)
        /\ \A i \in DOMAIN args : args[i].cacheType \in CacheTypes
  BY DEF IInv, ArgsInOrder
<1>5. \A p \in cache.pairs : p.type \in KnownTypes
  BY DEF IInv, WellTyped, TypeOK
<1>6. CASE CreateCacheThrows \/ OpenInputThrows \/ ConsumeThrows \/ ReadCreateThrows
  <2>1. /\ Throw /\ pc' = "threw" /\ pc \in {"start", "open", "read", "create"}
    BY <1>6 DEF CreateCacheThrows, OpenInputThrows, ConsumeThrows,
       ReadCreateThrows, Throw
  <2> QED
    BY <1>2, <2>1, ThrowStep DEF Busy
<1>7. CASE CreateCache
  <2>1. /\ pc = "start" /\ current <= Len(args) /\ ~Rejected(Arg)
        /\ pc' = "open" /\ cache' = EmptyCache
        /\ UNCHANGED <<args, current, disk, clock>>
    BY <1>7 DEF CreateCache, NewCache
  <2>2. current \in DOMAIN args
    BY <1>4, <2>1
  <2>3. Sane(Header(Arg))
    BY <1>4, <2>1, <2>2, AcceptedHeaderSane DEF Arg
  <2>4. cache'.pairs = {}
    BY <2>1 DEF EmptyCache
  <2> QED
    BY <1>2, <2>1, <2>2, <2>3, <2>4, QuietStep DEF Busy
<1>8. CASE GeneratorDone \/ ReadCreateWrong
  <2>1. /\ pc \in {"start", "create"} /\ pc' = "done"
        /\ UNCHANGED <<args, current, cache, disk, clock>>
    BY <1>8 DEF GeneratorDone, ReadCreateWrong
  <2> QED
    BY <1>2, <1>5, <2>1, QuietStep DEF Busy, Ended
<1>9. CASE OpenInput \/ CloseInput
  <2>1. /\ pc \in {"open", "read"} /\ pc' \in {"open", "read"}
        /\ UNCHANGED <<args, current, cache, disk, clock>>
    BY <1>9 DEF OpenInput, CloseInput
  <2> QED
    BY <1>2, <1>3, <1>5, <2>1, QuietStep DEF Busy
<1>10. CASE Consume
  <2>1. /\ pc = "read" /\ pc' = "read"
        /\ cache' = PutPair(Arg, cache, ParseValue(Head(lines)))
        /\ UNCHANGED <<args, current, disk, clock>>
    BY <1>10 DEF Consume
  <2>2. ParseValue(Head(lines)).type \in KnownTypes
    BY DEF ParseValue, KnownTypes
  <2>3. \A p \in cache'.pairs : p.type \in KnownTypes
    BY <1>5, <2>1, <2>2, PutPairTyped
  <2> QED
    BY <1>2, <1>3, <2>1, <2>3, QuietStep DEF Busy
<1>11. CASE ReadCreateLine
  <2> DEFINE line == Head(lines)
             pair == [key |-> line.key, type |-> QueryType(line),
                      value |-> line.value]
  <2>1. /\ pc = "create" /\ pc' = "create"
        /\ cache' = IF Storable(line) THEN PutPair(Arg, cache, pair) ELSE cache
        /\ UNCHANGED <<args, current, disk, clock>>
    BY <1>11 DEF ReadCreateLine
  <2>2. Storable(line) => pair.type \in KnownTypes
    BY DEF Storable
  <2> HIDE DEF line, pair
  <2>3. \A p \in cache'.pairs : p.type \in KnownTypes
    BY <1>5, <2>1, <2>2, PutPairTyped
  <2> QED
    BY <1>2, <1>3, <2>1, <2>3, QuietStep DEF Busy
<1>12. CASE OpenOutput
  <2>1. /\ pc \in {"open", "create"} /\ pc' = "write" /\ clock' = clock + 1
        /\ UNCHANGED <<args, current, cache>>
    BY <1>12 DEF OpenOutput, InputRead
  <2>2. disk' = IF Arg.outputDirectory \in Directories
                THEN SetSetting(disk, OutputPath,
                                [state |-> "empty", mtime |-> clock + 1,
                                 header |-> NoHeader, pairs |-> {}])
                ELSE disk
    BY <1>12 DEF OpenOutput
  <2> QED
    BY <1>2, <2>1, <2>2, OutputStep, NoHeaderSane DEF Busy, FileStates
<1>13. CASE WriteHeader
  <2>1. /\ pc = "write" /\ pc' = "flush" /\ clock' = clock + 1
        /\ UNCHANGED <<args, current, cache>>
    BY <1>13 DEF WriteHeader
  <2>2. disk' = IF Arg.outputDirectory \in Directories
                THEN SetSetting(disk, OutputPath,
                                [state |-> "partial", mtime |-> clock + 1,
                                 header |-> Header(Arg), pairs |-> {}])
                ELSE disk
    BY <1>13 DEF WriteHeader
  <2> QED
    BY <1>2, <1>3, <2>1, <2>2, OutputStep DEF Busy, FileStates
<1>14. CASE EndWrite
  <2>1. /\ pc = "flush" /\ pc' = "start" /\ clock' = clock + 1
        /\ current' = current + 1 /\ UNCHANGED <<args, cache>>
    BY <1>14 DEF EndWrite
  <2>2. disk' = IF Arg.outputDirectory \in Directories
                THEN SetSetting(disk, OutputPath,
                                [state |-> "complete", mtime |-> clock + 1,
                                 header |-> Header(Arg), pairs |-> cache.pairs])
                ELSE disk
    BY <1>14 DEF EndWrite
  <2> QED
    BY <1>2, <1>3, <2>1, <2>2, OutputStep DEF Busy, FileStates
<1> QED
  BY <1>1, <1>6, <1>7, <1>8, <1>9, <1>10, <1>11, <1>12, <1>13, <1>14
     DEF GeneratorStep

-----------------------------------------------------------------------------
(* Read mode, the benchmark and the serving process *)

\* The steps that end a run of read mode.
ReadModeEnds == LoadCacheThrows \/ LoadCache \/ ReadModeThrows \/ ReadTornFile

LEMMA LoadStep ==
  ASSUME IInv, ReadModeEnds
  PROVE  IInv'
<1>1. CASE LoadCacheThrows
  <2>1. pc = "load" /\ Throw /\ UNCHANGED <<runs, bench, torn, loaderVars>>
    BY <1>1 DEF LoadCacheThrows, historyVars
  <2> QED
    BY <2>1, ThrowStep
<1>2. CASE LoadCache \/ ReadModeThrows \/ ReadTornFile
  <2>1. /\ pc = "load" /\ pc' \in {"done", "threw", "died"}
        /\ UNCHANGED <<args, current, cache, disk, clock, runs, bench, torn>>
        /\ UNCHANGED loaderVars
    BY <1>2 DEF LoadCache, ReadModeThrows, ReadTornFile, ReadFrame, historyVars
  <2>2. \A p \in cache'.pairs : p.type \in KnownTypes
    BY <2>1 DEF IInv, WellTyped, TypeOK
  <2> QED
    BY <2>1, <2>2, QuietStep DEF Busy, Ended
<1> QED
  BY <1>1, <1>2 DEF ReadModeEnds

\* A step of the benchmark, with what it does to the files.
LEMMA BenchFrameStep ==
  ASSUME IInv, pc = "bench", pc' \in {"bench", "done", "threw"}, BenchFrame,
         clock' \in Nat, clock <= clock', BenchInOrder',
         \A p \in DOMAIN disk' : \/ p \in DOMAIN disk /\ disk'[p] = disk[p]
                                 \/ /\ disk'[p].state = "complete"
                                    /\ disk'[p].mtime \in Nat
                                    /\ disk'[p].mtime <= clock'
                                    /\ Sane(disk'[p].header)
  PROVE  IInv'
<1>1. /\ UNCHANGED <<args, current, cache, runs, torn>>
      /\ UNCHANGED <<loaderPc, lastModified, readHeader, served, faults>>
  BY DEF BenchFrame, loaderVars
<1>2. WellTyped'
  <2>1. \A p \in DOMAIN disk' : /\ disk'[p].state \in FileStates
                                /\ disk'[p].mtime <= clock'
                                /\ disk'[p].mtime \in Nat
    BY DEF IInv, WellTyped, TypeOK, FileStates
  <2>2. lastModified' <= clock'
    BY <1>1 DEF IInv, WellTyped, TypeOK
  <2> QED
    BY <1>1, <2>1, <2>2 DEF IInv, WellTyped, TypeOK
<1>3. ArgsInOrder'
  BY <1>1 DEF IInv, ArgsInOrder, Busy
<1>4. TornInv'
  BY <1>1 DEF IInv, TornInv, Finished
<1>5. HeadersSane' /\ ServedFamily'
  <2>1. \A p \in DOMAIN disk' : Sane(disk'[p].header)
    BY DEF IInv, HeadersSane
  <2> QED
    BY <1>1, <2>1 DEF IInv, HeadersSane, ServedFamily, Sane, LoadsAsDedupCache
<1> QED
  BY <1>2, <1>3, <1>4, <1>5 DEF IInv

LEMMA BenchHeaderSane == Sane(Header(BenchArgs))
<1>1. BenchArgs.cacheType \in LinearTypes
  BY LinearTypesAre DEF BenchArgs
<1> QED
  BY <1>1 DEF Sane, Header

LEMMA BenchStep ==
  ASSUME IInv, Bench
  PROVE  IInv'
<1> DEFINE BenchStates == [inserted : Nat, written : BOOLEAN,
                           renamed : BOOLEAN, round : Nat]
<1>1. bench \in BenchStates /\ clock \in Nat /\ clock <= clock
  BY DEF IInv, BenchInOrder, WellTyped
<1>2. pc = "bench" /\ BenchFrame
  BY DEF Bench, BenchInsert, BenchFinish, BenchRename, BenchRead
<1>3. bench.written /\ ~bench.renamed => Finished(BenchPath)
  BY <1>2 DEF IInv, BenchInOrder
<1>4. CASE BenchInsert
  <2>1. /\ pc' \in {"bench", "threw"}
        /\ bench' = [bench EXCEPT !.inserted = @ + 1]
        /\ UNCHANGED <<disk, clock>>
    BY <1>2, <1>4 DEF BenchInsert
  <2>2. BenchInOrder'
    BY <1>1, <1>3, <2>1 DEF BenchInOrder, Finished
  <2> QED
    BY <1>1, <1>2, <2>1, <2>2, BenchFrameStep
<1>5. CASE BenchFinish
  <2> DEFINE new == [state |-> "complete", mtime |-> clock + 1,
                     header |-> Header(BenchArgs), pairs |-> {}]
  <2>1. /\ pc' = "bench" /\ clock' = clock + 1
        /\ disk' = SetSetting(disk, BenchPath, new)
        /\ bench' = [bench EXCEPT !.written = TRUE]
    BY <1>2, <1>5 DEF BenchFinish
  <2>2. /\ new.state = "complete" /\ new.mtime = clock + 1
        /\ Sane(new.header)
    BY BenchHeaderSane
  <2> HIDE DEF new
  <2>3. /\ BenchPath \in DOMAIN disk' /\ disk'[BenchPath] = new
        /\ \A p \in DOMAIN disk' : p = BenchPath \/ (p \in DOMAIN disk /\ disk'[p] = disk[p])
    BY <2>1 DEF SetSetting
  <2>4. BenchInOrder'
    BY <1>1, <2>1, <2>2, <2>3 DEF BenchInOrder, Finished, BenchPath
  <2>5. clock' \in Nat /\ clock <= clock'
    BY <1>1, <2>1
  <2>6. \A p \in DOMAIN disk' : \/ p \in DOMAIN disk /\ disk'[p] = disk[p]
                                \/ /\ disk'[p].state = "complete"
                                   /\ disk'[p].mtime \in Nat
                                   /\ disk'[p].mtime <= clock'
                                   /\ Sane(disk'[p].header)
    BY <1>1, <2>1, <2>2, <2>3, <2>5
  <2> QED
    BY <1>2, <2>1, <2>4, <2>5, <2>6, BenchFrameStep
<1>6. CASE BenchRename
  <2>1. /\ pc' = "bench" /\ clock' = clock /\ bench.written /\ ~bench.renamed
        /\ disk' = [p \in (DOMAIN disk \ {BenchPath}) \cup {BenchTimestampPath} |->
                      IF p = BenchTimestampPath THEN disk[BenchPath] ELSE disk[p]]
        /\ bench' = [bench EXCEPT !.renamed = TRUE]
    BY <1>2, <1>6 DEF BenchRename
  <2>2. /\ disk[BenchPath].state = "complete" /\ disk[BenchPath].mtime \in Nat
        /\ disk[BenchPath].mtime <= clock /\ Sane(disk[BenchPath].header)
    BY <1>3, <2>1 DEF IInv, WellTyped, TypeOK, HeadersSane, Finished
  <2>3. BenchInOrder'
    BY <1>1, <2>1 DEF BenchInOrder
  <2>4. \A p \in DOMAIN disk' : \/ p \in DOMAIN disk /\ disk'[p] = disk[p]
                                \/ disk'[p] = disk[BenchPath]
    BY <2>1
  <2> QED
    BY <1>1, <1>2, <2>1, <2>2, <2>3, <2>4, BenchFrameStep
<1>7. CASE BenchRead
  <2>1. /\ pc' \in {"bench", "done", "threw"} /\ bench.renamed
        /\ bench' = bench \/ bench' = [NoBench EXCEPT !.round = 2]
        /\ UNCHANGED <<disk, clock>>
    BY <1>2, <1>7 DEF BenchRead
  <2>2. /\ [NoBench EXCEPT !.round = 2] \in BenchStates
        /\ [NoBench EXCEPT !.round = 2].written = FALSE
    BY DEF NoBench
  <2>3. bench' \in BenchStates /\ (bench'.written => bench'.renamed)
    BY <1>1, <2>1, <2>2, Zenon
  <2>4. BenchInOrder'
    BY <2>3 DEF BenchInOrder
  <2> QED
    BY <1>1, <1>2, <2>1, <2>4, BenchFrameStep
<1> QED
  BY <1>4, <1>5, <1>6, <1>7 DEF Bench

\* The serving process crashes, or one of the steps of load leaves what it
\* remembers as it was or takes it from the file.
LEMMA LoaderSteps ==
  ASSUME LoaderStep \/ LookupCrashes
  PROVE  /\ loaderPc' \in {loaderPc, "idle", "header", "map", "down"}
         /\ \/ lastModified' \in {lastModified, 0}
            \/ LoadPath \in DOMAIN disk /\ lastModified' = disk[LoadPath].mtime
         /\ faults' = faults \/ (faults < MaxFaults /\ faults' = faults + 1)
         /\ \/ readHeader' \in {readHeader, NoHeader}
            \/ LoadPath \in DOMAIN disk /\ readHeader' = disk[LoadPath].header
         /\ \/ served' = served
            \/ served'.header = NoHeader
            \/ LoadsAsDedupCache(readHeader) /\ served'.header = readHeader
<1>1. NotServed.header = NoHeader
  BY DEF NotServed
<1>2. CASE StatThrows \/ StatUnchanged \/ StatChanged \/ Restart
  BY <1>2 DEF StatThrows, StatUnchanged, StatChanged, Restart, loaderVars
<1>3. CASE LoadHeader \/ LoadHeaderThrows \/ HeaderFault
  BY <1>3 DEF LoadHeader, LoadHeaderThrows, HeaderFault, LoadThrows,
     HeaderReadable
<1>4. ASSUME NEW mapping, Map(mapping)
      PROVE  /\ loaderPc' = "idle" /\ UNCHANGED <<lastModified, readHeader>>
             /\ LoadsAsDedupCache(readHeader) /\ served'.header = readHeader
  BY <1>4 DEF Map
<1>5. ASSUME NEW mapping, MapThrows(mapping)
      PROVE  loaderPc' = "idle" /\ UNCHANGED <<lastModified, readHeader, served>>
  BY <1>5 DEF MapThrows, LoadThrows
<1>6. ASSUME Crash
      PROVE  /\ loaderPc' = "down" /\ lastModified' = 0
             /\ readHeader' = NoHeader /\ served'.header = NoHeader
  BY <1>1, <1>6 DEF Crash
<1>7. CASE MapFile
  <2>1. PICK mapping : Map(mapping) \/ MapThrows(mapping) \/ Crash
    BY <1>7 DEF MapFile, MapCrashes
  <2>2. faults' = faults
    BY <1>7 DEF MapFile
  <2> QED
    BY <1>4, <1>5, <1>6, <2>1, <2>2
<1>8. CASE MapFault
  <2>1. Map("null") \/ MapThrows("null") \/ Crash
    BY <1>8 DEF MapFault, MapCrashes
  <2>2. faults < MaxFaults /\ faults' = faults + 1
    BY <1>8 DEF MapFault
  <2> QED
    BY <1>4, <1>5, <1>6, <2>1, <2>2
<1>9. CASE LookupCrashes
  BY <1>6, <1>9 DEF LookupCrashes
<1> QED
  BY <1>2, <1>3, <1>7, <1>8, <1>9 DEF LoaderStep

LEMMA ServeStep ==
  ASSUME IInv, Serve \/ ServeLookupCrashes
  PROVE  IInv'
<1>1. LoaderStep \/ LookupCrashes
  BY DEF Serve, ServeLookupCrashes
<1>2. UNCHANGED <<pc, args, current, cache, disk, clock, runs, bench, torn>>
  BY DEF Serve, ServeLookupCrashes, ServeFrame, generatorVars, historyVars
<1>3. /\ loaderPc' \in {"idle", "header", "map", "down"}
      /\ \/ lastModified' \in {lastModified, 0}
         \/ LoadPath \in DOMAIN disk /\ lastModified' = disk[LoadPath].mtime
      /\ faults' = faults \/ (faults < MaxFaults /\ faults' = faults + 1)
  BY <1>1, LoaderSteps DEF IInv, WellTyped, TypeOK
<1>4. /\ \/ readHeader' \in {readHeader, NoHeader}
         \/ LoadPath \in DOMAIN disk /\ readHeader' = disk[LoadPath].header
      /\ \/ served' = served
         \/ served'.header = NoHeader
         \/ LoadsAsDedupCache(readHeader) /\ served'.header = readHeader
  BY <1>1, LoaderSteps
<1>5. WellTyped'
  <2>1. lastModified' \in Nat /\ lastModified' <= clock
    BY <1>3 DEF IInv, WellTyped, TypeOK
  <2>2. faults' \in Nat /\ faults' <= MaxFaults
    BY <1>3, CommandLineAssumption DEF IInv, WellTyped, TypeOK
  <2> QED
    BY <1>2, <1>3, <2>1, <2>2 DEF IInv, WellTyped, TypeOK
<1>6. ArgsInOrder' /\ BenchInOrder' /\ TornInv'
  <2>1. ArgsInOrder'
    BY <1>2 DEF IInv, ArgsInOrder, Sane, Header, Arg, HeaderOffsetBits,
       LoadsAsDedupCache
  <2>2. BenchInOrder'
    BY <1>2 DEF IInv, BenchInOrder, Finished, BenchPath
  <2>3. TornInv'
    BY <1>2 DEF IInv, TornInv, Finished, OutputPath, FileName, Arg
  <2> QED
    BY <2>1, <2>2, <2>3
<1>7. HeadersSane'
  <2>1. Sane(readHeader')
    BY <1>4, NoHeaderSane DEF IInv, HeadersSane
  <2> QED
    BY <1>2, <2>1 DEF IInv, HeadersSane, Sane, LoadsAsDedupCache
<1>8. ServedFamily'
  <2>1. NoHeader.cacheType = "NONE"
    BY DEF NoHeader
  <2> QED
    BY <1>4, <2>1 DEF IInv, HeadersSane, Sane, ServedFamily
<1> QED
  BY <1>5, <1>6, <1>7, <1>8 DEF IInv

LEMMA StutterStep ==
  ASSUME IInv, UNCHANGED vars
  PROVE  IInv'
<1>1. /\ UNCHANGED <<pc, args, current, cache, disk, clock, runs, bench, torn>>
      /\ UNCHANGED <<loaderPc, lastModified, readHeader, served, faults>>
  BY DEF vars, generatorVars, loaderVars
<1>2. WellTyped'
  BY <1>1 DEF IInv, WellTyped, TypeOK
<1>3. ArgsInOrder'
  BY <1>1 DEF IInv, ArgsInOrder, Sane, Header, Arg, HeaderOffsetBits,
     LoadsAsDedupCache
<1>4. BenchInOrder'
  BY <1>1 DEF IInv, BenchInOrder, Finished, BenchPath
<1>5. TornInv'
  BY <1>1 DEF IInv, TornInv, Finished, OutputPath, FileName, Arg
<1>6. HeadersSane' /\ ServedFamily'
  BY <1>1 DEF IInv, HeadersSane, ServedFamily, Sane, LoadsAsDedupCache
<1> QED
  BY <1>2, <1>3, <1>4, <1>5, <1>6 DEF IInv

-----------------------------------------------------------------------------
(* Sequences of lines *)

\* A set of numbers that is not empty has a smallest member.
LEMMA SmallestMember ==
  ASSUME NEW T, T \subseteq Nat, T # {}
  PROVE  \E d \in T : \A e \in T : ~(e < d)
<1>1. IsWellFoundedOn(OpToRel(<, Nat), Nat)
  BY NatLessThanWellFounded, Zenon
<1>2. PICK d \in T : \A e \in T : ~(<<e, d>> \in OpToRel(<, Nat))
  BY <1>1, WFMin, Zenon
<1> QED
  BY <1>2 DEF OpToRel

LEMMA MinIs ==
  ASSUME NEW T, T \subseteq Nat, T # {}
  PROVE  Min(T) \in T /\ \A y \in T : Min(T) <= y
<1>1. PICK d \in T : \A e \in T : ~(e < d)
  BY SmallestMember
<1>2. \A y \in T : d <= y
  BY <1>1
<1> QED
  BY <1>2 DEF Min

\* Induction up to n, for a set of numbers.
LEMMA InductionUpTo ==
  ASSUME NEW n \in Nat, NEW T, 0 \in T,
         \A i \in 1 .. n : i - 1 \in T => i \in T
  PROVE  \A i \in 0 .. n : i \in T
<1> DEFINE Missed == {i \in 0 .. n : i \notin T}
<1>1. ASSUME Missed # {} PROVE FALSE
  <2>1. PICK d \in Missed : \A e \in Missed : ~(e < d)
    <3>1. Missed \subseteq Nat
      OBVIOUS
    <3> HIDE DEF Missed
    <3> QED
      BY <1>1, <3>1, SmallestMember
  <2>2. d # 0 /\ d \in 1 .. n
    BY <2>1
  <2>3. d - 1 \in 0 .. n /\ d - 1 < d
    BY <2>2
  <2>4. d - 1 \in T
    BY <2>1, <2>3
  <2> QED
    BY <2>1, <2>2, <2>4
<1> QED
  BY <1>1

\* The function by which FlattenSeq is defined, up to n.
Flattens(seqs, n, f) ==
  f = [i \in 1 .. n |-> IF i = 1 THEN seqs[i] ELSE f[i - 1] \o seqs[i]]

LEMMA FlattensExists ==
  ASSUME NEW seqs, NEW n \in Nat
  PROVE  \E f : Flattens(seqs, n, f)
<1> DEFINE T == {m \in Nat : ~ \E f : Flattens(seqs, m, f)}
<1>1. ASSUME T # {} PROVE FALSE
  <2>1. PICK d \in T : \A e \in T : ~(e < d)
    <3>1. T \subseteq Nat
      OBVIOUS
    <3> HIDE DEF T
    <3> QED
      BY <1>1, <3>1, SmallestMember
  <2>2. CASE d = 0
    <3> DEFINE f == [i \in 1 .. 0 |-> 0]
    <3>1. Flattens(seqs, 0, f)
      BY DEF Flattens
    <3> QED
      BY <2>1, <2>2, <3>1
  <2>3. CASE d # 0
    <3>1. d - 1 \in Nat /\ d - 1 < d
      BY <2>1, <2>3
    <3>2. PICK f : Flattens(seqs, d - 1, f)
      BY <2>1, <3>1
    <3> DEFINE g == [i \in 1 .. d |-> IF i = 1 THEN seqs[i] ELSE f[i - 1] \o seqs[i]]
    <3>3. \A i \in 1 .. d - 1 : f[i] = IF i = 1 THEN seqs[i] ELSE f[i - 1] \o seqs[i]
      BY <3>2 DEF Flattens
    <3>4. \A i \in 1 .. d - 1 : i \in 1 .. d /\ g[i] = f[i]
      BY <3>1, <3>3
    <3>5. \A i \in 1 .. d : g[i] = IF i = 1 THEN seqs[i] ELSE f[i - 1] \o seqs[i]
      OBVIOUS
    <3>6. g = [i \in 1 .. d |-> g[i]]
      OBVIOUS
    <3> HIDE DEF g
    <3>7. ASSUME NEW i \in 1 .. d, i # 1
          PROVE  f[i - 1] = g[i - 1]
      <4>1. i - 1 \in 1 .. d - 1
        BY <3>1, <3>7
      <4> QED
        BY <3>4, <4>1
    <3>8. \A i \in 1 .. d : g[i] = IF i = 1 THEN seqs[i] ELSE g[i - 1] \o seqs[i]
      BY <3>7, <3>5
    <3>9. Flattens(seqs, d, g)
      BY <3>6, <3>8 DEF Flattens
    <3> QED
      BY <2>1, <3>9
  <2> QED
    BY <2>2, <2>3
<1> QED
  BY <1>1

\* The lines of the first i files.
Prefix(seqs, i) ==
  IF i = 0 THEN <<>> ELSE (CHOOSE f : Flattens(seqs, Len(seqs), f))[i]

LEMMA PrefixStep ==
  ASSUME NEW S, NEW seqs, Len(seqs) \in Nat, NEW i \in 1 .. Len(seqs),
         Prefix(seqs, i - 1) \in Seq(S), seqs[i] \in Seq(S)
  PROVE  /\ Prefix(seqs, i) = Prefix(seqs, i - 1) \o seqs[i]
         /\ Prefix(seqs, i) \in Seq(S)
<1> DEFINE f == CHOOSE g : Flattens(seqs, Len(seqs), g)
<1>1. Flattens(seqs, Len(seqs), f)
  BY FlattensExists
<1>2. Prefix(seqs, i) = f[i] /\ (i # 1 => Prefix(seqs, i - 1) = f[i - 1])
  BY DEF Prefix
<1> HIDE DEF f
<1>3. f[i] = IF i = 1 THEN seqs[i] ELSE f[i - 1] \o seqs[i]
  BY <1>1 DEF Flattens
<1>4. i = 1 => Prefix(seqs, i - 1) = <<>>
  BY DEF Prefix
<1>5. <<>> \o seqs[i] = seqs[i]
  BY ConcatEmptySeq
<1>6. Prefix(seqs, i) = Prefix(seqs, i - 1) \o seqs[i]
  BY <1>2, <1>3, <1>4, <1>5
<1>7. Prefix(seqs, i - 1) \o seqs[i] \in Seq(S)
  BY ConcatProperties
<1> QED
  BY <1>6, <1>7

LEMMA PrefixAll ==
  ASSUME NEW seqs, Len(seqs) \in Nat \ {0}
  PROVE  FlattenSeq(seqs) = Prefix(seqs, Len(seqs))
<1>1. FlattenSeq(seqs) = (CHOOSE f : Flattens(seqs, Len(seqs), f))[Len(seqs)]
  BY DEF FlattenSeq, Flattens
<1> QED
  BY <1>1 DEF Prefix

-----------------------------------------------------------------------------
(* What a cache holds of its lines *)

Firsts(all) == {FirstLine(all, k) : k \in KeysOf(all)}

LEMMA FirstLineIs ==
  ASSUME NEW S, NEW all \in Seq(S), NEW k \in KeysOf(all)
  PROVE  \E i \in 1 .. Len(all) :
           /\ FirstLine(all, k) = ParseValue(all[i])
           /\ ParseValue(all[i]).key = k
           /\ i = Min({j \in DOMAIN all : ParseValue(all[j]).key = k})
           /\ \A j \in 1 .. Len(all) : ParseValue(all[j]).key = k => i <= j
<1> DEFINE I == {i \in DOMAIN all : ParseValue(all[i]).key = k}
<1>1. Len(all) \in Nat /\ DOMAIN all = 1 .. Len(all)
  BY LenProperties
<1>2. I \subseteq Nat /\ I # {}
  BY <1>1 DEF KeysOf
<1>3. FirstLine(all, k) = ParseValue(all[Min(I)])
  BY DEF FirstLine
<1>4. \A i \in 1 .. Len(all) : i \in I <=> ParseValue(all[i]).key = k
  BY <1>1
<1>5. I \subseteq 1 .. Len(all)
  BY <1>1
<1>6. Min(I) \in I /\ \A y \in I : Min(I) <= y
  <2> HIDE DEF I
  <2> QED
    BY <1>2, MinIs
<1> QED
  BY <1>1, <1>3, <1>4, <1>5, <1>6

\* A line adds its pair if its key is new, and nothing otherwise.
LEMMA FirstsAppend ==
  ASSUME NEW S, NEW all \in Seq(S), NEW line \in S
  PROVE  Firsts(Append(all, line)) =
           IF ParseValue(line).key \in KeysOf(all) THEN Firsts(all)
           ELSE Firsts(all) \cup {ParseValue(line)}
<1>1. PICK more : more = Append(all, line)
  OBVIOUS
<1>2. PICK n : n = Len(all)
  OBVIOUS
<1>3. n \in Nat /\ DOMAIN all = 1 .. n
  BY <1>2, LenProperties
<1>4. /\ more \in Seq(S) /\ Len(more) = n + 1 /\ DOMAIN more = 1 .. n + 1
      /\ \A i \in 1 .. n : more[i] = all[i]
      /\ more[n + 1] = line
  BY <1>1, <1>2, AppendProperties, LenProperties
<1>5. KeysOf(more) = KeysOf(all) \cup {ParseValue(line).key}
  BY <1>3, <1>4 DEF KeysOf
<1>6. ASSUME NEW k \in KeysOf(all)
      PROVE  FirstLine(more, k) = FirstLine(all, k)
  <2>1. PICK i \in 1 .. n : /\ FirstLine(all, k) = ParseValue(all[i])
                            /\ ParseValue(all[i]).key = k
                            /\ \A j \in 1 .. n : ParseValue(all[j]).key = k => i <= j
    BY <1>2, FirstLineIs
  <2>2. k \in KeysOf(more)
    BY <1>5
  <2>3. PICK m \in 1 .. n + 1 :
          /\ FirstLine(more, k) = ParseValue(more[m])
          /\ ParseValue(more[m]).key = k
          /\ \A j \in 1 .. n + 1 : ParseValue(more[j]).key = k => m <= j
    <3>1. Len(more) = n + 1 /\ more \in Seq(S)
      BY <1>4
    <3> QED
      BY <2>2, <3>1, FirstLineIs
  <2>4. i \in 1 .. n + 1 /\ more[i] = all[i]
    BY <1>3, <1>4
  <2>5. m <= i
    BY <2>1, <2>3, <2>4
  <2>6. m \in 1 .. n /\ more[m] = all[m]
    BY <1>3, <1>4, <2>5
  <2>7. i <= m
    BY <2>1, <2>3, <2>6
  <2>8. m = i
    BY <1>3, <2>5, <2>7
  <2> QED
    BY <2>1, <2>3, <2>4, <2>8
<1>7. ASSUME ParseValue(line).key \notin KeysOf(all)
      PROVE  FirstLine(more, ParseValue(line).key) = ParseValue(line)
  <2> DEFINE k == ParseValue(line).key
  <2>1. k \in KeysOf(more)
    BY <1>5
  <2>2. PICK m \in 1 .. n + 1 :
          /\ FirstLine(more, k) = ParseValue(more[m])
          /\ ParseValue(more[m]).key = k
    <3>1. Len(more) = n + 1 /\ more \in Seq(S)
      BY <1>4
    <3> HIDE DEF k
    <3> QED
      BY <2>1, <3>1, FirstLineIs
  <2>3. \A i \in 1 .. n : ParseValue(more[i]).key # k
    BY <1>3, <1>4, <1>7 DEF KeysOf
  <2>4. m = n + 1
    BY <1>3, <2>2, <2>3
  <2> QED
    BY <1>4, <2>2, <2>4
<1>8. CASE ParseValue(line).key \in KeysOf(all)
  <2>1. KeysOf(more) = KeysOf(all)
    BY <1>5, <1>8
  <2>2. Firsts(more) = Firsts(all)
    BY <1>6, <2>1 DEF Firsts
  <2> QED
    BY <1>1, <1>8, <2>2
<1>9. CASE ParseValue(line).key \notin KeysOf(all)
  <2>1. Firsts(more) = Firsts(all) \cup {ParseValue(line)}
    BY <1>5, <1>6, <1>7, <1>9 DEF Firsts
  <2> QED
    BY <1>1, <1>9, <2>1
<1> QED
  BY <1>8, <1>9

\* put keeps a cache, which is no MAP, to the first line of every key.
LEMMA PutPairFirsts ==
  ASSUME NEW S, NEW all \in Seq(S), NEW line \in S, NEW a, a.cacheType # "MAP",
         NEW c, c.pairs = Firsts(all)
  PROVE  PutPair(a, c, ParseValue(line)).pairs = Firsts(Append(all, line))
<1> DEFINE p == ParseValue(line)
           known == \E q \in c.pairs : q.key = p.key
<1>1. known <=> p.key \in KeysOf(all)
  <2>1. \A k \in KeysOf(all) : FirstLine(all, k).key = k
    BY FirstLineIs
  <2> QED
    BY <2>1 DEF Firsts
<1>2. PutPair(a, c, p).pairs = IF known THEN c.pairs ELSE c.pairs \cup {p}
  BY DEF PutPair
<1> QED
  BY <1>1, <1>2, FirstsAppend

-----------------------------------------------------------------------------
(* What is on the disk is made from the input *)

AllLines ==
  UNION {UNION {Range(InputFiles[p][d]) : d \in DOMAIN InputFiles[p]} :
           p \in DOMAIN InputFiles}

\* The generator runs in write mode, with settings that can be read and input
\* files that are lists, or for the one cache of createMode.
ModeInv ==
  /\ pc \in Busy \cup {"start"} =>
       IF Mode(options) = "write"
       THEN /\ pc # "create"
            /\ \A p \in DOMAIN InputFiles :
                 LineDelimiter(settings) \in DOMAIN InputFiles[p]
            /\ \A i \in DOMAIN args : IsSequence(args[i].inputFiles)
       ELSE /\ Mode(options) = "create"
            /\ \/ pc \in {"create", "write", "flush"} /\ current = Len(args)
               \/ pc = "start" /\ current > Len(args)
  /\ pc \in Busy => current <= Len(args)
  /\ pc = "bench" => Mode(options) = "bench"

\* The lines of each of the input files.
FileLines ==
  [i \in DOMAIN Arg.inputFiles |->
     InputFiles[Arg.inputFiles[i]][LineDelimiter(settings)]]

\* The cache holds what these lines say.
Taken(all) ==
  /\ all \in Seq(AllLines)
  /\ Arg.cacheType # "MAP" => cache.pairs = Firsts(all)

\* The cache in work holds the lines that were read so far.
WorkInv ==
  /\ pc = "open" => /\ file \in 1 .. Len(Arg.inputFiles) + 1
                    /\ Taken(Prefix(FileLines, file - 1))
  /\ pc = "read" => /\ file \in 1 .. Len(Arg.inputFiles)
                    /\ lines \in Seq(AllLines)
                    /\ \E all : /\ Taken(all)
                                /\ all \o lines = Prefix(FileLines, file)
  /\ pc \in {"write", "flush"} /\ Mode(options) = "write" =>
       Taken(Prefix(FileLines, Len(Arg.inputFiles)))
  /\ pc \in {"open", "read", "write", "flush"} /\ Mode(options) = "write" =>
       Arg.inputFiles # <<>>

\* What write mode has finished is exact, and the benchmark renames its cache
\* to none of the files of write mode.
DiskInv ==
  /\ GeneratedExact
  /\ BenchTimestampPath \notin DOMAIN source
  /\ \A p \in DOMAIN source : source[p] \in Seq(AllLines)

MadeInv == ModeInv /\ WorkInv /\ DiskInv

LEMMA IsSequenceIs ==
  ASSUME NEW s, IsSequence(s)
  PROVE  Len(s) \in Nat /\ DOMAIN s = 1 .. Len(s) /\ (s # <<>> => Len(s) >= 1)
<1>1. s \in Seq(Range(s))
  BY DEF IsSequence
<1>2. Len(s) \in Nat /\ DOMAIN s = 1 .. Len(s)
  BY <1>1, LenProperties
<1>3. Len(s) = 0 => s = <<>>
  BY <1>1, EmptySeq
<1> QED
  BY <1>2, <1>3

LEMMA FunctionIsSequence ==
  ASSUME NEW n \in Nat, NEW f, f = [i \in 1 .. n |-> f[i]]
  PROVE  IsSequence(f) /\ Len(f) = n
<1>1. f \in [1 .. n -> Range(f)]
  BY DEF Range
<1>2. f \in Seq(Range(f))
  BY <1>1, SeqDef
<1>3. DOMAIN f = 1 .. n
  OBVIOUS
<1>4. Len(f) = n
  BY <1>2, <1>3, LenProperties
<1> QED
  BY <1>2, <1>4 DEF IsSequence

LEMMA InputLines ==
  ASSUME NEW p \in DOMAIN InputFiles, NEW d \in DOMAIN InputFiles[p]
  PROVE  InputFiles[p][d] \in Seq(AllLines)
<1>1. PICK s : s = InputFiles[p][d]
  OBVIOUS
<1>2. IsSequence(s)
  BY <1>1, CommandLineAssumption
<1>3. Range(s) \subseteq AllLines
  BY <1>1 DEF AllLines
<1>4. s \in Seq(Range(s))
  BY <1>2 DEF IsSequence
<1>5. s \in [1 .. Len(s) -> Range(s)] /\ Len(s) \in Nat
  BY <1>4, LenProperties
<1>6. s \in [1 .. Len(s) -> AllLines]
  BY <1>3, <1>5
<1>7. s \in Seq(AllLines)
  BY <1>5, <1>6, SeqDef
<1> QED
  BY <1>1, <1>7

LEMMA NoLines == Firsts(<<>>) = {} /\ <<>> \in Seq(AllLines)
BY DEF Firsts, KeysOf

LEMMA OtherSettingKept ==
  ASSUME NEW s, NEW n, NEW v, NEW m, m # n, NEW default
  PROVE  GetString(SetIfNotSet(s, n, v), m, default) = GetString(s, m, default)
BY DEF GetString, SetIfNotSet, SetSetting, IsSet

\* The options do not say how the input is split.
LEMMA DelimiterKept ==
  ASSUME NEW s, NEW o
  PROVE  LineDelimiter(ModeSettings(s, o)) = LineDelimiter(s)
<1>0. PICK none : none = ""
  OBVIOUS
<1> DEFINE m == <<"control_char.line">>
           n1 == <<"names">>
           n2 == <<"type", o.name>>
           n3 == <<"input_files", o.name>>
           n4 == <<"output_dir", o.name>>
           n5 == <<"load_dir", o.name>>
           s1 == SetIfNotSet(s, n1, <<o.name>>)
           s2 == SetIfNotSet(s1, n2, o.type)
           s3 == SetIfNotSet(s2, n3, o.inputFiles)
           s4 == SetIfNotSet(s3, n4, o.outputDir)
           r1 == SetIfNotSet(s, n2, o.type)
           r2 == SetIfNotSet(r1, n5, o.loadDir)
<1>1. /\ m[1] = "control_char.line" /\ n1[1] = "names" /\ n2[1] = "type"
      /\ n3[1] = "input_files" /\ n4[1] = "output_dir" /\ n5[1] = "load_dir"
  OBVIOUS
<1>2. ModeSettings(s, o) \in {s, s4, r2}
  BY DEF ModeSettings
<1>3. \A x : LineDelimiter(x) = LET text == GetString(x, m, none)
                                IN IF text = none THEN kControlCharLine
                                   ELSE IF text \in DOMAIN Escapes THEN Escapes[text]
                                   ELSE FirstChar[text]
  BY <1>0 DEF LineDelimiter, GetChar
<1> HIDE DEF m, n1, n2, n3, n4, n5
<1>4. m # n1 /\ m # n2 /\ m # n3 /\ m # n4 /\ m # n5
  BY <1>1
<1>5. GetString(s1, m, none) = GetString(s, m, none)
  BY <1>4, OtherSettingKept
<1>6. GetString(s2, m, none) = GetString(s1, m, none)
  <2> HIDE DEF s1
  <2> QED
    BY <1>4, OtherSettingKept
<1>7. GetString(s3, m, none) = GetString(s2, m, none)
  <2> HIDE DEF s2
  <2> QED
    BY <1>4, OtherSettingKept
<1>8. GetString(s4, m, none) = GetString(s3, m, none)
  <2> HIDE DEF s3
  <2> QED
    BY <1>4, OtherSettingKept
<1>9. GetString(r1, m, none) = GetString(s, m, none)
  BY <1>4, OtherSettingKept
<1>10. GetString(r2, m, none) = GetString(r1, m, none)
  <2> HIDE DEF r1
  <2> QED
    BY <1>4, OtherSettingKept
<1> HIDE DEF s1, s2, s3, s4, r1, r2
<1>11. GetString(ModeSettings(s, o), m, none) = GetString(s, m, none)
  BY <1>2, <1>5, <1>6, <1>7, <1>8, <1>9, <1>10
<1> QED
  BY <1>3, <1>11

\* The input files of every cache are a list.
LEMMA InputFilesListed ==
  ASSUME NEW s, Listed(s), NEW i \in DOMAIN GeneratorArgs(s)
  PROVE  IsSequence(GeneratorArgs(s)[i].inputFiles)
<1> DEFINE names == GetString(s, <<"names">>, <<"axoncache">>)
           name == names[i]
           n == <<"input_files", name>>
           none == <<>>
           dir == GetString(s, <<"input_dir", name>>, kInputDir)
           inputs == GetString(s, n, none)
           paths == InputPaths(dir, inputs)
<1>1. GeneratorArgs(s) = [j \in DOMAIN names |-> CacheArgs(s, names[j])]
  BY DEF GeneratorArgs
<1>2. GeneratorArgs(s)[i].inputFiles = paths
  BY <1>1 DEF CacheArgs
<1>3. n[1] = "input_files" /\ IsSequence(none)
  BY DEF IsSequence
<1> HIDE DEF n, none
<1>4. IsSequence(inputs)
  BY <1>3, ListedGet
<1> HIDE DEF dir, inputs
<1>5. Len(inputs) \in Nat /\ DOMAIN inputs = 1 .. Len(inputs)
  BY <1>4, IsSequenceIs
<1>6. paths = [j \in DOMAIN inputs |-> paths[j]]
  BY DEF InputPaths
<1> HIDE DEF paths
<1>7. IsSequence(paths)
  BY <1>5, <1>6, FunctionIsSequence
<1> QED
  BY <1>2, <1>7

LEMMA MoveHead ==
  ASSUME NEW S, NEW all \in Seq(S), NEW rest \in Seq(S), rest # <<>>
  PROVE  /\ Head(rest) \in S /\ Tail(rest) \in Seq(S)
         /\ Append(all, Head(rest)) \in Seq(S)
         /\ Append(all, Head(rest)) \o Tail(rest) = all \o rest
<1>1. PICK h : h = Head(rest)
  OBVIOUS
<1>2. PICK t : t = Tail(rest)
  OBVIOUS
<1>3. PICK m : m = Append(all, h)
  OBVIOUS
<1>4. /\ h \in S /\ t \in Seq(S) /\ Len(rest) >= 1 /\ Len(t) = Len(rest) - 1
      /\ \A i \in 1 .. Len(t) : t[i] = rest[i + 1]
      /\ h = rest[1]
  BY <1>1, <1>2, HeadTailProperties, EmptySeq, LenProperties
<1>5. /\ m \in Seq(S) /\ Len(m) = Len(all) + 1 /\ m[Len(all) + 1] = h
      /\ \A i \in 1 .. Len(all) : m[i] = all[i]
  BY <1>3, <1>4, AppendProperties
<1>6. PICK x : x = m \o t
  OBVIOUS
<1>7. PICK y : y = all \o rest
  OBVIOUS
<1>8. Len(all) \in Nat /\ Len(rest) \in Nat
  BY LenProperties
<1>9. /\ x \in Seq(S) /\ Len(x) = Len(all) + Len(rest)
      /\ \A i \in 1 .. Len(x) :
           x[i] = IF i <= Len(all) + 1 THEN m[i] ELSE t[i - (Len(all) + 1)]
  <2>1. /\ x \in Seq(S) /\ Len(x) = Len(m) + Len(t)
        /\ \A i \in 1 .. Len(m) + Len(t) :
             x[i] = IF i <= Len(m) THEN m[i] ELSE t[i - Len(m)]
    BY <1>4, <1>5, <1>6, ConcatProperties
  <2>2. Len(m) + Len(t) = Len(all) + Len(rest)
    BY <1>4, <1>5, <1>8
  <2> QED
    BY <1>5, <2>1, <2>2
<1>10. /\ y \in Seq(S) /\ Len(y) = Len(all) + Len(rest)
       /\ \A i \in 1 .. Len(y) :
            y[i] = IF i <= Len(all) THEN all[i] ELSE rest[i - Len(all)]
  BY <1>7, <1>8, ConcatProperties
<1>11. ASSUME NEW i \in 1 .. Len(x) PROVE x[i] = y[i]
  <2>1. CASE i <= Len(all)
    BY <1>5, <1>8, <1>9, <1>10, <2>1
  <2>2. CASE i = Len(all) + 1
    <3>1. x[i] = h
      BY <1>5, <1>8, <1>9, <2>2
    <3>2. i \in 1 .. Len(y) /\ ~(i <= Len(all)) /\ i - Len(all) = 1
      BY <1>4, <1>8, <1>9, <1>10, <2>2
    <3>3. y[i] = rest[i - Len(all)]
      BY <1>10, <3>2
    <3>4. y[i] = rest[1]
      BY <3>2, <3>3
    <3> QED
      BY <1>4, <3>1, <3>4
  <2>3. CASE i > Len(all) + 1
    <3>1. PICK j : j = i - (Len(all) + 1)
      OBVIOUS
    <3>2. j \in 1 .. Len(t) /\ j + 1 = i - Len(all)
      BY <1>4, <1>8, <1>9, <2>3, <3>1
    <3>3. x[i] = t[j] /\ y[i] = rest[j + 1]
      BY <1>8, <1>9, <1>10, <2>3, <3>1, <3>2
    <3> QED
      BY <1>4, <3>2, <3>3
  <2> QED
    BY <1>8, <1>9, <2>1, <2>2, <2>3
<1>12. x = y
  BY <1>9, <1>10, <1>11, SeqEqual
<1> QED
  BY <1>1, <1>2, <1>3, <1>4, <1>5, <1>6, <1>7, <1>12

-----------------------------------------------------------------------------
(* The steps *)

LEMMA InitMadeInv == Init => MadeInv
<1> SUFFICES ASSUME Init PROVE MadeInv
  OBVIOUS
<1>1. pc = "idle" /\ DOMAIN source = {}
  BY DEF Init
<1> QED
  BY <1>1 DEF MadeInv, ModeInv, WorkInv, DiskInv, GeneratedExact, Busy

\* The process ends, or its work does not concern the generator.
LEMMA IdleFrame ==
  ASSUME pc' \notin Busy \cup {"start"}, pc' = "bench" => Mode(options') = "bench"
  PROVE  ModeInv' /\ WorkInv'
BY DEF ModeInv, WorkInv, Busy

LEMMA SameWork ==
  ASSUME UNCHANGED <<settings, args, current>>
  PROVE  Arg' = Arg /\ LineDelimiter(settings)' = LineDelimiter(settings)
         /\ FileLines' = FileLines
<1>1. Arg' = Arg
  BY DEF Arg
<1>2. LineDelimiter(settings)' = LineDelimiter(settings)
  BY DEF LineDelimiter, GetChar, GetString, IsSet
<1> QED
  BY <1>1, <1>2 DEF FileLines

LEMMA WorkFrame ==
  ASSUME MadeInv, UNCHANGED <<pc, settings, args, current, file, lines, cache, options>>
  PROVE  ModeInv' /\ WorkInv'
<1>1. /\ Arg' = Arg /\ LineDelimiter(settings)' = LineDelimiter(settings)
      /\ FileLines' = FileLines
  BY SameWork
<1>2. Mode(options)' = Mode(options)
  BY DEF Mode
<1>3. ModeInv'
  BY <1>1, <1>2 DEF MadeInv, ModeInv
<1>4. WorkInv'
  BY <1>1, <1>2 DEF MadeInv, WorkInv, Taken
<1> QED
  BY <1>3, <1>4

LEMMA DiskFrame ==
  ASSUME MadeInv, UNCHANGED <<disk, source>>
  PROVE  DiskInv'
BY DEF MadeInv, DiskInv, GeneratedExact, Finished, BenchTimestampPath

LEMMA RunMade ==
  ASSUME MadeInv, NEW o \in CommandLines, NEW config \in ConfigFiles, Run(o, config)
  PROVE  MadeInv'
<1> DEFINE s == ModeSettings(ReadSettings(config), o)
<1>1. /\ options' = o /\ settings' = s /\ pc' = FirstPc(o) /\ current' = 1
      /\ UNCHANGED <<disk, source>>
  BY DEF Run, historyVars
<1>2. /\ FirstPc(o) = "start" => args' = GeneratorArgs(s)
      /\ FirstPc(o) = "create" =>
           args' = <<CreateArgs(o.name, o.outputDir, o.slots, o.createFile)>>
  BY DEF Run
<1>3. Listed(s)
  BY ModeSettingsListed
<1>4. LineDelimiter(s) = LineDelimiter(ReadSettings(config))
  BY DelimiterKept
<1>5. \A p \in DOMAIN InputFiles : LineDelimiter(s) \in DOMAIN InputFiles[p]
  BY <1>4, CommandLineAssumption
<1> HIDE DEF s
<1>6. DiskInv'
  BY <1>1, DiskFrame
<1>7. CASE FirstPc(o) = "start"
  <2>1. Mode(o) = "write" /\ Mode(options)' = Mode(o)
    BY <1>1, <1>7, FirstPcIs
  <2>2. LineDelimiter(settings)' = LineDelimiter(s)
    BY <1>1
  <2>3. \A i \in DOMAIN args' : IsSequence(args'[i].inputFiles)
    BY <1>2, <1>3, <1>7, InputFilesListed
  <2>4. ModeInv'
    BY <1>1, <1>5, <1>7, <2>1, <2>2, <2>3 DEF ModeInv, Busy, IsSequence
  <2>5. WorkInv'
    BY <1>1, <1>7 DEF WorkInv
  <2> QED
    BY <1>6, <2>4, <2>5 DEF MadeInv
<1>8. CASE FirstPc(o) = "create"
  <2>1. Mode(o) = "create" /\ Mode(options)' = Mode(o)
    BY <1>1, <1>8, FirstPcIs
  <2>2. Len(args') = 1
    BY <1>2, <1>8
  <2>3. ModeInv'
    BY <1>1, <1>8, <2>1, <2>2 DEF ModeInv, Busy
  <2>4. WorkInv'
    BY <1>1, <1>8, <2>1 DEF WorkInv
  <2> QED
    BY <1>6, <2>3, <2>4 DEF MadeInv
<1>9. CASE FirstPc(o) \notin {"start", "create"}
  BY <1>1, <1>6, <1>9, FirstPcIs, IdleFrame DEF MadeInv, Busy
<1> QED
  BY <1>7, <1>8, <1>9

LEMMA DieMade ==
  ASSUME MadeInv, Die
  PROVE  MadeInv'
<1>1. pc' = "died" /\ UNCHANGED <<disk, source>>
  BY DEF Die
<1> QED
  BY <1>1, DiskFrame, IdleFrame DEF MadeInv, Busy

\* The next cache is empty: of the lines nothing is taken yet.
LEMMA CreateCacheMade ==
  ASSUME IInv, MadeInv, Generate, CreateCache
  PROVE  MadeInv'
<1>1. /\ pc = "start" /\ current <= Len(args) /\ Arg.inputFiles # <<>>
      /\ pc' = "open" /\ file' = 1 /\ cache' = EmptyCache
      /\ UNCHANGED <<settings, args, current, disk, options, source>>
  BY DEF CreateCache, NewCache, Generate
<1>2. current \in DOMAIN args
  BY <1>1 DEF IInv, ArgsInOrder
<1>3. Mode(options) = "write"
  <2>1. current \in Nat /\ Len(args) \in Nat
    BY <1>1 DEF IInv, ArgsInOrder
  <2> QED
    BY <1>1, <2>1 DEF MadeInv, ModeInv
<1>4. /\ Arg' = Arg /\ LineDelimiter(settings)' = LineDelimiter(settings)
      /\ FileLines' = FileLines /\ Mode(options)' = Mode(options)
  BY <1>1, SameWork
<1>5. IsSequence(Arg.inputFiles)
  BY <1>1, <1>2, <1>3 DEF MadeInv, ModeInv, Arg
<1>6. Len(Arg.inputFiles) \in Nat /\ Len(Arg.inputFiles) >= 1
  BY <1>1, <1>5, IsSequenceIs
<1>7. ModeInv'
  BY <1>1, <1>3, <1>4 DEF MadeInv, ModeInv, Busy
<1>8. Prefix(FileLines, 0) = <<>>
  BY DEF Prefix
<1>9. Taken(<<>>)'
  BY <1>1, NoLines DEF Taken, EmptyCache
<1>10. WorkInv'
  BY <1>1, <1>4, <1>6, <1>8, <1>9 DEF WorkInv
<1>11. DiskInv'
  BY <1>1, DiskFrame
<1> QED
  BY <1>7, <1>10, <1>11 DEF MadeInv

\* What holds while an input file is read.
LEMMA ReadingFacts ==
  ASSUME IInv, MadeInv, pc \in {"open", "read"}
  PROVE  /\ Mode(options) = "write"
         /\ current \in DOMAIN args
         /\ Len(Arg.inputFiles) \in Nat /\ Len(FileLines) = Len(Arg.inputFiles)
         /\ \A i \in 1 .. Len(Arg.inputFiles) :
              /\ FileLines[i] = InputFiles[Arg.inputFiles[i]][LineDelimiter(settings)]
              /\ Arg.inputFiles[i] \in DOMAIN InputFiles =>
                   FileLines[i] \in Seq(AllLines)
<1>1. Mode(options) = "write"
  BY DEF MadeInv, ModeInv, Busy
<1>2. current \in DOMAIN args
  BY DEF IInv, ArgsInOrder, MadeInv, ModeInv, Busy
<1>3. IsSequence(Arg.inputFiles)
  BY <1>1, <1>2 DEF MadeInv, ModeInv, Arg, Busy
<1>4. PICK n : n = Len(Arg.inputFiles)
  OBVIOUS
<1>5. n \in Nat /\ DOMAIN Arg.inputFiles = 1 .. n
  BY <1>3, <1>4, IsSequenceIs
<1>6. FileLines = [i \in 1 .. n |->
                     InputFiles[Arg.inputFiles[i]][LineDelimiter(settings)]]
  BY <1>5 DEF FileLines
<1>7. Len(FileLines) = n
  BY <1>5, <1>6, FunctionIsSequence
<1>8. \A p \in DOMAIN InputFiles :
        LineDelimiter(settings) \in DOMAIN InputFiles[p]
  BY <1>1 DEF MadeInv, ModeInv, Busy
<1>9. ASSUME NEW i \in 1 .. n
      PROVE  /\ FileLines[i] = InputFiles[Arg.inputFiles[i]][LineDelimiter(settings)]
             /\ Arg.inputFiles[i] \in DOMAIN InputFiles =>
                  FileLines[i] \in Seq(AllLines)
  BY <1>6, <1>8, InputLines
<1> QED
  BY <1>1, <1>2, <1>4, <1>5, <1>7, <1>9

LEMMA OpenInputMade ==
  ASSUME IInv, MadeInv, Generate, OpenInput
  PROVE  MadeInv'
<1>1. /\ pc = "open" /\ file <= Len(Arg.inputFiles) /\ pc' = "read"
      /\ Arg.inputFiles[file] \in DOMAIN InputFiles
      /\ lines' = InputFiles[Arg.inputFiles[file]][LineDelimiter(settings)]
      /\ UNCHANGED <<settings, args, current, file, cache, disk, options, source>>
  BY DEF OpenInput, Generate, Path
<1>2. /\ Mode(options) = "write" /\ Len(Arg.inputFiles) \in Nat
      /\ Len(FileLines) = Len(Arg.inputFiles)
  BY <1>1, ReadingFacts
<1>3. file \in 1 .. Len(Arg.inputFiles) /\ Taken(Prefix(FileLines, file - 1))
  BY <1>1, <1>2 DEF MadeInv, WorkInv
<1>4. lines' = FileLines[file] /\ lines' \in Seq(AllLines)
  BY <1>1, <1>3, ReadingFacts
<1>5. Prefix(FileLines, file - 1) \in Seq(AllLines)
  BY <1>3 DEF Taken
<1>6. Prefix(FileLines, file) = Prefix(FileLines, file - 1) \o lines'
  BY <1>2, <1>3, <1>4, <1>5, PrefixStep
<1>7. /\ Arg' = Arg /\ LineDelimiter(settings)' = LineDelimiter(settings)
      /\ FileLines' = FileLines /\ Mode(options)' = Mode(options)
  BY <1>1, SameWork
<1>8. PICK all : all = Prefix(FileLines, file - 1)
  OBVIOUS
<1>9. Taken(all)' /\ (all \o lines)' = Prefix(FileLines, file)'
  BY <1>1, <1>3, <1>6, <1>7, <1>8 DEF Taken
<1>10. ModeInv'
  BY <1>1, <1>2, <1>7 DEF MadeInv, ModeInv, Busy
<1>11. Arg.inputFiles # <<>>
  BY <1>1, <1>2 DEF MadeInv, WorkInv
<1>12. WorkInv'
  BY <1>1, <1>3, <1>4, <1>7, <1>9, <1>11 DEF WorkInv
<1>13. DiskInv'
  BY <1>1, DiskFrame
<1> QED
  BY <1>10, <1>12, <1>13 DEF MadeInv

LEMMA CloseInputMade ==
  ASSUME IInv, MadeInv, Generate, CloseInput
  PROVE  MadeInv'
<1>1. /\ pc = "read" /\ lines = <<>> /\ file' = file + 1 /\ pc' = "open"
      /\ UNCHANGED <<settings, args, current, cache, disk, options, source>>
  BY DEF CloseInput, Generate
<1>2. Mode(options) = "write" /\ Len(Arg.inputFiles) \in Nat
  BY <1>1, ReadingFacts
<1>3. PICK all : Taken(all) /\ all \o lines = Prefix(FileLines, file)
  BY <1>1 DEF MadeInv, WorkInv
<1>4. file \in 1 .. Len(Arg.inputFiles) /\ Arg.inputFiles # <<>>
  BY <1>1, <1>2 DEF MadeInv, WorkInv
<1>5. all \in Seq(AllLines)
  BY <1>3 DEF Taken
<1>6. all = Prefix(FileLines, file)
  BY <1>1, <1>3, <1>5, ConcatEmptySeq
<1>7. /\ Arg' = Arg /\ LineDelimiter(settings)' = LineDelimiter(settings)
      /\ FileLines' = FileLines /\ Mode(options)' = Mode(options)
  BY <1>1, SameWork
<1>8. file' - 1 = file /\ file' \in 1 .. Len(Arg.inputFiles) + 1
  BY <1>1, <1>2, <1>4
<1>9. Taken(all)'
  BY <1>1, <1>3, <1>7 DEF Taken
<1>10. ModeInv'
  BY <1>1, <1>2, <1>7 DEF MadeInv, ModeInv, Busy
<1>11. WorkInv'
  BY <1>1, <1>4, <1>6, <1>7, <1>8, <1>9 DEF WorkInv
<1>12. DiskInv'
  BY <1>1, DiskFrame
<1> QED
  BY <1>10, <1>11, <1>12 DEF MadeInv

\* A line more is read, and a line more is in the cache.
LEMMA ConsumeMade ==
  ASSUME IInv, MadeInv, Generate, Consume
  PROVE  MadeInv'
<1>1. /\ pc = "read" /\ lines # <<>> /\ pc' = pc /\ lines' = Tail(lines)
      /\ cache' = PutPair(Arg, cache, ParseValue(Head(lines)))
      /\ UNCHANGED <<settings, args, current, file, disk, options, source>>
  BY DEF Consume, Generate
<1>2. Mode(options) = "write"
  BY <1>1, ReadingFacts
<1>3. PICK all : Taken(all) /\ all \o lines = Prefix(FileLines, file)
  BY <1>1 DEF MadeInv, WorkInv
<1>4. all \in Seq(AllLines) /\ lines \in Seq(AllLines)
  BY <1>1, <1>3 DEF Taken, MadeInv, WorkInv
<1>5. PICK more : more = Append(all, Head(lines))
  OBVIOUS
<1>6. PICK line : line = Head(lines)
  OBVIOUS
<1>7. /\ line \in AllLines /\ lines' \in Seq(AllLines)
      /\ more \in Seq(AllLines) /\ more \o lines' = all \o lines
      /\ more = Append(all, line)
  BY <1>1, <1>4, <1>5, <1>6, MoveHead
<1>8. /\ Arg' = Arg /\ LineDelimiter(settings)' = LineDelimiter(settings)
      /\ FileLines' = FileLines /\ Mode(options)' = Mode(options)
  BY <1>1, SameWork
<1>9. Arg.cacheType # "MAP" => cache'.pairs = Firsts(more)
  BY <1>1, <1>3, <1>4, <1>6, <1>7, PutPairFirsts DEF Taken
<1>10. Taken(more)' /\ (more \o lines)' = Prefix(FileLines, file)'
  BY <1>1, <1>3, <1>7, <1>8, <1>9 DEF Taken
<1>11. ModeInv'
  BY <1>1, <1>2, <1>8 DEF MadeInv, ModeInv, Busy
<1>12. file \in 1 .. Len(Arg.inputFiles) /\ Arg.inputFiles # <<>>
  BY <1>1, <1>2 DEF MadeInv, WorkInv
<1>13. WorkInv'
  BY <1>1, <1>7, <1>8, <1>10, <1>12 DEF WorkInv
<1>14. DiskInv'
  BY <1>1, DiskFrame
<1> QED
  BY <1>11, <1>13, <1>14 DEF MadeInv

LEMMA ReadCreateLineMade ==
  ASSUME IInv, MadeInv, Generate, ReadCreateLine
  PROVE  MadeInv'
<1>1. /\ pc = "create" /\ pc' = pc
      /\ UNCHANGED <<settings, args, current, disk, options, source>>
  BY DEF ReadCreateLine, Generate
<1>2. Mode(options) = "create" /\ Mode(options)' = Mode(options)
  BY <1>1 DEF MadeInv, ModeInv, Busy
<1>3. ModeInv'
  BY <1>1, <1>2 DEF MadeInv, ModeInv, Busy
<1>4. WorkInv'
  BY <1>1 DEF WorkInv
<1>5. DiskInv'
  BY <1>1, DiskFrame
<1> QED
  BY <1>3, <1>4, <1>5 DEF MadeInv

\* A file that is not finished says nothing yet.
LEMMA UnfinishedDisk ==
  ASSUME DiskInv, NEW new, new.state # "complete", UNCHANGED source,
         disk' = IF Arg.outputDirectory \in Directories
                 THEN SetSetting(disk, OutputPath, new) ELSE disk
  PROVE  DiskInv'
<1>1. ASSUME NEW p, Finished(p)'
      PROVE  Finished(p) /\ disk'[p] = disk[p]
  BY <1>1 DEF Finished, SetSetting
<1>2. GeneratedExact'
  BY <1>1 DEF DiskInv, GeneratedExact
<1> QED
  BY <1>2 DEF DiskInv, BenchTimestampPath

LEMMA OpenOutputMade ==
  ASSUME IInv, MadeInv, Generate, OpenOutput
  PROVE  MadeInv'
<1> DEFINE new == [state |-> "empty", mtime |-> clock + 1, header |-> NoHeader,
                   pairs |-> {}]
<1>1. /\ pc \in {"open", "create"} /\ pc' = "write"
      /\ UNCHANGED <<settings, args, current, cache, options, source>>
      /\ disk' = IF Arg.outputDirectory \in Directories
                 THEN SetSetting(disk, OutputPath, new) ELSE disk
  BY DEF OpenOutput, InputRead, Generate
<1>2. /\ Arg' = Arg /\ LineDelimiter(settings)' = LineDelimiter(settings)
      /\ FileLines' = FileLines /\ Mode(options)' = Mode(options)
  BY <1>1, SameWork
<1>3. new.state = "empty"
  OBVIOUS
<1> HIDE DEF new
<1>4. DiskInv'
  BY <1>1, <1>3, UnfinishedDisk DEF MadeInv
<1>5. ModeInv'
  BY <1>1, <1>2 DEF MadeInv, ModeInv, Busy
<1>6. CASE pc = "open"
  <2>1. file > Len(Arg.inputFiles)
    BY <1>6 DEF OpenOutput, InputRead
  <2>2. Len(Arg.inputFiles) \in Nat /\ Mode(options) = "write"
    BY <1>6, ReadingFacts
  <2>3. /\ file \in 1 .. Len(Arg.inputFiles) + 1
        /\ Taken(Prefix(FileLines, file - 1)) /\ Arg.inputFiles # <<>>
    BY <1>6, <2>2 DEF MadeInv, WorkInv
  <2>4. file - 1 = Len(Arg.inputFiles)
    BY <2>1, <2>2, <2>3
  <2>5. PICK all : all = Prefix(FileLines, Len(Arg.inputFiles))
    OBVIOUS
  <2>6. Taken(all)'
    BY <1>1, <1>2, <2>3, <2>4, <2>5 DEF Taken
  <2>7. WorkInv'
    BY <1>1, <1>2, <2>3, <2>5, <2>6 DEF WorkInv
  <2> QED
    BY <1>4, <1>5, <2>7 DEF MadeInv
<1>7. CASE pc = "create"
  <2>1. Mode(options) = "create"
    BY <1>7 DEF MadeInv, ModeInv, Busy
  <2>2. WorkInv'
    BY <1>1, <1>2, <2>1 DEF WorkInv
  <2> QED
    BY <1>4, <1>5, <2>2 DEF MadeInv
<1> QED
  BY <1>1, <1>6, <1>7

LEMMA WriteHeaderMade ==
  ASSUME IInv, MadeInv, Generate, WriteHeader
  PROVE  MadeInv'
<1> DEFINE new == [state |-> "partial", mtime |-> clock + 1,
                   header |-> Header(Arg), pairs |-> {}]
<1>1. /\ pc = "write" /\ pc' = "flush"
      /\ UNCHANGED <<settings, args, current, cache, options, source>>
      /\ disk' = IF Arg.outputDirectory \in Directories
                 THEN SetSetting(disk, OutputPath, new) ELSE disk
  BY DEF WriteHeader, Generate
<1>2. /\ Arg' = Arg /\ LineDelimiter(settings)' = LineDelimiter(settings)
      /\ FileLines' = FileLines /\ Mode(options)' = Mode(options)
  BY <1>1, SameWork
<1>3. new.state = "partial"
  OBVIOUS
<1> HIDE DEF new
<1>4. DiskInv'
  BY <1>1, <1>3, UnfinishedDisk DEF MadeInv
<1>5. ModeInv'
  BY <1>1, <1>2 DEF MadeInv, ModeInv, Busy
<1>6. WorkInv'
  BY <1>1, <1>2 DEF MadeInv, WorkInv, Taken
<1> QED
  BY <1>4, <1>5, <1>6 DEF MadeInv

LEMMA TwoIsNotThree ==
  ASSUME NEW dir, NEW name
  PROVE  FileName(dir, name) # BenchTimestampPath
<1>1. Len(FileName(dir, name)) = 2 /\ Len(BenchTimestampPath) = 3
  BY DEF FileName, BenchTimestampPath
<1> QED
  BY <1>1

\* The file gets what all the lines of its input say.
LEMMA EndWriteMade ==
  ASSUME IInv, MadeInv, Generate, EndWrite
  PROVE  MadeInv'
<1> DEFINE new == [state |-> "complete", mtime |-> clock + 1,
                   header |-> Header(Arg), pairs |-> cache.pairs]
           out == OutputPath
<1>1. /\ pc = "flush" /\ pc' = "start" /\ current' = current + 1
      /\ UNCHANGED <<settings, args, cache, options>>
      /\ disk' = IF Arg.outputDirectory \in Directories
                 THEN SetSetting(disk, out, new) ELSE disk
  BY DEF EndWrite, Generate
<1>2. source' = IF Arg.outputDirectory \notin Directories THEN source
                ELSE IF Mode(options) = "write"
                THEN SetSetting(source, out, LinesOf(Arg))
                ELSE Forget(source, out)
  BY <1>1 DEF Generate
<1>3. /\ new.state = "complete" /\ new.pairs = cache.pairs
      /\ new.header.cacheType = Arg.cacheType
  BY DEF Header
<1>4. out # BenchTimestampPath
  BY TwoIsNotThree DEF OutputPath
<1> HIDE DEF new, out
<1>5. ModeInv'
  <2>1. LineDelimiter(settings)' = LineDelimiter(settings)
        /\ Mode(options)' = Mode(options)
    BY <1>1 DEF LineDelimiter, GetChar, GetString, IsSet
  <2>2. current \in Nat
    BY DEF IInv, ArgsInOrder
  <2> QED
    BY <1>1, <2>1, <2>2 DEF MadeInv, ModeInv, Busy
<1>6. WorkInv'
  BY <1>1 DEF WorkInv
<1>7. BenchTimestampPath \notin DOMAIN source'
  BY <1>2, <1>4 DEF MadeInv, DiskInv, SetSetting, Forget
<1>8. CASE Arg.outputDirectory \notin Directories
  <2>1. UNCHANGED <<disk, source>>
    BY <1>1, <1>2, <1>8
  <2> QED
    BY <1>5, <1>6, <2>1, DiskFrame DEF MadeInv
<1>9. CASE Arg.outputDirectory \in Directories /\ Mode(options) # "write"
  <2>1. source' = Forget(source, out) /\ disk' = SetSetting(disk, out, new)
    BY <1>1, <1>2, <1>9
  <2>2. \A p \in DOMAIN source' : p \in DOMAIN source /\ p # out /\ source'[p] = source[p]
    BY <2>1 DEF Forget
  <2>3. \A p \in DOMAIN source' : Finished(p)' => Finished(p) /\ disk'[p] = disk[p]
    BY <2>1, <2>2 DEF Finished, SetSetting
  <2>4. GeneratedExact'
    BY <2>2, <2>3 DEF MadeInv, DiskInv, GeneratedExact
  <2> QED
    BY <1>5, <1>6, <1>7, <2>2, <2>4 DEF MadeInv, DiskInv, BenchTimestampPath
<1>10. CASE Arg.outputDirectory \in Directories /\ Mode(options) = "write"
  <2>1. /\ source' = SetSetting(source, out, LinesOf(Arg))
        /\ disk' = SetSetting(disk, out, new)
    BY <1>1, <1>2, <1>10
  <2>2. current \in DOMAIN args
    <3>1. /\ current \in Nat /\ current >= 1 /\ Len(args) \in Nat
          /\ DOMAIN args = 1 .. Len(args)
      BY <1>1 DEF IInv, ArgsInOrder, Busy
    <3>2. current <= Len(args)
      BY <1>1 DEF MadeInv, ModeInv, Busy
    <3> QED
      BY <3>1, <3>2
  <2>3. IsSequence(Arg.inputFiles) /\ Arg.inputFiles # <<>>
    BY <1>1, <1>10, <2>2 DEF MadeInv, ModeInv, WorkInv, Arg, Busy
  <2>4. /\ Len(Arg.inputFiles) \in Nat \ {0}
        /\ DOMAIN Arg.inputFiles = 1 .. Len(Arg.inputFiles)
    BY <2>3, IsSequenceIs
  <2>5. Len(FileLines) = Len(Arg.inputFiles)
    <3>1. FileLines = [i \in 1 .. Len(Arg.inputFiles) |-> FileLines[i]]
      BY <2>4 DEF FileLines
    <3>2. PICK n \in Nat : n = Len(Arg.inputFiles)
      BY <2>4
    <3> QED
      BY <3>1, <3>2, FunctionIsSequence
  <2>6. LinesOf(Arg) = Prefix(FileLines, Len(Arg.inputFiles))
    <3>1. LinesOf(Arg) = FlattenSeq(FileLines)
      BY DEF LinesOf, FileLines
    <3> QED
      BY <2>4, <2>5, <3>1, PrefixAll
  <2>7. /\ Arg.cacheType # "MAP" => cache.pairs = Firsts(LinesOf(Arg))
        /\ LinesOf(Arg) \in Seq(AllLines)
    BY <1>1, <1>10, <2>6 DEF MadeInv, WorkInv, Taken
  <2>8. source'[out] = LinesOf(Arg) /\ disk'[out] = new
    BY <2>1 DEF SetSetting
  <2>9. ASSUME NEW p \in DOMAIN source', p # out
        PROVE  /\ p \in DOMAIN source /\ source'[p] = source[p]
               /\ Finished(p)' => Finished(p) /\ disk'[p] = disk[p]
    BY <2>1, <2>9 DEF Finished, SetSetting
  <2>10. GeneratedExact'
    <3> SUFFICES ASSUME NEW p \in DOMAIN source', Finished(p)',
                        disk'[p].header.cacheType # "MAP"
                 PROVE  disk'[p].pairs = Firsts(source'[p])
      BY DEF GeneratedExact, Firsts
    <3>1. CASE p = out
      BY <1>3, <2>7, <2>8, <3>1
    <3>2. CASE p # out
      BY <2>9, <3>2 DEF MadeInv, DiskInv, GeneratedExact, Firsts
    <3> QED
      BY <3>1, <3>2
  <2>11. \A p \in DOMAIN source' : source'[p] \in Seq(AllLines)
    BY <2>7, <2>8, <2>9 DEF MadeInv, DiskInv
  <2> QED
    BY <1>5, <1>6, <1>7, <2>10, <2>11 DEF MadeInv, DiskInv, BenchTimestampPath
<1> QED
  BY <1>8, <1>9, <1>10

LEMMA GenerateMade ==
  ASSUME IInv, MadeInv, Generate
  PROVE  MadeInv'
<1>1. GeneratorStep
  BY DEF Generate
<1>2. CASE \/ CreateCacheThrows \/ OpenInputThrows \/ ConsumeThrows
           \/ ReadCreateThrows \/ GeneratorDone \/ ReadCreateWrong
  <2>1. pc' \in Ended /\ pc # "flush" /\ UNCHANGED disk
    BY <1>2 DEF CreateCacheThrows, OpenInputThrows, ConsumeThrows,
       ReadCreateThrows, GeneratorDone, ReadCreateWrong, Throw, Ended
  <2>2. UNCHANGED source
    BY <2>1 DEF Generate
  <2> QED
    BY <2>1, <2>2, IdleFrame, DiskFrame DEF MadeInv, Ended, Busy
<1> QED
  BY <1>1, <1>2, CreateCacheMade, OpenInputMade, CloseInputMade, ConsumeMade,
     ReadCreateLineMade, OpenOutputMade, WriteHeaderMade, EndWriteMade
     DEF GeneratorStep

LEMMA LoadMade ==
  ASSUME MadeInv, ReadModeEnds
  PROVE  MadeInv'
<1>1. pc' \in Ended /\ UNCHANGED <<disk, source>>
  BY DEF ReadModeEnds, LoadCacheThrows, LoadCache, ReadModeThrows, ReadTornFile,
     ReadFrame, Throw, Ended, historyVars
<1> QED
  BY <1>1, IdleFrame, DiskFrame DEF MadeInv, Ended, Busy

LEMMA BenchMade ==
  ASSUME MadeInv, Bench
  PROVE  MadeInv'
<1>1. pc = "bench" /\ BenchFrame /\ pc' \in {"bench", "done", "threw"}
  BY DEF Bench, BenchInsert, BenchFinish, BenchRename, BenchRead
<1>2. Mode(options') = "bench"
  BY <1>1 DEF BenchFrame, MadeInv, ModeInv
<1>3. ModeInv' /\ WorkInv'
  BY <1>1, <1>2, IdleFrame DEF Busy
<1>4. CASE BenchInsert \/ BenchRead
  <2>1. UNCHANGED <<disk, source>>
    BY <1>4 DEF BenchInsert, BenchRead
  <2> QED
    BY <1>3, <2>1, DiskFrame DEF MadeInv
<1>5. ASSUME NEW p \in DOMAIN source', p # BenchPath, p # BenchTimestampPath,
             BenchFinish \/ BenchRename
      PROVE  /\ p \in DOMAIN source /\ source'[p] = source[p]
             /\ Finished(p)' => Finished(p) /\ disk'[p] = disk[p]
  <2>1. CASE BenchFinish
    <3>1. source' = Forget(source, BenchPath)
      BY <2>1 DEF BenchFinish
    <3>2. p \in DOMAIN disk' => p \in DOMAIN disk /\ disk'[p] = disk[p]
      BY <1>5, <2>1 DEF BenchFinish, SetSetting
    <3> QED
      BY <3>1, <3>2 DEF Forget, Finished
  <2>2. CASE BenchRename
    <3>1. source' = source
      BY <2>2 DEF BenchRename
    <3>2. p \in DOMAIN disk' => p \in DOMAIN disk /\ disk'[p] = disk[p]
      BY <1>5, <2>2 DEF BenchRename
    <3> QED
      BY <3>1, <3>2 DEF Finished
  <2> QED
    BY <1>5, <2>1, <2>2
<1>6. ASSUME BenchFinish \/ BenchRename
      PROVE  /\ BenchTimestampPath \notin DOMAIN source'
             /\ BenchPath \in DOMAIN source' => ~Finished(BenchPath)'
  <2>1. CASE BenchFinish
    BY <2>1 DEF BenchFinish, Forget, MadeInv, DiskInv
  <2>2. CASE BenchRename
    <3>1. BenchPath # BenchTimestampPath
      BY TwoIsNotThree DEF FileName, BenchPath
    <3>2. BenchPath \notin DOMAIN disk'
      BY <2>2, <3>1 DEF BenchRename
    <3>3. source' = source
      BY <2>2 DEF BenchRename
    <3> QED
      BY <3>2, <3>3 DEF MadeInv, DiskInv, Finished, BenchPath
  <2> QED
    BY <1>6, <2>1, <2>2
<1>7. CASE BenchFinish \/ BenchRename
  <2>1. GeneratedExact'
    <3> SUFFICES ASSUME NEW p \in DOMAIN source', Finished(p)',
                        disk'[p].header.cacheType # "MAP"
                 PROVE  disk'[p].pairs =
                          {FirstLine(source'[p], k) : k \in KeysOf(source'[p])}
      BY DEF GeneratedExact
    <3>1. p # BenchPath /\ p # BenchTimestampPath
      BY <1>6, <1>7 DEF BenchPath
    <3>2. /\ p \in DOMAIN source /\ source'[p] = source[p]
          /\ Finished(p) /\ disk'[p] = disk[p]
      BY <1>5, <1>7, <3>1
    <3> QED
      BY <3>2 DEF MadeInv, DiskInv, GeneratedExact
  <2>2. source' = source \/ source' = Forget(source, BenchPath)
    BY <1>7 DEF BenchFinish, BenchRename
  <2>3. \A p \in DOMAIN source' : source'[p] \in Seq(AllLines)
    BY <2>2 DEF MadeInv, DiskInv, Forget
  <2> QED
    BY <1>3, <1>6, <1>7, <2>1, <2>3 DEF MadeInv, DiskInv, BenchTimestampPath
<1> QED
  BY <1>4, <1>7 DEF Bench

\* The serving process leaves the disk as it is.
LEMMA ServeMade ==
  ASSUME MadeInv, Serve \/ ServeLookupCrashes \/ UNCHANGED vars
  PROVE  MadeInv'
<1>1. /\ UNCHANGED <<pc, settings, args, current, file, lines, cache, options>>
      /\ UNCHANGED <<disk, source>>
  BY DEF Serve, ServeLookupCrashes, ServeFrame, generatorVars, historyVars, vars
<1> QED
  BY <1>1, WorkFrame, DiskFrame DEF MadeInv

-----------------------------------------------------------------------------
(* What read mode prints *)

\* Of the pairs of the first lines, GET finds the one of its key.
LEMMA GetAnswer ==
  ASSUME NEW all \in Seq(AllLines), NEW c, c.name = "GET"
  PROVE  Answer(Firsts(all), c).value =
           IF c.key \in KeysOf(all) /\ FirstLine(all, c.key).type = "String"
           THEN FirstLine(all, c.key).value ELSE ""
<1> DEFINE found == {p \in Firsts(all) : /\ p.key = c.key
                                         /\ p.type \in Reads[c.name]}
           first == FirstLine(all, c.key)
           stored == c.key \in KeysOf(all) /\ first.type = "String"
<1>1. Reads[c.name] = {"String"}
  BY DEF Reads
<1>2. Answer(Firsts(all), c).value =
        IF found = {} THEN "" ELSE (CHOOSE p \in found : TRUE).value
  BY DEF Answer
<1>3. \A k \in KeysOf(all) : FirstLine(all, k).key = k
  BY FirstLineIs
<1>4. \A p \in Firsts(all) : p.key = c.key => c.key \in KeysOf(all) /\ p = first
  BY <1>3 DEF Firsts
<1>5. c.key \in KeysOf(all) => first \in Firsts(all) /\ first.key = c.key
  BY <1>3 DEF Firsts
<1>6. CASE stored
  <2>1. found = {first}
    BY <1>1, <1>4, <1>5, <1>6
  <2> HIDE DEF found, first
  <2>2. (CHOOSE p \in found : TRUE) = first
    BY <2>1
  <2> QED
    BY <1>2, <1>6, <2>1, <2>2 DEF first
<1>7. CASE ~stored
  <2>1. found = {}
    BY <1>1, <1>4, <1>7
  <2> QED
    BY <1>2, <1>7, <2>1
<1> QED
  BY <1>6, <1>7

LEMMA AnswerIs ==
  ASSUME NEW pairs, NEW c
  PROVE  Answer(pairs, c).name = c.name /\ Answer(pairs, c).key = c.key
BY DEF Answer

LEMMA LoadGets ==
  ASSUME IInv, MadeInv, LoadCache \/ ReadModeThrows
  PROVE  GetsFirstValue'
<1>1. Loadable /\ UNCHANGED <<settings, disk, options, source>>
  BY DEF LoadCache, ReadModeThrows, ReadFrame, historyVars
<1>2. ReadPath' = ReadPath
  BY <1>1 DEF ReadPath, LatestTimestampFullCacheFileName, FullCacheFileName
<1>3. PICK path : path = ReadPath
  OBVIOUS
<1>4. path \in DOMAIN disk /\ LoadsAsDedupCache(disk[path].header)
  BY <1>1, <1>3 DEF Loadable, HeaderReadable
<1>5. disk[path].header.cacheType # "MAP"
  BY <1>4, LinearTypesAre DEF IInv, HeadersSane, Sane
<1>6. \A i \in DOMAIN answers' : \E c : answers'[i] = Answer(disk[path].pairs, c)
  BY <1>3 DEF LoadCache, ReadModeThrows, Answers
<1>7. ASSUME path \in DOMAIN source, Finished(path), NEW i \in DOMAIN answers',
             answers'[i].name = "GET"
      PROVE  answers'[i].value =
               IF /\ answers'[i].key \in KeysOf(source[path])
                  /\ FirstLine(source[path], answers'[i].key).type = "String"
               THEN FirstLine(source[path], answers'[i].key).value ELSE ""
  <2>1. PICK all : all = source[path]
    OBVIOUS
  <2>2. all \in Seq(AllLines) /\ disk[path].pairs = Firsts(all)
    BY <1>5, <1>7, <2>1 DEF MadeInv, DiskInv, GeneratedExact, Firsts
  <2>3. PICK c : answers'[i] = Answer(Firsts(all), c)
    BY <1>6, <2>2
  <2>4. PICK pairs : pairs = Firsts(all)
    OBVIOUS
  <2>5. PICK answer : answer = answers'[i]
    OBVIOUS
  <2>6. answer.name = c.name /\ answer.key = c.key
    BY <2>3, <2>4, <2>5, AnswerIs
  <2>7. c.name = "GET"
    BY <1>7, <2>5, <2>6
  <2>8. answer.value =
          IF c.key \in KeysOf(all) /\ FirstLine(all, c.key).type = "String"
          THEN FirstLine(all, c.key).value ELSE ""
    BY <2>2, <2>3, <2>5, <2>7, GetAnswer
  <2> QED
    BY <2>1, <2>5, <2>6, <2>8
<1> QED
  BY <1>1, <1>2, <1>3, <1>7 DEF GetsFirstValue, Finished

-----------------------------------------------------------------------------
(* How much read mode prints *)

Takes(command) == Accepted(command) /\ Executed(command)

\* The function by which ExecutedCommands is defined, up to n.
Collects(stdin, n, f) ==
  f = [i \in 0 .. n |-> IF i = 0 THEN <<>>
                        ELSE IF Takes(stdin[i]) THEN Append(f[i - 1], stdin[i])
                        ELSE f[i - 1]]

LEMMA CollectsExists ==
  ASSUME NEW stdin, NEW n \in Nat
  PROVE  \E f : Collects(stdin, n, f)
<1> DEFINE T == {m \in Nat : \E f : Collects(stdin, m, f)}
<1>1. 0 \in T
  <2> DEFINE f == [i \in 0 .. 0 |-> <<>>]
  <2>1. Collects(stdin, 0, f)
    BY DEF Collects
  <2> QED
    BY <2>1
<1>2. ASSUME NEW d \in 1 .. n, d - 1 \in T PROVE d \in T
  <2>1. d - 1 \in Nat /\ d \in Nat
    OBVIOUS
  <2>2. PICK f : Collects(stdin, d - 1, f)
    BY <1>2
  <2> DEFINE Value(h, i) == IF i = 0 THEN <<>>
                            ELSE IF Takes(stdin[i]) THEN Append(h[i - 1], stdin[i])
                            ELSE h[i - 1]
             g == [i \in 0 .. d |-> Value(f, i)]
  <2>3. \A i \in 0 .. d - 1 : f[i] = Value(f, i)
    BY <2>2 DEF Collects
  <2>4. \A i \in 0 .. d : g[i] = Value(f, i)
    OBVIOUS
  <2>5. g = [i \in 0 .. d |-> g[i]]
    OBVIOUS
  <2> HIDE DEF g
  <2>6. \A i \in 0 .. d - 1 : g[i] = f[i]
    <3> HIDE DEF Value
    <3> QED
      BY <2>1, <2>3, <2>4
  <2>7. ASSUME NEW i \in 1 .. d PROVE g[i - 1] = f[i - 1]
    <3>1. i - 1 \in 0 .. d - 1
      BY <2>1
    <3> QED
      BY <2>6, <3>1
  <2>8. \A i \in 0 .. d : g[i] = Value(g, i)
    BY <2>4, <2>7
  <2>9. Collects(stdin, d, g)
    BY <2>5, <2>8 DEF Collects
  <2> QED
    BY <2>1, <2>9
<1> HIDE DEF T
<1>3. n \in T
  BY <1>1, <1>2, InductionUpTo
<1> QED
  BY <1>3 DEF T

\* One command is kept for every line that is accepted and executed.
LEMMA ExecutedCount ==
  ASSUME NEW S, NEW stdin \in Seq(S)
  PROVE  /\ ExecutedCommands(stdin) \in Seq(S)
         /\ Len(ExecutedCommands(stdin)) =
              Cardinality({i \in 1 .. Len(stdin) : Takes(stdin[i])})
<1> DEFINE f == CHOOSE g : Collects(stdin, Len(stdin), g)
           Kept(n) == {i \in 1 .. n : Takes(stdin[i])}
           T == {n \in 0 .. Len(stdin) :
                   f[n] \in Seq(S) /\ Len(f[n]) = Cardinality(Kept(n))}
<1>1. Len(stdin) \in Nat
  BY LenProperties
<1>2. Collects(stdin, Len(stdin), f)
  BY <1>1, CollectsExists
<1>3. ExecutedCommands(stdin) = f[Len(stdin)]
  BY DEF ExecutedCommands, Collects, Takes
<1> HIDE DEF f
<1>4. \A i \in 0 .. Len(stdin) :
        f[i] = IF i = 0 THEN <<>>
               ELSE IF Takes(stdin[i]) THEN Append(f[i - 1], stdin[i])
               ELSE f[i - 1]
  BY <1>2 DEF Collects
<1>5. 0 \in T
  <2>1. f[0] = <<>> /\ Kept(0) = {}
    BY <1>1, <1>4
  <2>2. Cardinality(Kept(0)) = 0
    BY <2>1, FS_EmptySet
  <2>3. f[0] \in Seq(S) /\ Len(f[0]) = 0
    BY <2>1, EmptySeq
  <2>4. 0 \in 0 .. Len(stdin)
    BY <1>1
  <2> HIDE DEF Kept
  <2> QED
    BY <2>2, <2>3, <2>4
<1>6. ASSUME NEW n \in 1 .. Len(stdin), n - 1 \in T PROVE n \in T
  <2>0. n \in 0 .. Len(stdin) /\ n # 0
    BY <1>1
  <2>1. f[n - 1] \in Seq(S) /\ Len(f[n - 1]) = Cardinality(Kept(n - 1))
    BY <1>6
  <2>2. stdin[n] \in S
    BY ElementOfSeq
  <2>3. IsFiniteSet(Kept(n - 1)) /\ n \notin Kept(n - 1)
    <3>1. IsFiniteSet(1 .. n - 1)
      BY <1>1, FS_Interval
    <3>2. Kept(n - 1) \subseteq 1 .. n - 1
      OBVIOUS
    <3>3. n \notin 1 .. n - 1
      BY <1>1
    <3> HIDE DEF Kept
    <3> QED
      BY <3>1, <3>2, <3>3, FS_Subset
  <2>4. CASE Takes(stdin[n])
    <3>1. Kept(n) = Kept(n - 1) \cup {n}
      BY <1>1, <2>4
    <3>2. f[n] = Append(f[n - 1], stdin[n])
      BY <1>4, <2>0, <2>4
    <3> HIDE DEF Kept
    <3>3. Cardinality(Kept(n)) = Cardinality(Kept(n - 1)) + 1
      BY <2>3, <3>1, FS_AddElement
    <3>4. f[n] \in Seq(S) /\ Len(f[n]) = Len(f[n - 1]) + 1
      BY <2>1, <2>2, <3>2, AppendProperties
    <3> QED
      BY <2>0, <2>1, <3>3, <3>4
  <2>5. CASE ~Takes(stdin[n])
    <3>1. Kept(n) = Kept(n - 1)
      BY <1>1, <2>5
    <3>2. f[n] = f[n - 1]
      BY <1>4, <2>0, <2>5
    <3> HIDE DEF Kept
    <3> QED
      BY <2>0, <2>1, <3>1, <3>2
  <2> QED
    BY <2>4, <2>5
<1>7. Len(stdin) \in T
  <2> HIDE DEF T
  <2>1. \A n \in 0 .. Len(stdin) : n \in T
    BY <1>1, <1>5, <1>6, InductionUpTo
  <2> QED
    BY <1>1, <2>1
<1> QED
  BY <1>3, <1>7

LEMMA AnswersCount ==
  ASSUME NEW S, NEW stdin \in Seq(S), NEW repeat \in Int, NEW pairs
  PROVE  /\ Len(Answers(pairs, stdin, repeat)) \in Nat
         /\ DOMAIN Answers(pairs, stdin, repeat) =
              1 .. Len(Answers(pairs, stdin, repeat))
         /\ Len(Answers(pairs, stdin, repeat)) =
              (IF repeat < 0 THEN 0 ELSE repeat)
              * Cardinality({i \in DOMAIN stdin : Takes(stdin[i])})
<1> DEFINE executed == ExecutedCommands(stdin)
           n == Len(executed)
           m == repeat * n
<1>1. DOMAIN stdin = 1 .. Len(stdin)
  BY LenProperties
<1>2. n \in Nat /\ n = Cardinality({i \in DOMAIN stdin : Takes(stdin[i])})
  BY <1>1, ExecutedCount, LenProperties
<1>3. Answers(pairs, stdin, repeat) =
        [i \in 1 .. m |-> Answer(pairs, executed[((i - 1) % n) + 1])]
  BY DEF Answers
<1> HIDE DEF executed, n
<1>4. m \in Int /\ (repeat < 0 => m <= 0) /\ (repeat >= 0 => m >= 0)
  BY <1>2
<1>5. PICK k \in Nat : k = IF repeat < 0 THEN 0 ELSE m
  BY <1>4
<1>6. 1 .. m = 1 .. k
  BY <1>4, <1>5
<1>7. k = (IF repeat < 0 THEN 0 ELSE repeat) * n
  BY <1>2, <1>5
<1> HIDE DEF m
<1>8. PICK a : a = Answers(pairs, stdin, repeat)
  OBVIOUS
<1>9. a = [i \in 1 .. k |-> a[i]]
  BY <1>3, <1>6, <1>8
<1>10. Len(a) = k /\ DOMAIN a = 1 .. k
  BY <1>9, FunctionIsSequence
<1> QED
  BY <1>2, <1>7, <1>8, <1>10

LEMMA LoadAnswersAll ==
  ASSUME options \in CommandLines, ReadModeEnds
  PROVE  AnswersEveryCommand'
<1> SUFFICES ASSUME pc' = "done"
             PROVE  Len(answers') =
                      (IF options.repeat < 0 THEN 0 ELSE options.repeat)
                      * Cardinality({i \in DOMAIN options.stdin :
                                       Takes(options.stdin[i])})
  BY DEF AnswersEveryCommand, Takes, ReadModeEnds, LoadCacheThrows, LoadCache,
     ReadModeThrows, ReadTornFile, ReadFrame
<1>1. LoadCache \/ ReadTornFile
  BY DEF ReadModeEnds, LoadCacheThrows, Throw, ReadModeThrows
<1>2. options.stdin \in Seq(Range(options.stdin)) /\ options.repeat \in Int
  BY CommandLineAssumption DEF IsSequence
<1>3. CASE LoadCache
  <2>1. answers' = Answers(disk[ReadPath].pairs, options.stdin, options.repeat)
    BY <1>3 DEF LoadCache
  <2> QED
    BY <1>2, <2>1, AnswersCount
<1>4. CASE ReadTornFile
  <2> DEFINE a == Answers({}, options.stdin, options.repeat)
  <2>1. /\ Len(a) \in Nat /\ DOMAIN a = 1 .. Len(a)
        /\ Len(a) = (IF options.repeat < 0 THEN 0 ELSE options.repeat)
                    * Cardinality({i \in DOMAIN options.stdin :
                                     Takes(options.stdin[i])})
    BY <1>2, AnswersCount
  <2>2. answers' = [i \in DOMAIN a |-> [a[i] EXCEPT !.value = "undefined"]]
    BY <1>4 DEF ReadTornFile
  <2> HIDE DEF a
  <2>3. answers' = [i \in 1 .. Len(a) |-> answers'[i]]
    BY <2>1, <2>2
  <2>4. Len(answers') = Len(a)
    BY <2>1, <2>3, FunctionIsSequence
  <2> QED
    BY <2>1, <2>4
<1> QED
  BY <1>1, <1>3, <1>4

-----------------------------------------------------------------------------
(* Read mode is the last step of its run *)

HasRead == pc \in {"done", "threw"} /\ Mode(options) = "read"

\* No other step ends a run of read mode but by its death, and until the next
\* run only the serving process takes steps.
LEMMA OnlyReadModeEnds ==
  ASSUME MadeInv, [Next]_vars, ~ReadModeEnds, HasRead'
  PROVE  HasRead /\ UNCHANGED <<pc, settings, options, disk, source, answers>>
<1>1. CASE Serve \/ ServeLookupCrashes \/ UNCHANGED vars
  BY <1>1 DEF Serve, ServeLookupCrashes, ServeFrame, generatorVars, historyVars,
     vars, HasRead
<1>2. CASE Die
  BY <1>2 DEF Die, HasRead
<1>3. CASE Bench
  <2>1. Mode(options') = "bench"
    BY <1>3 DEF Bench, BenchInsert, BenchFinish, BenchRename, BenchRead,
       BenchFrame, MadeInv, ModeInv
  <2> QED
    BY <2>1 DEF HasRead
<1>4. CASE Generate
  <2>1. pc \in Busy \cup {"start"} /\ options' = options
    BY <1>4 DEF Generate, GeneratorStep, CreateCacheThrows, CreateCache,
       GeneratorDone, OpenInputThrows, OpenInput, CloseInput, ConsumeThrows,
       Consume, ReadCreateWrong, ReadCreateLine, ReadCreateThrows, OpenOutput,
       InputRead, WriteHeader, EndWrite, Busy
  <2>2. Mode(options') \in {"write", "create"}
    BY <2>1 DEF MadeInv, ModeInv
  <2> QED
    BY <2>2 DEF HasRead
<1>5. ASSUME NEW o \in CommandLines, NEW config \in ConfigFiles, Run(o, config)
      PROVE  FALSE
  <2>1. pc' = FirstPc(o) /\ options' = o
    BY <1>5 DEF Run
  <2>2. Mode(o) = "read" => FirstPc(o) = "load"
    BY DEF FirstPc, Refused
  <2> QED
    BY <2>1, <2>2 DEF HasRead
<1> QED
  BY <1>1, <1>2, <1>3, <1>4, <1>5 DEF Next, ReadModeEnds

LEMMA NextGets ==
  ASSUME IInv, MadeInv, GetsFirstValue, [Next]_vars
  PROVE  GetsFirstValue'
<1>1. CASE ReadModeEnds
  <2>1. CASE LoadCacheThrows
    <3>1. DOMAIN answers' = {}
      BY <2>1 DEF LoadCacheThrows
    <3> QED
      BY <3>1 DEF GetsFirstValue
  <2>2. CASE ReadTornFile
    <3>1. UNCHANGED <<settings, options, disk>> /\ ~Finished(ReadPath)
      BY <2>2 DEF ReadTornFile, ReadFrame, Finished
    <3>2. ReadPath' = ReadPath
      BY <3>1 DEF ReadPath, LatestTimestampFullCacheFileName, FullCacheFileName
    <3> QED
      BY <3>1, <3>2 DEF GetsFirstValue, Finished
  <2> QED
    BY <1>1, <2>1, <2>2, LoadGets DEF ReadModeEnds
<1>2. CASE ~ReadModeEnds /\ HasRead'
  <2>1. HasRead /\ UNCHANGED <<pc, settings, options, disk, source, answers>>
    BY <1>2, OnlyReadModeEnds
  <2>2. ReadPath' = ReadPath
    BY <2>1 DEF ReadPath, LatestTimestampFullCacheFileName, FullCacheFileName
  <2> QED
    BY <2>1, <2>2 DEF GetsFirstValue, HasRead, Finished
<1>3. CASE ~HasRead'
  BY <1>3 DEF GetsFirstValue, HasRead
<1> QED
  BY <1>1, <1>2, <1>3

LEMMA OptionsGiven == Spec => [](options \in CommandLines)
<1>1. Init => options \in CommandLines
  BY DEF Init
<1>2. options \in CommandLines /\ [Next]_vars => (options \in CommandLines)'
  <2> SUFFICES ASSUME options \in CommandLines, [Next]_vars
               PROVE  options' \in CommandLines
    OBVIOUS
  <2>1. ASSUME NEW o \in CommandLines, NEW config \in ConfigFiles, Run(o, config)
        PROVE  options' \in CommandLines
    BY <2>1 DEF Run
  <2>2. CASE Die \/ Generate \/ ReadModeEnds \/ Bench \/ Serve
             \/ ServeLookupCrashes \/ UNCHANGED vars
    <3>1. options' = options
      BY <2>2 DEF Die, Generate, ReadModeEnds, LoadCacheThrows, LoadCache,
         ReadModeThrows, ReadTornFile, ReadFrame, Bench, BenchInsert,
         BenchFinish, BenchRename, BenchRead, BenchFrame, Serve,
         ServeLookupCrashes, ServeFrame, vars
    <3> QED
      BY <3>1
  <2> QED
    BY <2>1, <2>2 DEF Next, ReadModeEnds
<1> QED
  BY <1>1, <1>2, PTL DEF Spec

LEMMA NextAnswers ==
  ASSUME options \in CommandLines, MadeInv, AnswersEveryCommand, [Next]_vars
  PROVE  AnswersEveryCommand'
<1>1. CASE ReadModeEnds
  BY <1>1, LoadAnswersAll
<1>2. CASE ~ReadModeEnds /\ HasRead'
  <2>1. HasRead /\ UNCHANGED <<pc, options, answers>>
    BY <1>2, OnlyReadModeEnds
  <2> QED
    BY <2>1 DEF AnswersEveryCommand, HasRead
<1>3. CASE ~HasRead'
  BY <1>3 DEF AnswersEveryCommand, HasRead
<1> QED
  BY <1>1, <1>2, <1>3

-----------------------------------------------------------------------------
(* The theorems *)

LEMMA NextIInv == IInv /\ [Next]_vars => IInv'
<1> SUFFICES ASSUME IInv, [Next]_vars PROVE IInv'
  OBVIOUS
<1> QED
  BY RunStep, DieStep, GenerateStep, LoadStep, BenchStep, ServeStep, StutterStep
     DEF Next, ReadModeEnds

LEMMA Invariance == Spec => []IInv
BY InitIInv, NextIInv, PTL DEF Spec

LEMMA NextMadeInv == IInv /\ MadeInv /\ [Next]_vars => MadeInv'
<1> SUFFICES ASSUME IInv, MadeInv, [Next]_vars PROVE MadeInv'
  OBVIOUS
<1> QED
  BY RunMade, DieMade, GenerateMade, LoadMade, BenchMade, ServeMade
     DEF Next, ReadModeEnds

LEMMA MadeInvariance == Spec => []MadeInv
BY InitIInv, NextIInv, InitMadeInv, NextMadeInv, PTL DEF Spec

\* Every variable of the tool and of the serving process has its type, and
\* no modification time lies ahead of the clock.
THEOREM TypeCorrect == Spec => []TypeOK
<1>1. IInv => TypeOK
  BY DEF IInv, WellTyped
<1> QED
  BY <1>1, Invariance, PTL

\* A run that ends in an exception or refuses its input leaves no file that
\* is not complete, whatever the settings and the input: CacheFileWriter
\* opens its output when nothing can fail any more.
THEOREM TornAlwaysByDeath == Spec => []TornOnlyByDeath
<1>1. IInv => TornOnlyByDeath
  BY DEF IInv, TornInv, TornOnlyByDeath
<1> QED
  BY <1>1, Invariance, PTL

\* The serving process never uses a cache of another family, although
\* CacheOneTimeLoader does not look at the type in the header, and whatever
\* offset bits the settings of the generator ask for.
THEOREM FamilyAlwaysServed == Spec => []ServedFamily
<1>1. IInv => ServedFamily
  BY DEF IInv
<1> QED
  BY <1>1, Invariance, PTL

\* A file that write mode has finished holds, for every key of its input, the
\* pair of the first line with the key and nothing else, whatever was made
\* before it in the same run or over the same disk, and whatever the input.
THEOREM GeneratedAlwaysExact == Spec => []GeneratedExact
<1>1. MadeInv => GeneratedExact
  BY DEF MadeInv, DiskInv
<1> QED
  BY <1>1, MadeInvariance, PTL

\* Read mode that comes to its end answers every command it accepts and
\* executes, as often as repeat says, and of a cache that write mode made GET
\* prints the value of the first input line with the key, if that is a
\* string: whatever the lines on standard input are, whatever ran between the
\* two runs, and also when a later command throws.
THEOREM ReadsAlwaysWhatWasWritten == Spec => []ReadsWhatWasWritten
<1>1. Init => AnswersEveryCommand /\ GetsFirstValue
  BY DEF Init, AnswersEveryCommand, GetsFirstValue
<1>2. AnswersEveryCommand /\ GetsFirstValue => ReadsWhatWasWritten
  BY DEF ReadsWhatWasWritten
<1>3. MadeInv /\ options \in CommandLines /\ AnswersEveryCommand /\ [Next]_vars
        => AnswersEveryCommand'
  BY NextAnswers
<1>4. IInv /\ MadeInv /\ GetsFirstValue /\ [Next]_vars => GetsFirstValue'
  BY NextGets
<1> QED
  BY <1>1, <1>2, <1>3, <1>4, Invariance, MadeInvariance, OptionsGiven, PTL DEF Spec

=============================================================================
