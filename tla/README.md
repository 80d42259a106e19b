# A TLA+ verification of AxonCache

AxonCache is a library for read-mostly key-value files: a writer builds a hash
table in memory and writes it to a file, a downloader ships the file to other
machines, and readers map it and look keys up while newer files replace it.
The library has no lock. This project models its parts, checks them with TLC on
small instances and proves, with TLAPS and for every instance, the safety
properties of the caches, the readers, the writers, the downloader, the
bindings, the conversions and the command line tool.

## Inventory

| Part | State | Operations | Hard because |
|---|---|---|---|
| Linear probe cache (`HashedCacheBase`, `LinearProbe`, `LinearProbeValue`, `MallocMemoryHandler`) | key space, records, buffer size and capacity, `mKeySpacePtr`, header counters | `put` (six overloads, one `putInternal`), the read accessors, `output`, the loading constructor | loops without a bound, wrap-around, offsets cut to a number of bits, a cached pointer into a buffer that moves, exceptions half-way |
| Bucket chain cache (`SimpleProbe`, `ChainedValue`) | one link per slot and per record, the records | `put`, the read accessors, `output`, loading | links are offsets into a buffer that moves; a put never looks for its key |
| Map cache (`MapCache`) | one `std::unordered_map` per type | `put`, lookups, `output` | must agree with the other families |
| Deduplicating cache (`LinearProbeDedupCache`) | the linear probe cache, and a table of frequent values | `setDuplicatedValues`, `put`, `output`, reads through the table | index width, the typed flag, a trailer behind the data |
| C reader API (`CacheReaderCApi.cpp`), `CacheOneTimeLoader`, `MmapMemoryHandler` | `mCacheType`, one `shared_ptr` per cache family, the mappings | `initializeReader`, eleven lookups | lookups run during an update; several assignments; the file can change under the loader |
| Go `CacheReader` (`axoncache.go`) | `Handle`, `MostRecentFileTimestamp`, `Stop`, `deleteOnce` | `NewCacheReader`, `Update`, `checkForNewFiles`, `Delete`, lookups | a goroutine, clients and `Delete` interleave |
| Downloader (`internal/core`) | the files of a folder, the two timestamp files | `Run`: poll, download, publish, clean up | crashes and errors between steps, lagging mirrors, another process reads the folder |
| Writers (`CacheWriterCApi.cpp`, `CacheFileWriter`, Go `CacheWriter`) | builder, file being written | insert, `finishCacheCreation`, rename | protocol of the handle, order of timestamp and rename |
| Java and Python bindings (`java/jni`, `java/.../*.java`, `axoncache/axoncache.cpp`) | the handle of a native object, buffers of the C API | lookups, update, close, the writer methods | threads share an object and its close; every path must free; exceptions cross languages |
| Generator (`CacheGenerator`, `CacheFileBuilder`, `CacheFactory`, `DataFileReader`) | arguments, cache being built, output file | `start`: read the inputs, build, write | rewrites in place a file that others map |
| Periodic C++ loader (`CacheLoader`) | cache in use, modification time | `load` | looks at the file three times; the time is remembered before the load |
| Parsers and transformers (`CacheValueParser`, `StringListToString`, `TypeToString`, `StringUtils`, `StringViewUtils`, `StringConversion`, fast_float) | none | split, trim, parse, encode, decode | several versions of each function, at different places of the same pipeline; overflow; texts that end where the memory does not |
| Settings (`SharedSettingsProvider`) | a map of texts | parse, set, get | defaults and overriding |
| Command line tool and benchmark (`main.cpp`, `benchmark.cpp`) | options, answers | write, create, read and bench modes | one process writes what another one serves |
| Go tools, logging, progress, object storage client, xxHash | | | not modelled |

How they interact. The writer produces a file that a reader maps; the bytes
written by `output` are the state of the cache, so the key space and the
records are the contract between the two. The downloader writes
`name.cache.timestamp.latest` after the data file; the Go reader polls that
file and calls `initializeReader` through `Update`; lookups of any goroutine
run through the C API at any time; `Delete` frees the C++ object. The Java and
Python objects sit on the same C API. The command line tool writes its files
in place, and a C++ process may serve them through `CacheLoader` meanwhile.

What makes each part correct:

- caches: probing ends, stored keys are found, records keep to their bytes, the
  header tells the truth, and the whole behaves as a dictionary in which the
  first put wins, whatever the family;
- reader: a lookup reads memory that stays mapped, an update is never visible
  in parts, a lookup that starts after an update sees it, old mappings go away;
- Go reader: the timestamp that opens the gate to lookups is backed by a loaded
  file, grows, and stays gone after `Delete`; the goroutine ends;
- writer: a published file answers every accepted insert, also the ones stored
  as an index of a frequent value, and is never a half-written one;
- bindings: no buffer leaks, a crash needs a caller that breaks the protocol,
  the languages agree, and a timestamp returned names the file written;
- generator and loader: a finished file holds what its input says, only the
  death of a process leaves an incomplete one, and the server gets to it;
- conversions: what one front end writes the accessors read, whichever version
  of a function each of them uses;
- downloader: the published timestamp names a whole file at every moment, never
  goes back, and gets to the newest one whatever happened before.

`PROJECT.json` lists the hazards line by line with the properties aimed at them.

## Modules

| Module | Models |
|---|---|
| `KVStore` | abstract: a bounded dictionary, first put wins, sealed once read back from a file |
| `LinearProbeCache`, `MCLinearProbeCache` | the LINEAR_PROBE cache |
| `LinearProbeCacheProofs`, `CacheFamiliesProofs`, `CacheWriterProofs`, `ReaderSwapProofs`, `ConversionsProofs`, `CommandLineProofs`, `BindingsProofs` | the theorems about the module of that name |
| `GoClientProofs` | the theorems about `Downloader` and `GoCacheReader` |
| `CacheDomain` | the keys, values and types that the next three share |
| `BucketChainCache` | the BUCKET_CHAIN cache |
| `MapCache` | the MAP cache |
| `CacheFamilies`, `MCCacheFamilies` | both, given the same puts |
| `DedupCache` | `LinearProbeDedupCache`: the table of frequent values, put, output and reading back |
| `CacheWriter`, `MCCacheWriter` | the Go writer over the C API, which builds a `DedupCache` and publishes it in a folder |
| `ReaderSwap`, `MCReaderSwap` | the C++ reader object under concurrent lookups |
| `LatestTimestamp` | the file `name.cache.timestamp.latest`, which the next two share |
| `GoCacheReader`, `MCGoCacheReader` | the Go reader with its goroutine and `Delete` |
| `Downloader`, `MCDownloader` | `Downloader.Run` over a folder that survives crashes |
| `Text` | the functions that split, trim and join |
| `Numbers` | texts to numbers: fast_float, `std::from_chars` and `strtod` as they are used |
| `Conversions`, `MCConversions` | what is stored for a text and what is read back, by every front end and accessor |
| `Settings` | the settings file and the typed getters |
| `Generator` | write mode and create mode up to the flushed file |
| `PeriodicLoader` | `CacheLoader` over the file that `Generator` writes |
| `CommandLine`, `MCCommandLine` | the tool in all its modes, run several times, beside the serving process |
| `Bindings`, `MCBindings` | a Java or Python process with a writer and a shared reader |

`CacheFamilies` composes `BucketChainCache` and `MapCache`; `CommandLine`
composes `Generator` and `PeriodicLoader` over one disk; `CacheWriter` extends
`DedupCache`; `LinearProbeCache` implements `KVStore`.

A definition whose comment starts with "Mutant:" is a wrong version of the
definition below it. There is one for each property of a passing run: with the
wrong version in place TLC finds that property violated. No specification uses
them. `TypeOK` in a module says what its variables may hold; the run of
`LinearProbeCache` lists it, and in the modules with proofs, but for
`Downloader`, it is a theorem (`ReaderTypeOK` in `GoCacheReader`). `Conversions`
has one variable, and its type is the lemma `TextTyped`.

### LinearProbeCache

A slot is a record of the stored hash bits and an offset; records are a
function from offsets (relative to `mKeyspaceSizeOffset`, as in the code) to
key and value. `Hash`, `KeySize`, `ValueSize` and `ValueType` are constants, so
that collisions, sizes and types are chosen by the instance. `ProbeEndsAt`
states where both `while( true )` loops end; a call whose loop would not end is
a call that is not enabled, and `ProbeTerminates` says there is none.

`putInternal` is split by outcome: `PutKeySpaceFull`, `PutExisting`,
`PutTooLarge`, `PutOffsetTooShort`, `PutInserted`. The last two grow the buffer
(`Grow` is `MemoryHandler::grow` with `resizeToFit`); only `PutInserted` reaches
`updateKeySpacePtr`. `PutOffsetTooShort` throws after it has appended the
record, and if `realloc` moved the buffer, `mKeySpacePtr` is left at the freed
block ("freed"). `StalePtrCause` says that this is the only way to get there. A
later probe through the pointer is undefined behaviour: `ProbeFreed` takes that
step, and nothing is claimed from then on. The read accessors are one action,
`Read`, with a table (`Answers`) of the stored types each one answers, the values
that an accessor takes for missing (`LikeMissing`: an empty string for most of
them, an empty list for `getVector`) and those it throws for (`Throws`: a string
that is asked for its floats). `Reload` is `output` followed by the loading
constructor.

### BucketChainCache, MapCache and CacheFamilies

Links are a function from offsets, of slots and of records, to offsets; a chain
is what one gets by following them. `PutInserted` appends a record and writes
one link, after `Grow`, which may move the buffer. `MapCache` keeps one map for
strings and one for lists, as the code does. In `CacheFamilies` a client gives
both caches the same puts and compares what they answer. The families differ
where the code differs: a bucket chain stores a key again, and counts it.

### ReaderSwap

`initializeReader` is split where lookups can see a difference: header and
`mCacheType` (`ReadHeader`), mapping (`LoadMmap`), the swap (`AtomicStore`), the
return. A lookup is split likewise: `ReadType`, `AtomicLoad`, `FinishRead`. The
reference count of each cache is explicit. What a lookup computes is the subject
of `LinearProbeCache`; here it is answered by a generation. `floor` and `newest`
are history variables: what a lookup that starts now must see at least. So is
`familiesRead`, by which `TransparentSwap` knows whether the files have kept to
one cache family.

The type in the header of every file (`FileType`) is a constant. `mCacheType` is
assigned from the header before the file is loaded: when it names another family
and the load fails, the cache that was served is still in its pointer, but
lookups use another one. `InstalledIsServed` says how much stays.

### GoCacheReader

One updater (first the caller of `NewCacheReader`, then the goroutine), any
number of lookups and callers of `Delete`. Each access to `Handle`,
`MostRecentFileTimestamp` and the C++ object is a step of its own. A call
through a nil handle kills the process, a call through a freed object may kill
it or go on.

### Downloader

The state is the folder: the files that carry a timestamp, under their own or a
temporary name, and the contents of the two timestamp files. Every file is
created under a temporary name and renamed; the two timestamp files appear in
one step, since their temporary names carry no timestamp and nobody looks at
them. `shouldDownload`, `download`, the clean-up after an error
and the removal of old files run step by step, with a fault of a chosen kind
possible where the code can fail. `Crash` restarts the process. Mirrors only
move forward, but they lag behind one another.

### DedupCache and CacheWriter

The probe is the subject of `LinearProbeCache`; in `DedupCache` a key has a
record or has none. A value is its type and the bytes stored for it, because
`mValuesToIndex` is searched by the bytes alone: values of different types may
share an entry of the table. `EncodeIndex` cuts an index to one or two bytes,
`OutputTable` counts the table in sixteen bits, `Decode` is `getFromSlot` with
the table that `setFrequentValue` finds behind the data. `Contents` is what the
lookups of a file answer. A put may be refused before it appends anything (the
key space is full, the record too large) or, for its offset, after it, and then
`keySpacePtr` may be left at a freed buffer, as in `LinearProbeCache`.

`CacheWriter` lets the client call the methods of the Go object in any order
and any number of times. What Go checks (`isInitialized`) and what it does not
(a handle that was deleted, a builder that `finishCacheCreation` released) is
part of the model; a call through a null pointer ends the process (`"segv"`).
`InsertKeyFails` is the insert that is answered by an error, in each of the three
ways; an insert that probes the freed buffer (`InsertKeyProbesFreed`) is
undefined behaviour, and nothing is said of the process from then on.
`FinishCacheCreation` is split where the folder changes: `OpenCacheFile`,
`WriteCacheFile`, `TruncateLatest`, `WriteLatest`, `RenameCacheFile`, `Return`.
The process may end before each of them (`Exit`), and the next writer finds the
folder as it was left. `accepted` and `promised` are history variables: the
first value of each key whose insert was answered with nil, and what had been
accepted when the file was written.

### Text, Numbers and Conversions

The three modules of pure functions. The repository has two libraries of string
functions, three number parsers and several places that turn a text into a
value; each is an operator, and the properties compare them with a reference
(`Tokens`, `IsTrimmed`, `StdFromChars`) or with one another. The state machine
only types a text, one character after the other, so that a run sees every text
of the given length. A floating point number is the exact decimal that
`parse_number_string` collects, rounded to a float or to a double where the code
rounds it: `RoundToFloat`, `RoundToDouble` and `FLT_MAX` are constants, so that
`parseAsFloat`, which rounds to a double, compares with `FLT_MAX` and rounds
again, differs from the parsers that round once. Integers are accumulated in a word that wraps,
and the rules that notice the overflow are those of the code. Stored values are
sequences of cells, a length or a character, with the terminators the code
writes, and reads are given what lies behind the value in the buffer.

Loops are recursive functions over the positions of the text (`SplitStep`,
`TokenStep`, `DecodeStep` and so on are their bodies), so that their state after
any number of characters can be reasoned about. `Sorted`, the `std::sort` of a
list, puts each element behind as many as are not behind it (`NotBehind`).

`InsertScalar`, `InsertFloats`, `InsertVectorKey` and `ParseAsFloat` are the
writer's side of the C API, `ParseVector` the parser's, `CreateModeList` the
command line's; `GetScalarOfString`, `GetFloat...OfString` and `...OfFloats` are
the accessors of `HashedCacheBase`. The scalar ones answer a value and whether it
was found: the empty string is not, and gets the caller's default.

### Settings, Generator, PeriodicLoader and CommandLine

`Generator` follows `CacheGenerator::start` and `createMode` step by step: the
arguments from the settings, one input file and one line after the other, then
the output file opened (and truncated), written and flushed. A file on the disk
is empty, has a header only, or is complete. Exceptions end the process, as
only those of the option parser are caught. `PeriodicLoader` looks at the same
disk: at the modification time, at the header, and for the mapping, with the
generator running in between; what it serves is what the mapped file is now.
`Mappings` says what `loadMmap` makes of a file: a null pointer if there is
nothing behind the header, a mapping that is too short, or the whole. From one of
the first two `setFrequentValue` may make a cache, throw, or end the process
(`ConstructorOutcomes`), and so may a later lookup (`LookupCrashes`); a process
that has crashed is started again (`Restart`). All processes are of one build, so
that the version comparison (`CacheOneTimeLoader.h:65`) does not fail.
`CommandLine` starts process after process (`Run`), lets any of them die
(`Die`), and adds read mode and the benchmark, which uses the C API. A command
that asks a string for its floats ends read mode by an exception
(`ReadModeThrows`), and reading a file that a death has cut short may do anything
(`ReadTornFile`). `source`
and `torn` are history variables: the lines that write mode made a file from, and
the files whose last writer died.

### Bindings

One process in Java or in Python. A Java method looks at `nativeHandle`, reads
it again for the native call, and `close` deletes the object before it forgets
the handle: these are separate steps, and those of several threads interleave.
A Python call holds the interpreter lock and is one step inside it. Every
buffer that the C API allocates is in `heap` until the binding frees it:
`JavaFreed` and `PythonFreed` say what each method of either frees. A lookup of
floats under a key that holds a string throws in the C API (`LookupThrows`): the
exception reaches a Python caller, and ends the JVM. `CResult` is what the C API
answers, also that a number is not found in an empty string; the history field
`unseen` tells the keys that are reported missing, rightly or not. The
writer of either language inserts keys, some of which do not parse, finishes,
and renames its file; the next writer may do so in the same second, and find
the file of an earlier process. A crash is recorded with its cause and thread.

## Runs

Each passing run finishes in about three minutes or less with two workers.

| Run | Result | States | Shows |
|---|---|---|---|
| `linear_probe` | holds | 57 492 | `TypeOK`, `ProbeTerminates`, `StoredKeysReachable`, `RecordsWellPlaced`, `HeaderExact`, `StalePtrCause`, and that the cache implements `KVStore` |
| `cache_families` | holds | 152 686 | `ChainsHoldEveryRecord`, `ChainHeaderExact`, `FamiliesAgree` |
| `reader_swap` | holds | 63 361 | `OwnedWhileRead`, `TransparentSwap`, `InstalledIsServed`, `ReplacedIsUnmapped` for files of two families and of one that is not served, with loads that may fail |
| `cache_writer` | holds | 2 843 881 | `PublishedComplete`, `FinishedIsPublished`, `FailedWriterIsHarmless` for writers that may die at any step |
| `dedup_full_table` | violated | | `DuplicatedValuesKept`: a table of 65536 values is accepted and its count is written as zero |
| `go_reader` | holds | 30 624 | `TimestampBacked`, `StopClosedOnce`, `TimestampAdvances`, `UpdaterStops`, `DeleteIsFinal` |
| `downloader` | holds | 421 004 | `LatestSound`, `LatestAdvances`, `Converges` with any two faults of six kinds |
| `downloader_rollback` | violated | | `LatestNamesData` when only an older mirror answers |
| `conversions` | holds | 111 111 | `TextFunctionsAgree`, `IntegersExact`, `ScalarsAgree`, `FloatReadsAgree`, `DuplicatesRecognised`, `ListsAgree` |
| `command_line` | holds | 1 113 250 | `GeneratedExact`, `TornOnlyByDeath`, `ServedFamily`, `ReadsWhatWasWritten`, `FinishedIsLoaded` |
| `generator_inputs` | violated | | `NamedFilesAreFound`: the second input file is looked for below the first |
| `bindings` | holds | 2 392 232 | `HeapBalanced`, `CrashCauses`, `BindingsAgree`, `ReturnedTimestampLoads` |

The violations are disagreements between the code and its own comments, options
or tests; `PROJECT.json` quotes both sides under "findings".

What the passing runs do not promise, because the code does not:

- `getString` of a value of another type (`HashedCacheBase.cpp:28`) hands
  `trimExtraNullTerminator` an empty view, although the comment there says that
  the size is at least one (`StringViewToNullTerminatedString.h:18`): the model
  answers `"sizeWrapped"`, and `KVStore` promises nothing for a read of another
  type.
- A put refused for its offset may leave `mKeySpacePtr` at a freed buffer
  (`HashedCacheBase.cpp:147`, `LinearProbeValue.cpp:29`); `StalePtrCause` states
  the condition and the cache is not to be used after it. `PublishedComplete`
  leaves out the writers that are used after it all the same.
- `TransparentSwap` holds as long as the files read are of one cache family. When
  the family changes, lookups get the default answer between the two assignments
  of `initializeReader` (`CacheReaderCApi.cpp:116`), and if the load then fails,
  until one succeeds, although `axoncache_test.go:334` says that the previous
  good file should be retained (the load in that test fails before the
  assignment). `InstalledIsServed` promises for any families that the installed
  cache stays in its pointer, and that lookups use another pointer only after the
  header of a newer file has been read. A file that vanishes between the header
  and `mmap` leaves a null mapping (`MmapMemoryHandler.cpp:25`) that is installed
  and read; `ReaderSwap` takes files to stay until they are mapped
  (`PeriodicLoader` does not).
- An `Update` that is under way when `Delete` runs stores its timestamp after
  the reset (`axoncache.go:170`), and later lookups pass `isInitialized` and
  reach a nil handle, against the comment at `axoncache.go:307`. `DeleteIsFinal`
  starts when no such `Update` is left.
- `cache_writer` has `WriteMayFail = FALSE`: with TRUE, `PublishedComplete`
  fails, since the state of the output stream is never looked at
  (`CacheFileWriter.cpp:45`) and a file cut short is renamed like a whole one.
- `LatestSound` and `LatestAdvances` hold until a fault of kind poll, write or
  flush (`Sound`). Mirrors that are silent once make `shouldDownload` answer
  with no timestamp at all (`download.go:515`), the timestamp in use is
  downloaded again, and if that fails the clean-up (`download.go:856`) removes
  its files. The error of the last write is ignored (`compress.go:102`).
  `Converges` holds for all kinds.
- `Converges` fails with three faults: an error after the latest timestamp is
  written, a removal that fails in the clean-up, and a crash in the next
  download leave three files of the timestamp without the data, which
  `hasAtLeastOneDownloadedFileAlready` takes for a complete download. The FIXME
  beside that function says as much, so the run stops at two.
- `IntegersExact` admits that a wrapped number of as many digits as the largest
  `uint64` passes for one when it is large enough (`fast_float.h:1456`).
- `ScalarsAgree` admits the texts that `strtod` accepts and fast_float does not,
  such as one with a leading space: the C API stores zero for them, and reads of
  the text give the number. It also says that an empty string is not found by
  the scalar accessors (`HashedCacheBase.cpp:36`, `:69`, `:98`), so that the
  caller gets its default, where the C API would have stored zero or false.
- `DuplicatesRecognised` says that a list of floats is recognised exactly if its
  elements round through a double to the float that they round to themselves, and
  are below `FLT_MAX` as doubles (`CacheWriterCApi.cpp:465`): `1.00000005960464478` is stored as one
  float and given as another, and the largest float is dropped. Such a value is
  stored, and read back, but not shared.
- `FinishedIsLoaded` admits a file whose own load failed: the modification time
  is remembered first (`CacheLoader.h:70`), so it is not loaded until it changes,
  or the process is started again. It does not say that the process survives: one
  that meets the file half written may crash in `setFrequentValue`
  (`LinearProbeDedupCache.cpp:134`) or in a lookup.
- `CrashCauses` lists what a caller may do to crash the process: another Java
  thread's `close`, `update` of a closed Python reader, inserts into a finished
  writer, and, in Java, the exceptions that cross the JNI boundary: a text that
  is no float list is inserted, or the floats of a string are asked for
  (`HashedCacheBase.cpp:187`, `CacheReaderJNI.cpp:233`).
- `BindingsAgree` lists the values that are there and reported missing: an empty
  string to `getLong` and the other getters of numbers, an empty list to
  `getVector`, and in Java a string that is not UTF-8 to `getKey`.
- `ReturnedTimestampLoads` is about settings that name the working directory and
  a task name without extension; the FIXMEs at `axoncache.cpp:272` and `:349`
  admit the other cases.

### Bounds

- `LinearProbeCache`: four slots, five keys, 80 percent load, so three entries:
  enough for a probe that wraps and passes two other keys, a pair of keys with
  equal hash bits and home, a key too many, and a full key space. Sixteen offset
  bits (the smallest the constructor accepts), a key of the greatest length and
  values of 40000 bytes reach the offset limit with two records. `MaxRecords`
  only stops puts that cannot succeed from appending for ever. Three accessors
  stand for all of them: one of strings, one of numbers, and `getFloatVector`,
  the one that can throw. TLC cannot enumerate real hashes; the proofs take any
  hash function.
- `CacheFamilies`: three slots asked for, four made; three entries, so that a
  chain can hold a key twice with another key between; an empty key, a key and a
  value that are too long, a value that is only its terminator.
- `ReaderSwap`: two threads and five files, of which the first, the third and the
  fifth are of one family, so that a cache can be replaced twice while a lookup
  holds it; the second is of another family and the fourth of a type that no
  lookup is implemented for. Any of them may be skipped.
- `GoCacheReader`: a lookup, two callers of `Delete`, timestamps up to three:
  the latest timestamp may grow, go back and be unreadable.
- `Downloader`: two mirrors, three timestamps (two in `downloader_rollback`),
  and at most two faults, so that one fault can hit the recovery from another.
- `CacheWriter`: two keys, two values with equal bytes and different types, a
  second byte string for the table, two writers: a file left by a process that
  died is found by the next. `ShortSpan` is 1 and `IndexSpan` 3, where the code
  has 256 and 65536: a table of two needs both index widths, a table of three
  is the largest that `setDuplicatedValues` accepts.
- `Conversions`: all texts of up to five of ten characters. The word has 16
  values, in which ten is the least number of two digits as 10^19 is the least
  of twenty in 64 bits, and int64 stays below it as in the code; lists of three
  elements, of two characters each, with lengths that wrap at four: five
  characters reach past every limit. A double is a multiple of a half, a float a
  whole number of up to 92: texts that round twice to another float, and texts
  beyond the floats, are among them.
- `CommandLine`: two runs, of any mode, over files that repeat a key, have a key
  in both files, a line without separator, an unknown type and a text that is no
  float list; settings with two caches, with two input files, with too few
  slots, with offset bits of another family, and with a directory that is not
  there; a cache with the name of the benchmark's; commands that throw; one load
  that fails.
- `Bindings`: two threads, two writers, a clock of two seconds: the second cache
  can be finished in the second of the first. The values are empty, not UTF-8, a
  list with either, a list without elements, and floats.

`CacheWriter`'s runs use the symmetry of the keys, which are only compared, and
`bindings` that of the threads; the others check liveness, or keys that differ
by their hash.

### Fairness

- `ReaderSwap`: a lookup that has begun ends (its probe ends, see
  `ProbeTerminates`, and it waits for nobody). Nothing is assumed of updates.
- `GoCacheReader`: goroutines that can run are scheduled (weak fairness), and
  `select`, which chooses among ready cases at random, does not pass over `Stop`
  for ever (strong fairness on that case). Nothing is assumed of new files.
- `Downloader`: `checkForNewFiles` calls `Run` again and again and a started
  process runs. Faults are finitely many because their number is bounded.
- `CommandLine`: the serving process goes on calling `load` (weak fairness on
  `Serve`), which is what a periodic loader is, and is started again when it has
  crashed, without which no property of what it serves in the end could hold.
  Nothing is assumed of lookups, which may crash it again and again while it
  serves from a bad mapping or need not, nor of the tool: it may stop between any
  two steps.
- The other modules claim no liveness.

Deadlock is not checked where the system may come to rest: a folder that is up
to date, a process that has ended, a text of the greatest length.

## Proofs

A module `XProofs` holds the theorems about module `X`, and `GoClientProofs`
those about the two modules of the Go client. Every proof is about all values of
the constants: any number of threads, keys, slots, files, mirrors, settings and
runs, any hash function, any sizes, texts of any length. The inductive invariant
of each module was checked by TLC, on the instance of the module's run, before
it was proved.

Every invariant and every action property of the passing runs is a theorem, and
so is the refinement of `KVStore`. Only liveness is left to TLC.

The assumptions are the named `ASSUME`s of the models, which TLC evaluates on
every run: what constructors check (`ConstantsAssumption`), that two to the
power of the offset bits is a positive number (`OffsetSpanAssumption`, which the
provers do not compute), that sets of threads, mirrors and the like are finite,
and that what the code splits is a sequence (`CommandLineAssumption`). For the
conversions they say what the characters are: the digits are the decimal ones,
the narrower integer types end below the numbers that can wrap
(`NumbersAssumption`), both roundings keep zero and make no number of what is
none (`RoundingAssumption`; nothing else is said of them), characters have distinct codes, of which the terminator's
is the least, and the limits on lists are below the span of a stored length
(`ConversionsAssumption`). `StoredAssumption` of the bindings says what the values
of each type are. A theorem that needs more says so in its statement:

| Module | Theorems | Hypothesis |
|---|---|---|
| `LinearProbeCacheProofs` | `TypeCorrect`, `ProbeAlwaysTerminates`, `StoredKeysAlwaysReachable`, `RecordsAlwaysWellPlaced`, `EntriesAlwaysCounted`, `HeaderAlwaysExact`, `StalePtrAlwaysCaused`, `StoreAlwaysImplemented` | |
| `CacheFamiliesProofs` | `TypeCorrect`, `ChainsAlwaysHoldEveryRecord`, `ChainHeaderAlwaysExact`, `FamiliesAlwaysAgree` | |
| `ReaderSwapProofs` | `TypeCorrect`, `AlwaysOwnedWhileRead`, `InstalledAlwaysServed` | |
| | `SwapAlwaysTransparent` | in the property: the files read are of one cache family |
| `GoClientProofs` | `ReaderTypeCorrect`, `TimestampAlwaysBacked`, `StopAlwaysClosedOnce`, `TimestampAlwaysAdvances`, `DeleteAlwaysFinal` | |
| | `LatestAlwaysSound`, `LatestAlwaysAdvances` | in the properties: `Sound` |
| `CacheWriterProofs` | `TypeCorrect`, `FinishedAlwaysPublished`, `FailedWriterAlwaysHarmless` | |
| | `PublishedAlwaysComplete` | `Dependable`: no write fails, and there are fewer frequent values than the index span (the run `dedup_full_table` shows why) |
| `BindingsProofs` | `TypeCorrect`, `HeapAlwaysBalanced`, `CrashAlwaysCaused`, `ReturnedTimestampAlwaysLoads`, `BindingsAlwaysAgree` | |
| `CommandLineProofs` | `TypeCorrect`, `TornAlwaysByDeath`, `FamilyAlwaysServed`, `GeneratedAlwaysExact`, `ReadsAlwaysWhatWasWritten` | |
| `ConversionsProofs` | `TextFunctionsAlwaysAgree`, `IntegersAlwaysExact`, `ScalarsAlwaysAgree`, `FloatReadsAlwaysAgree`, `DuplicatesAlwaysRecognised`, `ListsAlwaysAgree` | |

### The arguments

**LinearProbeCache.** None of the properties is inductive alone. `IInv` adds

- `NoGap`: every slot between the home of a stored key and its slot is
  occupied. It survives because slots are never emptied and a new key goes into
  the first empty slot of its own probe;
- `NoDuplicates`: no two slots hold the same key. It survives because
  `findFreeKeySlotOffset` stops at the key if it is stored, which needs `NoGap`;
- `HashStored`: the hash bits in a slot are those of its record's key;
- `Counted`: `numberOfEntries` counts the occupied slots within the limit, so
  that an empty slot remains, which is what ends the loops.

Termination then follows: some slot is empty, the probe visits every slot, and
the first stopping point exists because a set of numbers that is not empty has a
least member (`FirstDistance`). Reachability follows from `NoGap`,
`NoDuplicates` and `HashStored`. For the header, `Furthest` says without a
maximum that `maxCollisions` bounds every displacement and is one of them, which
a put preserves; `MaxIsBound` turns it into the maximum. `StalePtrCause` is
inductive by itself, since no record is ever removed.

`StoreAlwaysImplemented` is the refinement of `KVStore`, step by step: a put
that inserts, one that finds its key and each refusal map to the action of the
dictionary with the same answer, a read to a read, since the probe finds the
record of a stored key (`Reachable`) and no record for another (`ProbeMisses`).

**CacheFamilies.** A chain is a walk along the links, which the model defines as
a recursive function. Links lead to larger offsets (`BufferInv`), so two such
walks cannot differ: a smallest offset where they do would follow one where they
do as well. That a walk exists is part of the invariant (`WalkInv`): the walk
after a put is built from the one before it (`AppendWalk`). `SlotInv` says which
records are on which chain and in which order, `HeaderInv` counts them, and
`MapInv` relates the first record of a key on its chain to the map. That the
table has as many slots as asked for (`SlotsEnough`) comes from counting subsets.

**ReaderSwap.** `CountExact`: the count of a cache is the number of lookups that
own it, plus one if the reader or the loader holds it; `InOrder`: generations
are installed in order, each in the pointer of its family. That the installed
cache stays, for files of any families, is `RetainInv`: the pointer of its family
holds it or a newer cache, since a pointer is only ever stored a newer generation
of its own family, and `mCacheType` is its type or that of a newer file, which
while an update is under way is the file being loaded (`UpdateInOrder`). While
the files read are of one family, what a lookup must not go back behind is served
or older than what is (`FamilyInv`).

**GoCacheReader.** `DeleteInOrder`: `deleteOnce` lets one caller in, and its
progress can be read off the handle, the object and the channel; `LoadingAhead`:
until `Delete` the timestamp in use is not ahead of the loaded file, and an
`Update` under way is about a newer one.

**Downloader.** Under `Sound`: nothing is newer than what the mirrors offer, the
files of the latest timestamp are all there (so that `shouldDownload` never has
them downloaded again), a download is about a newer timestamp, and a clean-up
lists no file of the latest one (`RemovesOthers`), also when it runs after a
crash.

**CacheWriter.** `OrderInv` is about the life of a writer: it has its builder
until its file is written, which happens once. `ContentInv` says that an index
stored for a value goes on meaning that value (`Stands`): the table is set once,
and its first position of a value is what `mValuesToIndex` holds. A refused put
leaves no record, so that the records are those of the inserts answered with nil
(`RecordsStand`).

**Bindings.** Every buffer belongs to a lookup that is to return (`HeapOwned`),
whose result is that of the C API for some key and cache, and whose `unseen` says
whether the key was there;
in Java a thread that forgot the reader is in none of its methods (`JavaOrder`);
in Python a closed reader accepts no lookup (`PythonOrder`); and a writer renames
only to the file of the present second, so that the files of earlier timestamps
stay, and the one of this second is the cache made last in it. `CrashCauses` is
preserved by every step that may crash: an exception of a lookup needs a string
in the cache that is read, and that cache does not change with it.

**CommandLine.** `IInv` says that a header with the offset bits of a linear
probe is one of that family (`Sane`), for what constructors accept and what is
written, whatever the settings asked for; and that the file in work is the only
incomplete one whose writer lives. `MadeInv` follows the input: the cache in
work holds the first pair of every key of the lines read so far (`WorkInv`,
where `Prefix` stands for the lines of the first files, by the recursion of
`FlattenSeq`), so that the finished file holds those of all lines (`DiskInv`).
For read mode, the list of `ExecutedCommands` after i lines is as long as there
are accepted and executed ones among them, by induction over the lines, so that
the rounds of `Answers` count every one; what they answer is what the file on the
disk holds, which `MadeInv` relates to the input of write mode. A run that a
command ends has printed the first of these answers.

**Conversions.** The text is the only variable and its type the only invariant:
each property is proved for every sequence of characters. A recursive function
over positions says nothing until it is known to exist, so each loop has a lemma
that it does (`...RunExists`), after which its value follows the loop.

- Texts: the state of each loop after i characters is described by the tokens
  cut so far (`Rank` numbers the separators, `CutOf` the pieces between them,
  `FirstTokens` those that are not empty). The versions of a function have
  different loops and the same description. Trimming is described by the `Core`
  of a text, which begins and ends with a `Solid` character.
- Numbers: a number of n digits without leading zero lies between the powers of
  ten around it, so that the count of digits bounds the value from both sides;
  the word holds the value whenever it can (`WordValueIs`), and the rule of
  `fast_float.h:1456` notices the overflows that `IntegersExact` says it does.
  A terminator, or the character behind a value in the buffer, ends the digits
  wherever they end otherwise (`SameDigitsEnd`, `TerminatedTokens`). The
  roundings are arbitrary functions: two parsers agree where they round the same
  decimal in the same way, and `parseAsFloat` agrees with `stringViewToVector`
  element by element exactly where `RoundsAlike` says that rounding twice does
  not show (one element dropped or different makes the two lists different).
- Lists: decoding what was encoded finds each element behind the encoding of
  those before it (`Prefix`, `Found`). For the order, two different texts differ
  at a first place (`LowerAt`), which makes the comparison total and transitive;
  the positions of the sorted elements are then distinct and within the list,
  so that each is taken (by counting). Empty elements come first, and cutting
  texts at the lowest character keeps the order.

Where a proof needs induction over data, it is by smallest counterexample
(`SmallestMember`, and `InductionUpTo` made from it, from the well-foundedness
of the numbers), since the induction theorems of the library cannot be used.

### What the attempts changed

Proving found what TLC's instances did not reach, all of it in the models:

- two cases of the inputs a Java or Python writer accepts (`Accepted` in
  `Bindings`) overlapped, and `CASE` left open which one was meant;
- the history `source` of `CommandLine` was set for a cache whose directory is
  not there, and kept when the benchmark, or createMode, wrote over a file of
  that name; `torn` kept a file that a later run had opened again. The second
  command line with the benchmark's cache name is there to reach these cases;
- the conversions rested on assumptions that the instance of TLC made and no
  module stated: that no two characters have the same code, that the digits are
  decimal, that the narrow integer types end before numbers wrap;
- `FrontEndsAgree` said less than the code does: the parser's list is the stored
  one, but for one empty element in front of it.

The loops of the conversions were `RECURSIVE` operators and the sort was TLC's
`SortSeq`, which the prover cannot expand; both became definitions of their own,
over the same steps.

### Checked by TLC only

- Liveness (`ReplacedIsUnmapped`, `UpdaterStops`, `Converges`,
  `FinishedIsLoaded`): the prover does not reason about fairness.
- `TypeOK` of `Downloader`, whose bound on the faults is a sum over their kinds
  (a fold); the types that the proofs need are in `Typed`.

## Not modelled

The parts with status `not_modelled` in `PROJECT.json`: the Go command line
tools, which only drive the packages, and logging, progress and the object
storage client, which only do input and output. xxHash is vendored and an
arbitrary function here; of fast_float, also vendored, `Numbers` has the control
of the integer and decimal parsers and leaves out exponents, numbers of more than
19 digits and those beyond a double; how it rounds is an arbitrary function.

Within the modelled parts: the comparison of versions
(`CacheOneTimeLoader.h:65`, as all processes are of one build, but that
`ReaderSwap` lets any load throw), a null mapping under the C reader (see above),
`readKey` (it reads as `readKeys` does), `foundHash`,
the page-cache mapping after a download, statistics (`CacheInfo`) and logging,
`StringCacheValueConsumer`, the getters of the writers, the benchmark of other
hash tables, `CacheWriter_Finalize` (it releases the builder as finishing does),
the negative indexes of `getVectorKeyItem` (`CacheReaderCApi.cpp:279`), two
downloaders that share a folder, for which the code has no coordination
(`download.go:867`), and a slot count of zero (the division in the probe).

Some of what the models do say may surprise a reader of the code: `getWithType`
of a bucket chain cache always answers an empty view, `GETBOOL` of read mode is
accepted and never executed (`main.cpp:341`), and `addDuplicateValue` keeps
numbers as texts, so that the numbers stored in binary form do not match them.

## Plan

1. Proofs: the types of `Downloader` with the sum of its faults; the step
   towards liveness that the prover can take, that the steps fairness is assumed
   of decrease a measure.
2. Compositions: two downloaders in one folder; downloader and Go reader, where
   the reader opens what the clean-up removes.
