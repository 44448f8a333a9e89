# libtub in TLA+

libtub reads, changes and writes the *bundles* of Criterion games: archives of
resources in two binary formats, BND2 and BNDL. This directory holds a TLA+
model of the library: its in-memory container, what it saves and loads, the
calls of class `Bundle`, the builders, the project directories and the C API;
configurations that check it with TLC; and theorems about it that TLAPS checks
for every value of the constants.

## The system

The library is sequential: no thread, no callback, no timer. What makes it hard
is state that has to be kept consistent by many operations: flags that announce
what the entries hold, imports stored in two different places by the two formats,
a string table that Save puts among the resources for a while, versions that
convert the same fields differently, and calls that fail after they have changed
something. Files outlive the object: what one call leaves wrong, a later save
writes and a later load brings back.

| component | source | state | operations |
|---|---|---|---|
| format constants | `include/libtub/internal/enum.inc` | none | magic, platforms, memory types, flags |
| `Formats::Base` | `src/formats/base.{hpp,cpp}` | entries by `(id, stream)`, debug data by the same key, flags | add, replace, add debug data, read; string table text to and from debug data |
| `Formats::Bnd2` | `src/formats/bnd2.{hpp,cpp}` | default resource, four stream names | set them; Load, Save; imports appended to the main memory block |
| `Formats::Bndl` | `src/formats/bndl.{hpp,cpp}` | import lists by resource id | Load, Save; the string table saved as a resource of its own |
| `Bundle` | `src/bundle.cpp`, `include/libtub/bundle.hpp` | `m_impl`, last error | every call checks for an empty object, catches what the formats throw, and sets the last error; Load parses into a new object and swaps it in |
| `BundleBuilder`, `BundleResourceBuilder` | `src/builder.cpp` | a bundle, a staged resource with its key and debug data | Validate, Commit (add, then debug data), Build (moves the bundle out) |
| project directories | `src/project.cpp` | a directory: `.meta.yaml`, block files, import files | ExportProject (a sequence of writes), ImportProject (into a new bundle, swapped in) |
| C API | `src/bundle_c.cpp` | handles on a bundle and on resources | converts arguments and error codes; turns exceptions, `bad_alloc` above all, into codes |
| tools, tests | `tools/`, `tests/main.cpp` | none between calls | command line around the facade |

How they interact: `Bundle` owns one `Formats::Base` through `m_impl` and calls
it directly. `Save` asks the format for an image, complete in memory, then
opens (and so empties) the path and writes. A `BundleResourceBuilder` holds a pointer to the
bundle of the `BundleBuilder` that made it. The project functions and the C API
use the public calls of `Bundle` only.

What must be correct:

- *container*: a call that fails changes nothing, and where it cannot avoid
  that, nothing but the entry it was about; a replaced resource is read with its
  own import count, offset and blocks, never the old ones'; flags announce the
  streams and the default resource that are there;
- *formats*: loading what was saved gives the same resources, imports and debug data, as far as the
  format can hold them, and saving what was loaded gives the same file;
- *facade*: a load that fails leaves the bundle as it was, and a save is not seen in memory;
- *builder*: a commit that succeeds leaves exactly what was staged, in a form
  that Save and Load give back, whatever the bundle has become since the builder
  was made; one that fails leaves nothing, if it can;
- *project directories*: importing a finished export gives the bundle back, also
  over older exports; one that was cut short spoils as little as it can and is
  never taken for a finished one;
- *C API*: success means all of it was done, and a call that memory runs out in
  costs at most the resource it was about.

The full list of what is hard to test, line by line, is `hazards` in
`PROJECT.json`.

## The modules

Each of the first six modules extends the one above it; below them the table says what extends what.

| module | what it is |
|---|---|
| `BundleFormat` | what magic, version and platform decide: memory types, file blocks, what Save accepts |
| `Container` | the object as a record, and an operator for each member function of `Base`, `Bnd2` and `Bndl` that changes or reads it |
| `DebugTable` | the string table's rows: written in which order, with or without a stream, and read back |
| `BundleImage` | `Images`: every file Save may write for an object. `Loads`: every result Load may have for a file |
| `BundleStore` | the state machine: a `Bundle`, its last error, and the file at one path |
| `BundleProperties` | the properties, and the refinement mapping to `ResourceMap` |
| `ResourceMap` | the abstract specification: a map of resources and a file that gives it back |
| `MCBundle` | small values for the constants |
| `BundleBuilder`, `MCBuilder` | resource builders on a bundle; extends `BundleProperties`, so that every call of `Bundle` happens between theirs |
| `ProjectDir`, `ProjectProperties`, `MCProject` | a directory, the exports over it and the imports from it; extends `Container`: bundles are values |
| `CApi`, `MCApi` | a C program's bundle and resource; extends `BundleProperties` |
| `ContainerProofs`, `ImageProofs`, `BundleStoreProofs`, `RoundTripProofs`, `OwnFileProofs` | the proofs about bundles and files, each extending the one before |
| `BuilderProofs`, `CApiProofs`, `ProjectProofs` | the proofs about the builders and the C program, on those, and about directories, on `ContainerProofs` |

**State.** `bundle` is `m_impl`: `NoImpl` for an empty or moved-from object, or a
record with the fields of `Base` and its subclasses (`fmt`, `flags`, `entries`, `imports`,
`debug`, `default`, `names`). A `std::map` is a function on the keys present. An
entry's blocks are `[payload, trailer, align]`; the trailer is the import list BND2
appends to main memory, and `importOffset` says where it is looked for, so that a
count and an offset that belong to another block can be seen to split it at the wrong place.
`lastError` is the last error code. `file` is what is at the path: no file, a
partial one that Load rejects, a file that is no bundle (`OtherFile`), or an image: the
header fields, a row per resource, import lists and string table. `torn` and `savedTorn` are history: the keys whose last
replacement was stopped half-way, now and when the file was saved. No action reads
them but to keep them up to date.

**Actions.** One for each call: `AddResourceCall`, `ReplaceResourceCall`,
`AddResourceDebugDataCall`, `SetDefaultResourceCall`, `SetStreamNameCall`,
`SaveToPath`, `SaveToMemory`, `LoadFromPath`, `MoveOut` (a `std::move` away from
the object), `Read` (every getter, as far as it sets the last error), and
`CallOnEmpty`. Save's two other ways out are actions of their own:
`SaveRejected` (version, flags or platform refused) and `SaveThrows` (the writer
ran out of range or memory). A call is atomic, which is right for a sequential
library; what happens *within* a call when a part of it fails is a choice inside the action:

- *compression* (`StopSlots`): with the Compressed flag `ReplaceResource` walks the memory types
  and `compress2` may fail at each. What was already replaced stays. BND2 has by
  then set the new import count and offset if the resource has main memory
  (`base.cpp:179-202`); BNDL sets its count and stores the list last.
  `AddResource` undoes entry and flags, `ReplaceResource` does not.
- *writing*: the old file may survive (opening failed), be gone (`PartialFile`), or be replaced
  by one that was cut where Load does not look: in the padding at its end or, in
  BND2 from version 3 on, in the string table, which then gives no row (`CutImages`). Save reports `IoError` for
  each of them.
- *the string table of BNDL*: `AfterThrow` keeps the entry Save borrowed, with or without its block.
- *reading*: a file may be missing, refused by the system, too short or no bundle
  (`ReadErrors`), before anything is parsed.
- *loading*: `Loads` is a set, since a file of BNDL whose header counts a row too many, or that holds
  a resource under the string table's id, is read as whatever bytes are there.

**Builders.** `builder[b]` has the fields of a `BundleResourceBuilder`; `attached`
is whether `m_bundle` is set. `MakeBuilder`, `Binary`, `Import`, `DebugData` and
`Move` stage; `Commit` validates against the bundle as it is *then* and adds the
resource, then its debug data (`CommitResults`). `AssignBundle` is the
`BundleBuilder` assigned anew, `MoveOut` is `Build()`, and `LoadFromPath` and
every other call of `BundleStore` are there too. `meant` is history: what the
application staged through a builder, wherever moves have taken it.

**Project directories.** `files` are the block and import list files by path,
`meta` is `.meta.yaml` and `combined` is `.imports.yaml`. An export is the sequence of
writes the code makes: `StartExport` reads the bundle and fixes what goes into which file, `WriteFile` writes the
next one in the loop's order, then `WriteMeta`, then `WriteCombined`. Between
any two, and inside each, it may end in an error (`ExportFails`) or with the
process (`Die`); the file being written is then as before or cut
somewhere (`TornWrite`; `CutMeta`, `CutCombined` and the like say what a
cut YAML file still parses to). Nothing is ever deleted. An import goes row
by row into a new bundle that replaces the old one in `FinishImport`.
`described` and `progress` are history: whose description `.meta.yaml` is, and how far the last export came.

**A C program.** `resource` is its `libtub_resource`, `returned` what the last
call returned. Each function of `bundle.h` that changes or reads either is an
action of its name, on top of the facade's; NULL handles are `NullHandle`. The fault model is
memory: with `MemoryMayRunOut` a `bad_alloc` may come out of every allocation of
a block, a file, a string or an import, and `GuardError` returns its code with
the object as the exception left it. `AddThrows` and `ReplaceThrows` have
the objects that may be: which blocks were replaced, whether the import
count had been set (`ThrownEntries`), for an add, the entry and the flag that
nothing takes out again, and, after all the blocks, BNDL's import list:
`StoreSeparateImports` sets the new count and clears the list that all streams
of the id share before `reserve()` asks for room (`bndl.cpp:478-488`), so that an
exception there leaves the list empty (`StoreSeparateImportsThrows`). What room
a list had is taken to be its length (`OutgrowsList`). `libtub_resource_add_import` and
`libtub_add_resource_debug_data` return nothing, and lose what there is no memory for.

**Data.** A payload is one of a few values with a size; three are singled out:
`Empty` (size 0, which Save drops), `Garbled` (what `DecodeBinary` rejects) and
`TableText` (what BNDL serialises for its string table). Resource ids are
numbers because their order matters to the string table. Numbers are of the
width that matters: alignments go through their 4-bit exponent in BND2,
`SetDefaultResource`'s `int32_t` stream is checked against the
`uint8_t` of a key (the arguments -1 and 256 are tried beside the indices), and the limits of 65535 imports and 2^32-1 entries are the
constants `ImportLimit` and `EntryLimit`.

**The string table.** A row carries id, name and, in BND2 v5 only, a stream.
`Tables` is every row order `std::sort` may leave where its comparison ties;
`ParseTable` guesses the stream of a row without one as the reader does.

**Abstract specification.** `ResourceMap` is the promise to the application: a map from
keys to resources in which a call changes the resource it names and, of others,
only those that share stored data with it (`Siblings`: the streams of a BNDL id
have one import list); a file that gives back what was saved, as far as the format
can hold it (`Durable`: alignments, blocks of size 0), except what a stopped
replacement left; and nothing else. `IsResourceMap` states that `BundleStore`
implements it under the mapping in `BundleProperties`, whose `Contents` is what `GetResource` returns.

## What the runs check

All runs use a complete next-state relation. Deadlock checking is on in every
run: a bundle can always be moved away from, replaced or freed.

| run | instance | properties |
|---|---|---|
| `Bnd2Streams` | v5, compressed; one id in streams 0, 1, 2 and the out-of-range 4 | `TypeOK`, `StreamNeedsFlag`, `DefaultIsHeld`, `DefaultIsAsked` |
| `Bnd2Table` | v5, uncompressed; two ids in two streams, two names, given to resources that are there and to ones that are not, stream names (one too long) | `ResaveIsStable`, `DebugDataSurvives` |
| `Bnd2Empty` | v5 without a resource | `WriterDividesByNoZero`, violated |
| `Bnd2Compressed` | v2, compressed; two ids, two resources, every stop | `AlwaysReadable`, `ResaveIsStable`, `FailedCallKeepsBundle`, `IsResourceMap` |
| `BndlSharedImports` | BNDL v5; two ids, two streams, one import list | `ResaveIsStable`, `IsResourceMap` |
| `BndlTable` | BNDL v5; debug data, the string table's own id in use, a writer that throws | `DebugDataSurvives`, `IsResourceMap`, `FailedCallKeepsBundle` |
| `ForeignFiles` | XBox BNDL v4 and eight files of other tools: damaged blocks, counts without trailers, hidden blocks, streams without the flag, a default resource that is not there, refused versions | `ResaveIsStable`, `StreamNeedsFlag`, `ReadableStaysReadable`, `ReplacingRepairs` |
| `BndlAlignment` | BNDL v5, uncompressed | `BndlKeepsAlignments`, violated |
| `Builders` | two builders, one id in two streams; the bundle is BND2 v3, BND2 v2 for the Xbox 360, BNDL v5, or none | `BuilderTypeOK`, `CommitIsWhole`, `CommitKeepsSavable`, `CommittedSurvivesSave` |
| `Projects` | two exports over one directory, four bundles, both options; every failed write and crash | `ProjectTypeOK`, `MetaVouches`, `OldProjectStays`, `FinishedExportComesBack`, `ImportIsWhole`, `EveryCallReturns` |
| `ProjectsLate` | the same where a file may lose its last bytes when it is closed | `NoIncompleteProject`, violated |
| `CApi` | a C program; BND2 v3 compressed, BNDL v4 with two streams of an id, and a BND2 v3 file of another tool; memory may run out in every call | `CTypeOK`, `SuccessIsWhole`, `OutOfMemoryIsContained`, `HalfMadeSurvivesSave` |

- `StreamNeedsFlag`, `DefaultIsHeld`: flags and metadata keep up with the entries
  through failed adds, saves and loads.
- `DefaultIsAsked`: the default resource that `SetDefaultResource` accepts is the
  one asked for, no other that a wrapped stream index names, and every file gives it back.
- `AlwaysReadable`: without files of other tools, everything but a torn
  replacement can be read. That exception is real: a BND2 replacement stopped at
  main memory leaves the new import count over the old block. The model shows
  that nothing else is ever affected, and that the damage does not spread
  through a save and a load.
- `ReadableStaysReadable`, `ReplacingRepairs`: the same with damaged files. A
  readable resource stays so; a replacement that succeeds repairs.
- `FailedCallKeepsBundle`: an error means nothing changed, with two exceptions
  that the property names: a torn entry, and BNDL's borrowed string table entry after the writer threw.
- `DebugDataSurvives`: from every string table that Save may write, the names of
  an id come back under the same keys if all its rows name streams that are found
  again: the resource is there and, before v5, in its first stream. In v5 a
  row for a resource that is not there says `importEntry` and takes the stream of the row before it
  (`base.cpp:335-375`), so what comes back depends on the order of the rows. The property bounds it: it is
  a name given for that id, and, where every row has the attribute, in no higher stream
  than it was given for, because v5 sorts by stream first. Sorted by id, as in the other
  versions, it would not be; that is the mutant. The rows without the attribute (the
  sparse form for one resource) get the first stream of their id.
- `WriterDividesByNoZero` fails, a finding: `lastAlignment` starts at 0
  (`bnd2.cpp:335`) and is what the end of a file is aligned to (`bnd2.cpp:390`), so
  saving a bundle without resources asks for an alignment to 0, by which the writer
  divides according to `base.cpp:90-92`. What the division does
  is the writer library's affair, which is not in the repository; in the model a
  save goes on as if it gave a number, and a process that it ends loses its bundle as
  in `MoveOut`.
- `ResaveIsStable`: load followed by save is the identity on files.
- `IsResourceMap`: the refinement.
- `BndlKeepsAlignments` fails, a finding: an uncompressed BNDL file holds each
  block's on-disk alignment, which is 1 for every block the library added,
  and Load takes it for the block's own. A comment at `bndl.cpp:322` has them equal.
- `CommitIsWhole`: a commit that reports success has put exactly what was staged
  under the key; one that fails has changed nothing, except that debug data which is refused
  leaves the resource in the bundle, so that a retry cannot succeed
  (`builder.cpp:152`). The model shows that this is the only case.
- `CommitKeepsSavable`, `CommittedSurvivesSave`: what Validate lets through, Save
  takes and Load gives back, although Validate is asked about the
  bundle of now and the staging was done for another.
- `MetaVouches`: `.meta.yaml` is written late enough: if the last export wrote
  it, every file it names is there and whole. `OldProjectStays` is the converse: an export that
  stopped earlier has not taken anything away from the older project but the
  bytes of files they share.
- `FinishedExportComesBack`, `ImportIsWhole`: a finished export
  over whatever was there is given back, with the exceptions the properties name:
  a resource without imports gets those that an older `.imports.yaml` has for its key
  (ImportProject always reads it), and a torn one makes every import fail; a
  default resource that Load let in without its resource is refused.
- `EveryCallReturns`: liveness, see below.
- `NoIncompleteProject` fails, a finding: the state of an `ofstream` is asked
  before the file is closed, so an export onto a full disk may report success
  (`project.cpp:308`). `Bundle::Save` closes first and asks again.
- `SuccessIsWhole`: success over a half-made entry, left by an add that ran out
  of memory, is still the whole of what was asked.
- `OutOfMemoryIsContained`, `HalfMadeSurvivesSave`: an exception reaches
  no other resource, with one exception that the property states: in BNDL it may
  empty the import list of the id, and the id's other streams lose their
  imports with it (`bndl.cpp:485-488`). Whatever it leaves is saved and loaded again, as
  readable and as unreadable as it was. The entry itself stays: the
  rollback of `AddResource` (`base.cpp:99`) is not reached by an exception, so
  adding again is refused until the resource is replaced. Two more things the model
  makes plain, and no property forbids: after
  `libtub_add_resource_debug_data` the header (`bundle.h:134`) says to ask for
  the last error, which is that of an earlier call if memory ran out; and an
  import lost in `libtub_resource_add_import` is not reported at all.

**Bounds.** Two to four keys: one call must be able to disturb a key it does not
name, and a third adds nothing a pair does not show because no operation relates three
entries. The resources cover a block that is
absent, empty, of a type the platform lacks, aligned beyond 4 bits of
exponent (65536), with and without imports, and a main memory long or short
enough to hold an import. An import list of one is enough to differ from none and from
another list. `EntryLimit` of one to three and `ImportLimit` 1 let the limits
bite. One path stands for all files: no operation relates two. Calls are not
counted: every run explores all states these resources can reach, so sequences are of any length.

- `Bnd2Table` asks of every bundle what its files would give, and of every file what saving it
  again would, but follows none (`NotSaved`); the other runs do.
  `Bnd2Compressed` and `BndlTable` check but do not follow a call that fails and changes nothing
  (`ErrorsWithEffect`): no call looks at the error.
- `Builders`: at most `StagedTotal` = 3 blocks, imports and names are staged at a
  time, enough for a block, an import and debug data in one builder, or some in each; `EntryLimit` 1
  makes the second add meet the limit. A saved file is
  checked by `CommittedSurvivesSave` at each commit but not followed
  (`InBounds`), since the other runs follow it; nor is a call that reports an
  error, because no call looks at the last error and what a refused commit may
  leave, a resource beside debug data that was there, is reached by calls that succeed too. The builders are interchangeable, hence `SYMMETRY`.
- `Projects`: `ExportLimit` 2, because what an export meets is what one earlier export
  left, whole or torn, and a third would find one of those directories or a mixture of two
  bundles with the same paths. The bundles are one with everything in it,
  one with the same keys the other way round under other names, one whose default
  resource is missing, and one with a damaged block, which is refused. A cut alignment has digits that give one of `Alignments`.
- `CApi`: the bounds in `InBounds` are of two kinds. A call that reports an error other than
  memory is checked but not followed: no call looks at what the last one
  reported, and the bundle it leaves is one that memory running out leaves too. Nor is a file
  the program has saved, unless it is the other tool's again. And the
  instance is small: one import, or two where BNDL has two streams of an id, so that a
  list may have to grow; two blocks in the bundle, half-made entries
  under one key. `IsPlain` keeps a block that was read across two payloads from
  going into another resource.

**Fairness.** One assumption, in `ProjectSpec`: `WF_projectVars(CallStep)`, weak fairness of
the steps of an export or import that has begun. The code justifies it: the call
is a loop in one thread that waits for nothing, and its next step, if only the failing one, is always
enabled. It says nothing of `Die`, nor of the application ever calling.
Under it `EveryCallReturns`: no mixture of files and failed writes keeps a call
running. Everywhere else no fairness is assumed and no liveness stated: every
other call is one step, and nothing has to happen eventually in a library that is only moved by its caller.

Each property has a mutant in `PROJECT.json`, a plausible bug (a dropped check,
a missing reset, a flag not restored) under which the run finds it violated. The mutants stand in the modules
beside the definition they change.

## What is proved

| theorem | what it says | assumes |
|---|---|---|
| `BundleStoreProofs!TypesHold` | `TypeOK` always | |
| `BundleStoreProofs!StreamsAreFlagged` | `StreamNeedsFlag` always | |
| `BundleStoreProofs!FailuresKeepBundle` | `FailedCallKeepsBundle` | |
| `BundleStoreProofs!ReplacementRepairs` | `ReplacingRepairs` | `NoImpl` is not an object |
| `BundleStoreProofs!ReadablesStay` | `ReadableStaysReadable` | `NoImpl` is not an object |
| `RoundTripProofs!DebugDataComesThrough` | `DebugDataSurvives` always | files of other tools have no stream beyond the limit (`TidyRows`) |
| `RoundTripProofs!ResavingIsStable` | `ResaveIsStable` always | files of other tools say nothing the format cannot hold (`Canonical`) |
| `OwnFileProofs!ResourcesStayReadable` | `AlwaysReadable` always | no file of another tool |
| `OwnFileProofs!DefaultStaysHeld` | `DefaultIsHeld` always | no file of another tool |
| `OwnFileProofs!BundleIsResourceMap` | `IsResourceMap`: the refinement | no file of another tool; `NoImpl` is not an object, an image not in `NoBundle` |
| `BuilderProofs!BuildersAreTyped` | `BuilderTypeOK` always | |
| `BuilderProofs!CommitsAreWhole` | `CommitIsWhole` | |
| `BuilderProofs!CommitsKeepSavable` | `CommitKeepsSavable` | `NoImpl` is not an object |
| `BuilderProofs!CommitsSurviveSave` | `CommittedSurvivesSave` | `NoImpl` is not an object |
| `ProjectProofs!MetaIsTrue` | `MetaVouches` always | a closed file is whole; no content is `NoFile` |
| `ProjectProofs!OldProjectsStay` | `OldProjectStays` always | the same |
| `ProjectProofs!ProjectTypes` | `ProjectTypeOK` always | no content is `NoFile` |
| `ProjectProofs!ImportsAreWhole` | `ImportIsWhole` | the same |
| `ProjectProofs!FinishedExportsComeBack` | `FinishedExportComesBack` | a closed file is whole; no content is `NoFile` or `Unreadable`; the application's bundles are `WellMade` |
| `CApiProofs!CTypesHold` | `CTypeOK` always | |
| `CApiProofs!MemoryFailuresAreContained` | `OutOfMemoryIsContained` | |
| `CApiProofs!HalfMadeIsSaved` | `HalfMadeSurvivesSave` always | `NoImpl` is not an object |
| `CApiProofs!SuccessesAreWhole` | `SuccessIsWhole` | the same; `Garbled` is not a block split in two |

All are for every format, version, platform, set of flags and files,
and any number of ids, streams, resources and payloads that meet `ContainerAssumption`,
`ImageAssumption`, `AlignmentAssumption` and `StoreAssumption`, which TLC evaluates in every run; the builders, directories and
the C program add `BuilderAssumption`, `ProjectAssumption` and `CApiAssumption`
to them, which say that the arguments in use are of the right kinds. They
say: 0 is a stream and 0, 1 and 4 are alignments, storing an alignment gives an
alignment, an alignment is below 2^31 (31 bits and a loop over them are what `OnDiskAlignment` has),
only the empty payload has size 0, an application's buffers are not
damaged, and foreign files have the shape of a file.

What the last column names are explicit hypotheses of the theorem:

- about model values, true of any instance that takes them for values of their own, but
  not enumerable: `EmptyIsNoObject` (`NoImpl` is not an object), `FilesAreFiles` (an
  image is none of `NoBundle`: `NoFile`, `PartialFile`, `OtherFile`), `NoFileIsNoContent` (no description
  is the value for a missing file), `ContentIsReadable` (nor that for one that
  cannot be parsed, and neither is an import list), `GarbledIsNoSplit` (a damaged block is not one cut in two);
- about the world: `WritesLast` (`CloseMayFail` is FALSE), without which the theorems are
  false, as `ProjectsLate` shows; `ForeignFiles = {}`, that the program alone
  writes the file; `TidyRows` and `Canonical`, which of the files of other tools
  are meant. `Canonical` lists what a format cannot say, e.g. two rows of one key or an alignment
  that is no power of two: those the library normalises, so a second save differs. All eight files of
  the run `ForeignFiles`, damaged as they are, are `Canonical`. `WellMade` says that a bundle has what the calls
  check before they make it (counts within limits, stream names that fit, the flag of a default resource): an import makes it by those
  calls, so what another tool put there by other means may be refused. All four bundles of `Projects` are
  `WellMade`, which TLC evaluates (`MCBundlesAreWellMade`).

The argument, from the bottom:

1. `ContainerProofs`. Each operation gets an *effect* lemma: what it returns is
   either the object unchanged or the object with a named field changed in a
   named way (`AddResourceEffect`, `ReplaceResourceEffect`, ...). Everything
   above cites the effect and does not expand the operation again. `ReadableEntry` is what `GetResource` checks of an entry;
   `FinishedReadable`: a replacement that finishes is readable
   whatever the old entry was, because it clears the old count and blocks before it starts, and, in
   BND2, the imports it counts begin where the new payload ends. `HeldPart` is what a format
   can hold of a resource, and `ReplacementReadsBack`, `AddedIsHeld` and `ReplacedIsHeld` say
   that a call which succeeds is read back as exactly that.
2. `ImageProofs`. `ImageTyped`: what Save writes is a file, the string table it
   generates included. `LoadTyped`: what Load makes of *any* file is a typed
   object in which the flag accompanies the streams. The string table is where
   this needs work: a guessed stream is a minimum over a set of entries or a
   maximum over earlier rows, so the sets must be shown bounded and not empty.
3. `BundleStoreProofs`. `Inv` is inductive. Types alone are not: BNDL rows have
   no stream, so that what Save writes is a BNDL file needs the flag invariant
   (`BndlRefusesStreams`), and the flag invariant needs the types. Hence `Good`,
   their conjunction, for the object. `FailuresKeepBundle` is an action property proved
   from the same invariant: a call that fails leaves the bundle
   unless it is a stopped replacement (`StoppedReplacement`) or a Save that threw (`SaveKeepsOtherEntries`).
4. `RoundTripProofs`: save and load. `SavedRows` has the rows of a file,
   `Reloaded` the entries of a load that succeeds, `SavedReadable` and `SavedUnreadable` that a
   save keeps each readable and each unreadable (dropping blocks of size 0 drops none that holds imports),
   and `SavedRead` what is read of a saved and loaded entry. Two theorems rest on them:
   - `DebugDataComesThrough`. `StreamReadsBack`: the row of a resource that is there is read with
     its own stream wherever in the table it stands, if the format writes the stream or it is the id's first. Hence
     `NamesReadBack`, for an id all of whose rows are such. For the rest, `StreamNotRaised`: an `importEntry` row takes the
     stream of an earlier row, and v5 sorts by stream, so the stream is no higher than its own (`RowsReadBack`).
     The streams must be below the limit, which no operation but a load can break: `TidyInv`.
   - `ResavingIsStable`. A file is `Canonical` if each thing is where its format has a
     place for it; `ImageCanonical`: Save writes no other (`ResaveInv`).
     `RowsResaved` then follows a row through load and save. The alignments are where this bites: a block's is
     stored as its highest bit's exponent, and `AlignmentWritten` shows by `SamePower` that storing what was stored changes nothing.
5. `OwnFileProofs`. `AlwaysReadable` is not inductive: a load brings back what a
   file holds. `OwnInv` therefore states it of object *and* file, with
   `torn` and `savedTorn` as the exceptions of each, and the same of the default resource. `ImageWhole`
   needs `StreamNeedsFlag`: only then is a row's
   key the entry's, so the default resource is found again. The refinement
   adds (`MapInv`), for the entries that are not torn, that the imports are where the
   reader looks (`KeepsImports`), that an entry without imports has no list unless
   another stream has one (`CountsLists`), and that BNDL alignments on disk are 1 (`PlainAligned`). Each action is then a step or a stutter
   of `ResourceMap`: `AddMaps`, `ReplaceMaps`, `SaveMaps`, `LoadMaps`. `SavedReadsBack` is the core of `SaveMaps`:
   the abstract `Durable` is what a load will give.
6. `BuilderProofs`. `AddedReadsBack`: a fresh entry that takes a resource whose
   blocks fit the format reads back as that resource, imports included, in both
   formats. `BuilderInv` adds to `Inv` that an attached builder stages what
   was `meant`, which a move must keep for its target and give up for its source;
   Validate's test of `m_bundle` then does the rest. `CommittedComesBack` takes it through a file:
   the alignments Validate lets through are powers that 4 bits of exponent hold (`SmallPowers`).
7. `ProjectProofs`. `PathsDiffer`: two files of one export never have one path,
   since the platform's memory types have different names. `ExportInv` says of a running export which of its files are written
   already (`Running`, `Written`) and of the last description which files are there for it, so
   that a torn write, which is over a pending file, tears none that is written.
   `OrderExists`: the keys of a bundle can be sorted; a key's place is the number of keys before
   it, which is one to one and hence onto. Types (`ProjectInv`) need that a cut description still has rows
   of the right kind (`CutMetaTyped`) and what a directory holds under a path (`DirTyped`); `ImportRuns` says
   that a running import holds exactly the rows before the next (`HoldsRows`), of which a later row disturbs none (`RowStaysHeld`).
   `FinishedExportsComeBack` rests on all of it. `RowsOfKeys`: a description has one row for each key, so no row of an import
   meets an entry of its key. `RowComesBack`: what an import reads for a row, from files that
   `ExportInv` knows to be there, is the resource that was described, but for the imports of one without any, which
   `.imports.yaml` may supply. `MakesAgain` is the invariant: every bundle there is is `WellMade`, imports keep it so
   (`RowWellMade`), and a running import of a finished export is the described bundle so far (`Rebuilt`: its
   flags from the first step, debug data for the rows done, no default resource yet), which `RebuiltGoesOn` carries
   over a row, with `HeldRestores` for the new resource and `StaysRestored` for the others, where
   BNDL needs that no two keys share an id, and `RebuiltEnds` over the default resource. That an import fails for the
   named reasons only is `ImportCanStart`, `RowSucceeds` (the export counted its rows, and the lists in
   `.imports.yaml`, cut or not, fit: `ListsFit`) and `DefaultSucceeds`.
8. `CApiProofs`. `CTypeOK` and the resource's shape are inductive (`ApiInv`). An
   exception in a replacement leaves an object that differs in one entry and, in BNDL, perhaps
   in the list of its id (`OnlyEntry`, `ReplaceThrowsEffect`); one in an add does so twice over, for the fresh entry
   and for what is put over it (`StagedOnlyEntry`, `OnlyEntryTwice`); and objects
   that differ so give the same resources otherwise, up to the imports of that id (`OtherContentsKept`).
   What an exception leaves still has the flag its streams need (`ThrowEffect`, `FlaggedInv`), so Save takes it
   and `SavedReadable` and `SavedUnreadable` apply. For success, no handle has a
   block that was read across two payloads (`SoundInv`: `IsPlain` guards the
   calls that take one), and then `AddedIsHeld` and `ReplacedIsHeld` apply over any half-made entry.

**Only model-checked:** `EveryCallReturns`, which is liveness. Out of the
provers' reach: what folding over data computes for every input, and anything about
`ENABLED`; the model has no recursive operator.

## What is not modelled, and the plan

- Byte layout: offsets, padding, header sizes, checks of ranges against the file size. A file is the
  record of what it says; a file that is cut short is `PartialFile`, which Load rejects, or, where
  only its end is missing, one of `CutImages`.
- Sizes above 2^28-1: BND2 puts the alignment's exponent into the upper 4 bits of a size (`bnd2.cpp:299`, `308`) and masks
  the size to 28 bits when it loads (`bnd2.cpp:110`, `121`), and `base.cpp:189` casts it to 32 bits. Sizes are
  natural numbers here and come back as they are, so every property is about blocks
  below 2^28 bytes.
- The row too many that BNDL may count is read as an entry without blocks
  (`StrayEntries`), though its bytes may make blocks of it.
- XML and YAML text, zlib, import hashes and offsets inside blocks, the names of resource types.
- `GetResourceIDs` and other enumerations, which change no state. With them the order of keys.
- Two `Bundle` objects at once: a moved-to bundle is out of sight.
- Project directories: files edited by hand, and the checks of every scalar
  ImportProject makes for them; files that are there but cannot be read; resources
  whose imports sit at an offset of their own (`ReadsWhole` excludes them), and
  the offsets and kinds of imports.
- C API: the handles for buffers, imports and debug data, which are values here;
  ids made of names; copying strings into the caller's buffers; plain getters. Small fixed allocations succeed.
- `bndl_util` and `bndl_validationtest`: a command line around the facade, without state between calls.

Next, in this order:

1. `Layout`: offsets, sizes and alignment of rows and blocks in the two
   formats, 32-bit and 64-bit widths, as pure operators against a reference definition.
2. `ImportProject` on directories written by hand: the rows and scalars it refuses.
3. Proofs about these two: that no two blocks of a layout overlap, and that an import of a directory
   written by hand fails or is whole.
