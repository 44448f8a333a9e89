------------------------------ MODULE ProjectDir ------------------------------
(***************************************************************************)
(* Project directories: ExportProject writes a bundle as separate files,   *)
(* one after the other, and ImportProject builds a bundle from what it     *)
(* finds there.  A write may fail and the process may die between any two  *)
(* files or inside one; exports go over what earlier ones left, and        *)
(* nothing is ever deleted.                                                *)
(*                                                                         *)
(* The bundle is a value of Container: what an application does to it      *)
(* between the calls is a choice among Bundles.                            *)
(***************************************************************************)
EXTENDS Container, SequencesExt

CONSTANTS
    Bundles,        \* the bundles the application exports
    Options,        \* the ProjectExportOptions in use
    TypeNumber,     \* a resource type as a number
    FolderName,     \* what SanitisePathComponent makes of a type name
    NoName,         \* a resource without debug data
    CutPayload,     \* the payloads that one cut short may become
    CloseMayFail,   \* whether the last bytes of a file may be lost at close
    NoImpl,         \* m_impl of an empty bundle
    NoFile,         \* no such file
    Unreadable,     \* one that yaml-cpp or the project's parser rejects
    Idle,           \* no call of its kind is running
    ExportLimit     \* bound: the exports of a behaviour

VARIABLES
    bundle,     \* m_impl
    lastError,  \* m_lastErrorCode
    files,      \* the block and import list files of the directory, by path
    meta,       \* .meta.yaml
    combined,   \* .imports.yaml
    exporting,  \* the ExportProject call that is running
    importing,  \* the ImportProject call that is running
    exports,    \* exports begun so far
    described,  \* history: the bundle that .meta.yaml describes
    progress    \* history: how far the last export that began has come

dir == <<files, meta, combined>>
ghosts == <<exports, described, progress>>
projectVars == <<bundle, lastError, dir, exporting, importing, ghosts>>

\* No import offset that splits a block elsewhere than where its payload ends,
\* and no imports that nothing counts: a file of another tool might have both.
ReadsWhole(impl) ==
    \A k \in DOMAIN impl.entries : CanReadResource(impl, k) =>
        LET r == ReadResource(impl, k)
        IN  /\ r.imports \in Seq(ResourceIDs)
            /\ \A s \in DOMAIN r.blocks :
                    /\ r.blocks[s] \in Block
                    /\ r.blocks[s].payload # Garbled /\ r.blocks[s].trailer = <<>>

ASSUME ProjectAssumption ==
    /\ \A impl \in Bundles : IsImpl(impl) /\ ReadsWhole(impl)
    /\ NoImpl \notin Bundles
    /\ Options \subseteq [sortByType : BOOLEAN, combineImports : BOOLEAN]
    /\ TypeNumber \in [Types -> Nat]
    /\ DOMAIN FolderName = DebugNames /\ NoName \notin DebugNames
    /\ CutPayload \in [Payloads -> SUBSET (Payloads \ {Garbled})]
    /\ CloseMayFail \in BOOLEAN
    /\ ExportLimit \in Nat

-----------------------------------------------------------------------------
(* What an export writes *)

MemoryTypeName(fmt, s) ==
    CASE s = MainMemory -> "mainMemory"
      [] s = Graphics   -> CASE fmt.platform = "Xbox360" -> "physical"
                             [] fmt.platform = "WiiU"    -> "mem1"
                             [] OTHER                    -> "graphicsSystem"
      [] s = Graphics2  -> IF fmt.platform = "WiiU" THEN "graphicsMem2" ELSE "graphicsLocal"
      [] s = Disposable -> "disposable"

\* The stem is the id and the stream; the folder is that of the type and the
\* debug data's type name.
Folder(impl, opt, k) ==
    IF ~opt.sortByType THEN <<>>
    ELSE <<impl.entries[k].type,
           IF k \in DOMAIN impl.debug THEN FolderName[impl.debug[k]] ELSE "">>

BlockPath(fmt, folder, k, s) == <<folder, k, MemoryTypeName(fmt, s)>>
ListPath(folder, k)          == <<folder, k, "imports">>

\* DescribeResources sorts by type, id and stream.
KeyBefore(impl, a, b) ==
    LET n(k) == TypeNumber[impl.entries[k].type]
    IN  \/ n(a) < n(b)
        \/ n(a) = n(b) /\ (a[1] < b[1] \/ (a[1] = b[1] /\ a[2] < b[2]))

InOrder(impl, keys) ==
    CHOOSE seq \in SetToSeqs(keys) :
        \A i, j \in DOMAIN seq : i < j => KeyBefore(impl, seq[i], seq[j])

SortedKeys(impl) == InOrder(impl, DOMAIN impl.entries)

HasList(impl, opt, k) == ~opt.combineImports /\ ReadImports(impl, k) # <<>>

RowOf(impl, opt, k) ==
    LET r == ReadResource(impl, k)
    IN  [key |-> k, type |-> r.type, folder |-> Folder(impl, opt, k),
         name |-> IF k \in DOMAIN impl.debug THEN impl.debug[k] ELSE NoName,
         aligns |-> [s \in DOMAIN r.blocks |-> r.blocks[s].align],
         list |-> HasList(impl, opt, k)]

MetaOf(impl, opt) ==
    [fmt |-> impl.fmt, flags |-> impl.flags, default |-> impl.default, names |-> impl.names,
     rows |-> [i \in DOMAIN SortedKeys(impl) |-> RowOf(impl, opt, SortedKeys(impl)[i])]]

CombinedOf(impl) ==
    LET keys == InOrder(impl, {k \in DOMAIN impl.entries : ReadImports(impl, k) # <<>>})
    IN  [i \in DOMAIN keys |-> [key |-> keys[i], list |-> ReadImports(impl, keys[i])]]

\* The files besides the two above: what each one is to hold.
BlocksToWrite(impl, opt) ==
    UNION {{[path |-> BlockPath(impl.fmt, Folder(impl, opt, k), k, s),
             holds |-> ReadBlock(impl, k, s).payload, key |-> k, rank |-> s] :
                 s \in DOMAIN ReadResource(impl, k).blocks} : k \in DOMAIN impl.entries}

ListsToWrite(impl, opt) ==
    {[path |-> ListPath(Folder(impl, opt, k), k), holds |-> ReadImports(impl, k),
      key |-> k, rank |-> Cardinality(Slots)] :
         k \in {q \in DOMAIN impl.entries : HasList(impl, opt, q)}}

FilesToWrite(impl, opt) == BlocksToWrite(impl, opt) \cup ListsToWrite(impl, opt)

WritesCombined(impl, opt) == opt.combineImports /\ CombinedOf(impl) # <<>>

-----------------------------------------------------------------------------
(* What is left of a file whose writing is cut short, the whole of it         *)
(* included.  Offsets and kinds of imports are not modelled.                  *)

CutBlock(payload) == {payload} \cup CutPayload[payload]

\* An empty file is not a list.
CutList(list) == {Unreadable} \cup {SubSeq(list, 1, n) : n \in 1 .. Len(list)}

\* The last row may lack blocks and its import list, and an alignment digits.
RowUpTo(row, last, a) ==
    [row EXCEPT !.list = FALSE,
                !.aligns = [s \in {t \in DOMAIN @ : t <= last} |-> IF s = last THEN a ELSE @[s]]]

CutRow(row) == {RowUpTo(row, last, a) : last \in DOMAIN row.aligns \cup {-1}, a \in Alignments}

CutMeta(m) ==
    {m, Unreadable} \cup
    UNION {{[m EXCEPT !.rows = Append(SubSeq(@, 1, n - 1), row)] :
                row \in CutRow(m.rows[n]) \cup {m.rows[n]}} : n \in DOMAIN m.rows}

\* A row cut inside its id or before its stream reads as an empty list of
\* stream 0, of whatever id the digits give.
CutCombined(c) ==
    {c, Unreadable, <<>>} \cup
    UNION {{Append(SubSeq(c, 1, n - 1), [key |-> <<id, 0>>, list |-> <<>>]) : id \in ResourceIDs}
           \cup {Append(SubSeq(c, 1, n - 1), [c[n] EXCEPT !.list = SubSeq(@, 1, m)]) :
                     m \in 0 .. Len(c[n].list)} : n \in DOMAIN c}

-----------------------------------------------------------------------------
(* Export *)

Quiet == exporting = Idle /\ importing = Idle

\* A new Bundle object, or the same one after other calls.
UseBundle(impl) ==
    /\ Quiet
    /\ bundle' = impl /\ lastError' = "Success"
    /\ UNCHANGED <<dir, exporting, importing, ghosts>>

ExportRejected ==
    /\ Quiet
    /\ \/ bundle = NoImpl /\ lastError' = "InvalidState"
       \/ bundle # NoImpl /\ lastError' = "IoError"     \* no directory
       \/ /\ bundle # NoImpl /\ \E k \in DOMAIN bundle.entries : ~CanReadResource(bundle, k)
          /\ lastError' = "DecompressionFailed"
    /\ UNCHANGED <<bundle, dir, exporting, importing, ghosts>>

\* A mutant: the directory is emptied first.
StartExportCleaning(opt) ==
    /\ Quiet /\ exports < ExportLimit
    /\ bundle # NoImpl /\ \A k \in DOMAIN bundle.entries : CanReadResource(bundle, k)
    /\ exporting' = [pending  |-> FilesToWrite(bundle, opt),
                     meta     |-> MetaOf(bundle, opt),
                     combined |-> IF WritesCombined(bundle, opt) THEN CombinedOf(bundle)
                                  ELSE NoFile]
    /\ lastError' = "Success" /\ files' = NoEntries
    /\ progress' = "begun" /\ exports' = exports + 1
    /\ UNCHANGED <<bundle, meta, combined, importing, described>>

StartExport(opt) ==
    /\ Quiet /\ exports < ExportLimit
    /\ bundle # NoImpl /\ \A k \in DOMAIN bundle.entries : CanReadResource(bundle, k)
    /\ exporting' = [pending  |-> FilesToWrite(bundle, opt),
                     meta     |-> MetaOf(bundle, opt),
                     combined |-> IF WritesCombined(bundle, opt) THEN CombinedOf(bundle)
                                  ELSE NoFile]
    /\ lastError' = "Success"
    /\ progress' = "begun" /\ exports' = exports + 1
    /\ UNCHANGED <<bundle, dir, importing, described>>

\* f is the loop's next file: resources in order, their memory types in order, then
\* the import list.
IsNext(f) ==
    /\ f \in exporting.pending
    /\ \A g \in exporting.pending \ {f} :
            \/ KeyBefore(bundle, f.key, g.key)
            \/ f.key = g.key /\ f.rank < g.rank

CutFile(f) == IF f.rank \in Slots THEN CutBlock(f.holds) ELSE CutList(f.holds)

\* ofstream::write succeeds as long as its buffer takes the bytes; what close
\* then does with them nobody asks.
Arrives(whole, cut) == IF CloseMayFail THEN cut \cup {whole} ELSE {whole}

\* A mutant: what WriteBinaryFile returns is not looked at.
WriteFileUnchecked ==
    /\ exporting # Idle
    /\ \E f \in exporting.pending :
        /\ IsNext(f)
        /\ files' \in {files} \cup {Put(files, f.path, content) : content \in CutFile(f)}
        /\ exporting' = [exporting EXCEPT !.pending = @ \ {f}]
    /\ UNCHANGED <<bundle, lastError, meta, combined, importing, ghosts>>

WriteFile ==
    /\ exporting # Idle
    /\ \E f \in exporting.pending : \E content \in Arrives(f.holds, CutFile(f)) :
        /\ IsNext(f)
        /\ files' = Put(files, f.path, content)
        /\ exporting' = [exporting EXCEPT !.pending = @ \ {f}]
    /\ UNCHANGED <<bundle, lastError, meta, combined, importing, ghosts>>

ExportReturns(code) ==
    /\ exporting' = Idle
    /\ lastError' = code
    /\ UNCHANGED <<bundle, importing, exports>>

WriteMeta ==
    /\ exporting # Idle /\ exporting.pending = {} /\ exporting.meta # NoFile
    /\ meta' \in Arrives(exporting.meta, CutMeta(exporting.meta))
    /\ described' = bundle
    /\ IF exporting.combined # NoFile
       THEN /\ exporting' = [exporting EXCEPT !.meta = NoFile]
            /\ progress' = "described"
            /\ UNCHANGED <<bundle, lastError, importing, exports>>
       ELSE ExportReturns("Success") /\ progress' = "finished"
    /\ UNCHANGED <<files, combined>>

WriteCombined ==
    /\ exporting # Idle /\ exporting.meta = NoFile
    /\ combined' \in Arrives(exporting.combined, CutCombined(exporting.combined))
    /\ ExportReturns("Success") /\ progress' = "finished"
    /\ UNCHANGED <<files, meta, described>>

\* The file that was being written when the export stopped: as it was before,
\* or cut somewhere.
TornWrite ==
    \/ UNCHANGED <<dir, described, progress>>
    \/ /\ \E f \in exporting.pending : \E content \in CutFile(f) :
            IsNext(f) /\ files' = Put(files, f.path, content)
       /\ UNCHANGED <<meta, combined, described, progress>>
    \/ /\ exporting.pending = {} /\ exporting.meta # NoFile
       /\ meta' \in CutMeta(exporting.meta)
       /\ described' = IF meta' = exporting.meta THEN bundle ELSE NoImpl
       /\ progress' = IF meta' = exporting.meta THEN "described" ELSE progress
       /\ UNCHANGED <<files, combined>>
    \/ /\ exporting.meta = NoFile
       /\ combined' \in CutCombined(exporting.combined)
       /\ UNCHANGED <<files, meta, described, progress>>

\* A mutant: a write that fails is tried again.
ExportRetries ==
    /\ exporting # Idle
    /\ TornWrite
    /\ lastError' = "IoError"
    /\ UNCHANGED <<bundle, exporting, importing, exports>>

ExportFails ==
    /\ exporting # Idle
    /\ TornWrite
    /\ ExportReturns("IoError")

\* The process ends during an export; what it had in memory is gone.
Die ==
    /\ exporting # Idle
    /\ TornWrite
    /\ exporting' = Idle /\ bundle' = NoImpl /\ lastError' = "Success"
    /\ UNCHANGED <<importing, exports>>

-----------------------------------------------------------------------------
(* Import *)

NewFromMeta == [NewImpl(meta.fmt, meta.flags) EXCEPT !.names = meta.names]

NamesFit(m) ==
    \A i \in DOMAIN m.names :
        m.names[i] # "" => SetStreamName(NewImpl(m.fmt, m.flags), i, m.names[i]).ok

CanStartImport == meta \notin {NoFile, Unreadable} /\ combined # Unreadable /\ NamesFit(meta)

\* A mutant: the loop over the rows begins one too early.
StartImportAtZero ==
    /\ Quiet /\ CanStartImport
    /\ importing' = [impl |-> NewFromMeta, next |-> 0]
    /\ UNCHANGED <<bundle, lastError, dir, exporting, ghosts>>

StartImport ==
    /\ Quiet /\ CanStartImport
    /\ importing' = [impl |-> NewFromMeta, next |-> 1]
    /\ UNCHANGED <<bundle, lastError, dir, exporting, ghosts>>

CurrentRow == meta.rows[importing.next]
RowsLeft == importing # Idle /\ importing.next \in DOMAIN meta.rows

\* Only memory types of the bundle's format are looked for.
BlockSlots(row) == DOMAIN row.aligns \cap MemoryTypes(meta.fmt)
PathOf(row, s) == BlockPath(meta.fmt, row.folder, row.key, s)

HasFiles(row) ==
    /\ \A s \in BlockSlots(row) : PathOf(row, s) \in DOMAIN files
    /\ row.list => /\ ListPath(row.folder, row.key) \in DOMAIN files
                   /\ files[ListPath(row.folder, row.key)] # Unreadable

\* A later row for the same key replaces an earlier one. The file is read
\* whether or not the export that wrote .meta.yaml wrote it.
CombinedList(k) ==
    LET rows == IF combined = NoFile THEN {} ELSE {i \in DOMAIN combined : combined[i].key = k}
    IN  IF rows = {} THEN <<>> ELSE combined[Max(rows)].list

\* A mutant: .imports.yaml is not read.
ImportsForFilesOnly(row) ==
    IF row.list THEN files[ListPath(row.folder, row.key)] ELSE <<>>

ImportsFor(row) ==
    IF row.list THEN files[ListPath(row.folder, row.key)] ELSE CombinedList(row.key)

ResourceFrom(row) ==
    [type |-> row.type, imports |-> ImportsFor(row),
     blocks |-> [s \in BlockSlots(row) |->
                    [payload |-> files[PathOf(row, s)], trailer |-> <<>>, align |-> row.aligns[s]]]]

AddResults(row, r) ==
    {AddResource(importing.impl, row.key, r, stop) : stop \in StopSlots(importing.impl, r)}

\* The resource, then its debug data, into the new bundle. (The singleton makes
\* TLC read the files once.)
RowResults(row) ==
    {IF added.ok /\ row.name # NoName THEN AddResourceDebugData(added.impl, row.key, row.name)
     ELSE added : added \in UNION {AddResults(row, r) : r \in {ResourceFrom(row)}}}

\* A mutant: a row whose files cannot be read is left out.
ImportResourceLenient ==
    /\ RowsLeft
    /\ \E result \in IF HasFiles(CurrentRow) THEN RowResults(CurrentRow)
                      ELSE {[impl |-> importing.impl, ok |-> TRUE]} :
            /\ result.ok
            /\ importing' = [impl |-> result.impl, next |-> importing.next + 1]
    /\ UNCHANGED <<bundle, lastError, dir, exporting, ghosts>>

ImportResource ==
    /\ RowsLeft /\ HasFiles(CurrentRow)
    /\ \E result \in RowResults(CurrentRow) :
            /\ result.ok
            /\ importing' = [impl |-> result.impl, next |-> importing.next + 1]
    /\ UNCHANGED <<bundle, lastError, dir, exporting, ghosts>>

WithDefault(impl) ==
    IF meta.default = NoDefault THEN [impl |-> impl, ok |-> TRUE]
    ELSE SetDefaultResource(impl, meta.default)

\* The new bundle replaces the old one only now.
FinishImport ==
    /\ importing # Idle /\ ~RowsLeft /\ WithDefault(importing.impl).ok
    /\ bundle' = WithDefault(importing.impl).impl
    /\ lastError' = "Success"
    /\ importing' = Idle
    /\ UNCHANGED <<dir, exporting, ghosts>>

ImportFails ==
    /\ \/ Quiet /\ ~CanStartImport
       \/ RowsLeft /\ ~HasFiles(CurrentRow)
       \/ RowsLeft /\ HasFiles(CurrentRow) /\ \E result \in RowResults(CurrentRow) : ~result.ok
       \/ importing # Idle /\ ~RowsLeft /\ ~WithDefault(importing.impl).ok
    /\ lastError' = "InvalidProject"
    /\ importing' = Idle
    /\ UNCHANGED <<bundle, dir, exporting, ghosts>>

-----------------------------------------------------------------------------

ProjectInit ==
    /\ bundle \in Bundles \cup {NoImpl} /\ lastError = "Success"
    /\ files = NoEntries /\ meta = NoFile /\ combined = NoFile
    /\ exporting = Idle /\ importing = Idle
    /\ exports = 0 /\ described = NoImpl /\ progress = "none"

\* The steps of a call that has begun.
CallStep ==
    WriteFile \/ WriteMeta \/ WriteCombined \/ ExportFails \/ ImportResource \/ FinishImport
        \/ (importing # Idle /\ ImportFails)

ProjectNext ==
    \/ \E impl \in Bundles \cup {NoImpl} : UseBundle(impl)
    \/ ExportRejected \/ \E opt \in Options : StartExport(opt)
    \/ CallStep \/ Die
    \/ StartImport \/ (Quiet /\ ImportFails)

\* A call that has begun goes on: it waits for nothing.
ProjectSpec ==
    /\ ProjectInit /\ [][ProjectNext]_projectVars
    /\ WF_projectVars(CallStep)
=============================================================================
