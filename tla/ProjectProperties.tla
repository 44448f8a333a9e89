--------------------------- MODULE ProjectProperties ---------------------------
(***************************************************************************)
(* What a project directory promises, whatever exports stopped over it.    *)
(***************************************************************************)
EXTENDS ProjectDir

ProjectErrors == {"Success", "InvalidState", "IoError", "DecompressionFailed", "InvalidProject"}

IsRow(row) ==
    /\ row \in [key : Key, type : Types, folder : {row.folder}, name : DebugNames \cup {NoName},
                aligns : {row.aligns}, list : BOOLEAN]
    /\ IsMap(row.aligns, Slots, Alignments)

IsMeta(m) ==
    /\ m \in [fmt : Format, flags : SUBSET FlagNames, default : DefaultKey,
              names : StreamTable, rows : Seq({m.rows[i] : i \in DOMAIN m.rows})]
    /\ \A i \in DOMAIN m.rows : IsRow(m.rows[i])

IsCombined(c) == c \in Seq([key : Key, list : Seq(ResourceIDs)])

IsExport(e) ==
    /\ e = [pending |-> e.pending, meta |-> e.meta, combined |-> e.combined]
    /\ \E opt \in Options : e.pending \subseteq FilesToWrite(bundle, opt)
    /\ e.meta = NoFile \/ IsMeta(e.meta)
    /\ e.combined = NoFile \/ IsCombined(e.combined)

\* The types of the variables: block files hold a payload, list files import
\* lists.
ProjectTypeOK ==
    /\ bundle = NoImpl \/ IsImpl(bundle)
    /\ lastError \in ProjectErrors
    /\ meta \in {NoFile, Unreadable} \/ IsMeta(meta)
    /\ combined \in {NoFile, Unreadable} \/ IsCombined(combined)
    /\ \A path \in DOMAIN files :
            files[path] \in IF path[3] = "imports" THEN Seq(ResourceIDs) \cup {Unreadable}
                            ELSE Payloads
    /\ exporting # Idle => bundle # NoImpl /\ IsExport(exporting)
    /\ importing # Idle => IsImpl(importing.impl) /\ importing.next \in 1 .. Len(meta.rows) + 1
    /\ exports \in 0 .. ExportLimit
    /\ described = NoImpl \/ IsImpl(described)
    /\ progress \in {"none", "begun", "described", "finished"}

Describes(opt) == meta = MetaOf(described, opt)

HoldsFiles(opt) ==
    \A f \in FilesToWrite(described, opt) : f.path \in DOMAIN files /\ files[f.path] = f.holds

\* .meta.yaml comes last but for the combined imports: once the export that
\* began last has written it, every file it names is there with the content it
\* describes, older exports, failed writes and crashes notwithstanding
\* (project.cpp:578-651).
MetaVouches ==
    progress \in {"described", "finished"} =>
        \E opt \in Options :
            /\ Describes(opt) /\ HoldsFiles(opt)
            /\ progress = "finished" /\ WritesCombined(described, opt)
               => combined = CombinedOf(described)

\* "Exporting only the readable resources would hand the caller an incomplete
\* project with no error" (project.cpp:573): an export that reports success has
\* written everything.
NoIncompleteProject ==
    progress = "finished" => \E opt \in Options : Describes(opt) /\ HoldsFiles(opt)

\* An export that stops before .meta.yaml, over an older project, leaves that
\* project's description and every file it names: the keys, types, alignments
\* and names of an import are still the old ones, if not the bytes
\* (project.cpp:526-610).
OldProjectStays ==
    progress = "begun" /\ described # NoImpl =>
        \E opt \in Options :
            /\ Describes(opt)
            /\ \A f \in FilesToWrite(described, opt) : f.path \in DOMAIN files

\* BNDL streams of one id share their imports, in the order of importing.
SharesLists(impl) == ~IsBnd2(impl.fmt) /\ \E k \in DOMAIN impl.entries : k[2] # 0

\* .imports.yaml may be of an older export: resources without imports get those.
RestoredResource(got, was, k) ==
    LET new == ReadResource(got, k)
        old == ReadResource(was, k)
    IN  /\ new = [old EXCEPT !.imports = new.imports]
        /\ new.imports \in {old.imports} \cup (IF old.imports = <<>> THEN {CombinedList(k)} ELSE {})

Restored(got, was) ==
    /\ got = [was EXCEPT !.entries = got.entries, !.imports = got.imports,
                         !.debug = [k \in DOMAIN @ \cap DOMAIN was.entries |-> @[k]]]
    /\ DOMAIN got.entries = DOMAIN was.entries
    /\ \A k \in DOMAIN was.entries : CanReadResource(got, k) /\ RestoredResource(got, was, k)

HoldsDefault(impl) == impl.default = NoDefault \/ impl.default \in DOMAIN impl.entries

\* An import list that fits its uint16_t count.
Bounded(list) == Len(list) <= ImportLimit

\* What AddResource, SetDefaultResource and SetStreamName would take again, as they
\* would all that they make. A file of another tool may hold what they would not: a
\* default resource without its flag.
WellMade(impl) ==
    /\ Cardinality(DOMAIN impl.entries) <= EntryLimit
    /\ \A k \in DOMAIN impl.entries :
            /\ k[2] < StreamLimit /\ (k[2] # 0 => "MultistreamBundle" \in impl.flags)
            /\ CanReadResource(impl, k) => Bounded(ReadImports(impl, k))
    /\ \A id \in DOMAIN impl.imports : Bounded(impl.imports[id])
    /\ impl.default # NoDefault =>
            HasStreamMetadata(impl.fmt) /\ "ContainsDefaultResource" \in impl.flags
    /\ \A i \in DOMAIN impl.names :
            impl.names[i] # "" => HasStreamMetadata(impl.fmt) /\ impl.names[i] \notin LongNames

\* What a finished export wrote comes back: identity, flags, default resource,
\* stream names, resources with their alignments, imports and debug data. The
\* import fails only where memory runs out, the default resource is not there or
\* a broken .imports.yaml is left from an older export (project.cpp:657-808).
FinishedExportComesBack ==
    [][ progress = "finished" /\ ~SharesLists(described) =>
            /\ FinishImport => Restored(bundle', described)
            /\ ImportFails => \/ combined = Unreadable \/ ~HoldsDefault(described)
                              \/ IsCompressed(described) ]_projectVars

\* An import never gives less than .meta.yaml names: each row a resource, each
\* of its blocks the file's bytes at the row's alignment, from a directory left
\* by any mixture of exports (project.cpp:700-789).
ImportIsWhole ==
    [][ FinishImport =>
            /\ DOMAIN bundle'.entries = {meta.rows[i].key : i \in DOMAIN meta.rows}
            /\ \A i \in DOMAIN meta.rows : \A s \in BlockSlots(meta.rows[i]) :
                LET row == meta.rows[i]
                IN  /\ CanReadResource(bundle', row.key)
                    /\ s \in DOMAIN bundle'.entries[row.key].blocks
                    /\ PathOf(row, s) \in DOMAIN files
                    /\ ReadBlock(bundle', row.key, s) =
                            [payload |-> files[PathOf(row, s)], trailer |-> <<>>,
                             align |-> row.aligns[s]] ]_projectVars

\* Every export and every import that begins comes to an end, however many
\* writes fail: no loop waits or repeats (project.cpp:578-640, 700-789).
EveryCallReturns == (exporting # Idle \/ importing # Idle) ~> Quiet
=============================================================================
