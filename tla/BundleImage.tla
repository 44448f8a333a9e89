------------------------------ MODULE BundleImage ------------------------------
(***************************************************************************)
(* What a saved bundle file says and what loading it gives: Save and Load  *)
(* of Bnd2 and Bndl, without the byte layout.  A file is a record of the   *)
(* header fields, a row for each resource, BNDL's separate import lists    *)
(* and the string table.                                                   *)
(***************************************************************************)
EXTENDS DebugTable

CONSTANTS
    StringTableID,          \* BNDL's id for the string table, 0xC039284A
    TextFile                \* ResourceType::Burnout::TextFile

StringTableKey == <<StringTableID, 0>>

\* BND2 stores an alignment as the exponent of its highest bit, in 4 bits.
AlignmentExponent(a) == IF a = 0 THEN 0 ELSE CHOOSE e \in 0..30 : a \div 2^e = 1
OnDiskAlignment(a) == 2^(AlignmentExponent(a) % 16)

\* overcount: the header counts a row more than there are.
IsImage(img) ==
    /\ img \in [fmt : Format, flags : SUBSET FlagNames, rows : {img.rows},
                imports : {img.imports}, default : DefaultKey, names : StreamTable,
                table : Seq(Row), hasTable : BOOLEAN, overcount : BOOLEAN]
    /\ \A row \in img.rows : /\ row \in [key : Key, entry : {row.entry}]
                             /\ IsEntry(row.entry)
                             /\ IsBnd2(img.fmt) \/ row.key[2] = 0
    /\ IsImportLists(img.imports)
    /\ \A id \in DOMAIN img.imports : img.imports[id] # <<>>

ASSUME ImageAssumption ==
    /\ StringTableID \in ResourceIDs
    /\ TextFile \in Types
    /\ \A a \in Alignments : OnDiskAlignment(a) \in Alignments
    /\ 4 \in Alignments

\* An alignment is below 2^31: one of its lowest 31 bits is the highest one set.
ASSUME AlignmentAssumption ==
    \A a \in Alignments : a \in Nat /\ (a = 0 \/ \E e \in 0..30 : a \div 2^e = 1)

-----------------------------------------------------------------------------
(* Save *)

\* A block of size 0 leaves no trace; compressing one gives it a size.
\* A mutant: the uncompressed size decides, compressed or not.
HasUncompressedSize(impl, block) == block.payload # Empty \/ block.trailer # <<>>

HasSize(impl, block) == IsCompressed(impl) \/ block.payload # Empty \/ block.trailer # <<>>

SavedSlots(impl, e) ==
    {s \in StoredSlots(impl.fmt) \cap DOMAIN e.blocks : HasSize(impl, e.blocks[s])}

\* An uncompressed BNDL file has one alignment for each block, the on-disk one;
\* a compressed one gives a block of no uncompressed size the alignment 1.
SavedAlignment(impl, e, s) ==
    IF IsBnd2(impl.fmt) THEN OnDiskAlignment(e.blocks[s].align)
    ELSE IF ~IsCompressed(impl) THEN e.diskAligns[s]
    ELSE IF e.blocks[s].payload = Empty THEN 1
    ELSE e.blocks[s].align

SavedDiskAlignment(impl, e, s) ==
    IF IsBnd2(impl.fmt) THEN OnDiskAlignment(e.diskAligns[s])
    ELSE IF s \in SavedSlots(impl, e) THEN e.diskAligns[s] ELSE 1

\* BNDL has no import count in a row: it is the length of the id's list.
SavedEntry(impl, e) ==
    [type         |-> e.type,
     blocks       |-> [s \in SavedSlots(impl, e) |->
                          [e.blocks[s] EXCEPT !.align = SavedAlignment(impl, e, s)]],
     importCount  |-> IF IsBnd2(impl.fmt) THEN e.importCount ELSE 0,
     importOffset |-> IF IsBnd2(impl.fmt) THEN e.importOffset ELSE 0,
     diskAligns   |-> [s \in Slots |-> SavedDiskAlignment(impl, e, s)]]

\* The stream is written only if the bundle is flagged as multistream.
\* A mutant: the flag is not looked at.
SavedKeyInStreamZero(impl, k) == <<k[1], 0>>

SavedKey(impl, k) ==
    <<k[1], IF "MultistreamBundle" \in impl.flags THEN k[2] ELSE 0>>

WritesTable(impl) ==
    IF IsBnd2(impl.fmt) THEN "HasDebugData" \in impl.flags
    ELSE impl.debug # NoEntries /\ ~IsCompressed(impl)

\* BNDL stores the string table as one more resource, which Save puts into
\* the bundle while it writes and takes out again at the end.
BorrowedEntry(blocks) ==
    [type |-> TextFile, importCount |-> 0, importOffset |-> 0,
     diskAligns |-> [s \in Slots |-> IF s \in DOMAIN blocks THEN 4 ELSE 0],
     blocks |-> blocks]

TableBlocks ==
    [s \in {MainMemory} |-> [payload |-> TableText, trailer |-> <<>>, align |-> 4]]

WithBorrowed(impl, blocks) ==
    [impl EXCEPT !.entries = Put(@, StringTableKey, BorrowedEntry(blocks))]

WithStringTable(impl) == WithBorrowed(impl, TableBlocks)

WithoutStringTable(impl) == [impl EXCEPT !.entries = Drop(@, StringTableKey)]

BorrowsStringTableKey(impl) == ~IsBnd2(impl.fmt) /\ WritesTable(impl)

AfterSave(impl) == IF BorrowsStringTableKey(impl) THEN WithoutStringTable(impl) ELSE impl

\* The ids in the file, the string table's included.
SavedIDs(impl) ==
    {k[1] : k \in DOMAIN impl.entries} \cup
        (IF BorrowsStringTableKey(impl) THEN {StringTableID} ELSE {})

\* A list without imports is not written: the row then points at none.
SavedImports(impl) ==
    [id \in {i \in DOMAIN impl.imports \cap SavedIDs(impl) : impl.imports[i] # <<>>} |->
        impl.imports[id]]

\* A mutant: the rows are counted when the string table is already among them.
ImageCountedLate(impl, table) ==
    LET written == AfterSave(impl).entries
    IN  [fmt |-> impl.fmt, flags |-> impl.flags \cap {"Compressed"},
         rows |-> {[key |-> SavedKey(impl, k), entry |-> SavedEntry(impl, written[k])] :
                       k \in DOMAIN written},
         imports |-> SavedImports(impl),
         default |-> NoDefault, names |-> impl.names, table |-> table,
         hasTable |-> WritesTable(impl), overcount |-> BorrowsStringTableKey(impl)]

ImageWith(impl, table) ==
    LET written == AfterSave(impl).entries
    IN  [fmt       |-> impl.fmt,
         flags     |-> IF IsBnd2(impl.fmt) THEN impl.flags ELSE impl.flags \cap {"Compressed"},
         rows      |-> {[key |-> SavedKey(impl, k), entry |-> SavedEntry(impl, written[k])] :
                            k \in DOMAIN written},
         imports   |-> SavedImports(impl),
         default   |-> IF HasStreamMetadata(impl.fmt) THEN impl.default ELSE NoDefault,
         names     |-> impl.names,
         table     |-> table,
         hasTable  |-> WritesTable(impl),
         overcount |-> BorrowsStringTableKey(impl) /\ StringTableKey \in DOMAIN impl.entries]

\* Every file Save may write for this bundle.
Images(impl) ==
    {ImageWith(impl, table) : table \in IF WritesTable(impl) THEN Tables(impl) ELSE {<<>>}}

\* Files that Load still takes although their end was not written: the padding, or
\* a part of BND2's string table, which is last from version 3 on and of which
\* the XML parser makes nothing.
CutImages(impl) ==
    Images(impl) \cup
        (IF IsBnd2(impl.fmt) /\ impl.fmt.version >= 3 THEN {ImageWith(impl, <<>>)} ELSE {})

\* What the end of a BND2 file is aligned to, from version 3 on: the alignment of
\* the block that comes last in the order of the rows, 0 if no block was walked.
EndAlignments(impl) ==
    IF impl.entries = NoEntries THEN {0}
    ELSE {impl.entries[k].diskAligns[s] : k \in DOMAIN impl.entries, s \in StoredSlots(impl.fmt)}

-----------------------------------------------------------------------------
(* Load *)

LoadFailure(code) == [code |-> code]
LoadSuccess(impl) == [code |-> "Success", impl |-> impl]

RowEntries(img) ==
    [k \in {row.key : row \in img.rows} |-> (CHOOSE row \in img.rows : row.key = k).entry]

\* Mutants of LoadedBnd2: the default resource's stream, an int32_t, is read as
\* the uint8_t of a key; the flags of every version are converted as those of v5;
\* the stream names are skipped.
LoadedBnd2WithByteDefault(img) ==
    LET entries == RowEntries(img)
    IN  [fmt |-> img.fmt, flags |-> img.flags, entries |-> entries, imports |-> NoEntries,
         debug |-> IF "HasDebugData" \in img.flags THEN ParseTable(img.table, entries)
                   ELSE NoEntries,
         default |-> <<img.default[1], img.default[2] % 256>>, names |-> img.names]

LoadedBnd2WithV5Flags(img) ==
    LET entries == RowEntries(img)
    IN  [fmt |-> img.fmt, entries |-> entries, imports |-> NoEntries,
         flags |-> img.flags \ {"MainMemOptimised", "GraphicsMemOptimised"},
         debug |-> IF "HasDebugData" \in img.flags THEN ParseTable(img.table, entries)
                   ELSE NoEntries,
         default |-> img.default, names |-> img.names]

LoadedBnd2WithoutNames(img) ==
    LET entries == RowEntries(img)
    IN  [fmt |-> img.fmt, flags |-> img.flags, entries |-> entries, imports |-> NoEntries,
         debug |-> IF "HasDebugData" \in img.flags THEN ParseTable(img.table, entries)
                   ELSE NoEntries,
         default |-> img.default, names |-> [i \in 0 .. StreamLimit - 1 |-> ""]]

LoadedBnd2(img) ==
    LET fmt == img.fmt
        entries == RowEntries(img)
    IN  [fmt     |-> fmt,
         flags   |-> img.flags,
         entries |-> entries,
         imports |-> NoEntries,
         debug   |-> IF "HasDebugData" \in img.flags THEN ParseTable(img.table, entries)
                     ELSE NoEntries,
         default |-> img.default,
         names   |-> img.names]

\* Mutants: streams are taken without the flag; imports need a block.
Bnd2LoadsAnyStream(img) ==
    IF \E row \in img.rows : row.key[1] = 0 THEN {LoadFailure("InvalidBundle")}
    ELSE {LoadSuccess(LoadedBnd2(img))}

Bnd2LoadsWithBlocks(img) ==
    IF \E row \in img.rows : \/ row.key[1] = 0
                             \/ row.key[2] # 0 /\ "MultistreamBundle" \notin img.flags
                             \/ row.entry.importCount > 0 /\ MainMemory \notin DOMAIN row.entry.blocks
    THEN {LoadFailure("InvalidBundle")}
    ELSE {LoadSuccess(LoadedBnd2(img))}

Bnd2Loads(img) ==
    IF \E row \in img.rows :
           row.key[1] = 0 \/ (row.key[2] # 0 /\ "MultistreamBundle" \notin img.flags)
    THEN {LoadFailure("InvalidBundle")}
    ELSE {LoadSuccess(LoadedBnd2(img))}

\* The imports of a BNDL row are those of its id.
LoadedBndlEntry(img, k) ==
    [RowEntries(img)[k] EXCEPT !.importCount =
        IF k[1] \in DOMAIN img.imports THEN Len(img.imports[k[1]]) ELSE 0]

\* Mutants of LoadedBndl: the import lists are not kept; the string table is read
\* only if the flags, which a BNDL file does not store, announce it.
LoadedBndlWithoutImports(img) ==
    LET entries == [k \in DOMAIN RowEntries(img) |-> LoadedBndlEntry(img, k)]
    IN  [fmt |-> img.fmt, flags |-> img.flags, entries |-> entries, imports |-> NoEntries,
         debug |-> IF img.hasTable THEN ParseTable(img.table, entries) ELSE NoEntries,
         default |-> NoDefault, names |-> img.names]

LoadedBndlByFlag(img) ==
    LET entries == [k \in DOMAIN RowEntries(img) |-> LoadedBndlEntry(img, k)]
    IN  [fmt |-> img.fmt, flags |-> img.flags, entries |-> entries, imports |-> img.imports,
         debug |-> IF "HasDebugData" \in img.flags THEN ParseTable(img.table, entries)
                   ELSE NoEntries,
         default |-> NoDefault, names |-> img.names]

LoadedBndl(img) ==
    LET entries == [k \in DOMAIN RowEntries(img) |-> LoadedBndlEntry(img, k)]
    IN  [fmt     |-> img.fmt,
         flags   |-> img.flags \cup (IF img.hasTable THEN {"HasDebugData"} ELSE {}),
         entries |-> entries,
         imports |-> img.imports,
         debug   |-> IF img.hasTable THEN ParseTable(img.table, entries) ELSE NoEntries,
         default |-> NoDefault,
         names   |-> [i \in 0 .. StreamLimit - 1 |-> ""]]

\* A resource under the string table's id is taken for the table. Its text is
\* too short for the length it claims (the parser throws) or is not XML.
TakenForTable(impl) ==
    /\ StringTableKey \in DOMAIN impl.entries
    /\ MainMemory \in DOMAIN impl.entries[StringTableKey].blocks
    /\ Decodable(impl.entries[StringTableKey].blocks[MainMemory])

\* One row too many is read past the end of the table: it is out of the
\* file's range, or gives some id an entry the file does not hold, in place of
\* the one it does.
WithStray(impl, id, type) ==
    [impl EXCEPT !.entries = Put(@, <<id, 0>>, FreshEntry(type)), !.imports = Drop(@, id)]

StrayEntries(impl) ==
    {WithStray(impl, id, type) : id \in ResourceIDs, type \in Types}

BndlLoads(img) ==
    LET impl == LoadedBndl(img)
        claimed == [WithoutStringTable(impl) EXCEPT !.flags = @ \cup {"HasDebugData"}]
    IN  IF img.overcount
        THEN {LoadFailure("InvalidBundle")} \cup {LoadSuccess(i) : i \in StrayEntries(impl)}
        ELSE IF TakenForTable(impl)
        THEN {LoadFailure("InvalidBundle"), LoadSuccess(claimed)}
        ELSE {LoadSuccess(impl)}

\* Every result Load may have on this file.
Loads(img) ==
    IF ~IsValidVersion(img.fmt) THEN {LoadFailure("UnsupportedVersion")}
    ELSE IF ~IsValidPlatform(img.fmt) THEN {LoadFailure("UnsupportedPlatform")}
    ELSE IF IsBnd2(img.fmt) THEN Bnd2Loads(img) ELSE BndlLoads(img)
=============================================================================
