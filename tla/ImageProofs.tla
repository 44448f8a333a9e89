------------------------------ MODULE ImageProofs ------------------------------
(***************************************************************************)
(* Lemmas about Save and Load: what Save writes is a file, and what Load   *)
(* makes of a file is an object.                                           *)
(***************************************************************************)
EXTENDS BundleImage, ContainerProofs

-----------------------------------------------------------------------------
(* The string table *)

\* Debug data has finitely many keys.
LEMMA DebugKeysFinite ==
    ASSUME NEW debug, IsDebugData(debug)
    PROVE  IsFiniteSet(DOMAIN debug) /\ Cardinality(DOMAIN debug) \in Nat
<1>1. IsFiniteSet(StreamIndices)
  <2>1. 0 \in Int /\ 255 \in Int OBVIOUS
  <2>2. IsFiniteSet(0 .. 255) BY <2>1, FS_Interval
  <2>3. StreamIndices \subseteq 0 .. 255 BY ContainerAssumption
  <2> QED BY <2>2, <2>3, FS_Subset
<1>2. IsFiniteSet(Key) BY <1>1, FS_Product, ContainerAssumption DEF Key
<1>3. IsFiniteSet(DOMAIN debug) BY <1>2, FS_Subset DEF IsDebugData, IsMap
<1> QED BY <1>3, FS_CardinalityType

\* Every string table the writer may produce is a sequence of rows.
LEMMA TableTyped ==
    ASSUME NEW impl, IsImpl(impl), NEW table \in Tables(impl)
    PROVE  table \in Seq(Row)
<1>1. PICK order \in RowOrders(impl) : table = TableOf(impl, order) BY DEF Tables
<1> DEFINE n == Cardinality(DOMAIN impl.debug)
<1>2. n \in Nat BY DebugKeysFinite, ImplFields
<1>3. order \in [1 .. n -> DOMAIN impl.debug] BY DEF RowOrders, SetToSeqs
<1>4. ASSUME NEW i \in 1 .. n PROVE table[i] \in Row
  <2>1. order[i] \in Key /\ impl.debug[order[i]] \in DebugNames
    BY <1>3, ImplFields DEF IsDebugData, IsMap
  <2>2. order[i][1] \in ResourceIDs /\ order[i][2] \in StreamIndices BY <2>1, KeyParts
  <2>3. StreamAttribute(impl, order[i]) \in StreamIndices \cup {Omitted, ImportEntry}
    BY <2>2 DEF StreamAttribute
  <2>4. table[i] = [id |-> order[i][1], stream |-> StreamAttribute(impl, order[i]),
                    name |-> impl.debug[order[i]]]
    BY <1>1, <1>3 DEF TableOf
  <2> QED BY <2>1, <2>2, <2>3, <2>4 DEF Row
<1>5. DOMAIN table = 1 .. n /\ table = [i \in 1 .. n |-> table[i]]
  BY <1>1, <1>3 DEF TableOf
<1> HIDE DEF n
<1>6. table \in [1 .. n -> Row] BY <1>4, <1>5
<1> QED BY <1>2, <1>6

\* The stream that the reader guesses for a row is a stream index.
LEMMA RowStreamTyped ==
    ASSUME NEW table \in Seq(Row), NEW i \in DOMAIN table, NEW entries, IsEntries(entries)
    PROVE  RowStream(table, i, entries) \in StreamIndices
<1>0. /\ 0 \in StreamIndices /\ StreamIndices \subseteq 0 .. 255
      /\ \A row \in Row : row.stream \in StreamIndices \cup {Omitted, ImportEntry}
  BY ContainerAssumption DEF Row
<1>1. \A row \in Row : row.stream >= 0 => NumberedStream(row) \in StreamIndices
  <2> TAKE row \in Row
  <2>1. CASE row.stream \in StreamIndices BY <2>1, <1>0 DEF NumberedStream
  <2>2. CASE row.stream \in {-1, -2} BY <2>2
  <2> QED BY <2>1, <2>2, <1>0 DEF Omitted, ImportEntry
<1>2. LastStream(table, i) \in StreamIndices
  <2> DEFINE numbered == {j \in 1 .. i - 1 : table[j].stream >= 0}
  <2>1. CASE numbered = {} BY <2>1, <1>0 DEF LastStream
  <2>2. CASE numbered # {}
    <3>1. i \in 1 .. Len(table) OBVIOUS
    <3>2. Len(table) \in Nat /\ numbered \in SUBSET (0 .. Len(table)) BY <3>1
    <3>3. Max(numbered) \in numbered
      <4> HIDE DEF numbered
      <4> QED BY <2>2, <3>2, MaxIn
    <3>4. Max(numbered) \in 1 .. Len(table) /\ table[Max(numbered)].stream >= 0
      BY <3>1, <3>3
    <3>5. table[Max(numbered)] \in Row BY <3>4
    <3>6. LastStream(table, i) = NumberedStream(table[Max(numbered)])
      BY <2>2 DEF LastStream
    <3> QED BY <1>1, <3>4, <3>5, <3>6
  <2> QED BY <2>1, <2>2
<1>3. FirstStream(entries, table[i].id) \in StreamIndices
  <2> DEFINE streams == {k[2] : k \in {e \in DOMAIN entries : e[1] = table[i].id}}
  <2>1. streams \subseteq StreamIndices BY KeyParts DEF IsEntries
  <2>2. streams \in SUBSET Nat
    <3>1. \A x \in 0 .. 255 : x \in Nat OBVIOUS
    <3> HIDE DEF streams
    <3> QED BY <2>1, <3>1, <1>0
  <2>3. streams # {} => Min(streams) \in streams
    <3> HIDE DEF streams
    <3> QED BY <2>2, MinIn
  <2>4. FirstStream(entries, table[i].id) = IF streams = {} THEN 0 ELSE Min(streams)
    BY DEF FirstStream
  <2> HIDE DEF streams
  <2> QED BY <1>0, <2>1, <2>3, <2>4
<1>4. table[i] \in Row OBVIOUS
<1>5. CASE table[i].stream = Omitted BY <1>3, <1>5 DEF RowStream, Omitted, ImportEntry
<1>6. CASE table[i].stream = ImportEntry
  BY <1>2, <1>6 DEF RowStream, Omitted, ImportEntry
<1>7. CASE table[i].stream \in StreamIndices
  <2>1. table[i].stream \in 0 .. 255 BY <1>7, <1>0, Zenon
  <2>2. \A x \in 0 .. 255 : x # -1 /\ x # -2 /\ x >= 0 OBVIOUS
  <2>3. RowStream(table, i, entries) = NumberedStream(table[i])
    BY <2>1, <2>2, Zenon DEF RowStream, Omitted, ImportEntry
  <2>4. table[i].stream >= 0 BY <2>1, <2>2, Zenon
  <2>5. NumberedStream(table[i]) \in StreamIndices BY <1>1, <1>4, <2>4, Zenon
  <2> QED BY <2>3, <2>5
<1> QED BY <1>0, <1>4, <1>5, <1>6, <1>7

\* What the reader makes of a string table is debug data.
LEMMA ParseTableTyped ==
    ASSUME NEW table \in Seq(Row), NEW entries, IsEntries(entries)
    PROVE  IsDebugData(ParseTable(table, entries))
<1> DEFINE keyOf(i) == <<table[i].id, RowStream(table, i, entries)>>
           keys == {keyOf(i) : i \in DOMAIN table}
           parsed == ParseTable(table, entries)
<1>1. \A i \in DOMAIN table : table[i].id \in ResourceIDs /\ table[i].name \in DebugNames
  <2> TAKE i \in DOMAIN table
  <2>1. table[i] \in Row OBVIOUS
  <2> QED BY <2>1 DEF Row
<1>2. keys \subseteq Key BY <1>1, RowStreamTyped DEF Key
<1>3. parsed = [k \in keys |-> table[Max({i \in DOMAIN table : keyOf(i) = k})].name]
  BY DEF ParseTable
<1>4. ASSUME NEW k \in keys PROVE parsed[k] \in DebugNames
  <2> DEFINE rows == {i \in DOMAIN table : keyOf(i) = k}
  <2>1. Len(table) \in Nat /\ rows \in SUBSET (0 .. Len(table)) /\ rows # {}
    OBVIOUS
  <2>2. Max(rows) \in rows
    <3> HIDE DEF rows
    <3> QED BY <2>1, MaxIn
  <2>3. Max(rows) \in DOMAIN table BY <2>2
  <2>4. parsed[k] = table[Max(rows)].name BY <1>3
  <2> QED BY <1>1, <2>3, <2>4
<1>5. IsDebugData(parsed)
  <2> HIDE DEF parsed, keys
  <2> QED BY <1>2, <1>3, <1>4 DEF IsDebugData, IsMap
<1> QED BY <1>5

-----------------------------------------------------------------------------
(* Save *)

\* The row that Save writes for an entry is typed.
LEMMA SavedEntryTyped ==
    ASSUME NEW impl, NEW e, IsEntry(e)
    PROVE  IsEntry(SavedEntry(impl, e))
<1> DEFINE saved  == SavedSlots(impl, e)
           block(s) == [e.blocks[s] EXCEPT !.align = SavedAlignment(impl, e, s)]
           blocks == [s \in saved |-> block(s)]
           aligns == [s \in Slots |-> SavedDiskAlignment(impl, e, s)]
           count  == IF IsBnd2(impl.fmt) THEN e.importCount ELSE 0
           offset == IF IsBnd2(impl.fmt) THEN e.importOffset ELSE 0
<1>0. /\ IsBlockMap(e.blocks) /\ e.type \in Types
      /\ e.importCount \in Nat /\ e.importOffset \in Nat
      /\ \A s \in Slots : e.diskAligns[s] \in Alignments
  BY DEF IsEntry
<1>1. 1 \in Alignments /\ \A a \in Alignments : OnDiskAlignment(a) \in Alignments
  BY ContainerAssumption, ImageAssumption
<1>2. saved \subseteq DOMAIN e.blocks /\ DOMAIN e.blocks \subseteq Slots
  BY <1>0 DEF SavedSlots, IsBlockMap, IsMap
<1>3. ASSUME NEW s \in saved PROVE block(s) \in Block
  <2>1. e.blocks[s] \in Block /\ s \in Slots BY <1>0, <1>2 DEF IsBlockMap, IsMap
  <2>2. e.blocks[s].align \in Alignments /\ e.diskAligns[s] \in Alignments
    BY <1>0, <2>1 DEF Block
  <2>3. SavedAlignment(impl, e, s) \in Alignments BY <1>1, <2>2 DEF SavedAlignment
  <2> QED BY <2>1, <2>3 DEF Block
<1>4. IsBlockMap(blocks)
  <2> HIDE DEF saved, block
  <2> QED BY <1>2, <1>3 DEF IsBlockMap, IsMap
<1>5. aligns \in [Slots -> Alignments]
  <2>1. ASSUME NEW s \in Slots PROVE SavedDiskAlignment(impl, e, s) \in Alignments
    BY <1>0, <1>1 DEF SavedDiskAlignment
  <2> QED BY <2>1
<1>6. count \in Nat /\ offset \in Nat BY <1>0
<1>7. SavedEntry(impl, e) = [type |-> e.type, blocks |-> blocks, importCount |-> count,
                             importOffset |-> offset, diskAligns |-> aligns]
  BY DEF SavedEntry
<1> HIDE DEF blocks, aligns, count, offset
<1> QED BY <1>0, <1>4, <1>5, <1>6, <1>7, EntryTyped

\* The keys of a file's rows, and of what Save borrows, are keys; without the
\* multistream flag the stream is 0.
LEMMA SavedKeyTyped ==
    ASSUME NEW impl, NEW k \in Key
    PROVE  /\ SavedKey(impl, k) \in Key /\ SavedKey(impl, k)[1] = k[1]
           /\ "MultistreamBundle" \notin impl.flags => SavedKey(impl, k)[2] = 0
           /\ (k[2] # 0 => "MultistreamBundle" \in impl.flags) => SavedKey(impl, k) = k
<1>1. k[1] \in ResourceIDs /\ k[2] \in StreamIndices /\ 0 \in StreamIndices
      /\ k = <<k[1], k[2]>>
  BY KeyParts, ContainerAssumption
<1> QED BY <1>1 DEF SavedKey, Key

\* The key BNDL uses for the string table is a key.
LEMMA StringTableKeyTyped == StringTableKey \in Key
    BY ContainerAssumption, ImageAssumption DEF StringTableKey, Key

\* BNDL's writer refuses a bundle with resources in several streams.
LEMMA BndlRefusesStreams ==
    ASSUME NEW fmt \in Format, NEW flags \in SUBSET FlagNames,
           SaveVerdict(fmt, flags) = "Success", ~IsBnd2(fmt)
    PROVE  "MultistreamBundle" \notin flags
<1>1. AcceptsFlags(fmt, flags) BY DEF SaveVerdict
<1>2. \A f \in flags \ {"HasDebugData"} : FlagBit[f] < 1 BY <1>1 DEF AcceptsFlags
<1>3. ~(FlagBit["MultistreamBundle"] < 1) BY DEF FlagBit
<1> QED BY <1>2, <1>3

\* What a Save that succeeds leaves in memory is the object it found, or that
\* without the entry it borrowed; one that throws may leave the borrowed one.
LEMMA BorrowedEntryTyped ==
    ASSUME NEW blocks, IsBlockMap(blocks)
    PROVE  IsEntry(BorrowedEntry(blocks))
<1> DEFINE aligns == [s \in Slots |-> IF s \in DOMAIN blocks THEN 4 ELSE 0]
<1>1. aligns \in [Slots -> Alignments] BY ImageAssumption, ContainerAssumption
<1>2. BorrowedEntry(blocks) = [type |-> TextFile, importCount |-> 0, importOffset |-> 0,
                               diskAligns |-> aligns, blocks |-> blocks]
  BY DEF BorrowedEntry
<1> HIDE DEF aligns
<1> QED BY <1>1, <1>2, ImageAssumption DEF IsEntry

LEMMA TableBlocksTyped == IsBlockMap(TableBlocks) /\ IsBlockMap(NoEntries)
<1>1. IsBlockMap(TableBlocks)
  BY ContainerAssumption, ImageAssumption
  DEF TableBlocks, IsBlockMap, IsMap, Block, MainMemory, Slots
<1>2. IsBlockMap(NoEntries) BY DEF IsBlockMap, IsMap, NoEntries
<1> QED BY <1>1, <1>2

LEMMA WithBorrowedTyped ==
    ASSUME NEW impl, IsImpl(impl), NEW blocks, IsBlockMap(blocks)
    PROVE  IsImpl(WithBorrowed(impl, blocks))
<1>1. IsEntries(Put(impl.entries, StringTableKey, BorrowedEntry(blocks)))
  BY StringTableKeyTyped, BorrowedEntryTyped, ImplFields, EntriesPutDrop
<1> DEFINE entries == Put(impl.entries, StringTableKey, BorrowedEntry(blocks))
<1>2. WithBorrowed(impl, blocks) = [impl EXCEPT !.entries = entries] BY DEF WithBorrowed
<1>3. IsEntries(entries) BY <1>1
<1> HIDE DEF entries
<1> QED BY <1>2, <1>3 DEF IsImpl

LEMMA AfterSaveTyped ==
    ASSUME NEW impl, IsImpl(impl)
    PROVE  /\ IsImpl(AfterSave(impl)) /\ IsImpl(WithStringTable(impl))
           /\ IsImpl(WithBorrowed(impl, NoEntries)) /\ IsImpl(WithoutStringTable(impl))
<1>1. IsEntries(Drop(impl.entries, StringTableKey))
  BY StringTableKeyTyped, ImplFields, EntriesPutDrop
<1>2. IsImpl(WithoutStringTable(impl)) BY <1>1 DEF WithoutStringTable, IsImpl
<1>3. IsImpl(WithStringTable(impl)) /\ IsImpl(WithBorrowed(impl, NoEntries))
  BY WithBorrowedTyped, TableBlocksTyped DEF WithStringTable
<1> QED BY <1>2, <1>3 DEF AfterSave

\* Every file that Load takes of what Save wrote has rows for a string table.
LEMMA CutImageTable ==
    ASSUME NEW impl, IsImpl(impl), NEW img \in CutImages(impl)
    PROVE  \E table \in Seq(Row) : img = ImageWith(impl, table)
<1>1. <<>> \in Seq(Row) OBVIOUS
<1>2. \A t \in Tables(impl) : t \in Seq(Row) BY TableTyped
<1>3. CASE img \in Images(impl)
  <2>1. PICK table : /\ table \in (IF WritesTable(impl) THEN Tables(impl) ELSE {<<>>})
                     /\ img = ImageWith(impl, table)
    BY <1>3 DEF Images
  <2> QED BY <2>1, <1>1, <1>2
<1>4. CASE img = ImageWith(impl, <<>>) BY <1>1, <1>4
<1> QED BY <1>3, <1>4 DEF CutImages

\* Whatever Save writes is a file, cut at its end or not.
LEMMA ImageTyped ==
    ASSUME NEW impl, IsImpl(impl), SaveVerdict(impl.fmt, impl.flags) = "Success",
           NEW img \in CutImages(impl)
    PROVE  IsImage(img)
<1>1. PICK table \in Seq(Row) : img = ImageWith(impl, table) BY CutImageTable
<1>2. table \in Seq(Row) BY <1>1
<1> DEFINE written == AfterSave(impl).entries
<1>3. IsEntries(written) BY AfterSaveTyped, ImplFields
<1>4. ASSUME NEW k \in DOMAIN written
      PROVE  /\ SavedKey(impl, k) \in Key /\ IsEntry(SavedEntry(impl, written[k]))
             /\ IsBnd2(impl.fmt) \/ SavedKey(impl, k)[2] = 0
  <2>1. k \in Key /\ IsEntry(written[k]) BY <1>3 DEF IsEntries
  <2>2. IsBnd2(impl.fmt) \/ "MultistreamBundle" \notin impl.flags
    BY BndlRefusesStreams, ImplFields
  <2> QED BY <2>1, <2>2, SavedKeyTyped, SavedEntryTyped
<1> DEFINE imports == SavedImports(impl)
<1>5. IsImportLists(imports) /\ \A id \in DOMAIN imports : imports[id] # <<>>
  BY ImplFields DEF IsImportLists, IsMap, SavedImports
<1> DEFINE flags   == IF IsBnd2(impl.fmt) THEN impl.flags ELSE impl.flags \cap {"Compressed"}
           default == IF HasStreamMetadata(impl.fmt) THEN impl.default ELSE NoDefault
           rows    == {[key |-> SavedKey(impl, k), entry |-> SavedEntry(impl, written[k])] :
                            k \in DOMAIN written}
           over    == BorrowsStringTableKey(impl) /\ StringTableKey \in DOMAIN impl.entries
<1>6. flags \subseteq FlagNames /\ default \in DefaultKey
  BY ImplFields DEF DefaultKey
<1>7. WritesTable(impl) \in BOOLEAN /\ over \in BOOLEAN
  <2>1. WritesTable(impl) \in BOOLEAN
    <3>1. CASE IsBnd2(impl.fmt) BY <3>1 DEF WritesTable
    <3>2. CASE ~IsBnd2(impl.fmt) BY <3>2, Zenon DEF WritesTable
    <3> QED BY <3>1, <3>2
  <2>2. over \in BOOLEAN OBVIOUS
  <2> QED BY <2>1, <2>2
<1>8. img = [fmt |-> impl.fmt, flags |-> flags, rows |-> rows, imports |-> imports,
             default |-> default, names |-> impl.names, table |-> table,
             hasTable |-> WritesTable(impl), overcount |-> over]
  BY <1>1, Zenon DEF ImageWith
<1>9. \A row \in rows : /\ row \in [key : Key, entry : {row.entry}]
                        /\ IsEntry(row.entry)
                        /\ IsBnd2(impl.fmt) \/ row.key[2] = 0
  <2> HIDE DEF written
  <2>1. TAKE row \in rows
  <2>2. PICK k \in DOMAIN written :
            row = [key |-> SavedKey(impl, k), entry |-> SavedEntry(impl, written[k])]
    OBVIOUS
  <2> QED BY <1>4, <2>2
<1> HIDE DEF written, rows, flags, default, over, imports
<1>10. img.fmt = impl.fmt /\ img.rows = rows /\ img.imports = imports BY <1>8
<1>11. img \in [fmt : Format, flags : SUBSET FlagNames, rows : {img.rows},
                imports : {img.imports}, default : DefaultKey, names : StreamTable,
                table : Seq(Row), hasTable : BOOLEAN, overcount : BOOLEAN]
  BY <1>2, <1>6, <1>7, <1>8, ImplFields
<1> QED BY <1>5, <1>9, <1>10, <1>11 DEF IsImage

-----------------------------------------------------------------------------
(* Load *)

\* The entries in a file's rows.
LEMMA RowEntriesTyped ==
    ASSUME NEW img, IsImage(img)
    PROVE  /\ IsEntries(RowEntries(img))
           /\ DOMAIN RowEntries(img) = {row.key : row \in img.rows}
           /\ \A k \in DOMAIN RowEntries(img) :
                \E row \in img.rows : row.key = k /\ RowEntries(img)[k] = row.entry
<1> DEFINE keys == {row.key : row \in img.rows}
           entries == RowEntries(img)
<1>1. entries = [k \in keys |-> (CHOOSE row \in img.rows : row.key = k).entry]
  BY DEF RowEntries
<1>2. \A row \in img.rows : row.key \in Key /\ IsEntry(row.entry)
  <2> TAKE row \in img.rows
  <2>1. row \in [key : Key, entry : {row.entry}] /\ IsEntry(row.entry) BY DEF IsImage
  <2> QED BY <2>1
<1>3. ASSUME NEW k \in keys
      PROVE  \E row \in img.rows : row.key = k /\ entries[k] = row.entry
  <2> DEFINE chosen == CHOOSE row \in img.rows : row.key = k
  <2>1. \E row \in img.rows : row.key = k OBVIOUS
  <2>2. chosen \in img.rows /\ chosen.key = k BY <2>1
  <2>3. entries[k] = chosen.entry BY <1>1
  <2> QED BY <2>2, <2>3
<1>4. DOMAIN entries = keys BY <1>1
<1>5. IsEntries(entries)
  <2>1. keys \subseteq Key BY <1>2
  <2>2. \A k \in keys : IsEntry(entries[k]) BY <1>2, <1>3
  <2>3. entries = [k \in DOMAIN entries |-> entries[k]] BY <1>1
  <2> HIDE DEF entries, keys
  <2> QED BY <1>4, <2>1, <2>2, <2>3 DEF IsEntries
<1> QED BY <1>3, <1>4, <1>5

\* What is known of an object that Load made of a file.
LEMMA LoadedBnd2Typed ==
    ASSUME NEW img, IsImage(img)
    PROVE  IsImpl(LoadedBnd2(img)) /\ LoadedBnd2(img).entries = RowEntries(img)
<1> DEFINE debug == IF "HasDebugData" \in img.flags
                    THEN ParseTable(img.table, RowEntries(img)) ELSE NoEntries
<1>1. /\ img.fmt \in Format /\ img.flags \in SUBSET FlagNames
      /\ img.default \in DefaultKey /\ img.names \in StreamTable /\ img.table \in Seq(Row)
  BY DEF IsImage
<1>2. IsEntries(RowEntries(img)) BY RowEntriesTyped
<1>3. IsDebugData(debug) BY <1>1, <1>2, ParseTableTyped, NoEntriesTyped DEF IsDebugData
<1>4. IsImportLists(NoEntries) BY NoEntriesTyped DEF IsImportLists
<1>5. LoadedBnd2(img) =
        [fmt |-> img.fmt, flags |-> img.flags, entries |-> RowEntries(img),
         imports |-> NoEntries, debug |-> debug, default |-> img.default,
         names |-> img.names]
  BY DEF LoadedBnd2
<1>6. LoadedBnd2(img).entries = RowEntries(img) BY <1>5
<1> HIDE DEF debug
<1>7. IsImpl([fmt |-> img.fmt, flags |-> img.flags, entries |-> RowEntries(img),
              imports |-> NoEntries, debug |-> debug, default |-> img.default,
              names |-> img.names])
  BY <1>1, <1>2, <1>3, <1>4, ImplTyped
<1> QED BY <1>5, <1>6, <1>7

\* The same of a BNDL file, whose imports come from the separate lists.
LEMMA LoadedBndlTyped ==
    ASSUME NEW img, IsImage(img)
    PROVE  /\ IsImpl(LoadedBndl(img))
           /\ LoadedBndl(img).fmt = img.fmt
           /\ DOMAIN LoadedBndl(img).entries = DOMAIN RowEntries(img)
           /\ \A k \in DOMAIN RowEntries(img) :
                LoadedBndl(img).entries[k].blocks = RowEntries(img)[k].blocks
<1> DEFINE rows    == RowEntries(img)
           entries == [k \in DOMAIN rows |-> LoadedBndlEntry(img, k)]
           flags   == img.flags \cup (IF img.hasTable THEN {"HasDebugData"} ELSE {})
           debug   == IF img.hasTable THEN ParseTable(img.table, entries) ELSE NoEntries
           names   == [i \in 0 .. StreamLimit - 1 |-> ""]
<1>1. /\ img.fmt \in Format /\ img.flags \in SUBSET FlagNames
      /\ IsImportLists(img.imports) /\ img.table \in Seq(Row)
  BY DEF IsImage
<1>2. IsEntries(rows) BY RowEntriesTyped
<1>3. ASSUME NEW k \in DOMAIN rows
      PROVE  /\ IsEntry(LoadedBndlEntry(img, k))
             /\ LoadedBndlEntry(img, k).blocks = rows[k].blocks
  <2> DEFINE count == IF k[1] \in DOMAIN img.imports THEN Len(img.imports[k[1]]) ELSE 0
  <2>1. count \in Nat
    <3>1. CASE k[1] \in DOMAIN img.imports
      <4>1. img.imports[k[1]] \in Seq(ResourceIDs) BY <1>1, <3>1 DEF IsImportLists, IsMap
      <4> QED BY <3>1, <4>1
    <3>2. CASE k[1] \notin DOMAIN img.imports BY <3>2
    <3> QED BY <3>1, <3>2
  <2>2. IsEntry(rows[k]) BY <1>2 DEF IsEntries
  <2>3. LoadedBndlEntry(img, k) = [rows[k] EXCEPT !.importCount = count]
    BY DEF LoadedBndlEntry
  <2> HIDE DEF count, rows
  <2> QED BY <2>1, <2>2, <2>3 DEF IsEntry
<1>4. IsEntries(entries)
  <2>1. DOMAIN rows \subseteq Key BY <1>2 DEF IsEntries
  <2> HIDE DEF rows
  <2> QED BY <1>3, <2>1 DEF IsEntries
<1>5. IsDebugData(debug)
  <2> HIDE DEF entries
  <2> QED BY <1>1, <1>4, ParseTableTyped, NoEntriesTyped DEF IsDebugData
<1>6. flags \in SUBSET FlagNames BY <1>1 DEF FlagNames, FlagBit
<1>7. NoDefault \in DefaultKey /\ names \in StreamTable
  BY DEF DefaultKey, StreamTable, StreamLimit
<1>8. LoadedBndl(img) =
        [fmt |-> img.fmt, flags |-> flags, entries |-> entries, imports |-> img.imports,
         debug |-> debug, default |-> NoDefault, names |-> names]
  BY DEF LoadedBndl
<1>9. IsImpl(LoadedBndl(img))
  <2> HIDE DEF entries, flags, debug, names
  <2> QED BY <1>1, <1>4, <1>5, <1>6, <1>7, <1>8, ImplTyped
<1>10. LoadedBndl(img).entries = entries /\ LoadedBndl(img).fmt = img.fmt
  <2> HIDE DEF entries, flags, debug, names
  <2> QED BY <1>8
<1> HIDE DEF rows
<1> QED BY <1>3, <1>9, <1>10 DEF rows

\* An object that Load returns is typed, and one of a BNDL file has every
\* resource in stream 0; so has one of a BND2 file without the multistream flag.
LEMMA LoadTyped ==
    ASSUME NEW img, IsImage(img), NEW result \in Loads(img)
    PROVE  /\ result.code \in {"Success", "InvalidBundle", "UnsupportedVersion",
                               "UnsupportedPlatform"}
           /\ result.code = "Success" =>
                /\ IsImpl(result.impl)
                /\ \A k \in DOMAIN result.impl.entries :
                        k[2] # 0 => "MultistreamBundle" \in result.impl.flags
<1> DEFINE codes == {"Success", "InvalidBundle", "UnsupportedVersion", "UnsupportedPlatform"}
           good(impl) == /\ IsImpl(impl)
                         /\ \A k \in DOMAIN impl.entries :
                                k[2] # 0 => "MultistreamBundle" \in impl.flags
           Goal(r) == r.code \in codes /\ (r.code = "Success" => good(r.impl))
<1>1. \A c \in codes : c # "Success" => Goal(LoadFailure(c))
  BY DEF LoadFailure
<1>2. \A impl : good(impl) => Goal(LoadSuccess(impl))
  <2> HIDE DEF good
  <2> QED BY DEF LoadSuccess
<1>3. DOMAIN RowEntries(img) = {row.key : row \in img.rows} BY RowEntriesTyped
<1>0. SUFFICES Goal(result) OBVIOUS
<1> HIDE DEF good, Goal
<1>4. CASE result \in {LoadFailure("UnsupportedVersion"), LoadFailure("UnsupportedPlatform"),
                       LoadFailure("InvalidBundle")}
  BY <1>1, <1>4
<1>5. CASE IsBnd2(img.fmt) /\ result \in Bnd2Loads(img)
  <2>1. CASE result = LoadFailure("InvalidBundle") BY <1>4, <2>1
  <2>2. CASE /\ result = LoadSuccess(LoadedBnd2(img))
             /\ "MultistreamBundle" \in img.flags \/ \A row \in img.rows : row.key[2] = 0
    <3>1. LoadedBnd2(img).flags = img.flags BY DEF LoadedBnd2
    <3>2. good(LoadedBnd2(img))
      BY <1>3, <2>2, <3>1, LoadedBnd2Typed DEF good
    <3> QED BY <1>2, <2>2, <3>2
  <2> QED BY <1>5, <2>1, <2>2 DEF Bnd2Loads
<1>6. CASE ~IsBnd2(img.fmt) /\ result \in BndlLoads(img)
  <2> DEFINE impl == LoadedBndl(img)
  <2>1. IsImpl(impl) /\ \A k \in DOMAIN impl.entries : k[2] = 0
    <3>1. \A row \in img.rows : row.key[2] = 0 BY <1>6 DEF IsImage
    <3> QED BY <1>3, <3>1, LoadedBndlTyped
  <2> HIDE DEF impl
  <2>2. good(impl) BY <2>1 DEF good
  <2>3. ASSUME NEW i \in StrayEntries(impl) PROVE good(i)
    <3>1. PICK id \in ResourceIDs, type \in Types :
            i = WithStray(impl, id, type)
      BY <2>3 DEF StrayEntries
    <3> DEFINE entries == Put(impl.entries, <<id, 0>>, FreshEntry(type))
               imports == Drop(impl.imports, id)
    <3>2. <<id, 0>> \in Key BY ContainerAssumption DEF Key
    <3>3. IsEntries(entries) BY <2>1, <3>2, FreshEntryTyped, EntriesPutDrop, ImplFields
    <3>4. IsImportLists(imports) BY <2>1, ImplFields, PutDropMap DEF IsImportLists
    <3>5. \A k \in DOMAIN entries : k[2] = 0 BY <2>1 DEF Put
    <3>6. i = [fmt |-> impl.fmt, flags |-> impl.flags, entries |-> entries,
               imports |-> imports, debug |-> impl.debug, default |-> impl.default,
               names |-> impl.names]
      <4>1. i = [impl EXCEPT !.entries = entries, !.imports = imports]
        BY <3>1 DEF WithStray
      <4> HIDE DEF entries, imports
      <4> QED BY <2>1, <4>1, ImplExcept
    <3> HIDE DEF entries, imports
    <3>7. IsImpl(i) BY <2>1, <3>3, <3>4, <3>6, ImplFields, ImplTyped
    <3>8. i.entries = entries BY <3>6
    <3> QED BY <3>5, <3>7, <3>8 DEF good
  <2> DEFINE without == WithoutStringTable(impl)
             claimed == [without EXCEPT !.flags = @ \cup {"HasDebugData"}]
  <2>4. good(claimed)
    <3>1. IsImpl(without) BY <2>1, AfterSaveTyped
    <3>2. DOMAIN without.entries \subseteq DOMAIN impl.entries
      BY <2>1 DEF WithoutStringTable, Drop, IsImpl
    <3> HIDE DEF without
    <3>3. without.flags \cup {"HasDebugData"} \in SUBSET FlagNames
      BY <3>1, ImplFields DEF FlagNames, FlagBit
    <3>4. IsImpl(claimed) /\ claimed.entries = without.entries
      BY <3>1, <3>3 DEF IsImpl
    <3> HIDE DEF claimed
    <3> QED BY <2>1, <3>2, <3>4 DEF good
  <2>5. \/ result = LoadFailure("InvalidBundle")
        \/ \E i \in StrayEntries(impl) : result = LoadSuccess(i)
        \/ result = LoadSuccess(claimed)
        \/ result = LoadSuccess(impl)
    BY <1>6, Zenon DEF BndlLoads, impl
  <2> HIDE DEF claimed
  <2> QED BY <1>2, <1>4, <2>2, <2>3, <2>4, <2>5
<1> QED BY <1>4, <1>5, <1>6, Zenon DEF Loads
=============================================================================
