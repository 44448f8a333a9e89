---------------------------- MODULE RoundTripProofs ----------------------------
(***************************************************************************)
(* What comes back from a file: the bundle a save wrote when it is loaded, *)
(* the debug data in its string table, and the file a load read when it is *)
(* saved again.                                                            *)
(***************************************************************************)
EXTENDS BundleStoreProofs

-----------------------------------------------------------------------------
(* What Save writes *)

\* The entries that Save writes are those of the bundle, but for the one whose
\* key BNDL borrows.
LEMMA WrittenEntries ==
    ASSUME NEW impl, IsImpl(impl), NEW written, written = AfterSave(impl).entries
    PROVE  /\ IsEntries(written)
           /\ DOMAIN written \subseteq DOMAIN impl.entries
           /\ DOMAIN impl.entries \ ReservedKeys(impl.fmt) \subseteq DOMAIN written
           /\ \A k \in DOMAIN written : written[k] = impl.entries[k]
<1>1. CASE BorrowsStringTableKey(impl)
  <2> DEFINE rest == Drop(impl.entries, StringTableKey)
  <2>1. AfterSave(impl) = [impl EXCEPT !.entries = rest]
    BY <1>1 DEF AfterSave, WithoutStringTable
  <2>2. ReservedKeys(impl.fmt) = {StringTableKey}
    BY <1>1 DEF BorrowsStringTableKey, ReservedKeys
  <2>3. /\ DOMAIN rest = DOMAIN impl.entries \ {StringTableKey}
        /\ \A k \in DOMAIN rest : rest[k] = impl.entries[k]
    BY DEF Drop
  <2>4. IsEntries(rest) BY StringTableKeyTyped, EntriesPutDrop, ImplFields
  <2> HIDE DEF rest
  <2>5. written = rest BY <2>1 DEF IsImpl
  <2> QED BY <2>2, <2>3, <2>4, <2>5
<1>2. CASE ~BorrowsStringTableKey(impl)
  <2>1. written = impl.entries BY <1>2 DEF AfterSave
  <2> QED BY <2>1, ImplFields
<1> QED BY <1>1, <1>2

\* A file has a row for each of them, under its own key: that is where
\* StreamNeedsFlag is needed.
LEMMA SavedRows ==
    ASSUME NEW impl, IsImpl(impl), NeedsFlag(impl), NEW img \in CutImages(impl),
           NEW written, written = AfterSave(impl).entries
    PROVE  /\ img.rows = {[key |-> k, entry |-> SavedEntry(impl, impl.entries[k])] :
                              k \in DOMAIN written}
           /\ RowEntries(img) = [k \in DOMAIN written |-> SavedEntry(impl, impl.entries[k])]
<1> DEFINE entry(k) == SavedEntry(impl, impl.entries[k])
           rows     == {[key |-> k, entry |-> entry(k)] : k \in DOMAIN written}
<1>1. PICK table : img = ImageWith(impl, table) BY CutImageTable
<1>2. img.rows = {[key |-> SavedKey(impl, k), entry |-> SavedEntry(impl, written[k])] :
                      k \in DOMAIN written}
  BY <1>1 DEF ImageWith
<1>3. ASSUME NEW k \in DOMAIN written
      PROVE  SavedKey(impl, k) = k /\ written[k] = impl.entries[k]
  <2>1. k \in DOMAIN impl.entries /\ written[k] = impl.entries[k] BY WrittenEntries
  <2>2. k \in Key BY <2>1, ImplFields DEF IsEntries
  <2> QED BY <2>1, <2>2, SavedKeyTyped DEF NeedsFlag
<1>4. img.rows = rows BY <1>2, <1>3
<1>5. {row.key : row \in rows} = DOMAIN written
  <2>1. \A k : [key |-> k, entry |-> entry(k)].key = k
    <3> HIDE DEF entry
    <3> QED OBVIOUS
  <2>2. \A k : \A e : e = [key |-> k, entry |-> entry(k)] => e.key = k BY <2>1
  <2> QED BY <2>2, Zenon
<1>6. ASSUME NEW k \in DOMAIN written
      PROVE  (CHOOSE row \in rows : row.key = k).entry = entry(k)
  <2> DEFINE chosen == CHOOSE row \in rows : row.key = k
             own    == [key |-> k, entry |-> entry(k)]
  <2>1. own \in rows /\ own.key = k OBVIOUS
  <2>2. chosen \in rows /\ chosen.key = k
    <3> HIDE DEF rows, own
    <3> QED BY <2>1
  <2>3. \A row \in rows : row.entry = entry(row.key)
    <3> HIDE DEF entry
    <3> QED OBVIOUS
  <2> HIDE DEF rows, chosen, entry
  <2> QED BY <2>2, <2>3 DEF chosen
<1>7. RowEntries(img) = [k \in {row.key : row \in rows} |->
                            (CHOOSE row \in rows : row.key = k).entry]
  BY <1>4 DEF RowEntries
<1> HIDE DEF rows, entry
<1> QED BY <1>4, <1>5, <1>6, <1>7 DEF rows, entry

-----------------------------------------------------------------------------
(* File blocks *)

\* Every file has a block for main memory.
LEMMA MainMemoryStored ==
    ASSUME NEW fmt, IsBnd2(fmt)
    PROVE  MainMemory \in StoredSlots(fmt)
<1> DEFINE late == IF fmt.version >= 3 THEN Disposable ELSE NoSlot
           n    == IF fmt.version >= 3 THEN 4 ELSE 3
           all  == CASE fmt.platform \in TwoGraphicsBlocks ->
                            <<MainMemory, Graphics, Graphics2, late>>
                     [] fmt.platform = "Xbox360" ->
                            <<MainMemory, Graphics, late, NoSlot>>
                     [] OTHER  -> <<MainMemory, Disposable, NoSlot, NoSlot>>
<1>0. /\ late \in 0 .. 4 /\ MainMemory \in 0 .. 4 /\ Graphics \in 0 .. 4
      /\ Graphics2 \in 0 .. 4 /\ Disposable \in 0 .. 4 /\ NoSlot \in 0 .. 4
  BY DEF MainMemory, Graphics, Graphics2, Disposable, NoSlot
<1>1. /\ all \in Seq(0 .. 4) /\ Len(all) = 4 /\ all[1] = MainMemory
  <2>1. \A a, b, c, d \in 0 .. 4 : /\ <<a, b, c, d>> \in Seq(0 .. 4)
                                  /\ Len(<<a, b, c, d>>) = 4 /\ <<a, b, c, d>>[1] = a
    OBVIOUS
  <2> HIDE DEF late
  <2>2. \E b, c, d \in 0 .. 4 : all = <<MainMemory, b, c, d>>
    <3>1. CASE fmt.platform \in TwoGraphicsBlocks BY <1>0, <3>1
    <3>2. CASE fmt.platform \notin TwoGraphicsBlocks /\ fmt.platform = "Xbox360"
      BY <1>0, <3>2
    <3>3. CASE fmt.platform \notin TwoGraphicsBlocks /\ fmt.platform # "Xbox360"
      BY <1>0, <3>3
    <3> QED BY <3>1, <3>2, <3>3
  <2> HIDE DEF all
  <2>3. PICK b, c, d \in 0 .. 4 : all = <<MainMemory, b, c, d>> BY <2>2
  <2> QED BY <1>0, <2>1, <2>3
<1>2. FileBlocks(fmt) = SubSeq(all, 1, n) BY DEF FileBlocks, Bnd2FileBlocks
<1>3. n \in 3 .. 4 OBVIOUS
<1> HIDE DEF all, n
<1>4. 1 \in DOMAIN SubSeq(all, 1, n) /\ SubSeq(all, 1, n)[1] = all[1] BY <1>1, <1>3
<1> DEFINE blocks == FileBlocks(fmt)
<1>5. 1 \in DOMAIN blocks /\ blocks[1] = MainMemory BY <1>1, <1>2, <1>4
<1>6. StoredSlots(fmt) = {blocks[b] : b \in DOMAIN blocks} \ {NoSlot} BY DEF StoredSlots
<1> HIDE DEF blocks
<1>7. blocks[1] # NoSlot BY <1>5 DEF MainMemory, NoSlot
<1> QED BY <1>5, <1>6, <1>7


\* A format that Save accepts has a file block for each memory type of its
\* platform.
LEMMA MemoryTypesStored ==
    ASSUME NEW fmt \in Format, IsValidPlatform(fmt)
    PROVE  MemoryTypes(fmt) \subseteq StoredSlots(fmt)
<1> USE DEF MainMemory, Graphics, Graphics2, Disposable
<1>0. fmt.version \in 2 .. 5 /\ fmt.platform \in Platforms BY DEF Format
<1>1. ASSUME NEW b \in DOMAIN FileBlocks(fmt), FileBlocks(fmt)[b] \in Slots
      PROVE  FileBlocks(fmt)[b] \in StoredSlots(fmt)
  BY <1>1 DEF StoredSlots, NoSlot, Slots
<1>2. CASE IsBnd2(fmt)
  <2> DEFINE late == IF fmt.version >= 3 THEN Disposable ELSE NoSlot
             n    == IF fmt.version >= 3 THEN 4 ELSE 3
             two  == <<MainMemory, Graphics, Graphics2, late>>
             xbox == <<MainMemory, Graphics, late, NoSlot>>
             pc   == <<MainMemory, Disposable, NoSlot, NoSlot>>
             all  == CASE fmt.platform \in TwoGraphicsBlocks -> two
                       [] fmt.platform = "Xbox360" -> xbox
                       [] OTHER  -> pc
  <2>1. FileBlocks(fmt) = SubSeq(all, 1, n) BY <1>2 DEF FileBlocks, Bnd2FileBlocks
  <2>2. /\ two \in Seq(0 .. 4) /\ xbox \in Seq(0 .. 4) /\ pc \in Seq(0 .. 4)
        /\ Len(two) = 4 /\ Len(xbox) = 4 /\ Len(pc) = 4
        /\ two[1] = 0 /\ two[2] = 1 /\ two[3] = 2 /\ two[4] = late
        /\ xbox[1] = 0 /\ xbox[2] = 1 /\ xbox[3] = late
        /\ pc[1] = 0 /\ pc[2] = 3
    <3>1. \A a, b, c, d \in 0 .. 4 :
            LET s == <<a, b, c, d>>
            IN  /\ s \in Seq(0 .. 4) /\ Len(s) = 4
                /\ s[1] = a /\ s[2] = b /\ s[3] = c /\ s[4] = d
      OBVIOUS
    <3>2. late \in 0 .. 4 /\ NoSlot \in 0 .. 4 BY DEF NoSlot
    <3> HIDE DEF late
    <3> QED BY <3>1, <3>2
  <2>3. /\ fmt.platform \in TwoGraphicsBlocks => all = two
        /\ fmt.platform = "Xbox360" => all = xbox
        /\ fmt.platform \notin TwoGraphicsBlocks /\ fmt.platform # "Xbox360" => all = pc
    <3>1. "Xbox360" \notin TwoGraphicsBlocks BY DEF TwoGraphicsBlocks
    <3> HIDE DEF two, xbox, pc
    <3> QED BY <3>1
  <2>4. n \in 3 .. 4 /\ (fmt.version >= 3 => n = 4 /\ late = 3) OBVIOUS
  <2> HIDE DEF two, xbox, pc
  <2>5. all \in Seq(0 .. 4) /\ Len(all) = 4 BY <2>2, <2>3
  <2> HIDE DEF all, n, late
  <2>6. ASSUME NEW b \in 1 .. n, all[b] \in Slots PROVE all[b] \in StoredSlots(fmt)
    <3>1. b \in DOMAIN SubSeq(all, 1, n) /\ SubSeq(all, 1, n)[b] = all[b]
      BY <2>4, <2>5
    <3> QED BY <1>1, <2>1, <2>6, <3>1
  <2>7. /\ 1 \in 1 .. n /\ 2 \in 1 .. n /\ 3 \in 1 .. n /\ (fmt.version >= 3 => 4 \in 1 .. n)
        /\ 0 \in Slots /\ 1 \in Slots /\ 2 \in Slots /\ 3 \in Slots
    BY <2>4 DEF Slots
  <2>8. CASE fmt.platform \in TwoGraphicsBlocks
    <3>1. {0, 1, 2} \subseteq StoredSlots(fmt) BY <2>2, <2>3, <2>6, <2>7, <2>8
    <3>2. fmt.version >= 3 => 3 \in StoredSlots(fmt)
      BY <2>2, <2>3, <2>4, <2>6, <2>7, <2>8
    <3> QED BY <1>2, <2>8, <3>1, <3>2 DEF MemoryTypes, BaseMemoryTypes
  <2>9. CASE fmt.platform = "Xbox360"
    <3>1. {0, 1} \subseteq StoredSlots(fmt) BY <2>2, <2>3, <2>6, <2>7, <2>9
    <3>2. fmt.version >= 3 => 3 \in StoredSlots(fmt)
      BY <2>2, <2>3, <2>4, <2>6, <2>7, <2>9
    <3> QED BY <1>2, <2>9, <3>1, <3>2 DEF MemoryTypes, BaseMemoryTypes, TwoGraphicsBlocks
  <2>10. CASE fmt.platform \notin TwoGraphicsBlocks /\ fmt.platform # "Xbox360"
    <3>1. {0, 3} \subseteq StoredSlots(fmt) BY <2>2, <2>3, <2>6, <2>7, <2>10
    <3> QED BY <1>2, <2>10, <3>1 DEF MemoryTypes, BaseMemoryTypes
  <2> QED BY <2>8, <2>9, <2>10
<1>3. CASE ~IsBnd2(fmt)
  <2>1. fmt.platform \in {"PC", "Xbox360", "PS3"} BY <1>3 DEF IsValidPlatform
  <2>2. 0 \in Slots /\ 1 \in Slots /\ 2 \in Slots /\ 3 \in Slots BY DEF Slots
  <2>3. FileBlocks(fmt) = BndlFileBlocks(fmt) BY <1>3 DEF FileBlocks
  <2>4. CASE fmt.platform = "Xbox360"
    <3>1. FileBlocks(fmt) = <<0, 3, 1, NoSlot, NoSlot>>
      BY <2>3, <2>4 DEF BndlFileBlocks
    <3>2. /\ 1 \in DOMAIN FileBlocks(fmt) /\ 3 \in DOMAIN FileBlocks(fmt)
          /\ FileBlocks(fmt)[1] = 0 /\ FileBlocks(fmt)[3] = 1
      BY <3>1
    <3>3. {0, 1} \subseteq StoredSlots(fmt) BY <1>1, <2>2, <3>2
    <3> QED BY <1>3, <2>4, <3>3 DEF MemoryTypes, BaseMemoryTypes, TwoGraphicsBlocks
  <2>5. CASE fmt.platform = "PS3"
    <3>1. FileBlocks(fmt) = <<0, 3, NoSlot, NoSlot, 1, 2>>
      BY <2>3, <2>5 DEF BndlFileBlocks
    <3>2. /\ 1 \in DOMAIN FileBlocks(fmt) /\ 5 \in DOMAIN FileBlocks(fmt)
          /\ 6 \in DOMAIN FileBlocks(fmt)
          /\ FileBlocks(fmt)[1] = 0 /\ FileBlocks(fmt)[5] = 1 /\ FileBlocks(fmt)[6] = 2
      BY <3>1
    <3>3. {0, 1, 2} \subseteq StoredSlots(fmt) BY <1>1, <2>2, <3>2
    <3> QED BY <1>3, <2>5, <3>3 DEF MemoryTypes, BaseMemoryTypes, TwoGraphicsBlocks
  <2>6. CASE fmt.platform = "PC"
    <3>1. FileBlocks(fmt) = <<0, 3, NoSlot, NoSlot>>
      BY <2>3, <2>6 DEF BndlFileBlocks
    <3>2. /\ 1 \in DOMAIN FileBlocks(fmt) /\ 2 \in DOMAIN FileBlocks(fmt)
          /\ FileBlocks(fmt)[1] = 0 /\ FileBlocks(fmt)[2] = 3
      BY <3>1
    <3>3. {0, 3} \subseteq StoredSlots(fmt) BY <1>1, <2>2, <3>2
    <3> QED BY <1>3, <2>6, <3>3 DEF MemoryTypes, BaseMemoryTypes, TwoGraphicsBlocks
  <2> QED BY <2>1, <2>4, <2>5, <2>6
<1> QED BY <1>2, <1>3

-----------------------------------------------------------------------------
(* Rows *)

\* Saving drops the blocks of size 0, so not one that holds imports.
LEMMA SavedReadable ==
    ASSUME NEW impl, NEW e, IsEntry(e), ReadableEntry(impl.fmt, e)
    PROVE  ReadableEntry(impl.fmt, SavedEntry(impl, e))
<1> DEFINE saved == SavedEntry(impl, e)
<1>1. ASSUME NEW s \in DOMAIN saved.blocks
      PROVE  /\ s \in DOMAIN e.blocks
             /\ saved.blocks[s].payload = e.blocks[s].payload
             /\ saved.blocks[s].trailer = e.blocks[s].trailer
  <2>1. s \in SavedSlots(impl, e) BY DEF SavedEntry
  <2>2. s \in DOMAIN e.blocks BY <2>1 DEF SavedSlots
  <2>3. e.blocks[s] \in Block BY <2>2 DEF IsEntry, IsBlockMap, IsMap
  <2>4. saved.blocks[s] = [e.blocks[s] EXCEPT !.align = SavedAlignment(impl, e, s)]
    BY <2>1 DEF SavedEntry
  <2> QED BY <2>2, <2>3, <2>4 DEF Block
<1>2. ASSUME NEW s \in MemoryTypes(impl.fmt), s \in DOMAIN saved.blocks
      PROVE  Decodable(saved.blocks[s])
  BY <1>1, <1>2 DEF ReadableEntry, Decodable
<1>3. ASSUME IsBnd2(impl.fmt) PROVE TrailerFits(saved)
  <2>1. saved.importCount = e.importCount /\ saved.importOffset = e.importOffset
    BY <1>3 DEF SavedEntry
  <2>2. TrailerFits(e) BY <1>3, MemoryTypesAreSlots DEF ReadableEntry
  <2>3. CASE e.importCount > 0
    <3> DEFINE b == e.blocks[MainMemory]
    <3>1. /\ MainMemory \in DOMAIN e.blocks
          /\ BlockSize(b) - e.importOffset >= 0
          /\ (BlockSize(b) - e.importOffset) \div 16 >= e.importCount
      BY <2>2, <2>3 DEF TrailerFits, ImportEntrySize
    <3>2. b \in Block BY <3>1 DEF IsEntry, IsBlockMap, IsMap
    <3>3. Size[b.payload] \in Nat /\ Len(b.trailer) \in Nat
      BY <3>2, ContainerAssumption DEF Block
    <3>4. e.importCount \in Nat /\ e.importOffset \in Nat BY DEF IsEntry
    <3>5. BlockSize(b) = Size[b.payload] + 16 * Len(b.trailer)
      BY DEF BlockSize, ImportEntrySize
    <3> HIDE DEF b
    <3>6. BlockSize(b) \in Nat BY <3>3, <3>5
    <3>7. BlockSize(b) > 0
      <4>1. \A x, y, c \in Nat : c > 0 /\ x - y >= 0 /\ (x - y) \div 16 >= c => x > 0
        OBVIOUS
      <4> QED BY <2>3, <3>1, <3>4, <3>6, <4>1
    <3>8. b.payload # Empty \/ b.trailer # <<>>
      BY <3>2, <3>3, <3>5, <3>7, ContainerAssumption DEF Block
    <3>9. MainMemory \in DOMAIN saved.blocks
      <4>1. MainMemory \in StoredSlots(impl.fmt) BY <1>3, MainMemoryStored
      <4>2. MainMemory \in SavedSlots(impl, e) BY <3>1, <3>8, <4>1 DEF SavedSlots, HasSize, b
      <4> QED BY <4>2 DEF SavedEntry
    <3>10. BlockSize(saved.blocks[MainMemory]) = BlockSize(b)
      BY <1>1, <3>9 DEF BlockSize, b
    <3> HIDE DEF saved
    <3> QED BY <2>1, <3>1, <3>9, <3>10 DEF TrailerFits, ImportEntrySize
  <2>4. CASE ~(e.importCount > 0)
    <3> HIDE DEF saved
    <3> QED BY <2>1, <2>4 DEF TrailerFits
  <2> QED BY <2>3, <2>4
<1>4. ReadableEntry(impl.fmt, saved)
  <2> HIDE DEF saved
  <2> QED BY <1>2, <1>3 DEF ReadableEntry
<1> QED BY <1>4

\* The other way round: a file has a block for each memory type, and what it
\* leaves out has no bytes, so a save repairs nothing.
LEMMA SavedUnreadable ==
    ASSUME NEW impl, IsImpl(impl), SaveVerdict(impl.fmt, impl.flags) = "Success",
           NEW e, IsEntry(e), ReadableEntry(impl.fmt, SavedEntry(impl, e))
    PROVE  ReadableEntry(impl.fmt, e)
<1> DEFINE saved == SavedEntry(impl, e)
<1>1. MemoryTypes(impl.fmt) \subseteq StoredSlots(impl.fmt)
  <2>1. IsValidPlatform(impl.fmt) BY DEF SaveVerdict
  <2> QED BY <2>1, ImplFields, MemoryTypesStored
<1>2. ASSUME NEW s \in SavedSlots(impl, e)
      PROVE  /\ s \in DOMAIN e.blocks /\ s \in DOMAIN saved.blocks
             /\ saved.blocks[s].payload = e.blocks[s].payload
             /\ saved.blocks[s].trailer = e.blocks[s].trailer
  <2>1. s \in DOMAIN e.blocks BY DEF SavedSlots
  <2>2. e.blocks[s] \in Block BY <2>1 DEF IsEntry, IsBlockMap, IsMap
  <2>3. /\ s \in DOMAIN saved.blocks
        /\ saved.blocks[s] = [e.blocks[s] EXCEPT !.align = SavedAlignment(impl, e, s)]
    BY DEF SavedEntry
  <2> QED BY <2>1, <2>2, <2>3 DEF Block
<1>3. ASSUME NEW s \in MemoryTypes(impl.fmt), s \in DOMAIN e.blocks
      PROVE  Decodable(e.blocks[s])
  <2>1. CASE s \in SavedSlots(impl, e)
    <3>1. Decodable(saved.blocks[s]) BY <1>2, <1>3, <2>1 DEF ReadableEntry
    <3> QED BY <1>2, <2>1, <3>1 DEF Decodable
  <2>2. CASE s \notin SavedSlots(impl, e)
    <3>1. e.blocks[s].payload = Empty BY <1>1, <1>3, <2>2 DEF SavedSlots, HasSize
    <3> QED BY <3>1, ContainerAssumption DEF Decodable
  <2> QED BY <2>1, <2>2
<1>4. ASSUME IsBnd2(impl.fmt) PROVE TrailerFits(e)
  <2>1. saved.importCount = e.importCount /\ saved.importOffset = e.importOffset
    BY <1>4 DEF SavedEntry
  <2>2. TrailerFits(saved) BY <1>4, MemoryTypesAreSlots DEF ReadableEntry
  <2>3. DOMAIN saved.blocks = SavedSlots(impl, e) BY DEF SavedEntry
  <2> HIDE DEF saved
  <2>4. CASE e.importCount > 0
    <3>1. MainMemory \in SavedSlots(impl, e) BY <2>1, <2>2, <2>3, <2>4 DEF TrailerFits
    <3>2. BlockSize(saved.blocks[MainMemory]) = BlockSize(e.blocks[MainMemory])
      BY <1>2, <3>1 DEF BlockSize
    <3> QED BY <1>2, <2>1, <2>2, <3>1, <3>2 DEF TrailerFits
  <2>5. CASE ~(e.importCount > 0) BY <2>5 DEF TrailerFits
  <2> QED BY <2>4, <2>5
<1> QED BY <1>3, <1>4 DEF ReadableEntry

\* A row keeps the entry's type, and its imports in BND2, where the row has them.
LEMMA SavedFields ==
    ASSUME NEW impl, NEW e
    PROVE  LET saved == SavedEntry(impl, e)
           IN  /\ saved.type = e.type
               /\ DOMAIN saved.blocks = SavedSlots(impl, e)
               /\ IsBnd2(impl.fmt) => /\ saved.importCount = e.importCount
                                      /\ saved.importOffset = e.importOffset
    BY DEF SavedEntry

-----------------------------------------------------------------------------
(* Loading what was saved *)

\* The bundle that a file is loaded as, when nothing in it is mistaken.
Loaded(img) == IF IsBnd2(img.fmt) THEN LoadedBnd2(img) ELSE LoadedBndl(img)

\* A file of a bundle that Save accepts and that holds no resource under a key
\* the format uses for itself is loaded, in one way, and has the rows of all of
\* the bundle's entries.
LEMMA Reloaded ==
    ASSUME NEW impl, IsImpl(impl), NeedsFlag(impl),
           SaveVerdict(impl.fmt, impl.flags) = "Success",
           ReservedKeys(impl.fmt) \cap DOMAIN impl.entries = {},
           NEW img \in CutImages(impl)
    PROVE  /\ img.fmt = impl.fmt
           /\ Loads(img) = {LoadSuccess(Loaded(img))}
           /\ RowEntries(img) = [k \in DOMAIN impl.entries |-> SavedEntry(impl, impl.entries[k])]
<1>1. PICK table : img = ImageWith(impl, table) BY CutImageTable
<1> DEFINE written == AfterSave(impl).entries
<1>2. DOMAIN written = DOMAIN impl.entries
  <2> HIDE DEF written
  <2> QED BY WrittenEntries DEF written
<1>3. /\ img.rows = {[key |-> k, entry |-> SavedEntry(impl, impl.entries[k])] :
                         k \in DOMAIN impl.entries}
      /\ RowEntries(img) = [k \in DOMAIN impl.entries |-> SavedEntry(impl, impl.entries[k])]
  BY <1>2, SavedRows
<1>4. /\ img.fmt = impl.fmt
      /\ img.flags = IF IsBnd2(impl.fmt) THEN impl.flags ELSE impl.flags \cap {"Compressed"}
      /\ img.overcount <=> BorrowsStringTableKey(impl) /\ StringTableKey \in DOMAIN impl.entries
  BY <1>1 DEF ImageWith
<1>5. IsValidVersion(img.fmt) /\ IsValidPlatform(img.fmt) BY <1>4 DEF SaveVerdict
<1>6. CASE IsBnd2(impl.fmt)
  <2>1. ASSUME NEW row \in img.rows
        PROVE  row.key[1] # 0 /\ (row.key[2] # 0 => "MultistreamBundle" \in img.flags)
    <3>1. PICK k \in DOMAIN impl.entries :
              row = [key |-> k, entry |-> SavedEntry(impl, impl.entries[k])]
      BY <1>3
    <3>2. row.key = k BY <3>1
    <3>3. k \in Key BY ImplFields DEF IsEntries
    <3>4. k[1] # 0 BY <1>6, <3>3 DEF ReservedKeys
    <3> QED BY <1>4, <1>6, <3>2, <3>4 DEF NeedsFlag
  <2>2. Bnd2Loads(img) = {LoadSuccess(LoadedBnd2(img))} BY <2>1 DEF Bnd2Loads
  <2> QED BY <1>3, <1>4, <1>5, <1>6, <2>2 DEF Loads, Loaded
<1>7. CASE ~IsBnd2(impl.fmt)
  <2>1. StringTableKey \notin DOMAIN impl.entries BY <1>7 DEF ReservedKeys
  <2>2. ~img.overcount BY <1>4, <2>1
  <2>3. IsImage(img) BY ImageTyped
  <2>4. ~TakenForTable(LoadedBndl(img))
    <3>1. DOMAIN LoadedBndl(img).entries = DOMAIN impl.entries
      BY <1>3, <2>3, LoadedBndlTyped
    <3> QED BY <2>1, <3>1 DEF TakenForTable
  <2>5. BndlLoads(img) = {LoadSuccess(LoadedBndl(img))}
    BY <2>2, <2>4, Zenon DEF BndlLoads
  <2> QED BY <1>3, <1>4, <1>5, <1>7, <2>5 DEF Loads, Loaded
<1> QED BY <1>6, <1>7

\* What a file of a bundle is loaded as can be read where the bundle can.
LEMMA ReadableReloaded ==
    ASSUME NEW impl, IsImpl(impl), NeedsFlag(impl),
           SaveVerdict(impl.fmt, impl.flags) = "Success",
           ReservedKeys(impl.fmt) \cap DOMAIN impl.entries = {},
           NEW img \in CutImages(impl)
    PROVE  /\ DOMAIN Loaded(img).entries = DOMAIN impl.entries
           /\ \A k \in DOMAIN impl.entries :
                    CanReadResource(Loaded(img), k) <=> CanReadResource(impl, k)
<1> DEFINE other == Loaded(img)
           rows  == RowEntries(img)
<1>1. img.fmt = impl.fmt
      /\ rows = [k \in DOMAIN impl.entries |-> SavedEntry(impl, impl.entries[k])]
  BY Reloaded
<1>2. /\ other.fmt = impl.fmt /\ DOMAIN other.entries = DOMAIN rows
      /\ \A k \in DOMAIN rows :
            /\ other.entries[k].blocks = rows[k].blocks
            /\ IsBnd2(impl.fmt) => other.entries[k] = rows[k]
  <2>1. CASE IsBnd2(impl.fmt)
    BY <1>1, <2>1 DEF Loaded, LoadedBnd2
  <2>2. CASE ~IsBnd2(impl.fmt)
    <3>1. other = LoadedBndl(img) BY <1>1, <2>2 DEF Loaded
    <3>2. IsImage(img) BY ImageTyped
    <3> QED BY <1>1, <2>2, <3>1, <3>2, LoadedBndlTyped
  <2> QED BY <2>1, <2>2
<1> HIDE DEF other, rows
<1>3. ASSUME NEW k \in DOMAIN impl.entries
      PROVE  CanReadResource(other, k) <=> CanReadResource(impl, k)
  <2> DEFINE e == impl.entries[k]
  <2>1. IsEntry(e) BY ImplFields DEF IsEntries
  <2>2. rows[k] = SavedEntry(impl, e) BY <1>1
  <2>3. ReadableEntry(impl.fmt, other.entries[k]) <=> ReadableEntry(impl.fmt, rows[k])
    BY <1>1, <1>2 DEF ReadableEntry
  <2>4. ReadableEntry(impl.fmt, rows[k]) <=> ReadableEntry(impl.fmt, e)
    BY <2>1, <2>2, SavedReadable, SavedUnreadable
  <2> QED BY <1>2, <2>3, <2>4, ReadableEntries
<1> QED BY <1>1, <1>2, <1>3 DEF other

-----------------------------------------------------------------------------
(* What is read of a loaded file *)

\* Where imports are: in BND2 behind the main memory block, as many as the entry
\* counts and where it looks for them; in BNDL behind no block.
KeepsImports(fmt, e) ==
    /\ \A s \in MemoryTypes(fmt) \cap DOMAIN e.blocks :
            ~(IsBnd2(fmt) /\ s = MainMemory) => e.blocks[s].trailer = <<>>
    /\ IsBnd2(fmt) /\ MainMemory \in DOMAIN e.blocks =>
            LET block == e.blocks[MainMemory]
            IN  /\ e.importCount = Len(block.trailer)
                /\ block.trailer # <<>> => e.importOffset = Size[block.payload]

\* An entry of BNDL that counts no imports is of an id that has none.
CountsList(impl, k) ==
    impl.entries[k].importCount = 0 /\ k[1] \in DOMAIN impl.imports => impl.imports[k[1]] = <<>>

\* A replacement that finishes puts the imports where they are looked for.
LEMMA ReplacedKeepsImports ==
    ASSUME NEW impl, NEW e, NEW r, Given(r)
    PROVE  KeepsImports(impl.fmt, ReplacedEntry(impl, e, r, Finished))
<1> DEFINE new == ReplacedEntry(impl, e, r, Finished)
<1>1. \A s \in MemoryTypes(impl.fmt) : s < Finished
  BY MemoryTypesAreSlots DEF Slots, Finished
<1>2. /\ new.importCount = IF CountsImports(impl.fmt, r, Finished) THEN Len(r.imports) ELSE 0
      /\ new.importOffset = OffsetFor(impl.fmt, r)
      /\ \A s \in MemoryTypes(impl.fmt) \cap DOMAIN new.blocks :
            s \in DOMAIN r.blocks /\ new.blocks[s] = StoredBlock(impl.fmt, r, s)
  BY <1>1 DEF ReplacedEntry
<1>3. /\ r.imports \in Seq(ResourceIDs)
      /\ \A s \in DOMAIN r.blocks : r.blocks[s] \in Block /\ r.blocks[s].trailer = <<>>
  BY DEF Given, IsResource, IsBlockMap, IsMap
<1> HIDE DEF new
<1>4. ASSUME NEW s \in MemoryTypes(impl.fmt) \cap DOMAIN new.blocks,
             ~(IsBnd2(impl.fmt) /\ s = MainMemory)
      PROVE  new.blocks[s].trailer = <<>>
  BY <1>2, <1>3, <1>4 DEF StoredBlock
<1>5. ASSUME IsBnd2(impl.fmt), MainMemory \in DOMAIN new.blocks
      PROVE  LET block == new.blocks[MainMemory]
             IN  /\ new.importCount = Len(block.trailer)
                 /\ block.trailer # <<>> => new.importOffset = Size[block.payload]
  <2> DEFINE b == r.blocks[MainMemory]
  <2>1. /\ MainMemory \in DOMAIN r.blocks
        /\ new.blocks[MainMemory] = [b EXCEPT !.trailer = r.imports]
    BY <1>2, <1>5, MemoryTypesAreSlots DEF StoredBlock
  <2>2. b = [payload |-> b.payload, trailer |-> <<>>, align |-> b.align]
    BY <1>3, <2>1 DEF Block
  <2> HIDE DEF b
  <2>3. /\ new.blocks[MainMemory].trailer = r.imports
        /\ new.blocks[MainMemory].payload = b.payload
    BY <2>1, <2>2
  <2>4. new.importCount = Len(r.imports) BY <1>2, <1>5, <2>1 DEF CountsImports
  <2>5. r.imports # <<>> => new.importOffset = Size[b.payload]
    BY <1>2, <1>5, <2>1 DEF OffsetFor, b
  <2> QED BY <2>3, <2>4, <2>5
<1>6. KeepsImports(impl.fmt, new) BY <1>4, <1>5 DEF KeepsImports
<1> QED BY <1>6 DEF new

\* Nor does a file lose them: a block that leaves no trace has no imports.
LEMMA SavedKeepsImports ==
    ASSUME NEW impl, NEW e, IsEntry(e), KeepsImports(impl.fmt, e)
    PROVE  KeepsImports(impl.fmt, SavedEntry(impl, e))
<1> DEFINE saved == SavedEntry(impl, e)
<1>1. /\ DOMAIN saved.blocks \subseteq DOMAIN e.blocks
      /\ \A s \in DOMAIN saved.blocks :
            saved.blocks[s] = [e.blocks[s] EXCEPT !.align = SavedAlignment(impl, e, s)]
      /\ IsBnd2(impl.fmt) => /\ saved.importCount = e.importCount
                             /\ saved.importOffset = e.importOffset
  BY DEF SavedEntry, SavedSlots
<1>2. ASSUME NEW s \in DOMAIN saved.blocks
      PROVE  /\ saved.blocks[s].trailer = e.blocks[s].trailer
             /\ saved.blocks[s].payload = e.blocks[s].payload
  <2>1. e.blocks[s] \in Block BY <1>1 DEF IsEntry, IsBlockMap, IsMap
  <2> HIDE DEF saved
  <2> QED BY <1>1, <2>1 DEF Block
<1> HIDE DEF saved
<1>3. KeepsImports(impl.fmt, saved) BY <1>1, <1>2 DEF KeepsImports
<1> QED BY <1>3 DEF saved

\* Reading an entry whose imports are where it looks for them.
LEMMA PlainRead ==
    ASSUME NEW impl, NEW k, NEW e, e = impl.entries[k], IsEntry(e), KeepsImports(impl.fmt, e),
           ReadableEntry(impl.fmt, e)
    PROVE  /\ \A s \in MemoryTypes(impl.fmt) \cap DOMAIN e.blocks :
                ReadBlock(impl, k, s) = [payload |-> e.blocks[s].payload, trailer |-> <<>>,
                                         align |-> e.blocks[s].align]
           /\ IsBnd2(impl.fmt) =>
                ReadImports(impl, k) = IF MainMemory \in DOMAIN e.blocks
                                       THEN e.blocks[MainMemory].trailer ELSE <<>>
<1> DEFINE main == e.blocks[MainMemory]
<1>1. /\ e.importCount \in Nat
      /\ \A s \in DOMAIN e.blocks : /\ e.blocks[s] \in Block
                                    /\ e.blocks[s].trailer \in Seq(ResourceIDs)
  <2>1. \A s \in DOMAIN e.blocks : e.blocks[s] \in Block BY DEF IsEntry, IsBlockMap, IsMap
  <2> QED BY <2>1 DEF IsEntry, Block
<1>2. MainMemory \in MemoryTypes(impl.fmt) BY MemoryTypesAreSlots
<1>3. CASE IsBnd2(impl.fmt) /\ MainMemory \in DOMAIN e.blocks /\ e.importCount > 0
  <2>1. /\ e.importCount = Len(main.trailer)
        /\ main.trailer # <<>> => e.importOffset = Size[main.payload]
    BY <1>3 DEF KeepsImports
  <2>2. main \in Block /\ main.trailer \in Seq(ResourceIDs) BY <1>1, <1>3
  <2> HIDE DEF main
  <2>3. main.trailer # <<>> /\ SubSeq(main.trailer, 1, Len(main.trailer)) = main.trailer
    BY <1>3, <2>1, <2>2
  <2>4. SplitPayload(e) = main.payload /\ SplitImports(e) = main.trailer
    BY <2>1, <2>3 DEF SplitPayload, SplitImports, main
  <2>5. ReadImports(impl, k) = main.trailer BY <1>3, <2>4 DEF ReadImports
  <2>6. ReadBlock(impl, k, MainMemory) =
            [payload |-> main.payload, trailer |-> <<>>, align |-> main.align]
    <3> DEFINE split == [main EXCEPT !.payload = SplitPayload(e)]
    <3>1. ReadBlock(impl, k, MainMemory) = [split EXCEPT !.trailer = <<>>]
      BY <1>3 DEF ReadBlock, main
    <3>2. split = [payload |-> main.payload, trailer |-> main.trailer, align |-> main.align]
      BY <2>2, <2>4 DEF Block
    <3> HIDE DEF split
    <3> QED BY <3>1, <3>2
  <2>7. \A s \in MemoryTypes(impl.fmt) \cap DOMAIN e.blocks : s # MainMemory =>
            /\ ReadBlock(impl, k, s) = e.blocks[s] /\ e.blocks[s].trailer = <<>>
    BY DEF ReadBlock, KeepsImports
  <2> QED BY <1>1, <1>3, <2>5, <2>6, <2>7 DEF Block, main
<1>4. CASE ~(IsBnd2(impl.fmt) /\ MainMemory \in DOMAIN e.blocks /\ e.importCount > 0)
  <2>1. IsBnd2(impl.fmt) => e.importCount = 0
    BY <1>1, <1>2, <1>4 DEF ReadableEntry, TrailerFits
  <2>2. \A s \in MemoryTypes(impl.fmt) \cap DOMAIN e.blocks : e.blocks[s].trailer = <<>>
    <3>1. \A list \in Seq(ResourceIDs) : Len(list) = 0 => list = <<>> OBVIOUS
    <3>2. IsBnd2(impl.fmt) /\ MainMemory \in DOMAIN e.blocks => Len(main.trailer) = 0
      BY <2>1 DEF KeepsImports
    <3> QED BY <1>1, <3>1, <3>2 DEF KeepsImports
  <2>3. \A s : ReadBlock(impl, k, s) = e.blocks[s] BY <2>1 DEF ReadBlock
  <2>4. IsBnd2(impl.fmt) => ReadImports(impl, k) = <<>> BY <2>1 DEF ReadImports
  <2> QED BY <1>1, <1>2, <2>2, <2>3, <2>4 DEF Block
<1> QED BY <1>3, <1>4

\* The imports that BNDL's files give back are those that were read before.
LEMMA ListReadsBack ==
    ASSUME NEW impl, IsImpl(impl), ~IsBnd2(impl.fmt), NEW k \in DOMAIN impl.entries,
           CountsList(impl, k), NEW other, ~IsBnd2(other.fmt),
           other.imports = SavedImports(impl),
           other.entries[k].importCount =
                IF k[1] \in DOMAIN other.imports THEN Len(other.imports[k[1]]) ELSE 0
    PROVE  ReadImports(other, k) = ReadImports(impl, k)
<1>1. k[1] \in SavedIDs(impl) BY DEF SavedIDs
<1>2. /\ k[1] \in DOMAIN other.imports <=>
            k[1] \in DOMAIN impl.imports /\ impl.imports[k[1]] # <<>>
      /\ k[1] \in DOMAIN other.imports => other.imports[k[1]] = impl.imports[k[1]]
  BY <1>1 DEF SavedImports
<1>3. CASE k[1] \notin DOMAIN impl.imports BY <1>2, <1>3 DEF ReadImports
<1>4. CASE k[1] \in DOMAIN impl.imports
  <2> DEFINE list == impl.imports[k[1]]
  <2>1. list \in Seq(ResourceIDs) BY <1>4 DEF IsImpl, IsImportLists, IsMap
  <2> HIDE DEF list
  <2>2. Len(list) = 0 => list = <<>> BY <2>1
  <2>3. ReadImports(other, k) = list BY <1>2, <1>4, <2>2 DEF ReadImports, list
  <2>4. ReadImports(impl, k) = list BY <1>4 DEF ReadImports, CountsList, list
  <2> QED BY <2>3, <2>4
<1> QED BY <1>3, <1>4

\* What is read of a loaded file: the type, the imports and, for each block that has
\* a size, the same bytes under the alignment that the file gives it.
LEMMA SavedRead ==
    ASSUME NEW impl, IsImpl(impl), NeedsFlag(impl),
           SaveVerdict(impl.fmt, impl.flags) = "Success",
           ReservedKeys(impl.fmt) \cap DOMAIN impl.entries = {},
           NEW img \in CutImages(impl), NEW k \in DOMAIN impl.entries, CanReadResource(impl, k),
           KeepsImports(impl.fmt, impl.entries[k]), IsBnd2(impl.fmt) \/ CountsList(impl, k)
    PROVE  LET e == impl.entries[k]
           IN  /\ CanReadResource(Loaded(img), k)
               /\ ReadResource(Loaded(img), k) =
                    [type    |-> e.type,
                     blocks  |-> [s \in {x \in MemoryTypes(impl.fmt) \cap DOMAIN e.blocks :
                                            HasSize(impl, e.blocks[x])} |->
                                    [payload |-> e.blocks[s].payload, trailer |-> <<>>,
                                     align |-> SavedAlignment(impl, e, s)]],
                     imports |-> ReadImports(impl, k)]
<1> DEFINE other == Loaded(img)
           e     == impl.entries[k]
           saved == SavedEntry(impl, e)
           new   == other.entries[k]
           fmt   == impl.fmt
           types == MemoryTypes(fmt)
<1>1. IsEntry(e) /\ ReadableEntry(fmt, e) /\ KeepsImports(fmt, e) /\ k \in Key
  BY ImplFields, ReadableEntries DEF IsEntries
<1>2. CanReadResource(other, k) BY ReadableReloaded
<1>3. RowEntries(img)[k] = saved /\ k \in DOMAIN RowEntries(img) /\ img.fmt = fmt
  BY Reloaded
<1>4. IsImage(img) BY ImageTyped
<1>5. /\ other.fmt = fmt /\ new.blocks = saved.blocks /\ new.type = e.type /\ IsEntry(new)
      /\ IsBnd2(fmt) => new = saved
      /\ ~IsBnd2(fmt) => new.importCount =
            IF k[1] \in DOMAIN other.imports THEN Len(other.imports[k[1]]) ELSE 0
  <2>1. IsEntry(saved) /\ saved.type = e.type
    <3>1. saved.type = e.type BY DEF SavedEntry
    <3>2. IsEntries(RowEntries(img)) BY <1>4, RowEntriesTyped
    <3> HIDE DEF saved
    <3>3. IsEntry(saved) BY <1>3, <3>2 DEF IsEntries
    <3> QED BY <3>1, <3>3
  <2>2. CASE IsBnd2(fmt)
    <3>1. other.fmt = fmt /\ new = saved BY <1>3, <2>2 DEF Loaded, LoadedBnd2
    <3> HIDE DEF other, new, saved
    <3> QED BY <2>1, <2>2, <3>1
  <2>3. CASE ~IsBnd2(fmt)
    <3> DEFINE n == IF k[1] \in DOMAIN img.imports THEN Len(img.imports[k[1]]) ELSE 0
    <3>1. other = LoadedBndl(img) BY <1>3, <2>3 DEF Loaded
    <3>2. IsImpl(other) /\ other.fmt = fmt BY <1>3, <1>4, <3>1, LoadedBndlTyped
    <3>3. other.imports = img.imports /\ new = LoadedBndlEntry(img, k)
      <4>1. /\ LoadedBndl(img).imports = img.imports
            /\ LoadedBndl(img).entries = [q \in DOMAIN RowEntries(img) |-> LoadedBndlEntry(img, q)]
        BY DEF LoadedBndl
      <4> HIDE DEF other, saved
      <4> QED BY <1>3, <3>1, <4>1
    <3>4. new = [saved EXCEPT !.importCount = n] BY <1>3, <3>3 DEF LoadedBndlEntry
    <3>5. k \in DOMAIN other.entries BY <1>3, <1>4, <3>1, LoadedBndlTyped
    <3>6. IsEntry(new) BY <3>2, <3>5, ImplFields DEF IsEntries
    <3> HIDE DEF other, new, saved
    <3>7. new.importCount = n /\ new.blocks = saved.blocks /\ new.type = saved.type
      BY <2>1, <3>4 DEF IsEntry
    <3> QED BY <2>1, <2>3, <3>2, <3>3, <3>6, <3>7
  <2> QED BY <2>2, <2>3
<1>6. /\ DOMAIN saved.blocks = SavedSlots(impl, e)
      /\ \A s \in SavedSlots(impl, e) :
            saved.blocks[s] = [e.blocks[s] EXCEPT !.align = SavedAlignment(impl, e, s)]
  BY DEF SavedEntry
<1>7. \A s \in DOMAIN e.blocks : e.blocks[s] \in Block BY <1>1 DEF IsEntry, IsBlockMap, IsMap
<1>8. KeepsImports(fmt, saved) BY <1>1, SavedKeepsImports
<1> HIDE DEF other, saved, new, e
<1>9. KeepsImports(fmt, new) /\ ReadableEntry(fmt, new)
  BY <1>2, <1>5, <1>8, ReadableEntries DEF KeepsImports, new
<1>10. /\ \A s \in types \cap DOMAIN e.blocks :
            ReadBlock(impl, k, s) = [payload |-> e.blocks[s].payload, trailer |-> <<>>,
                                     align |-> e.blocks[s].align]
       /\ IsBnd2(fmt) => ReadImports(impl, k) = IF MainMemory \in DOMAIN e.blocks
                                                THEN e.blocks[MainMemory].trailer ELSE <<>>
  BY <1>1, PlainRead DEF e
<1>11. /\ \A s \in types \cap DOMAIN new.blocks :
            ReadBlock(other, k, s) = [payload |-> new.blocks[s].payload, trailer |-> <<>>,
                                      align |-> new.blocks[s].align]
       /\ IsBnd2(fmt) => ReadImports(other, k) = IF MainMemory \in DOMAIN new.blocks
                                                 THEN new.blocks[MainMemory].trailer ELSE <<>>
  BY <1>5, <1>9, PlainRead DEF new
<1>12. \A s \in DOMAIN new.blocks :
            /\ s \in DOMAIN e.blocks
            /\ new.blocks[s].payload = e.blocks[s].payload
            /\ new.blocks[s].trailer = e.blocks[s].trailer
            /\ new.blocks[s].align = SavedAlignment(impl, e, s)
  <2> SUFFICES ASSUME NEW s \in DOMAIN new.blocks
               PROVE  /\ s \in DOMAIN e.blocks
                      /\ new.blocks[s].payload = e.blocks[s].payload
                      /\ new.blocks[s].trailer = e.blocks[s].trailer
                      /\ new.blocks[s].align = SavedAlignment(impl, e, s)
    OBVIOUS
  <2> DEFINE b == e.blocks[s]
             a == SavedAlignment(impl, e, s)
  <2>1. s \in SavedSlots(impl, e) /\ s \in DOMAIN e.blocks BY <1>5, <1>6 DEF SavedSlots
  <2>2. new.blocks[s] = [b EXCEPT !.align = a] BY <1>5, <1>6, <2>1
  <2>3. b = [payload |-> b.payload, trailer |-> b.trailer, align |-> b.align]
    BY <1>7, <2>1 DEF Block
  <2> HIDE DEF a, b
  <2>4. new.blocks[s] = [payload |-> b.payload, trailer |-> b.trailer, align |-> a]
    BY <2>2, <2>3
  <2> QED BY <2>1, <2>4 DEF a, b
<1>13. \A s \in types \cap DOMAIN e.blocks :
            s \in DOMAIN new.blocks <=> HasSize(impl, e.blocks[s])
  <2>1. types \subseteq StoredSlots(fmt)
    BY MemoryTypesStored, ImplFields DEF SaveVerdict
  <2> QED BY <1>5, <1>6, <2>1 DEF SavedSlots
<1>14. ReadImports(other, k) = ReadImports(impl, k)
  <2>1. CASE IsBnd2(fmt)
    <3>1. MainMemory \in types BY MemoryTypesAreSlots
    <3>2. CASE MainMemory \in DOMAIN new.blocks BY <1>10, <1>11, <1>12, <2>1, <3>2
    <3>3. CASE MainMemory \notin DOMAIN new.blocks
      <4>1. MainMemory \in DOMAIN e.blocks => e.blocks[MainMemory].trailer = <<>>
        BY <1>13, <3>1, <3>3 DEF HasSize
      <4> QED BY <1>10, <1>11, <2>1, <3>3, <4>1
    <3> QED BY <3>2, <3>3
  <2>2. CASE ~IsBnd2(fmt)
    <3>1. other.imports = SavedImports(impl)
      <4>1. PICK table : img = ImageWith(impl, table) BY CutImageTable
      <4>2. img.imports = SavedImports(impl) BY <4>1 DEF ImageWith
      <4>3. other.imports = img.imports BY <1>3, <2>2 DEF other, Loaded, LoadedBndl
      <4> QED BY <4>2, <4>3
    <3> QED BY <1>5, <2>2, <3>1, ListReadsBack DEF new
  <2> QED BY <2>1, <2>2
<1>15. ReadResource(other, k) =
            [type |-> e.type, imports |-> ReadImports(impl, k),
             blocks |-> [s \in types \cap DOMAIN new.blocks |-> ReadBlock(other, k, s)]]
  BY <1>5, <1>14 DEF ReadResource, new
<1> DEFINE sized == {x \in types \cap DOMAIN e.blocks : HasSize(impl, e.blocks[x])}
           back(s) == [payload |-> e.blocks[s].payload, trailer |-> <<>>,
                       align |-> SavedAlignment(impl, e, s)]
<1>16. types \cap DOMAIN new.blocks = sized
  <2>1. DOMAIN new.blocks \subseteq DOMAIN e.blocks BY <1>12
  <2> QED BY <1>13, <2>1
<1>17. \A s \in sized : ReadBlock(other, k, s) = back(s) BY <1>11, <1>12, <1>16
<1> HIDE DEF sized, back
<1>18. ReadResource(other, k) = [type |-> e.type, blocks |-> [s \in sized |-> back(s)],
                                imports |-> ReadImports(impl, k)]
  BY <1>15, <1>16, <1>17
<1> QED BY <1>2, <1>18 DEF sized, back, e, other

-----------------------------------------------------------------------------
(* The string table *)

\* The writer goes through every key of the debug data, once.
LEMMA OrderCovers ==
    ASSUME NEW impl, IsImpl(impl), NEW order \in RowOrders(impl)
    PROVE  /\ \E n \in Nat : DOMAIN order = 1 .. n
           /\ DOMAIN order \subseteq Nat /\ \A i \in DOMAIN order : order[i] \in DOMAIN impl.debug
           /\ \A i, j \in DOMAIN order : order[i] = order[j] => i = j
           /\ \A k \in DOMAIN impl.debug : \E i \in DOMAIN order : order[i] = k
<1> DEFINE S == DOMAIN impl.debug
           n == Cardinality(S)
<1>1. IsFiniteSet(S) /\ n \in Nat BY DebugKeysFinite, ImplFields
<1>2. order \in [1 .. n -> S] /\ \A i, j \in 1 .. n : i # j => order[i] # order[j]
  BY DEF RowOrders, SetToSeqs
<1> HIDE DEF S
<1>3. order \in Injection(1 .. n, S)
  BY <1>2 DEF Injection, IsInjective
<1>4. Cardinality(1 .. n) = n
  <2> HIDE DEF n
  <2>1. 1 \in Int /\ n \in Int BY <1>1
  <2>2. Cardinality(1 .. n) = IF 1 > n THEN 0 ELSE n - 1 + 1 BY <2>1, FS_Interval
  <2> QED BY <1>1, <2>2
<1>5. order \in Surjection(1 .. n, S) BY <1>1, <1>3, <1>4, FS_Injection
<1>6. \A k \in S : \E i \in 1 .. n : order[i] = k BY <1>5 DEF Surjection
<1> QED BY <1>1, <1>2, <1>6 DEF S

\* The stream that the reader makes out for a row is the one it was written for,
\* if the row names it or it is the first that the resource is stored in.
LEMMA StreamReadsBack ==
    ASSUME NEW impl, IsImpl(impl), NEW order \in RowOrders(impl),
           NEW table, table = TableOf(impl, order),
           NEW entries, DOMAIN entries = DOMAIN impl.entries,
           NEW i \in DOMAIN order, NEW k, k = order[i],
           KeepsStream(impl, k), k[2] < StreamLimit
    PROVE  RowStream(table, i, entries) = k[2]
<1>1. table[i] = [id |-> k[1], stream |-> StreamAttribute(impl, k), name |-> impl.debug[k]]
  BY DEF TableOf
<1>2. k \in DOMAIN impl.entries /\ k[2] \in 0 .. 255
  BY ImplFields, KeyParts DEF IsEntries, KeepsStream
<1>3. CASE StreamAttribute(impl, k) = k[2]
  <2>1. table[i].stream = k[2] BY <1>1, <1>3
  <2>2. k[2] # Omitted /\ k[2] # ImportEntry BY <1>2 DEF Omitted, ImportEntry
  <2>3. RowStream(table, i, entries) = NumberedStream(table[i])
    BY <2>1, <2>2, Zenon DEF RowStream
  <2> QED BY <2>1, <2>3 DEF NumberedStream
<1>4. CASE StreamAttribute(impl, k) = Omitted
  <2>1. table[i].stream = Omitted /\ table[i].id = k[1] BY <1>1, <1>4
  <2>2. RowStream(table, i, entries) = FirstStream(impl.entries, k[1])
    BY <2>1 DEF RowStream, FirstStream, Omitted, ImportEntry
  <2>3. CASE ~HasStreamMetadata(impl.fmt) BY <2>2, <2>3 DEF KeepsStream
  <2>4. CASE HasStreamMetadata(impl.fmt)
    <3>1. Cardinality(DOMAIN impl.entries) = 1
      <4>1. k[2] # Omitted BY <1>2 DEF Omitted
      <4> QED BY <1>2, <1>4, <2>4, <4>1 DEF StreamAttribute
    <3>2. IsFiniteSet(DOMAIN impl.entries)
      <4>1. IsDebugData([q \in DOMAIN impl.entries |-> impl.debug[order[i]]])
        <5>1. impl.debug[order[i]] \in DebugNames
          BY OrderCovers, ImplFields DEF IsDebugData, IsMap
        <5>2. DOMAIN impl.entries \subseteq Key BY ImplFields DEF IsEntries
        <5> QED BY <5>1, <5>2 DEF IsDebugData, IsMap
      <4> QED BY <4>1, DebugKeysFinite
    <3>3. PICK only : DOMAIN impl.entries = {only} BY <3>1, <3>2, FS_Singleton
    <3> DEFINE streams == {q[2] : q \in {e \in DOMAIN impl.entries : e[1] = k[1]}}
    <3>4. streams = {k[2]} BY <1>2, <3>3
    <3>5. FirstStream(impl.entries, k[1]) = IF streams = {} THEN 0 ELSE Min(streams)
      BY DEF FirstStream
    <3> HIDE DEF streams
    <3>6. Min(streams) \in streams
      <4>1. streams \in SUBSET Nat /\ streams # {} BY <1>2, <3>4
      <4>2. \E m \in streams : \A x \in streams : m <= x BY <4>1, MinExists
      <4> QED BY <4>2 DEF Min
    <3> QED BY <2>2, <3>4, <3>5, <3>6
  <2> QED BY <2>3, <2>4
<1> QED BY <1>2, <1>3, <1>4 DEF StreamAttribute

\* Every table the writer may produce reads back as the names it is of, for each
\* id whose rows' streams are found again.
LEMMA NamesReadBack ==
    ASSUME NEW impl, IsImpl(impl), NEW table \in Tables(impl),
           NEW entries, DOMAIN entries = DOMAIN impl.entries,
           \A k \in DOMAIN impl.entries : k[2] < StreamLimit,
           NEW id, \A k \in DOMAIN impl.debug : k[1] = id => KeepsStream(impl, k),
           NEW back, back = ParseTable(table, entries)
    PROVE  [k \in {q \in DOMAIN back : q[1] = id} |-> back[k]] = NamesOf(impl, id)
<1>1. PICK order \in RowOrders(impl) : table = TableOf(impl, order) BY DEF Tables
<1>2. /\ DOMAIN table = DOMAIN order
      /\ \A i \in DOMAIN order : table[i].id = order[i][1] /\ table[i].name = impl.debug[order[i]]
  BY <1>1 DEF TableOf
<1> DEFINE keyOf(i) == <<table[i].id, RowStream(table, i, entries)>>
           keys     == {keyOf(i) : i \in DOMAIN table}
           name(k)  == table[Max({i \in DOMAIN table : keyOf(i) = k})].name
           own      == {k \in DOMAIN impl.debug : k[1] = id}
<1>3. ASSUME NEW i \in DOMAIN table, keyOf(i)[1] = id \/ order[i][1] = id
      PROVE  keyOf(i) = order[i] /\ order[i] \in own
  <2>1. order[i] \in DOMAIN impl.debug /\ order[i][1] = id BY <1>2, <1>3, OrderCovers
  <2>2. KeepsStream(impl, order[i]) /\ order[i][2] < StreamLimit BY <2>1 DEF KeepsStream
  <2>3. RowStream(table, i, entries) = order[i][2] BY <1>1, <1>2, <2>2, StreamReadsBack
  <2>4. order[i] = <<order[i][1], order[i][2]>>
    BY <2>2, ImplFields, KeyParts DEF IsEntries, KeepsStream
  <2> QED BY <1>2, <2>1, <2>3, <2>4
<1>4. {q \in keys : q[1] = id} = own
  <2>1. ASSUME NEW q \in keys, q[1] = id PROVE q \in own
    <3>1. PICK i \in DOMAIN table : q = keyOf(i) OBVIOUS
    <3> HIDE DEF keyOf, own
    <3> QED BY <1>3, <2>1, <3>1
  <2>2. ASSUME NEW q \in own PROVE q \in keys /\ q[1] = id
    <3>1. PICK i \in DOMAIN order : order[i] = q BY OrderCovers
    <3>2. keyOf(i) = q
      <4> HIDE DEF keyOf
      <4> QED BY <1>2, <1>3, <3>1
    <3> HIDE DEF keyOf
    <3> QED BY <1>2, <3>1, <3>2
  <2> HIDE DEF own, keys
  <2> QED BY <2>1, <2>2
<1>5. ASSUME NEW k \in own PROVE name(k) = impl.debug[k]
  <2> DEFINE rows == {i \in DOMAIN table : keyOf(i) = k}
  <2>1. PICK i \in DOMAIN order : order[i] = k BY OrderCovers
  <2>2. k[1] = id OBVIOUS
  <2>3. rows = {i}
    <3> HIDE DEF keyOf, own
    <3>1. keyOf(i) = k BY <1>2, <1>3, <2>1, <2>2
    <3>2. \A j \in DOMAIN table : keyOf(j) = k => order[j] = k BY <1>3, <2>2
    <3>3. \A j \in DOMAIN table : keyOf(j) = k => j = i BY <1>2, <2>1, <3>2, OrderCovers
    <3> QED BY <1>2, <3>1, <3>3
  <2>4. i \in Nat BY <2>1, OrderCovers
  <2>5. Max(rows) = i
    <3> HIDE DEF rows
    <3>1. rows \in SUBSET (0 .. i) /\ rows # {} BY <2>3, <2>4
    <3>2. Max(rows) \in rows BY <2>4, <3>1, MaxIn
    <3> QED BY <2>3, <3>2
  <2> HIDE DEF rows
  <2> QED BY <1>2, <2>1, <2>5 DEF rows
<1>6. back = [k \in keys |-> name(k)] BY DEF ParseTable
<1>7. NamesOf(impl, id) = [k \in own |-> impl.debug[k]] BY DEF NamesOf
<1> HIDE DEF keys, name, own
<1>8. DOMAIN back = keys /\ \A k \in keys : back[k] = name(k) BY <1>6
<1>9. \A k \in own : k \in keys /\ back[k] = impl.debug[k] BY <1>4, <1>5, <1>8
<1> QED BY <1>4, <1>7, <1>8, <1>9

\* What a row that names its stream or says "importEntry" is read as: no higher
\* stream than it was given for, because v5 sorts by stream.
LEMMA StreamNotRaised ==
    ASSUME NEW impl, IsImpl(impl), NamesStreams(impl), NEW order \in RowOrders(impl),
           NEW table, table = TableOf(impl, order), NEW entries,
           NEW i \in DOMAIN order
    PROVE  RowStream(table, i, entries) <= order[i][2]
<1>1. HasStreamMetadata(impl.fmt) BY DEF NamesStreams
<1>2. ASSUME NEW j \in DOMAIN order
      PROVE  /\ order[j][2] \in 0 .. 255
             /\ table[j].stream = IF order[j] \in DOMAIN impl.entries THEN order[j][2]
                                  ELSE ImportEntry
  <2>1. order[j] \in Key /\ order[j][2] \in 0 .. 255
    BY OrderCovers, ImplFields, KeyParts DEF IsDebugData, IsMap
  <2>2. table[j].stream = StreamAttribute(impl, order[j]) BY DEF TableOf
  <2> QED BY <1>1, <2>1, <2>2 DEF StreamAttribute, NamesStreams
<1>3. ASSUME NEW j \in DOMAIN order, table[j].stream >= 0
      PROVE  NumberedStream(table[j]) <= order[j][2]
  BY <1>2, <1>3 DEF NumberedStream, ImportEntry
<1>4. CASE order[i] \in DOMAIN impl.entries
  <2>1. table[i].stream = order[i][2] /\ order[i][2] \in 0 .. 255 BY <1>2, <1>4
  <2>2. table[i].stream # Omitted /\ table[i].stream # ImportEntry
    BY <2>1 DEF Omitted, ImportEntry
  <2>3. RowStream(table, i, entries) = NumberedStream(table[i])
    BY <2>2, Zenon DEF RowStream
  <2> QED BY <1>3, <2>1, <2>3
<1>5. CASE order[i] \notin DOMAIN impl.entries
  <2> DEFINE numbered == {j \in 1 .. i - 1 : table[j].stream >= 0}
             m        == Max(numbered)
  <2>1. table[i].stream = ImportEntry BY <1>2, <1>5
  <2>2. RowStream(table, i, entries) = LastStream(table, i)
    <3>1. ImportEntry # Omitted BY DEF ImportEntry, Omitted
    <3> QED BY <2>1, <3>1 DEF RowStream
  <2>3. LastStream(table, i) = IF numbered = {} THEN 0 ELSE NumberedStream(table[m])
    BY DEF LastStream
  <2>4. CASE numbered = {} BY <1>2, <2>2, <2>3, <2>4
  <2>5. CASE numbered # {}
    <3>1. i \in Nat /\ \A j \in 1 .. i - 1 : j \in DOMAIN order
      <4>1. PICK n \in Nat : DOMAIN order = 1 .. n BY OrderCovers
      <4> QED BY <4>1
    <3>2. numbered \in SUBSET (0 .. i) BY <3>1
    <3>3. m \in numbered
      <4> HIDE DEF numbered
      <4> QED BY <2>5, <3>1, <3>2, MaxIn
    <3> HIDE DEF m
    <3>4. m \in 1 .. i - 1 /\ table[m].stream >= 0 /\ m \in DOMAIN order BY <3>1, <3>3
    <3>5. ~RowBefore(impl, order[i], order[m]) BY <3>1, <3>4 DEF RowOrders
    <3>6. ~(order[i][2] < order[m][2])
      <4>1. IsBnd2(impl.fmt) /\ ~(impl.fmt.version < 5)
        BY <1>1, ImplFields DEF HasStreamMetadata, Format
      <4> QED BY <1>1, <3>5, <4>1 DEF RowBefore
    <3>7. NumberedStream(table[m]) <= order[m][2] BY <1>3, <3>4
    <3>8. order[m][2] \in 0 .. 255 /\ order[i][2] \in 0 .. 255 BY <1>2, <3>4
    <3>9. NumberedStream(table[m]) \in Int
      BY <1>2, <3>4, <3>8 DEF NumberedStream, ImportEntry
    <3>10. RowStream(table, i, entries) = NumberedStream(table[m]) BY <2>2, <2>3, <2>5
    <3>11. \A a, b, c \in Int : a <= b /\ ~(c < b) => a <= c OBVIOUS
    <3>12. NumberedStream(table[m]) <= order[i][2]
      <4>1. order[m][2] \in Int /\ order[i][2] \in Int BY <3>8
      <4> QED BY <3>6, <3>7, <3>9, <3>11, <4>1
    <3> QED BY <3>10, <3>12
  <2> QED BY <2>4, <2>5
<1> QED BY <1>4, <1>5

\* Nothing is read out of a table but names of the ids they were given for.
LEMMA RowsReadBack ==
    ASSUME NEW impl, IsImpl(impl), NEW table \in Tables(impl), NEW entries,
           NEW back, back = ParseTable(table, entries), NEW q \in DOMAIN back
    PROVE  \E k \in DOMAIN impl.debug : /\ k[1] = q[1] /\ impl.debug[k] = back[q]
                                        /\ NamesStreams(impl) => q[2] <= k[2]
<1>1. PICK order \in RowOrders(impl) : table = TableOf(impl, order) BY DEF Tables
<1>2. /\ DOMAIN table = DOMAIN order
      /\ \A i \in DOMAIN order : table[i].id = order[i][1] /\ table[i].name = impl.debug[order[i]]
  BY <1>1 DEF TableOf
<1> DEFINE keyOf(i) == <<table[i].id, RowStream(table, i, entries)>>
           keys     == {keyOf(i) : i \in DOMAIN table}
           rows     == {i \in DOMAIN table : keyOf(i) = q}
           m        == Max(rows)
<1>3. back = [k \in keys |-> table[Max({i \in DOMAIN table : keyOf(i) = k})].name]
  BY DEF ParseTable
<1>4. q \in keys /\ back[q] = table[m].name
  <2> HIDE DEF keyOf
  <2> QED BY <1>3
<1>5. m \in rows
  <2>1. PICK n \in Nat : DOMAIN table = 1 .. n BY <1>2, OrderCovers
  <2>2. rows \in SUBSET (0 .. n) /\ rows # {}
    <3> HIDE DEF keyOf
    <3> QED BY <1>4, <2>1
  <2> HIDE DEF rows
  <2> QED BY <2>1, <2>2, MaxIn
<1> HIDE DEF m
<1>6. m \in DOMAIN order /\ q = <<order[m][1], RowStream(table, m, entries)>>
  BY <1>2, <1>5
<1>7. order[m] \in DOMAIN impl.debug BY <1>6, OrderCovers
<1>8. q[1] = order[m][1] /\ q[2] = RowStream(table, m, entries) BY <1>6
<1>9. back[q] = impl.debug[order[m]] BY <1>2, <1>4, <1>6
<1>10. NamesStreams(impl) => q[2] <= order[m][2] BY <1>1, <1>6, <1>8, StreamNotRaised
<1> QED BY <1>7, <1>8, <1>9, <1>10

-----------------------------------------------------------------------------
(* What the string table and the header need of a bundle *)

\* The streams are of the four that a bundle has, and what a file of the format
\* has no room for is not there: BND2's import lists, BNDL's stream names.
Tidy(impl) ==
    /\ \A k \in DOMAIN impl.entries : k[2] < StreamLimit
    /\ IF IsBnd2(impl.fmt) THEN impl.imports = NoEntries
       ELSE impl.names = [i \in 0 .. StreamLimit - 1 |-> ""]

TidyRows(img) == \A row \in img.rows : row.key[2] < StreamLimit

\* A change of entries that adds such keys only keeps a bundle tidy.
LEMMA StaysTidy ==
    ASSUME NEW impl, Tidy(impl), NEW other, other.fmt = impl.fmt,
           \A k \in DOMAIN other.entries : k \in DOMAIN impl.entries \/ k[2] < StreamLimit,
           IF IsBnd2(impl.fmt) THEN other.imports = impl.imports ELSE other.names = impl.names
    PROVE  Tidy(other)
    BY DEF Tidy

\* A new bundle has nothing in it.
LEMMA NewTidy == \A fmt, flags : Tidy(NewImpl(fmt, flags))
    BY DEF Tidy, NewImpl, NoEntries

\* AddResource takes no other streams; AddResource and ReplaceResource keep BND2's
\* imports in the main memory block.
LEMMA AddReplaceTidy ==
    ASSUME NEW impl, IsImpl(impl), Tidy(impl), NEW k \in Key, NEW r, IsResource(r), NEW stop
    PROVE  /\ Tidy(AddResource(impl, k, r, stop).impl)
           /\ Tidy(ReplaceResource(impl, k, r, stop).impl)
<1>1. Tidy(AddResource(impl, k, r, stop).impl)
  <2> DEFINE result == AddResource(impl, k, r, stop)
  <2>1. CASE result.ok
    <3>1. k[2] < StreamLimit BY <2>1, AcceptedEffect
    <3>2. PICK staged, imports :
            /\ staged.fmt = impl.fmt /\ IsImportLists(imports)
            /\ result.impl =
                [fmt |-> impl.fmt, flags |-> FlagsWith(impl, k),
                 entries |-> Put(impl.entries, k,
                    ReplacedEntry(staged, FreshEntry(r.type), r, Finished)),
                 imports |-> imports, debug |-> impl.debug,
                 default |-> impl.default, names |-> impl.names]
      BY <2>1, AcceptedEffect
    <3>3. IsBnd2(impl.fmt) => result.impl.imports = impl.imports
      BY <2>1, AddResourceImports
    <3> HIDE DEF result
    <3> DEFINE entry == ReplacedEntry(staged, FreshEntry(r.type), r, Finished)
    <3> HIDE DEF entry
    <3>4. /\ result.impl.fmt = impl.fmt /\ result.impl.names = impl.names
          /\ result.impl.entries = Put(impl.entries, k, entry)
      BY <3>2 DEF entry
    <3>5. DOMAIN Put(impl.entries, k, entry) = DOMAIN impl.entries \cup {k} BY PutDrop
    <3>6. Tidy(result.impl) BY <3>1, <3>3, <3>4, <3>5, StaysTidy
    <3> QED BY <3>6 DEF result
  <2>2. CASE ~result.ok BY <2>2, RefusedAdd
  <2> QED BY <2>1, <2>2
<1>2. Tidy(ReplaceResource(impl, k, r, stop).impl)
  <2> DEFINE result == ReplaceResource(impl, k, r, stop)
  <2>1. CASE result = [impl |-> impl, ok |-> FALSE] BY <2>1
  <2>2. CASE result # [impl |-> impl, ok |-> FALSE]
    <3> DEFINE entry == ReplacedEntry(impl, impl.entries[k], r, stop)
               imports == IF IsBnd2(impl.fmt) \/ stop # Finished THEN impl.imports
                          ELSE StoreSeparateImports(impl.imports, k[1], r.imports)
    <3>1. /\ k \in DOMAIN impl.entries
          /\ result.impl = [fmt |-> impl.fmt, flags |-> impl.flags,
                            entries |-> Put(impl.entries, k, entry), imports |-> imports,
                            debug |-> impl.debug, default |-> impl.default,
                            names |-> impl.names]
      BY <2>2, ReplacedImpl
    <3>2. IsBnd2(impl.fmt) => imports = impl.imports OBVIOUS
    <3> HIDE DEF result, entry, imports
    <3>3. /\ result.impl.fmt = impl.fmt /\ result.impl.names = impl.names
          /\ result.impl.entries = Put(impl.entries, k, entry)
          /\ IsBnd2(impl.fmt) => result.impl.imports = impl.imports
      BY <3>1, <3>2
    <3>4. DOMAIN Put(impl.entries, k, entry) = DOMAIN impl.entries \cup {k} BY PutDrop
    <3>5. Tidy(result.impl) BY <3>1, <3>3, <3>4, StaysTidy
    <3> QED BY <3>5 DEF result
  <2> QED BY <2>1, <2>2
<1> QED BY <1>1, <1>2

\* Only formats that are BND2 take a stream name.
LEMMA MetadataTidy ==
    ASSUME NEW impl, IsImpl(impl), Tidy(impl)
    PROVE  /\ \A k \in Key, name \in DebugNames :
                 Tidy(AddResourceDebugData(impl, k, name).impl)
           /\ \A k : Tidy(SetDefaultResource(impl, k).impl)
           /\ \A i \in StreamIndices, name \in StreamNames :
                 Tidy(SetStreamName(impl, i, name).impl)
<1>1. ASSUME NEW k \in Key, NEW name \in DebugNames
      PROVE  Tidy(AddResourceDebugData(impl, k, name).impl)
  <2> DEFINE result == AddResourceDebugData(impl, k, name)
  <2>1. CASE result = [impl |-> impl, ok |-> FALSE] BY <2>1
  <2>2. CASE ~(result = [impl |-> impl, ok |-> FALSE])
    <3>1. PICK debug :
            /\ IsDebugData(debug)
            /\ result.impl =
                 [fmt |-> impl.fmt, flags |-> impl.flags, entries |-> impl.entries,
                  imports |-> impl.imports, debug |-> debug,
                  default |-> impl.default, names |-> impl.names]
      BY <2>2, AddResourceDebugDataEffect
    <3> HIDE DEF result
    <3>2. /\ result.impl.fmt = impl.fmt /\ result.impl.names = impl.names
          /\ result.impl.entries = impl.entries /\ result.impl.imports = impl.imports
      BY <3>1
    <3>3. Tidy(result.impl) BY <3>2, StaysTidy
    <3> QED BY <3>3 DEF result
  <2> QED BY <2>1, <2>2
<1>2. ASSUME NEW k PROVE Tidy(SetDefaultResource(impl, k).impl)
  <2> DEFINE result == SetDefaultResource(impl, k)
  <2>1. CASE result = [impl |-> impl, ok |-> FALSE] BY <2>1
  <2>2. CASE ~(result = [impl |-> impl, ok |-> FALSE])
    <3>1. result.impl = [fmt |-> impl.fmt,
                         flags |-> impl.flags \cup {"ContainsDefaultResource"},
                         entries |-> impl.entries, imports |-> impl.imports,
                         debug |-> impl.debug, default |-> k, names |-> impl.names]
      BY <2>2, SetDefaultResourceEffect
    <3> HIDE DEF result
    <3>2. /\ result.impl.fmt = impl.fmt /\ result.impl.names = impl.names
          /\ result.impl.entries = impl.entries /\ result.impl.imports = impl.imports
      BY <3>1
    <3>3. Tidy(result.impl) BY <3>2, StaysTidy
    <3> QED BY <3>3 DEF result
  <2> QED BY <2>1, <2>2
<1>3. ASSUME NEW i \in StreamIndices, NEW name \in StreamNames
      PROVE  Tidy(SetStreamName(impl, i, name).impl)
  <2> DEFINE result == SetStreamName(impl, i, name)
  <2>1. CASE result = [impl |-> impl, ok |-> FALSE] BY <2>1
  <2>2. CASE ~(result = [impl |-> impl, ok |-> FALSE])
    <3>1. PICK names \in StreamTable :
            result.impl =
                 [fmt |-> impl.fmt, flags |-> impl.flags, entries |-> impl.entries,
                  imports |-> impl.imports, debug |-> impl.debug,
                  default |-> impl.default, names |-> names]
      BY <2>2, SetStreamNameEffect
    <3>2. IsBnd2(impl.fmt) BY <2>2, Zenon DEF SetStreamName, HasStreamMetadata
    <3> HIDE DEF result
    <3>3. /\ result.impl.fmt = impl.fmt
          /\ result.impl.entries = impl.entries /\ result.impl.imports = impl.imports
      BY <3>1
    <3>4. Tidy(result.impl) BY <3>2, <3>3, StaysTidy
    <3> QED BY <3>4 DEF result
  <2> QED BY <2>1, <2>2
<1> QED BY <1>1, <1>2, <1>3

\* The key that BNDL's Save borrows is in stream 0.
LEMMA SaveTidy ==
    ASSUME NEW impl, IsImpl(impl), Tidy(impl)
    PROVE  Tidy(AfterSave(impl)) /\ \A i \in AfterThrow(impl) : Tidy(i)
<1>1. ASSUME NEW entries, DOMAIN entries \subseteq DOMAIN impl.entries \cup {StringTableKey}
      PROVE  Tidy([impl EXCEPT !.entries = entries])
  <2> DEFINE other == [impl EXCEPT !.entries = entries]
  <2>1. /\ other.fmt = impl.fmt /\ other.entries = entries
        /\ other.imports = impl.imports /\ other.names = impl.names
    BY DEF IsImpl
  <2>2. StringTableKey[2] < StreamLimit BY DEF StringTableKey, StreamLimit
  <2> HIDE DEF other
  <2>3. Tidy(other) BY <1>1, <2>1, <2>2, StaysTidy
  <2> QED BY <2>3 DEF other
<1>2. Tidy(WithoutStringTable(impl))
  <2> DEFINE entries == Drop(impl.entries, StringTableKey)
  <2>1. DOMAIN entries \subseteq DOMAIN impl.entries BY DEF Drop
  <2>2. WithoutStringTable(impl) = [impl EXCEPT !.entries = entries] BY DEF WithoutStringTable
  <2> HIDE DEF entries
  <2> QED BY <1>1, <2>1, <2>2
<1>3. ASSUME NEW blocks PROVE Tidy(WithBorrowed(impl, blocks))
  <2> DEFINE e       == BorrowedEntry(blocks)
             entries == Put(impl.entries, StringTableKey, e)
  <2>1. WithBorrowed(impl, blocks) = [impl EXCEPT !.entries = entries] BY DEF WithBorrowed
  <2> HIDE DEF e
  <2>2. DOMAIN entries = DOMAIN impl.entries \cup {StringTableKey} BY PutDrop
  <2> HIDE DEF entries
  <2> QED BY <1>1, <2>1, <2>2
<1> QED BY <1>2, <1>3 DEF AfterSave, AfterThrow, WithStringTable

\* What Load makes of a file whose rows are of the four streams. Not even the
\* row that an overcounted BNDL header adds is of another one.
LEMMA LoadTidy ==
    ASSUME NEW img, IsImage(img), TidyRows(img), NEW result \in Loads(img),
           result.code = "Success"
    PROVE  Tidy(result.impl)
<1>1. ASSUME NEW k \in DOMAIN RowEntries(img) PROVE k[2] < StreamLimit
  BY RowEntriesTyped DEF TidyRows
<1>2. \A c : c # "Success" => result # LoadFailure(c) BY DEF LoadFailure
<1>3. CASE IsBnd2(img.fmt) /\ result \in Bnd2Loads(img)
  <2>1. result = LoadSuccess(LoadedBnd2(img)) BY <1>2, <1>3 DEF Bnd2Loads
  <2> DEFINE impl == LoadedBnd2(img)
  <2>2. result.impl = impl BY <2>1 DEF LoadSuccess
  <2>3. impl.fmt = img.fmt /\ impl.entries = RowEntries(img) /\ impl.imports = NoEntries
    BY DEF LoadedBnd2
  <2> HIDE DEF impl
  <2> QED BY <1>1, <1>3, <2>2, <2>3 DEF Tidy
<1>4. CASE ~IsBnd2(img.fmt) /\ result \in BndlLoads(img)
  <2> DEFINE impl == LoadedBndl(img)
  <2>1. /\ IsImpl(impl) /\ ~IsBnd2(impl.fmt)
        /\ DOMAIN impl.entries = DOMAIN RowEntries(img)
    BY <1>4, LoadedBndlTyped
  <2>2. Tidy(impl)
    <3>1. impl.names = [i \in 0 .. StreamLimit - 1 |-> ""] BY DEF LoadedBndl
    <3> HIDE DEF impl
    <3> QED BY <1>1, <2>1, <3>1 DEF Tidy
  <2> HIDE DEF impl
  <2>3. ASSUME NEW i \in StrayEntries(impl) PROVE Tidy(i)
    <3>1. PICK id \in ResourceIDs, type \in Types : i = WithStray(impl, id, type)
      BY <2>3 DEF StrayEntries
    <3> DEFINE entry   == FreshEntry(type)
               entries == Put(impl.entries, <<id, 0>>, entry)
               imports == Drop(impl.imports, id)
    <3>2. i = [impl EXCEPT !.entries = entries, !.imports = imports] BY <3>1 DEF WithStray
    <3> HIDE DEF entry
    <3>3. DOMAIN entries = DOMAIN impl.entries \cup {<<id, 0>>} BY PutDrop
    <3> HIDE DEF entries, imports
    <3>4. i = [fmt |-> impl.fmt, flags |-> impl.flags, entries |-> entries,
               imports |-> imports, debug |-> impl.debug, default |-> impl.default,
               names |-> impl.names]
      BY <2>1, <3>2, ImplExcept
    <3>5. i.fmt = impl.fmt /\ i.entries = entries /\ i.names = impl.names BY <3>4
    <3>6. <<id, 0>>[2] < StreamLimit BY DEF StreamLimit
    <3> QED BY <2>1, <2>2, <3>3, <3>5, <3>6, StaysTidy
  <2> DEFINE without == WithoutStringTable(impl)
             flags   == without.flags \cup {"HasDebugData"}
             claimed == [without EXCEPT !.flags = flags]
  <2>4. Tidy(claimed)
    <3>1. IsImpl(without) BY <2>1, AfterSaveTyped
    <3>2. without.fmt = impl.fmt /\ without.names = impl.names
      BY <2>1 DEF WithoutStringTable, IsImpl
    <3>3. without.entries = Drop(impl.entries, StringTableKey)
      BY <2>1 DEF WithoutStringTable, IsImpl
    <3> HIDE DEF without, flags
    <3>4. /\ claimed.fmt = without.fmt /\ claimed.entries = without.entries
          /\ claimed.names = without.names
      BY <3>1 DEF IsImpl
    <3> HIDE DEF claimed
    <3>5. DOMAIN claimed.entries \subseteq DOMAIN impl.entries BY <3>3, <3>4 DEF Drop
    <3> QED BY <2>1, <2>2, <3>2, <3>4, <3>5, StaysTidy
  <2>5. \/ result = LoadFailure("InvalidBundle")
        \/ \E i \in StrayEntries(impl) : result = LoadSuccess(i)
        \/ result = LoadSuccess(claimed)
        \/ result = LoadSuccess(impl)
    BY <1>4, Zenon DEF BndlLoads, impl
  <2> HIDE DEF claimed
  <2>6. \A i : LoadSuccess(i).impl = i BY DEF LoadSuccess
  <2> QED BY <1>2, <2>2, <2>3, <2>4, <2>5, <2>6
<1>5. \/ result = LoadFailure("UnsupportedVersion")
      \/ result = LoadFailure("UnsupportedPlatform")
      \/ IsBnd2(img.fmt) /\ result \in Bnd2Loads(img)
      \/ ~IsBnd2(img.fmt) /\ result \in BndlLoads(img)
  BY Zenon DEF Loads
<1> QED BY <1>2, <1>3, <1>4, <1>5

\* The file a tidy bundle is saved to.
LEMMA ImageTidy ==
    ASSUME NEW impl, IsImpl(impl), NeedsFlag(impl), Tidy(impl), NEW img \in CutImages(impl)
    PROVE  TidyRows(img)
<1> DEFINE written == AfterSave(impl).entries
<1>1. img.rows = {[key |-> k, entry |-> SavedEntry(impl, impl.entries[k])] : k \in DOMAIN written}
  BY SavedRows
<1>2. DOMAIN written \subseteq DOMAIN impl.entries BY WrittenEntries
<1> HIDE DEF written
<1>3. ASSUME NEW row \in img.rows PROVE row.key[2] < StreamLimit
  <2>1. PICK k \in DOMAIN written :
            row = [key |-> k, entry |-> SavedEntry(impl, impl.entries[k])]
    BY <1>1
  <2>2. row.key = k BY <2>1
  <2> QED BY <1>2, <2>2 DEF Tidy
<1> QED BY <1>3 DEF TidyRows

\* The inductive invariant: Inv, and the bundle and the file are tidy.
TidyInv ==
    /\ Inv
    /\ IsValid => Tidy(bundle)
    /\ file \notin NoBundle => TidyRows(file)

LEMMA InitTidyInv == (\A img \in ForeignFiles : TidyRows(img)) /\ Init => TidyInv
<1> SUFFICES ASSUME \A img \in ForeignFiles : TidyRows(img), Init PROVE TidyInv OBVIOUS
<1>1. Inv BY InitInv
<1>2. IsValid => Tidy(bundle) BY NewTidy DEF Init, IsValid
<1>3. file \notin NoBundle => TidyRows(file) BY DEF Init, NoBundle
<1> QED BY <1>1, <1>2, <1>3 DEF TidyInv

\* Every call keeps the bundle and the file tidy.
LEMMA StepTidyInv == TidyInv /\ [Next]_vars => TidyInv'
<1> SUFFICES ASSUME TidyInv, [Next]_vars PROVE TidyInv' OBVIOUS
<1> USE DEF vars, history
<1> DEFINE Mem == IsValid => Tidy(bundle)
           Disk == file \notin NoBundle => TidyRows(file)
<1>0. /\ Inv /\ Inv' /\ Mem /\ Disk
      /\ IsValid => IsImpl(bundle) /\ NeedsFlag(bundle)
      /\ \A r \in Resources : IsResource(r)
  BY StoreAssumption, StepInv DEF TidyInv, Inv, Good, IsValid
<1> SUFFICES Mem' /\ Disk' BY <1>0 DEF TidyInv
<1>1. ASSUME NEW k \in Key, NEW r \in Resources, AddResourceCall(k, r) PROVE Mem' /\ Disk'
  BY <1>0, <1>1, AddReplaceTidy DEF AddResourceCall, Report
<1>2. ASSUME NEW k \in Key, NEW r \in Resources, ReplaceResourceCall(k, r) PROVE Mem' /\ Disk'
  BY <1>0, <1>2, AddReplaceTidy DEF ReplaceResourceCall, Report
<1>3. ASSUME NEW k \in Key, NEW name \in GivenNames, AddResourceDebugDataCall(k, name)
      PROVE  Mem' /\ Disk'
  <2>1. name \in DebugNames BY StoreAssumption
  <2> QED BY <1>0, <1>3, <2>1, MetadataTidy DEF AddResourceDebugDataCall, Report
<1>4. ASSUME NEW id \in ResourceIDs, NEW stream \in StreamArguments,
             SetDefaultResourceCall(id, stream)
      PROVE  Mem' /\ Disk'
  <2>1. bundle' = bundle \/ bundle' = SetDefaultResource(bundle, <<id, stream>>).impl
    BY <1>4 DEF SetDefaultResourceCall, Report
  <2> QED BY <1>0, <1>4, <2>1, MetadataTidy DEF SetDefaultResourceCall
<1>5. ASSUME NEW i \in StreamIndices, NEW name \in GivenStreamNames, SetStreamNameCall(i, name)
      PROVE  Mem' /\ Disk'
  <2>1. name \in StreamNames BY StoreAssumption
  <2> QED BY <1>0, <1>5, <2>1, MetadataTidy DEF SetStreamNameCall, Report
<1>6. CASE MoveOut BY <1>0, <1>6 DEF MoveOut, IsValid
<1>7. CASE Read \/ CallOnEmpty \/ SaveRejected
  BY <1>0, <1>7 DEF Read, CallOnEmpty, SaveRejected, IsValid
<1>8. CASE SaveThrows BY <1>0, <1>8, SaveTidy DEF SaveThrows
<1>9. CASE SaveToPath
  <2>1. IsImpl(bundle) /\ NeedsFlag(bundle) /\ Tidy(bundle) BY <1>0, <1>9 DEF SaveToPath
  <2>2. Mem' BY <1>9, <2>1, SaveTidy DEF SaveToPath
  <2>3. file' \in CutImages(bundle) \/ file' \in {file, PartialFile}
    BY <1>9 DEF SaveToPath, CutImages
  <2> QED BY <1>0, <2>1, <2>2, <2>3, ImageTidy DEF NoBundle
<1>10. CASE SaveToMemory BY <1>0, <1>10, SaveTidy DEF SaveToMemory
<1>11. CASE LoadFromPath
  <2>1. CASE UNCHANGED <<bundle, file>> BY <1>0, <2>1 DEF IsValid
  <2>2. CASE /\ file \notin NoBundle
             /\ \E result \in Loads(file) :
                  bundle' = IF result.code = "Success" THEN result.impl ELSE bundle
             /\ UNCHANGED file
    <3>1. IsImage(file) /\ TidyRows(file) BY <1>0, <2>2 DEF Inv
    <3>2. PICK result \in Loads(file) :
            bundle' = IF result.code = "Success" THEN result.impl ELSE bundle
      BY <2>2
    <3>3. CASE result.code = "Success" BY <1>0, <2>2, <3>1, <3>2, <3>3, LoadTidy
    <3>4. CASE result.code # "Success" BY <1>0, <2>2, <3>2, <3>4 DEF IsValid
    <3> QED BY <3>3, <3>4
  <2> QED BY <1>11, <2>1, <2>2 DEF LoadFromPath
<1>12. CASE UNCHANGED vars BY <1>0, <1>12 DEF IsValid
<1> QED BY <1>1, <1>2, <1>3, <1>4, <1>5, <1>6, <1>7, <1>8, <1>9, <1>10, <1>11, <1>12 DEF Next

\* Whatever table is written of the bundle, loading the file parses that table, with
\* resources under the keys of the bundle's.
LEMMA DebugDataIsParsed ==
    ASSUME NEW impl, IsImpl(impl), NeedsFlag(impl),
           SaveVerdict(impl.fmt, impl.flags) = "Success", WritesTable(impl),
           ReservedKeys(impl.fmt) \cap DOMAIN impl.entries = {},
           NEW img \in Images(impl), NEW result \in Loads(img)
    PROVE  /\ result.code = "Success"
           /\ \E table \in Tables(impl) : \E entries :
                    /\ DOMAIN entries = DOMAIN impl.entries
                    /\ result.impl.debug = ParseTable(table, entries)
<1>1. /\ img.fmt = impl.fmt
      /\ result = LoadSuccess(Loaded(img))
      /\ RowEntries(img) = [k \in DOMAIN impl.entries |-> SavedEntry(impl, impl.entries[k])]
  <2>1. img \in CutImages(impl) BY DEF CutImages
  <2> QED BY <2>1, Reloaded
<1>2. PICK table \in Tables(impl) : img = ImageWith(impl, table) BY DEF Images
<1>3. /\ img.table = table /\ img.hasTable = WritesTable(impl)
      /\ IsBnd2(impl.fmt) => img.flags = impl.flags
  BY <1>2 DEF ImageWith
<1>4. \E entries : /\ DOMAIN entries = DOMAIN impl.entries
                   /\ Loaded(img).debug = ParseTable(table, entries)
  <2>1. CASE IsBnd2(impl.fmt)
    <3>1. "HasDebugData" \in img.flags BY <1>3, <2>1 DEF WritesTable
    <3>2. Loaded(img).debug = ParseTable(table, RowEntries(img))
      BY <1>1, <1>3, <2>1, <3>1 DEF Loaded, LoadedBnd2
    <3>3. DOMAIN RowEntries(img) = DOMAIN impl.entries BY <1>1
    <3> QED BY <3>2, <3>3
  <2>2. CASE ~IsBnd2(impl.fmt)
    <3> DEFINE entries == [k \in DOMAIN RowEntries(img) |-> LoadedBndlEntry(img, k)]
    <3>1. Loaded(img).debug = ParseTable(table, entries)
      BY <1>1, <1>3, <2>2 DEF Loaded, LoadedBndl
    <3>2. DOMAIN entries = DOMAIN impl.entries BY <1>1
    <3> HIDE DEF entries
    <3> QED BY <3>1, <3>2
  <2> QED BY <2>1, <2>2
<1>5. result.code = "Success" /\ result.impl = Loaded(img) BY <1>1 DEF LoadSuccess
<1> QED BY <1>4, <1>5

\* The names of an id come back from any string table that a save may write, if the
\* streams of its rows are found again, and no row becomes a name of another id or,
\* where all rows name streams, of a higher stream; unless another tool's file had
\* resources in a stream that there is not (base.cpp:335-419).
THEOREM DebugDataComesThrough ==
    (\A img \in ForeignFiles : TidyRows(img)) => (Spec => []DebugDataSurvives)
<1>1. TidyInv => DebugDataSurvives
  <2> SUFFICES ASSUME TidyInv, Savable, WritesTable(bundle),
                      ReservedKeys(bundle.fmt) \cap DOMAIN bundle.entries = {},
                      NEW img \in Images(bundle), NEW result \in Loads(img)
               PROVE  /\ result.code = "Success"
                      /\ \A id \in ResourceIDs :
                            (\A k \in DOMAIN bundle.debug : k[1] = id => KeepsStream(bundle, k))
                                => NamesOf(result.impl, id) = NamesOf(bundle, id)
                      /\ \A q \in DOMAIN result.impl.debug :
                            \E k \in DOMAIN bundle.debug :
                                /\ k[1] = q[1] /\ bundle.debug[k] = result.impl.debug[q]
                                /\ NamesStreams(bundle) => q[2] <= k[2]
    BY DEF DebugDataSurvives
  <2>1. IsImpl(bundle) /\ NeedsFlag(bundle) /\ Tidy(bundle)
    BY DEF TidyInv, Inv, Good, Savable, IsValid
  <2>2. /\ result.code = "Success"
        /\ \E table \in Tables(bundle) : \E entries :
                /\ DOMAIN entries = DOMAIN bundle.entries
                /\ result.impl.debug = ParseTable(table, entries)
    BY <2>1, DebugDataIsParsed DEF Savable
  <2>3. PICK table \in Tables(bundle) :
            \E entries : /\ DOMAIN entries = DOMAIN bundle.entries
                         /\ result.impl.debug = ParseTable(table, entries)
    BY <2>2
  <2>4. PICK entries : /\ DOMAIN entries = DOMAIN bundle.entries
                       /\ result.impl.debug = ParseTable(table, entries)
    BY <2>3
  <2>5. ASSUME NEW id, \A k \in DOMAIN bundle.debug : k[1] = id => KeepsStream(bundle, k)
        PROVE  NamesOf(result.impl, id) = NamesOf(bundle, id)
    <3>1. \A k \in DOMAIN bundle.entries : k[2] < StreamLimit BY <2>1 DEF Tidy
    <3>2. [k \in {q \in DOMAIN result.impl.debug : q[1] = id} |-> result.impl.debug[k]]
            = NamesOf(bundle, id)
      BY <2>1, <2>4, <2>5, <3>1, NamesReadBack
    <3> QED BY <3>2 DEF NamesOf
  <2>6. \A q \in DOMAIN result.impl.debug :
            \E k \in DOMAIN bundle.debug :
                /\ k[1] = q[1] /\ bundle.debug[k] = result.impl.debug[q]
                /\ NamesStreams(bundle) => q[2] <= k[2]
    BY <2>1, <2>4, RowsReadBack
  <2> QED BY <2>2, <2>5, <2>6
<1> QED BY <1>1, InitTidyInv, StepTidyInv, PTL DEF Spec

-----------------------------------------------------------------------------
(* What a file can say *)

\* The alignments that 4 bits can tell apart.
DiskAlignments == {2^n : n \in 0 .. 15}

\* A row has blocks where the format has room for them and if they have a size;
\* BNDL keeps no import count in it, and one alignment if it is uncompressed.
StoredEntry(img, e) ==
    /\ DOMAIN e.blocks \subseteq StoredSlots(img.fmt)
    /\ \A s \in DOMAIN e.blocks : HasSize(img, e.blocks[s])
    /\ IF IsBnd2(img.fmt)
       THEN /\ \A s \in DOMAIN e.blocks : e.blocks[s].align \in DiskAlignments
            /\ \A s \in Slots : e.diskAligns[s] \in DiskAlignments
       ELSE /\ e.importCount = 0 /\ e.importOffset = 0
            /\ \A s \in Slots \ DOMAIN e.blocks : e.diskAligns[s] = 1
            /\ \A s \in DOMAIN e.blocks :
                    IF IsCompressed(img)
                    THEN e.blocks[s].payload = Empty => e.blocks[s].align = 1
                    ELSE e.blocks[s].align = e.diskAligns[s]

\* A file has one row for a key and each thing where its format has a place for
\* it; a BNDL string table is of something, and an import list of some row.
Canonical(img) ==
    /\ TidyRows(img)
    /\ \A row \in img.rows : StoredEntry(img, row.entry)
    /\ \A a, b \in img.rows : a.key = b.key => a = b
    /\ HasStreamMetadata(img.fmt) \/ img.default = NoDefault
    /\ IF IsBnd2(img.fmt) THEN img.imports = NoEntries
       ELSE /\ img.flags \subseteq {"Compressed"}
            /\ img.names = [i \in 0 .. StreamLimit - 1 |-> ""]
            /\ img.hasTable => ~IsCompressed(img) /\ img.table # <<>>
            /\ DOMAIN img.imports \subseteq
                    {row.key[1] : row \in img.rows} \cup
                        (IF img.hasTable THEN {StringTableID} ELSE {})

\* Powers of two that one halving less or more would tell apart are the same.
LEMMA SamePower ==
    ASSUME NEW e \in 0 .. 30, NEW m \in 0 .. 15, 2^m \div 2^e = 1
    PROVE  e = m
<1> DEFINE pow == [n \in 0 .. 30 |-> 2^n]
<1>1. /\ pow[0] = 1 /\ pow[1] = 2 /\ pow[2] = 4 /\ pow[3] = 8 /\ pow[4] = 16 /\ pow[5] = 32
      /\ pow[6] = 64 /\ pow[7] = 128 /\ pow[8] = 256 /\ pow[9] = 512 /\ pow[10] = 1024
      /\ pow[11] = 2048 /\ pow[12] = 4096 /\ pow[13] = 8192 /\ pow[14] = 16384
      /\ pow[15] = 32768 /\ pow[16] = 65536 /\ pow[17] = 131072 /\ pow[18] = 262144
      /\ pow[19] = 524288 /\ pow[20] = 1048576 /\ pow[21] = 2097152 /\ pow[22] = 4194304
      /\ pow[23] = 8388608 /\ pow[24] = 16777216 /\ pow[25] = 33554432
      /\ pow[26] = 67108864 /\ pow[27] = 134217728 /\ pow[28] = 268435456
      /\ pow[29] = 536870912 /\ pow[30] = 1073741824
  BY SMT
<1>2. pow[m] \div pow[e] = 1 BY SMT
<1> HIDE DEF pow
<1>3. \A n \in 0 .. 30 : \/ n = 0 \/ n = 1 \/ n = 2 \/ n = 3 \/ n = 4 \/ n = 5 \/ n = 6
                         \/ n = 7 \/ n = 8 \/ n = 9 \/ n = 10 \/ n = 11 \/ n = 12 \/ n = 13
                         \/ n = 14 \/ n = 15 \/ n = 16 \/ n = 17 \/ n = 18 \/ n = 19
                         \/ n = 20 \/ n = 21 \/ n = 22 \/ n = 23 \/ n = 24 \/ n = 25
                         \/ n = 26 \/ n = 27 \/ n = 28 \/ n = 29 \/ n = 30
  BY SMT
<1>4. pow[m] \in Nat /\ pow[e] \in Nat /\ pow[e] > 0 BY <1>1, <1>3, SMTT(60)
<1>5. \A x, y \in Nat : y > 0 /\ x \div y = 1 => y <= x /\ x < y + y BY SMT
<1>6. pow[e] <= pow[m] /\ pow[m] < pow[e] + pow[e]
  <2>1. \A x, y : x = pow[m] /\ y = pow[e] => y <= x /\ x < y + y
    BY <1>2, <1>4, <1>5, SMT
  <2> QED BY <2>1, SMT
<1> QED BY <1>1, <1>3, <1>6, SMTT(60)

\* Writing an alignment gives one that 4 bits can tell, and is no loss to these.
LEMMA AlignmentWritten ==
    /\ \A a \in Alignments : OnDiskAlignment(a) \in DiskAlignments
    /\ \A d \in DiskAlignments : OnDiskAlignment(d) = d
<1>1. ASSUME NEW a \in Alignments PROVE OnDiskAlignment(a) \in DiskAlignments
  <2> DEFINE n == AlignmentExponent(a)
  <2>1. n \in 0 .. 30
    <3>1. a = 0 \/ \E e \in 0 .. 30 : a \div 2^e = 1 BY AlignmentAssumption
    <3> QED BY <3>1 DEF AlignmentExponent
  <2>2. n % 16 \in 0 .. 15 BY <2>1
  <2> QED BY <2>2 DEF OnDiskAlignment, DiskAlignments
<1>2. ASSUME NEW m \in 0 .. 15 PROVE OnDiskAlignment(2^m) = 2^m
  <2>1. 2^m # 0 /\ 2^m \div 2^m = 1
    <3> DEFINE pow == [n \in 0 .. 15 |-> 2^n]
    <3>1. /\ pow[0] = 1 /\ pow[1] = 2 /\ pow[2] = 4 /\ pow[3] = 8 /\ pow[4] = 16
          /\ pow[5] = 32 /\ pow[6] = 64 /\ pow[7] = 128 /\ pow[8] = 256 /\ pow[9] = 512
          /\ pow[10] = 1024 /\ pow[11] = 2048 /\ pow[12] = 4096 /\ pow[13] = 8192
          /\ pow[14] = 16384 /\ pow[15] = 32768
      BY SMT
    <3> HIDE DEF pow
    <3>2. pow[m] \in Nat /\ pow[m] # 0 BY <3>1, SMTT(60)
    <3>3. \A x \in Nat : x # 0 => x \div x = 1 BY SMT
    <3>4. pow[m] \div pow[m] = 1 BY <3>2, <3>3, Zenon
    <3> QED BY <3>2, <3>4, SMT DEF pow
  <2>2. \A e \in 0 .. 30 : 2^m \div 2^e = 1 => e = m BY SamePower
  <2>3. \E e \in 0 .. 30 : 2^m \div 2^e = 1
    <3>1. m \in 0 .. 30 BY SMT
    <3> QED BY <2>1, <3>1, Zenon
  <2> DEFINE e == CHOOSE e \in 0 .. 30 : 2^m \div 2^e = 1
  <2>4. e \in 0 .. 30 /\ 2^m \div 2^e = 1 BY <2>3, Zenon
  <2>5. e = m BY <2>2, <2>4, Zenon
  <2>6. AlignmentExponent(2^m) = e BY <2>1, Zenon DEF AlignmentExponent
  <2>7. m % 16 = m BY SMT
  <2> QED BY <2>5, <2>6, <2>7, Zenon DEF OnDiskAlignment
<1> QED BY <1>1, <1>2 DEF DiskAlignments

\* What Save writes is what a file can say.
LEMMA SavedStored ==
    ASSUME NEW impl, NEW e, IsEntry(e), NEW img, img.fmt = impl.fmt,
           IsCompressed(img) <=> IsCompressed(impl)
    PROVE  StoredEntry(img, SavedEntry(impl, e))
<1> DEFINE saved == SavedEntry(impl, e)
           slots == SavedSlots(impl, e)
<1>1. /\ DOMAIN saved.blocks = slots
      /\ slots \subseteq DOMAIN e.blocks /\ slots \subseteq StoredSlots(impl.fmt)
      /\ \A s \in slots : HasSize(impl, e.blocks[s])
  BY DEF SavedEntry, SavedSlots
<1>2. ASSUME NEW s \in slots
      PROVE  /\ saved.blocks[s].align = SavedAlignment(impl, e, s)
             /\ saved.blocks[s].payload = e.blocks[s].payload
             /\ saved.blocks[s].trailer = e.blocks[s].trailer
             /\ e.blocks[s].align \in Alignments /\ s \in Slots
  <2>1. e.blocks[s] \in Block /\ s \in Slots BY <1>1 DEF IsEntry, IsBlockMap, IsMap
  <2> DEFINE align == SavedAlignment(impl, e, s)
  <2>2. saved.blocks[s] = [e.blocks[s] EXCEPT !.align = align] BY DEF SavedEntry
  <2> HIDE DEF align, saved
  <2>3. /\ saved.blocks[s].align = align
        /\ saved.blocks[s].payload = e.blocks[s].payload
        /\ saved.blocks[s].trailer = e.blocks[s].trailer
    BY <2>1, <2>2 DEF Block
  <2>4. e.blocks[s].align \in Alignments BY <2>1 DEF Block
  <2> QED BY <2>1, <2>3, <2>4 DEF align
<1>3. /\ \A s \in Slots : saved.diskAligns[s] = SavedDiskAlignment(impl, e, s)
      /\ \A s \in Slots : e.diskAligns[s] \in Alignments
      /\ ~IsBnd2(impl.fmt) => saved.importCount = 0 /\ saved.importOffset = 0
  BY DEF SavedEntry, IsEntry
<1> HIDE DEF saved, slots
<1>4. \A s \in DOMAIN saved.blocks : HasSize(img, saved.blocks[s])
  BY <1>1, <1>2 DEF HasSize
<1>5. CASE IsBnd2(impl.fmt)
  <2>1. \A s \in slots : saved.blocks[s].align \in DiskAlignments
    BY <1>2, <1>5, AlignmentWritten DEF SavedAlignment
  <2>2. \A s \in Slots : saved.diskAligns[s] \in DiskAlignments
    BY <1>3, <1>5, AlignmentWritten DEF SavedDiskAlignment
  <2> QED BY <1>1, <1>4, <1>5, <2>1, <2>2 DEF StoredEntry, saved
<1>6. CASE ~IsBnd2(impl.fmt)
  <2>1. \A s \in Slots \ slots : saved.diskAligns[s] = 1
    BY <1>3, <1>6 DEF SavedDiskAlignment, slots
  <2>2. ASSUME NEW s \in slots
        PROVE  IF IsCompressed(img)
               THEN saved.blocks[s].payload = Empty => saved.blocks[s].align = 1
               ELSE saved.blocks[s].align = saved.diskAligns[s]
    <3>1. saved.diskAligns[s] = e.diskAligns[s]
      BY <1>2, <1>3, <1>6 DEF SavedDiskAlignment, slots
    <3> QED BY <1>2, <1>6, <3>1 DEF SavedAlignment
  <2> QED BY <1>1, <1>3, <1>4, <1>6, <2>1, <2>2 DEF StoredEntry, saved
<1> QED BY <1>5, <1>6

\* What a file can say is saved as it is; BNDL counts the imports when it loads.
LEMMA StoredSaved ==
    ASSUME NEW img, NEW e, IsEntry(e), StoredEntry(img, e), NEW impl, impl.fmt = img.fmt,
           IsCompressed(impl) <=> IsCompressed(img), NEW n,
           IsBnd2(img.fmt) => n = e.importCount
    PROVE  SavedEntry(impl, [e EXCEPT !.importCount = n]) = e
<1> DEFINE loaded == [e EXCEPT !.importCount = n]
<1>1. /\ loaded.type = e.type /\ loaded.blocks = e.blocks /\ loaded.diskAligns = e.diskAligns
      /\ loaded.importCount = n /\ loaded.importOffset = e.importOffset
  BY DEF IsEntry
<1>2. /\ e.blocks = [s \in DOMAIN e.blocks |-> e.blocks[s]]
      /\ e.diskAligns = [s \in Slots |-> e.diskAligns[s]]
      /\ DOMAIN e.blocks \subseteq Slots
      /\ \A s \in DOMAIN e.blocks : e.blocks[s] \in Block
  BY DEF IsEntry, IsBlockMap, IsMap
<1> HIDE DEF loaded
<1>3. SavedSlots(impl, loaded) = DOMAIN e.blocks
  BY <1>1 DEF SavedSlots, StoredEntry, HasSize
<1>4. ASSUME NEW s \in DOMAIN e.blocks
      PROVE  [loaded.blocks[s] EXCEPT !.align = SavedAlignment(impl, loaded, s)] = e.blocks[s]
  <2>1. SavedAlignment(impl, loaded, s) = e.blocks[s].align
    <3>1. CASE IsBnd2(img.fmt)
      BY <1>1, <3>1, AlignmentWritten DEF SavedAlignment, StoredEntry
    <3>2. CASE ~IsBnd2(img.fmt)
      BY <1>1, <3>2 DEF SavedAlignment, StoredEntry
    <3> QED BY <3>1, <3>2
  <2>2. [e.blocks[s] EXCEPT !.align = e.blocks[s].align] = e.blocks[s] BY <1>2 DEF Block
  <2> QED BY <1>1, <2>1, <2>2
<1>5. ASSUME NEW s \in Slots PROVE SavedDiskAlignment(impl, loaded, s) = e.diskAligns[s]
  <2>1. CASE IsBnd2(img.fmt)
    BY <1>1, <2>1, AlignmentWritten DEF SavedDiskAlignment, StoredEntry
  <2>2. CASE ~IsBnd2(img.fmt)
    BY <1>1, <1>3, <2>2 DEF SavedDiskAlignment, StoredEntry
  <2> QED BY <2>1, <2>2
<1>6. /\ (IF IsBnd2(impl.fmt) THEN loaded.importCount ELSE 0) = e.importCount
      /\ (IF IsBnd2(impl.fmt) THEN loaded.importOffset ELSE 0) = e.importOffset
  BY <1>1 DEF StoredEntry
<1> DEFINE blocks == [s \in SavedSlots(impl, loaded) |->
                        [loaded.blocks[s] EXCEPT !.align = SavedAlignment(impl, loaded, s)]]
           aligns == [s \in Slots |-> SavedDiskAlignment(impl, loaded, s)]
<1>7. blocks = e.blocks /\ aligns = e.diskAligns BY <1>2, <1>3, <1>4, <1>5
<1>8. SavedEntry(impl, loaded) =
        [type |-> loaded.type, blocks |-> blocks,
         importCount |-> IF IsBnd2(impl.fmt) THEN loaded.importCount ELSE 0,
         importOffset |-> IF IsBnd2(impl.fmt) THEN loaded.importOffset ELSE 0,
         diskAligns |-> aligns]
  BY DEF SavedEntry
<1> HIDE DEF blocks, aligns
<1>9. SavedEntry(impl, loaded) =
        [type |-> e.type, blocks |-> e.blocks, importCount |-> e.importCount,
         importOffset |-> e.importOffset, diskAligns |-> e.diskAligns]
  BY <1>1, <1>6, <1>7, <1>8
<1>10. e = [type |-> e.type, blocks |-> e.blocks, importCount |-> e.importCount,
            importOffset |-> e.importOffset, diskAligns |-> e.diskAligns]
  BY DEF IsEntry
<1> QED BY <1>9, <1>10 DEF loaded

\* A save writes what a file can say, whatever the bundle holds.
LEMMA ImageCanonical ==
    ASSUME NEW impl, IsImpl(impl), NeedsFlag(impl), Tidy(impl), NEW img \in CutImages(impl)
    PROVE  Canonical(img)
<1> DEFINE written == AfterSave(impl).entries
<1>1. /\ TidyRows(img)
      /\ img.rows = {[key |-> k, entry |-> SavedEntry(impl, impl.entries[k])] :
                         k \in DOMAIN written}
      /\ DOMAIN written \subseteq DOMAIN impl.entries
      /\ DOMAIN impl.entries \ ReservedKeys(impl.fmt) \subseteq DOMAIN written
  BY ImageTidy, SavedRows, WrittenEntries
<1>2. PICK table : /\ img = ImageWith(impl, table)
                   /\ ~IsBnd2(impl.fmt) /\ WritesTable(impl) => table \in Tables(impl)
  <2>1. CASE img \in Images(impl)
    <3>1. PICK table \in IF WritesTable(impl) THEN Tables(impl) ELSE {<<>>} :
              img = ImageWith(impl, table)
      BY <2>1 DEF Images
    <3> QED BY <3>1
  <2>2. CASE img \notin Images(impl)
    <3>1. IsBnd2(impl.fmt) /\ img = ImageWith(impl, <<>>) BY <2>2 DEF CutImages
    <3> QED BY <3>1
  <2> QED BY <2>1, <2>2
<1>3. /\ img.fmt = impl.fmt
      /\ img.flags = IF IsBnd2(impl.fmt) THEN impl.flags ELSE impl.flags \cap {"Compressed"}
      /\ img.imports = SavedImports(impl)
      /\ img.default = IF HasStreamMetadata(impl.fmt) THEN impl.default ELSE NoDefault
      /\ img.names = impl.names /\ img.table = table
      /\ img.hasTable = WritesTable(impl)
  BY <1>2 DEF ImageWith
<1> HIDE DEF written
<1>4. IsCompressed(img) <=> IsCompressed(impl) BY <1>3 DEF IsCompressed
<1>5. ASSUME NEW row \in img.rows
      PROVE  /\ StoredEntry(img, row.entry)
             /\ row = [key |-> row.key, entry |-> SavedEntry(impl, impl.entries[row.key])]
  <2>1. PICK k \in DOMAIN written :
            row = [key |-> k, entry |-> SavedEntry(impl, impl.entries[k])]
    BY <1>1
  <2>2. IsEntry(impl.entries[k]) BY <1>1, ImplFields DEF IsEntries
  <2>3. StoredEntry(img, SavedEntry(impl, impl.entries[k])) BY <1>3, <1>4, <2>2, SavedStored
  <2>4. row.key = k /\ row.entry = SavedEntry(impl, impl.entries[k]) BY <2>1
  <2> QED BY <2>1, <2>3, <2>4
<1>6. \A a, b \in img.rows : a.key = b.key => a = b BY <1>5
<1>7. CASE IsBnd2(impl.fmt)
  <2>1. img.imports = NoEntries
    <3>1. DOMAIN impl.imports = {} BY <1>7 DEF Tidy, NoEntries
    <3> QED BY <1>3, <3>1 DEF NoEntries, SavedImports
  <2> QED BY <1>1, <1>3, <1>5, <1>6, <1>7, <2>1 DEF Canonical
<1>8. CASE ~IsBnd2(impl.fmt)
  <2>1. img.names = [i \in 0 .. StreamLimit - 1 |-> ""] BY <1>3, <1>8 DEF Tidy
  <2>2. ASSUME img.hasTable PROVE ~IsCompressed(img) /\ img.table # <<>>
    <3>1. WritesTable(impl) /\ ~IsCompressed(impl) /\ impl.debug # NoEntries
      BY <1>3, <1>8, <2>2 DEF WritesTable
    <3>2. PICK order \in RowOrders(impl) : table = TableOf(impl, order)
      BY <1>2, <1>8, <3>1 DEF Tables
    <3>3. \E k : k \in DOMAIN impl.debug
      <4>1. IsDebugData(impl.debug) BY ImplFields
      <4> QED BY <3>1, <4>1 DEF IsDebugData, IsMap, NoEntries
    <3>4. DOMAIN table # {} BY <3>2, <3>3, OrderCovers DEF TableOf
    <3>5. DOMAIN <<>> = {} OBVIOUS
    <3> QED BY <1>3, <1>4, <3>1, <3>4, <3>5
  <2>3. ASSUME NEW id \in DOMAIN img.imports
        PROVE  id \in {row.key[1] : row \in img.rows} \cup
                        (IF img.hasTable THEN {StringTableID} ELSE {})
    <3>1. id \in SavedIDs(impl) BY <1>3, <2>3 DEF SavedImports
    <3>2. CASE BorrowsStringTableKey(impl) /\ id = StringTableID
      <4>1. img.hasTable BY <1>3, <3>2 DEF BorrowsStringTableKey
      <4> QED BY <3>2, <4>1
    <3>3. CASE ~(BorrowsStringTableKey(impl) /\ id = StringTableID)
      <4>1. PICK k \in DOMAIN impl.entries : id = k[1] BY <3>1, <3>3 DEF SavedIDs
      <4>2. k \in DOMAIN written
        <5>1. CASE BorrowsStringTableKey(impl)
          <6>1. k # StringTableKey BY <3>3, <4>1, <5>1 DEF StringTableKey
          <6>2. ReservedKeys(impl.fmt) = {StringTableKey} BY <1>8 DEF ReservedKeys
          <6> QED BY <1>1, <6>1, <6>2
        <5>2. CASE ~BorrowsStringTableKey(impl)
          BY <5>2 DEF AfterSave, written
        <5> QED BY <5>1, <5>2
      <4> DEFINE row == [key |-> k, entry |-> SavedEntry(impl, impl.entries[k])]
      <4>3. row \in img.rows /\ row.key = k BY <1>1, <4>2
      <4> HIDE DEF row
      <4> QED BY <4>1, <4>3
    <3> QED BY <3>2, <3>3
  <2>4. HasStreamMetadata(img.fmt) \/ img.default = NoDefault BY <1>3
  <2>5. img.flags \subseteq {"Compressed"} BY <1>3, <1>8
  <2> QED BY <1>1, <1>3, <1>5, <1>6, <1>8, <2>1, <2>2, <2>3, <2>4, <2>5 DEF Canonical
<1> QED BY <1>7, <1>8

\* The rows of a file of that kind are the rows that a save of the loaded bundle
\* writes.
LEMMA RowsResaved ==
    ASSUME NEW img, IsImage(img), Canonical(img), NEW impl, IsImpl(impl), NeedsFlag(impl),
           impl.fmt = img.fmt, IsCompressed(impl) <=> IsCompressed(img),
           DOMAIN impl.entries = DOMAIN RowEntries(img),
           \A k \in DOMAIN impl.entries : \E n :
                /\ impl.entries[k] = [RowEntries(img)[k] EXCEPT !.importCount = n]
                /\ IsBnd2(img.fmt) => n = RowEntries(img)[k].importCount,
           ReservedKeys(img.fmt) \cap DOMAIN impl.entries = {},
           NEW again \in CutImages(impl)
    PROVE  again.rows = img.rows
<1> DEFINE written == AfterSave(impl).entries
<1>1. /\ again.rows = {[key |-> k, entry |-> SavedEntry(impl, impl.entries[k])] :
                           k \in DOMAIN written}
      /\ DOMAIN written = DOMAIN impl.entries
  <2>1. /\ DOMAIN written \subseteq DOMAIN impl.entries
        /\ DOMAIN impl.entries \ ReservedKeys(impl.fmt) \subseteq DOMAIN written
    BY WrittenEntries
  <2> QED BY <2>1, SavedRows
<1> HIDE DEF written
<1> DEFINE loaded == RowEntries(img)
<1>0. /\ \A row \in img.rows : row.key \in DOMAIN loaded
      /\ \A k \in DOMAIN loaded :
            \E row \in img.rows : row.key = k /\ loaded[k] = row.entry
  <2>1. DOMAIN loaded = {row.key : row \in img.rows} BY RowEntriesTyped
  <2>2. \A row \in img.rows : row.key \in {other.key : other \in img.rows} BY Zenon
  <2>3. \A k \in DOMAIN loaded : \E row \in img.rows : row.key = k /\ loaded[k] = row.entry
    BY RowEntriesTyped
  <2> HIDE DEF loaded
  <2> QED BY <2>1, <2>2, <2>3
<1>4. /\ DOMAIN impl.entries = DOMAIN loaded
       /\ \A k \in DOMAIN loaded : \E n :
                /\ impl.entries[k] = [loaded[k] EXCEPT !.importCount = n]
                /\ IsBnd2(img.fmt) => n = loaded[k].importCount
  OBVIOUS
<1> HIDE DEF loaded
<1>2. ASSUME NEW row \in img.rows
      PROVE  /\ row.key \in DOMAIN impl.entries
             /\ row = [key |-> row.key, entry |-> SavedEntry(impl, impl.entries[row.key])]
  <2>1. row.key \in DOMAIN loaded BY <1>0
  <2>2. PICK same \in img.rows : same.key = row.key /\ loaded[row.key] = same.entry
    BY <1>0, <2>1
  <2>3. loaded[row.key] = row.entry BY <2>2 DEF Canonical
  <2>4. PICK n : /\ impl.entries[row.key] = [loaded[row.key] EXCEPT !.importCount = n]
                 /\ IsBnd2(img.fmt) => n = loaded[row.key].importCount
    BY <1>4, <2>1
  <2>5. IsEntry(row.entry) /\ row = [key |-> row.key, entry |-> row.entry] BY DEF IsImage
  <2>6. StoredEntry(img, row.entry) BY DEF Canonical
  <2>7. SavedEntry(impl, [row.entry EXCEPT !.importCount = n]) = row.entry
    BY <2>3, <2>4, <2>5, <2>6, StoredSaved
  <2> QED BY <1>4, <2>1, <2>3, <2>4, <2>5, <2>7
<1>3. ASSUME NEW k \in DOMAIN impl.entries
      PROVE  [key |-> k, entry |-> SavedEntry(impl, impl.entries[k])] \in img.rows
  <2>1. PICK row \in img.rows : row.key = k BY <1>0, <1>4
  <2> QED BY <1>2, <2>1
<1> QED BY <1>1, <1>2, <1>3

\* So a save of the loaded bundle writes the file again.
LEMMA FileResaved ==
    ASSUME NEW img, IsImage(img), Canonical(img), ~img.overcount,
           ReservedKeys(img.fmt) \cap {row.key : row \in img.rows} = {},
           NEW result \in Loads(img), result.code = "Success",
           NEW again \in CutImages(result.impl)
    PROVE  /\ again.rows = img.rows /\ again.imports = img.imports
           /\ again.flags = img.flags /\ again.fmt = img.fmt
           /\ again.default = img.default /\ again.names = img.names
<1>1. \A c : c # "Success" => result # LoadFailure(c) BY DEF LoadFailure
<1>2. /\ IsImpl(result.impl) /\ NeedsFlag(result.impl)
  BY LoadTyped DEF NeedsFlag
<1>3. DOMAIN RowEntries(img) = {row.key : row \in img.rows} BY RowEntriesTyped
<1>4. PICK table : again = ImageWith(result.impl, table) BY <1>2, CutImageTable
<1>5. CASE IsBnd2(img.fmt) /\ result \in Bnd2Loads(img)
  <2> DEFINE impl == LoadedBnd2(img)
  <2>1. result.impl = impl BY <1>1, <1>5 DEF Bnd2Loads, LoadSuccess
  <2>2. /\ impl.fmt = img.fmt /\ impl.flags = img.flags /\ impl.default = img.default
        /\ impl.entries = RowEntries(img) /\ impl.imports = NoEntries
        /\ impl.names = img.names
    BY DEF LoadedBnd2
  <2> HIDE DEF impl
  <2>3. /\ again.fmt = img.fmt /\ again.flags = img.flags /\ again.names = img.names
        /\ again.default = IF HasStreamMetadata(img.fmt) THEN img.default ELSE NoDefault
        /\ again.imports = SavedImports(impl)
    BY <1>4, <1>5, <2>1, <2>2 DEF ImageWith
  <2>4. again.imports = img.imports
    <3>1. DOMAIN impl.imports = {} BY <2>2 DEF NoEntries
    <3> QED BY <1>5, <2>3, <3>1 DEF Canonical, NoEntries, SavedImports
  <2>5. again.default = img.default BY <2>3 DEF Canonical
  <2>6. again.rows = img.rows
    <3>1. IsCompressed(impl) <=> IsCompressed(img) BY <2>2 DEF IsCompressed
    <3>2. ASSUME NEW k \in DOMAIN impl.entries
          PROVE  \E n : /\ impl.entries[k] = [RowEntries(img)[k] EXCEPT !.importCount = n]
                        /\ IsBnd2(img.fmt) => n = RowEntries(img)[k].importCount
      <4> DEFINE e == RowEntries(img)[k]
      <4>1. IsEntry(e) BY <2>2, RowEntriesTyped DEF IsEntries
      <4> HIDE DEF e
      <4>2. e = [e EXCEPT !.importCount = e.importCount] BY <4>1 DEF IsEntry
      <4> QED BY <2>2, <4>2 DEF e
    <3>3. ReservedKeys(img.fmt) \cap DOMAIN impl.entries = {} BY <1>3, <2>2
    <3>4. IsImpl(impl) /\ NeedsFlag(impl) /\ again \in CutImages(impl) BY <1>2, <2>1
    <3>5. impl.fmt = img.fmt /\ DOMAIN impl.entries = DOMAIN RowEntries(img) BY <2>2
    <3> QED BY <3>1, <3>2, <3>3, <3>4, <3>5, RowsResaved
  <2> QED BY <2>3, <2>4, <2>5, <2>6
<1>6. CASE ~IsBnd2(img.fmt) /\ result \in BndlLoads(img)
  <2> DEFINE impl    == LoadedBndl(img)
             entries == [k \in DOMAIN RowEntries(img) |-> LoadedBndlEntry(img, k)]
  <2>1. /\ impl.fmt = img.fmt /\ impl.default = NoDefault
        /\ impl.flags = img.flags \cup (IF img.hasTable THEN {"HasDebugData"} ELSE {})
        /\ impl.entries = entries /\ impl.imports = img.imports
        /\ impl.debug = IF img.hasTable THEN ParseTable(img.table, entries) ELSE NoEntries
        /\ impl.names = [i \in 0 .. StreamLimit - 1 |-> ""]
    BY DEF LoadedBndl
  <2>2. DOMAIN entries = {row.key : row \in img.rows} BY <1>3
  <2>3. result.impl = impl
    <3>1. StringTableKey \notin DOMAIN entries BY <1>6, <2>2 DEF ReservedKeys
    <3>2. ~TakenForTable(impl)
      <4> HIDE DEF impl, entries
      <4> QED BY <2>1, <3>1 DEF TakenForTable
    <3>3. BndlLoads(img) = {LoadSuccess(impl)} BY <3>2, Zenon DEF BndlLoads
    <3> QED BY <1>6, <3>3 DEF LoadSuccess
  <2> HIDE DEF impl
  <2>4. IsCompressed(impl) <=> IsCompressed(img) BY <2>1 DEF IsCompressed
  <2>5. /\ again.fmt = img.fmt /\ again.flags = impl.flags \cap {"Compressed"}
        /\ again.names = impl.names /\ again.default = NoDefault
        /\ again.imports = SavedImports(impl)
    <3> HIDE DEF entries
    <3> QED BY <1>4, <1>6, <2>1, <2>3 DEF ImageWith
  <2>6. again.flags = img.flags
    <3>1. img.flags \subseteq {"Compressed"} BY <1>6 DEF Canonical
    <3>2. "HasDebugData" # "Compressed" OBVIOUS
    <3> QED BY <2>1, <2>5, <3>1, <3>2
  <2>7. again.names = img.names BY <1>6, <2>1, <2>5 DEF Canonical
  <2>8. again.default = img.default BY <1>6, <2>5 DEF Canonical, HasStreamMetadata
  <2>9. again.imports = img.imports
    <3>1. img.hasTable => BorrowsStringTableKey(impl)
      <4> SUFFICES ASSUME img.hasTable PROVE BorrowsStringTableKey(impl) OBVIOUS
      <4>1. ~IsCompressed(img) /\ img.table # <<>> BY <1>6 DEF Canonical
      <4>2. \E i : i \in DOMAIN img.table
        <5>1. img.table \in Seq(Row) BY DEF IsImage
        <5>2. \A t \in Seq(Row) : t # <<>> => 1 \in DOMAIN t OBVIOUS
        <5> QED BY <4>1, <5>1, <5>2
      <4> HIDE DEF entries
      <4>3. DOMAIN ParseTable(img.table, entries) # {} BY <4>2 DEF ParseTable
      <4>4. impl.debug # NoEntries BY <2>1, <4>3 DEF NoEntries
      <4> QED BY <1>6, <2>1, <2>4, <4>1, <4>4 DEF BorrowsStringTableKey, WritesTable
    <3>2. DOMAIN img.imports \subseteq SavedIDs(impl)
      <4>1. DOMAIN img.imports \subseteq
                {row.key[1] : row \in img.rows} \cup
                    (IF img.hasTable THEN {StringTableID} ELSE {})
        BY <1>6 DEF Canonical
      <4>2. \A row \in img.rows : row.key \in DOMAIN impl.entries BY <2>1, <2>2
      <4> HIDE DEF entries
      <4> QED BY <3>1, <4>1, <4>2 DEF SavedIDs
    <3>3. /\ img.imports = [id \in DOMAIN img.imports |-> img.imports[id]]
          /\ \A id \in DOMAIN img.imports : img.imports[id] # <<>>
      BY DEF IsImage, IsImportLists, IsMap
    <3>4. impl.imports = img.imports BY <2>1
    <3> HIDE DEF entries
    <3> QED BY <2>5, <3>2, <3>3, <3>4 DEF SavedImports
  <2>10. again.rows = img.rows
    <3>1. ASSUME NEW k \in DOMAIN impl.entries
          PROVE  \E n : /\ impl.entries[k] = [RowEntries(img)[k] EXCEPT !.importCount = n]
                        /\ IsBnd2(img.fmt) => n = RowEntries(img)[k].importCount
      <4>1. impl.entries[k] = LoadedBndlEntry(img, k) BY <2>1
      <4> QED BY <1>6, <4>1 DEF LoadedBndlEntry
    <3>2. DOMAIN impl.entries = DOMAIN RowEntries(img) BY <2>1
    <3>3. ReservedKeys(img.fmt) \cap DOMAIN impl.entries = {} BY <1>3, <3>2
    <3>4. IsImpl(impl) /\ NeedsFlag(impl) /\ again \in CutImages(impl) BY <1>2, <2>3
    <3>5. impl.fmt = img.fmt BY <2>1
    <3> HIDE DEF entries
    <3> QED BY <2>4, <3>1, <3>2, <3>3, <3>4, <3>5, RowsResaved
  <2> QED BY <2>5, <2>6, <2>7, <2>8, <2>9, <2>10
<1>7. \/ result = LoadFailure("UnsupportedVersion")
      \/ result = LoadFailure("UnsupportedPlatform")
      \/ IsBnd2(img.fmt) /\ result \in Bnd2Loads(img)
      \/ ~IsBnd2(img.fmt) /\ result \in BndlLoads(img)
  BY Zenon DEF Loads
<1> QED BY <1>1, <1>5, <1>6, <1>7

\* The inductive invariant: TidyInv, and the file is what a save writes.
ResaveInv ==
    /\ TidyInv
    /\ file \notin NoBundle => Canonical(file)

\* Only a save to the path changes what is there.
LEMMA StepResaveInv == ResaveInv /\ [Next]_vars => ResaveInv'
<1> SUFFICES ASSUME ResaveInv, [Next]_vars PROVE ResaveInv' OBVIOUS
<1>1. TidyInv' BY StepTidyInv DEF ResaveInv
<1>2. CASE SaveToPath
  <2>1. IsImpl(bundle) /\ NeedsFlag(bundle) /\ Tidy(bundle)
    BY <1>2 DEF ResaveInv, TidyInv, Inv, Good, SaveToPath, IsValid
  <2>2. file' \in CutImages(bundle) \/ file' \in {file, PartialFile}
    BY <1>2 DEF SaveToPath, CutImages
  <2>3. file' \in CutImages(bundle) => Canonical(file') BY <2>1, ImageCanonical
  <2> QED BY <1>1, <2>2, <2>3 DEF ResaveInv, NoBundle
<1>3. CASE file' = file BY <1>1, <1>3 DEF ResaveInv
<1>4. SaveToPath \/ file' = file
  BY DEF Next, vars, AddResourceCall, ReplaceResourceCall, AddResourceDebugDataCall,
         SetDefaultResourceCall, SetStreamNameCall, MoveOut, Read, CallOnEmpty,
         SaveRejected, SaveThrows, SaveToMemory, LoadFromPath
<1> QED BY <1>2, <1>3, <1>4

\* Loading the file and saving it again writes the same resources, imports and
\* header, if the files of other tools are what the formats can say.
THEOREM ResavingIsStable ==
    (\A img \in ForeignFiles : Canonical(img)) => (Spec => []ResaveIsStable)
<1>1. (\A img \in ForeignFiles : Canonical(img)) /\ Init => ResaveInv
  <2> SUFFICES ASSUME \A img \in ForeignFiles : Canonical(img), Init PROVE ResaveInv OBVIOUS
  <2>1. TidyInv BY InitTidyInv DEF Canonical
  <2> QED BY <2>1 DEF Init, ResaveInv, NoBundle
<1>2. ResaveInv => ResaveIsStable
  <2> SUFFICES ASSUME ResaveInv, file \notin NoBundle,
                      NEW result \in Loads(file), result.code = "Success",
                      ReservedKeys(file.fmt) \cap {row.key : row \in file.rows} = {},
                      ~file.overcount,
                      NEW img \in Images(result.impl)
               PROVE  /\ img.rows = file.rows /\ img.imports = file.imports
                      /\ img.flags = file.flags /\ img.fmt = file.fmt
                      /\ img.default = file.default /\ img.names = file.names
    BY DEF ResaveIsStable
  <2>1. IsImage(file) /\ Canonical(file) BY DEF ResaveInv, TidyInv, Inv
  <2>2. img \in CutImages(result.impl) BY DEF CutImages
  <2> QED BY <2>1, <2>2, FileResaved
<1> QED BY <1>1, <1>2, StepResaveInv, PTL DEF Spec
=============================================================================
