----------------------------- MODULE OwnFileProofs -----------------------------
(***************************************************************************)
(* What holds of a Bundle and its file when no other tool wrote the file:  *)
(* every resource can be read, and the default resource is there.          *)
(***************************************************************************)
EXTENDS RoundTripProofs

WholeEntries(impl, except) ==
    \A k \in DOMAIN impl.entries \ except : ReadableEntry(impl.fmt, impl.entries[k])

WholeDefault(impl) ==
    impl.default # NoDefault =>
        /\ HasStreamMetadata(impl.fmt)
        /\ impl.default \in DOMAIN impl.entries
        /\ "ContainsDefaultResource" \in impl.flags

WholeFile(img, except) ==
    /\ \A row \in img.rows : row.key \notin except => ReadableEntry(img.fmt, row.entry)
    /\ img.default # NoDefault =>
            /\ HasStreamMetadata(img.fmt)
            /\ \E row \in img.rows : row.key = img.default
            /\ "ContainsDefaultResource" \in img.flags

\* The inductive invariant: a save hands the bundle's readable resources to the
\* file, a load hands them back, so both are in it.
OwnInv ==
    /\ Inv
    /\ IsValid => WholeEntries(bundle, torn) /\ WholeDefault(bundle)
    /\ file \notin NoBundle => WholeFile(file, savedTorn)

\* The inductive invariant gives the two that the runs check.
LEMMA OwnInvImplies == OwnInv => AlwaysReadable /\ DefaultIsHeld
<1> QED BY ReadableEntries DEF OwnInv, WholeEntries, WholeDefault, AlwaysReadable, DefaultIsHeld

-----------------------------------------------------------------------------
(* Calls *)

Whole(impl, except) == WholeEntries(impl, except) /\ WholeDefault(impl)

\* Putting one entry into an object spoils, or repairs, no other.
LEMMA WholeDifferentEntry ==
    ASSUME NEW impl, NEW other, NEW T, NEW k, NEW e,
           WholeEntries(impl, T), other.fmt = impl.fmt,
           other.entries = Put(impl.entries, k, e)
    PROVE  /\ ReadableEntry(impl.fmt, e) => WholeEntries(other, T \ {k})
           /\ WholeEntries(other, T \cup {k})
           /\ ReadableEntry(impl.fmt, e) => WholeEntries(other, T)
    BY DEF WholeEntries, Put

\* AddResource either changes nothing or adds an entry that can be read.
LEMMA AddResourceWhole ==
    ASSUME NEW impl, IsImpl(impl), NEW T, Whole(impl, T), NEW k \in Key, NEW r, Given(r),
           NEW stop
    PROVE  Whole(AddResource(impl, k, r, stop).impl, T)
<1> DEFINE result == AddResource(impl, k, r, stop)
<1>1. CASE result = [impl |-> impl, ok |-> FALSE] BY <1>1
<1>2. CASE ~(result = [impl |-> impl, ok |-> FALSE])
  <2>1. PICK staged, imports :
            /\ staged.fmt = impl.fmt /\ IsImportLists(imports)
            /\ result.impl =
                [fmt |-> impl.fmt, flags |-> FlagsWith(impl, k),
                 entries |-> Put(impl.entries, k,
                    ReplacedEntry(staged, FreshEntry(r.type), r, Finished)),
                 imports |-> imports, debug |-> impl.debug,
                 default |-> impl.default, names |-> impl.names]
    BY <1>2, AddResourceEffect DEF Given
  <2> DEFINE e == ReplacedEntry(staged, FreshEntry(r.type), r, Finished)
             other == result.impl
  <2>2. ReadableEntry(impl.fmt, e)
    <3>1. IsEntry(FreshEntry(r.type)) BY FreshEntryTyped DEF Given, IsResource
    <3> QED BY <2>1, <3>1, FinishedReadable
  <2>3. /\ other.fmt = impl.fmt /\ other.entries = Put(impl.entries, k, e)
        /\ other.default = impl.default /\ other.flags = FlagsWith(impl, k)
    <3> HIDE DEF result, e
    <3> QED BY <2>1 DEF e
  <2>4. WholeEntries(other, T)
    <3> HIDE DEF other, e
    <3> QED BY <2>2, <2>3, WholeDifferentEntry DEF Whole
  <2>5. WholeDefault(other)
    <3>1. /\ DOMAIN impl.entries \subseteq DOMAIN Put(impl.entries, k, e)
          /\ impl.flags \subseteq FlagsWith(impl, k)
      BY DEF Put, FlagsWith
    <3> HIDE DEF other, e
    <3> QED BY <2>3, <3>1 DEF Whole, WholeDefault
  <2> QED BY <2>4, <2>5 DEF Whole
<1> QED BY <1>1, <1>2

\* ReplaceResource leaves every entry readable but the one it was stopped at.
LEMMA ReplaceResourceWhole ==
    ASSUME NEW impl, IsImpl(impl), NEW T, Whole(impl, T), NEW k \in Key, NEW r, Given(r),
           NEW stop
    PROVE  LET result == ReplaceResource(impl, k, r, stop)
           IN  /\ result.ok => Whole(result.impl, T \ {k})
               /\ ~result.ok => result.impl = impl \/ Whole(result.impl, T \cup {k})
<1> DEFINE result == ReplaceResource(impl, k, r, stop)
<1>0. IsResource(r) BY DEF Given
<1>1. CASE result = [impl |-> impl, ok |-> FALSE] BY <1>1
<1>2. CASE ~(result = [impl |-> impl, ok |-> FALSE])
  <2>1. k \in DOMAIN impl.entries /\ (result.ok <=> stop = Finished)
    BY <1>0, <1>2, ReplaceResourceEffect
  <2>2. PICK imports :
            /\ IsImportLists(imports)
            /\ ~result.ok => imports = impl.imports
            /\ result.impl = [fmt |-> impl.fmt, flags |-> impl.flags,
                              entries |-> Put(impl.entries, k,
                                    ReplacedEntry(impl, impl.entries[k], r, stop)),
                              imports |-> imports, debug |-> impl.debug,
                              default |-> impl.default, names |-> impl.names]
    <3>1. \/ result = [impl |-> impl, ok |-> FALSE]
          \/ /\ k \in DOMAIN impl.entries /\ k[2] < StreamLimit
             /\ result.ok <=> stop = Finished
             /\ \E imports :
                   /\ IsImportLists(imports)
                   /\ ~result.ok => imports = impl.imports
                   /\ result.impl = [fmt |-> impl.fmt, flags |-> impl.flags,
                                     entries |-> Put(impl.entries, k,
                                           ReplacedEntry(impl, impl.entries[k], r, stop)),
                                     imports |-> imports, debug |-> impl.debug,
                                     default |-> impl.default, names |-> impl.names]
      BY <1>0, ReplaceResourceEffect
    <3> QED BY <1>2, <3>1, Zenon
  <2> DEFINE e == ReplacedEntry(impl, impl.entries[k], r, stop)
             other == result.impl
  <2>3. stop = Finished => ReadableEntry(impl.fmt, e)
    <3>1. IsEntry(impl.entries[k]) BY <2>1, ImplFields DEF IsEntries
    <3> QED BY <3>1, FinishedReadable
  <2>4. /\ other.fmt = impl.fmt /\ other.entries = Put(impl.entries, k, e)
        /\ other.default = impl.default /\ other.flags = impl.flags
    <3> HIDE DEF result, e
    <3> QED BY <2>2 DEF e
  <2>5. /\ stop = Finished => WholeEntries(other, T \ {k})
        /\ WholeEntries(other, T \cup {k})
    <3> HIDE DEF other, e
    <3> QED BY <2>3, <2>4, WholeDifferentEntry DEF Whole
  <2>6. WholeDefault(other)
    <3>1. DOMAIN impl.entries \subseteq DOMAIN Put(impl.entries, k, e) BY DEF Put
    <3> HIDE DEF other, e
    <3> QED BY <2>4, <3>1 DEF Whole, WholeDefault
  <2> QED BY <2>1, <2>5, <2>6 DEF Whole
<1> QED BY <1>1, <1>2

\* The metadata calls change no entry; only SetDefaultResource changes the
\* default, to a key that is held.
LEMMA MetadataWhole ==
    ASSUME NEW impl, IsImpl(impl), NEW T, Whole(impl, T)
    PROVE  /\ \A k \in Key, name \in DebugNames :
                 Whole(AddResourceDebugData(impl, k, name).impl, T)
           /\ \A k : Whole(SetDefaultResource(impl, k).impl, T)
           /\ \A i \in StreamIndices, name \in StreamNames :
                 Whole(SetStreamName(impl, i, name).impl, T)
<1>1. ASSUME NEW other, other.fmt = impl.fmt, other.entries = impl.entries,
             other.flags = impl.flags, other.default = impl.default
      PROVE  Whole(other, T)
  BY <1>1 DEF Whole, WholeEntries, WholeDefault
<1>2. ASSUME NEW k \in Key, NEW name \in DebugNames
      PROVE  Whole(AddResourceDebugData(impl, k, name).impl, T)
  <2> DEFINE result == AddResourceDebugData(impl, k, name)
  <2>1. CASE result = [impl |-> impl, ok |-> FALSE] BY <2>1
  <2>2. CASE ~(result = [impl |-> impl, ok |-> FALSE])
    <3>1. PICK debug :
            /\ IsDebugData(debug)
            /\ result.impl =
                 [fmt |-> impl.fmt, flags |-> impl.flags, entries |-> impl.entries,
                  imports |-> impl.imports, debug |-> debug,
                  default |-> impl.default, names |-> impl.names]
      BY <2>2, AddResourceDebugDataEffect
    <3> HIDE DEF result
    <3>2. Whole(result.impl, T) BY <1>1, <3>1
    <3> QED BY <3>2 DEF result
  <2> QED BY <2>1, <2>2
<1>3. ASSUME NEW k PROVE Whole(SetDefaultResource(impl, k).impl, T)
  <2> DEFINE result == SetDefaultResource(impl, k)
  <2>1. CASE result = [impl |-> impl, ok |-> FALSE] BY <2>1
  <2>2. CASE ~(result = [impl |-> impl, ok |-> FALSE])
    <3>1. /\ k \in DOMAIN impl.entries /\ HasStreamMetadata(impl.fmt)
          /\ result.impl = [fmt |-> impl.fmt,
                            flags |-> impl.flags \cup {"ContainsDefaultResource"},
                            entries |-> impl.entries, imports |-> impl.imports,
                            debug |-> impl.debug, default |-> k, names |-> impl.names]
      BY <2>2, SetDefaultResourceEffect
    <3> HIDE DEF result
    <3>2. /\ result.impl.fmt = impl.fmt /\ result.impl.entries = impl.entries
          /\ result.impl.default = k /\ "ContainsDefaultResource" \in result.impl.flags
      BY <3>1
    <3>3. Whole(result.impl, T) BY <3>1, <3>2 DEF Whole, WholeEntries, WholeDefault
    <3> QED BY <3>3 DEF result
  <2> QED BY <2>1, <2>2
<1>4. ASSUME NEW i \in StreamIndices, NEW name \in StreamNames
      PROVE  Whole(SetStreamName(impl, i, name).impl, T)
  <2> DEFINE result == SetStreamName(impl, i, name)
  <2>1. CASE result = [impl |-> impl, ok |-> FALSE] BY <2>1
  <2>2. CASE ~(result = [impl |-> impl, ok |-> FALSE])
    <3>1. PICK names \in StreamTable :
            result.impl =
                 [fmt |-> impl.fmt, flags |-> impl.flags, entries |-> impl.entries,
                  imports |-> impl.imports, debug |-> impl.debug,
                  default |-> impl.default, names |-> names]
      BY <2>2, SetStreamNameEffect
    <3> HIDE DEF result
    <3>2. Whole(result.impl, T) BY <1>1, <3>1
    <3> QED BY <3>2 DEF result
  <2> QED BY <2>1, <2>2
<1> QED BY <1>2, <1>3, <1>4

\* Saving changes at most the entry it borrows in a BNDL bundle, which has no
\* default resource.
LEMMA SaveWhole ==
    ASSUME NEW impl, IsImpl(impl), NEW T, Whole(impl, T)
    PROVE  Whole(AfterSave(impl), T) /\ \A i \in AfterThrow(impl) : Whole(i, T)
<1>1. ASSUME BorrowsStringTableKey(impl) PROVE Whole(WithoutStringTable(impl), T)
  <2> DEFINE entries == Drop(impl.entries, StringTableKey)
             other   == WithoutStringTable(impl)
  <2>1. /\ DOMAIN entries \subseteq DOMAIN impl.entries
        /\ \A k \in DOMAIN entries : entries[k] = impl.entries[k]
    BY DEF Drop
  <2>2. other.fmt = impl.fmt /\ other.entries = entries /\ other.default = impl.default
    <3> HIDE DEF entries
    <3>1. other = [impl EXCEPT !.entries = entries] BY DEF WithoutStringTable, entries
    <3> HIDE DEF other
    <3> QED BY <3>1 DEF IsImpl
  <2>3. impl.default = NoDefault
    BY <1>1 DEF BorrowsStringTableKey, Whole, WholeDefault, HasStreamMetadata
  <2>4. Whole(other, T)
    <3> HIDE DEF other, entries
    <3> QED BY <2>1, <2>2, <2>3 DEF Whole, WholeEntries, WholeDefault
  <2> QED BY <2>4
<1>2. ASSUME BorrowsStringTableKey(impl), NEW blocks \in {TableBlocks, NoEntries}
      PROVE  Whole(WithBorrowed(impl, blocks), T)
  <2> DEFINE e     == BorrowedEntry(blocks)
             other == WithBorrowed(impl, blocks)
  <2>1. ReadableEntry(impl.fmt, e)
    <3>1. e.blocks = blocks /\ e.importCount = 0 BY DEF BorrowedEntry
    <3>2. \A s \in DOMAIN blocks : Decodable(blocks[s])
      BY ContainerAssumption DEF TableBlocks, NoEntries, Decodable
    <3>3. ~IsBnd2(impl.fmt) BY <1>2 DEF BorrowsStringTableKey
    <3> HIDE DEF e
    <3> QED BY <3>1, <3>2, <3>3 DEF ReadableEntry
  <2>2. other = [impl EXCEPT !.entries = Put(impl.entries, StringTableKey, e)]
    BY DEF WithBorrowed
  <2>3. /\ other.fmt = impl.fmt /\ other.entries = Put(impl.entries, StringTableKey, e)
        /\ other.default = impl.default
    <3> HIDE DEF e, other
    <3> QED BY <2>2 DEF IsImpl
  <2>4. impl.default = NoDefault
    BY <1>2 DEF BorrowsStringTableKey, Whole, WholeDefault, HasStreamMetadata
  <2>5. Whole(other, T)
    <3> HIDE DEF other, e
    <3> QED BY <2>1, <2>3, <2>4, WholeDifferentEntry DEF Whole, WholeDefault
  <2> QED BY <2>5
<1> QED BY <1>1, <1>2 DEF AfterSave, AfterThrow, WithStringTable

-----------------------------------------------------------------------------
(* Files *)

\* The file a save writes holds what the bundle does, under the same keys: that
\* is where StreamNeedsFlag is needed.
LEMMA ImageWhole ==
    ASSUME NEW impl, IsImpl(impl), NeedsFlag(impl), NEW T, Whole(impl, T),
           NEW img \in CutImages(impl)
    PROVE  WholeFile(img, T)
<1> DEFINE after   == AfterSave(impl)
           written == after.entries
<1>1. PICK table : img = ImageWith(impl, table) BY CutImageTable
<1>2. /\ img.fmt = impl.fmt
      /\ img.flags = IF IsBnd2(impl.fmt) THEN impl.flags ELSE impl.flags \cap {"Compressed"}
      /\ img.rows = {[key |-> SavedKey(impl, k), entry |-> SavedEntry(impl, written[k])] :
                         k \in DOMAIN written}
      /\ img.default = IF HasStreamMetadata(impl.fmt) THEN impl.default ELSE NoDefault
  BY <1>1 DEF ImageWith
<1>3. /\ IsImpl(after) /\ after.fmt = impl.fmt /\ Whole(after, T)
      /\ DOMAIN written \subseteq DOMAIN impl.entries
      /\ IsBnd2(impl.fmt) => after = impl
  <2>1. CASE BorrowsStringTableKey(impl)
    <3>1. after = WithoutStringTable(impl) BY <2>1 DEF AfterSave
    <3>2. after.fmt = impl.fmt /\ DOMAIN written \subseteq DOMAIN impl.entries
      BY <3>1 DEF WithoutStringTable, Drop, IsImpl
    <3>3. IsImpl(after) /\ Whole(after, T) BY AfterSaveTyped, SaveWhole
    <3>4. ~IsBnd2(impl.fmt) BY <2>1 DEF BorrowsStringTableKey
    <3> QED BY <3>2, <3>3, <3>4
  <2>2. CASE ~BorrowsStringTableKey(impl) BY <2>2 DEF AfterSave
  <2> QED BY <2>1, <2>2
<1> HIDE DEF after
<1>4. ASSUME NEW k \in DOMAIN written PROVE SavedKey(impl, k) = k
  <2>1. k \in Key /\ k \in DOMAIN impl.entries BY <1>3, ImplFields DEF IsEntries
  <2> QED BY <2>1, SavedKeyTyped DEF NeedsFlag
<1>5. ASSUME NEW k \in DOMAIN written, k \notin T
      PROVE  ReadableEntry(impl.fmt, SavedEntry(impl, written[k]))
  <2>1. IsEntry(written[k]) BY <1>3, ImplFields DEF IsEntries
  <2>2. ReadableEntry(impl.fmt, written[k]) BY <1>3, <1>5 DEF Whole, WholeEntries
  <2> QED BY <2>1, <2>2, SavedReadable
<1>6. \A row \in img.rows : row.key \notin T => ReadableEntry(img.fmt, row.entry)
  <2> SUFFICES ASSUME NEW row \in img.rows, row.key \notin T
               PROVE  ReadableEntry(img.fmt, row.entry)
    OBVIOUS
  <2>1. PICK k \in DOMAIN written :
            row = [key |-> SavedKey(impl, k), entry |-> SavedEntry(impl, written[k])]
    BY <1>2
  <2>2. row.key = k /\ row.entry = SavedEntry(impl, written[k]) BY <2>1, <1>4
  <2> QED BY <1>2, <1>5, <2>2
<1>7. ASSUME img.default # NoDefault
      PROVE  /\ HasStreamMetadata(img.fmt)
             /\ \E row \in img.rows : row.key = img.default
             /\ "ContainsDefaultResource" \in img.flags
  <2>1. HasStreamMetadata(impl.fmt) /\ img.default = impl.default BY <1>2, <1>7
  <2>2. IsBnd2(impl.fmt) BY <2>1 DEF HasStreamMetadata
  <2>3. /\ impl.default \in DOMAIN impl.entries
        /\ "ContainsDefaultResource" \in impl.flags
    BY <1>7, <2>1 DEF Whole, WholeDefault
  <2> DEFINE row == [key   |-> SavedKey(impl, impl.default),
                     entry |-> SavedEntry(impl, written[impl.default])]
  <2>4. impl.default \in DOMAIN written BY <1>3, <2>2, <2>3
  <2>5. row \in img.rows /\ row.key = impl.default BY <1>2, <1>4, <2>4
  <2> HIDE DEF row
  <2> QED BY <1>2, <2>1, <2>2, <2>3, <2>5
<1> QED BY <1>6, <1>7 DEF WholeFile

\* What Load makes of such a file.
LEMMA LoadWhole ==
    ASSUME NEW img, IsImage(img), NEW T, WholeFile(img, T), NEW result \in Loads(img),
           result.code = "Success"
    PROVE  Whole(result.impl, T)
<1>1. ASSUME NEW k \in DOMAIN RowEntries(img), k \notin T
      PROVE  ReadableEntry(img.fmt, RowEntries(img)[k])
  <2>1. PICK row \in img.rows : row.key = k /\ RowEntries(img)[k] = row.entry
    BY RowEntriesTyped
  <2> QED BY <1>1, <2>1 DEF WholeFile
<1>2. \A c : c # "Success" => result # LoadFailure(c) BY DEF LoadFailure
<1>3. CASE IsBnd2(img.fmt) /\ result \in Bnd2Loads(img)
  <2>1. result = LoadSuccess(LoadedBnd2(img)) BY <1>2, <1>3 DEF Bnd2Loads
  <2> DEFINE impl == LoadedBnd2(img)
  <2>2. result.impl = impl BY <2>1 DEF LoadSuccess
  <2>3. /\ impl.fmt = img.fmt /\ impl.flags = img.flags /\ impl.default = img.default
        /\ impl.entries = RowEntries(img)
    BY DEF LoadedBnd2
  <2>4. DOMAIN RowEntries(img) = {row.key : row \in img.rows} BY RowEntriesTyped
  <2> HIDE DEF impl
  <2>5. WholeEntries(impl, T) BY <1>1, <2>3 DEF WholeEntries
  <2>6. WholeDefault(impl) BY <2>3, <2>4 DEF WholeDefault, WholeFile
  <2> QED BY <2>2, <2>5, <2>6 DEF Whole
<1>4. CASE ~IsBnd2(img.fmt) /\ result \in BndlLoads(img)
  <2> DEFINE impl == LoadedBndl(img)
  <2>1. /\ IsImpl(impl) /\ impl.fmt = img.fmt /\ impl.default = NoDefault
        /\ DOMAIN impl.entries = DOMAIN RowEntries(img)
        /\ \A k \in DOMAIN impl.entries : impl.entries[k].blocks = RowEntries(img)[k].blocks
    <3>1. impl.default = NoDefault BY DEF LoadedBndl
    <3> QED BY <3>1, LoadedBndlTyped
  <2>2. WholeEntries(impl, T)
    <3> HIDE DEF impl
    <3> QED BY <1>1, <1>4, <2>1 DEF WholeEntries, ReadableEntry
  <2>3. Whole(impl, T)
    <3> HIDE DEF impl
    <3> QED BY <2>1, <2>2 DEF Whole, WholeDefault
  <2> HIDE DEF impl
  <2>4. ASSUME NEW i \in StrayEntries(impl) PROVE Whole(i, T)
    <3>1. PICK id \in ResourceIDs, type \in Types : i = WithStray(impl, id, type)
      BY <2>4 DEF StrayEntries
    <3> DEFINE entries == Put(impl.entries, <<id, 0>>, FreshEntry(type))
               imports == Drop(impl.imports, id)
    <3>2. /\ i.fmt = impl.fmt /\ i.entries = entries /\ i.default = impl.default
      <4>1. i = [impl EXCEPT !.entries = entries, !.imports = imports]
        BY <3>1 DEF WithStray
      <4> HIDE DEF entries, imports
      <4>2. i = [fmt |-> impl.fmt, flags |-> impl.flags, entries |-> entries,
                 imports |-> imports, debug |-> impl.debug, default |-> impl.default,
                 names |-> impl.names]
        BY <2>1, <4>1, ImplExcept
      <4> QED BY <4>2
    <3>3. WholeEntries(i, T) BY <2>2, <3>2, FreshReadable, WholeDifferentEntry
    <3> QED BY <2>1, <3>2, <3>3 DEF Whole, WholeDefault
  <2> DEFINE without == WithoutStringTable(impl)
             claimed == [without EXCEPT !.flags = @ \cup {"HasDebugData"}]
  <2>5. Whole(claimed, T)
    <3>1. IsImpl(without) BY <2>1, AfterSaveTyped
    <3>2. /\ without.fmt = impl.fmt /\ without.default = impl.default
          /\ without.entries = Drop(impl.entries, StringTableKey)
      BY <2>1 DEF WithoutStringTable, IsImpl
    <3> HIDE DEF without
    <3>3. /\ claimed.fmt = impl.fmt /\ claimed.default = NoDefault
          /\ claimed.entries = Drop(impl.entries, StringTableKey)
      BY <2>1, <3>1, <3>2 DEF IsImpl
    <3> HIDE DEF claimed
    <3>4. WholeEntries(claimed, T) BY <2>2, <3>3 DEF WholeEntries, Drop
    <3> QED BY <3>3, <3>4 DEF Whole, WholeDefault
  <2>6. \/ result = LoadFailure("InvalidBundle")
        \/ \E i \in StrayEntries(impl) : result = LoadSuccess(i)
        \/ result = LoadSuccess(claimed)
        \/ result = LoadSuccess(impl)
    BY <1>4, Zenon DEF BndlLoads, impl
  <2> HIDE DEF claimed
  <2>7. \A i : LoadSuccess(i).impl = i BY DEF LoadSuccess
  <2> QED BY <1>2, <2>3, <2>4, <2>5, <2>6, <2>7
<1>5. \/ result = LoadFailure("UnsupportedVersion")
      \/ result = LoadFailure("UnsupportedPlatform")
      \/ IsBnd2(img.fmt) /\ result \in Bnd2Loads(img)
      \/ ~IsBnd2(img.fmt) /\ result \in BndlLoads(img)
  BY Zenon DEF Loads
<1> QED BY <1>2, <1>3, <1>4, <1>5

-----------------------------------------------------------------------------
(* The theorems *)

\* A new bundle holds nothing that cannot be read, and no file is there.
LEMMA InitOwnInv == ForeignFiles = {} /\ Init => OwnInv
<1> SUFFICES ASSUME ForeignFiles = {}, Init PROVE OwnInv OBVIOUS
<1>1. Inv BY InitInv
<1>2. \A T : Whole(NewImpl(Fmt, InitialFlags), T)
  BY DEF Whole, WholeEntries, WholeDefault, NewImpl, NoEntries
<1>3. IsValid => Whole(bundle, torn) BY <1>2 DEF Init, IsValid
<1>4. file \in NoBundle BY DEF Init, NoBundle
<1> QED BY <1>1, <1>3, <1>4 DEF OwnInv, Whole

\* Every call keeps the bundle and the file readable but for what was torn.
LEMMA StepOwnInv == OwnInv /\ [Next]_vars => OwnInv'
<1> SUFFICES ASSUME OwnInv, [Next]_vars PROVE OwnInv' OBVIOUS
<1> USE DEF vars, history
<1> DEFINE Mem == IsValid => Whole(bundle, torn)
           Disk == file \notin NoBundle => WholeFile(file, savedTorn)
<1>0. /\ Inv /\ Inv' /\ Mem /\ Disk
      /\ IsValid => IsImpl(bundle) /\ NeedsFlag(bundle)
      /\ \A r \in Resources : Given(r)
  <2>1. Inv /\ Mem /\ Disk BY DEF OwnInv, Whole
  <2>2. \A r \in Resources : Given(r) BY StoreAssumption DEF Given
  <2> QED BY <2>1, <2>2, StepInv DEF Inv, Good, IsValid
<1> SUFFICES Mem' /\ Disk' BY <1>0 DEF OwnInv, Whole
<1>1. ASSUME NEW k \in Key, NEW r \in Resources, AddResourceCall(k, r) PROVE Mem' /\ Disk'
  <2>1. PICK stop \in StopSlots(bundle, r) :
            bundle' = AddResource(bundle, k, r, stop).impl
    BY <1>1 DEF AddResourceCall, Report
  <2>2. Whole(bundle', torn)
    BY <1>0, <1>1, <2>1, AddResourceWhole DEF AddResourceCall
  <2> QED BY <1>0, <1>1, <2>2 DEF AddResourceCall
<1>2. ASSUME NEW k \in Key, NEW r \in Resources, ReplaceResourceCall(k, r)
      PROVE  Mem' /\ Disk'
  <2>1. PICK stop \in StopSlots(bundle, r) :
            LET result == ReplaceResource(bundle, k, r, stop)
            IN  /\ Report(result, "ResourceNotFound")
                /\ torn' = IF result.ok THEN torn \ {k}
                           ELSE IF result.impl # bundle THEN torn \cup {k} ELSE torn
    BY <1>2 DEF ReplaceResourceCall
  <2> DEFINE result == ReplaceResource(bundle, k, r, stop)
  <2>2. /\ result.ok => Whole(result.impl, torn \ {k})
        /\ ~result.ok => result.impl = bundle \/ Whole(result.impl, torn \cup {k})
    BY <1>0, <1>2, ReplaceResourceWhole DEF ReplaceResourceCall
  <2>3. /\ bundle' = result.impl
        /\ torn' = IF result.ok THEN torn \ {k}
                   ELSE IF result.impl # bundle THEN torn \cup {k} ELSE torn
    BY <2>1 DEF Report
  <2>4. IsValid /\ file' = file /\ savedTorn' = savedTorn BY <1>2 DEF ReplaceResourceCall
  <2> HIDE DEF result
  <2>5. Whole(bundle', torn') BY <1>0, <2>2, <2>3, <2>4
  <2> QED BY <1>0, <2>4, <2>5
<1>3. ASSUME NEW k \in Key, NEW name \in GivenNames, AddResourceDebugDataCall(k, name)
      PROVE  Mem' /\ Disk'
  <2>1. name \in DebugNames BY StoreAssumption
  <2>2. Whole(bundle', torn)
    BY <1>0, <1>3, <2>1, MetadataWhole DEF AddResourceDebugDataCall, Report
  <2> QED BY <1>0, <1>3, <2>2 DEF AddResourceDebugDataCall
<1>4. ASSUME NEW id \in ResourceIDs, NEW stream \in StreamArguments,
             SetDefaultResourceCall(id, stream)
      PROVE  Mem' /\ Disk'
  <2>1. bundle' = bundle \/ bundle' = SetDefaultResource(bundle, <<id, stream>>).impl
    BY <1>4 DEF SetDefaultResourceCall, Report
  <2>2. Whole(bundle', torn)
    BY <1>0, <1>4, <2>1, MetadataWhole DEF SetDefaultResourceCall
  <2> QED BY <1>0, <1>4, <2>2 DEF SetDefaultResourceCall
<1>5. ASSUME NEW i \in StreamIndices, NEW name \in GivenStreamNames, SetStreamNameCall(i, name)
      PROVE  Mem' /\ Disk'
  <2>1. name \in StreamNames BY StoreAssumption
  <2>2. Whole(bundle', torn)
    BY <1>0, <1>5, <2>1, MetadataWhole DEF SetStreamNameCall, Report
  <2> QED BY <1>0, <1>5, <2>2 DEF SetStreamNameCall
<1>6. CASE MoveOut BY <1>0, <1>6 DEF MoveOut, IsValid
<1>7. CASE Read BY <1>0, <1>7 DEF Read, IsValid
<1>8. CASE CallOnEmpty BY <1>0, <1>8 DEF CallOnEmpty, IsValid
<1>9. CASE SaveRejected BY <1>0, <1>9 DEF SaveRejected, IsValid
<1>10. CASE SaveThrows BY <1>0, <1>10, SaveWhole DEF SaveThrows
<1>11. CASE SaveToPath
  <2>1. IsImpl(bundle) /\ NeedsFlag(bundle) /\ Whole(bundle, torn)
    BY <1>0, <1>11 DEF SaveToPath
  <2>2. Whole(bundle', torn') BY <1>11, <2>1, SaveWhole DEF SaveToPath
  <2>3. CASE file' \in CutImages(bundle) /\ savedTorn' = torn
    BY <2>1, <2>2, <2>3, ImageWhole
  <2>4. CASE file' \in {file, PartialFile} /\ savedTorn' = savedTorn
    BY <1>0, <2>2, <2>4 DEF NoBundle
  <2> QED BY <1>11, <2>3, <2>4 DEF SaveToPath, CutImages
<1>12. CASE SaveToMemory BY <1>0, <1>12, SaveWhole DEF SaveToMemory
<1>13. CASE LoadFromPath
  <2>1. CASE UNCHANGED <<bundle, file, history>> BY <1>0, <2>1 DEF IsValid
  <2>2. CASE /\ file \notin NoBundle
             /\ \E result \in Loads(file) :
                  /\ bundle' = IF result.code = "Success" THEN result.impl ELSE bundle
                  /\ torn' = IF result.code = "Success" THEN savedTorn ELSE torn
             /\ UNCHANGED <<file, savedTorn>>
    <3>1. IsImage(file) /\ WholeFile(file, savedTorn) BY <1>0, <2>2 DEF Inv
    <3>2. PICK result \in Loads(file) :
            /\ bundle' = IF result.code = "Success" THEN result.impl ELSE bundle
            /\ torn' = IF result.code = "Success" THEN savedTorn ELSE torn
      BY <2>2
    <3>3. CASE result.code = "Success" BY <1>0, <2>2, <3>1, <3>2, <3>3, LoadWhole
    <3>4. CASE result.code # "Success" BY <1>0, <2>2, <3>2, <3>4 DEF IsValid
    <3> QED BY <3>3, <3>4
  <2> QED BY <1>13, <2>1, <2>2 DEF LoadFromPath
<1>14. CASE UNCHANGED vars BY <1>0, <1>14 DEF IsValid
<1> QED BY <1>1, <1>2, <1>3, <1>4, <1>5, <1>6, <1>7, <1>8, <1>9, <1>10, <1>11, <1>12, <1>13,
           <1>14 DEF Next

\* However resources are added, replaced, saved and loaded, each of them can be
\* read, but for one whose replacement was stopped.
THEOREM ResourcesStayReadable == ForeignFiles = {} => (Spec => []AlwaysReadable)
<1>1. OwnInv => AlwaysReadable BY OwnInvImplies
<1> QED BY <1>1, InitOwnInv, StepOwnInv, PTL DEF Spec

\* The default resource is held and announced, across saves and loads.
THEOREM DefaultStaysHeld == ForeignFiles = {} => (Spec => []DefaultIsHeld)
<1>1. OwnInv => DefaultIsHeld BY OwnInvImplies
<1> QED BY <1>1, InitOwnInv, StepOwnInv, PTL DEF Spec

-----------------------------------------------------------------------------
(* The refinement of ResourceMap: what a file must be able to give back *)

\* BNDL's on-disk alignments are 1 but for those of the string table's entry.
PlainAligned(k, e) ==
    IsBnd2(Fmt) \/ k \in ReservedKeys(Fmt) \/ e.diskAligns = [s \in Slots |-> 1]

\* With stream indices an entry may count no imports where another stream of the
\* id has some, but Save rejects such a bundle.
CountsLists(impl, T) ==
    \/ IsBnd2(Fmt) \/ "MultistreamBundle" \in impl.flags
    \/ \A k \in DOMAIN impl.entries \ (T \cup ReservedKeys(Fmt)) : CountsList(impl, k)

MapEntries(entries, T) ==
    /\ \A k \in DOMAIN entries : PlainAligned(k, entries[k])
    /\ \A k \in DOMAIN entries \ T : KeepsImports(Fmt, entries[k])

OfKind(x) == x.fmt = Fmt /\ (IsCompressed(x) <=> CompressedFrom)

MapImpl(impl, T) == OfKind(impl) /\ MapEntries(impl.entries, T) /\ CountsLists(impl, T)
MapFile(img, T) == OfKind(img) /\ MapEntries(RowEntries(img), T)

\* The inductive invariant of the refinement.
MapInv ==
    /\ OwnInv
    /\ IsValid => MapImpl(bundle, torn)
    /\ file \notin NoBundle => MapFile(file, savedTorn)

\* A replacement that finishes puts the imports where they are looked for, and
\* none touches an alignment that is 1.
LEMMA ReplacedKeeps ==
    ASSUME NEW impl, NEW e, NEW r, Given(r)
    PROVE  /\ KeepsImports(impl.fmt, ReplacedEntry(impl, e, r, Finished))
           /\ \A k, stop : PlainAligned(k, e) => PlainAligned(k, ReplacedEntry(impl, e, r, stop))
<1>1. ASSUME NEW k, NEW stop, PlainAligned(k, e)
      PROVE  PlainAligned(k, ReplacedEntry(impl, e, r, stop))
  <2>1. ASSUME e.diskAligns = [s \in Slots |-> 1]
        PROVE  ReplacedEntry(impl, e, r, stop).diskAligns = [s \in Slots |-> 1]
    BY <2>1 DEF ReplacedEntry
  <2> QED BY <1>1, <2>1 DEF PlainAligned
<1> QED BY <1>1, ReplacedKeepsImports

\* Neither is lost in a file.
LEMMA SavedKeeps ==
    ASSUME NEW impl, OfKind(impl), NEW e, IsEntry(e)
    PROVE  /\ KeepsImports(Fmt, e) => KeepsImports(Fmt, SavedEntry(impl, e))
           /\ \A k : PlainAligned(k, e) => PlainAligned(k, SavedEntry(impl, e))
<1> DEFINE saved == SavedEntry(impl, e)
<1>1. impl.fmt = Fmt BY DEF OfKind
<1>2. ASSUME NEW k, PlainAligned(k, e) PROVE PlainAligned(k, saved)
  <2>1. CASE ~IsBnd2(Fmt) /\ e.diskAligns = [s \in Slots |-> 1]
    <3>1. saved.diskAligns = [s \in Slots |-> SavedDiskAlignment(impl, e, s)]
      BY DEF SavedEntry
    <3>2. \A s \in Slots : SavedDiskAlignment(impl, e, s) = 1
      BY <1>1, <2>1 DEF SavedDiskAlignment
    <3>3. saved.diskAligns = [s \in Slots |-> 1] BY <3>1, <3>2
    <3> QED BY <3>3 DEF PlainAligned
  <2> QED BY <1>2, <2>1 DEF PlainAligned
<1> QED BY <1>1, <1>2, SavedKeepsImports

\* One more entry, or another under its key.
LEMMA MapEntriesPut ==
    ASSUME NEW entries, NEW T, MapEntries(entries, T), NEW k, NEW e, PlainAligned(k, e)
    PROVE  /\ KeepsImports(Fmt, e) => /\ MapEntries(Put(entries, k, e), T)
                                      /\ MapEntries(Put(entries, k, e), T \ {k})
           /\ MapEntries(Put(entries, k, e), T \cup {k})
    BY DEF MapEntries, Put

\* An entry that counts the list stored with it, where no other entry has its id.
LEMMA CountsListsPut ==
    ASSUME NEW impl, IsImpl(impl), NeedsFlag(impl), NEW T, CountsLists(impl, T),
           NEW k \in Key, NEW e, NEW list \in Seq(ResourceIDs), NEW other,
           impl.flags \subseteq other.flags,
           k[2] # 0 => "MultistreamBundle" \in other.flags,
           other.entries = Put(impl.entries, k, e),
           \/ IsBnd2(Fmt)
           \/ /\ e.importCount = Len(list)
              /\ other.imports = StoreSeparateImports(impl.imports, k[1], list)
    PROVE  CountsLists(other, T) /\ CountsLists(other, T \ {k})
<1> SUFFICES ASSUME ~IsBnd2(Fmt), "MultistreamBundle" \notin other.flags,
                    NEW q \in DOMAIN other.entries, q \notin (T \ {k}) \cup ReservedKeys(Fmt)
             PROVE  CountsList(other, q)
  BY DEF CountsLists
<1>1. DOMAIN other.entries = DOMAIN impl.entries \cup {k} /\ other.entries[k] = e
      /\ \A x \in DOMAIN impl.entries : x # k => other.entries[x] = impl.entries[x]
  BY DEF Put
<1>2. /\ k[1] \in DOMAIN other.imports => list # <<>>
      /\ \A id : id # k[1] => /\ id \in DOMAIN other.imports <=> id \in DOMAIN impl.imports
                              /\ id \in DOMAIN impl.imports => other.imports[id] = impl.imports[id]
  BY DEF StoreSeparateImports, Put, Drop
<1>3. CASE q = k
  <2>1. Len(list) = 0 => list = <<>> OBVIOUS
  <2> QED BY <1>1, <1>2, <1>3, <2>1 DEF CountsList
<1>4. CASE q # k
  <2>1. q \in DOMAIN impl.entries /\ q \in Key BY <1>1, <1>4, ImplFields DEF IsEntries
  <2>2. q[2] = 0 /\ k[2] = 0 BY <2>1 DEF NeedsFlag
  <2>3. q[1] # k[1] BY <1>4, <2>1, <2>2, KeyParts
  <2>4. CountsList(impl, q) BY <1>4, <2>1 DEF CountsLists
  <2> QED BY <1>1, <1>2, <1>4, <2>1, <2>3, <2>4 DEF CountsList
<1> QED BY <1>3, <1>4

\* AddResource either changes nothing or adds such an entry.
LEMMA AddResourceMap ==
    ASSUME NEW impl, IsImpl(impl), NeedsFlag(impl), NEW T, MapImpl(impl, T), NEW k \in Key,
           NEW r, Given(r), NEW stop
    PROVE  MapImpl(AddResource(impl, k, r, stop).impl, T)
<1> DEFINE result == AddResource(impl, k, r, stop)
<1> SUFFICES ASSUME NEW other, other = result.impl PROVE MapImpl(other, T) OBVIOUS
<1>0. IsResource(r) /\ r.imports \in Seq(ResourceIDs) BY DEF Given, IsResource
<1>1. CASE ~result.ok
  <2>1. other = impl BY <1>0, <1>1, RefusedAdd
  <2> QED BY <2>1
<1>2. CASE result.ok
  <2>1. /\ other.fmt = impl.fmt /\ other.flags = FlagsWith(impl, k)
        /\ other.imports = IF IsBnd2(impl.fmt) THEN impl.imports
                           ELSE StoreSeparateImports(impl.imports, k[1], r.imports)
    BY <1>0, <1>2, AddedEntry
  <2>2. PICK staged :
            /\ staged.fmt = impl.fmt
            /\ other.entries =
                    Put(impl.entries, k, ReplacedEntry(staged, FreshEntry(r.type), r, Finished))
    BY <1>0, <1>2, AddedEntry
  <2> DEFINE e == ReplacedEntry(staged, FreshEntry(r.type), r, Finished)
  <2>3. other.entries = Put(impl.entries, k, e) BY <2>2
  <2>4. impl.fmt = Fmt /\ MapEntries(impl.entries, T) /\ CountsLists(impl, T)
    BY DEF MapImpl, OfKind
  <2>5. PlainAligned(k, e) /\ KeepsImports(Fmt, e)
    <3>1. PlainAligned(k, FreshEntry(r.type)) BY DEF PlainAligned, FreshEntry
    <3> QED BY <2>2, <2>4, <3>1, ReplacedKeeps
  <2>6. ~IsBnd2(Fmt) => e.importCount = Len(r.imports)
    BY <2>2, <2>4 DEF ReplacedEntry, CountsImports
  <2> HIDE DEF e, result
  <2>7. MapEntries(other.entries, T)
    <3>1. MapEntries(Put(impl.entries, k, e), T) BY <2>4, <2>5, MapEntriesPut
    <3> QED BY <2>3, <3>1
  <2>8. /\ impl.flags \subseteq other.flags /\ (k[2] # 0 => "MultistreamBundle" \in other.flags)
        /\ IsCompressed(other) <=> IsCompressed(impl)
    BY <2>1 DEF FlagsWith, IsCompressed
  <2>9. CountsLists(other, T)
    <3>1. IsBnd2(Fmt) \/ other.imports = StoreSeparateImports(impl.imports, k[1], r.imports)
      BY <2>1, <2>4
    <3> QED BY <1>0, <2>3, <2>4, <2>6, <2>8, <3>1, CountsListsPut
  <2> QED BY <2>1, <2>4, <2>7, <2>8, <2>9 DEF MapImpl, OfKind
<1> QED BY <1>1, <1>2

\* ReplaceResource spoils no entry but the one it was stopped at.
LEMMA ReplaceResourceMap ==
    ASSUME NEW impl, IsImpl(impl), NeedsFlag(impl), NEW T, MapImpl(impl, T), NEW k \in Key,
           NEW r, Given(r), NEW stop
    PROVE  LET result == ReplaceResource(impl, k, r, stop)
           IN  /\ result.ok => MapImpl(result.impl, T \ {k})
               /\ ~result.ok => result.impl = impl \/ MapImpl(result.impl, T \cup {k})
<1> DEFINE result == ReplaceResource(impl, k, r, stop)
           other  == result.impl
           e      == ReplacedEntry(impl, impl.entries[k], r, stop)
<1>0. IsResource(r) /\ r.imports \in Seq(ResourceIDs) BY DEF Given, IsResource
<1>1. CASE result = [impl |-> impl, ok |-> FALSE] BY <1>1
<1>2. CASE result # [impl |-> impl, ok |-> FALSE]
  <2>1. /\ k \in DOMAIN impl.entries
        /\ result.ok <=> stop = Finished
        /\ other =
             [fmt |-> impl.fmt, flags |-> impl.flags, entries |-> Put(impl.entries, k, e),
              imports |-> IF IsBnd2(impl.fmt) \/ stop # Finished THEN impl.imports
                          ELSE StoreSeparateImports(impl.imports, k[1], r.imports),
              debug |-> impl.debug, default |-> impl.default, names |-> impl.names]
    BY <1>0, <1>2, ReplacedImpl
  <2>2. /\ other.fmt = impl.fmt /\ other.flags = impl.flags
        /\ other.entries = Put(impl.entries, k, e)
        /\ other.imports = IF IsBnd2(impl.fmt) \/ stop # Finished THEN impl.imports
                           ELSE StoreSeparateImports(impl.imports, k[1], r.imports)
    <3> HIDE DEF e, other
    <3> QED BY <2>1
  <2>3. impl.fmt = Fmt /\ MapEntries(impl.entries, T) /\ CountsLists(impl, T)
    BY DEF MapImpl, OfKind
  <2>4. PlainAligned(k, e)
    <3>1. PlainAligned(k, impl.entries[k]) BY <2>1, <2>3 DEF MapEntries
    <3> QED BY <3>1, ReplacedKeeps
  <2>5. stop = Finished => KeepsImports(Fmt, e) BY <2>3, ReplacedKeeps
  <2>6. stop = Finished /\ ~IsBnd2(Fmt) => e.importCount = Len(r.imports)
    BY <2>3 DEF ReplacedEntry, CountsImports
  <2>7. OfKind(other) BY <2>2 DEF MapImpl, OfKind, IsCompressed
  <2>8. ASSUME result.ok PROVE MapImpl(other, T \ {k})
    <3>1. stop = Finished BY <2>1, <2>8
    <3> HIDE DEF e, other, result
    <3>2. MapEntries(other.entries, T \ {k})
      <4>1. MapEntries(Put(impl.entries, k, e), T \ {k}) BY <2>3, <2>4, <2>5, <3>1, MapEntriesPut
      <4> QED BY <2>2, <4>1
    <3>3. k[2] # 0 => "MultistreamBundle" \in other.flags BY <2>1, <2>2 DEF NeedsFlag
    <3>4. CountsLists(other, T \ {k})
      BY <1>0, <2>2, <2>3, <2>6, <3>1, <3>3, CountsListsPut
    <3> QED BY <2>7, <3>2, <3>4 DEF MapImpl
  <2>9. ASSUME ~result.ok PROVE MapImpl(other, T \cup {k})
    <3>1. stop # Finished BY <2>1, <2>9
    <3> HIDE DEF e, other, result
    <3>2. MapEntries(other.entries, T \cup {k})
      <4>1. MapEntries(Put(impl.entries, k, e), T \cup {k}) BY <2>3, <2>4, MapEntriesPut
      <4> QED BY <2>2, <4>1
    <3>3. other.imports = impl.imports BY <2>2, <3>1
    <3>4. \A q \in DOMAIN other.entries \ (T \cup {k}) :
              q \in DOMAIN impl.entries \ T /\ other.entries[q] = impl.entries[q]
      BY <2>2 DEF Put
    <3>5. CountsLists(other, T \cup {k}) BY <2>2, <2>3, <3>3, <3>4 DEF CountsLists, CountsList
    <3> QED BY <2>7, <3>2, <3>5 DEF MapImpl
  <2> QED BY <2>8, <2>9
<1> QED BY <1>1, <1>2

\* The metadata calls change neither entries nor imports.
LEMMA MetadataMap ==
    ASSUME NEW impl, NEW other, other.fmt = impl.fmt, other.entries = impl.entries,
           other.imports = impl.imports, impl.flags \subseteq other.flags,
           other.flags \subseteq impl.flags \cup {"ContainsDefaultResource", "HasDebugData"},
           NEW T, MapImpl(impl, T)
    PROVE  MapImpl(other, T)
    BY DEF MapImpl, OfKind, IsCompressed, CountsLists, CountsList

\* Saving takes away or leaves the one entry it borrows.
LEMMA SaveMap ==
    ASSUME NEW impl, IsImpl(impl), NEW T, MapImpl(impl, T)
    PROVE  MapImpl(AfterSave(impl), T) /\ \A i \in AfterThrow(impl) : MapImpl(i, T)
<1>1. ASSUME BorrowsStringTableKey(impl), NEW entries, NEW other,
             other = [impl EXCEPT !.entries = entries], MapEntries(entries, T),
             \A k \in DOMAIN entries \ {StringTableKey} :
                k \in DOMAIN impl.entries /\ entries[k] = impl.entries[k]
      PROVE  MapImpl(other, T)
  <2>1. /\ other.fmt = impl.fmt /\ other.flags = impl.flags /\ other.entries = entries
        /\ other.imports = impl.imports
    BY <1>1 DEF IsImpl
  <2>2. StringTableKey \in ReservedKeys(Fmt)
    BY <1>1 DEF BorrowsStringTableKey, ReservedKeys, MapImpl, OfKind
  <2>3. CountsLists(other, T) BY <1>1, <2>1, <2>2 DEF MapImpl, CountsLists, CountsList
  <2> QED BY <1>1, <2>1, <2>3 DEF MapImpl, OfKind, IsCompressed
<1>2. ASSUME BorrowsStringTableKey(impl) PROVE MapImpl(WithoutStringTable(impl), T)
  <2> DEFINE entries == Drop(impl.entries, StringTableKey)
  <2>1. MapEntries(entries, T) BY DEF MapImpl, MapEntries, Drop
  <2>2. \A k \in DOMAIN entries : k \in DOMAIN impl.entries /\ entries[k] = impl.entries[k]
    BY DEF Drop
  <2>3. WithoutStringTable(impl) = [impl EXCEPT !.entries = entries] BY DEF WithoutStringTable
  <2> HIDE DEF entries
  <2> QED BY <1>1, <1>2, <2>1, <2>2, <2>3
<1>3. ASSUME BorrowsStringTableKey(impl), NEW blocks \in {TableBlocks, NoEntries}
      PROVE  MapImpl(WithBorrowed(impl, blocks), T)
  <2> DEFINE e       == BorrowedEntry(blocks)
             entries == Put(impl.entries, StringTableKey, e)
  <2>1. ~IsBnd2(Fmt) BY <1>3 DEF BorrowsStringTableKey, MapImpl, OfKind
  <2>2. PlainAligned(StringTableKey, e) BY <2>1 DEF PlainAligned, ReservedKeys
  <2>3. KeepsImports(Fmt, e)
    <3>1. e.blocks = blocks BY DEF BorrowedEntry
    <3>2. \A s \in DOMAIN blocks : blocks[s].trailer = <<>> BY DEF TableBlocks, NoEntries
    <3> HIDE DEF e
    <3> QED BY <2>1, <3>1, <3>2 DEF KeepsImports
  <2>4. WithBorrowed(impl, blocks) = [impl EXCEPT !.entries = entries] BY DEF WithBorrowed
  <2> HIDE DEF e
  <2>5. MapEntries(entries, T) BY <2>2, <2>3, MapEntriesPut DEF MapImpl
  <2>6. \A k \in DOMAIN entries \ {StringTableKey} :
            k \in DOMAIN impl.entries /\ entries[k] = impl.entries[k]
    BY DEF Put
  <2> HIDE DEF entries
  <2> QED BY <1>1, <1>3, <2>4, <2>5, <2>6
<1> QED BY <1>2, <1>3 DEF AfterSave, AfterThrow, WithStringTable

\* The file has the saved entries under their keys.
LEMMA ImageMap ==
    ASSUME NEW impl, IsImpl(impl), NeedsFlag(impl), NEW T, MapImpl(impl, T),
           NEW img \in CutImages(impl)
    PROVE  MapFile(img, T)
<1> DEFINE written == AfterSave(impl).entries
<1>1. PICK table : img = ImageWith(impl, table) BY CutImageTable
<1>2. /\ img.fmt = impl.fmt
      /\ img.flags = IF IsBnd2(impl.fmt) THEN impl.flags ELSE impl.flags \cap {"Compressed"}
  BY <1>1 DEF ImageWith
<1>3. OfKind(impl) /\ MapEntries(impl.entries, T) BY DEF MapImpl
<1>4. OfKind(img) BY <1>2, <1>3 DEF OfKind, IsCompressed
<1>5. RowEntries(img) = [k \in DOMAIN written |-> SavedEntry(impl, impl.entries[k])]
  BY SavedRows
<1>6. DOMAIN written \subseteq DOMAIN impl.entries BY WrittenEntries
<1> HIDE DEF written
<1>7. \A k \in DOMAIN written : IsEntry(impl.entries[k]) BY <1>6, ImplFields DEF IsEntries
<1>8. MapEntries(RowEntries(img), T) BY <1>3, <1>5, <1>6, <1>7, SavedKeeps DEF MapEntries
<1> QED BY <1>4, <1>8 DEF MapFile

\* Load counts the imports of a row in its id's list.
LEMMA LoadMap ==
    ASSUME NEW img, IsImage(img), NEW T, MapFile(img, T), NEW result \in Loads(img),
           result.code = "Success"
    PROVE  MapImpl(result.impl, T)
<1>0. /\ img.fmt = Fmt /\ (IsCompressed(img) <=> CompressedFrom)
      /\ MapEntries(RowEntries(img), T)
  BY DEF MapFile, OfKind
<1>1. \A c : c # "Success" => result # LoadFailure(c) BY DEF LoadFailure
<1>2. CASE IsBnd2(img.fmt) /\ result \in Bnd2Loads(img)
  <2>1. result = LoadSuccess(LoadedBnd2(img)) BY <1>1, <1>2 DEF Bnd2Loads
  <2> DEFINE impl == LoadedBnd2(img)
  <2>2. result.impl = impl BY <2>1 DEF LoadSuccess
  <2>3. impl.fmt = img.fmt /\ impl.flags = img.flags /\ impl.entries = RowEntries(img)
    BY DEF LoadedBnd2
  <2> HIDE DEF impl
  <2> QED BY <1>0, <1>2, <2>2, <2>3 DEF MapImpl, OfKind, IsCompressed, CountsLists
<1>3. CASE ~IsBnd2(img.fmt) /\ result \in BndlLoads(img)
  <2> DEFINE impl == LoadedBndl(img)
             rows == RowEntries(img)
  <2>1. /\ impl.fmt = img.fmt /\ impl.imports = img.imports
        /\ impl.flags = img.flags \cup (IF img.hasTable THEN {"HasDebugData"} ELSE {})
        /\ impl.entries = [k \in DOMAIN rows |-> LoadedBndlEntry(img, k)]
    BY DEF LoadedBndl
  <2>2. IsImpl(impl) /\ IsImportLists(img.imports)
    BY <1>3, LoadedBndlTyped DEF IsImage
  <2> HIDE DEF impl
  <2>3. ASSUME NEW k \in DOMAIN rows
        PROVE  /\ LoadedBndlEntry(img, k).blocks = rows[k].blocks
               /\ LoadedBndlEntry(img, k).diskAligns = rows[k].diskAligns
               /\ LoadedBndlEntry(img, k).importCount =
                    IF k[1] \in DOMAIN img.imports THEN Len(img.imports[k[1]]) ELSE 0
    <3>1. IsEntry(rows[k]) BY RowEntriesTyped DEF IsEntries
    <3> DEFINE n == IF k[1] \in DOMAIN img.imports THEN Len(img.imports[k[1]]) ELSE 0
    <3>2. LoadedBndlEntry(img, k) = [rows[k] EXCEPT !.importCount = n] BY DEF LoadedBndlEntry
    <3> HIDE DEF rows, n
    <3>3. LoadedBndlEntry(img, k).importCount = n BY <3>1, <3>2 DEF IsEntry
    <3>4. /\ LoadedBndlEntry(img, k).blocks = rows[k].blocks
          /\ LoadedBndlEntry(img, k).diskAligns = rows[k].diskAligns
      BY <3>1, <3>2 DEF IsEntry
    <3> QED BY <3>3, <3>4 DEF n
  <2> HIDE DEF rows
  <2>4. OfKind(impl) BY <1>0, <2>1 DEF OfKind, IsCompressed
  <2>5. MapEntries(impl.entries, T)
    BY <1>0, <1>3, <2>1, <2>3 DEF MapEntries, PlainAligned, KeepsImports, rows
  <2>6. \A k \in DOMAIN impl.entries : CountsList(impl, k)
    <3>1. \A id \in DOMAIN img.imports : img.imports[id] \in Seq(ResourceIDs)
      BY <2>2 DEF IsImportLists, IsMap
    <3>2. \A list \in Seq(ResourceIDs) : Len(list) = 0 => list = <<>> OBVIOUS
    <3> QED BY <2>1, <2>3, <3>1, <3>2 DEF CountsList
  <2>7. MapImpl(impl, T) BY <2>4, <2>5, <2>6 DEF MapImpl, CountsLists
  <2>8. ASSUME NEW i \in StrayEntries(impl) PROVE MapImpl(i, T)
    <3>1. PICK id \in ResourceIDs, type \in Types : i = WithStray(impl, id, type)
      BY <2>8 DEF StrayEntries
    <3> DEFINE entries == Put(impl.entries, <<id, 0>>, FreshEntry(type))
               imports == Drop(impl.imports, id)
    <3>2. /\ i.fmt = impl.fmt /\ i.flags = impl.flags /\ i.entries = entries
          /\ i.imports = imports
      <4>1. i = [impl EXCEPT !.entries = entries, !.imports = imports]
        BY <3>1 DEF WithStray
      <4> HIDE DEF entries, imports
      <4>2. i = [fmt |-> impl.fmt, flags |-> impl.flags, entries |-> entries,
                 imports |-> imports, debug |-> impl.debug, default |-> impl.default,
                 names |-> impl.names]
        BY <2>2, <4>1, ImplExcept
      <4> QED BY <4>2
    <3>3. PlainAligned(<<id, 0>>, FreshEntry(type)) /\ KeepsImports(Fmt, FreshEntry(type))
      BY DEF PlainAligned, KeepsImports, FreshEntry, NoEntries
    <3>4. MapEntries(entries, T) BY <2>5, <3>3, MapEntriesPut
    <3>5. \A k \in DOMAIN entries : CountsList(i, k)
      <4>1. ASSUME NEW k \in DOMAIN entries PROVE CountsList(i, k)
        <5>1. CASE k = <<id, 0>>
          <6>1. k[1] \notin DOMAIN imports BY <5>1 DEF Drop
          <6> QED BY <3>2, <6>1 DEF CountsList
        <5>2. CASE k # <<id, 0>>
          <6>1. k \in DOMAIN impl.entries /\ entries[k] = impl.entries[k] BY <5>2 DEF Put
          <6>2. k[1] \in DOMAIN imports =>
                    k[1] \in DOMAIN impl.imports /\ imports[k[1]] = impl.imports[k[1]]
            BY DEF Drop
          <6> QED BY <2>6, <3>2, <6>1, <6>2 DEF CountsList
        <5> QED BY <5>1, <5>2
      <4> QED BY <4>1
    <3> HIDE DEF entries, imports
    <3> QED BY <2>4, <3>2, <3>4, <3>5 DEF MapImpl, OfKind, IsCompressed, CountsLists
  <2> DEFINE without == WithoutStringTable(impl)
             claimed == [without EXCEPT !.flags = @ \cup {"HasDebugData"}]
  <2>9. MapImpl(claimed, T)
    <3>1. IsImpl(without) BY <2>2, AfterSaveTyped
    <3>2. /\ without.fmt = impl.fmt /\ without.flags = impl.flags
          /\ without.imports = impl.imports
          /\ without.entries = Drop(impl.entries, StringTableKey)
      BY <2>2 DEF WithoutStringTable, IsImpl
    <3> HIDE DEF without
    <3>3. /\ claimed.fmt = impl.fmt /\ claimed.imports = impl.imports
          /\ claimed.flags = impl.flags \cup {"HasDebugData"}
          /\ claimed.entries = Drop(impl.entries, StringTableKey)
      BY <3>1, <3>2 DEF IsImpl
    <3> HIDE DEF claimed
    <3>4. MapEntries(claimed.entries, T) BY <2>5, <3>3 DEF MapEntries, Drop
    <3>5. \A k \in DOMAIN claimed.entries : CountsList(claimed, k)
      BY <2>6, <3>3 DEF CountsList, Drop
    <3> QED BY <2>4, <3>3, <3>4, <3>5 DEF MapImpl, OfKind, IsCompressed, CountsLists
  <2>10. \/ result = LoadFailure("InvalidBundle")
         \/ \E i \in StrayEntries(impl) : result = LoadSuccess(i)
         \/ result = LoadSuccess(claimed)
         \/ result = LoadSuccess(impl)
    BY <1>3, Zenon DEF BndlLoads, impl
  <2> HIDE DEF claimed
  <2>11. \A i : LoadSuccess(i).impl = i BY DEF LoadSuccess
  <2> QED BY <1>1, <2>7, <2>8, <2>9, <2>10, <2>11
<1>4. \/ result = LoadFailure("UnsupportedVersion")
      \/ result = LoadFailure("UnsupportedPlatform")
      \/ IsBnd2(img.fmt) /\ result \in Bnd2Loads(img)
      \/ ~IsBnd2(img.fmt) /\ result \in BndlLoads(img)
  BY Zenon DEF Loads
<1> QED BY <1>1, <1>2, <1>3, <1>4

\* A resource that can be read comes back from the file as Durable says.
LEMMA SavedReadsBack ==
    ASSUME NEW impl, IsImpl(impl), NeedsFlag(impl),
           SaveVerdict(impl.fmt, impl.flags) = "Success",
           ReservedKeys(Fmt) \cap DOMAIN impl.entries = {},
           NEW T, MapImpl(impl, T), NEW img \in CutImages(impl),
           NEW k \in DOMAIN impl.entries \ T, CanReadResource(impl, k)
    PROVE  /\ CanReadResource(Loaded(img), k)
           /\ ReadResource(Loaded(img), k) = Durable(ReadResource(impl, k))
<1> DEFINE other == Loaded(img)
           e     == impl.entries[k]
           r     == ReadResource(impl, k)
           types == MemoryTypes(Fmt)
<1>1. /\ impl.fmt = Fmt /\ (IsCompressed(impl) <=> CompressedFrom)
      /\ MapEntries(impl.entries, T) /\ CountsLists(impl, T)
  BY DEF MapImpl, OfKind
<1>2. /\ IsEntry(e) /\ ReadableEntry(Fmt, e) /\ KeepsImports(Fmt, e) /\ PlainAligned(k, e)
      /\ k \notin ReservedKeys(Fmt)
  BY <1>1, ImplFields, ReadableEntries DEF IsEntries, MapEntries
<1>3. IsBnd2(Fmt) \/ CountsList(impl, k)
  <2>1. ~IsBnd2(Fmt) => "MultistreamBundle" \notin impl.flags
    BY <1>1, ImplFields, BndlRefusesStreams
  <2> QED BY <1>1, <2>1 DEF CountsLists
<1> DEFINE lasts(s) == \/ CompressedFrom \/ r.blocks[s].payload # Empty
                       \/ IsBnd2(Fmt) /\ s = MainMemory /\ r.imports # <<>>
           kept == {s \in DOMAIN r.blocks : lasts(s)}
           durable(s) == [r.blocks[s] EXCEPT !.align = DurableAlignment(r.blocks[s])]
           sized == {s \in types \cap DOMAIN e.blocks : HasSize(impl, e.blocks[s])}
           back(s) == [payload |-> e.blocks[s].payload, trailer |-> <<>>,
                       align |-> SavedAlignment(impl, e, s)]
<1>4. /\ CanReadResource(other, k)
      /\ ReadResource(other, k) = [type |-> e.type, blocks |-> [s \in sized |-> back(s)],
                                   imports |-> ReadImports(impl, k)]
  BY <1>1, <1>2, <1>3, SavedRead
<1>5. /\ \A s \in types \cap DOMAIN e.blocks :
            ReadBlock(impl, k, s) = [payload |-> e.blocks[s].payload, trailer |-> <<>>,
                                     align |-> e.blocks[s].align]
      /\ IsBnd2(Fmt) => ReadImports(impl, k) = IF MainMemory \in DOMAIN e.blocks
                                               THEN e.blocks[MainMemory].trailer ELSE <<>>
  BY <1>1, <1>2, PlainRead
<1>6. /\ r.type = e.type /\ r.imports = ReadImports(impl, k)
      /\ r.blocks = [s \in types \cap DOMAIN e.blocks |-> ReadBlock(impl, k, s)]
      /\ r = [type |-> r.type, blocks |-> r.blocks, imports |-> r.imports]
  BY <1>1 DEF ReadResource
<1> HIDE DEF r, e, other
<1>7. \A s \in types \cap DOMAIN e.blocks :
        /\ r.blocks[s] = [payload |-> e.blocks[s].payload, trailer |-> <<>>,
                          align |-> e.blocks[s].align]
        /\ r.blocks[s].payload = e.blocks[s].payload /\ r.blocks[s].align = e.blocks[s].align
  BY <1>5, <1>6
<1>8. sized = kept
  <2>1. \A s \in types \cap DOMAIN e.blocks : HasSize(impl, e.blocks[s]) <=> lasts(s)
    <3> SUFFICES ASSUME NEW s \in types \cap DOMAIN e.blocks
                 PROVE  e.blocks[s].trailer # <<>> <=>
                            IsBnd2(Fmt) /\ s = MainMemory /\ r.imports # <<>>
      BY <1>1, <1>7 DEF HasSize
    <3> QED BY <1>2, <1>5, <1>6 DEF KeepsImports
  <2>2. DOMAIN r.blocks = types \cap DOMAIN e.blocks BY <1>6
  <2> HIDE DEF lasts
  <2> QED BY <2>1, <2>2
<1>9. \A s \in sized : back(s) = durable(s)
  <2> SUFFICES ASSUME NEW s \in types \cap DOMAIN e.blocks PROVE back(s) = durable(s)
    OBVIOUS
  <2>1. ~IsBnd2(Fmt) => e.diskAligns[s] = 1
    <3>1. s \in Slots BY MemoryTypesAreSlots
    <3> QED BY <1>2, <3>1 DEF PlainAligned
  <2>2. SavedAlignment(impl, e, s) = DurableAlignment(r.blocks[s])
    BY <1>1, <1>7, <2>1 DEF SavedAlignment, DurableAlignment
  <2> DEFINE b == r.blocks[s]
             a == DurableAlignment(b)
  <2>3. b = [payload |-> e.blocks[s].payload, trailer |-> <<>>, align |-> e.blocks[s].align]
    BY <1>7
  <2>4. a = SavedAlignment(impl, e, s) BY <2>2
  <2> HIDE DEF a, b
  <2>5. [b EXCEPT !.align = a] = back(s) BY <2>3, <2>4
  <2> QED BY <2>5 DEF a, b
<1>10. Durable(r) = [type |-> r.type, imports |-> r.imports,
                     blocks |-> [s \in kept |-> durable(s)]]
  <2>1. Durable(r) = [r EXCEPT !.blocks = [s \in kept |-> durable(s)]] BY DEF Durable
  <2> HIDE DEF kept, durable
  <2> QED BY <1>6, <2>1
<1> HIDE DEF kept, durable, sized, back
<1>11. ReadResource(other, k) = Durable(r) BY <1>4, <1>6, <1>8, <1>9, <1>10
<1> QED BY <1>4, <1>11 DEF r, other

-----------------------------------------------------------------------------
(* The refinement: the invariant *)

\* What the metadata calls leave as it is.
LEMMA MetadataKeeps ==
    ASSUME NEW impl, IsImpl(impl), NEW other,
           \/ \E k \in Key, name \in DebugNames : other = AddResourceDebugData(impl, k, name).impl
           \/ \E k : other = SetDefaultResource(impl, k).impl
           \/ \E i \in StreamIndices, name \in StreamNames : other = SetStreamName(impl, i, name).impl
    PROVE  /\ other.fmt = impl.fmt /\ other.entries = impl.entries /\ other.imports = impl.imports
           /\ impl.flags \subseteq other.flags
           /\ other.flags \subseteq impl.flags \cup {"ContainsDefaultResource", "HasDebugData"}
<1>1. ASSUME NEW k \in Key, NEW name \in DebugNames, other = AddResourceDebugData(impl, k, name).impl,
             other # impl
      PROVE  \E debug : other = [fmt |-> impl.fmt, flags |-> impl.flags, entries |-> impl.entries,
                                 imports |-> impl.imports, debug |-> debug,
                                 default |-> impl.default, names |-> impl.names]
  <2> DEFINE result == AddResourceDebugData(impl, k, name)
  <2>1. result # [impl |-> impl, ok |-> FALSE] BY <1>1
  <2>2. PICK debug :
          /\ IsDebugData(debug)
          /\ result.impl = [fmt |-> impl.fmt, flags |-> impl.flags, entries |-> impl.entries,
                            imports |-> impl.imports, debug |-> debug,
                            default |-> impl.default, names |-> impl.names]
    BY <2>1, AddResourceDebugDataEffect
  <2> QED BY <1>1, <2>2
<1>2. ASSUME NEW k, other = SetDefaultResource(impl, k).impl, other # impl
      PROVE  other = [fmt |-> impl.fmt, flags |-> impl.flags \cup {"ContainsDefaultResource"},
                      entries |-> impl.entries, imports |-> impl.imports,
                      debug |-> impl.debug, default |-> k, names |-> impl.names]
  BY <1>2, SetDefaultResourceEffect
<1>3. ASSUME NEW i \in StreamIndices, NEW name \in StreamNames,
             other = SetStreamName(impl, i, name).impl, other # impl
      PROVE  \E names : other = [fmt |-> impl.fmt, flags |-> impl.flags, entries |-> impl.entries,
                                 imports |-> impl.imports, debug |-> impl.debug,
                                 default |-> impl.default, names |-> names]
  <2> DEFINE result == SetStreamName(impl, i, name)
  <2>1. result # [impl |-> impl, ok |-> FALSE] BY <1>3
  <2>2. PICK names \in StreamTable :
          result.impl = [fmt |-> impl.fmt, flags |-> impl.flags, entries |-> impl.entries,
                         imports |-> impl.imports, debug |-> impl.debug,
                         default |-> impl.default, names |-> names]
    BY <2>1, SetStreamNameEffect
  <2> QED BY <1>3, <2>2
<1> QED BY <1>1, <1>2, <1>3

\* What the three actions do with the objects.
LEMMA MetadataCalls ==
    ASSUME IsValid, IsImpl(bundle),
           \/ \E k \in Key, name \in GivenNames : AddResourceDebugDataCall(k, name)
           \/ \E id \in ResourceIDs, stream \in StreamArguments :
                    SetDefaultResourceCall(id, stream)
           \/ \E i \in StreamIndices, name \in GivenStreamNames : SetStreamNameCall(i, name)
    PROVE  /\ bundle'.fmt = bundle.fmt /\ bundle'.entries = bundle.entries
           /\ bundle'.imports = bundle.imports /\ bundle.flags \subseteq bundle'.flags
           /\ bundle'.flags \subseteq bundle.flags \cup {"ContainsDefaultResource", "HasDebugData"}
           /\ UNCHANGED <<file, history>>
<1>1. ASSUME NEW k \in Key, NEW name \in GivenNames, AddResourceDebugDataCall(k, name)
      PROVE  /\ \E q \in Key, n \in DebugNames : bundle' = AddResourceDebugData(bundle, q, n).impl
             /\ UNCHANGED <<file, history>>
  BY <1>1, StoreAssumption DEF AddResourceDebugDataCall, Report
<1>2. ASSUME NEW id \in ResourceIDs, NEW stream \in StreamArguments,
             SetDefaultResourceCall(id, stream)
      PROVE  /\ bundle' = bundle \/ \E k : bundle' = SetDefaultResource(bundle, k).impl
             /\ UNCHANGED <<file, history>>
  BY <1>2 DEF SetDefaultResourceCall, Report
<1>3. ASSUME NEW i \in StreamIndices, NEW name \in GivenStreamNames, SetStreamNameCall(i, name)
      PROVE  /\ \E j \in StreamIndices, n \in StreamNames : bundle' = SetStreamName(bundle, j, n).impl
             /\ UNCHANGED <<file, history>>
  BY <1>3, StoreAssumption DEF SetStreamNameCall, Report
<1>4. /\ \/ bundle' = bundle
         \/ \E k \in Key, name \in DebugNames : bundle' = AddResourceDebugData(bundle, k, name).impl
         \/ \E k : bundle' = SetDefaultResource(bundle, k).impl
         \/ \E i \in StreamIndices, name \in StreamNames : bundle' = SetStreamName(bundle, i, name).impl
      /\ UNCHANGED <<file, history>>
  BY <1>1, <1>2, <1>3
<1> QED BY <1>4, MetadataKeeps

\* The first bundle holds nothing and there is no file.
LEMMA InitMapInv == ForeignFiles = {} /\ Init => MapInv
<1> SUFFICES ASSUME ForeignFiles = {}, Init PROVE MapInv OBVIOUS
<1>1. OwnInv BY InitOwnInv
<1>2. MapImpl(NewImpl(Fmt, InitialFlags), {})
  BY DEF NewImpl, NoEntries, MapImpl, OfKind, MapEntries, CountsLists, IsCompressed, CompressedFrom
<1>3. IsValid => MapImpl(bundle, torn) BY <1>2 DEF Init, IsValid
<1>4. file \in NoBundle BY DEF Init, NoBundle
<1> QED BY <1>1, <1>3, <1>4 DEF MapInv

\* Every call keeps what a file must be able to give back.
LEMMA StepMapInv == MapInv /\ [Next]_vars => MapInv'
<1> SUFFICES ASSUME MapInv, [Next]_vars PROVE MapInv' OBVIOUS
<1> USE DEF vars, history
<1> DEFINE Mem == IsValid => MapImpl(bundle, torn)
           Disk == file \notin NoBundle => MapFile(file, savedTorn)
<1>0. /\ OwnInv' /\ Inv /\ Mem /\ Disk
      /\ IsValid => IsImpl(bundle) /\ NeedsFlag(bundle)
      /\ \A r \in Resources : Given(r)
  <2>1. OwnInv /\ Mem /\ Disk BY DEF MapInv
  <2> QED BY <2>1, GivenResources, StepOwnInv DEF OwnInv, Inv, Good, IsValid
<1> SUFFICES Mem' /\ Disk' BY <1>0 DEF MapInv
<1>1. ASSUME NEW k \in Key, NEW r \in Resources, AddResourceCall(k, r) PROVE Mem' /\ Disk'
  <2>1. PICK stop \in StopSlots(bundle, r) :
            bundle' = AddResource(bundle, k, r, stop).impl
    BY <1>1 DEF AddResourceCall, Report
  <2>2. MapImpl(bundle', torn)
    BY <1>0, <1>1, <2>1, AddResourceMap DEF AddResourceCall
  <2> QED BY <1>0, <1>1, <2>2 DEF AddResourceCall
<1>2. ASSUME NEW k \in Key, NEW r \in Resources, ReplaceResourceCall(k, r)
      PROVE  Mem' /\ Disk'
  <2>1. PICK stop \in StopSlots(bundle, r) :
            LET result == ReplaceResource(bundle, k, r, stop)
            IN  /\ Report(result, "ResourceNotFound")
                /\ torn' = IF result.ok THEN torn \ {k}
                           ELSE IF result.impl # bundle THEN torn \cup {k} ELSE torn
    BY <1>2 DEF ReplaceResourceCall
  <2> DEFINE result == ReplaceResource(bundle, k, r, stop)
  <2>2. /\ result.ok => MapImpl(result.impl, torn \ {k})
        /\ ~result.ok => result.impl = bundle \/ MapImpl(result.impl, torn \cup {k})
    BY <1>0, <1>2, ReplaceResourceMap DEF ReplaceResourceCall
  <2>3. /\ bundle' = result.impl
        /\ torn' = IF result.ok THEN torn \ {k}
                   ELSE IF result.impl # bundle THEN torn \cup {k} ELSE torn
    BY <2>1 DEF Report
  <2>4. IsValid /\ file' = file /\ savedTorn' = savedTorn BY <1>2 DEF ReplaceResourceCall
  <2> HIDE DEF result
  <2>5. MapImpl(bundle', torn') BY <1>0, <2>2, <2>3, <2>4
  <2> QED BY <1>0, <2>4, <2>5
<1>3. CASE \/ \E k \in Key, name \in GivenNames : AddResourceDebugDataCall(k, name)
           \/ \E id \in ResourceIDs, stream \in StreamArguments :
                    SetDefaultResourceCall(id, stream)
           \/ \E i \in StreamIndices, name \in GivenStreamNames : SetStreamNameCall(i, name)
  <2>1. IsValid BY <1>3 DEF AddResourceDebugDataCall, SetDefaultResourceCall, SetStreamNameCall
  <2> QED BY <1>0, <1>3, <2>1, MetadataCalls, MetadataMap
<1>4. CASE MoveOut BY <1>0, <1>4 DEF MoveOut, IsValid
<1>5. CASE Read BY <1>0, <1>5 DEF Read, IsValid
<1>6. CASE CallOnEmpty BY <1>0, <1>6 DEF CallOnEmpty, IsValid
<1>7. CASE SaveRejected BY <1>0, <1>7 DEF SaveRejected, IsValid
<1>8. CASE SaveThrows BY <1>0, <1>8, SaveMap DEF SaveThrows
<1>9. CASE SaveToPath
  <2>1. IsImpl(bundle) /\ NeedsFlag(bundle) /\ MapImpl(bundle, torn)
    BY <1>0, <1>9 DEF SaveToPath
  <2>2. MapImpl(bundle', torn') BY <1>9, <2>1, SaveMap DEF SaveToPath
  <2>3. CASE file' \in CutImages(bundle) /\ savedTorn' = torn
    BY <2>1, <2>2, <2>3, ImageMap
  <2>4. CASE file' \in {file, PartialFile} /\ savedTorn' = savedTorn
    BY <1>0, <2>2, <2>4 DEF NoBundle
  <2> QED BY <1>9, <2>3, <2>4 DEF SaveToPath, CutImages
<1>10. CASE SaveToMemory BY <1>0, <1>10, SaveMap DEF SaveToMemory
<1>11. CASE LoadFromPath
  <2>1. CASE UNCHANGED <<bundle, file, history>> BY <1>0, <2>1 DEF IsValid
  <2>2. CASE /\ file \notin NoBundle
             /\ \E result \in Loads(file) :
                  /\ bundle' = IF result.code = "Success" THEN result.impl ELSE bundle
                  /\ torn' = IF result.code = "Success" THEN savedTorn ELSE torn
             /\ UNCHANGED <<file, savedTorn>>
    <3>1. IsImage(file) /\ MapFile(file, savedTorn) BY <1>0, <2>2 DEF Inv
    <3>2. PICK result \in Loads(file) :
            /\ bundle' = IF result.code = "Success" THEN result.impl ELSE bundle
            /\ torn' = IF result.code = "Success" THEN savedTorn ELSE torn
      BY <2>2
    <3>3. CASE result.code = "Success" BY <1>0, <2>2, <3>1, <3>2, <3>3, LoadMap
    <3>4. CASE result.code # "Success" BY <1>0, <2>2, <3>2, <3>4 DEF IsValid
    <3> QED BY <3>3, <3>4
  <2> QED BY <1>11, <2>1, <2>2 DEF LoadFromPath
<1>12. CASE UNCHANGED vars BY <1>0, <1>12 DEF IsValid
<1> QED BY <1>1, <1>2, <1>3, <1>4, <1>5, <1>6, <1>7, <1>8, <1>9, <1>10, <1>11, <1>12 DEF Next

-----------------------------------------------------------------------------
(* The refinement: each step maps to a step of ResourceMap *)

\* The values that stand for a file that is no bundle's are no bundle files.
FilesAreFiles == \A img : IsImage(img) => img \notin NoBundle

\* The resources of an object that is there.
LEMMA ContentsOf ==
    ASSUME NEW impl, impl # NoImpl
    PROVE  /\ DOMAIN Contents(impl) = DOMAIN impl.entries
           /\ \A k \in DOMAIN impl.entries : CanReadResource(impl, k) =>
                    Contents(impl)[k] = ReadResource(impl, k)
           /\ \A k \in DOMAIN impl.entries : Contents(impl)[k].type = impl.entries[k].type
<1>1. Held(impl) = DOMAIN impl.entries BY DEF Held
<1>2. \A k \in DOMAIN impl.entries :
            Contents(impl)[k] = IF CanReadResource(impl, k) THEN ReadResource(impl, k)
                                ELSE [type |-> impl.entries[k].type]
  BY <1>1 DEF Contents, Readable
<1>3. \A k : ReadResource(impl, k).type = impl.entries[k].type BY DEF ReadResource
<1> QED BY <1>1, <1>2, <1>3 DEF Contents

\* Two objects with the same entries and lists hold the same resources.
LEMMA SameContents ==
    ASSUME NEW a, a # NoImpl, NEW b, b # NoImpl, b.fmt = a.fmt, b.entries = a.entries,
           b.imports = a.imports
    PROVE  Contents(b) = Contents(a)
<1>1. Held(b) = Held(a) BY DEF Held
<1>2. \A q \in Held(a) : Contents(b)[q] = Contents(a)[q] BY <1>1, SameResource DEF Held
<1>3. \A impl : Contents(impl) = [q \in Held(impl) |-> Contents(impl)[q]] BY DEF Contents
<1> HIDE DEF Contents
<1> QED
  <2>1. Contents(b) = [q \in Held(a) |-> Contents(b)[q]] BY <1>1, <1>3
  <2>2. Contents(a) = [q \in Held(a) |-> Contents(a)[q]] BY <1>3
  <2> QED BY <1>2, <2>1, <2>2

\* Putting one entry in, and in BNDL the list of its id, changes what is read under
\* its key and the keys that share the list.
LEMMA PutContents ==
    ASSUME NEW impl, IsImpl(impl), impl # NoImpl, impl.fmt = Fmt, NEW k \in Key, NEW e,
           NEW list, NEW other, other # NoImpl, other.fmt = impl.fmt,
           other.entries = Put(impl.entries, k, e),
           other.imports = IF IsBnd2(impl.fmt) THEN impl.imports
                           ELSE StoreSeparateImports(impl.imports, k[1], list)
    PROVE  /\ DOMAIN Contents(other) = DOMAIN Contents(impl) \cup {k}
           /\ Map!ChangesOnly(Contents(impl), Contents(other), {k} \cup Siblings(k))
<1>1. /\ DOMAIN other.entries = DOMAIN impl.entries \cup {k}
      /\ \A q \in DOMAIN impl.entries : q # k => other.entries[q] = impl.entries[q]
  BY DEF Put
<1>2. DOMAIN Contents(impl) = DOMAIN impl.entries /\ DOMAIN Contents(other) = DOMAIN other.entries
  BY ContentsOf
<1>3. ASSUME NEW q \in DOMAIN impl.entries \ ({k} \cup Siblings(k))
      PROVE  Contents(other)[q] = Contents(impl)[q]
  <2>1. IsBnd2(impl.fmt) \/ q[1] # k[1] BY <1>3, ImplFields DEF Siblings, IsEntries
  <2>2. ~IsBnd2(impl.fmt) =>
            /\ q[1] \in DOMAIN impl.imports <=> q[1] \in DOMAIN other.imports
            /\ q[1] \in DOMAIN impl.imports => other.imports[q[1]] = impl.imports[q[1]]
    BY <2>1 DEF StoreSeparateImports, Put, Drop
  <2> QED BY <1>1, <1>3, <2>2, SameResource DEF Held
<1> QED BY <1>1, <1>2, <1>3 DEF Map!ChangesOnly

\* The resource that a replacement leaves is the part Kept of the new one.
LEMMA ReplacedIsKept ==
    ASSUME NEW other, other # NoImpl, other.fmt = Fmt, NEW impl, impl.fmt = Fmt,
           NEW k \in DOMAIN other.entries, NEW e, IsEntry(e), NEW r, Given(r),
           other.entries[k] = ReplacedEntry(impl, e, r, Finished),
           \/ IsBnd2(Fmt) \/ r.imports = <<>>
           \/ k[1] \in DOMAIN other.imports /\ other.imports[k[1]] = r.imports
    PROVE  Contents(other)[k] = [Kept(r) EXCEPT !.type = e.type]
<1> DEFINE blocks  == [s \in MemoryTypes(Fmt) \cap DOMAIN r.blocks |-> r.blocks[s]]
           imports == IF IsBnd2(Fmt) /\ MainMemory \notin DOMAIN r.blocks THEN <<>>
                      ELSE r.imports
<1>1. CanReadResource(other, k) BY FinishedReadable, ReadableEntries
<1>2. ReadResource(other, k) = [type |-> e.type, blocks |-> blocks, imports |-> imports]
  <2>1. ReadResource(other, k) = HeldPart(other.fmt, e.type, r) BY ReplacementReadsBack
  <2> QED BY <2>1 DEF HeldPart
<1>3. Kept(r) = [type |-> r.type, blocks |-> blocks, imports |-> imports]
  <2> DEFINE one == [r EXCEPT !.blocks = blocks]
  <2>1. r = [type |-> r.type, blocks |-> r.blocks, imports |-> r.imports]
    BY DEF Given, IsResource
  <2>2. Kept(r) = [one EXCEPT !.imports = imports]
    <3>1. one.imports = r.imports BY <2>1
    <3> QED BY <3>1, Zenon DEF Kept
  <2> HIDE DEF blocks, imports
  <2> QED BY <2>1, <2>2
<1> HIDE DEF blocks, imports
<1> QED BY <1>1, <1>2, <1>3, ContentsOf

\* Saving is not seen but for the entry it borrows.
LEMMA SaveContents ==
    ASSUME EmptyIsNoObject, NEW impl, IsImpl(impl), NeedsFlag(impl), impl.fmt = Fmt,
           NEW other \in {AfterSave(impl)} \cup AfterThrow(impl)
    PROVE  Map!ChangesOnly(Contents(impl), Contents(other), ReservedKeys(Fmt))
<1>0. impl # NoImpl BY DEF EmptyIsNoObject
<1>1. CASE other = impl BY <1>1 DEF Map!ChangesOnly
<1>2. CASE /\ ~IsBnd2(impl.fmt)
           /\ Drop(other.entries, StringTableKey) = Drop(impl.entries, StringTableKey)
           /\ other = [impl EXCEPT !.entries = other.entries]
  <2>1. IsImpl(other) /\ other # NoImpl BY SaveGood DEF EmptyIsNoObject
  <2>2. other.fmt = impl.fmt /\ other.imports = impl.imports BY <1>2 DEF IsImpl
  <2>3. ReservedKeys(Fmt) = {StringTableKey} BY <1>2 DEF ReservedKeys
  <2>4. /\ DOMAIN other.entries \ {StringTableKey} = DOMAIN impl.entries \ {StringTableKey}
        /\ \A q \in DOMAIN impl.entries \ {StringTableKey} : other.entries[q] = impl.entries[q]
    BY <1>2 DEF Drop
  <2>5. DOMAIN Contents(impl) = DOMAIN impl.entries /\ DOMAIN Contents(other) = DOMAIN other.entries
    BY <1>0, <2>1, ContentsOf
  <2>6. \A q \in DOMAIN impl.entries \ {StringTableKey} : Contents(other)[q] = Contents(impl)[q]
    BY <1>0, <2>1, <2>2, <2>4, SameResource DEF Held
  <2> QED BY <2>3, <2>4, <2>5, <2>6 DEF Map!ChangesOnly
<1> QED BY <1>1, <1>2, SaveKeepsOtherEntries

\* A resource added, or one refused.
LEMMA AddMaps ==
    ASSUME EmptyIsNoObject, MapInv, MapInv', NEW k \in Key, NEW r \in Resources,
           AddResourceCall(k, r)
    PROVE  Map!Add(k, r) \/ UNCHANGED Map!vars
<1>0. /\ IsValid /\ IsImpl(bundle) /\ bundle # NoImpl /\ bundle.fmt = Fmt /\ Given(r)
      /\ IsResource(r) /\ r.imports \in Seq(ResourceIDs) /\ UNCHANGED <<file, history>>
  BY GivenResources DEF MapInv, OwnInv, Inv, Good, IsValid, MapImpl, OfKind, AddResourceCall,
     Given, IsResource
<1>1. PICK stop \in StopSlots(bundle, r) : bundle' = AddResource(bundle, k, r, stop).impl
  BY DEF AddResourceCall, Report
<1>2. CASE ~AddResource(bundle, k, r, stop).ok
  <2>1. bundle' = bundle BY <1>0, <1>1, <1>2, RefusedAdd
  <2>2. SavedContents' = SavedContents BY <1>0 DEF SavedContents
  <2> QED BY <1>0, <2>1, <2>2 DEF Map!vars, history
<1>3. CASE AddResource(bundle, k, r, stop).ok
  <2>1. PICK staged :
            /\ staged.fmt = bundle.fmt
            /\ bundle'.entries = Put(bundle.entries, k,
                    ReplacedEntry(staged, FreshEntry(r.type), r, Finished))
    BY <1>0, <1>1, <1>3, AddedEntry
  <2> DEFINE fresh == FreshEntry(r.type)
             e     == ReplacedEntry(staged, fresh, r, Finished)
  <2>2. bundle'.fmt = Fmt /\ bundle'.entries = Put(bundle.entries, k, e)
    BY <1>0, <1>1, <1>3, <2>1, AddedEntry
  <2>3. bundle'.imports = IF IsBnd2(bundle.fmt) THEN bundle.imports
                          ELSE StoreSeparateImports(bundle.imports, k[1], r.imports)
    BY <1>0, <1>1, <1>3, AddedEntry
  <2>4. k \notin DOMAIN bundle.entries BY <1>0, <1>3, AddedEntry
  <2>5. bundle' # NoImpl
    <3>1. IsImpl(bundle') BY <1>0, <1>1, AddResourceTyped
    <3> QED BY <3>1 DEF EmptyIsNoObject
  <2>6. IsEntry(fresh) /\ fresh.type = r.type
    BY <1>0, FreshEntryTyped DEF FreshEntry, IsResource
  <2>7. \/ IsBnd2(Fmt) \/ r.imports = <<>>
        \/ k[1] \in DOMAIN bundle'.imports /\ bundle'.imports[k[1]] = r.imports
    BY <1>0, <2>3 DEF StoreSeparateImports, Put
  <2> HIDE DEF e
  <2>8. /\ DOMAIN Contents(bundle') = DOMAIN Contents(bundle) \cup {k}
        /\ Map!ChangesOnly(Contents(bundle), Contents(bundle'), {k} \cup Siblings(k))
    BY <1>0, <2>2, <2>3, <2>5, PutContents
  <2>9. k \in DOMAIN bundle'.entries /\ bundle'.entries[k] = e BY <2>2 DEF Put
  <2> HIDE DEF fresh
  <2>10. Contents(bundle')[k] = [Kept(r) EXCEPT !.type = r.type]
    BY <1>0, <2>1, <2>2, <2>5, <2>6, <2>7, <2>9, ReplacedIsKept DEF e
  <2>11. [Kept(r) EXCEPT !.type = r.type] = Kept(r)
    <3>1. Kept(r).type = r.type BY <1>0 DEF Kept, IsResource
    <3>2. Kept(r) = [Kept(r) EXCEPT !.type = Kept(r).type] BY DEF Kept
    <3> QED BY <3>1, <3>2
  <2>12. ~Map!Held(Contents(bundle), k) BY <1>0, <2>4, ContentsOf DEF Map!Held
  <2>13. SavedContents' = SavedContents BY <1>0 DEF SavedContents
  <2> QED BY <1>0, <2>8, <2>10, <2>11, <2>12, <2>13 DEF Map!Add, history
<1> QED BY <1>2, <1>3

\* A resource replaced, one whose replacement was stopped, or nothing.
LEMMA ReplaceMaps ==
    ASSUME EmptyIsNoObject, MapInv, MapInv', NEW k \in Key, NEW r \in Resources,
           ReplaceResourceCall(k, r)
    PROVE  Map!Replace(k, r) \/ Map!FailToReplace(k) \/ UNCHANGED Map!vars
<1>0. /\ IsValid /\ IsImpl(bundle) /\ bundle # NoImpl /\ bundle.fmt = Fmt /\ Given(r)
      /\ IsResource(r) /\ r.imports \in Seq(ResourceIDs) /\ UNCHANGED <<file, savedTorn>>
  BY GivenResources DEF MapInv, OwnInv, Inv, Good, IsValid, MapImpl, OfKind, ReplaceResourceCall,
     Given, IsResource
<1>1. PICK stop \in StopSlots(bundle, r) :
            LET result == ReplaceResource(bundle, k, r, stop)
            IN  /\ Report(result, "ResourceNotFound")
                /\ torn' = IF result.ok THEN torn \ {k}
                           ELSE IF result.impl # bundle THEN torn \cup {k} ELSE torn
  BY DEF ReplaceResourceCall
<1> DEFINE result == ReplaceResource(bundle, k, r, stop)
           e      == ReplacedEntry(bundle, bundle.entries[k], r, stop)
<1>2. /\ bundle' = result.impl
      /\ torn' = IF result.ok THEN torn \ {k}
                 ELSE IF result.impl # bundle THEN torn \cup {k} ELSE torn
  BY <1>1 DEF Report
<1>3. SavedContents' = SavedContents BY <1>0 DEF SavedContents
<1>4. CASE ~result.ok /\ result.impl = bundle
  <2> HIDE DEF result
  <2> QED BY <1>0, <1>2, <1>3, <1>4 DEF Map!vars
<1>5. CASE ~(~result.ok /\ result.impl = bundle)
  <2>1. /\ k \in DOMAIN bundle.entries
        /\ result.ok <=> stop = Finished
        /\ result.impl =
             [fmt |-> bundle.fmt, flags |-> bundle.flags, entries |-> Put(bundle.entries, k, e),
              imports |-> IF IsBnd2(bundle.fmt) \/ stop # Finished THEN bundle.imports
                          ELSE StoreSeparateImports(bundle.imports, k[1], r.imports),
              debug |-> bundle.debug, default |-> bundle.default, names |-> bundle.names]
    <3>1. result # [impl |-> bundle, ok |-> FALSE] BY <1>5
    <3> QED BY <1>0, <3>1, ReplacedImpl
  <2>2. /\ bundle'.fmt = Fmt /\ bundle'.entries = Put(bundle.entries, k, e)
        /\ bundle'.imports = IF IsBnd2(bundle.fmt) \/ stop # Finished THEN bundle.imports
                             ELSE StoreSeparateImports(bundle.imports, k[1], r.imports)
    <3> HIDE DEF e, result
    <3> QED BY <1>0, <1>2, <2>1
  <2>3. bundle' # NoImpl
    <3>1. IsImpl(bundle') BY <1>0, <1>2, ReplaceResourceTyped
    <3> QED BY <3>1 DEF EmptyIsNoObject
  <2>4. IsEntry(bundle.entries[k]) BY <1>0, <2>1, ImplFields DEF IsEntries
  <2>5. k \in DOMAIN bundle'.entries /\ bundle'.entries[k] = e BY <2>2 DEF Put
  <2>6. Map!Held(Contents(bundle), k) BY <1>0, <2>1, ContentsOf DEF Map!Held
  <2>7. CASE result.ok
    <3>1. stop = Finished /\ torn' = torn \ {k} BY <1>2, <2>1, <2>7
    <3> HIDE DEF e, result
    <3>2. bundle'.imports = IF IsBnd2(bundle.fmt) THEN bundle.imports
                            ELSE StoreSeparateImports(bundle.imports, k[1], r.imports)
      BY <2>2, <3>1
    <3>3. /\ DOMAIN Contents(bundle') = DOMAIN Contents(bundle) \cup {k}
          /\ Map!ChangesOnly(Contents(bundle), Contents(bundle'), {k} \cup Siblings(k))
      BY <1>0, <2>2, <2>3, <3>2, PutContents
    <3>4. \/ IsBnd2(Fmt) \/ r.imports = <<>>
          \/ k[1] \in DOMAIN bundle'.imports /\ bundle'.imports[k[1]] = r.imports
      BY <1>0, <3>2 DEF StoreSeparateImports, Put
    <3>5. Contents(bundle')[k] = [Kept(r) EXCEPT !.type = bundle.entries[k].type]
      BY <1>0, <2>2, <2>3, <2>4, <2>5, <3>1, <3>4, ReplacedIsKept DEF e
    <3>6. Contents(bundle)[k].type = bundle.entries[k].type BY <1>0, <2>1, ContentsOf
    <3>7. DOMAIN Contents(bundle') = DOMAIN Contents(bundle) BY <2>6, <3>3 DEF Map!Held
    <3> QED BY <1>0, <1>3, <2>6, <3>1, <3>3, <3>5, <3>6, <3>7 DEF Map!Replace
  <2>8. CASE ~result.ok
    <3>1. stop # Finished /\ torn' = torn \cup {k} BY <1>2, <1>5, <2>1, <2>8
    <3> HIDE DEF e, result
    <3>2. bundle'.imports = bundle.imports BY <2>2, <3>1
    <3>3. /\ DOMAIN bundle'.entries = DOMAIN bundle.entries
          /\ \A q \in DOMAIN bundle.entries : q # k => bundle'.entries[q] = bundle.entries[q]
      BY <2>1, <2>2 DEF Put
    <3>4. /\ DOMAIN Contents(bundle) = DOMAIN bundle.entries
          /\ DOMAIN Contents(bundle') = DOMAIN bundle'.entries
      BY <1>0, <2>3, ContentsOf
    <3>5. \A q \in DOMAIN bundle.entries \ {k} : Contents(bundle')[q] = Contents(bundle)[q]
      BY <1>0, <2>2, <2>3, <3>2, <3>3, SameResource DEF Held
    <3> QED BY <1>0, <1>3, <2>6, <3>1, <3>3, <3>4, <3>5 DEF Map!FailToReplace, Map!ChangesOnly
  <2> QED BY <2>7, <2>8
<1> QED BY <1>4, <1>5

\* A save that finished, or one that did not.
LEMMA SaveMaps ==
    ASSUME EmptyIsNoObject, FilesAreFiles, MapInv, MapInv', SaveToPath
    PROVE  Map!Save \/ Map!FailToSave
<1>0. /\ IsValid /\ IsImpl(bundle) /\ NeedsFlag(bundle) /\ bundle # NoImpl /\ bundle.fmt = Fmt
      /\ MapImpl(bundle, torn) /\ WholeEntries(bundle, torn)
      /\ SaveVerdict(bundle.fmt, bundle.flags) = "Success" /\ bundle' = AfterSave(bundle)
      /\ UNCHANGED torn
  BY DEF MapInv, OwnInv, Inv, Good, IsValid, MapImpl, OfKind, SaveToPath
<1>1. Map!ChangesOnly(Contents(bundle), Contents(bundle'), ReservedKeys(Fmt))
  BY <1>0, SaveContents
<1>2. CASE file' \in {file, PartialFile} /\ savedTorn' = savedTorn
  <2>1. SavedContents' \in {SavedContents, {}}
    <3>1. file' = file => SavedContents' = SavedContents BY DEF SavedContents
    <3>2. file' = PartialFile => SavedContents' = {} BY DEF SavedContents, NoBundle
    <3> QED BY <1>2, <3>1, <3>2
  <2> QED BY <1>0, <1>1, <1>2, <2>1 DEF Map!FailToSave
<1>3. CASE file' \in CutImages(bundle) /\ savedTorn' = torn
  <2>1. CASE \E k \in ReservedKeys(Fmt) : k \in DOMAIN bundle.entries
    <3>1. \E k \in ReservedKeys(Fmt) : Map!Held(Contents(bundle), k)
      BY <1>0, <2>1, ContentsOf DEF Map!Held
    <3> QED BY <1>0, <1>1, <1>3, <3>1 DEF Map!Save
  <2>2. CASE ReservedKeys(Fmt) \cap DOMAIN bundle.entries = {}
    <3> DEFINE img == file'
               map == Contents(Loaded(img))
    <3>1. IsImage(img) /\ img \notin NoBundle
      BY <1>0, <1>3, ImageTyped DEF FilesAreFiles
    <3>2. Loads(img) = {LoadSuccess(Loaded(img))} BY <1>0, <1>3, <2>2, Reloaded
    <3>3. SavedContents' = {map}
      <4>1. /\ LoadSuccess(Loaded(img)).code = "Success"
            /\ LoadSuccess(Loaded(img)).impl = Loaded(img)
        BY DEF LoadSuccess
      <4>2. SavedContents' =
                {Contents(result.impl) : result \in {x \in Loads(img) : x.code = "Success"}}
        BY <3>1 DEF SavedContents
      <4>3. {x \in Loads(img) : x.code = "Success"} = {LoadSuccess(Loaded(img))}
        BY <3>2, <4>1
      <4> QED BY <4>1, <4>2, <4>3
    <3>4. Loaded(img) # NoImpl
      <4>1. IsImpl(Loaded(img)) BY <3>1, LoadedBnd2Typed, LoadedBndlTyped DEF Loaded
      <4> QED BY <4>1 DEF EmptyIsNoObject
    <3>5. DOMAIN map = DOMAIN Contents(bundle)
      BY <1>0, <1>3, <2>2, <3>4, ReadableReloaded, ContentsOf
    <3>6. ASSUME NEW k \in DOMAIN Contents(bundle) \ torn
          PROVE  map[k] = Durable(Contents(bundle)[k])
      <4>1. k \in DOMAIN bundle.entries \ torn BY <1>0, ContentsOf
      <4>2. CanReadResource(bundle, k) BY <1>0, <4>1, ReadableEntries DEF WholeEntries
      <4>3. /\ CanReadResource(Loaded(img), k)
            /\ ReadResource(Loaded(img), k) = Durable(ReadResource(bundle, k))
        BY <1>0, <1>3, <2>2, <4>1, <4>2, SavedReadsBack
      <4>4. Contents(bundle)[k] = ReadResource(bundle, k) BY <1>0, <4>1, <4>2, ContentsOf
      <4>5. k \in DOMAIN Loaded(img).entries BY <1>0, <1>3, <2>2, <4>1, ReadableReloaded
      <4>6. map[k] = ReadResource(Loaded(img), k) BY <3>4, <4>3, <4>5, ContentsOf
      <4> QED BY <4>3, <4>4, <4>6
    <3> HIDE DEF map
    <3> QED BY <1>0, <1>1, <1>3, <3>3, <3>5, <3>6 DEF Map!Save
  <2> QED BY <2>1, <2>2
<1> QED BY <1>2, <1>3 DEF SaveToPath, CutImages

\* What the file may give is given, or nothing is.
LEMMA LoadMaps ==
    ASSUME LoadFromPath
    PROVE  Map!Load \/ UNCHANGED Map!vars
<1>1. UNCHANGED file BY DEF LoadFromPath
<1>2. SavedContents' = SavedContents BY <1>1 DEF SavedContents
<1>3. CASE UNCHANGED <<bundle, file, history>>
  BY <1>2, <1>3 DEF Map!vars, history
<1>4. CASE /\ file \notin NoBundle
           /\ \E result \in Loads(file) :
                /\ bundle' = IF result.code = "Success" THEN result.impl ELSE bundle
                /\ torn' = IF result.code = "Success" THEN savedTorn ELSE torn
           /\ UNCHANGED <<file, savedTorn>>
  <2>1. PICK result \in Loads(file) :
            /\ bundle' = IF result.code = "Success" THEN result.impl ELSE bundle
            /\ torn' = IF result.code = "Success" THEN savedTorn ELSE torn
    BY <1>4
  <2>2. CASE result.code = "Success"
    <3>1. Contents(result.impl) \in SavedContents BY <1>4, <2>2 DEF SavedContents
    <3> QED BY <1>2, <1>4, <2>1, <2>2, <3>1 DEF Map!Load
  <2>3. CASE result.code # "Success" BY <1>2, <1>4, <2>1, <2>3 DEF Map!vars
  <2> QED BY <2>2, <2>3
<1> QED BY <1>3, <1>4 DEF LoadFromPath

\* The first state maps to an empty map.
LEMMA InitMaps == Init => Map!Init
<1> SUFFICES ASSUME Init PROVE Map!Init OBVIOUS
<1>1. Held(bundle) = {}
  <2>1. DOMAIN NewImpl(Fmt, InitialFlags).entries = {} BY DEF NewImpl, NoEntries
  <2>2. bundle = NewImpl(Fmt, InitialFlags) \/ bundle = NoImpl BY DEF Init
  <2> QED BY <2>1, <2>2 DEF Held
<1>2. Contents(bundle) = [k \in {} |-> 0]
  <2>1. Contents(bundle) = [k \in {} |-> Contents(bundle)[k]] BY <1>1 DEF Contents
  <2> HIDE DEF Contents
  <2>2. [k \in {} |-> Contents(bundle)[k]] = [k \in {} |-> 0] OBVIOUS
  <2> QED BY <2>1, <2>2
<1> QED BY <1>2 DEF Init, Map!Init

\* Every step is a step of the map, or is not seen.
LEMMA StepMaps ==
    ASSUME EmptyIsNoObject, FilesAreFiles, MapInv, MapInv', [Next]_vars
    PROVE  [Map!Next]_(Map!vars)
<1>0. /\ IsValid => IsImpl(bundle) /\ NeedsFlag(bundle) /\ bundle.fmt = Fmt /\ bundle # NoImpl
      /\ IsValid' => bundle' # NoImpl
  BY DEF MapInv, OwnInv, Inv, Good, IsValid, MapImpl, OfKind
<1>1. ASSUME NEW k \in Key, NEW r \in Resources, AddResourceCall(k, r) \/ ReplaceResourceCall(k, r)
      PROVE  Map!Next \/ UNCHANGED Map!vars
  BY <1>1, AddMaps, ReplaceMaps DEF Map!Next
<1>2. CASE \/ \E k \in Key, name \in GivenNames : AddResourceDebugDataCall(k, name)
           \/ \E id \in ResourceIDs, stream \in StreamArguments :
                    SetDefaultResourceCall(id, stream)
           \/ \E i \in StreamIndices, name \in GivenStreamNames : SetStreamNameCall(i, name)
  <2>1. IsValid BY <1>2 DEF AddResourceDebugDataCall, SetDefaultResourceCall, SetStreamNameCall
  <2>2. /\ bundle'.fmt = bundle.fmt /\ bundle'.entries = bundle.entries
        /\ bundle'.imports = bundle.imports /\ UNCHANGED <<file, history>>
    BY <1>0, <1>2, <2>1, MetadataCalls
  <2>3. IsImpl(bundle') \/ bundle' = NoImpl BY DEF MapInv, OwnInv, Inv, Good
  <2>4. bundle' # NoImpl
    BY <1>0, <1>2, <2>1, AddResourceDebugDataTyped, SetDefaultResourceTyped, SetStreamNameTyped,
       StoreAssumption
    DEF AddResourceDebugDataCall, SetDefaultResourceCall, SetStreamNameCall, Report,
        EmptyIsNoObject
  <2>5. Contents(bundle') = Contents(bundle) BY <1>0, <2>1, <2>2, <2>4, SameContents
  <2>6. SavedContents' = SavedContents BY <2>2 DEF SavedContents
  <2> QED BY <2>2, <2>5, <2>6 DEF Map!vars, history
<1>3. CASE MoveOut
  <2>1. Contents(bundle') = [k \in {} |-> 0]
    <3>1. Held(bundle') = {} BY <1>3 DEF MoveOut, Held
    <3>2. Contents(bundle') = [k \in {} |-> Contents(bundle')[k]] BY <3>1 DEF Contents
    <3> HIDE DEF Contents
    <3>3. [k \in {} |-> Contents(bundle')[k]] = [k \in {} |-> 0] OBVIOUS
    <3> QED BY <3>2, <3>3
  <2>2. SavedContents' = SavedContents BY <1>3 DEF MoveOut, SavedContents
  <2>3. Map!MoveOut BY <1>3, <2>1, <2>2 DEF MoveOut, Map!MoveOut
  <2> QED BY <2>3 DEF Map!Next
<1>4. CASE Read \/ CallOnEmpty \/ SaveRejected \/ UNCHANGED vars
  <2>1. UNCHANGED <<bundle, file, history>>
    BY <1>4 DEF Read, CallOnEmpty, SaveRejected, vars
  <2>2. SavedContents' = SavedContents BY <2>1 DEF SavedContents
  <2> QED BY <2>1, <2>2 DEF Map!vars, history
<1>5. CASE SaveThrows \/ SaveToMemory
  <2>1. /\ IsValid /\ bundle' \in {AfterSave(bundle)} \cup AfterThrow(bundle)
        /\ UNCHANGED <<file, history>>
    BY <1>5 DEF SaveThrows, SaveToMemory
  <2>2. Map!ChangesOnly(Contents(bundle), Contents(bundle'), ReservedKeys(Fmt))
    BY <1>0, <2>1, SaveContents
  <2>3. SavedContents' = SavedContents BY <2>1 DEF SavedContents
  <2>4. Map!FailToSave BY <2>1, <2>2, <2>3 DEF Map!FailToSave, history
  <2> QED BY <2>4 DEF Map!Next
<1>6. CASE SaveToPath BY <1>6, SaveMaps DEF Map!Next
<1>7. CASE LoadFromPath BY <1>7, LoadMaps DEF Map!Next
<1> QED BY <1>1, <1>2, <1>3, <1>4, <1>5, <1>6, <1>7 DEF Next

\* For an application that alone writes the file a bundle is a map of resources:
\* a call changes the resource it names and no other, a save is not seen in
\* memory, and loading gives back what was saved.
THEOREM BundleIsResourceMap ==
    EmptyIsNoObject /\ FilesAreFiles /\ ForeignFiles = {} => (Spec => IsResourceMap)
<1> SUFFICES ASSUME EmptyIsNoObject, FilesAreFiles, ForeignFiles = {}
             PROVE  Spec => IsResourceMap
  OBVIOUS
<1>1. Init => MapInv /\ Map!Init BY InitMapInv, InitMaps
<1>2. MapInv /\ [Next]_vars => MapInv' BY StepMapInv
<1>3. MapInv /\ MapInv' /\ [Next]_vars => [Map!Next]_(Map!vars) BY StepMaps
<1> QED BY <1>1, <1>2, <1>3, PTL DEF Spec, IsResourceMap, Map!Spec
=============================================================================
