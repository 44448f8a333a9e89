------------------------------ MODULE Container ------------------------------
(***************************************************************************)
(* The in-memory bundle: class Formats::Base with its subclasses Bnd2 and  *)
(* Bndl, as a record and one operator per member function.  A mutating     *)
(* call returns [impl |-> the object afterwards, ok |-> its result].       *)
(*                                                                         *)
(* std::map members are functions on the set of keys present.  A buffer is *)
(* [payload, trailer, align]: the trailer is the serialised import list    *)
(* that BND2 appends to the main memory block, empty in the buffers an      *)
(* application supplies; importOffset says where BND2 looks for it.  An     *)
(* entry's diskAligns are its descriptors' onDiskAlignment.                *)
(***************************************************************************)
EXTENDS BundleFormat, FiniteSets

CONSTANTS
    ResourceIDs,    \* the 64-bit ids in use, as numbers
    StreamIndices,  \* the uint8_t stream indices in use
    Types,          \* resource types
    Payloads,       \* block contents; the three below are among them
    Empty,          \*   the payload of size 0
    Garbled,        \*   bytes that DecodeBinary rejects (a damaged file)
    TableText,      \*   the string table BNDL serialises before a save
    Size,           \* the bytes of each payload
    Alignments,     \* block alignments in use
    DebugNames,     \* (name, type name) pairs of the string table
    StreamNames,    \* names given to streams ...
    LongNames,      \*   ... and those of them longer than 15 characters
    ImportLimit,    \* stands for the largest uint16_t, 65535
    EntryLimit      \* stands for the largest uint32_t

StreamLimit == 4
ImportEntrySize == 16
Key == ResourceIDs \X StreamIndices
NoDefault == <<0, -1>>

\* Types. A field that is a map is typed by a conjunct of its own.
IsMap(f, D, R) == DOMAIN f \subseteq D /\ f \in [DOMAIN f -> R]

Block == [payload : Payloads, trailer : Seq(ResourceIDs), align : Alignments]
IsBlockMap(blocks) == IsMap(blocks, Slots, Block)

IsResource(r) ==
    /\ r \in [type : Types, blocks : {r.blocks}, imports : Seq(ResourceIDs)]
    /\ IsBlockMap(r.blocks)

IsEntry(e) ==
    /\ e \in [type : Types, blocks : {e.blocks}, importCount : Nat,
              importOffset : Nat, diskAligns : [Slots -> Alignments]]
    /\ IsBlockMap(e.blocks)

IsEntries(f) ==
    /\ DOMAIN f \subseteq Key /\ f = [k \in DOMAIN f |-> f[k]]
    /\ \A k \in DOMAIN f : IsEntry(f[k])

IsImportLists(f) == IsMap(f, ResourceIDs, Seq(ResourceIDs))
IsDebugData(f)   == IsMap(f, Key, DebugNames)
DefaultKey  == Key \cup {NoDefault}
StreamTable == [0 .. StreamLimit - 1 -> StreamNames \cup {""}]

IsImpl(impl) ==
    /\ impl \in [fmt : Format, flags : SUBSET FlagNames, entries : {impl.entries},
                 imports : {impl.imports}, debug : {impl.debug},
                 default : DefaultKey, names : StreamTable]
    /\ IsEntries(impl.entries)
    /\ IsImportLists(impl.imports)
    /\ IsDebugData(impl.debug)

ASSUME ContainerAssumption ==
    /\ ResourceIDs \subseteq Nat /\ IsFiniteSet(ResourceIDs)
    /\ StreamIndices \subseteq 0..255 /\ 0 \in StreamIndices
    /\ {0, 1} \subseteq Alignments
    /\ {Empty, Garbled, TableText} \subseteq Payloads
    /\ Empty # Garbled /\ Empty # TableText /\ Garbled # TableText
    /\ Size \in [Payloads -> Nat] /\ \A p \in Payloads : Size[p] = 0 <=> p = Empty
    /\ LongNames \subseteq StreamNames
    /\ ImportLimit \in Nat /\ EntryLimit \in Nat

NoEntries == [k \in {} |-> 0]

Put(f, x, v)  == [y \in DOMAIN f \cup {x} |-> IF y = x THEN v ELSE f[y]]
Drop(f, x)    == [y \in DOMAIN f \ {x} |-> f[y]]

\* Bundle(magic, version, platform, flags)
NewImpl(fmt, flags) ==
    [fmt |-> fmt, flags |-> flags, entries |-> NoEntries, imports |-> NoEntries,
     debug |-> NoEntries, default |-> NoDefault,
     names |-> [i \in 0 .. StreamLimit - 1 |-> ""]]

IsCompressed(impl) == "Compressed" \in impl.flags

-----------------------------------------------------------------------------
(* Adding and replacing resources *)

\* Replacing walks the memory types in order and may stop at one: compress2
\* fails when memory runs out.  Finished means that it did not.
Finished == 4

CompressedSlots(impl, r) ==
    IF IsCompressed(impl) THEN MemoryTypes(impl.fmt) \cap DOMAIN r.blocks ELSE {}

StopSlots(impl, r) == CompressedSlots(impl, r) \cup {Finished}

StoredBlock(fmt, r, s) ==
    IF IsBnd2(fmt) /\ s = MainMemory
    THEN [r.blocks[s] EXCEPT !.trailer = r.imports]
    ELSE r.blocks[s]

\* BND2 sets the count and the offset before it compresses main memory, the
\* first memory type: they are the new ones even if that fails.
CountsImports(fmt, r, stop) ==
    IF IsBnd2(fmt) THEN MainMemory \in DOMAIN r.blocks ELSE stop = Finished

OffsetFor(fmt, r) ==
    IF IsBnd2(fmt) /\ MainMemory \in DOMAIN r.blocks /\ r.imports # <<>>
    THEN Size[r.blocks[MainMemory].payload] ELSE 0

\* Mutants of ReplacedEntry: the old import count stays where no new one is
\* set; a block that the new resource does not have stays.
ReplacedEntryKeepingCount(impl, e, r, stop) ==
    LET visited == {s \in MemoryTypes(impl.fmt) : s < stop}
        kept    == DOMAIN e.blocks \ visited
        new     == DOMAIN r.blocks \cap visited
    IN  [e EXCEPT !.blocks = [s \in kept \cup new |->
                                 IF s \in new THEN StoredBlock(impl.fmt, r, s) ELSE e.blocks[s]],
                  !.importCount = IF MainMemory \in DOMAIN r.blocks /\ r.imports # <<>>
                                  THEN Len(r.imports) ELSE @,
                  !.importOffset = OffsetFor(impl.fmt, r)]

ReplacedEntryKeepingBlocks(impl, e, r, stop) ==
    LET new == {s \in MemoryTypes(impl.fmt) \cap DOMAIN r.blocks : s < stop}
    IN  [e EXCEPT !.blocks = [s \in DOMAIN e.blocks \cup new |->
                                 IF s \in new THEN StoredBlock(impl.fmt, r, s) ELSE e.blocks[s]],
                  !.importCount = Len(r.imports), !.importOffset = OffsetFor(impl.fmt, r)]

ReplacedEntry(impl, e, r, stop) ==
    LET visited == {s \in MemoryTypes(impl.fmt) : s < stop}
        kept    == DOMAIN e.blocks \ visited
        new     == DOMAIN r.blocks \cap visited
    IN  [type        |-> e.type,
         blocks      |-> [s \in kept \cup new |->
                            IF s \in new THEN StoredBlock(impl.fmt, r, s) ELSE e.blocks[s]],
         importCount |-> IF CountsImports(impl.fmt, r, stop) THEN Len(r.imports) ELSE 0,
         importOffset |-> OffsetFor(impl.fmt, r),
         diskAligns  |-> [s \in Slots |->
                            IF s \in new /\ IsCompressed(impl) THEN 1 ELSE e.diskAligns[s]]]

\* Bndl keeps one import list per resource id, whatever the stream.
\* A mutant: an empty list does not erase the old one.
StoreSeparateImportsIfAny(imports, id, list) ==
    IF list = <<>> THEN imports ELSE Put(imports, id, list)

StoreSeparateImports(imports, id, list) ==
    IF list = <<>> THEN Drop(imports, id) ELSE Put(imports, id, list)

ReplaceResource(impl, k, r, stop) ==
    IF k \notin DOMAIN impl.entries \/ Len(r.imports) > ImportLimit \/ k[2] >= StreamLimit
    THEN [impl |-> impl, ok |-> FALSE]
    ELSE [impl |-> [impl EXCEPT
                      !.entries = Put(@, k, ReplacedEntry(impl, @[k], r, stop)),
                      !.imports = IF IsBnd2(impl.fmt) \/ stop # Finished THEN @
                                  ELSE StoreSeparateImports(@, k[1], r.imports)],
          ok   |-> stop = Finished]

FreshEntry(type) ==
    [type |-> type, blocks |-> NoEntries, importCount |-> 0, importOffset |-> 0,
     diskAligns |-> [s \in Slots |-> 1]]

\* Mutants of AddResource: a failure clears the flag instead of restoring it;
\* a failure leaves the half-initialised entry.
AddResourceClearingFlag(impl, k, r, stop) ==
    IF k \in DOMAIN impl.entries \/ k[2] >= StreamLimit \/ Len(r.imports) > ImportLimit
    THEN [impl |-> impl, ok |-> FALSE]
    ELSE LET flag   == IF k[2] # 0 THEN {"MultistreamBundle"} ELSE {}
             staged == [impl EXCEPT !.entries = Put(@, k, FreshEntry(r.type)),
                                    !.flags = @ \cup flag]
             filled == ReplaceResource(staged, k, r, stop)
         IN  IF filled.ok THEN filled
             ELSE [impl |-> [impl EXCEPT !.flags = @ \ flag], ok |-> FALSE]

AddResourceWithoutRollback(impl, k, r, stop) ==
    IF k \in DOMAIN impl.entries \/ k[2] >= StreamLimit \/ Len(r.imports) > ImportLimit
    THEN [impl |-> impl, ok |-> FALSE]
    ELSE ReplaceResource([impl EXCEPT !.entries = Put(@, k, FreshEntry(r.type))], k, r, stop)

AddResource(impl, k, r, stop) ==
    IF \/ k \in DOMAIN impl.entries
       \/ Cardinality(DOMAIN impl.entries) >= EntryLimit
       \/ Len(r.imports) > ImportLimit
       \/ k[2] >= StreamLimit
    THEN [impl |-> impl, ok |-> FALSE]
    ELSE LET staged == [impl EXCEPT
                          !.entries = Put(@, k, FreshEntry(r.type)),
                          !.flags = IF k[2] # 0 THEN @ \cup {"MultistreamBundle"} ELSE @]
             filled == ReplaceResource(staged, k, r, stop)
         IN  IF filled.ok THEN filled
             ELSE [impl |-> [filled.impl EXCEPT !.entries = Drop(@, k),
                                                !.flags = impl.flags],
                   ok   |-> FALSE]

-----------------------------------------------------------------------------
(* Metadata *)

AddResourceDebugData(impl, k, name) ==
    IF k \in DOMAIN impl.debug THEN [impl |-> impl, ok |-> FALSE]
    ELSE [impl |-> [impl EXCEPT !.debug = Put(@, k, name)], ok |-> TRUE]

HasStreamMetadata(fmt) == IsBnd2(fmt) /\ fmt.version >= 5

\* A mutant: the resource need not be there.
SetDefaultResourceUnchecked(impl, k) ==
    IF HasStreamMetadata(impl.fmt)
    THEN [impl |-> [impl EXCEPT !.default = k,
                                !.flags = @ \cup {"ContainsDefaultResource"}],
          ok   |-> TRUE]
    ELSE [impl |-> impl, ok |-> FALSE]

SetDefaultResource(impl, k) ==
    IF HasStreamMetadata(impl.fmt) /\ k \in DOMAIN impl.entries
    THEN [impl |-> [impl EXCEPT !.default = k,
                                !.flags = @ \cup {"ContainsDefaultResource"}],
          ok   |-> TRUE]
    ELSE [impl |-> impl, ok |-> FALSE]

SetStreamName(impl, i, name) ==
    IF HasStreamMetadata(impl.fmt) /\ i < StreamLimit /\ name \notin LongNames
    THEN [impl |-> [impl EXCEPT !.names = [@ EXCEPT ![i] = name]], ok |-> TRUE]
    ELSE [impl |-> impl, ok |-> FALSE]

-----------------------------------------------------------------------------
(* Reading *)

\* Damaged zlib data, or (BND2, uncompressed) two sizes that disagree.
Decodable(block) == block.payload # Garbled

BlockSize(block) == Size[block.payload] + ImportEntrySize * Len(block.trailer)

\* As many imports as the entry counts must fit after the offset.
TrailerFits(e) ==
    e.importCount > 0 =>
        /\ MainMemory \in DOMAIN e.blocks
        /\ LET room == BlockSize(e.blocks[MainMemory]) - e.importOffset
           IN  room >= 0 /\ room \div ImportEntrySize >= e.importCount

CanReadBlock(impl, k, s) ==
    LET e == impl.entries[k]
    IN  /\ s \in DOMAIN e.blocks => Decodable(e.blocks[s])
        /\ IsBnd2(impl.fmt) /\ s = MainMemory => TrailerFits(e)

CanReadResource(impl, k) == \A s \in MemoryTypes(impl.fmt) : CanReadBlock(impl, k, s)

\* At an offset that is not where the payload ends, reading splits the bytes
\* there: the first importOffset of them, and imports out of those that follow.
SplitPayload(e) ==
    LET block == e.blocks[MainMemory]
    IN  IF e.importOffset = Size[block.payload] THEN block.payload
        ELSE <<block.payload, block.trailer, e.importOffset>>

SplitImports(e) ==
    LET block == e.blocks[MainMemory]
    IN  IF e.importOffset = Size[block.payload] THEN SubSeq(block.trailer, 1, e.importCount)
        ELSE <<block.payload, block.trailer, e.importOffset, e.importCount>>

ReadBlock(impl, k, s) ==
    LET e == impl.entries[k]
    IN  IF IsBnd2(impl.fmt) /\ s = MainMemory /\ e.importCount > 0
        THEN [e.blocks[s] EXCEPT !.payload = SplitPayload(e), !.trailer = <<>>]
        ELSE e.blocks[s]

ReadImports(impl, k) ==
    LET e == impl.entries[k]
    IN  IF e.importCount = 0 THEN <<>>
        ELSE IF IsBnd2(impl.fmt) THEN SplitImports(e)
        ELSE IF k[1] \in DOMAIN impl.imports THEN impl.imports[k[1]]
        ELSE <<>>

\* GetResource of a present and readable key.
ReadResource(impl, k) ==
    LET e == impl.entries[k]
    IN  [type    |-> e.type,
         blocks  |-> [s \in MemoryTypes(impl.fmt) \cap DOMAIN e.blocks |->
                         ReadBlock(impl, k, s)],
         imports |-> ReadImports(impl, k)]
=============================================================================
