--------------------------- MODULE BundleProperties ---------------------------
(***************************************************************************)
(* What must hold of a Bundle whatever calls an application makes, and the *)
(* map of resources it is to its application.                              *)
(***************************************************************************)
EXTENDS BundleStore

Savable == IsValid /\ SaveVerdict(bundle.fmt, bundle.flags) = "Success"

Held(impl) == IF impl = NoImpl THEN {} ELSE DOMAIN impl.entries
Readable(impl) == {k \in Held(impl) : CanReadResource(impl, k)}

\* The resources an application gets out of a bundle. Of one that cannot be
\* read GetResourceType still tells the type.
Contents(impl) ==
    [k \in Held(impl) |-> IF k \in Readable(impl) THEN ReadResource(impl, k)
                          ELSE [type |-> impl.entries[k].type]]

\* Ids the formats take for themselves: BND2's Load rejects 0.
ReservedKeys(fmt) ==
    IF IsBnd2(fmt) THEN {k \in Key : k[1] = 0} ELSE {StringTableKey}

\* A resource in a stream other than 0 comes with the flag without which Save
\* writes every resource into stream 0: a failed AddResource, which restores the
\* flags, must not clear it for the resources added before (base.cpp:83-105).
StreamNeedsFlag ==
    IsValid => \A k \in DOMAIN bundle.entries :
                    k[2] # 0 => "MultistreamBundle" \in bundle.flags

\* If no other tool wrote the file, every resource in the bundle can be read,
\* after saves and loads too, except one whose last replacement failed half-way:
\* its import count may already be that of the new imports, its block still the
\* old one (base.cpp:179-202, bnd2.cpp:414-433).
AlwaysReadable ==
    IsValid => \A k \in DOMAIN bundle.entries \ torn : CanReadResource(bundle, k)

\* The default resource is one that the bundle holds, and the flag that
\* announces it is set, across calls, saves and loads (bnd2.cpp:484-493).
DefaultIsHeld ==
    IsValid /\ bundle.default # NoDefault =>
        /\ bundle.default \in DOMAIN bundle.entries
        /\ "ContainsDefaultResource" \in bundle.flags

\* What SetDefaultResource accepts is what was asked for, and what every file that
\* Save may write gives back: a stream is an int32_t in the call and in the file
\* and a uint8_t in between (bundle.cpp:486-489, bnd2.cpp:75-76).
DefaultIsAsked ==
    [][ \A id \in ResourceIDs, stream \in StreamArguments :
            SetDefaultResourceCall(id, stream) /\ lastError' = "Success" =>
                /\ <<id, stream>> \in Held(bundle) /\ bundle'.default = <<id, stream>>
                /\ \A img \in Images(bundle') : \A result \in Loads(img) :
                        result.code = "Success" => result.impl.default = <<id, stream>> ]_vars

\* The stream of k's row is found again: v5 names it; elsewhere it is taken to be
\* the first one that the resource is stored in.
KeepsStream(impl, k) ==
    /\ k \in DOMAIN impl.entries
    /\ HasStreamMetadata(impl.fmt) \/ k[2] = FirstStream(impl.entries, k[1])

\* Every row has the stream attribute.
NamesStreams(impl) ==
    /\ HasStreamMetadata(impl.fmt)
    /\ IsCompressed(impl) \/ Cardinality(DOMAIN impl.entries) # 1

NamesOf(impl, id) ==
    [k \in {q \in DOMAIN impl.debug : q[1] = id} |-> impl.debug[k]]

\* From any string table that Save may write, the names of an id come back
\* under the same keys if the streams of all its rows are found again. What other
\* rows come to, those in v5 of resources that the bundle does not hold and whose
\* stream is the last one named before, depends on the order of the rows: it is a
\* name of that id, and where all rows name streams in no higher stream than it
\* was given for (base.cpp:335-419, bnd2.cpp:540-594).
DebugDataSurvives ==
    /\ Savable /\ WritesTable(bundle)
    /\ ReservedKeys(bundle.fmt) \cap DOMAIN bundle.entries = {}
    => \A img \in Images(bundle) : \A result \in Loads(img) :
            /\ result.code = "Success"
            /\ \A id \in ResourceIDs :
                    (\A k \in DOMAIN bundle.debug : k[1] = id => KeepsStream(bundle, k))
                        => NamesOf(result.impl, id) = NamesOf(bundle, id)
            /\ \A q \in DOMAIN result.impl.debug :
                    \E k \in DOMAIN bundle.debug :
                        /\ k[1] = q[1] /\ bundle.debug[k] = result.impl.debug[q]
                        /\ NamesStreams(bundle) => q[2] <= k[2]

\* Loading a file and saving it unchanged writes the same header, resources
\* and imports, damaged blocks and hidden ones included. BNDL files that hold
\* a resource under the string table's id are excepted.
ResaveIsStable ==
    file \notin NoBundle =>
        \A result \in Loads(file) :
            /\ result.code = "Success"
            /\ SaveVerdict(result.impl.fmt, result.impl.flags) = "Success"
            /\ ReservedKeys(file.fmt) \cap {row.key : row \in file.rows} = {}
            /\ ~file.overcount
            => \A img \in Images(result.impl) :
                    /\ img.rows = file.rows /\ img.imports = file.imports
                    /\ img.flags = file.flags /\ img.fmt = file.fmt
                    /\ img.default = file.default /\ img.names = file.names

OnlyEntryChanges(k) ==
    /\ IsValid
    /\ bundle' = [bundle EXCEPT !.entries = bundle'.entries]
    /\ Drop(bundle'.entries, k) = Drop(bundle.entries, k)

KeepsType(k) ==
    /\ k \in DOMAIN bundle.entries \cap DOMAIN bundle'.entries
    /\ bundle'.entries[k].type = bundle.entries[k].type

\* A call that reports an error leaves the bundle as it was, but for two:
\* ReplaceResource may have changed the blocks and the import fields of the one
\* resource it was to replace, and BNDL's Save the entry under the string
\* table's id (base.cpp:99-105, bundle.cpp:180-200, bndl.cpp:315).
FailedCallKeepsBundle ==
    [][ lastError' # "Success" /\ bundle' # NoImpl =>
            \/ bundle' = bundle
            \/ \E k \in torn' : OnlyEntryChanges(k) /\ KeepsType(k)
            \/ OnlyEntryChanges(StringTableKey) /\ ~IsBnd2(bundle.fmt) ]_vars

\* A resource that can be read stays readable, whatever is called and whatever
\* damaged resources the bundle holds, until its replacement fails half-way,
\* the bundle is moved away or another is loaded over it.
ReadableStaysReadable ==
    [][ \/ MoveOut \/ LoadFromPath
        \/ \A k \in Readable(bundle) :
                k \in Readable(bundle') \cup torn' \cup ReservedKeys(bundle.fmt) ]_vars

\* "Save only writes debug data into uncompressed bundles, so the on-disk size
\* and alignment equal the uncompressed ones" (bndl.cpp:322): the one alignment
\* that an uncompressed BNDL file has for a block is the block's own.
BndlKeepsAlignments ==
    Savable /\ ~IsBnd2(bundle.fmt) /\ ~IsCompressed(bundle) =>
        \A img \in Images(bundle) : \A row \in img.rows :
            \A s \in DOMAIN row.entry.blocks :
                row.entry.blocks[s].align = bundle.entries[row.key].blocks[s].align

\* "New entries need an on-disk alignment. [...] the BND2 writer divides by it"
\* (base.cpp:90-92): whatever bundle is saved, the end of the file is not aligned to 0.
WriterDividesByNoZero ==
    Savable /\ IsBnd2(bundle.fmt) /\ bundle.fmt.version >= 3 => 0 \notin EndAlignments(bundle)

\* Replacing a damaged resource repairs it: no count, trailer or block of the
\* old one is read afterwards (base.cpp:134-138).
ReplacingRepairs ==
    [][ \A k \in Key, r \in Resources :
            ReplaceResourceCall(k, r) /\ lastError' = "Success" => k \in Readable(bundle') ]_vars

-----------------------------------------------------------------------------
(* The refinement mapping, for a bundle and a file no other tool touched *)

SavedContents ==
    IF file \in NoBundle THEN {}
    ELSE {Contents(result.impl) : result \in {r \in Loads(file) : r.code = "Success"}}

\* Blocks of memory types that the platform does not have are dropped; so are
\* the imports of a BND2 resource without a main memory block to append them to.
Kept(r) ==
    [r EXCEPT !.blocks = [s \in MemoryTypes(Fmt) \cap DOMAIN @ |-> @[s]],
              !.imports = IF IsBnd2(Fmt) /\ MainMemory \notin DOMAIN r.blocks THEN <<>> ELSE @]

CompressedFrom == "Compressed" \in InitialFlags

\* A file has no uncompressed block of size 0. BND2 keeps alignments as far as
\* 4 bits go, compressed BNDL those of blocks that have a size, uncompressed BNDL none.
DurableAlignment(block) ==
    IF IsBnd2(Fmt) THEN OnDiskAlignment(block.align)
    ELSE IF ~CompressedFrom \/ block.payload = Empty THEN 1 ELSE block.align

Durable(r) ==
    [r EXCEPT !.blocks =
        [s \in {s \in DOMAIN @ : \/ CompressedFrom \/ @[s].payload # Empty
                                 \/ IsBnd2(Fmt) /\ s = MainMemory /\ r.imports # <<>>} |->
            [@[s] EXCEPT !.align = DurableAlignment(r.blocks[s])]]]

Siblings(k) == IF IsBnd2(Fmt) THEN {} ELSE {q \in Key : q[1] = k[1]}

Map == INSTANCE ResourceMap
        WITH Keys <- Key, Reserved <- ReservedKeys(Fmt),
             contents <- Contents(bundle), saved <- SavedContents, loose <- torn, savedLoose <- savedTorn

\* A bundle is a map of resources: each call changes the resource it names and
\* no other, Save is not seen in memory, and a saved file gives everything back.
IsResourceMap == Map!Spec
=============================================================================
