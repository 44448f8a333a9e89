-------------------------------- MODULE CApi --------------------------------
(***************************************************************************)
(* A C program with a libtub_bundle and a libtub_resource, and what the    *)
(* functions of bundle.h return to it.  No exception reaches the program:  *)
(* a call that runs out of memory half-way is cut short where it stands,   *)
(* and the program goes on with the bundle that leaves.                    *)
(*                                                                         *)
(* Memory runs out where a block is copied, compressed or decoded, where a *)
(* file is read or written and where strings and imports are copied; the   *)
(* small fixed allocations (map nodes, GetMemoryTypes) succeed.            *)
(***************************************************************************)
EXTENDS BundleProperties

CONSTANTS
    Creations,          \* what libtub_create is given: [fmt, flags]
    ResourceTypes,      \* what the program makes resources of: types,
    MemoryTypeArgs,     \*   numbers of memory types, 4 and more included,
    Buffers,            \*   and libtub_buffer objects
    ImportBound,        \* bound: the imports of the program's resource
    MemoryMayRunOut,    \* whether std::bad_alloc may be thrown
    Null                \* NULL; for a libtub_bundle, NoImpl

VARIABLES
    resource,           \* the program's libtub_resource
    returned            \* what the last call returned

cVars == <<vars, resource, returned>>

ASSUME CApiAssumption ==
    /\ Creations \subseteq [fmt : Format, flags : SUBSET FlagNames]
    /\ ResourceTypes \subseteq Types /\ MemoryTypeArgs \subseteq 0..255
    /\ \A b \in Buffers : b \in Block /\ b.payload # Garbled /\ b.trailer = <<>>
    /\ ImportBound \in Nat
    /\ MemoryMayRunOut \in BOOLEAN

-----------------------------------------------------------------------------
(* Error codes *)

\* The codes with a case of their own; GenericFailure is what is left.
NamedErrors ==
    [Success |-> "SUCCESS", InvalidBundle |-> "INVALID_BUNDLE", InvalidPath |-> "INVALID_PATH",
     IoError |-> "IO_ERROR", InvalidState |-> "INVALID_STATE", InvalidMagic |-> "INVALID_MAGIC",
     UnsupportedVersion |-> "UNSUPPORTED_VERSION", UnsupportedPlatform |-> "UNSUPPORTED_PLATFORM",
     UnsupportedFlags |-> "UNSUPPORTED_FLAGS", UnsupportedFormat |-> "UNSUPPORTED_FORMAT",
     ResourceNotFound |-> "RESOURCE_NOT_FOUND", DebugDataNotFound |-> "DEBUG_DATA_NOT_FOUND",
     OutOfRange |-> "OUT_OF_RANGE", InvalidProject |-> "INVALID_PROJECT",
     CompressionFailed |-> "COMPRESSION_FAILED", DecompressionFailed |-> "DECOMPRESSION_FAILED",
     ValidationFailed |-> "VALIDATION_FAILED", MemoryAllocation |-> "MEMORY_ALLOCATION",
     InvalidArgument |-> "INVALID_ARGUMENT"]

\* A mutant: the two enumerations are taken for one.
MapErrorCodeByCast(code) == code

MapErrorCode(code) ==
    IF code \in DOMAIN NamedErrors THEN NamedErrors[code] ELSE "GENERIC_FAILURE"

\* A function without a result returns NoResult.
NoResult == "void"
Codes ==
    {NamedErrors[code] : code \in DOMAIN NamedErrors} \cup {"GENERIC_FAILURE", NoResult}

\* The types of the variables of BundleStore and of the C program.
CTypeOK ==
    /\ TypeOK
    /\ resource = Null \/ resource.type \in Types
    /\ returned \in Codes

CInit ==
    /\ Init /\ bundle = NoImpl
    /\ resource = Null /\ returned = NoResult

\* GuardError: the exception is caught and the bundle's last error is what it was.
RunsOut ==
    /\ MemoryMayRunOut
    /\ returned' = "MEMORY_ALLOCATION"
    /\ UNCHANGED <<lastError, file, savedTorn>>

\* What the facade reports is what the caller gets.
ReturnsLastError == returned' = MapErrorCode(lastError')

-----------------------------------------------------------------------------
(* The bundle as a whole *)

\* The program's handle is set to NULL first; an old bundle is lost to it.
NewHandle(impl, code) ==
    /\ bundle' = impl /\ returned' = code
    /\ lastError' = "Success"
    /\ UNCHANGED <<file, savedTorn, resource>>

libtub_create ==
    \/ \E c \in Creations : NewHandle(NewImpl(c.fmt, c.flags), "SUCCESS") /\ torn' = {}
    \/ NewHandle(NoImpl, "INVALID_ARGUMENT") /\ torn' = {}

\* The parser catches its own exceptions; reading the file does not.
libtub_load ==
    \/ \E code \in ReadErrors : NewHandle(NoImpl, MapErrorCode(code)) /\ torn' = {}
    \/ /\ file \notin NoBundle
       /\ \E result \in Loads(file) :
            IF result.code = "Success"
            THEN NewHandle(result.impl, "SUCCESS") /\ torn' = savedTorn
            ELSE NewHandle(NoImpl, MapErrorCode(result.code)) /\ torn' = {}
    \/ /\ MemoryMayRunOut /\ file # NoFile /\ torn' = {}
       /\ NewHandle(NoImpl, "MEMORY_ALLOCATION")

libtub_free ==
    NewHandle(NoImpl, NoResult) /\ torn' = {}

\* The finished image is copied before the file is opened.
libtub_save ==
    /\ IsValid
    /\ \/ (SaveRejected \/ SaveThrows \/ SaveToPath) /\ ReturnsLastError
       \/ /\ SaveVerdict(bundle.fmt, bundle.flags) = "Success"
          /\ bundle' = AfterSave(bundle)
          /\ RunsOut /\ UNCHANGED torn
    /\ UNCHANGED resource

\* A function given NULL for a handle.
NullHandle ==
    /\ returned' \in {"INVALID_ARGUMENT", NoResult}
    /\ ~IsValid \/ resource = Null
    /\ UNCHANGED <<vars, resource>>

-----------------------------------------------------------------------------
(* The program's resource *)

NewResource(r, code) ==
    /\ resource' = r /\ returned' = code
    /\ UNCHANGED vars

libtub_resource_create(type) ==
    \/ NewResource([type |-> type, blocks |-> NoEntries, imports |-> <<>>], "SUCCESS")
    \/ MemoryMayRunOut /\ NewResource(Null, "MEMORY_ALLOCATION")

libtub_resource_free == NewResource(Null, NoResult)

libtub_resource_replace_binary(s, buffer) ==
    /\ resource # Null
    /\ \/ s >= 4 /\ NewResource(resource, "OUT_OF_RANGE")
       \/ s < 4 /\ NewResource([resource EXCEPT !.blocks = Put(@, s, buffer)], "SUCCESS")
       \/ s < 4 /\ MemoryMayRunOut /\ NewResource(resource, "MEMORY_ALLOCATION")

\* An import for which there is no memory is lost, and nothing says so.
libtub_resource_add_import(id) ==
    /\ resource # Null /\ Len(resource.imports) < ImportBound
    /\ \/ NewResource([resource EXCEPT !.imports = Append(@, id)], NoResult)
       \/ MemoryMayRunOut /\ NewResource(resource, NoResult)

libtub_copy_resource(k) ==
    /\ IsValid
    /\ \/ /\ lastError' = GetResource(k) /\ ReturnsLastError
          /\ resource' = IF lastError' = "Success" THEN ReadResource(bundle, k) ELSE Null
       \/ /\ k \in DOMAIN bundle.entries /\ RunsOut
          /\ resource' = Null
    /\ UNCHANGED <<bundle, file, history>>

-----------------------------------------------------------------------------
(* Reading the bundle *)

libtub_copy_binary(k, s) ==
    /\ IsValid
    /\ \/ s >= 4 /\ returned' = "OUT_OF_RANGE" /\ UNCHANGED lastError
       \/ s < 4 /\ lastError' = GetBinary(k, s) /\ ReturnsLastError
       \/ s < 4 /\ k \in DOMAIN bundle.entries /\ RunsOut
    /\ UNCHANGED <<bundle, file, history, resource>>

libtub_get_resource_debug_data(k) ==
    /\ IsValid
    /\ \/ lastError' = GetResourceDebugData(k) /\ ReturnsLastError
       \/ k \in DOMAIN bundle.debug /\ RunsOut
    /\ UNCHANGED <<bundle, file, history, resource>>

libtub_get_resource_type(k) ==
    /\ IsValid
    /\ lastError' = GetResourceType(k) /\ ReturnsLastError
    /\ UNCHANGED <<bundle, file, history, resource>>

-----------------------------------------------------------------------------
(* Changing the bundle *)

\* Memory runs out over block s of a replacement: before its copy, where main
\* memory's imports are not counted yet, or before its compressed data is kept.
ThrownEntries(impl, e, r, s) ==
    LET reached == ReplacedEntry(impl, e, r, s)
        uncounted == [reached EXCEPT !.importCount = 0, !.importOffset = 0]
    IN  {IF s = MainMemory THEN uncounted ELSE reached}
            \cup (IF IsCompressed(impl) THEN {reached} ELSE {})

\* Memory runs out over BNDL's list of imports, after all the blocks: the count is
\* the new one, and the list that all streams of the id share has been cleared to
\* be given more room. What room it had is taken to be its length.
OutgrowsList(impl, id, list) ==
    LET old == IF id \in DOMAIN impl.imports THEN impl.imports[id] ELSE <<>>
    IN  ~IsBnd2(impl.fmt) /\ Len(list) > Len(old)

StoreSeparateImportsThrows(impl, k, r) ==
    [impl EXCEPT !.entries = Put(@, k, ReplacedEntry(impl, @[k], r, Finished)),
                 !.imports = Put(@, k[1], <<>>)]

\* A mutant: BNDL's import list is stored before the blocks.
ReplaceThrowsLate(impl, k, r) ==
    /\ \E s \in MemoryTypes(impl.fmt) \cap DOMAIN r.blocks :
        \E e \in ThrownEntries(impl, impl.entries[k], r, s) :
            bundle' = [impl EXCEPT !.entries = Put(@, k, e),
                                   !.imports = IF IsBnd2(impl.fmt) THEN @
                                               ELSE StoreSeparateImports(@, k[1], r.imports)]
    /\ torn' = torn \cup {k}
    /\ RunsOut

\* impl holds an entry under k that a replacement by r throws over.
ReplaceThrows(impl, k, r) ==
    /\ \/ \E s \in MemoryTypes(impl.fmt) \cap DOMAIN r.blocks :
            \E e \in ThrownEntries(impl, impl.entries[k], r, s) :
                bundle' = [impl EXCEPT !.entries = Put(@, k, e)]
       \/ OutgrowsList(impl, k[1], r.imports) /\ bundle' = StoreSeparateImportsThrows(impl, k, r)
    /\ torn' = IF bundle' = bundle THEN torn ELSE torn \cup {k}
    /\ RunsOut

\* Nothing takes the half-made entry and the flag out again.
AddThrows(k, r) ==
    /\ k \notin DOMAIN bundle.entries
    /\ Cardinality(DOMAIN bundle.entries) < EntryLimit
    /\ Len(r.imports) <= ImportLimit
    /\ ReplaceThrows([bundle EXCEPT !.entries = Put(@, k, FreshEntry(r.type)),
                                    !.flags = IF k[2] # 0 THEN @ \cup {"MultistreamBundle"} ELSE @],
                     k, r)

\* Bound: what is read where a replacement was cut short, the bytes of two
\* payloads in one block, is not followed into another resource.
IsPlain(r) ==
    IsResource(r) /\ \A s \in DOMAIN r.blocks : r.blocks[s].trailer = <<>>

\* The stream index is checked before the bundle sees it.
StreamOutOfRange(k) ==
    /\ k[2] >= StreamLimit
    /\ returned' = "OUT_OF_RANGE"
    /\ UNCHANGED vars

libtub_add_resource(k) ==
    /\ IsValid /\ resource # Null /\ IsPlain(resource)
    /\ \/ StreamOutOfRange(k)
       \/ k[2] < StreamLimit /\ AddResourceCall(k, resource) /\ ReturnsLastError
       \/ k[2] < StreamLimit /\ AddThrows(k, resource)
    /\ UNCHANGED resource

libtub_replace_resource(k) ==
    /\ IsValid /\ resource # Null /\ IsPlain(resource)
    /\ \/ StreamOutOfRange(k)
       \/ k[2] < StreamLimit /\ ReplaceResourceCall(k, resource) /\ ReturnsLastError
       \/ /\ k[2] < StreamLimit /\ k \in DOMAIN bundle.entries
          /\ Len(resource.imports) <= ImportLimit
          /\ ReplaceThrows(bundle, k, resource)
    /\ UNCHANGED resource

\* Without a result: the last error tells, unless memory ran out.
libtub_add_resource_debug_data(k, name) ==
    /\ IsValid
    /\ \/ AddResourceDebugDataCall(k, name)
       \/ MemoryMayRunOut /\ UNCHANGED vars
    /\ returned' = NoResult
    /\ UNCHANGED resource

CNext ==
    \/ libtub_create \/ libtub_load \/ libtub_free \/ libtub_save \/ NullHandle
    \/ \E type \in ResourceTypes : libtub_resource_create(type)
    \/ \E s \in MemoryTypeArgs, buffer \in Buffers : libtub_resource_replace_binary(s, buffer)
    \/ \E id \in ResourceIDs : libtub_resource_add_import(id)
    \/ libtub_resource_free
    \/ \E k \in Key :
        \/ libtub_copy_resource(k)
        \/ \E s \in MemoryTypeArgs : libtub_copy_binary(k, s)
        \/ libtub_get_resource_debug_data(k) \/ libtub_get_resource_type(k)
        \/ libtub_add_resource(k) \/ libtub_replace_resource(k)
        \/ \E name \in GivenNames : libtub_add_resource_debug_data(k, name)

CSpec == CInit /\ [][CNext]_cVars

-----------------------------------------------------------------------------
(* Properties *)

\* What a bundle takes of the program's resource: the memory types it has, and
\* the imports if there is a block to append them to.
Taken ==
    [resource EXCEPT
        !.blocks = [s \in MemoryTypes(bundle.fmt) \cap DOMAIN @ |-> @[s]],
        !.imports = IF IsBnd2(bundle.fmt) /\ MainMemory \notin DOMAIN resource.blocks
                    THEN <<>> ELSE @]

NowHolds(k, r) == k \in Readable(bundle') /\ ReadResource(bundle', k) = r

\* LIBTUB_ERROR_SUCCESS means that it was done: the resource added or put in the
\* place of another can be read and is the program's, over a half-made entry of
\* a call that ran out of memory too; the one copied out is the bundle's. Of a
\* copy that fails no resource is left in the program's hands (bundle_c.cpp:510-641).
SuccessIsWhole ==
    [][ \A k \in Key :
            /\ returned' = "SUCCESS" /\ libtub_add_resource(k)
                => k \notin Held(bundle) /\ NowHolds(k, Taken)
            /\ returned' = "SUCCESS" /\ libtub_replace_resource(k)
                => NowHolds(k, [Taken EXCEPT !.type = bundle.entries[k].type])
            /\ libtub_copy_resource(k)
                => IF returned' = "SUCCESS"
                   THEN k \in Readable(bundle) /\ resource' = Contents(bundle)[k]
                   ELSE resource' = Null ]_cVars

\* Of import lists at most BNDL's one of id is lost.
KeepsOtherLists(id) ==
    \/ bundle'.imports = bundle.imports
    \/ ~IsBnd2(bundle.fmt) /\ bundle'.imports = Put(bundle.imports, id, <<>>)

\* q reads as before, unless its imports went with the list of its id.
ReadsAsBefore(q, id) ==
    \/ Contents(bundle')[q] = Contents(bundle)[q]
    \/ /\ q[1] = id /\ bundle'.imports # bundle.imports
       /\ Contents(bundle')[q] = [Contents(bundle)[q] EXCEPT !.imports = <<>>]

\* Memory that runs out in the middle of a call costs at most the one resource
\* the call was about and, in BNDL, the imports of the other streams of its id,
\* whose list is cleared before there is room for the new one: every other resource
\* stays and reads as before, and other import lists, debug data, the default
\* resource and stream names do not change
\* (bundle_c.cpp:75-104, base.cpp:85-105, bndl.cpp:485-488).
OutOfMemoryIsContained ==
    [][ returned' = "MEMORY_ALLOCATION" /\ bundle' # NoImpl =>
            /\ bundle' = [bundle EXCEPT !.entries = bundle'.entries, !.flags = bundle'.flags,
                                        !.imports = bundle'.imports]
            /\ \E k \in Key :
                /\ KeepsOtherLists(k[1])
                /\ \A q \in (Held(bundle) \cup Held(bundle')) \ {k} :
                    q \in Held(bundle) \cap Held(bundle') /\ ReadsAsBefore(q, k[1]) ]_cVars

\* What half-made entries are left never keeps a bundle from being saved and
\* loaded again, with the same resources and as many that can be read
\* (bundle_c.cpp:75-104, bnd2.cpp:283-391).
HalfMadeSurvivesSave ==
    /\ Savable
    /\ ReservedKeys(bundle.fmt) \cap Held(bundle) = {}
    => \A img \in Images(bundle) : \A result \in Loads(img) :
            /\ result.code = "Success"
            /\ Held(result.impl) = Held(bundle)
            /\ Readable(result.impl) = Readable(bundle)
=============================================================================
