------------------------------ MODULE CApiProofs ------------------------------
(***************************************************************************)
(* Theorems about a C program's bundle when memory runs out in its calls,  *)
(* for every format, number of resources and file of another tool.         *)
(***************************************************************************)
EXTENDS CApi, RoundTripProofs

-----------------------------------------------------------------------------
(* Types *)

\* The program's resource: what is copied out of a damaged bundle may have
\* any blocks and imports.
IsHandle(r) ==
    r = Null \/ r \in [type : Types, blocks : {r.blocks}, imports : {r.imports}]

\* The inductive invariant.
ApiInv == TypeOK /\ IsHandle(resource) /\ returned \in Codes

\* Every error code has a code of the C API, and none of the bundle's own is that
\* of bad_alloc.
LEMMA ErrorIsMapped ==
    ASSUME NEW code
    PROVE  /\ MapErrorCode(code) \in Codes
           /\ code \in ErrorCodes => MapErrorCode(code) # "MEMORY_ALLOCATION"
<1>1. MapErrorCode(code) \in {NamedErrors[c] : c \in DOMAIN NamedErrors} \cup {"GENERIC_FAILURE"}
  BY DEF MapErrorCode
<1>2. \A c \in DOMAIN NamedErrors : NamedErrors[c] = "MEMORY_ALLOCATION" => c = "MemoryAllocation"
  BY DEF NamedErrors
<1>3. "MemoryAllocation" \notin ErrorCodes BY DEF ErrorCodes
<1>4. MapErrorCode(code) = "MEMORY_ALLOCATION" => code = "MemoryAllocation"
  BY <1>2 DEF MapErrorCode
<1> HIDE DEF NamedErrors
<1> QED BY <1>1, <1>3, <1>4 DEF Codes

\* What a call may return without an error of the bundle.
LEMMA PlainCodes ==
    {"SUCCESS", "OUT_OF_RANGE", "INVALID_ARGUMENT", "INVALID_PATH", "INVALID_BUNDLE",
     "MEMORY_ALLOCATION", NoResult} \subseteq Codes
<1>1. /\ NamedErrors["Success"] = "SUCCESS" /\ NamedErrors["OutOfRange"] = "OUT_OF_RANGE"
      /\ NamedErrors["InvalidArgument"] = "INVALID_ARGUMENT"
      /\ NamedErrors["InvalidPath"] = "INVALID_PATH"
      /\ NamedErrors["InvalidBundle"] = "INVALID_BUNDLE"
      /\ NamedErrors["MemoryAllocation"] = "MEMORY_ALLOCATION"
      /\ {"Success", "OutOfRange", "InvalidArgument", "InvalidPath", "InvalidBundle",
          "MemoryAllocation"} \subseteq DOMAIN NamedErrors
  BY DEF NamedErrors
<1> HIDE DEF NamedErrors
<1> QED BY <1>1 DEF Codes

\* What reading reports is an error code of the library.
LEMMA ReadsTyped ==
    \A k, s : {GetResource(k), GetBinary(k, s), GetResourceDebugData(k), GetResourceType(k)}
                \subseteq ErrorCodes
<1>1. \A k : ReadFailure(k) \in ErrorCodes BY DEF ReadFailure, ErrorCodes
<1>2. {"Success", "OutOfRange", "ResourceNotFound", "DebugDataNotFound"} \subseteq ErrorCodes
  BY DEF ErrorCodes
<1> QED BY <1>1, <1>2 DEF GetResource, GetBinary, GetResourceDebugData, GetResourceType

\* The entries a replacement that ran out of memory may leave are typed.
LEMMA ThrownEntryTyped ==
    ASSUME NEW impl, NEW e, IsEntry(e), NEW r, IsResource(r), NEW s,
           NEW thrown \in ThrownEntries(impl, e, r, s)
    PROVE  IsEntry(thrown)
<1> DEFINE reached   == ReplacedEntry(impl, e, r, s)
           uncounted == [reached EXCEPT !.importCount = 0, !.importOffset = 0]
<1>1. IsEntry(reached) BY ReplacedEntryTyped
<1>2. thrown \in {reached, uncounted} BY DEF ThrownEntries
<1> HIDE DEF reached
<1>3. IsEntry(uncounted) BY <1>1 DEF IsEntry
<1> QED BY <1>1, <1>2, <1>3

\* b is a with another entry under k, perhaps with more flags and, in BNDL, perhaps
\* with the import list of k's id cleared.
OnlyEntry(a, b, k) ==
    /\ b = [fmt |-> a.fmt, flags |-> b.flags, entries |-> b.entries, imports |-> b.imports,
            debug |-> a.debug, default |-> a.default, names |-> a.names]
    /\ a.flags \subseteq b.flags
    /\ Drop(b.entries, k) = Drop(a.entries, k)
    /\ \/ b.imports = a.imports
       \/ ~IsBnd2(a.fmt) /\ b.imports = Put(a.imports, k[1], <<>>)

\* An object is of that kind if it is such a record.
LEMMA AsRecord ==
    ASSUME NEW a, NEW b, NEW k, NEW entries, Drop(entries, k) = Drop(a.entries, k),
           NEW flags, a.flags \subseteq flags, NEW imports,
           \/ imports = a.imports
           \/ ~IsBnd2(a.fmt) /\ imports = Put(a.imports, k[1], <<>>),
           b = [fmt |-> a.fmt, flags |-> flags, entries |-> entries, imports |-> imports,
                debug |-> a.debug, default |-> a.default, names |-> a.names]
    PROVE  OnlyEntry(a, b, k)
<1>1. b.entries = entries /\ b.flags = flags /\ b.imports = imports OBVIOUS
<1> QED BY <1>1 DEF OnlyEntry

\* Changes of the same entry, one after the other.
LEMMA OnlyEntryTwice ==
    ASSUME NEW a, NEW b, NEW c, NEW k,
           OnlyEntry(a, b, k), b.imports = a.imports, OnlyEntry(b, c, k)
    PROVE  OnlyEntry(a, c, k)
<1>1. /\ b.fmt = a.fmt /\ b.debug = a.debug /\ b.default = a.default /\ b.names = a.names
      /\ a.flags \subseteq b.flags /\ Drop(b.entries, k) = Drop(a.entries, k)
  <2>1. b = [fmt |-> a.fmt, flags |-> b.flags, entries |-> b.entries, imports |-> b.imports,
             debug |-> a.debug, default |-> a.default, names |-> a.names]
    BY DEF OnlyEntry
  <2> QED BY <2>1 DEF OnlyEntry
<1>2. /\ c = [fmt |-> b.fmt, flags |-> c.flags, entries |-> c.entries, imports |-> c.imports,
              debug |-> b.debug, default |-> b.default, names |-> b.names]
      /\ b.flags \subseteq c.flags /\ Drop(c.entries, k) = Drop(b.entries, k)
      /\ \/ c.imports = b.imports
         \/ ~IsBnd2(b.fmt) /\ c.imports = Put(b.imports, k[1], <<>>)
  BY DEF OnlyEntry
<1>3. /\ c = [fmt |-> a.fmt, flags |-> c.flags, entries |-> c.entries, imports |-> c.imports,
              debug |-> a.debug, default |-> a.default, names |-> a.names]
      /\ \/ c.imports = a.imports
         \/ ~IsBnd2(a.fmt) /\ c.imports = Put(a.imports, k[1], <<>>)
  BY <1>1, <1>2
<1> QED BY <1>1, <1>2, <1>3 DEF OnlyEntry

\* The entry and the flag with which AddResource begins.
Staged(impl, k, r) ==
    [impl EXCEPT !.entries = Put(@, k, FreshEntry(r.type)),
                 !.flags = IF k[2] # 0 THEN @ \cup {"MultistreamBundle"} ELSE @]

\* They leave it typed.
LEMMA StagedTyped ==
    ASSUME NEW impl, IsImpl(impl), NEW k \in Key, NEW r, IsResource(r)
    PROVE  IsImpl(Staged(impl, k, r))
<1> DEFINE entries == Put(impl.entries, k, FreshEntry(r.type))
           flags   == IF k[2] # 0 THEN impl.flags \cup {"MultistreamBundle"} ELSE impl.flags
<1>1. IsEntries(entries)
  BY FreshEntryTyped, ImplFields, EntriesPutDrop DEF IsResource
<1>2. flags \in SUBSET FlagNames BY ImplFields DEF FlagNames, FlagBit
<1>3. Staged(impl, k, r) = [impl EXCEPT !.entries = entries, !.flags = flags]
  BY DEF Staged
<1> HIDE DEF entries, flags
<1>4. Staged(impl, k, r) =
        [fmt |-> impl.fmt, flags |-> flags, entries |-> entries, imports |-> impl.imports,
         debug |-> impl.debug, default |-> impl.default, names |-> impl.names]
  BY <1>3, ImplExcept
<1> QED BY <1>1, <1>2, <1>4, ImplFields, ImplTyped

\* AddResource begins with a change of that kind.
LEMMA StagedOnlyEntry ==
    ASSUME NEW impl, IsImpl(impl), NEW k \in Key, NEW r, IsResource(r)
    PROVE  /\ OnlyEntry(impl, Staged(impl, k, r), k)
           /\ Staged(impl, k, r).imports = impl.imports
           /\ k \in DOMAIN Staged(impl, k, r).entries
           /\ NeedsFlag(impl) => NeedsFlag(Staged(impl, k, r))
<1> DEFINE fresh == Put(impl.entries, k, FreshEntry(r.type))
           flags == IF k[2] # 0 THEN impl.flags \cup {"MultistreamBundle"} ELSE impl.flags
           other == Staged(impl, k, r)
<1>1. Drop(fresh, k) = Drop(impl.entries, k) BY DEF Put, Drop
<1>2. DOMAIN fresh = DOMAIN impl.entries \cup {k} BY PutDrop
<1>3. other = [impl EXCEPT !.entries = fresh, !.flags = flags] BY DEF Staged
<1>4. impl.flags \subseteq flags /\ (k[2] # 0 => "MultistreamBundle" \in flags) OBVIOUS
<1> HIDE DEF fresh, flags, other
<1>5. other = [fmt |-> impl.fmt, flags |-> flags, entries |-> fresh, imports |-> impl.imports,
               debug |-> impl.debug, default |-> impl.default, names |-> impl.names]
  BY <1>3, ImplExcept
<1>6. OnlyEntry(impl, other, k) BY <1>1, <1>4, <1>5, AsRecord
<1>7. other.entries = fresh /\ other.flags = flags /\ other.imports = impl.imports BY <1>5
<1>8. NeedsFlag(impl) => NeedsFlag(other) BY <1>2, <1>4, <1>7 DEF NeedsFlag
<1> QED BY <1>2, <1>6, <1>7, <1>8 DEF other

\* A replacement of impl's entry under k that runs out of memory.
LEMMA ReplaceThrowsEffect ==
    ASSUME NEW impl, IsImpl(impl), NEW k \in Key, k \in DOMAIN impl.entries,
           NEW r, IsResource(r), ReplaceThrows(impl, k, r)
    PROVE  IsImpl(bundle') /\ OnlyEntry(impl, bundle', k)
<1>1. IsEntry(impl.entries[k]) BY ImplFields DEF IsEntries
<1>2. PICK e, imports :
        /\ IsEntry(e) /\ IsImportLists(imports)
        /\ \/ imports = impl.imports
           \/ ~IsBnd2(impl.fmt) /\ imports = Put(impl.imports, k[1], <<>>)
        /\ bundle' = [impl EXCEPT !.entries = Put(impl.entries, k, e), !.imports = imports]
  <2>1. ASSUME NEW s, NEW e \in ThrownEntries(impl, impl.entries[k], r, s),
               bundle' = [impl EXCEPT !.entries = Put(@, k, e)]
        PROVE  /\ IsEntry(e) /\ IsImportLists(impl.imports)
               /\ bundle' = [impl EXCEPT !.entries = Put(impl.entries, k, e),
                                         !.imports = impl.imports]
    <3>1. IsEntry(e) BY <1>1, <2>1, ThrownEntryTyped
    <3> DEFINE entries == Put(impl.entries, k, e)
    <3>2. bundle' = [impl EXCEPT !.entries = entries] BY <2>1
    <3> HIDE DEF entries
    <3>3. [impl EXCEPT !.entries = entries] =
            [fmt |-> impl.fmt, flags |-> impl.flags, entries |-> entries,
             imports |-> impl.imports, debug |-> impl.debug,
             default |-> impl.default, names |-> impl.names]
      BY DEF IsImpl
    <3>4. bundle' = [impl EXCEPT !.entries = entries, !.imports = impl.imports]
      BY <3>2, <3>3, ImplExcept
    <3> QED BY <3>1, <3>4, ImplFields DEF entries
  <2>2. CASE OutgrowsList(impl, k[1], r.imports) /\ bundle' = StoreSeparateImportsThrows(impl, k, r)
    <3> DEFINE e       == ReplacedEntry(impl, impl.entries[k], r, Finished)
               imports == Put(impl.imports, k[1], <<>>)
    <3>1. IsEntry(e) BY <1>1, ReplacedEntryTyped
    <3>2. IsImportLists(imports)
      <4>1. k[1] \in ResourceIDs /\ IsImportLists(impl.imports) BY ImplFields DEF Key
      <4>2. <<>> \in Seq(ResourceIDs) OBVIOUS
      <4> QED BY <4>1, <4>2, PutDropMap DEF IsImportLists
    <3>3. ~IsBnd2(impl.fmt) BY <2>2 DEF OutgrowsList
    <3>4. bundle' = [impl EXCEPT !.entries = Put(impl.entries, k, e), !.imports = imports]
      BY <2>2, Zenon DEF StoreSeparateImportsThrows
    <3> HIDE DEF e, imports
    <3>5. imports = Put(impl.imports, k[1], <<>>) BY DEF imports
    <3> QED BY <3>1, <3>2, <3>3, <3>4, <3>5
  <2> QED BY <2>1, <2>2, Zenon DEF ReplaceThrows
<1> DEFINE entries == Put(impl.entries, k, e)
<1>3. IsEntries(entries) BY <1>2, ImplFields, EntriesPutDrop
<1>4. Drop(entries, k) = Drop(impl.entries, k) BY DEF Put, Drop
<1> HIDE DEF entries
<1>5. bundle' = [fmt |-> impl.fmt, flags |-> impl.flags, entries |-> entries, imports |-> imports,
                 debug |-> impl.debug, default |-> impl.default, names |-> impl.names]
  <2>1. bundle' = [impl EXCEPT !.entries = entries, !.imports = imports] BY <1>2 DEF entries
  <2> QED BY <2>1, ImplExcept
<1>6. IsImpl(bundle')
  <2>1. /\ impl.fmt \in Format /\ impl.flags \in SUBSET FlagNames /\ IsDebugData(impl.debug)
        /\ impl.default \in DefaultKey /\ impl.names \in StreamTable
        /\ IsEntries(entries) /\ IsImportLists(imports)
    BY <1>2, <1>3, ImplFields
  <2> QED BY <1>5, <2>1, ImplTyped
<1>7. OnlyEntry(impl, bundle', k) BY <1>2, <1>4, <1>5, AsRecord
<1> QED BY <1>6, <1>7

\* Memory that runs out in an AddResource or a ReplaceResource leaves a typed object
\* with one other entry, and with the flag that this entry needs.
LEMMA ThrowEffect ==
    ASSUME IsImpl(bundle), NEW k \in Key, NEW r, IsResource(r),
           \/ AddThrows(k, r)
           \/ k \in DOMAIN bundle.entries /\ ReplaceThrows(bundle, k, r)
    PROVE  /\ IsImpl(bundle') /\ OnlyEntry(bundle, bundle', k)
           /\ NeedsFlag(bundle) => NeedsFlag(bundle')
<1>1. ASSUME NEW impl, k \in DOMAIN impl.entries, NeedsFlag(impl), NEW other,
             OnlyEntry(impl, other, k)
      PROVE  NeedsFlag(other)
  <2>1. \A f : DOMAIN Drop(f, k) = DOMAIN f \ {k} BY DEF Drop
  <2>2. /\ impl.flags \subseteq other.flags
        /\ DOMAIN other.entries \ {k} = DOMAIN impl.entries \ {k}
    BY <1>1, <2>1 DEF OnlyEntry
  <2> QED BY <1>1, <2>2 DEF NeedsFlag
<1>2. CASE AddThrows(k, r)
  <2> DEFINE staged == Staged(bundle, k, r)
  <2>0. ReplaceThrows(staged, k, r) BY <1>2, Zenon DEF AddThrows, Staged
  <2>1. /\ IsImpl(staged) /\ ReplaceThrows(staged, k, r)
        /\ OnlyEntry(bundle, staged, k) /\ staged.imports = bundle.imports
        /\ k \in DOMAIN staged.entries /\ (NeedsFlag(bundle) => NeedsFlag(staged))
    BY <2>0, StagedTyped, StagedOnlyEntry, Zenon
  <2> HIDE DEF staged
  <2>2. IsImpl(bundle') /\ OnlyEntry(staged, bundle', k) BY <2>1, ReplaceThrowsEffect
  <2>3. OnlyEntry(bundle, bundle', k) BY <2>1, <2>2, OnlyEntryTwice
  <2> QED BY <1>1, <2>1, <2>2, <2>3
<1>3. CASE k \in DOMAIN bundle.entries /\ ReplaceThrows(bundle, k, r)
  <2>1. IsImpl(bundle') /\ OnlyEntry(bundle, bundle', k) BY <1>3, ReplaceThrowsEffect
  <2> QED BY <1>1, <1>3, <2>1
<1> QED BY <1>2, <1>3

\* What a call to the facade reports of a typed object.
LEMMA ReportTyped ==
    ASSUME NEW result, IsImpl(result.impl), NEW code \in ErrorCodes, Report(result, code)
    PROVE  IsImpl(bundle') /\ lastError' \in ErrorCodes
    BY DEF Report, ErrorCodes

\* The program's handle to a bundle, made, loaded or let go.
LEMMA BundleStep ==
    ASSUME ApiInv, libtub_create \/ libtub_load \/ libtub_free
    PROVE  ApiInv'
<1> USE DEF ApiInv, TypeOK, NewHandle
<1>0. "Success" \in ErrorCodes BY DEF ErrorCodes
<1>1. CASE libtub_create
  <2>1. PICK impl, code :
            /\ impl = NoImpl \/ IsImpl(impl)
            /\ code \in {"SUCCESS", "INVALID_ARGUMENT"}
            /\ NewHandle(impl, code) /\ torn' = {}
    BY <1>1, CApiAssumption, NewImplTyped DEF libtub_create
  <2> QED BY <1>0, <2>1, PlainCodes
<1>2. CASE libtub_load
  <2>1. PICK impl, code :
            /\ impl = NoImpl \/ IsImpl(impl)
            /\ code \in Codes
            /\ NewHandle(impl, code) /\ torn' \in {{}, savedTorn}
    <3>1. CASE \/ \E code \in ReadErrors : NewHandle(NoImpl, MapErrorCode(code)) /\ torn' = {}
               \/ MemoryMayRunOut /\ NewHandle(NoImpl, "MEMORY_ALLOCATION") /\ torn' = {}
      <4> HIDE DEF NewHandle
      <4> QED BY <3>1, ErrorIsMapped, PlainCodes
    <3>2. ASSUME file \notin NoBundle, NEW result \in Loads(file),
                 IF result.code = "Success"
                 THEN NewHandle(result.impl, "SUCCESS") /\ torn' = savedTorn
                 ELSE NewHandle(NoImpl, MapErrorCode(result.code)) /\ torn' = {}
          PROVE  \E impl, code :
                    /\ impl = NoImpl \/ IsImpl(impl)
                    /\ code \in Codes
                    /\ NewHandle(impl, code) /\ torn' \in {{}, savedTorn}
      <4> HIDE DEF NewHandle
      <4>1. result.code = "Success" => IsImpl(result.impl) BY <3>2, LoadTyped
      <4> QED BY <3>2, <4>1, ErrorIsMapped, PlainCodes
    <3> HIDE DEF NewHandle
    <3> QED BY <1>2, <3>1, <3>2 DEF libtub_load
  <2> QED BY <1>0, <2>1
<1>3. CASE libtub_free BY <1>0, <1>3, PlainCodes DEF libtub_free
<1> QED BY <1>1, <1>2, <1>3

\* Saving.
LEMMA SaveStep == ASSUME ApiInv, libtub_save PROVE ApiInv'
<1> USE DEF ApiInv, TypeOK
<1>1. IsImpl(bundle) BY DEF libtub_save, IsValid
<1>2. AfterSave(bundle) = bundle \/ IsImpl(AfterSave(bundle)) BY <1>1, AfterSaveTyped
<1>3. UNCHANGED resource /\ (returned' \in Codes)
  BY ErrorIsMapped, PlainCodes DEF libtub_save, ReturnsLastError, RunsOut
<1>4. CASE SaveRejected
  <2>1. SaveVerdict(bundle.fmt, bundle.flags) \in ErrorCodes BY DEF SaveVerdict, ErrorCodes
  <2> QED BY <1>3, <1>4, <2>1 DEF SaveRejected, history
<1>5. CASE SaveThrows
  <2>1. IsImpl(bundle') BY <1>1, <1>5, AfterSaveTyped DEF SaveThrows, AfterThrow, IsValid
  <2> QED BY <1>3, <1>5, <2>1 DEF SaveThrows, ErrorCodes, history
<1>6. CASE SaveToPath
  <2>1. file' \in NoBundle \/ IsImage(file')
    BY <1>1, <1>6, ImageTyped DEF SaveToPath, CutImages, NoBundle
  <2> QED BY <1>2, <1>3, <1>6, <2>1 DEF SaveToPath, ErrorCodes, history
<1>7. CASE bundle' = AfterSave(bundle) /\ RunsOut /\ UNCHANGED torn
  BY <1>2, <1>3, <1>7 DEF RunsOut
<1> QED BY <1>4, <1>5, <1>6, <1>7 DEF libtub_save

\* The program's own resource.
LEMMA ResourceStep ==
    ASSUME ApiInv,
           \/ \E type \in ResourceTypes : libtub_resource_create(type)
           \/ \E s \in MemoryTypeArgs, buffer \in Buffers :
                    libtub_resource_replace_binary(s, buffer)
           \/ \E id \in ResourceIDs : libtub_resource_add_import(id)
           \/ libtub_resource_free
    PROVE  ApiInv'
<1>1. \A b : IsHandle(resource) /\ resource # Null =>
            IsHandle([resource EXCEPT !.blocks = b]) /\ IsHandle([resource EXCEPT !.imports = b])
  BY DEF IsHandle
<1>2. \A type \in ResourceTypes :
            IsHandle([type |-> type, blocks |-> NoEntries, imports |-> <<>>])
  BY CApiAssumption DEF IsHandle
<1>3. IsHandle(Null) BY DEF IsHandle
<1>4. PICK r, code : /\ IsHandle(r) /\ code \in Codes
                     /\ NewResource(r, code)
  <2> HIDE DEF IsHandle
  <2> USE PlainCodes DEF ApiInv
  <2>1. CASE \E type \in ResourceTypes : libtub_resource_create(type)
    BY <1>2, <1>3, <2>1 DEF libtub_resource_create
  <2>2. CASE \E s \in MemoryTypeArgs, buffer \in Buffers :
                libtub_resource_replace_binary(s, buffer)
    BY <1>1, <2>2 DEF libtub_resource_replace_binary
  <2>3. CASE \E id \in ResourceIDs : libtub_resource_add_import(id)
    BY <1>1, <2>3 DEF libtub_resource_add_import
  <2>4. CASE libtub_resource_free BY <1>3, <2>4 DEF libtub_resource_free
  <2> QED BY <2>1, <2>2, <2>3, <2>4
<1> QED BY <1>4 DEF ApiInv, TypeOK, NewResource, vars, history

\* Copying out of the bundle.
LEMMA CopyStep ==
    ASSUME ApiInv, NEW k \in Key,
           \/ libtub_copy_resource(k)
           \/ \E s \in MemoryTypeArgs : libtub_copy_binary(k, s)
           \/ libtub_get_resource_debug_data(k)
           \/ libtub_get_resource_type(k)
    PROVE  ApiInv'
<1>1. lastError' \in ErrorCodes /\ returned' \in Codes
  BY ErrorIsMapped, PlainCodes, ReadsTyped
  DEF ApiInv, TypeOK, libtub_copy_resource, libtub_copy_binary, libtub_get_resource_type,
      libtub_get_resource_debug_data, ReturnsLastError, RunsOut
<1>2. UNCHANGED <<bundle, file, history>>
  BY DEF libtub_copy_resource, libtub_copy_binary, libtub_get_resource_type,
         libtub_get_resource_debug_data
<1>3. IsHandle(resource')
  <2>1. CASE UNCHANGED resource BY <2>1 DEF ApiInv, IsHandle
  <2>2. CASE resource' = Null BY <2>2 DEF IsHandle
  <2>3. CASE libtub_copy_resource(k) /\ resource' = ReadResource(bundle, k)
                /\ GetResource(k) = "Success"
    <3>1. IsImpl(bundle) /\ k \in DOMAIN bundle.entries
      BY <2>3 DEF ApiInv, TypeOK, IsValid, libtub_copy_resource, GetResource, ReadFailure
    <3>2. bundle.entries[k].type \in Types BY <3>1, ImplFields DEF IsEntries, IsEntry
    <3> QED BY <2>3, <3>2 DEF ReadResource, IsHandle
  <2> QED BY <2>1, <2>2, <2>3
      DEF libtub_copy_resource, libtub_copy_binary, libtub_get_resource_type,
          libtub_get_resource_debug_data
<1> QED BY <1>1, <1>2, <1>3 DEF ApiInv, TypeOK, history

\* Changing the bundle.
LEMMA ChangeStep ==
    ASSUME ApiInv, NEW k \in Key,
           \/ libtub_add_resource(k)
           \/ libtub_replace_resource(k)
           \/ \E name \in GivenNames : libtub_add_resource_debug_data(k, name)
    PROVE  ApiInv'
<1> USE DEF ApiInv, TypeOK
<1>0. /\ {"ValidationFailed", "ResourceNotFound"} \subseteq ErrorCodes
      /\ IsValid => IsImpl(bundle)
  BY DEF ErrorCodes, IsValid
<1>1. UNCHANGED resource /\ (returned' \in Codes)
  BY ErrorIsMapped, PlainCodes
  DEF libtub_add_resource, libtub_replace_resource, libtub_add_resource_debug_data,
      ReturnsLastError, RunsOut, StreamOutOfRange, AddThrows, ReplaceThrows
<1>2. CASE UNCHANGED vars BY <1>1, <1>2 DEF vars, history
<1>3. CASE IsValid /\ IsResource(resource) /\ AddResourceCall(k, resource)
  <2>1. PICK stop \in StopSlots(bundle, resource) :
            Report(AddResource(bundle, k, resource, stop), "ValidationFailed")
    BY <1>3 DEF AddResourceCall
  <2>2. IsImpl(bundle') /\ lastError' \in ErrorCodes
    BY <1>0, <1>3, <2>1, AddResourceTyped, ReportTyped
  <2> QED BY <1>1, <1>3, <2>2 DEF AddResourceCall, history
<1>4. CASE IsValid /\ IsResource(resource) /\ ReplaceResourceCall(k, resource)
  <2>1. PICK stop \in StopSlots(bundle, resource) :
            /\ Report(ReplaceResource(bundle, k, resource, stop), "ResourceNotFound")
            /\ torn' \in {torn \ {k}, torn \cup {k}, torn}
    BY <1>4 DEF ReplaceResourceCall
  <2>2. IsImpl(bundle') /\ lastError' \in ErrorCodes
    BY <1>0, <1>4, <2>1, ReplaceResourceTyped, ReportTyped
  <2> QED BY <1>1, <1>4, <2>1, <2>2 DEF ReplaceResourceCall
<1>5. CASE /\ IsValid /\ IsResource(resource)
           /\ \/ AddThrows(k, resource)
              \/ k \in DOMAIN bundle.entries /\ ReplaceThrows(bundle, k, resource)
  <2>1. IsImpl(bundle') BY <1>0, <1>5, ThrowEffect
  <2>2. torn' \in {torn, torn \cup {k}} /\ UNCHANGED <<lastError, file, savedTorn>>
    BY <1>5 DEF AddThrows, ReplaceThrows, RunsOut
  <2> QED BY <1>1, <2>1, <2>2
<1>6. ASSUME NEW name \in GivenNames, AddResourceDebugDataCall(k, name) PROVE ApiInv'
  <2>1. IsImpl(bundle') /\ lastError' \in ErrorCodes
    BY <1>0, <1>6, StoreAssumption, AddResourceDebugDataTyped, ReportTyped
    DEF AddResourceDebugDataCall
  <2> QED BY <1>1, <1>6, <2>1 DEF AddResourceDebugDataCall, history
<1> QED BY <1>2, <1>3, <1>4, <1>5, <1>6
    DEF libtub_add_resource, libtub_replace_resource, libtub_add_resource_debug_data,
        StreamOutOfRange, IsPlain

\* The invariant holds at first ...
LEMMA ApiInit == CInit => ApiInv
<1>1. CInit => bundle = NoImpl /\ torn = {} /\ savedTorn = {} 
            /\ file \in ForeignFiles \cup NoBundle
  BY DEF CInit, Init, NoBundle
<1> QED BY <1>1, StoreAssumption, PlainCodes
    DEF CInit, Init, ApiInv, TypeOK, ErrorCodes, IsHandle

\* ... and every call keeps it.
LEMMA ApiStep == ApiInv /\ [CNext]_cVars => ApiInv'
<1> SUFFICES ASSUME ApiInv, [CNext]_cVars PROVE ApiInv' OBVIOUS
<1>1. CASE NullHandle
  <2>1. returned' \in Codes BY <1>1, PlainCodes DEF NullHandle
  <2> QED BY <1>1, <2>1 DEF NullHandle, ApiInv, TypeOK, vars, history, IsHandle
<1>2. CASE UNCHANGED cVars
  BY <1>2 DEF cVars, vars, history, ApiInv, TypeOK, IsHandle
<1> QED BY <1>1, <1>2, BundleStep, SaveStep, ResourceStep, CopyStep, ChangeStep DEF CNext

\* Whatever the C functions are given and wherever memory runs out, the
\* program's bundle, file and resource are of their types.
THEOREM CTypesHold == CSpec => []CTypeOK
<1>1. ApiInv => CTypeOK BY DEF ApiInv, IsHandle, CTypeOK
<1> QED BY <1>1, ApiInit, ApiStep, PTL DEF CSpec

-----------------------------------------------------------------------------
(* Memory that runs out *)

\* Of two such objects the other resources are the same, but for imports that went
\* with the list of k's id.
LEMMA OtherContentsKept ==
    ASSUME NEW a, a # NoImpl, NEW b, b # NoImpl, NEW k, OnlyEntry(a, b, k),
           NEW q \in (Held(a) \cup Held(b)) \ {k}
    PROVE  /\ q \in Held(a) \cap Held(b)
           /\ \/ Contents(b)[q] = Contents(a)[q]
              \/ /\ q[1] = k[1] /\ b.imports # a.imports
                 /\ Contents(b)[q] = [Contents(a)[q] EXCEPT !.imports = <<>>]
<1>0. b.fmt = a.fmt
  <2>1. b = [fmt |-> a.fmt, flags |-> b.flags, entries |-> b.entries, imports |-> b.imports,
             debug |-> a.debug, default |-> a.default, names |-> a.names]
    BY DEF OnlyEntry
  <2> QED BY <2>1
<1>1. \A e : /\ DOMAIN Drop(e, k) = DOMAIN e \ {k}
             /\ q \in DOMAIN e => Drop(e, k)[q] = e[q]
  BY DEF Drop
<1>2. q \in Held(a) \cap Held(b) /\ b.entries[q] = a.entries[q] BY <1>1 DEF Held, OnlyEntry
<1>3. CASE b.imports = a.imports BY <1>0, <1>2, <1>3, SameResource
<1>4. CASE b.imports # a.imports /\ q[1] # k[1]
  <2>1. ~IsBnd2(a.fmt) /\ b.imports = Put(a.imports, k[1], <<>>) BY <1>4 DEF OnlyEntry
  <2>2. /\ q[1] \in DOMAIN a.imports <=> q[1] \in DOMAIN b.imports
        /\ q[1] \in DOMAIN a.imports => b.imports[q[1]] = a.imports[q[1]]
    BY <1>4, <2>1 DEF Put
  <2> QED BY <1>0, <1>2, <2>2, SameResource
<1>5. CASE b.imports # a.imports /\ q[1] = k[1]
  <2>1. ~IsBnd2(a.fmt) /\ b.imports = Put(a.imports, k[1], <<>>) BY <1>5 DEF OnlyEntry
  <2>2. ReadImports(b, q) = <<>>
    <3>1. q[1] \in DOMAIN b.imports /\ b.imports[q[1]] = <<>> BY <1>5, <2>1 DEF Put
    <3> QED BY <1>0, <2>1, <3>1 DEF ReadImports
  <2>3. \A s : /\ CanReadBlock(b, q, s) <=> CanReadBlock(a, q, s)
               /\ ReadBlock(b, q, s) = ReadBlock(a, q, s)
    BY <1>0, <1>2 DEF CanReadBlock, ReadBlock
  <2>4. CanReadResource(b, q) <=> CanReadResource(a, q) BY <1>0, <2>3 DEF CanReadResource
  <2>5. ReadResource(b, q) = [ReadResource(a, q) EXCEPT !.imports = <<>>]
    <3> DEFINE blocks == [s \in MemoryTypes(a.fmt) \cap DOMAIN a.entries[q].blocks |->
                            ReadBlock(a, q, s)]
    <3>1. ReadResource(a, q) = [type |-> a.entries[q].type, blocks |-> blocks,
                                imports |-> ReadImports(a, q)]
      BY DEF ReadResource
    <3>2. ReadResource(b, q) = [type |-> a.entries[q].type, blocks |-> blocks, imports |-> <<>>]
      BY <1>0, <1>2, <2>2, <2>3 DEF ReadResource
    <3> HIDE DEF blocks
    <3> QED BY <3>1, <3>2
  <2>6. CASE CanReadResource(a, q)
    <3>1. Contents(a)[q] = ReadResource(a, q) /\ Contents(b)[q] = ReadResource(b, q)
      BY <1>2, <2>4, <2>6 DEF Contents, Readable
    <3> QED BY <1>2, <1>5, <2>5, <3>1
  <2>7. CASE ~CanReadResource(a, q)
    <3>1. Contents(a)[q] = Contents(b)[q]
      BY <1>2, <2>4, <2>7 DEF Contents, Readable
    <3> QED BY <1>2, <3>1
  <2> QED BY <2>6, <2>7
<1> QED BY <1>3, <1>4, <1>5

\* What OutOfMemoryIsContained says of one step.
Contained ==
    /\ bundle' = [bundle EXCEPT !.entries = bundle'.entries, !.flags = bundle'.flags,
                                !.imports = bundle'.imports]
    /\ \E k \in Key :
        /\ KeepsOtherLists(k[1])
        /\ \A q \in (Held(bundle) \cup Held(bundle')) \ {k} :
            q \in Held(bundle) \cap Held(bundle') /\ ReadsAsBefore(q, k[1])

\* Such a change of the bundle is contained.
LEMMA OneEntryContained ==
    ASSUME IsImpl(bundle), bundle # NoImpl, bundle' # NoImpl, NEW k \in Key,
           OnlyEntry(bundle, bundle', k)
    PROVE  Contained
<1>1. \A q \in (Held(bundle) \cup Held(bundle')) \ {k} :
            q \in Held(bundle) \cap Held(bundle') /\ ReadsAsBefore(q, k[1])
  BY OtherContentsKept DEF ReadsAsBefore
<1>2. KeepsOtherLists(k[1]) BY DEF KeepsOtherLists, OnlyEntry
<1>3. ASSUME NEW entries, NEW flags, NEW imports
      PROVE  [bundle EXCEPT !.entries = entries, !.flags = flags, !.imports = imports] =
                [fmt |-> bundle.fmt, flags |-> flags, entries |-> entries, imports |-> imports,
                 debug |-> bundle.debug, default |-> bundle.default, names |-> bundle.names]
  <2> DEFINE two == [bundle EXCEPT !.entries = entries, !.flags = flags]
  <2>1. two = [fmt |-> bundle.fmt, flags |-> flags, entries |-> entries,
               imports |-> bundle.imports, debug |-> bundle.debug,
               default |-> bundle.default, names |-> bundle.names]
    BY ImplExcept
  <2>2. [bundle EXCEPT !.entries = entries, !.flags = flags, !.imports = imports] =
            [two EXCEPT !.imports = imports]
    OBVIOUS
  <2> HIDE DEF two
  <2> QED BY <2>1, <2>2
<1>4. bundle' = [fmt |-> bundle.fmt, flags |-> bundle'.flags, entries |-> bundle'.entries,
                 imports |-> bundle'.imports, debug |-> bundle.debug,
                 default |-> bundle.default, names |-> bundle.names]
  BY DEF OnlyEntry
<1>5. bundle' = [bundle EXCEPT !.entries = bundle'.entries, !.flags = bundle'.flags,
                               !.imports = bundle'.imports]
  <2>1. [bundle EXCEPT !.entries = bundle'.entries, !.flags = bundle'.flags,
                       !.imports = bundle'.imports] =
            [fmt |-> bundle.fmt, flags |-> bundle'.flags, entries |-> bundle'.entries,
             imports |-> bundle'.imports, debug |-> bundle.debug,
             default |-> bundle.default, names |-> bundle.names]
    BY <1>3
  <2> QED BY <1>4, <2>1, Zenon
<1> QED BY <1>1, <1>2, <1>5 DEF Contained

\* A bundle that does not change, or only in the string table's entry.
LEMMA SaveContained ==
    ASSUME IsImpl(bundle), IsImpl(bundle'), bundle # NoImpl, bundle' # NoImpl,
           bundle' \in {bundle, AfterSave(bundle)}
    PROVE  Contained
<1>1. bundle' = bundle
        \/ /\ Drop(bundle'.entries, StringTableKey) = Drop(bundle.entries, StringTableKey)
           /\ bundle' = [bundle EXCEPT !.entries = bundle'.entries]
  BY SaveKeepsOtherEntries
<1>2. OnlyEntry(bundle, bundle', StringTableKey)
  <2>1. PICK entries : /\ Drop(entries, StringTableKey) = Drop(bundle.entries, StringTableKey)
                       /\ bundle' = [bundle EXCEPT !.entries = entries]
    <3>1. CASE bundle' = bundle
      <4>1. bundle' = [bundle EXCEPT !.entries = bundle.entries] BY <3>1 DEF IsImpl
      <4> QED BY <4>1
    <3> QED BY <1>1, <3>1
  <2>2. bundle' = [fmt |-> bundle.fmt, flags |-> bundle.flags, entries |-> entries,
                   imports |-> bundle.imports, debug |-> bundle.debug,
                   default |-> bundle.default, names |-> bundle.names]
    BY <2>1 DEF IsImpl
  <2> QED BY <2>1, <2>2, AsRecord
<1> QED BY <1>2, StringTableKeyTyped, OneEntryContained

\* In every call of every C program, memory that runs out costs at most the one
\* resource the call was about and, in BNDL, the import list of its id.
THEOREM MemoryFailuresAreContained == CSpec => OutOfMemoryIsContained
<1>1. ASSUME ApiInv, [CNext]_cVars
      PROVE  [returned' = "MEMORY_ALLOCATION" /\ bundle' # NoImpl => Contained]_cVars
  <2> SUFFICES ASSUME CNext, returned' = "MEMORY_ALLOCATION", bundle' # NoImpl
               PROVE  Contained
    BY <1>1
  <2>1. MapErrorCode(lastError') # "MEMORY_ALLOCATION"
    <3>1. lastError' \in ErrorCodes BY <1>1, ApiStep DEF ApiInv, TypeOK
    <3> QED BY <3>1, ErrorIsMapped
  <2>2. ASSUME bundle' \in {bundle, AfterSave(bundle)}, IsValid \/ bundle' = bundle
        PROVE  Contained
    <3>1. bundle # NoImpl /\ IsImpl(bundle) BY <1>1, <2>2 DEF ApiInv, TypeOK, IsValid
    <3>2. IsImpl(bundle') BY <2>2, <3>1, AfterSaveTyped
    <3> QED BY <2>2, <3>1, <3>2, SaveContained
  <2>3. ASSUME NEW k \in Key, IsValid, IsResource(resource),
               \/ AddThrows(k, resource)
               \/ k \in DOMAIN bundle.entries /\ ReplaceThrows(bundle, k, resource)
        PROVE  Contained
    BY <1>1, <2>3, ThrowEffect, OneEntryContained DEF ApiInv, TypeOK, IsValid
  <2>4. CASE libtub_create \/ libtub_load \/ libtub_free
    BY <2>1, <2>4 DEF libtub_create, libtub_load, libtub_free, NewHandle, NoResult
  <2>5. CASE libtub_save
    BY <2>1, <2>2, <2>5 DEF libtub_save, ReturnsLastError
  <2>6. CASE UNCHANGED bundle BY <2>2, <2>6
  <2>7. ASSUME NEW k \in Key, libtub_add_resource(k) \/ libtub_replace_resource(k)
        PROVE  Contained
    BY <2>1, <2>3, <2>7
    DEF libtub_add_resource, libtub_replace_resource, StreamOutOfRange, IsPlain, ReturnsLastError
  <2>8. ASSUME NEW k \in Key, NEW name \in GivenNames, libtub_add_resource_debug_data(k, name)
        PROVE  FALSE
    BY <2>8 DEF libtub_add_resource_debug_data, NoResult
  <2>9. ASSUME \/ NullHandle
               \/ \E type \in ResourceTypes : libtub_resource_create(type)
               \/ \E s \in MemoryTypeArgs, buffer \in Buffers :
                        libtub_resource_replace_binary(s, buffer)
               \/ \E id \in ResourceIDs : libtub_resource_add_import(id)
               \/ libtub_resource_free
        PROVE  UNCHANGED bundle
    BY <2>9 DEF NullHandle, libtub_resource_create, libtub_resource_replace_binary,
        libtub_resource_add_import, libtub_resource_free, NewResource, vars
  <2>10. ASSUME NEW k \in Key,
                \/ libtub_copy_resource(k)
                \/ \E s \in MemoryTypeArgs : libtub_copy_binary(k, s)
                \/ libtub_get_resource_debug_data(k)
                \/ libtub_get_resource_type(k)
         PROVE  UNCHANGED bundle
    BY <2>10 DEF libtub_copy_resource, libtub_copy_binary, libtub_get_resource_debug_data,
        libtub_get_resource_type
  <2> QED BY <2>4, <2>5, <2>6, <2>7, <2>8, <2>9, <2>10 DEF CNext
<1> QED BY <1>1, ApiInit, ApiStep, PTL DEF CSpec, OutOfMemoryIsContained, Contained

-----------------------------------------------------------------------------
(* Saving what is left *)

\* The inductive invariant: ApiInv, and half-made entries have their flag too.
FlaggedInv == ApiInv /\ (IsValid => NeedsFlag(bundle))

\* Every call keeps it.
LEMMA FlaggedStep == FlaggedInv /\ [CNext]_cVars => FlaggedInv'
<1> SUFFICES ASSUME FlaggedInv, [CNext]_cVars PROVE FlaggedInv' OBVIOUS
<1>0. /\ ApiInv /\ ApiInv'
      /\ IsValid => IsImpl(bundle) /\ NeedsFlag(bundle)
      /\ file \in NoBundle \/ IsImage(file)
  BY ApiStep DEF FlaggedInv, ApiInv, TypeOK, IsValid
<1> DEFINE Flagged == IsValid => NeedsFlag(bundle)
<1> SUFFICES Flagged' BY <1>0 DEF FlaggedInv
<1>1. CASE libtub_create \/ libtub_load \/ libtub_free
  <2>1. \A fmt, flags : NeedsFlag(NewImpl(fmt, flags)) BY DEF NewImpl, NoEntries, NeedsFlag
  <2>2. ASSUME file \notin NoBundle, NEW result \in Loads(file),
               result.code = "Success"
        PROVE  NeedsFlag(result.impl)
    BY <1>0, <2>2, LoadTyped DEF NeedsFlag
  <2> QED BY <1>1, <2>1, <2>2 DEF libtub_create, libtub_load, libtub_free, NewHandle, IsValid
<1>2. CASE libtub_save
  <2>1. IsImpl(bundle) /\ NeedsFlag(bundle) BY <1>0, <1>2 DEF libtub_save
  <2>2. bundle' = bundle \/ bundle' = AfterSave(bundle) \/ bundle' \in AfterThrow(bundle)
    BY <1>2 DEF libtub_save, SaveRejected, SaveThrows, SaveToPath
  <2> QED BY <2>1, <2>2, SaveGood
<1>3. CASE UNCHANGED bundle BY <1>0, <1>3 DEF IsValid
<1>4. ASSUME NEW k \in Key, libtub_add_resource(k) \/ libtub_replace_resource(k)
      PROVE  Flagged'
  <2>1. IsImpl(bundle) /\ NeedsFlag(bundle) /\ IsResource(resource)
    BY <1>0, <1>4 DEF libtub_add_resource, libtub_replace_resource, IsPlain
  <2>2. CASE AddResourceCall(k, resource) \/ ReplaceResourceCall(k, resource)
    BY <2>1, <2>2, AddResourceGood, ReplaceResourceGood
    DEF AddResourceCall, ReplaceResourceCall, Report
  <2>3. CASE \/ AddThrows(k, resource)
             \/ k \in DOMAIN bundle.entries /\ ReplaceThrows(bundle, k, resource)
    BY <2>1, <2>3, ThrowEffect
  <2>4. CASE StreamOutOfRange(k) BY <1>3, <2>4 DEF StreamOutOfRange, vars
  <2> QED BY <1>4, <2>2, <2>3, <2>4 DEF libtub_add_resource, libtub_replace_resource
<1>5. ASSUME NEW k \in Key, NEW name \in GivenNames, libtub_add_resource_debug_data(k, name)
      PROVE  Flagged'
  <2>1. name \in DebugNames BY StoreAssumption
  <2>2. CASE AddResourceDebugDataCall(k, name)
    BY <1>0, <2>1, <2>2, MetadataGood DEF AddResourceDebugDataCall, Report
  <2>3. CASE UNCHANGED vars BY <1>3, <2>3 DEF vars
  <2> QED BY <1>5, <2>2, <2>3 DEF libtub_add_resource_debug_data
<1>6. ASSUME \/ NullHandle
             \/ \E type \in ResourceTypes : libtub_resource_create(type)
             \/ \E s \in MemoryTypeArgs, buffer \in Buffers :
                      libtub_resource_replace_binary(s, buffer)
             \/ \E id \in ResourceIDs : libtub_resource_add_import(id)
             \/ libtub_resource_free
             \/ UNCHANGED cVars
      PROVE  UNCHANGED bundle
  BY <1>6 DEF NullHandle, libtub_resource_create, libtub_resource_replace_binary,
      libtub_resource_add_import, libtub_resource_free, NewResource, cVars, vars
<1>7. ASSUME NEW k \in Key,
             \/ libtub_copy_resource(k)
             \/ \E s \in MemoryTypeArgs : libtub_copy_binary(k, s)
             \/ libtub_get_resource_debug_data(k)
             \/ libtub_get_resource_type(k)
      PROVE  UNCHANGED bundle
  BY <1>7 DEF libtub_copy_resource, libtub_copy_binary, libtub_get_resource_debug_data,
      libtub_get_resource_type
<1> QED BY <1>1, <1>2, <1>3, <1>4, <1>5, <1>6, <1>7 DEF CNext

\* Wherever memory ran out, the bundle it left can be saved, and the file has the
\* same resources and as many that can be read.
THEOREM HalfMadeIsSaved == EmptyIsNoObject => (CSpec => []HalfMadeSurvivesSave)
<1> SUFFICES ASSUME EmptyIsNoObject PROVE CSpec => []HalfMadeSurvivesSave OBVIOUS
<1>1. CInit => FlaggedInv BY ApiInit DEF CInit, FlaggedInv, IsValid
<1>2. FlaggedInv => HalfMadeSurvivesSave
  <2> SUFFICES ASSUME FlaggedInv, Savable, ReservedKeys(bundle.fmt) \cap Held(bundle) = {},
                      NEW img \in Images(bundle), NEW result \in Loads(img)
               PROVE  /\ result.code = "Success"
                      /\ Held(result.impl) = Held(bundle)
                      /\ Readable(result.impl) = Readable(bundle)
    BY DEF HalfMadeSurvivesSave
  <2>1. /\ IsImpl(bundle) /\ NeedsFlag(bundle) /\ Held(bundle) = DOMAIN bundle.entries
        /\ SaveVerdict(bundle.fmt, bundle.flags) = "Success"
    BY DEF FlaggedInv, ApiInv, TypeOK, Savable, IsValid, Held
  <2>0. img \in CutImages(bundle) BY DEF CutImages
  <2>2. IsImage(img) /\ result = LoadSuccess(Loaded(img)) BY <2>0, <2>1, Reloaded, ImageTyped
  <2>3. result.code = "Success" /\ result.impl = Loaded(img) BY <2>2 DEF LoadSuccess
  <2>4. Held(result.impl) = DOMAIN result.impl.entries
    BY <2>2, <2>3, LoadTyped DEF Held, EmptyIsNoObject
  <2> QED BY <2>0, <2>1, <2>3, <2>4, ReadableReloaded DEF Readable
<1> QED BY <1>1, <1>2, FlaggedStep, PTL DEF CSpec

-----------------------------------------------------------------------------
(* What success says *)

\* A constant chosen so that a split of a block is not the damaged payload.
GarbledIsNoSplit == \A payload, trailer, offset : Garbled # <<payload, trailer, offset>>

\* No block of the program's resource is one that cannot be decoded: a buffer is
\* sound, and what is damaged cannot be copied out.
IsSound(r) == r = Null \/ \A s \in DOMAIN r.blocks : r.blocks[s].payload # Garbled

SoundInv == ApiInv /\ IsSound(resource)

\* What can be read is sound.
LEMMA ReadIsSound ==
    ASSUME GarbledIsNoSplit, NEW impl, IsImpl(impl), NEW k \in DOMAIN impl.entries,
           CanReadResource(impl, k)
    PROVE  IsSound(ReadResource(impl, k))
<1> DEFINE e    == impl.entries[k]
           here == MemoryTypes(impl.fmt) \cap DOMAIN e.blocks
           read == ReadResource(impl, k)
<1>1. IsEntry(e) BY ImplFields DEF IsEntries
<1>2. read.blocks = [s \in here |-> ReadBlock(impl, k, s)] BY DEF ReadResource
<1>3. ASSUME NEW s \in here PROVE ReadBlock(impl, k, s).payload # Garbled
  <2>1. e.blocks[s] \in Block /\ e.blocks[s].payload # Garbled
    BY <1>1, <1>3 DEF IsEntry, IsBlockMap, IsMap, CanReadResource, CanReadBlock, Decodable
  <2> DEFINE b == e.blocks[s]
  <2>2. ReadBlock(impl, k, s) \in {b, [b EXCEPT !.payload = SplitPayload(e), !.trailer = <<>>]}
    BY DEF ReadBlock
  <2>3. s = MainMemory => SplitPayload(e) # Garbled
    BY <2>1 DEF SplitPayload, GarbledIsNoSplit
  <2>4. s # MainMemory => ReadBlock(impl, k, s) = b BY DEF ReadBlock
  <2>5. \A p : [b EXCEPT !.payload = p, !.trailer = <<>>].payload = p
    <3> HIDE DEF b
    <3>1. b = [payload |-> b.payload, trailer |-> b.trailer, align |-> b.align]
      BY <2>1 DEF b, Block
    <3> QED BY <3>1
  <2> HIDE DEF b, e
  <2> QED BY <2>1, <2>2, <2>3, <2>4, <2>5 DEF b
<1> HIDE DEF read, here
<1> QED BY <1>2, <1>3 DEF IsSound, read

\* The program's resource stays sound.
LEMMA SoundStep == GarbledIsNoSplit /\ SoundInv /\ [CNext]_cVars => SoundInv'
<1> SUFFICES ASSUME GarbledIsNoSplit, SoundInv, [CNext]_cVars PROVE SoundInv' OBVIOUS
<1>0. ApiInv /\ ApiInv' /\ IsSound(resource) BY ApiStep DEF SoundInv
<1> SUFFICES IsSound(resource') BY <1>0 DEF SoundInv, IsSound
<1>1. CASE UNCHANGED resource BY <1>0, <1>1
<1>2. CASE resource' = Null BY <1>2 DEF IsSound
<1>3. ASSUME NEW type \in ResourceTypes, libtub_resource_create(type) PROVE IsSound(resource')
  <2>1. IsSound([type |-> type, blocks |-> NoEntries, imports |-> <<>>])
    BY DEF IsSound, NoEntries
  <2> QED BY <1>2, <1>3, <2>1 DEF libtub_resource_create, NewResource
<1>4. ASSUME NEW s \in MemoryTypeArgs, NEW buffer \in Buffers,
             libtub_resource_replace_binary(s, buffer)
      PROVE  IsSound(resource')
  <2> DEFINE blocks == Put(resource.blocks, s, buffer)
  <2>1. CASE resource' = resource BY <1>0, <2>1
  <2>2. CASE resource # Null /\ resource' = [resource EXCEPT !.blocks = blocks]
    <3>1. \A t \in DOMAIN blocks : blocks[t].payload # Garbled
      BY <1>0, <2>2, CApiAssumption DEF Put, IsSound
    <3>2. resource'.blocks = blocks
      <4> HIDE DEF blocks
      <4> QED BY <1>0, <2>2 DEF ApiInv, IsHandle
    <3> QED BY <3>1, <3>2 DEF IsSound
  <2> QED BY <1>4, <2>1, <2>2 DEF libtub_resource_replace_binary, NewResource
<1>5. ASSUME NEW id \in ResourceIDs, libtub_resource_add_import(id) PROVE IsSound(resource')
  <2>1. CASE resource' = resource BY <1>0, <2>1
  <2>2. CASE resource # Null /\ resource' = [resource EXCEPT !.imports = Append(@, id)]
    <3>1. resource'.blocks = resource.blocks BY <1>0, <2>2 DEF ApiInv, IsHandle
    <3> QED BY <1>0, <2>2, <3>1 DEF IsSound
  <2> QED BY <1>5, <2>1, <2>2 DEF libtub_resource_add_import, NewResource
<1>6. ASSUME NEW k \in Key, libtub_copy_resource(k) PROVE IsSound(resource')
  <2>1. CASE GetResource(k) = "Success" /\ IsValid /\ resource' = ReadResource(bundle, k)
    <3>1. IsImpl(bundle) /\ k \in DOMAIN bundle.entries /\ CanReadResource(bundle, k)
      BY <1>0, <2>1 DEF ApiInv, TypeOK, IsValid, GetResource, ReadFailure
    <3> QED BY <2>1, <3>1, ReadIsSound
  <2> QED BY <1>2, <1>6, <2>1 DEF libtub_copy_resource
<1>7. ASSUME \/ libtub_create \/ libtub_load \/ libtub_free \/ libtub_save \/ NullHandle
             \/ UNCHANGED cVars
      PROVE  UNCHANGED resource
  BY <1>7 DEF libtub_create, libtub_load, libtub_free, libtub_save, NullHandle, NewHandle, cVars
<1>8. ASSUME NEW k \in Key,
             \/ \E s \in MemoryTypeArgs : libtub_copy_binary(k, s)
             \/ libtub_get_resource_debug_data(k) \/ libtub_get_resource_type(k)
             \/ libtub_add_resource(k) \/ libtub_replace_resource(k)
             \/ \E name \in GivenNames : libtub_add_resource_debug_data(k, name)
      PROVE  UNCHANGED resource
  BY <1>8 DEF libtub_copy_binary, libtub_get_resource_debug_data, libtub_get_resource_type,
      libtub_add_resource, libtub_replace_resource, libtub_add_resource_debug_data
<1>9. libtub_resource_free => resource' = Null BY DEF libtub_resource_free, NewResource
<1> QED BY <1>1, <1>2, <1>3, <1>4, <1>5, <1>6, <1>7, <1>8, <1>9 DEF CNext

\* Only success is reported as success.
LEMMA SuccessIsSuccess == \A code : MapErrorCode(code) = "SUCCESS" => code = "Success"
<1> SUFFICES ASSUME NEW code, MapErrorCode(code) = "SUCCESS" PROVE code = "Success" OBVIOUS
<1>1. \A c \in DOMAIN NamedErrors : NamedErrors[c] = "SUCCESS" => c = "Success" BY DEF NamedErrors
<1> HIDE DEF NamedErrors
<1> QED BY <1>1 DEF MapErrorCode

\* What the bundle takes of the program's resource, as what it holds of it.
LEMMA TakenIsHeld ==
    ASSUME IsResource(resource)
    PROVE  /\ Taken = HeldPart(bundle.fmt, resource.type, resource)
           /\ \A type : [Taken EXCEPT !.type = type] = HeldPart(bundle.fmt, type, resource)
<1> DEFINE blocks  == [s \in MemoryTypes(bundle.fmt) \cap DOMAIN resource.blocks |->
                            resource.blocks[s]]
           imports == IF IsBnd2(bundle.fmt) /\ MainMemory \notin DOMAIN resource.blocks
                      THEN <<>> ELSE resource.imports
           one     == [resource EXCEPT !.blocks = blocks]
<1>1. resource = [type |-> resource.type, blocks |-> resource.blocks,
                  imports |-> resource.imports]
  BY DEF IsResource
<1>2. Taken = [one EXCEPT !.imports = imports]
  <2>1. one.imports = resource.imports BY <1>1
  <2> QED BY <2>1, Zenon DEF Taken
<1> HIDE DEF blocks, imports
<1>3. Taken = [type |-> resource.type, blocks |-> blocks, imports |-> imports]
  BY <1>1, <1>2
<1> HIDE DEF one
<1>4. \A type : [Taken EXCEPT !.type = type] = [type |-> type, blocks |-> blocks, imports |-> imports]
  BY <1>3
<1> QED BY <1>3, <1>4 DEF HeldPart, blocks, imports

\* A resource added is there and is the program's.
LEMMA AddedIsWhole ==
    ASSUME EmptyIsNoObject, SoundInv, NEW k \in Key, libtub_add_resource(k),
           returned' = "SUCCESS"
    PROVE  k \notin Held(bundle) /\ NowHolds(k, Taken)
<1>1. /\ IsImpl(bundle) /\ IsValid /\ Given(resource)
  BY DEF SoundInv, ApiInv, TypeOK, IsValid, IsSound, IsPlain, Given, libtub_add_resource
<1>2. AddResourceCall(k, resource) /\ lastError' = "Success"
  BY SuccessIsSuccess DEF libtub_add_resource, StreamOutOfRange, AddThrows, ReplaceThrows,
      RunsOut, ReturnsLastError
<1>3. PICK stop : /\ bundle' = AddResource(bundle, k, resource, stop).impl
                  /\ AddResource(bundle, k, resource, stop).ok
  BY <1>2 DEF AddResourceCall, Report
<1>4. IsResource(resource) BY <1>1 DEF Given
<1>5. k \notin DOMAIN bundle.entries BY <1>1, <1>3, <1>4, AcceptedEffect
<1>6. bundle'.fmt = bundle.fmt BY <1>1, <1>3, <1>4, AcceptedFields
<1>7. /\ bundle'.entries = Put(bundle.entries, k, bundle'.entries[k])
      /\ CanReadResource(bundle', k)
      /\ ReadResource(bundle', k) = HeldPart(bundle.fmt, resource.type, resource)
  BY <1>1, <1>3, <1>6, AddedIsHeld
<1>8. IsImpl(bundle') BY <1>1, <1>3, <1>4, AddResourceTyped
<1>9. k \in DOMAIN bundle'.entries BY <1>7 DEF Put
<1> QED BY <1>1, <1>4, <1>5, <1>7, <1>8, <1>9, TakenIsHeld
    DEF NowHolds, Readable, Held, IsValid, EmptyIsNoObject

\* So is one put in the place of another, but for the type.
LEMMA ReplacedIsWhole ==
    ASSUME EmptyIsNoObject, SoundInv, NEW k \in Key, libtub_replace_resource(k),
           returned' = "SUCCESS"
    PROVE  NowHolds(k, [Taken EXCEPT !.type = bundle.entries[k].type])
<1>1. /\ IsImpl(bundle) /\ IsValid /\ Given(resource)
  BY DEF SoundInv, ApiInv, TypeOK, IsValid, IsSound, IsPlain, Given, libtub_replace_resource
<1>2. ReplaceResourceCall(k, resource) /\ lastError' = "Success"
  BY SuccessIsSuccess DEF libtub_replace_resource, StreamOutOfRange, ReplaceThrows,
      RunsOut, ReturnsLastError
<1>3. PICK stop : /\ bundle' = ReplaceResource(bundle, k, resource, stop).impl
                  /\ ReplaceResource(bundle, k, resource, stop).ok
  BY <1>2 DEF ReplaceResourceCall, Report
<1>4. IsResource(resource) BY <1>1 DEF Given
<1>5. /\ k \in DOMAIN bundle'.entries /\ CanReadResource(bundle', k)
      /\ ReadResource(bundle', k) = HeldPart(bundle.fmt, bundle.entries[k].type, resource)
  BY <1>1, <1>3, ReplacedIsHeld
<1>6. IsImpl(bundle') BY <1>1, <1>3, <1>4, ReplaceResourceTyped
<1> QED BY <1>4, <1>5, <1>6, TakenIsHeld DEF NowHolds, Readable, Held, EmptyIsNoObject

\* A copy is of what the bundle holds, or nothing.
LEMMA CopiedIsWhole ==
    ASSUME EmptyIsNoObject, SoundInv, NEW k \in Key, libtub_copy_resource(k)
    PROVE  IF returned' = "SUCCESS"
           THEN k \in Readable(bundle) /\ resource' = Contents(bundle)[k]
           ELSE resource' = Null
<1>1. MapErrorCode("Success") = "SUCCESS" BY DEF MapErrorCode, NamedErrors
<1>2. IsImpl(bundle) /\ bundle # NoImpl
  BY DEF SoundInv, ApiInv, TypeOK, IsValid, libtub_copy_resource
<1>3. GetResource(k) = "Success" => k \in Readable(bundle)
  BY <1>2 DEF GetResource, ReadFailure, Readable, Held
<1>4. k \in Readable(bundle) => Contents(bundle)[k] = ReadResource(bundle, k)
  BY DEF Contents, Readable
<1>5. CASE RunsOut /\ resource' = Null BY <1>5 DEF RunsOut
<1>6. CASE /\ lastError' = GetResource(k) /\ ReturnsLastError
           /\ resource' = IF lastError' = "Success" THEN ReadResource(bundle, k) ELSE Null
  BY <1>1, <1>3, <1>4, <1>6, SuccessIsSuccess DEF ReturnsLastError
<1> QED BY <1>5, <1>6 DEF libtub_copy_resource

\* What SuccessIsWhole says of one step.
Whole ==
    \A k \in Key :
        /\ returned' = "SUCCESS" /\ libtub_add_resource(k)
            => k \notin Held(bundle) /\ NowHolds(k, Taken)
        /\ returned' = "SUCCESS" /\ libtub_replace_resource(k)
            => NowHolds(k, [Taken EXCEPT !.type = bundle.entries[k].type])
        /\ libtub_copy_resource(k)
            => IF returned' = "SUCCESS"
               THEN k \in Readable(bundle) /\ resource' = Contents(bundle)[k]
               ELSE resource' = Null

\* In every C program, what a call reports done is done, whatever memory that
\* ran out left before.
THEOREM SuccessesAreWhole ==
    EmptyIsNoObject /\ GarbledIsNoSplit => (CSpec => SuccessIsWhole)
<1> SUFFICES ASSUME EmptyIsNoObject, GarbledIsNoSplit PROVE CSpec => SuccessIsWhole OBVIOUS
<1>1. CInit => SoundInv BY ApiInit DEF CInit, SoundInv, IsSound
<1>2. SoundInv /\ [CNext]_cVars => SoundInv' BY SoundStep
<1>3. SoundInv => [Whole]_cVars
  BY AddedIsWhole, ReplacedIsWhole, CopiedIsWhole DEF Whole
<1> QED BY <1>1, <1>2, <1>3, PTL DEF CSpec, SuccessIsWhole, Whole
=============================================================================
