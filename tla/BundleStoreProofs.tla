--------------------------- MODULE BundleStoreProofs ---------------------------
(***************************************************************************)
(* Theorems about a Bundle and its file, for every format, every choice of *)
(* resources and, unless stated otherwise, every file another tool wrote.  *)
(***************************************************************************)
EXTENDS BundleProperties, ImageProofs

-----------------------------------------------------------------------------
(* Types, and streams *)

\* An object as the calls leave it: TypeOK and StreamNeedsFlag of one object.
NeedsFlag(impl) ==
    \A k \in DOMAIN impl.entries : k[2] # 0 => "MultistreamBundle" \in impl.flags

Good(impl) == impl = NoImpl \/ (IsImpl(impl) /\ NeedsFlag(impl))

Inv ==
    /\ Good(bundle)
    /\ lastError \in ErrorCodes
    /\ file \in NoBundle \/ IsImage(file)
    /\ torn \subseteq Key /\ savedTorn \subseteq Key

\* The inductive invariant gives the two that the runs check.
LEMMA InvImplies == Inv => TypeOK /\ StreamNeedsFlag
    BY DEF Inv, TypeOK, StreamNeedsFlag, Good, NeedsFlag, IsValid

\* The calls that change an object keep it good.
LEMMA AddResourceGood ==
    ASSUME NEW impl, IsImpl(impl), NeedsFlag(impl), NEW k \in Key, NEW r, IsResource(r),
           NEW stop
    PROVE  /\ IsImpl(AddResource(impl, k, r, stop).impl)
           /\ NeedsFlag(AddResource(impl, k, r, stop).impl)
<1> DEFINE result == AddResource(impl, k, r, stop)
<1>1. IsImpl(result.impl) BY AddResourceTyped
<1>2. CASE result = [impl |-> impl, ok |-> FALSE] BY <1>2, <1>1
<1>3. CASE ~(result = [impl |-> impl, ok |-> FALSE])
  <2>1. PICK staged, imports :
            /\ IsImportLists(imports)
            /\ result.impl =
                [fmt |-> impl.fmt, flags |-> FlagsWith(impl, k),
                 entries |-> Put(impl.entries, k,
                    ReplacedEntry(staged, FreshEntry(r.type), r, Finished)),
                 imports |-> imports, debug |-> impl.debug,
                 default |-> impl.default, names |-> impl.names]
    BY <1>3, AddResourceEffect
  <2>2. /\ DOMAIN result.impl.entries = DOMAIN impl.entries \cup {k}
        /\ result.impl.flags = FlagsWith(impl, k)
    <3>1. \A v : DOMAIN Put(impl.entries, k, v) = DOMAIN impl.entries \cup {k} BY DEF Put
    <3> HIDE DEF result
    <3> QED BY <2>1, <3>1
  <2>3. \A q \in DOMAIN impl.entries \cup {k} :
            q[2] # 0 => "MultistreamBundle" \in FlagsWith(impl, k)
    BY DEF NeedsFlag, FlagsWith
  <2>4. NeedsFlag(result.impl)
    <3> HIDE DEF result
    <3> QED BY <2>2, <2>3 DEF NeedsFlag
  <2> QED BY <1>1, <2>4
<1> QED BY <1>2, <1>3

LEMMA ReplaceResourceGood ==
    ASSUME NEW impl, IsImpl(impl), NeedsFlag(impl), NEW k \in Key, NEW r, IsResource(r),
           NEW stop
    PROVE  /\ IsImpl(ReplaceResource(impl, k, r, stop).impl)
           /\ NeedsFlag(ReplaceResource(impl, k, r, stop).impl)
<1> DEFINE result == ReplaceResource(impl, k, r, stop)
<1>1. IsImpl(result.impl) BY ReplaceResourceTyped
<1>2. CASE result = [impl |-> impl, ok |-> FALSE] BY <1>2, <1>1
<1>3. CASE ~(result = [impl |-> impl, ok |-> FALSE])
  <2>1. k \in DOMAIN impl.entries BY <1>3, ReplaceResourceEffect
  <2>2. PICK imports :
            /\ IsImportLists(imports)
            /\ result.impl = [fmt |-> impl.fmt, flags |-> impl.flags,
                              entries |-> Put(impl.entries, k,
                                    ReplacedEntry(impl, impl.entries[k], r, stop)),
                              imports |-> imports, debug |-> impl.debug,
                              default |-> impl.default, names |-> impl.names]
    BY <1>3, ReplaceResourceEffect
  <2>3. /\ DOMAIN result.impl.entries = DOMAIN impl.entries
        /\ result.impl.flags = impl.flags
    <3>1. \A v : DOMAIN Put(impl.entries, k, v) = DOMAIN impl.entries \cup {k} BY DEF Put
    <3> HIDE DEF result
    <3> QED BY <2>1, <2>2, <3>1
  <2>4. NeedsFlag(result.impl)
    <3> HIDE DEF result
    <3> QED BY <2>3 DEF NeedsFlag
  <2> QED BY <1>1, <2>4
<1> QED BY <1>2, <1>3

\* So do debug data, the default resource and stream names.
LEMMA MetadataGood ==
    ASSUME NEW impl, IsImpl(impl), NeedsFlag(impl)
    PROVE  /\ \A k \in Key, name \in DebugNames :
                 NeedsFlag(AddResourceDebugData(impl, k, name).impl)
           /\ \A k : NeedsFlag(SetDefaultResource(impl, k).impl)
           /\ \A i, name : NeedsFlag(SetStreamName(impl, i, name).impl)
<1>1. ASSUME NEW k \in Key, NEW name \in DebugNames
      PROVE  NeedsFlag(AddResourceDebugData(impl, k, name).impl)
  <2> DEFINE debug == Put(impl.debug, k, name)
  <2>1. NeedsFlag([impl EXCEPT !.debug = debug])
    <3> HIDE DEF debug
    <3> QED BY DEF NeedsFlag, IsImpl
  <2> QED BY <2>1 DEF AddResourceDebugData
<1>2. ASSUME NEW k PROVE NeedsFlag(SetDefaultResource(impl, k).impl)
  <2> DEFINE result == SetDefaultResource(impl, k)
  <2>1. CASE result = [impl |-> impl, ok |-> FALSE] BY <2>1
  <2>2. CASE ~(result = [impl |-> impl, ok |-> FALSE])
    <3>1. result.impl = [fmt |-> impl.fmt,
                         flags |-> impl.flags \cup {"ContainsDefaultResource"},
                         entries |-> impl.entries, imports |-> impl.imports,
                         debug |-> impl.debug, default |-> k, names |-> impl.names]
      BY <2>2, SetDefaultResourceEffect
    <3> QED BY <3>1 DEF NeedsFlag
  <2> QED BY <2>1, <2>2
<1>3. ASSUME NEW i, NEW name PROVE NeedsFlag(SetStreamName(impl, i, name).impl)
  <2> DEFINE names == [impl.names EXCEPT ![i] = name]
  <2>1. NeedsFlag([impl EXCEPT !.names = names])
    <3> HIDE DEF names
    <3> QED BY DEF NeedsFlag, IsImpl
  <2> QED BY <2>1 DEF SetStreamName
<1> QED BY <1>1, <1>2, <1>3

\* What Save leaves in memory is good, even when the writer throws.
LEMMA SaveGood ==
    ASSUME NEW impl, IsImpl(impl), NeedsFlag(impl)
    PROVE  /\ IsImpl(AfterSave(impl)) /\ NeedsFlag(AfterSave(impl))
           /\ \A i \in AfterThrow(impl) : IsImpl(i) /\ NeedsFlag(i)
<1>1. NeedsFlag(WithoutStringTable(impl))
  <2> DEFINE entries == Drop(impl.entries, StringTableKey)
  <2>1. DOMAIN entries \subseteq DOMAIN impl.entries BY DEF Drop
  <2> HIDE DEF entries
  <2>2. /\ [impl EXCEPT !.entries = entries].entries = entries
        /\ [impl EXCEPT !.entries = entries].flags = impl.flags
    BY DEF IsImpl
  <2>3. NeedsFlag([impl EXCEPT !.entries = entries]) BY <2>1, <2>2 DEF NeedsFlag
  <2> QED BY <2>3 DEF WithoutStringTable, entries
<1>2. ASSUME NEW blocks PROVE NeedsFlag(WithBorrowed(impl, blocks))
  <2> DEFINE with == WithBorrowed(impl, blocks)
  <2>1. with.flags = impl.flags /\ DOMAIN with.entries = DOMAIN impl.entries \cup {StringTableKey}
    BY DEF WithBorrowed, IsImpl, Put
  <2>2. StringTableKey[2] = 0 BY DEF StringTableKey
  <2> HIDE DEF with
  <2>3. NeedsFlag(with) BY <2>1, <2>2 DEF NeedsFlag
  <2> QED BY <2>3 DEF with
<1> QED BY <1>1, <1>2, AfterSaveTyped DEF AfterSave, AfterThrow, WithStringTable

\* A new bundle is good.
LEMMA InitInv == Init => Inv
<1> SUFFICES ASSUME Init PROVE Inv OBVIOUS
<1>1. IsImpl(NewImpl(Fmt, InitialFlags)) BY NewImplTyped, StoreAssumption
<1>2. NeedsFlag(NewImpl(Fmt, InitialFlags)) BY DEF NeedsFlag, NewImpl, NoEntries
<1>3. Good(bundle) BY <1>1, <1>2 DEF Init, Good
<1>4. file \in NoBundle \/ IsImage(file) BY StoreAssumption DEF Init, NoBundle
<1> QED BY <1>3, <1>4 DEF Init, Inv, ErrorCodes

\* A failed or successful report of a good result.
LEMMA ReportInv ==
    ASSUME Inv, NEW result, IsImpl(result.impl), NeedsFlag(result.impl),
           NEW code \in ErrorCodes, Report(result, code)
    PROVE  Good(bundle') /\ lastError' \in ErrorCodes
    BY DEF Report, Good, ErrorCodes

\* Every call, one that fails included, keeps the bundle and the file typed
\* and the flag with the streams.
LEMMA StepInv == Inv /\ [Next]_vars => Inv'
<1> SUFFICES ASSUME Inv, [Next]_vars PROVE Inv' OBVIOUS
<1> USE DEF vars, history
<1>0. /\ IsValid => IsImpl(bundle) /\ NeedsFlag(bundle)
      /\ \A r \in Resources : IsResource(r)
      /\ {"Success", "InvalidState", "InvalidArgument", "ValidationFailed",
          "ResourceNotFound", "DebugDataNotFound", "DecompressionFailed", "OutOfRange",
          "GenericFailure", "IoError", "InvalidPath", "InvalidBundle",
          "UnsupportedFormat", "UnsupportedVersion", "UnsupportedPlatform",
          "UnsupportedFlags"} \subseteq ErrorCodes
  BY StoreAssumption DEF Inv, Good, IsValid, ErrorCodes
<1>1. ASSUME NEW k \in Key, NEW r \in Resources, AddResourceCall(k, r) PROVE Inv'
  <2>1. PICK stop \in StopSlots(bundle, r) :
            Report(AddResource(bundle, k, r, stop), "ValidationFailed")
    BY <1>1 DEF AddResourceCall
  <2>2. Good(bundle') /\ lastError' \in ErrorCodes
    BY <1>0, <1>1, <2>1, AddResourceGood, ReportInv DEF AddResourceCall
  <2> QED BY <1>1, <2>2 DEF AddResourceCall, Inv
<1>2. ASSUME NEW k \in Key, NEW r \in Resources, ReplaceResourceCall(k, r) PROVE Inv'
  <2>1. PICK stop \in StopSlots(bundle, r) :
            /\ Report(ReplaceResource(bundle, k, r, stop), "ResourceNotFound")
            /\ torn' \in {torn \ {k}, torn \cup {k}, torn}
    BY <1>2 DEF ReplaceResourceCall
  <2>2. Good(bundle') /\ lastError' \in ErrorCodes
    BY <1>0, <1>2, <2>1, ReplaceResourceGood, ReportInv DEF ReplaceResourceCall
  <2> QED BY <1>2, <2>1, <2>2 DEF ReplaceResourceCall, Inv
<1>3. ASSUME NEW k \in Key, NEW name \in GivenNames, AddResourceDebugDataCall(k, name)
      PROVE  Inv'
  <2>1. name \in DebugNames BY StoreAssumption
  <2>2. Good(bundle') /\ lastError' \in ErrorCodes
    BY <1>0, <1>3, <2>1, AddResourceDebugDataTyped, MetadataGood, ReportInv
    DEF AddResourceDebugDataCall
  <2> QED BY <1>3, <2>2 DEF AddResourceDebugDataCall, Inv
<1>4. ASSUME NEW id \in ResourceIDs, NEW stream \in StreamArguments,
             SetDefaultResourceCall(id, stream)
      PROVE  Inv'
  <2>1. CASE stream \notin 0..255
    <3> DEFINE refused == [impl |-> bundle, ok |-> FALSE]
    <3>1. Report(refused, "InvalidArgument") /\ refused.impl = bundle
      BY <1>4, <2>1 DEF SetDefaultResourceCall
    <3> HIDE DEF refused
    <3>2. Good(bundle') /\ lastError' \in ErrorCodes
      BY <1>0, <1>4, <3>1, ReportInv DEF SetDefaultResourceCall
    <3> QED BY <1>4, <3>2 DEF SetDefaultResourceCall, Inv
  <2>2. CASE stream \in 0..255
    <3>1. Good(bundle') /\ lastError' \in ErrorCodes
      BY <1>0, <1>4, <2>2, SetDefaultResourceTyped, MetadataGood, ReportInv
      DEF SetDefaultResourceCall
    <3> QED BY <1>4, <3>1 DEF SetDefaultResourceCall, Inv
  <2> QED BY <2>1, <2>2
<1>5. ASSUME NEW i \in StreamIndices, NEW name \in GivenStreamNames, SetStreamNameCall(i, name)
      PROVE  Inv'
  <2>1. name \in StreamNames BY StoreAssumption
  <2>2. Good(bundle') /\ lastError' \in ErrorCodes
    BY <1>0, <1>5, <2>1, SetStreamNameTyped, MetadataGood, ReportInv DEF SetStreamNameCall
  <2> QED BY <1>5, <2>2 DEF SetStreamNameCall, Inv
<1>6. CASE MoveOut BY <1>6 DEF MoveOut, Inv, Good
<1>7. CASE Read
  <2>1. \A k : ReadFailure(k) \in ErrorCodes BY <1>0 DEF ReadFailure
  <2>2. \A k : /\ GetResource(k) \in ErrorCodes /\ GetResourceDebugData(k) \in ErrorCodes
               /\ GetResourceType(k) \in ErrorCodes
    BY <1>0, <2>1 DEF GetResource, GetResourceDebugData, GetResourceType
  <2>3. \A k, s : GetBinary(k, s) \in ErrorCodes BY <1>0, <2>1 DEF GetBinary
  <2>4. DescribeResources \in ErrorCodes BY <1>0 DEF DescribeResources
  <2> DEFINE reads(k) == {GetResource(k), GetResourceDebugData(k), GetResourceType(k)}
                            \cup {GetBinary(k, s) : s \in Slots}
  <2>5. \A k : reads(k) \subseteq ErrorCodes BY <2>2, <2>3
  <2> DEFINE all == {reads(k) : k \in Key}
  <2>6. ReadResults = {DescribeResources} \cup UNION all BY Zenon DEF ReadResults
  <2>7. \A S \in all : S \subseteq ErrorCodes
    <3> HIDE DEF reads
    <3> QED BY <2>5
  <2>8. ReadResults \subseteq ErrorCodes
    <3> HIDE DEF all
    <3> QED BY <2>4, <2>6, <2>7
  <2> QED BY <1>7, <2>8 DEF Read, Inv, Good
<1>8. CASE CallOnEmpty BY <1>0, <1>8 DEF CallOnEmpty, Inv, Good
<1>9. CASE SaveRejected
  <2>1. SaveVerdict(bundle.fmt, bundle.flags) \in ErrorCodes BY <1>0 DEF SaveVerdict
  <2> QED BY <1>9, <2>1 DEF SaveRejected, Inv, Good
<1>10. CASE SaveThrows
  <2>1. Good(bundle') /\ lastError' \in ErrorCodes
    BY <1>0, <1>10, SaveGood DEF SaveThrows, Good
  <2> QED BY <1>10, <2>1 DEF SaveThrows, Inv
<1>11. CASE SaveToPath
  <2>1. Good(bundle') /\ lastError' \in ErrorCodes
    BY <1>0, <1>11, SaveGood DEF SaveToPath, Good
  <2>2. file' \in NoBundle \/ IsImage(file')
    BY <1>0, <1>11, ImageTyped DEF SaveToPath, Inv, CutImages, NoBundle
  <2> QED BY <1>11, <2>1, <2>2 DEF SaveToPath, Inv
<1>12. CASE SaveToMemory
  <2>1. Good(bundle') /\ lastError' \in ErrorCodes
    BY <1>0, <1>12, SaveGood DEF SaveToMemory, Good
  <2> QED BY <1>12, <2>1 DEF SaveToMemory, Inv
<1>13. CASE LoadFromPath
  <2>1. CASE /\ lastError' \in ReadErrors
             /\ UNCHANGED <<bundle, file, history>>
    <3>1. lastError' \in ErrorCodes BY <1>0, <2>1 DEF ReadErrors
    <3> QED BY <2>1, <3>1 DEF Inv, Good
  <2>2. CASE /\ file \notin NoBundle
             /\ \E result \in Loads(file) :
                  /\ lastError' = result.code
                  /\ bundle' = IF result.code = "Success" THEN result.impl ELSE bundle
                  /\ torn' = IF result.code = "Success" THEN savedTorn ELSE torn
             /\ UNCHANGED <<file, savedTorn>>
    <3>1. IsImage(file) BY <2>2 DEF Inv
    <3>2. PICK result \in Loads(file) :
            /\ lastError' = result.code
            /\ bundle' = IF result.code = "Success" THEN result.impl ELSE bundle
            /\ torn' = IF result.code = "Success" THEN savedTorn ELSE torn
      BY <2>2
    <3>3. /\ result.code \in ErrorCodes
          /\ result.code = "Success" => IsImpl(result.impl) /\ NeedsFlag(result.impl)
      BY <1>0, <3>1, LoadTyped DEF NeedsFlag
    <3> QED BY <2>2, <3>2, <3>3 DEF Inv, Good
  <2> QED BY <1>13, <2>1, <2>2 DEF LoadFromPath
<1>14. CASE UNCHANGED vars BY <1>14 DEF Inv, Good
<1> QED BY <1>1, <1>2, <1>3, <1>4, <1>5, <1>6, <1>7, <1>8, <1>9, <1>10, <1>11, <1>12, <1>13,
           <1>14 DEF Next

\* Every state the calls reach is typed.
THEOREM TypesHold == Spec => []TypeOK
<1>1. Inv => TypeOK BY InvImplies
<1> QED BY <1>1, InitInv, StepInv, PTL DEF Spec

\* No sequence of calls, saves and loads, of any file, leaves a resource in a
\* stream other than 0 without the multistream flag.
THEOREM StreamsAreFlagged == Spec => []StreamNeedsFlag
<1>1. Inv => StreamNeedsFlag BY InvImplies
<1> QED BY <1>1, InitInv, StepInv, PTL DEF Spec

-----------------------------------------------------------------------------
(* Failed calls *)

\* A failed ReplaceResource changes one entry, and not its type.
LEMMA StoppedReplacement ==
    ASSUME NEW impl, IsImpl(impl), NEW k \in Key, NEW r, IsResource(r), NEW stop,
           LET result == ReplaceResource(impl, k, r, stop)
           IN  ~result.ok /\ result.impl # impl
    PROVE  LET other == ReplaceResource(impl, k, r, stop).impl
           IN  /\ other = [impl EXCEPT !.entries = other.entries]
               /\ Drop(other.entries, k) = Drop(impl.entries, k)
               /\ k \in DOMAIN impl.entries \cap DOMAIN other.entries
               /\ other.entries[k].type = impl.entries[k].type
<1> DEFINE result == ReplaceResource(impl, k, r, stop)
           other  == result.impl
           new    == ReplacedEntry(impl, impl.entries[k], r, stop)
<1>1. ~(result = [impl |-> impl, ok |-> FALSE]) OBVIOUS
<1>2. k \in DOMAIN impl.entries BY <1>1, ReplaceResourceEffect
<1>3. other = [fmt |-> impl.fmt, flags |-> impl.flags, entries |-> Put(impl.entries, k, new),
               imports |-> impl.imports, debug |-> impl.debug,
               default |-> impl.default, names |-> impl.names]
  <2>1. \/ result = [impl |-> impl, ok |-> FALSE]
        \/ /\ k \in DOMAIN impl.entries /\ k[2] < StreamLimit
           /\ result.ok <=> stop = Finished
           /\ \E imports :
                 /\ IsImportLists(imports)
                 /\ ~result.ok => imports = impl.imports
                 /\ result.impl = [fmt |-> impl.fmt, flags |-> impl.flags,
                                   entries |-> Put(impl.entries, k,
                                         ReplacedEntry(impl, impl.entries[k], r, stop)),
                                   imports |-> imports, debug |-> impl.debug,
                                   default |-> impl.default, names |-> impl.names]
    BY ReplaceResourceEffect
  <2>2. \E imports :
              /\ ~result.ok => imports = impl.imports
              /\ result.impl = [fmt |-> impl.fmt, flags |-> impl.flags,
                                entries |-> Put(impl.entries, k,
                                      ReplacedEntry(impl, impl.entries[k], r, stop)),
                                imports |-> imports, debug |-> impl.debug,
                                default |-> impl.default, names |-> impl.names]
    BY <1>1, <2>1, Zenon
  <2> QED BY <2>2, Zenon
<1>4. /\ other.entries = Put(impl.entries, k, new)
      /\ other = [impl EXCEPT !.entries = other.entries]
  <2> HIDE DEF other, result, new
  <2> QED BY <1>3 DEF IsImpl
<1>5. /\ Drop(Put(impl.entries, k, new), k) = Drop(impl.entries, k)
      /\ k \in DOMAIN Put(impl.entries, k, new) /\ Put(impl.entries, k, new)[k] = new
  BY DEF Drop, Put
<1>6. new.type = impl.entries[k].type BY DEF ReplacedEntry
<1>7. /\ other = [impl EXCEPT !.entries = other.entries]
      /\ Drop(other.entries, k) = Drop(impl.entries, k)
      /\ k \in DOMAIN impl.entries \cap DOMAIN other.entries
      /\ other.entries[k].type = impl.entries[k].type
  <2> HIDE DEF other, new
  <2> QED BY <1>2, <1>4, <1>5, <1>6
<1> QED BY <1>7

\* Save borrows, and gives back, no entry but the string table's.
LEMMA SaveKeepsOtherEntries ==
    ASSUME NEW impl, IsImpl(impl), NEW other \in {AfterSave(impl)} \cup AfterThrow(impl)
    PROVE  \/ other = impl
           \/ /\ ~IsBnd2(impl.fmt)
              /\ Drop(other.entries, StringTableKey) = Drop(impl.entries, StringTableKey)
              /\ other = [impl EXCEPT !.entries = other.entries]
<1>1. ASSUME NEW entries,
             Drop(entries, StringTableKey) = Drop(impl.entries, StringTableKey),
             other = [impl EXCEPT !.entries = entries]
      PROVE  /\ Drop(other.entries, StringTableKey) = Drop(impl.entries, StringTableKey)
             /\ other = [impl EXCEPT !.entries = other.entries]
  <2>1. other.entries = entries BY <1>1 DEF IsImpl
  <2> QED BY <1>1, <2>1
<1>2. \A v : Drop(Put(impl.entries, StringTableKey, v), StringTableKey)
                = Drop(impl.entries, StringTableKey)
  BY DEF Drop, Put
<1>3. Drop(Drop(impl.entries, StringTableKey), StringTableKey)
        = Drop(impl.entries, StringTableKey)
  BY DEF Drop
<1>4. CASE BorrowsStringTableKey(impl) /\ other = WithoutStringTable(impl)
  BY <1>1, <1>3, <1>4 DEF WithoutStringTable, BorrowsStringTableKey
<1>5. ASSUME BorrowsStringTableKey(impl), NEW blocks, other = WithBorrowed(impl, blocks)
      PROVE  /\ ~IsBnd2(impl.fmt)
             /\ Drop(other.entries, StringTableKey) = Drop(impl.entries, StringTableKey)
             /\ other = [impl EXCEPT !.entries = other.entries]
  <2>1. other = [impl EXCEPT !.entries =
                    Put(impl.entries, StringTableKey, BorrowedEntry(blocks))]
    BY <1>5 DEF WithBorrowed
  <2> QED BY <1>1, <1>2, <1>5, <2>1 DEF BorrowsStringTableKey
<1> QED BY <1>4, <1>5 DEF AfterSave, AfterThrow, WithStringTable

\* A call that reports an error changes at most one entry: the one a replacement
\* was stopped at, or the one BNDL's Save borrows.
THEOREM FailuresKeepBundle == Spec => FailedCallKeepsBundle
<1> DEFINE Allowed == lastError' # "Success" /\ bundle' # NoImpl =>
                        \/ bundle' = bundle
                        \/ \E k \in torn' : OnlyEntryChanges(k) /\ KeepsType(k)
                        \/ OnlyEntryChanges(StringTableKey) /\ ~IsBnd2(bundle.fmt)
<1>1. ASSUME Inv, [Next]_vars PROVE [Allowed]_vars
  <2> SUFFICES ASSUME Next, lastError' # "Success", bundle' # NoImpl, bundle' # bundle
               PROVE  \/ \E k \in torn' : OnlyEntryChanges(k) /\ KeepsType(k)
                      \/ OnlyEntryChanges(StringTableKey) /\ ~IsBnd2(bundle.fmt)
    BY <1>1
  <2> USE DEF vars, history
  <2>0. /\ IsValid => IsImpl(bundle)
        /\ \A r \in Resources : IsResource(r)
    BY <1>1, StoreAssumption DEF Inv, Good, IsValid
  <2>1. ASSUME NEW k \in Key, NEW r \in Resources, AddResourceCall(k, r) PROVE FALSE
    <3>1. PICK stop \in StopSlots(bundle, r) :
            Report(AddResource(bundle, k, r, stop), "ValidationFailed")
      BY <2>1 DEF AddResourceCall
    <3> DEFINE result == AddResource(bundle, k, r, stop)
    <3>2. ~result.ok /\ result.impl # bundle BY <3>1 DEF Report
    <3>3. IsValid BY <2>1 DEF AddResourceCall
    <3>4. result = [impl |-> bundle, ok |-> FALSE] \/ result.ok
      BY <2>0, <3>3, AddResourceEffect
    <3> HIDE DEF result
    <3> QED BY <3>2, <3>4
  <2>2. ASSUME NEW k \in Key, NEW r \in Resources, ReplaceResourceCall(k, r)
        PROVE  k \in torn' /\ OnlyEntryChanges(k) /\ KeepsType(k)
    <3>1. PICK stop \in StopSlots(bundle, r) :
            LET result == ReplaceResource(bundle, k, r, stop)
            IN  /\ Report(result, "ResourceNotFound")
                /\ torn' = IF result.ok THEN torn \ {k}
                           ELSE IF result.impl # bundle THEN torn \cup {k} ELSE torn
      BY <2>2 DEF ReplaceResourceCall
    <3> DEFINE result == ReplaceResource(bundle, k, r, stop)
    <3>2. /\ ~result.ok /\ result.impl # bundle /\ bundle' = result.impl
          /\ torn' = torn \cup {k}
      BY <3>1 DEF Report
    <3>3. IsValid BY <2>2 DEF ReplaceResourceCall
    <3>4. /\ result.impl = [bundle EXCEPT !.entries = result.impl.entries]
          /\ Drop(result.impl.entries, k) = Drop(bundle.entries, k)
          /\ k \in DOMAIN bundle.entries \cap DOMAIN result.impl.entries
          /\ result.impl.entries[k].type = bundle.entries[k].type
      BY <2>0, <3>2, <3>3, StoppedReplacement
    <3> HIDE DEF result
    <3> QED BY <3>2, <3>3, <3>4 DEF OnlyEntryChanges, KeepsType
  <2>3. ASSUME NEW k \in Key, NEW name \in GivenNames, AddResourceDebugDataCall(k, name)
        PROVE  FALSE
    BY <2>3 DEF AddResourceDebugDataCall, Report, AddResourceDebugData
  <2>4. ASSUME NEW id \in ResourceIDs, NEW stream \in StreamArguments,
               SetDefaultResourceCall(id, stream)
        PROVE  FALSE
    <3> DEFINE result == SetDefaultResource(bundle, <<id, stream>>)
    <3>1. result.ok \/ result.impl = bundle BY DEF SetDefaultResource
    <3> HIDE DEF result
    <3> QED BY <2>4, <3>1 DEF SetDefaultResourceCall, Report, result
  <2>5. ASSUME NEW i \in StreamIndices, NEW name \in GivenStreamNames,
               SetStreamNameCall(i, name)
        PROVE  FALSE
    <3> DEFINE result == SetStreamName(bundle, i, name)
    <3>1. result.ok \/ result.impl = bundle BY DEF SetStreamName
    <3> HIDE DEF result
    <3> QED BY <2>5, <3>1 DEF SetStreamNameCall, Report, result
  <2>6. ASSUME IsValid, bundle' \in {AfterSave(bundle)} \cup AfterThrow(bundle)
        PROVE  OnlyEntryChanges(StringTableKey) /\ ~IsBnd2(bundle.fmt)
    BY <2>0, <2>6, SaveKeepsOtherEntries DEF OnlyEntryChanges
  <2>7. CASE SaveThrows BY <2>6, <2>7 DEF SaveThrows
  <2>8. CASE SaveToPath BY <2>6, <2>8 DEF SaveToPath
  <2>9. CASE SaveToMemory BY <2>9 DEF SaveToMemory
  <2>10. CASE MoveOut \/ Read \/ CallOnEmpty \/ SaveRejected
    BY <2>10 DEF MoveOut, Read, CallOnEmpty, SaveRejected
  <2>11. CASE LoadFromPath BY <2>11 DEF LoadFromPath
  <2> QED BY <2>1, <2>2, <2>3, <2>4, <2>5, <2>7, <2>8, <2>9, <2>10, <2>11 DEF Next
<1> QED BY <1>1, InitInv, StepInv, PTL DEF Spec, FailedCallKeepsBundle

-----------------------------------------------------------------------------
(* Which calls make a resource readable, and which keep it so, whatever      *)
(* damaged files the bundle was loaded from.                                 *)

\* What is read under a key rests on its entry and, in BNDL, on its id's list.
LEMMA SameResource ==
    ASSUME NEW a, a # NoImpl, NEW b, b # NoImpl, NEW q \in Held(a) \cap Held(b),
           b.fmt = a.fmt, b.entries[q] = a.entries[q],
           \/ IsBnd2(a.fmt)
           \/ /\ q[1] \in DOMAIN a.imports <=> q[1] \in DOMAIN b.imports
              /\ q[1] \in DOMAIN a.imports => b.imports[q[1]] = a.imports[q[1]]
    PROVE  Contents(b)[q] = Contents(a)[q]
<1>1. \A s : /\ CanReadBlock(b, q, s) <=> CanReadBlock(a, q, s)
             /\ ReadBlock(b, q, s) = ReadBlock(a, q, s)
  BY DEF CanReadBlock, ReadBlock
<1>2. ReadImports(b, q) = ReadImports(a, q) BY DEF ReadImports
<1>3. CanReadResource(b, q) <=> CanReadResource(a, q) BY <1>1 DEF CanReadResource
<1>4. ReadResource(b, q) = ReadResource(a, q) BY <1>1, <1>2 DEF ReadResource
<1>5. q \in Readable(b) <=> q \in Readable(a) BY <1>3 DEF Readable
<1> QED BY <1>4, <1>5 DEF Contents

\* An object with the same format and, but for some keys, the same entries keeps
\* those resources readable.
LEMMA SharedReadable ==
    ASSUME NEW impl, NEW other, NEW S, other # NoImpl, other.fmt = impl.fmt,
           \A k \in DOMAIN impl.entries \ S :
                k \in DOMAIN other.entries /\ other.entries[k] = impl.entries[k]
    PROVE  \A k \in Readable(impl) \ S : k \in Readable(other)
<1> SUFFICES ASSUME NEW k \in Readable(impl), k \notin S PROVE k \in Readable(other)
  OBVIOUS
<1>1. k \in DOMAIN impl.entries /\ CanReadResource(impl, k) BY DEF Readable, Held
<1>2. k \in DOMAIN other.entries /\ other.entries[k] = impl.entries[k] BY <1>1
<1>3. CanReadResource(other, k) BY <1>1, <1>2, ReadableEntries
<1> QED BY <1>2, <1>3 DEF Readable, Held

\* AddResource leaves the entries that were there alone.
LEMMA AddResourceShares ==
    ASSUME NEW impl, IsImpl(impl), NEW k \in Key, NEW r, IsResource(r), NEW stop,
           NEW other, other = AddResource(impl, k, r, stop).impl
    PROVE  /\ other.fmt = impl.fmt
           /\ \A q \in DOMAIN impl.entries :
                q \in DOMAIN other.entries /\ other.entries[q] = impl.entries[q]
<1> DEFINE result == AddResource(impl, k, r, stop)
<1>1. CASE result = [impl |-> impl, ok |-> FALSE]
  <2>1. other = impl BY <1>1
  <2> QED BY <2>1
<1>2. CASE ~(result = [impl |-> impl, ok |-> FALSE])
  <2>1. PICK staged, imports :
            /\ staged.fmt = impl.fmt /\ IsImportLists(imports)
            /\ result.impl =
                [fmt |-> impl.fmt, flags |-> FlagsWith(impl, k),
                 entries |-> Put(impl.entries, k,
                    ReplacedEntry(staged, FreshEntry(r.type), r, Finished)),
                 imports |-> imports, debug |-> impl.debug,
                 default |-> impl.default, names |-> impl.names]
    BY <1>2, AddResourceEffect
  <2> DEFINE e == ReplacedEntry(staged, FreshEntry(r.type), r, Finished)
  <2>2. k \notin DOMAIN impl.entries
    <3>1. result.ok /\ k \notin DOMAIN impl.entries BY <1>2, AddResourceEffect
    <3> QED BY <3>1
  <2>3. other.fmt = impl.fmt /\ other.entries = Put(impl.entries, k, e)
    <3>1. other = result.impl OBVIOUS
    <3> HIDE DEF result, e
    <3> QED BY <2>1, <3>1 DEF e
  <2>4. \A q \in DOMAIN impl.entries :
            /\ q \in DOMAIN Put(impl.entries, k, e)
            /\ Put(impl.entries, k, e)[q] = impl.entries[q]
    <3> HIDE DEF e
    <3> QED BY <2>2 DEF Put
  <2> HIDE DEF e
  <2> QED BY <2>3, <2>4
<1> QED BY <1>1, <1>2

-----------------------------------------------------------------------------
(* The theorems *)

\* An object is not the empty one.
EmptyIsNoObject == \A impl : IsImpl(impl) => impl # NoImpl

\* An application's buffers are not damaged and carry no trailer.
LEMMA GivenResources == \A r \in Resources : Given(r)
    BY StoreAssumption DEF Given

\* A replacement that succeeds repairs a resource, whatever was wrong with it.
THEOREM ReplacementRepairs == EmptyIsNoObject => (Spec => ReplacingRepairs)
<1> DEFINE Repairs == \A k \in Key, r \in Resources :
                        ReplaceResourceCall(k, r) /\ lastError' = "Success" => k \in Readable(bundle')
<1> SUFFICES ASSUME EmptyIsNoObject PROVE Spec => ReplacingRepairs OBVIOUS
<1>1. ASSUME Inv PROVE Repairs
  <2> SUFFICES ASSUME NEW k \in Key, NEW r \in Resources, ReplaceResourceCall(k, r),
                      lastError' = "Success"
               PROVE  k \in Readable(bundle')
    OBVIOUS
  <2>1. IsImpl(bundle) BY <1>1 DEF ReplaceResourceCall, Inv, Good, IsValid
  <2>2. PICK stop \in StopSlots(bundle, r) :
            Report(ReplaceResource(bundle, k, r, stop), "ResourceNotFound")
    BY DEF ReplaceResourceCall
  <2> DEFINE result == ReplaceResource(bundle, k, r, stop)
  <2>3. result.ok /\ bundle' = result.impl BY <2>2 DEF Report
  <2>4. k \in DOMAIN bundle'.entries /\ CanReadResource(bundle', k)
    BY <2>1, <2>3, GivenResources, ReplacedReadable
  <2>5. IsImpl(bundle')
    <3>1. IsResource(r) BY GivenResources DEF Given
    <3> QED BY <2>1, <2>3, <3>1, ReplaceResourceTyped
  <2> QED BY <2>4, <2>5 DEF Readable, Held, EmptyIsNoObject
<1> QED BY <1>1, InitInv, StepInv, PTL DEF Spec, ReplacingRepairs

\* No call but a stopped replacement, a move or a load makes a readable resource
\* unreadable.
THEOREM ReadablesStay == EmptyIsNoObject => (Spec => ReadableStaysReadable)
<1> DEFINE Stays == \/ MoveOut \/ LoadFromPath
                    \/ \A k \in Readable(bundle) :
                          k \in Readable(bundle') \cup torn' \cup ReservedKeys(bundle.fmt)
<1> SUFFICES ASSUME EmptyIsNoObject PROVE Spec => ReadableStaysReadable OBVIOUS
<1>1. ASSUME Inv, [Next]_vars PROVE [Stays]_vars
  <2> SUFFICES ASSUME Next, ~MoveOut, ~LoadFromPath, NEW q \in Readable(bundle)
               PROVE  q \in Readable(bundle') \cup torn' \cup ReservedKeys(bundle.fmt)
    BY <1>1
  <2> USE DEF vars, history
  <2>0. /\ IsImpl(bundle) /\ IsValid /\ q \in DOMAIN bundle.entries
        /\ \A r \in Resources : IsResource(r) /\ Given(r)
    BY <1>1, GivenResources DEF Inv, Good, IsValid, Given, Readable, Held
  <2>1. ASSUME NEW S, IsImpl(bundle'), bundle'.fmt = bundle.fmt, q \notin S,
               \A k \in DOMAIN bundle.entries \ S :
                  k \in DOMAIN bundle'.entries /\ bundle'.entries[k] = bundle.entries[k]
        PROVE  q \in Readable(bundle')
    <3>1. bundle' # NoImpl BY <2>1 DEF EmptyIsNoObject
    <3> QED BY <2>1, <3>1, SharedReadable
  <2>2. CASE bundle' = bundle BY <2>2
  <2>3. ASSUME bundle'.fmt = bundle.fmt, bundle'.entries = bundle.entries, IsImpl(bundle')
        PROVE  q \in Readable(bundle')
    BY <2>1, <2>3
  <2>4. ASSUME NEW k \in Key, NEW r \in Resources, AddResourceCall(k, r)
        PROVE  q \in Readable(bundle')
    <3>1. PICK stop \in StopSlots(bundle, r) :
            bundle' = AddResource(bundle, k, r, stop).impl
      BY <2>4 DEF AddResourceCall, Report
    <3>2. IsImpl(bundle') BY <2>0, <3>1, AddResourceTyped
    <3>3. /\ bundle'.fmt = bundle.fmt
          /\ \A p \in DOMAIN bundle.entries :
                p \in DOMAIN bundle'.entries /\ bundle'.entries[p] = bundle.entries[p]
      BY <2>0, <3>1, AddResourceShares
    <3> QED BY <2>1, <3>2, <3>3
  <2>5. ASSUME NEW k \in Key, NEW r \in Resources, ReplaceResourceCall(k, r)
        PROVE  q \in Readable(bundle') \cup torn'
    <3>1. PICK stop \in StopSlots(bundle, r) :
            LET result == ReplaceResource(bundle, k, r, stop)
            IN  /\ Report(result, "ResourceNotFound")
                /\ torn' = IF result.ok THEN torn \ {k}
                           ELSE IF result.impl # bundle THEN torn \cup {k} ELSE torn
      BY <2>5 DEF ReplaceResourceCall
    <3> DEFINE result == ReplaceResource(bundle, k, r, stop)
               new    == ReplacedEntry(bundle, bundle.entries[k], r, stop)
    <3>2. /\ bundle' = result.impl
          /\ torn' = IF result.ok THEN torn \ {k}
                     ELSE IF result.impl # bundle THEN torn \cup {k} ELSE torn
      BY <3>1 DEF Report
    <3>3. IsImpl(bundle') BY <2>0, <3>2, ReplaceResourceTyped
    <3>4. CASE result.impl = bundle BY <2>2, <3>2, <3>4
    <3>5. CASE result.impl # bundle
      <4>1. bundle'.fmt = bundle.fmt /\ bundle'.entries = Put(bundle.entries, k, new)
        BY <2>0, <3>2, <3>5, ReplaceResourceEntries
      <4>2. \A p \in DOMAIN bundle.entries \ {k} :
              /\ p \in DOMAIN Put(bundle.entries, k, new)
              /\ Put(bundle.entries, k, new)[p] = bundle.entries[p]
        BY DEF Put
      <4>3. q # k => q \in Readable(bundle')
        <5> HIDE DEF new, result
        <5> QED BY <2>1, <3>3, <4>1, <4>2
      <4>4. CASE q = k /\ result.ok
        <5>1. k \in DOMAIN bundle'.entries /\ CanReadResource(bundle', k)
          BY <2>0, <3>2, <4>4, ReplacedReadable
        <5> QED BY <3>3, <4>4, <5>1 DEF Readable, Held, EmptyIsNoObject
      <4>5. CASE q = k /\ ~result.ok
        <5> HIDE DEF result
        <5> QED BY <3>2, <3>5, <4>5
      <4> QED BY <4>3, <4>4, <4>5
    <3> QED BY <3>4, <3>5
  <2>6. ASSUME NEW k \in Key, NEW name \in GivenNames, AddResourceDebugDataCall(k, name)
        PROVE  q \in Readable(bundle')
    <3> DEFINE debug == Put(bundle.debug, k, name)
    <3>1. bundle' = bundle \/ bundle' = [bundle EXCEPT !.debug = debug]
      BY <2>6 DEF AddResourceDebugDataCall, Report, AddResourceDebugData
    <3>2. name \in DebugNames BY StoreAssumption
    <3>3. IsImpl(bundle')
      BY <2>0, <2>6, <3>2, AddResourceDebugDataTyped DEF AddResourceDebugDataCall, Report
    <3> HIDE DEF debug
    <3>4. bundle'.fmt = bundle.fmt /\ bundle'.entries = bundle.entries
      BY <2>0, <3>1 DEF IsImpl
    <3> QED BY <2>3, <3>3, <3>4
  <2>7. ASSUME NEW id \in ResourceIDs, NEW stream \in StreamArguments,
               SetDefaultResourceCall(id, stream)
        PROVE  q \in Readable(bundle')
    <3> DEFINE k == <<id, stream>>
    <3>1. bundle' = bundle \/ bundle' = SetDefaultResource(bundle, k).impl
      BY <2>7 DEF SetDefaultResourceCall, Report
    <3>2. CASE bundle' = bundle BY <2>2, <3>2
    <3>3. CASE bundle' # bundle
      <4> HIDE DEF k
      <4>1. bundle' = SetDefaultResource(bundle, k).impl BY <3>1, <3>3
      <4>2. SetDefaultResource(bundle, k) # [impl |-> bundle, ok |-> FALSE] BY <3>3, <4>1
      <4>3. bundle' = [fmt |-> bundle.fmt,
                       flags |-> bundle.flags \cup {"ContainsDefaultResource"},
                       entries |-> bundle.entries, imports |-> bundle.imports,
                       debug |-> bundle.debug, default |-> k, names |-> bundle.names]
        BY <2>0, <4>1, <4>2, SetDefaultResourceEffect
      <4>4. bundle'.fmt = bundle.fmt /\ bundle'.entries = bundle.entries BY <4>3
      <4>5. IsImpl(bundle') BY <2>0, <4>1, SetDefaultResourceTyped
      <4> QED BY <2>3, <4>4, <4>5
    <3> QED BY <3>2, <3>3
  <2>8. ASSUME NEW i \in StreamIndices, NEW name \in GivenStreamNames,
               SetStreamNameCall(i, name)
        PROVE  q \in Readable(bundle')
    <3> DEFINE names == [bundle.names EXCEPT ![i] = name]
    <3>1. bundle' = bundle \/ bundle' = [bundle EXCEPT !.names = names]
      BY <2>8 DEF SetStreamNameCall, Report, SetStreamName
    <3>2. name \in StreamNames BY StoreAssumption
    <3>3. IsImpl(bundle')
      BY <2>0, <2>8, <3>2, SetStreamNameTyped DEF SetStreamNameCall, Report
    <3> HIDE DEF names
    <3>4. bundle'.fmt = bundle.fmt /\ bundle'.entries = bundle.entries
      BY <2>0, <3>1 DEF IsImpl
    <3> QED BY <2>3, <3>3, <3>4
  <2>9. ASSUME bundle' \in {AfterSave(bundle)} \cup AfterThrow(bundle)
        PROVE  q \in Readable(bundle') \cup ReservedKeys(bundle.fmt)
    <3>1. IsImpl(bundle') BY <2>0, <2>9, AfterSaveTyped DEF AfterThrow
    <3>2. CASE bundle' = bundle BY <2>2, <3>2
    <3>3. CASE /\ ~IsBnd2(bundle.fmt)
               /\ Drop(bundle'.entries, StringTableKey) = Drop(bundle.entries, StringTableKey)
               /\ bundle' = [bundle EXCEPT !.entries = bundle'.entries]
      <4>1. ReservedKeys(bundle.fmt) = {StringTableKey} BY <3>3 DEF ReservedKeys
      <4>2. bundle'.fmt = bundle.fmt BY <2>0, <3>3 DEF IsImpl
      <4>3. \A k \in DOMAIN bundle.entries \ {StringTableKey} :
              k \in DOMAIN bundle'.entries /\ bundle'.entries[k] = bundle.entries[k]
        <5> DEFINE a == Drop(bundle.entries, StringTableKey)
                   b == Drop(bundle'.entries, StringTableKey)
        <5>1. /\ DOMAIN a = DOMAIN bundle.entries \ {StringTableKey}
              /\ \A k \in DOMAIN a : a[k] = bundle.entries[k]
              /\ DOMAIN b = DOMAIN bundle'.entries \ {StringTableKey}
              /\ \A k \in DOMAIN b : b[k] = bundle'.entries[k]
          BY DEF Drop
        <5>2. a = b BY <3>3
        <5> HIDE DEF a, b
        <5> QED BY <5>1, <5>2
      <4> QED BY <2>1, <3>1, <4>1, <4>2, <4>3
    <3> QED BY <2>0, <2>9, <3>2, <3>3, SaveKeepsOtherEntries
  <2>10. CASE SaveThrows BY <2>9, <2>10 DEF SaveThrows
  <2>11. CASE SaveToPath BY <2>9, <2>11 DEF SaveToPath
  <2>12. CASE SaveToMemory BY <2>9, <2>12 DEF SaveToMemory
  <2>13. CASE Read \/ CallOnEmpty \/ SaveRejected
    BY <2>2, <2>13 DEF Read, CallOnEmpty, SaveRejected
  <2> QED BY <2>4, <2>5, <2>6, <2>7, <2>8, <2>10, <2>11, <2>12, <2>13 DEF Next
<1> QED BY <1>1, InitInv, StepInv, PTL DEF Spec, ReadableStaysReadable
=============================================================================
