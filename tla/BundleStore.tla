------------------------------ MODULE BundleStore ------------------------------
(***************************************************************************)
(* A Bundle object in an application's hands and the file it is saved to   *)
(* and loaded from: every mutating call of class Bundle, its reads as far  *)
(* as they set the last error, and what each one reports.                  *)
(***************************************************************************)
EXTENDS BundleImage

CONSTANTS
    Fmt, InitialFlags,  \* what the bundle is constructed with
    Resources,          \* the resources the application hands over
    GivenNames,         \* the debug data and ...
    GivenStreamNames,   \* ... stream names it gives
    ForeignFiles,       \* files of other tools that may be there at first
    WriterMayThrow,     \* whether binaryio may run out of range or memory
    NoImpl,             \* the m_impl of an empty or moved-from bundle
    NoFile, PartialFile, OtherFile \* no file; one whose writing was cut short;
                        \*   one that begins with no bundle's magic

VARIABLES
    bundle,     \* m_impl
    lastError,  \* m_lastErrorCode
    file,       \* what is at the path that Save and Load are given
    torn,       \* history: keys whose last ReplaceResource failed half-way
    savedTorn   \* history: those when the file was saved

history == <<torn, savedTorn>>
vars == <<bundle, lastError, file, history>>

ASSUME StoreAssumption ==
    /\ Fmt \in Format /\ InitialFlags \subseteq FlagNames
    /\ GivenNames \subseteq DebugNames
    /\ GivenStreamNames \subseteq StreamNames
    /\ \A r \in Resources : IsResource(r)
    /\ \A r \in Resources : \A s \in DOMAIN r.blocks :
            r.blocks[s].payload # Garbled /\ r.blocks[s].trailer = <<>>
    /\ \A img \in ForeignFiles : IsImage(img)
    /\ WriterMayThrow \in BOOLEAN

ErrorCodes == {"Success", "InvalidState", "InvalidArgument", "ValidationFailed",
               "ResourceNotFound", "DebugDataNotFound", "DecompressionFailed", "OutOfRange",
               "GenericFailure", "IoError", "InvalidPath", "InvalidBundle",
               "UnsupportedFormat", "UnsupportedVersion", "UnsupportedPlatform", "UnsupportedFlags"}

\* What is at the path holds no bundle.
NoBundle == {NoFile, PartialFile, OtherFile}

\* The types of the variables.
TypeOK ==
    /\ bundle = NoImpl \/ IsImpl(bundle)
    /\ lastError \in ErrorCodes
    /\ file \in NoBundle \/ IsImage(file)
    /\ torn \subseteq Key /\ savedTorn \subseteq Key

Init ==
    /\ bundle \in {NewImpl(Fmt, InitialFlags), NoImpl}
    /\ lastError = "Success"
    /\ file \in ForeignFiles \cup {NoFile, OtherFile}
    /\ torn = {} /\ savedTorn = {}

IsValid == bundle # NoImpl

-----------------------------------------------------------------------------
(* Changing the bundle in memory *)

\* A call that fails sets the error it reports; one that succeeds clears it.
Report(result, code) ==
    /\ bundle' = result.impl
    /\ lastError' = IF result.ok THEN "Success" ELSE code

AddResourceCall(k, r) ==
    /\ IsValid
    /\ \E stop \in StopSlots(bundle, r) :
        Report(AddResource(bundle, k, r, stop), "ValidationFailed")
    /\ UNCHANGED <<file, history>>

ReplaceResourceCall(k, r) ==
    /\ IsValid
    /\ \E stop \in StopSlots(bundle, r) :
        LET result == ReplaceResource(bundle, k, r, stop)
        IN  /\ Report(result, "ResourceNotFound")
            /\ torn' = IF result.ok THEN torn \ {k}
                       ELSE IF result.impl # bundle THEN torn \cup {k} ELSE torn
    /\ UNCHANGED <<file, savedTorn>>

AddResourceDebugDataCall(k, name) ==
    /\ IsValid
    /\ Report(AddResourceDebugData(bundle, k, name), "ValidationFailed")
    /\ UNCHANGED <<file, history>>

\* The streams that SetDefaultResource is given, an int32_t: any stream index,
\* and the two numbers next to a uint8_t.
StreamArguments == StreamIndices \cup {-1, 256}

\* A mutant: the stream is cast to a uint8_t without a check.
SetDefaultResourceCast(id, stream) ==
    /\ IsValid
    /\ Report(SetDefaultResource(bundle, <<id, stream % 256>>), "ValidationFailed")
    /\ UNCHANGED <<file, history>>

SetDefaultResourceCall(id, stream) ==
    /\ IsValid
    /\ IF stream \notin 0..255
       THEN Report([impl |-> bundle, ok |-> FALSE], "InvalidArgument")
       ELSE Report(SetDefaultResource(bundle, <<id, stream>>), "ValidationFailed")
    /\ UNCHANGED <<file, history>>

SetStreamNameCall(i, name) ==
    /\ IsValid
    /\ Report(SetStreamName(bundle, i, name), "ValidationFailed")
    /\ UNCHANGED <<file, history>>

\* std::move(bundle): the application takes the contents elsewhere.
MoveOut ==
    /\ bundle' = NoImpl
    /\ torn' = {}
    /\ UNCHANGED <<lastError, file, savedTorn>>

-----------------------------------------------------------------------------
(* Reading *)

\* What a failed read of k reports.
ReadFailure(k) ==
    IF k \in DOMAIN bundle.entries THEN "DecompressionFailed" ELSE "ResourceNotFound"

GetResource(k) ==
    IF k \in DOMAIN bundle.entries /\ CanReadResource(bundle, k)
    THEN "Success" ELSE ReadFailure(k)

GetBinary(k, s) ==
    IF s \notin MemoryTypes(bundle.fmt) THEN "OutOfRange"
    ELSE IF k \notin DOMAIN bundle.entries \/ ~CanReadBlock(bundle, k, s) THEN ReadFailure(k)
    ELSE IF s \notin DOMAIN bundle.entries[k].blocks THEN "ResourceNotFound"
    ELSE "Success"

GetResourceDebugData(k) ==
    IF k \in DOMAIN bundle.debug THEN "Success" ELSE "DebugDataNotFound"

GetResourceType(k) ==
    IF k \in DOMAIN bundle.entries THEN "Success" ELSE "ResourceNotFound"

DescribeResources ==
    IF \A k \in DOMAIN bundle.entries : CanReadResource(bundle, k)
    THEN "Success" ELSE "DecompressionFailed"

ReadResults ==
    {DescribeResources} \cup
        UNION {{GetResource(k), GetResourceDebugData(k), GetResourceType(k)} \cup
                   {GetBinary(k, s) : s \in Slots} : k \in Key}

\* Reads are const, but they set the (mutable) last error.
Read ==
    /\ IsValid
    /\ lastError' \in ReadResults
    /\ UNCHANGED <<bundle, file, history>>

\* Every call but Load fails on an empty bundle.
CallOnEmpty ==
    /\ ~IsValid
    /\ lastError' = "InvalidState"
    /\ UNCHANGED <<bundle, file, history>>

-----------------------------------------------------------------------------
(* Saving and loading *)

\* The bundle in memory after the writer threw: BNDL may keep its borrowed key,
\* without a block if there was no memory for that.
AfterThrow(impl) ==
    {impl} \cup (IF BorrowsStringTableKey(impl)
                 THEN {WithStringTable(impl), WithBorrowed(impl, NoEntries)} ELSE {})

SaveRejected ==
    /\ IsValid
    /\ SaveVerdict(bundle.fmt, bundle.flags) # "Success"
    /\ lastError' = SaveVerdict(bundle.fmt, bundle.flags)
    /\ UNCHANGED <<bundle, file, history>>

SaveThrows ==
    /\ IsValid /\ WriterMayThrow
    /\ SaveVerdict(bundle.fmt, bundle.flags) = "Success"
    /\ bundle' \in AfterThrow(bundle)
    /\ lastError' \in {"OutOfRange", "GenericFailure"}
    /\ UNCHANGED <<file, history>>

\* SaveToPath and SaveToMemory are what an uninterrupted Save does. One that divides
\* by zero (EndAlignments) goes on as here where that gives a number; where it
\* traps the process is over, and the bundle lost with it as in MoveOut.

\* Save to a path: the image is complete in memory before the file is opened,
\* which empties it. A write that fails leaves the old file, a part that Load
\* rejects, or all that Load needs.
SaveToPath ==
    /\ IsValid
    /\ SaveVerdict(bundle.fmt, bundle.flags) = "Success"
    /\ bundle' = AfterSave(bundle)
    /\ \/ file' \in Images(bundle) /\ lastError' = "Success" /\ savedTorn' = torn
       \/ file' \in CutImages(bundle) /\ lastError' = "IoError" /\ savedTorn' = torn
       \/ file' \in {file, PartialFile} /\ lastError' = "IoError" /\ UNCHANGED savedTorn
    /\ UNCHANGED torn

SaveToMemory ==
    /\ IsValid
    /\ SaveVerdict(bundle.fmt, bundle.flags) = "Success"
    /\ bundle' = AfterSave(bundle)
    /\ lastError' = "Success"
    /\ UNCHANGED <<file, history>>

\* What Load reports before it parses: a file may not be there or not open, a read
\* may fail.
ReadErrors ==
    {"InvalidPath"} \cup (IF file = NoFile THEN {} ELSE {"IoError"})
                    \cup (IF file = PartialFile THEN {"InvalidBundle"} ELSE {})
                    \cup (IF file = OtherFile THEN {"UnsupportedFormat"} ELSE {})

\* Load parses into a new object and keeps the old one unless that succeeds.
\* A mutant: Load parses into the bundle it is called on.
LoadInPlace ==
    /\ IF file \in NoBundle
       THEN lastError' = "InvalidBundle" /\ bundle' = NewImpl(Fmt, {})
       ELSE \E result \in Loads(file) :
               /\ lastError' = result.code
               /\ bundle' = IF result.code = "Success" THEN result.impl ELSE NewImpl(Fmt, {})
    /\ torn' = {}
    /\ UNCHANGED <<file, savedTorn>>

LoadFromPath ==
    \/ /\ lastError' \in ReadErrors
       /\ UNCHANGED <<bundle, file, history>>
    \/ /\ file \notin NoBundle
       /\ \E result \in Loads(file) :
            /\ lastError' = result.code
            /\ bundle' = IF result.code = "Success" THEN result.impl ELSE bundle
            /\ torn' = IF result.code = "Success" THEN savedTorn ELSE torn
       /\ UNCHANGED <<file, savedTorn>>

Next ==
    \/ \E k \in Key, r \in Resources : AddResourceCall(k, r) \/ ReplaceResourceCall(k, r)
    \/ \E k \in Key, name \in GivenNames : AddResourceDebugDataCall(k, name)
    \/ \E id \in ResourceIDs, stream \in StreamArguments : SetDefaultResourceCall(id, stream)
    \/ \E i \in StreamIndices, name \in GivenStreamNames : SetStreamNameCall(i, name)
    \/ MoveOut
    \/ Read \/ CallOnEmpty
    \/ SaveRejected \/ SaveThrows \/ SaveToPath \/ SaveToMemory
    \/ LoadFromPath

Spec == Init /\ [][Next]_vars
=============================================================================
