------------------------------- MODULE MCBundle -------------------------------
(***************************************************************************)
(* Small instances of BundleStore.  Two ids and the streams of one run make *)
(* two to four keys, enough for a call to disturb a resource it does not   *)
(* name; the resources cover a block that is missing, empty, under-aligned *)
(* for its format, or of a memory type that the platform does not have.    *)
(***************************************************************************)
EXTENDS BundleProperties

CONSTANTS Bytes, Other      \* two block contents

MCTypes == {"BinaryFile", "TextFile"}
MCPayloads == {Empty, Garbled, TableText, Bytes, Other}
MCAlignments == {0, 1, 4, 65536}

\* In bytes. Other's has room for an import, Bytes's has not.
MCSize == [p \in MCPayloads |-> IF p = Empty THEN 0 ELSE IF p = Other THEN 40 ELSE 8]

Buffer(payload, align) == [payload |-> payload, trailer |-> <<>>, align |-> align]
Res(blocks, imports) == [type |-> "BinaryFile", blocks |-> blocks, imports |-> imports]

\* std::array<Buffer, 4> as a function: main memory with, at slot s, a second block.
Main(m) == [s \in {MainMemory} |-> m]
With(m, s, b) == [t \in {MainMemory, s} |-> IF t = MainMemory THEN m ELSE b]
Only(s, b) == [t \in {s} |-> b]

-----------------------------------------------------------------------------
(* BND2 v5, compressed: streams, default resource, half-way replacements *)

V5Fmt == [magic |-> "bnd2", version |-> 5, platform |-> "PC"]
StreamFlags == {"Compressed", "HasDebugData"}
OneStreamResource == {Res(With(Buffer(Bytes, 1), Disposable, Buffer(Empty, 4)), <<1>>)}
CompressedResources == {Res(With(Buffer(Bytes, 65536), Disposable, Buffer(Empty, 4)), <<1>>),
                        Res(Only(Disposable, Buffer(Other, 1)), <<1>>)}

V2Fmt == [magic |-> "bnd2", version |-> 2, platform |-> "PC"]
ParadiseFlags == {"Compressed", "MainMemOptimised", "GraphicsMemOptimised", "HasDebugData"}

-----------------------------------------------------------------------------
(* BND2 v5, uncompressed: the string table, stream names *)

TableFlags == {"HasDebugData"}
OneResource == {Res(Main(Buffer(Bytes, 1)), <<>>)}

\* The bound of a run that asks what a file would give, without following it.
NotSaved == file = NoFile /\ lastError = "Success"

-----------------------------------------------------------------------------
(* BNDL *)

\* The bound of two runs: no call reads the last error, so that of the errors only
\* those of calls that may change something are followed. A replacement that
\* fails half-way reports ResourceNotFound.
ErrorsWithEffect == lastError \in {"Success", "ResourceNotFound", "GenericFailure", "IoError"}

BndlFmt == [magic |-> "bndl", version |-> 5, platform |-> "PC"]
SharingResources == {Res(Main(Buffer(Bytes, 4)), <<1>>),
                     Res(With(Buffer(Other, 1), Graphics, Buffer(Bytes, 1)), <<>>)}

ImportingResource == {Res(Main(Buffer(Bytes, 4)), <<1>>)}

-----------------------------------------------------------------------------
(* Files of other tools: damaged blocks, a count without its trailer, a hidden *)
(* disposable block, streams without the flag, a version that Load rejects.    *)

XboxBnd2 == [magic |-> "bnd2", version |-> 3, platform |-> "Xbox360"]
XboxBndl == [magic |-> "bndl", version |-> 4, platform |-> "Xbox360"]

Row1(k, blocks, count) ==
    [key |-> k, entry |-> [type |-> "TextFile", blocks |-> blocks, importCount |-> count,
                           importOffset |-> IF count = 0 THEN 0 ELSE 8,
                           diskAligns |-> [s \in Slots |-> IF s \in DOMAIN blocks THEN 4 ELSE 1]]]

FileOf(fmt, flags, rows, imports, table) ==
    [fmt |-> fmt, flags |-> flags, rows |-> rows, imports |-> imports,
     default |-> NoDefault, names |-> [i \in 0 .. 3 |-> ""],
     table |-> table, hasTable |-> table # <<>>, overcount |-> FALSE]

DamagedBnd2 ==
    FileOf(XboxBnd2, {"HasDebugData", "MultistreamBundle"},
        {Row1(<<1, 0>>, With(Buffer(Bytes, 4), Graphics, Buffer(Garbled, 4)), 1),
         Row1(<<1, 1>>, Main([Buffer(Bytes, 4) EXCEPT !.trailer = <<2>>]), 1)},
        NoEntries,
        <<[id |-> 1, stream |-> 1, name |-> "car.bin"],
          [id |-> 2, stream |-> ImportEntry, name |-> "car.xml"]>>)

DamagedBndl ==
    FileOf(XboxBndl, {"Compressed"},
        {Row1(<<1, 0>>, [s \in {MainMemory, Graphics, Disposable} |->
                            Buffer(IF s = MainMemory THEN Bytes ELSE Garbled, 4)], 0)},
        [id \in {1} |-> <<1>>], <<>>)

OtherToolsFiles ==
    {DamagedBnd2, DamagedBndl,
     [DamagedBnd2 EXCEPT !.flags = {}],
     [DamagedBnd2 EXCEPT !.fmt.version = 4],
     [DamagedBnd2 EXCEPT !.fmt.platform = "WiiU"],
     [DamagedBnd2 EXCEPT !.fmt.version = 5, !.default = <<2, 1>>],
     [DamagedBnd2 EXCEPT !.rows = @ \cup {Row1(<<0, 0>>, NoEntries, 0)}],
     [DamagedBndl EXCEPT !.rows = @ \cup {Row1(<<2, 0>>, Main(Buffer(Bytes, 4)), 0)}]}

RepairResources == {Res(With(Buffer(Bytes, 4), Graphics, Buffer(Other, 4)), <<2>>),
                    Res(Main(Buffer(Bytes, 1)), <<>>)}
=============================================================================
