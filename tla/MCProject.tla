------------------------------- MODULE MCProject -------------------------------
(***************************************************************************)
(* Small instances of ProjectDir: two streams of one id, with and without  *)
(* imports, debug data, a default resource and a stream name, on a         *)
(* platform with memory type names of its own; a compressed bundle whose   *)
(* default resource is missing; one with a damaged block.                  *)
(***************************************************************************)
EXTENDS ProjectProperties

CONSTANTS Bytes, Other

MCTypes == {"BinaryFile", "TextFile"}
MCPayloads == {Empty, Garbled, TableText, Bytes, Other}
MCSize == [p \in MCPayloads |-> IF p = Empty THEN 0 ELSE 8]
MCTypeNumber == [t \in MCTypes |-> IF t = "BinaryFile" THEN 2 ELSE 1]
MCFolderName == [name \in DebugNames |-> IF name = "car.bin" THEN "_Binary" ELSE ""]
MCCutPayload == [p \in MCPayloads |-> {Empty}]

Block1(payload, align) == [payload |-> payload, trailer |-> <<>>, align |-> align]
Resource(type, blocks, imports) == [type |-> type, blocks |-> blocks, imports |-> imports]
One(s, m) == [t \in {s} |-> m]

XboxFmt == [magic |-> "bnd2", version |-> 5, platform |-> "Xbox360"]
New(flags) == NewImpl(XboxFmt, flags)
Add(impl, k, r) == AddResource(impl, k, r, Finished).impl

Car == Resource("BinaryFile", One(MainMemory, Block1(Bytes, 4)), <<1>>)
Plain == Resource("TextFile", One(Graphics, Block1(Other, 1)), <<>>)

\* Both streams, the first with imports, debug data and the default resource.
Full == SetDefaultResource(
            AddResourceDebugData(Add(Add(New({"HasDebugData"}), <<1, 0>>, Car), <<1, 1>>, Plain),
                                 <<1, 0>>, "car.bin").impl, <<1, 0>>).impl
\* The same keys the other way round, under another name.
Swapped == SetStreamName(
               AddResourceDebugData(Add(Add(New({}), <<1, 0>>, Plain), <<1, 1>>, Car),
                                    <<1, 1>>, "car.xml").impl, 0, "low").impl
\* As Load may leave it: the default resource names no entry.
Orphan == [Add(New({"Compressed", "ContainsDefaultResource"}), <<1, 0>>,
               [Car EXCEPT !.imports = <<>>]) EXCEPT !.default = <<1, 1>>]
Damaged == Add(New({}), <<1, 0>>, [Car EXCEPT !.blocks = One(MainMemory, Block1(Garbled, 4))])

MCBundles == {Full, Swapped, Orphan, Damaged}
MCOptions == {[sortByType |-> TRUE, combineImports |-> FALSE],
              [sortByType |-> FALSE, combineImports |-> TRUE]}

\* A hypothesis of FinishedExportsComeBack.
ASSUME MCBundlesAreWellMade == \A impl \in Bundles : WellMade(impl)
=============================================================================
