-------------------------------- MODULE MCApi --------------------------------
(***************************************************************************)
(* A C program with bundles of two formats and the file of another tool:   *)
(* a resource of two blocks.  One of the program's buffers has room for an *)
(* import where the other has not, so that a trailer that is not there is  *)
(* sometimes read and sometimes missed.  In BNDL id 1 has two streams that *)
(* share a list of imports, which an import more makes too short.          *)
(***************************************************************************)
EXTENDS MCBundle, CApi

V3Xbox == [magic |-> "bnd2", version |-> 3, platform |-> "Xbox360"]
MCCreations ==
    {[fmt |-> V3Xbox, flags |-> {"Compressed"}], [fmt |-> XboxBndl, flags |-> {"HasDebugData"}]}
MCBuffers == {Buffer(Bytes, 4), Buffer(Other, 1)}
MCFile ==
    FileOf(XboxBnd2, {}, {Row1(<<1, 0>>, With(Buffer(Bytes, 4), Graphics, Buffer(Other, 4)), 0)},
           NoEntries, <<>>)
MCFiles == {MCFile}

\* The bounds of the run: what is saved to a path is checked but not followed,
\* nor is a call that reports an error other than memory, for no call looks at
\* what the last one reported and memory fails wherever compress2 does. The
\* program's resource has one import, or a second one where BNDL has two streams
\* of an id; a bundle has two keys and two blocks, and half-made entries under
\* one key, with debug data for it if that bundle writes a table.
InBounds ==
    /\ file \in MCFiles \/ (file \in NoBundle /\ ~IsValid)
    /\ savedTorn = {}
    /\ lastError = "Success" /\ returned \in {"SUCCESS", "MEMORY_ALLOCATION", NoResult}
    /\ returned = "MEMORY_ALLOCATION" => torn # {}
    /\ resource # Null =>
        /\ IsPlain(resource) /\ resource.imports \in {<<>>, <<1>>, <<1, 1>>}
        /\ Len(resource.imports) = 2 => <<1, 1>> \in Held(bundle)
        /\ resource.type # "BinaryFile" => Graphics \in DOMAIN resource.blocks
    /\ torn \subseteq {<<1, 0>>}
    /\ IsValid =>
        /\ Held(bundle) \subseteq {<<1, 0>>, IF IsBnd2(bundle.fmt) THEN <<2, 0>> ELSE <<1, 1>>}
        /\ <<2, 0>> \in Held(bundle) => bundle.entries[<<2, 0>>].importCount = 0
        /\ \A id \in DOMAIN bundle.imports : Len(bundle.imports[id]) <= 1
        /\ bundle.debug # NoEntries =>
            DOMAIN bundle.debug = {<<1, 0>>} /\ ~IsBnd2(bundle.fmt) /\ <<1, 1>> \notin Held(bundle)
        /\ SumFunction([k \in Held(bundle) |-> Cardinality(DOMAIN bundle.entries[k].blocks)]) <= 2
=============================================================================
