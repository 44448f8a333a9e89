------------------------------- MODULE MCBuilder -------------------------------
(***************************************************************************)
(* Two builders and one id in two streams.  What they stage includes an    *)
(* alignment that BND2 cannot store and a memory type that only some       *)
(* formats have; the bundle changes between formats that have streams,     *)
(* that have none, and BNDL.                                               *)
(***************************************************************************)
EXTENDS MCBundle, BundleBuilder

MCStagedBlocks == {<<MainMemory, Buffer(Bytes, 4)>>, <<Disposable, Buffer(Other, 65536)>>}
MCProfiles == {BurnoutParadiseXbox360, BndlPC(5, {"HasDebugData"})}
V3Fmt == [magic |-> "bnd2", version |-> 3, platform |-> "PC"]
MCSymmetry == Permutations(Builders)

\* The bounds of the run: what is saved to a path is checked but not followed,
\* nor is a call that reports an error, which no call looks at and no commit
\* needs, and the builders stage no more than StagedTotal things at a time.
StagedTotal == 3
Staged(x) ==
    IF x = NoBuilder THEN 0
    ELSE Cardinality(DOMAIN x.res.blocks) + Len(x.res.imports) + (IF x.name = NoName THEN 0 ELSE 1)
InBounds ==
    /\ file = NoFile /\ lastError = "Success"
    /\ SumFunctionOnSet([b \in Builders |-> Staged(builder[b])], Builders) <= StagedTotal
=============================================================================
