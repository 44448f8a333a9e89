----------------------------- MODULE BundleBuilder -----------------------------
(***************************************************************************)
(* The fluent builders: a BundleBuilder that owns a bundle, and resource   *)
(* builders that point to it, stage one resource each and commit it.  The  *)
(* bundle can change under a resource builder: by any call of Bundle, by   *)
(* Build(), by a load, or by assigning another BundleBuilder.              *)
(***************************************************************************)
EXTENDS BundleProperties

CONSTANTS
    Builders,           \* the BundleResourceBuilder objects
    NoBuilder,          \* one that has not been constructed yet
    StagedTypes,        \* what the application stages: types,
    StagedBlocks,       \*   <<memory type, buffer>>,
    StagedNames,        \*   and debug data
    StagedImports,      \* bound: the imports of one resource
    NoName,             \* m_debugData without a value
    Profiles            \* the BundleProfiles in use: [fmt, flags]

VARIABLES
    builder,    \* each resource builder's fields
    committed,  \* what the last Commit returned
    meant       \* history: what the application has staged through a builder

builderVars == <<builder, committed, meant>>
allVars == <<vars, builderVars>>

ASSUME BuilderAssumption ==
    /\ StagedTypes \subseteq Types
    /\ \A b \in StagedBlocks : /\ b[1] \in Slots /\ b[2] \in Block
                              /\ b[2].payload # Garbled /\ b[2].trailer = <<>>
    /\ StagedImports \in Nat
    /\ StagedNames \subseteq DebugNames /\ NoName \notin DebugNames
    /\ Profiles \subseteq [fmt : Format, flags : SUBSET FlagNames]

\* m_bundle is null once a builder was moved from.
IsBuilder(x) ==
    /\ x \in [attached : BOOLEAN, key : Key, res : {x.res},
              name : DebugNames \cup {NoName}]
    /\ IsResource(x.res)

\* The types of the variables of BundleStore and of the builders.
BuilderTypeOK ==
    /\ TypeOK
    /\ DOMAIN builder = Builders /\ builder = [b \in Builders |-> builder[b]]
    /\ \A b \in Builders : builder[b] = NoBuilder \/ IsBuilder(builder[b])
    /\ committed \in BOOLEAN

BuilderInit ==
    /\ Init
    /\ builder = [b \in Builders |-> NoBuilder]
    /\ meant = [b \in Builders |-> NoBuilder]
    /\ committed = FALSE

-----------------------------------------------------------------------------
(* BundleProfiles *)

BurnoutParadiseFlags == {"Compressed", "MainMemOptimised", "GraphicsMemOptimised", "HasDebugData"}
Profile(magic, version, platform, flags) ==
    [fmt |-> [magic |-> magic, version |-> version, platform |-> platform], flags |-> flags]

BurnoutParadisePC        == Profile("bnd2", 2, "PC", BurnoutParadiseFlags)
BurnoutParadiseXbox360   == Profile("bnd2", 2, "Xbox360", BurnoutParadiseFlags)
BurnoutParadisePS3       == Profile("bnd2", 2, "PS3", BurnoutParadiseFlags)
BurnoutParadiseDecomp    == Profile("bnd2", 2, "PCx64", BurnoutParadiseFlags)
NeedForSpeedHotPursuitPC == Profile("bnd2", 5, "PC", {"HasDebugData"})
BndlPC(version, flags)   == Profile("bndl", version, "PC", flags)

\* Assigning a new BundleBuilder(profile) to the one the builders came from:
\* their pointers lead to the new bundle.
AssignBundle(profile) ==
    /\ bundle' = NewImpl(profile.fmt, profile.flags)
    /\ lastError' = "Success"
    /\ torn' = {}
    /\ UNCHANGED <<file, savedTorn, builderVars>>

-----------------------------------------------------------------------------
(* Staging *)

NewBuilder(k, type) ==
    [attached |-> TRUE, key |-> k, name |-> NoName,
     res |-> [type |-> type, blocks |-> NoEntries, imports |-> <<>>]]

\* BundleBuilder::AddResource, its result assigned to b.
MakeBuilder(b, k, type) ==
    /\ builder' = [builder EXCEPT ![b] = NewBuilder(k, type)]
    /\ meant' = [meant EXCEPT ![b] = NewBuilder(k, type)]
    /\ UNCHANGED <<vars, committed>>

\* A change of what b stages. What a moved-from builder is given is meant for
\* no resource.
Stage(b, Change(_)) ==
    /\ builder[b] # NoBuilder
    /\ builder' = [builder EXCEPT ![b] = Change(@)]
    /\ meant' = [meant EXCEPT ![b] = IF @ = NoBuilder THEN @ ELSE Change(@)]
    /\ UNCHANGED <<vars, committed>>

\* A mutant: the memory type's number is taken for the index of its slot.
BinaryNextSlot(b, s, buffer) ==
    Stage(b, LAMBDA x : [x EXCEPT !.res.blocks = Put(@, s + 1, buffer)])

Binary(b, s, buffer) ==
    Stage(b, LAMBDA x : [x EXCEPT !.res.blocks = Put(@, s, buffer)])

Import(b, id) ==
    /\ builder[b] # NoBuilder /\ Len(builder[b].res.imports) < StagedImports
    /\ Stage(b, LAMBDA x : [x EXCEPT !.res.imports = Append(@, id)])

DebugData(b, name) ==
    Stage(b, LAMBDA x : [x EXCEPT !.name = name])

\* A moved-from builder keeps its key, its type and an (empty) debug data.
MovedFrom(x) ==
    [x EXCEPT !.attached = FALSE, !.res.blocks = NoEntries, !.res.imports = <<>>]

\* A mutant: the source stays attached.
MoveKeepingSource(from, to) ==
    /\ from # to /\ builder[from] # NoBuilder
    /\ builder' = [builder EXCEPT ![to] = builder[from],
                                  ![from] = [@ EXCEPT !.res.blocks = NoEntries, !.res.imports = <<>>]]
    /\ meant' = [meant EXCEPT ![to] = meant[from], ![from] = NoBuilder]
    /\ UNCHANGED <<vars, committed>>

Move(from, to) ==
    /\ from # to /\ builder[from] # NoBuilder
    /\ builder' = [builder EXCEPT ![to] = builder[from], ![from] = MovedFrom(@)]
    /\ meant' = [meant EXCEPT ![to] = meant[from], ![from] = NoBuilder]
    /\ UNCHANGED <<vars, committed>>

-----------------------------------------------------------------------------
(* Committing *)

\* The alignments of a model are below 2^31, a TLC integer.
PowersOfTwo == {2^e : e \in 0..30}

CarriesStream(fmt, stream) ==
    stream < StreamLimit /\ (stream = 0 \/ (IsBnd2(fmt) /\ fmt.version >= 3))

FitsFormat(fmt, blocks) ==
    \A s \in DOMAIN blocks :
        /\ s \in MemoryTypes(fmt)
        /\ blocks[s].align \in PowersOfTwo
        /\ IsBnd2(fmt) => blocks[s].align <= 2^15

\* Mutants: a stream is only compared with the limit; alignments need only be
\* powers of two.
ValidateWithoutFormat(x) ==
    /\ x.attached /\ IsValid /\ x.key[2] < StreamLimit
    /\ FitsFormat(bundle.fmt, x.res.blocks)

ValidateAnyAlignment(x) ==
    /\ x.attached /\ IsValid /\ CarriesStream(bundle.fmt, x.key[2])
    /\ \A s \in DOMAIN x.res.blocks :
            s \in MemoryTypes(bundle.fmt) /\ x.res.blocks[s].align \in PowersOfTwo

\* What builder x has staged is checked against the bundle as it is now.
Validate(x) ==
    /\ x.attached /\ IsValid
    /\ CarriesStream(bundle.fmt, x.key[2])
    /\ FitsFormat(bundle.fmt, x.res.blocks)

\* The resource first, then its debug data. A refusal of the second leaves the
\* first in the bundle.
CommitResults(x) ==
    {LET added == AddResource(bundle, x.key, x.res, stop)
     IN  IF added.ok /\ x.name # NoName THEN AddResourceDebugData(added.impl, x.key, x.name)
         ELSE added : stop \in StopSlots(bundle, x.res)}

\* A failed validation leaves the bundle's last error alone.
Commit(b) ==
    /\ builder[b] # NoBuilder
    /\ \/ /\ ~Validate(builder[b])
          /\ committed' = FALSE
          /\ UNCHANGED <<bundle, lastError>>
       \/ /\ Validate(builder[b])
          /\ \E result \in CommitResults(builder[b]) :
                /\ Report(result, "ValidationFailed")
                /\ committed' = result.ok
    /\ UNCHANGED <<file, history, builder, meant>>

StagingCall(b) ==
    \/ \E k \in Key, type \in StagedTypes : MakeBuilder(b, k, type)
    \/ \E block \in StagedBlocks : Binary(b, block[1], block[2])
    \/ \E id \in ResourceIDs : Import(b, id)
    \/ \E name \in StagedNames : DebugData(b, name)
    \/ \E to \in Builders : Move(b, to)

BuilderNext ==
    \/ Next /\ UNCHANGED builderVars
    \/ \E profile \in Profiles : AssignBundle(profile)
    \/ \E b \in Builders : StagingCall(b) \/ Commit(b)

BuilderSpec == BuilderInit /\ [][BuilderNext]_allVars

-----------------------------------------------------------------------------
(* Properties *)

\* What AddResource takes of a staged resource: without a main memory block BND2
\* has nowhere to put imports.
Taken(fmt, r) ==
    [r EXCEPT !.imports = IF IsBnd2(fmt) /\ MainMemory \notin DOMAIN r.blocks THEN <<>> ELSE @]

HoldsWhole(x) ==
    /\ bundle'.entries = Put(bundle.entries, x.key, bundle'.entries[x.key])
    /\ CanReadResource(bundle', x.key)
    /\ ReadResource(bundle', x.key) = Taken(bundle.fmt, x.res)

TakesWhole(b) ==
    LET x == builder[b]
    IN  IF committed'
        THEN /\ meant[b] # NoBuilder /\ HoldsWhole(meant[b])
             /\ bundle'.debug = IF meant[b].name = NoName THEN bundle.debug
                                ELSE Put(bundle.debug, x.key, meant[b].name)
        ELSE \/ bundle' = bundle
             \/ /\ x.name # NoName /\ x.key \in DOMAIN bundle.debug
                /\ meant[b] # NoBuilder /\ HoldsWhole(meant[b]) /\ bundle'.debug = bundle.debug

\* A commit that succeeds puts exactly what the application staged, through
\* however many moves, under its key. One that fails leaves the bundle alone,
\* except where there is debug data for the key already: then the resource is in
\* the bundle, whole, and only its debug data is refused (builder.cpp:144-157).
CommitIsWhole == [][ \A b \in Builders : Commit(b) => TakesWhole(b) ]_allVars

\* A commit never turns a bundle that Save accepts into one it rejects, whatever
\* format the bundle was given after the builder was made: "Save would reject
\* both later, so catch them here" (builder.cpp:180).
CommitKeepsSavable ==
    [][ \A b \in Builders : Commit(b) /\ Savable => Savable' ]_allVars

\* Read back from a file: alignments where the file has them, and no trace of
\* an uncompressed block of size 0.
ComesBack(impl, k, r) ==
    \A img \in Images(impl) : \A result \in Loads(img) :
        /\ result.code = "Success" /\ k \in Readable(result.impl)
        /\ LET got == ReadResource(result.impl, k)
           IN  /\ got.type = r.type /\ got.imports = Taken(impl.fmt, r).imports
               /\ \A s \in DOMAIN r.blocks : r.blocks[s].payload # Empty =>
                    /\ s \in DOMAIN got.blocks
                    /\ got.blocks[s].payload = r.blocks[s].payload
                    /\ IsBnd2(impl.fmt) \/ IsCompressed(impl) =>
                            got.blocks[s].align = r.blocks[s].align

\* A resource that Commit accepts comes back from a saved file as it was staged,
\* if the bundle holds nothing that its format cannot store: Validate leaves no
\* alignment, memory type or stream that Save changes (builder.cpp:178-206).
CommittedSurvivesSave ==
    [][ \A b \in Builders :
            /\ Commit(b) /\ committed' /\ Savable'
            /\ \A k \in Held(bundle') : /\ k \notin ReservedKeys(bundle'.fmt)
                                        /\ CarriesStream(bundle'.fmt, k[2])
            => ComesBack(bundle', builder[b].key, builder[b].res) ]_allVars
=============================================================================
