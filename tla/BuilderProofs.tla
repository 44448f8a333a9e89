----------------------------- MODULE BuilderProofs -----------------------------
(***************************************************************************)
(* What a commit does, proved for every bundle the builders can lead to,   *)
(* whatever they stage and however often they are moved.                   *)
(***************************************************************************)
EXTENDS BundleBuilder, RoundTripProofs

-----------------------------------------------------------------------------
(* The resource that AddResource has taken *)

\* A resource as the builders stage it and the format can hold it.
Fits(fmt, r) == DOMAIN r.blocks \subseteq MemoryTypes(fmt)

\* Of a resource all of whose memory types the platform has, all is held.
LEMMA FittingIsHeld ==
    ASSUME NEW fmt, NEW r, Given(r), Fits(fmt, r)
    PROVE  HeldPart(fmt, r.type, r) = Taken(fmt, r)
<1>1. /\ r = [type |-> r.type, blocks |-> r.blocks, imports |-> r.imports]
      /\ r.blocks = [s \in DOMAIN r.blocks |-> r.blocks[s]]
  BY DEF Given, IsResource, IsBlockMap, IsMap
<1>2. [s \in MemoryTypes(fmt) \cap DOMAIN r.blocks |-> r.blocks[s]] = r.blocks
  BY <1>1 DEF Fits
<1>3. Taken(fmt, r) = [type |-> r.type, blocks |-> r.blocks,
                      imports |-> IF IsBnd2(fmt) /\ MainMemory \notin DOMAIN r.blocks
                                  THEN <<>> ELSE r.imports]
  BY <1>1 DEF Taken
<1> QED BY <1>2, <1>3 DEF HeldPart

\* A resource that AddResource accepted is read back as it was given.
LEMMA AddedReadsBack ==
    ASSUME NEW impl, IsImpl(impl), NEW k \in Key, NEW r, Given(r), Fits(impl.fmt, r), NEW stop,
           AddResource(impl, k, r, stop).ok,
           NEW other, other.fmt = impl.fmt,
           other.entries = AddResource(impl, k, r, stop).impl.entries,
           other.imports = AddResource(impl, k, r, stop).impl.imports
    PROVE  /\ other.entries = Put(impl.entries, k, other.entries[k])
           /\ CanReadResource(other, k)
           /\ ReadResource(other, k) = Taken(impl.fmt, r)
    BY AddedIsHeld, FittingIsHeld

-----------------------------------------------------------------------------
(* The invariant *)

\* An attached builder stages what the application meant for it.
BuilderInv ==
    /\ Inv
    /\ DOMAIN builder = Builders /\ builder = [b \in Builders |-> builder[b]]
    /\ DOMAIN meant = Builders
    /\ \A b \in Builders :
            builder[b] = NoBuilder \/ (IsBuilder(builder[b]) /\ Given(builder[b].res))
    /\ \A b \in Builders :
            builder[b] # NoBuilder /\ builder[b].attached => meant[b] = builder[b]
    /\ committed \in BOOLEAN

LEMMA BuilderInvInit == BuilderInit => BuilderInv
    BY InitInv DEF BuilderInit, BuilderInv

\* What can be staged, and a builder that stages it.
LEMMA GivenRecord ==
    ASSUME NEW type \in Types, NEW blocks, IsBlockMap(blocks), NEW imports \in Seq(ResourceIDs),
           \A s \in DOMAIN blocks : blocks[s].payload # Garbled /\ blocks[s].trailer = <<>>
    PROVE  Given([type |-> type, blocks |-> blocks, imports |-> imports])
    BY DEF Given, IsResource

LEMMA StagedTyped ==
    ASSUME NEW x, IsBuilder(x), NEW y, y.attached \in BOOLEAN, Given(y.res),
           y.name \in DebugNames \cup {NoName},
           y = [attached |-> y.attached, key |-> x.key, name |-> y.name, res |-> y.res]
    PROVE  IsBuilder(y)
    BY DEF IsBuilder, Given

LEMMA GivenParts ==
    ASSUME NEW r, Given(r)
    PROVE  /\ r.type \in Types /\ IsBlockMap(r.blocks) /\ r.imports \in Seq(ResourceIDs)
           /\ \A s \in DOMAIN r.blocks : r.blocks[s].payload # Garbled /\ r.blocks[s].trailer = <<>>
    BY DEF Given, IsResource

\* The fields of a builder, and what the calls of StagingCall change.
LEMMA StagedFields ==
    ASSUME NEW x, IsBuilder(x), NEW blocks, NEW imports, NEW name
    PROVE  /\ x.attached \in BOOLEAN /\ IsBlockMap(x.res.blocks)
           /\ x.res.imports \in Seq(ResourceIDs) /\ x.name \in DebugNames \cup {NoName}
           /\ [x EXCEPT !.res.blocks = blocks] =
                [attached |-> x.attached, key |-> x.key, name |-> x.name,
                 res |-> [type |-> x.res.type, blocks |-> blocks, imports |-> x.res.imports]]
           /\ [x EXCEPT !.res.imports = imports] =
                [attached |-> x.attached, key |-> x.key, name |-> x.name,
                 res |-> [type |-> x.res.type, blocks |-> x.res.blocks, imports |-> imports]]
           /\ [x EXCEPT !.name = name] =
                [attached |-> x.attached, key |-> x.key, name |-> name,
                 res |-> [type |-> x.res.type, blocks |-> x.res.blocks,
                          imports |-> x.res.imports]]
           /\ MovedFrom(x) =
                [attached |-> FALSE, key |-> x.key, name |-> x.name,
                 res |-> [type |-> x.res.type, blocks |-> NoEntries, imports |-> <<>>]]
<1>1. /\ x.attached \in BOOLEAN /\ IsBlockMap(x.res.blocks)
      /\ x.res.imports \in Seq(ResourceIDs) /\ x.name \in DebugNames \cup {NoName}
      /\ x = [attached |-> x.attached, key |-> x.key, res |-> x.res, name |-> x.name]
      /\ x.res = [type |-> x.res.type, blocks |-> x.res.blocks, imports |-> x.res.imports]
  BY DEF IsBuilder, IsResource
<1> DEFINE r(b, i) == [type |-> x.res.type, blocks |-> b, imports |-> i]
<1>2. [x.res EXCEPT !.blocks = blocks] = r(blocks, x.res.imports) BY <1>1
<1>3. [x.res EXCEPT !.imports = imports] = r(x.res.blocks, imports) BY <1>1
<1>4. \A v : [x EXCEPT !.res = v] =
               [attached |-> x.attached, key |-> x.key, name |-> x.name, res |-> v]
  BY <1>1
<1>5. [x EXCEPT !.res.blocks = blocks] = [x EXCEPT !.res = [x.res EXCEPT !.blocks = blocks]]
  BY <1>1
<1>6. [x EXCEPT !.res.imports = imports] = [x EXCEPT !.res = [x.res EXCEPT !.imports = imports]]
  BY <1>1
<1>7. [x EXCEPT !.name = name] = [attached |-> x.attached, key |-> x.key, name |-> name, res |-> x.res]
  BY <1>1
<1>0. PICK no : no = FALSE OBVIOUS
<1> DEFINE detached == [x EXCEPT !.attached = no]
           emptied  == [detached EXCEPT !.res = r(NoEntries, x.res.imports)]
           moved    == [emptied EXCEPT !.res = r(NoEntries, <<>>)]
<1>8. MovedFrom(x) = moved
  <2>1. detached = [attached |-> no, key |-> x.key, name |-> x.name, res |-> x.res] BY <1>1
  <2>2. [detached EXCEPT !.res.blocks = NoEntries] = emptied
    <3> HIDE DEF detached
    <3> QED BY <1>1, <2>1
  <2>3. [emptied EXCEPT !.res.imports = <<>>] = moved
    <3>1. emptied.res = r(NoEntries, x.res.imports) /\ "res" \in DOMAIN emptied BY <2>1
    <3> HIDE DEF emptied
    <3> QED BY <3>1
  <2>4. MovedFrom(x) = [[detached EXCEPT !.res.blocks = NoEntries] EXCEPT !.res.imports = <<>>]
    BY <1>0 DEF MovedFrom
  <2> QED BY <2>2, <2>3, <2>4
<1>9. moved = [attached |-> no, key |-> x.key, name |-> x.name, res |-> r(NoEntries, <<>>)]
  <2>1. detached = [attached |-> no, key |-> x.key, name |-> x.name, res |-> x.res] BY <1>1
  <2>2. emptied = [attached |-> no, key |-> x.key, name |-> x.name,
                   res |-> r(NoEntries, x.res.imports)]
    <3> HIDE DEF detached, r
    <3> QED BY <2>1
  <2> HIDE DEF emptied, r
  <2> QED BY <2>2
<1>10. MovedFrom(x) = [attached |-> FALSE, key |-> x.key, name |-> x.name,
                       res |-> r(NoEntries, <<>>)]
  <2> HIDE DEF moved, r
  <2> QED BY <1>0, <1>8, <1>9, Zenon
<1> QED BY <1>1, <1>2, <1>3, <1>4, <1>5, <1>6, <1>7, <1>10

\* One builder staging something else, which the application meant if the builder
\* is attached.
LEMMA StagedInv ==
    ASSUME BuilderInv, NEW b \in Builders, NEW new, NEW new_meant,
           UNCHANGED <<vars, committed>>,
           builder' = [builder EXCEPT ![b] = new], meant' = [meant EXCEPT ![b] = new_meant],
           IsBuilder(new), Given(new.res), new.attached => new_meant = new
    PROVE  BuilderInv'
<1>1. Inv' BY DEF BuilderInv, Inv, Good, vars, history
<1>2. builder'[b] = new /\ meant'[b] = new_meant BY DEF BuilderInv
<1>3. \A c \in Builders \ {b} : builder'[c] = builder[c] /\ meant'[c] = meant[c]
  BY DEF BuilderInv
<1>4. /\ DOMAIN builder' = Builders /\ builder' = [c \in Builders |-> builder'[c]]
      /\ DOMAIN meant' = Builders
  BY DEF BuilderInv
<1> QED BY <1>1, <1>2, <1>3, <1>4 DEF BuilderInv

\* The calls that stage.
LEMMA BinaryInv ==
    ASSUME BuilderInv, NEW b \in Builders, NEW block \in StagedBlocks,
           Binary(b, block[1], block[2])
    PROVE  BuilderInv'
<1> DEFINE x == builder[b]
           blocks == Put(x.res.blocks, block[1], block[2])
           new == [x EXCEPT !.res.blocks = blocks]
<1>1. /\ x # NoBuilder
      /\ builder' = [builder EXCEPT ![b] = new]
      /\ UNCHANGED <<vars, committed>>
  BY DEF Binary, Stage
<1>2. PICK intended :
          /\ meant' = [meant EXCEPT ![b] = intended]
          /\ meant[b] # NoBuilder /\ meant[b] = x => intended = new
  BY DEF Binary, Stage
<1>3. /\ IsBuilder(x) /\ Given(x.res)
      /\ x.attached => meant[b] = x
  BY <1>1 DEF BuilderInv
<1>4. /\ IsBlockMap(blocks)
      /\ \A s \in DOMAIN blocks : blocks[s].payload # Garbled /\ blocks[s].trailer = <<>>
  <2>1. /\ block[1] \in Slots /\ block[2] \in Block
        /\ block[2].payload # Garbled /\ block[2].trailer = <<>>
    BY BuilderAssumption
  <2>2. IsBlockMap(x.res.blocks) BY <1>3 DEF Given, IsResource
  <2>3. IsBlockMap(blocks) BY <2>1, <2>2, PutDropMap DEF IsBlockMap
  <2>4. \A s \in DOMAIN x.res.blocks :
            x.res.blocks[s].payload # Garbled /\ x.res.blocks[s].trailer = <<>>
    BY <1>3, GivenParts
  <2>5. \A s \in DOMAIN blocks : blocks[s] = block[2] \/ (s \in DOMAIN x.res.blocks /\ blocks[s] = x.res.blocks[s])
    BY DEF Put
  <2> HIDE DEF blocks, x
  <2> QED BY <2>1, <2>3, <2>4, <2>5
<1> HIDE DEF x, blocks
<1>5. /\ x.attached \in BOOLEAN /\ x.res.imports \in Seq(ResourceIDs)
      /\ x.name \in DebugNames \cup {NoName}
      /\ new = [attached |-> x.attached, key |-> x.key, name |-> x.name,
                res |-> [type |-> x.res.type, blocks |-> blocks, imports |-> x.res.imports]]
  BY <1>3, StagedFields
<1> HIDE DEF new
<1>6. IsBuilder(new) /\ Given(new.res) /\ new.attached = x.attached
  <2> DEFINE r == [type |-> x.res.type, blocks |-> blocks, imports |-> x.res.imports]
  <2>1. Given(r) BY <1>3, <1>4, <1>5, GivenParts, GivenRecord
  <2>2. /\ new.res = r /\ new.attached = x.attached /\ new.name = x.name
        /\ new = [attached |-> x.attached, key |-> x.key, name |-> x.name, res |-> r]
    BY <1>5
  <2> HIDE DEF r
  <2> QED BY <1>3, <1>5, <2>1, <2>2, StagedTyped
<1> QED BY <1>1, <1>2, <1>3, <1>6, StagedInv

LEMMA ImportInv ==
    ASSUME BuilderInv, NEW b \in Builders, NEW id \in ResourceIDs, Import(b, id)
    PROVE  BuilderInv'
<1> DEFINE x == builder[b]
           imports == Append(x.res.imports, id)
           new == [x EXCEPT !.res.imports = imports]
<1>1. /\ x # NoBuilder
      /\ builder' = [builder EXCEPT ![b] = new]
      /\ UNCHANGED <<vars, committed>>
  BY DEF Import, Stage
<1>2. PICK intended :
          /\ meant' = [meant EXCEPT ![b] = intended]
          /\ meant[b] # NoBuilder /\ meant[b] = x => intended = new
  BY DEF Import, Stage
<1>3. /\ IsBuilder(x) /\ Given(x.res)
      /\ x.attached => meant[b] = x
  BY <1>1 DEF BuilderInv
<1>4. imports \in Seq(ResourceIDs) BY <1>3 DEF Given, IsResource
<1> HIDE DEF x, imports
<1>5. /\ x.attached \in BOOLEAN /\ IsBlockMap(x.res.blocks)
      /\ x.name \in DebugNames \cup {NoName}
      /\ new = [attached |-> x.attached, key |-> x.key, name |-> x.name,
                res |-> [type |-> x.res.type, blocks |-> x.res.blocks, imports |-> imports]]
  BY <1>3, StagedFields
<1> HIDE DEF new
<1>6. IsBuilder(new) /\ Given(new.res) /\ new.attached = x.attached
  <2> DEFINE r == [type |-> x.res.type, blocks |-> x.res.blocks, imports |-> imports]
  <2>1. Given(r) BY <1>3, <1>4, <1>5, GivenParts, GivenRecord
  <2>2. /\ new.res = r /\ new.attached = x.attached /\ new.name = x.name
        /\ new = [attached |-> x.attached, key |-> x.key, name |-> x.name, res |-> r]
    BY <1>5
  <2> HIDE DEF r
  <2> QED BY <1>3, <1>5, <2>1, <2>2, StagedTyped
<1> QED BY <1>1, <1>2, <1>3, <1>6, StagedInv

LEMMA DebugDataInv ==
    ASSUME BuilderInv, NEW b \in Builders, NEW name \in StagedNames, DebugData(b, name)
    PROVE  BuilderInv'
<1> DEFINE x == builder[b]
           new == [x EXCEPT !.name = name]
<1>1. /\ x # NoBuilder
      /\ builder' = [builder EXCEPT ![b] = new]
      /\ UNCHANGED <<vars, committed>>
  BY DEF DebugData, Stage
<1>2. PICK intended :
          /\ meant' = [meant EXCEPT ![b] = intended]
          /\ meant[b] # NoBuilder /\ meant[b] = x => intended = new
  BY DEF DebugData, Stage
<1>3. /\ IsBuilder(x) /\ Given(x.res) /\ name \in DebugNames
      /\ x.attached => meant[b] = x
  BY <1>1, BuilderAssumption DEF BuilderInv
<1> HIDE DEF x
<1>4. /\ x.attached \in BOOLEAN /\ IsBlockMap(x.res.blocks)
      /\ x.res.imports \in Seq(ResourceIDs)
      /\ new = [attached |-> x.attached, key |-> x.key, name |-> name,
                res |-> [type |-> x.res.type, blocks |-> x.res.blocks,
                         imports |-> x.res.imports]]
  BY <1>3, StagedFields
<1> HIDE DEF new
<1>5. IsBuilder(new) /\ Given(new.res) /\ new.attached = x.attached
  <2> DEFINE r == [type |-> x.res.type, blocks |-> x.res.blocks, imports |-> x.res.imports]
  <2>1. Given(r) BY <1>3, GivenParts, GivenRecord
  <2>2. /\ new.res = r /\ new.attached = x.attached /\ new.name = name
        /\ new = [attached |-> x.attached, key |-> x.key, name |-> name, res |-> r]
    BY <1>4
  <2> HIDE DEF r
  <2> QED BY <1>3, <1>4, <2>1, <2>2, StagedTyped
<1> QED BY <1>1, <1>2, <1>3, <1>5, StagedInv

\* A new builder, and one that is moved.
LEMMA MakeBuilderInv ==
    ASSUME BuilderInv, NEW b \in Builders, NEW k \in Key, NEW type \in StagedTypes,
           MakeBuilder(b, k, type)
    PROVE  BuilderInv'
<1> DEFINE new == NewBuilder(k, type)
<1>1. IsBuilder(new) /\ Given(new.res)
  <2>1. type \in Types BY BuilderAssumption
  <2>2. IsBlockMap(NoEntries) BY NoEntriesTyped DEF IsBlockMap
  <2>3. new.res = [type |-> type, blocks |-> NoEntries, imports |-> <<>>]
    BY DEF NewBuilder
  <2>4. IsResource(new.res) BY <2>1, <2>2, <2>3 DEF IsResource
  <2>5. Given(new.res) BY <2>3, <2>4 DEF Given, NoEntries
  <2>6. new = [attached |-> TRUE, key |-> k, name |-> NoName, res |-> new.res]
    BY DEF NewBuilder
  <2>7. new.attached \in BOOLEAN /\ new.key = k /\ new.name = NoName
    BY DEF NewBuilder
  <2> HIDE DEF new
  <2>8. new = [attached |-> new.attached, key |-> k, name |-> NoName, res |-> new.res]
    BY <2>6
  <2> QED BY <2>4, <2>5, <2>7, <2>8 DEF IsBuilder
<1>2. /\ builder' = [builder EXCEPT ![b] = new] /\ meant' = [meant EXCEPT ![b] = new]
      /\ UNCHANGED <<vars, committed>>
  BY DEF MakeBuilder
<1> HIDE DEF new
<1> QED BY <1>1, <1>2, StagedInv

LEMMA MoveInv ==
    ASSUME BuilderInv, NEW b \in Builders, NEW to \in Builders, Move(b, to)
    PROVE  BuilderInv'
<1>1. /\ b # to /\ builder[b] # NoBuilder /\ UNCHANGED <<vars, committed>>
      /\ builder' = [builder EXCEPT ![to] = builder[b], ![b] = MovedFrom(builder[b])]
      /\ meant' = [meant EXCEPT ![to] = meant[b], ![b] = NoBuilder]
  BY DEF Move, BuilderInv
<1>2. Inv' /\ committed' \in BOOLEAN BY <1>1 DEF BuilderInv, Inv, Good, vars, history
<1>3. IsBuilder(builder[b]) /\ Given(builder[b].res) BY <1>1 DEF BuilderInv
<1>4. /\ IsBuilder(MovedFrom(builder[b])) /\ Given(MovedFrom(builder[b]).res)
      /\ ~MovedFrom(builder[b]).attached
  <2> DEFINE x == builder[b]
             new == MovedFrom(x)
  <2>1. IsBlockMap(NoEntries) BY NoEntriesTyped DEF IsBlockMap
  <2>2. /\ x.name \in DebugNames \cup {NoName}
        /\ new = [attached |-> FALSE, key |-> x.key, name |-> x.name,
                  res |-> [type |-> x.res.type, blocks |-> NoEntries, imports |-> <<>>]]
    BY <1>3, StagedFields
  <2> DEFINE r == [type |-> x.res.type, blocks |-> NoEntries, imports |-> <<>>]
  <2>3. Given(r)
    <3>1. x.res.type \in Types BY <1>3, GivenParts
    <3>2. \A s \in DOMAIN NoEntries :
              NoEntries[s].payload # Garbled /\ NoEntries[s].trailer = <<>>
      BY DEF NoEntries
    <3>3. <<>> \in Seq(ResourceIDs) OBVIOUS
    <3> HIDE DEF x
    <3> QED BY <2>1, <3>1, <3>2, <3>3, GivenRecord
  <2>6. IsBuilder(x) BY <1>3
  <2> HIDE DEF x, new, r
  <2>4. /\ new.res = r /\ new.attached \in BOOLEAN /\ ~new.attached /\ new.name = x.name
        /\ new = [attached |-> new.attached, key |-> x.key, name |-> x.name, res |-> r]
    BY <2>2 DEF r
  <2>5. IsBuilder(new) /\ Given(new.res) /\ ~new.attached
    <3>1. /\ Given(new.res) /\ new.attached \in BOOLEAN /\ new.name \in DebugNames \cup {NoName}
          /\ ~new.attached
      BY <2>2, <2>3, <2>4
    <3>2. new = [attached |-> new.attached, key |-> x.key, name |-> new.name, res |-> new.res]
      BY <2>4
    <3> QED BY <2>6, <3>1, <3>2, StagedTyped
  <2> QED BY <2>5 DEF x, new
<1>5. /\ builder'[b] = MovedFrom(builder[b]) /\ builder'[to] = builder[b]
      /\ meant'[to] = meant[b]
      /\ \A c \in Builders \ {b, to} : builder'[c] = builder[c] /\ meant'[c] = meant[c]
      /\ DOMAIN builder' = Builders /\ builder' = [c \in Builders |-> builder'[c]]
      /\ DOMAIN meant' = Builders
  BY <1>1 DEF BuilderInv
<1> QED BY <1>2, <1>3, <1>4, <1>5 DEF BuilderInv

-----------------------------------------------------------------------------
(* Commit *)

\* A call that fails in AddResource.
LEMMA RefusedIsSame ==
    ASSUME NEW impl, IsImpl(impl), NEW k \in Key, NEW r, IsResource(r), NEW stop,
           ~AddResource(impl, k, r, stop).ok
    PROVE  AddResource(impl, k, r, stop) = [impl |-> impl, ok |-> FALSE]
<1> DEFINE result == AddResource(impl, k, r, stop)
<1>1. result = [impl |-> impl, ok |-> FALSE] \/ result.ok BY AddResourceEffect
<1> QED BY <1>1

\* What is in the bundle once the resource is: its debug data, or not if there
\* was some for the key.
Committed(impl, x, other) ==
    /\ other.fmt = impl.fmt /\ other.flags = FlagsWith(impl, x.key)
    /\ x.key[2] < StreamLimit
    /\ other.entries = Put(impl.entries, x.key, other.entries[x.key])
    /\ CanReadResource(other, x.key)
    /\ ReadResource(other, x.key) = Taken(impl.fmt, x.res)
    /\ \E staged : /\ staged.fmt = impl.fmt
                   /\ other.entries[x.key] =
                        ReplacedEntry(staged, FreshEntry(x.res.type), x.res, Finished)
    /\ IsBnd2(impl.fmt)
       \/ other.imports = StoreSeparateImports(impl.imports, x.key[1], x.res.imports)

LEMMA CommitEffect ==
    ASSUME NEW impl, IsImpl(impl), NEW x, IsBuilder(x), Given(x.res), Fits(impl.fmt, x.res),
           NEW stop, NEW result,
           result = LET added == AddResource(impl, x.key, x.res, stop)
                    IN  IF added.ok /\ x.name # NoName
                        THEN AddResourceDebugData(added.impl, x.key, x.name) ELSE added
    PROVE  \/ result.impl = impl /\ ~result.ok
           \/ /\ IsImpl(result.impl) /\ Committed(impl, x, result.impl)
              /\ \/ /\ result.ok
                    /\ result.impl.debug = IF x.name = NoName THEN impl.debug
                                           ELSE Put(impl.debug, x.key, x.name)
                 \/ /\ ~result.ok /\ x.name # NoName /\ x.key \in DOMAIN impl.debug
                    /\ result.impl.debug = impl.debug
<1> DEFINE added == AddResource(impl, x.key, x.res, stop)
<1>1. /\ x.key \in Key /\ IsResource(x.res) /\ x.name \in DebugNames \cup {NoName}
  BY DEF IsBuilder
<1>2. CASE ~added.ok
  <2>1. added = [impl |-> impl, ok |-> FALSE] BY <1>1, <1>2, RefusedIsSame
  <2>2. result = added BY <1>2
  <2> HIDE DEF added
  <2> QED BY <2>1, <2>2
<1>3. CASE added.ok
  <2>1. IsImpl(added.impl) BY <1>1, AddResourceTyped
  <2>2. /\ x.key[2] < StreamLimit
        /\ added.impl.fmt = impl.fmt /\ added.impl.flags = FlagsWith(impl, x.key)
        /\ added.impl.debug = impl.debug
    BY <1>1, <1>3, AcceptedFields
  <2>3. \A other : /\ other.fmt = impl.fmt /\ other.flags = added.impl.flags
                   /\ other.entries = added.impl.entries /\ other.imports = added.impl.imports
                   => Committed(impl, x, other)
    <3> SUFFICES ASSUME NEW other,
                        other.fmt = impl.fmt, other.flags = added.impl.flags,
                        other.entries = added.impl.entries, other.imports = added.impl.imports
                 PROVE  Committed(impl, x, other)
      OBVIOUS
    <3>1. /\ other.entries = Put(impl.entries, x.key, other.entries[x.key])
          /\ CanReadResource(other, x.key)
          /\ ReadResource(other, x.key) = Taken(impl.fmt, x.res)
      BY <1>1, <1>3, AddedReadsBack
    <3>2. PICK staged :
            /\ staged.fmt = impl.fmt
            /\ added.impl.entries = Put(impl.entries, x.key,
                    ReplacedEntry(staged, FreshEntry(x.res.type), x.res, Finished))
            /\ added.impl.imports = IF IsBnd2(impl.fmt) THEN impl.imports
                    ELSE StoreSeparateImports(impl.imports, x.key[1], x.res.imports)
      BY <1>1, <1>3, AddedEntry
    <3> HIDE DEF added
    <3>3. other.entries[x.key] =
            ReplacedEntry(staged, FreshEntry(x.res.type), x.res, Finished)
      BY <3>2 DEF Put
    <3> QED BY <2>2, <3>1, <3>2, <3>3 DEF Committed
  <2> HIDE DEF added
  <2>4. CASE x.name = NoName
    <3>1. result = added BY <2>4 DEF added
    <3> QED BY <1>3, <2>1, <2>2, <2>3, <2>4, <3>1
  <2>5. CASE x.name # NoName
    <3>1. result = AddResourceDebugData(added.impl, x.key, x.name) BY <1>3, <2>5 DEF added
    <3>2. x.name \in DebugNames BY <1>1, <2>5
    <3>3. IsImpl(result.impl) BY <1>1, <2>1, <3>1, <3>2, AddResourceDebugDataTyped
    <3>4. CASE x.key \in DOMAIN added.impl.debug
      <4>1. result.impl = added.impl /\ ~result.ok BY <3>1, <3>4 DEF AddResourceDebugData
      <4> QED BY <2>1, <2>2, <2>3, <2>5, <3>4, <4>1
    <3>5. CASE x.key \notin DOMAIN added.impl.debug
      <4> DEFINE debug == Put(added.impl.debug, x.key, x.name)
      <4>1. result.ok /\ result.impl = [added.impl EXCEPT !.debug = debug]
        BY <3>1, <3>5 DEF AddResourceDebugData
      <4>2. result.impl = [fmt |-> added.impl.fmt, flags |-> added.impl.flags,
                           entries |-> added.impl.entries, imports |-> added.impl.imports,
                           debug |-> debug, default |-> added.impl.default,
                           names |-> added.impl.names]
        <5> HIDE DEF debug
        <5> QED BY <2>1, <4>1 DEF IsImpl
      <4> HIDE DEF debug
      <4>3. /\ result.impl.fmt = impl.fmt /\ result.impl.flags = added.impl.flags
            /\ result.impl.entries = added.impl.entries
            /\ result.impl.imports = added.impl.imports /\ result.impl.debug = debug
        BY <2>2, <4>2
      <4>4. Committed(impl, x, result.impl) BY <2>3, <4>3
      <4>5. debug = Put(impl.debug, x.key, x.name) BY <2>2 DEF debug
      <4> QED BY <2>5, <3>3, <4>1, <4>3, <4>4, <4>5
    <3> QED BY <3>4, <3>5
  <2> QED BY <2>4, <2>5
<1> QED BY <1>2, <1>3

\* A Commit leaves the bundle as it is or, with a builder that is attached to it
\* and whose resource fits it, takes the resource.
LEMMA CommitCases ==
    ASSUME BuilderInv, NEW b \in Builders, Commit(b)
    PROVE  \/ bundle' = bundle /\ ~committed' /\ lastError' \in ErrorCodes
           \/ /\ Validate(builder[b]) /\ IsImpl(bundle) /\ meant[b] = builder[b]
              /\ IsImpl(bundle') /\ Committed(bundle, builder[b], bundle')
              /\ lastError' \in ErrorCodes
              /\ \/ /\ committed'
                    /\ bundle'.debug = IF builder[b].name = NoName THEN bundle.debug
                                       ELSE Put(bundle.debug, builder[b].key, builder[b].name)
                 \/ /\ ~committed' /\ builder[b].name # NoName
                    /\ builder[b].key \in DOMAIN bundle.debug
                    /\ bundle'.debug = bundle.debug
<1> DEFINE x == builder[b]
<1>1. IsBuilder(x) /\ Given(x.res) /\ (x.attached => meant[b] = x)
  BY DEF Commit, BuilderInv
<1>2. CASE ~Validate(x)
  BY <1>2 DEF Commit, BuilderInv, Inv
<1>3. CASE Validate(x)
  <2>1. IsImpl(bundle) BY <1>3 DEF Validate, IsValid, BuilderInv, Inv, Good
  <2>2. Fits(bundle.fmt, x.res) BY <1>3 DEF Validate, FitsFormat, Fits
  <2>3. PICK result \in CommitResults(x) :
            Report(result, "ValidationFailed") /\ committed' = result.ok
    BY <1>3 DEF Commit
  <2>4. PICK stop \in StopSlots(bundle, x.res) :
            result = LET added == AddResource(bundle, x.key, x.res, stop)
                     IN  IF added.ok /\ x.name # NoName
                         THEN AddResourceDebugData(added.impl, x.key, x.name) ELSE added
    BY <2>3 DEF CommitResults
  <2> HIDE DEF x
  <2>5. \/ result.impl = bundle /\ ~result.ok
        \/ /\ IsImpl(result.impl) /\ Committed(bundle, x, result.impl)
           /\ \/ /\ result.ok
                 /\ result.impl.debug = IF x.name = NoName THEN bundle.debug
                                        ELSE Put(bundle.debug, x.key, x.name)
              \/ /\ ~result.ok /\ x.name # NoName /\ x.key \in DOMAIN bundle.debug
                 /\ result.impl.debug = bundle.debug
    BY <1>1, <2>1, <2>2, <2>4, CommitEffect
  <2>6. bundle' = result.impl /\ lastError' \in ErrorCodes
    BY <2>3 DEF Report, ErrorCodes
  <2>7. committed' = result.ok /\ meant[b] = x
    BY <1>1, <1>3, <2>3 DEF Validate
  <2> QED BY <1>3, <2>1, <2>5, <2>6, <2>7 DEF x
<1> QED BY <1>2, <1>3

\* The result of a call is a Boolean.
LEMMA ResultIsBoolean ==
    ASSUME NEW impl, NEW k, NEW r, NEW stop, NEW name
    PROVE  /\ AddResource(impl, k, r, stop).ok \in BOOLEAN
           /\ AddResourceDebugData(impl, k, name).ok \in BOOLEAN
<1>1. \A other : ReplaceResource(other, k, r, stop).ok \in BOOLEAN
  <2> TAKE other
  <2> DEFINE new == [other EXCEPT
                       !.entries = Put(@, k, ReplacedEntry(other, @[k], r, stop)),
                       !.imports = IF IsBnd2(other.fmt) \/ stop # Finished THEN @
                                   ELSE StoreSeparateImports(@, k[1], r.imports)]
             done == stop = Finished
             result == ReplaceResource(other, k, r, stop)
  <2>1. \/ result = [impl |-> other, ok |-> FALSE]
        \/ result = [impl |-> new, ok |-> done]
    BY DEF ReplaceResource
  <2>2. done \in BOOLEAN OBVIOUS
  <2> HIDE DEF new, done, result
  <2>3. result.ok = FALSE \/ result.ok = done BY <2>1
  <2>4. result.ok \in BOOLEAN BY <2>2, <2>3, Zenon
  <2> QED BY <2>4 DEF result
<1>2. AddResource(impl, k, r, stop).ok \in BOOLEAN
  <2> DEFINE result == AddResource(impl, k, r, stop)
  <2>1. \E other : \/ result = [impl |-> other, ok |-> FALSE]
                   \/ result = ReplaceResource(other, k, r, stop)
    BY DEF AddResource
  <2> HIDE DEF result
  <2>2. result.ok = FALSE \/ \E other : result = ReplaceResource(other, k, r, stop)
    BY <2>1
  <2>3. result.ok \in BOOLEAN BY <1>1, <2>2, Zenon
  <2> QED BY <2>3 DEF result
<1>3. AddResourceDebugData(impl, k, name).ok \in BOOLEAN BY DEF AddResourceDebugData
<1> QED BY <1>2, <1>3

LEMMA CommitInv ==
    ASSUME BuilderInv, NEW b \in Builders, Commit(b)
    PROVE  BuilderInv'
<1> DEFINE x == builder[b]
<1>1. UNCHANGED <<file, torn, savedTorn, builder, meant>> BY DEF Commit, history
<1>2. lastError' \in ErrorCodes BY CommitCases
<1>3. Good(bundle')
  <2>1. CASE bundle' = bundle BY <2>1 DEF BuilderInv, Inv
  <2>2. CASE /\ Validate(x) /\ IsImpl(bundle) /\ IsImpl(bundle')
             /\ Committed(bundle, x, bundle')
    <3>1. bundle'.flags = FlagsWith(bundle, x.key) BY <2>2 DEF Committed
    <3>2. DOMAIN bundle'.entries = DOMAIN bundle.entries \cup {x.key}
      <4>1. \A f, k, v : DOMAIN Put(f, k, v) = DOMAIN f \cup {k} BY DEF Put
      <4>2. bundle'.entries = Put(bundle.entries, x.key, bundle'.entries[x.key])
        BY <2>2 DEF Committed
      <4>3. DOMAIN Put(bundle.entries, x.key, bundle'.entries[x.key])
                = DOMAIN bundle.entries \cup {x.key}
        BY <4>1
      <4> QED BY <4>2, <4>3
    <3>3. NeedsFlag(bundle) \/ bundle = NoImpl BY DEF BuilderInv, Inv, Good
    <3>4. NeedsFlag(bundle)
      <4>1. bundle # NoImpl
        BY <2>2 DEF Validate, IsValid
      <4> QED BY <3>3, <4>1
    <3>5. NeedsFlag(bundle')
      <4> HIDE DEF x
      <4> QED BY <3>1, <3>2, <3>4 DEF NeedsFlag, FlagsWith
    <3> QED BY <2>2, <3>5 DEF Good
  <2> QED BY <2>1, <2>2, CommitCases
<1>4. committed' \in BOOLEAN
  <2>1. CASE committed' = FALSE BY <2>1
  <2>2. ASSUME NEW result \in CommitResults(x), committed' = result.ok PROVE committed' \in BOOLEAN
    BY <2>2, ResultIsBoolean DEF CommitResults
  <2> QED BY <2>1, <2>2 DEF Commit
<1> QED BY <1>1, <1>2, <1>3, <1>4 DEF BuilderInv, Inv

-----------------------------------------------------------------------------
(* The theorems *)

LEMMA AssignBundleInv ==
    ASSUME BuilderInv, NEW profile \in Profiles, AssignBundle(profile)
    PROVE  BuilderInv'
<1>1. profile.fmt \in Format /\ profile.flags \in SUBSET FlagNames BY BuilderAssumption
<1>2. IsImpl(NewImpl(profile.fmt, profile.flags)) BY <1>1, NewImplTyped
<1>3. NeedsFlag(NewImpl(profile.fmt, profile.flags)) BY DEF NeedsFlag, NewImpl, NoEntries
<1>4. Inv'
  BY <1>2, <1>3 DEF AssignBundle, BuilderInv, Inv, Good, ErrorCodes
<1> QED BY <1>4 DEF AssignBundle, builderVars, BuilderInv

\* Every step keeps the invariant.
LEMMA BuilderInvStep == BuilderInv /\ [BuilderNext]_allVars => BuilderInv'
<1> SUFFICES ASSUME BuilderInv, [BuilderNext]_allVars PROVE BuilderInv' OBVIOUS
<1>1. ASSUME [Next]_vars, UNCHANGED builderVars PROVE BuilderInv'
  <2>1. Inv' BY <1>1, StepInv DEF BuilderInv
  <2> QED BY <1>1, <2>1 DEF BuilderInv, builderVars
<1>2. CASE UNCHANGED allVars BY <1>1, <1>2 DEF allVars
<1>3. ASSUME NEW b \in Builders, StagingCall(b) PROVE BuilderInv'
  BY <1>3, BinaryInv, ImportInv, DebugDataInv, MakeBuilderInv, MoveInv DEF StagingCall
<1> QED BY <1>1, <1>2, <1>3, AssignBundleInv, CommitInv DEF BuilderNext

\* Every state the builders reach is typed.
THEOREM BuildersAreTyped == BuilderSpec => []BuilderTypeOK
<1>1. BuilderInv => BuilderTypeOK
  BY InvImplies DEF BuilderInv, BuilderTypeOK
<1> QED BY <1>1, BuilderInvInit, BuilderInvStep, PTL DEF BuilderSpec

\* A Commit that succeeds puts into the bundle what the application has staged,
\* whole, and one that fails nothing or the resource without its debug data;
\* whatever happened to the bundle and to the builder before (builder.cpp:144-157).
THEOREM CommitsAreWhole == BuilderSpec => CommitIsWhole
<1> DEFINE AllWhole == \A b \in Builders : Commit(b) => TakesWhole(b)
<1>1. ASSUME BuilderInv PROVE AllWhole
  <2> SUFFICES ASSUME NEW b \in Builders, Commit(b) PROVE TakesWhole(b) OBVIOUS
  <2>1. builder[b] # NoBuilder BY DEF Commit
  <2>2. Committed(bundle, builder[b], bundle') => HoldsWhole(builder[b])
    BY DEF Committed, HoldsWhole
  <2> QED BY <1>1, <2>1, <2>2, CommitCases DEF TakesWhole
<1>2. BuilderInv /\ [BuilderNext]_allVars => [AllWhole]_allVars BY <1>1
<1> HIDE DEF AllWhole
<1>3. BuilderSpec => [][AllWhole]_allVars
  BY <1>2, BuilderInvInit, BuilderInvStep, PTL DEF BuilderSpec
<1> QED BY <1>3 DEF AllWhole, CommitIsWhole

\* A Commit leaves a bundle that Save accepts such a bundle: the multistream flag
\* is set only where the format has it (builder.cpp:178-206).
THEOREM CommitsKeepSavable == EmptyIsNoObject => (BuilderSpec => CommitKeepsSavable)
<1> DEFINE Keeps == \A b \in Builders : Commit(b) /\ Savable => Savable'
<1> SUFFICES ASSUME EmptyIsNoObject PROVE BuilderSpec => CommitKeepsSavable OBVIOUS
<1>1. ASSUME BuilderInv PROVE Keeps
  <2> SUFFICES ASSUME NEW b \in Builders, Commit(b), Savable PROVE Savable' OBVIOUS
  <2>1. CASE bundle' = bundle BY <2>1 DEF Savable, IsValid
  <2>2. CASE /\ Validate(builder[b]) /\ IsImpl(bundle')
             /\ Committed(bundle, builder[b], bundle')
    <3> DEFINE stream == builder[b].key[2]
    <3>1. CarriesStream(bundle.fmt, stream) BY <2>2 DEF Validate
    <3>2. /\ bundle'.fmt = bundle.fmt
          /\ bundle'.flags = IF stream # 0 THEN bundle.flags \cup {"MultistreamBundle"}
                             ELSE bundle.flags
      BY <2>2 DEF Committed, FlagsWith
    <3>3. SaveVerdict(bundle.fmt, bundle.flags) = "Success" BY DEF Savable
    <3>4. AcceptsFlags(bundle.fmt, bundle.flags) BY <3>3 DEF SaveVerdict
    <3> HIDE DEF stream
    <3>5. AcceptsFlags(bundle'.fmt, bundle'.flags)
      <4>1. CASE stream = 0 BY <3>2, <3>4, <4>1
      <4>2. CASE stream # 0
        <5>1. IsBnd2(bundle.fmt) /\ bundle.fmt.version \in {3, 5}
          BY <3>1, <3>3, <4>2 DEF CarriesStream, SaveVerdict, IsValidVersion
        <5>2. bundle'.flags = bundle.flags \cup {"MultistreamBundle"} BY <3>2, <4>2
        <5>3. FlagBit["MultistreamBundle"] = 5 BY DEF FlagBit
        <5> QED BY <3>2, <3>4, <5>1, <5>2, <5>3 DEF AcceptsFlags
      <4> QED BY <4>1, <4>2
    <3>6. SaveVerdict(bundle'.fmt, bundle'.flags) = "Success"
      BY <3>2, <3>3, <3>5 DEF SaveVerdict
    <3>7. bundle' # NoImpl BY <2>2 DEF EmptyIsNoObject
    <3> QED BY <3>6, <3>7 DEF Savable, IsValid
  <2> QED BY <1>1, <2>1, <2>2, CommitCases
<1>2. BuilderInv /\ [BuilderNext]_allVars => [Keeps]_allVars BY <1>1
<1> HIDE DEF Keeps
<1>3. BuilderSpec => [][Keeps]_allVars
  BY <1>2, BuilderInvInit, BuilderInvStep, PTL DEF BuilderSpec
<1> QED BY <1>3 DEF Keeps, CommitKeepsSavable
-----------------------------------------------------------------------------
(* A committed resource in a file *)

\* The powers of two that Validate lets through for BND2 are those that 4 bits of
\* exponent can tell.
LEMMA SmallPowers ==
    ASSUME NEW a \in PowersOfTwo, a <= 2^15
    PROVE  a \in DiskAlignments
<1>1. PICK e \in 0 .. 30 : a = 2^e BY DEF PowersOfTwo
<1> DEFINE pow == [n \in 0 .. 30 |-> 2^n]
<1>2. /\ pow[15] = 32768 /\ pow[16] = 65536 /\ pow[17] = 131072 /\ pow[18] = 262144
      /\ pow[19] = 524288 /\ pow[20] = 1048576 /\ pow[21] = 2097152 /\ pow[22] = 4194304
      /\ pow[23] = 8388608 /\ pow[24] = 16777216 /\ pow[25] = 33554432
      /\ pow[26] = 67108864 /\ pow[27] = 134217728 /\ pow[28] = 268435456
      /\ pow[29] = 536870912 /\ pow[30] = 1073741824
  BY SMT
<1>3. pow[e] <= pow[15]
  <2>1. \A x, y : x = pow[e] /\ y = pow[15] => x <= y BY <1>1, SMT
  <2> QED BY <2>1, SMT
<1> HIDE DEF pow
<1>4. \/ e \in 0 .. 15 \/ e = 16 \/ e = 17 \/ e = 18 \/ e = 19 \/ e = 20 \/ e = 21
      \/ e = 22 \/ e = 23 \/ e = 24 \/ e = 25 \/ e = 26 \/ e = 27 \/ e = 28 \/ e = 29
      \/ e = 30
  BY SMT
<1>5. e \in 0 .. 15 BY <1>2, <1>3, <1>4, SMTT(60)
<1> QED BY <1>1, <1>5, Zenon DEF DiskAlignments

\* What Validate checks is what a file keeps: the committed resource comes back.
LEMMA CommittedComesBack ==
    ASSUME EmptyIsNoObject, NEW impl, NEW x, IsBuilder(x), Given(x.res), NEW other,
           IsImpl(other), NeedsFlag(other), Committed(impl, x, other),
           FitsFormat(other.fmt, x.res.blocks),
           SaveVerdict(other.fmt, other.flags) = "Success",
           ReservedKeys(other.fmt) \cap DOMAIN other.entries = {}
    PROVE  ComesBack(other, x.key, x.res)
<1> DEFINE r == x.res
           k == x.key
           e == other.entries[k]
<1>1. PICK staged :
        /\ staged.fmt = other.fmt
        /\ e = ReplacedEntry(staged, FreshEntry(r.type), r, Finished)
  BY DEF Committed
<1>2. /\ k \in DOMAIN other.entries /\ CanReadResource(other, k)
      /\ ReadResource(other, k) = Taken(other.fmt, r)
  BY DEF Committed, Put
<1>3. /\ r.imports \in Seq(ResourceIDs) /\ IsBlockMap(r.blocks)
      /\ \A s \in DOMAIN r.blocks : r.blocks[s] \in Block
  BY DEF Given, IsResource, IsBlockMap, IsMap
<1>4. KeepsImports(other.fmt, e) BY <1>1, ReplacedKeepsImports
<1>5. IsBnd2(other.fmt) \/ CountsList(other, k)
  <2> SUFFICES ASSUME ~IsBnd2(other.fmt), e.importCount = 0
               PROVE  k[1] \notin DOMAIN other.imports
    BY DEF CountsList
  <2>1. e.importCount = Len(r.imports) BY <1>1 DEF ReplacedEntry, CountsImports
  <2>2. r.imports = <<>> BY <1>3, <2>1
  <2>3. other.imports = StoreSeparateImports(impl.imports, k[1], r.imports) BY DEF Committed
  <2> HIDE DEF r, k
  <2> QED BY <2>2, <2>3 DEF StoreSeparateImports, Drop
<1>6. /\ e.type = r.type
      /\ \A s \in DOMAIN r.blocks :
            /\ s \in MemoryTypes(other.fmt) \cap DOMAIN e.blocks
            /\ e.blocks[s].payload = r.blocks[s].payload
            /\ e.blocks[s].align = r.blocks[s].align
  <2>1. \A s \in MemoryTypes(other.fmt) : s < Finished
    BY MemoryTypesAreSlots DEF Slots, Finished
  <2>2. e.type = r.type BY <1>1 DEF ReplacedEntry, FreshEntry
  <2>3. ASSUME NEW s \in DOMAIN r.blocks
        PROVE  /\ s \in MemoryTypes(other.fmt) \cap DOMAIN e.blocks
               /\ e.blocks[s] = StoredBlock(other.fmt, r, s)
    BY <1>1, <2>1 DEF FitsFormat, ReplacedEntry
  <2>4. ASSUME NEW s \in DOMAIN r.blocks
        PROVE  /\ StoredBlock(other.fmt, r, s).payload = r.blocks[s].payload
               /\ StoredBlock(other.fmt, r, s).align = r.blocks[s].align
    BY <1>3 DEF StoredBlock, Block
  <2> HIDE DEF e, r
  <2> QED BY <2>2, <2>3, <2>4
<1>7. ReadImports(other, k) = Taken(other.fmt, r).imports
  <2>1. ReadResource(other, k).imports = ReadImports(other, k) BY DEF ReadResource
  <2> QED BY <1>2, <2>1
<1>8. SUFFICES ASSUME NEW img \in Images(other), NEW result \in Loads(img)
               PROVE  LET got == ReadResource(result.impl, k)
                      IN  /\ result.code = "Success" /\ k \in Readable(result.impl)
                          /\ got.type = r.type /\ got.imports = Taken(other.fmt, r).imports
                          /\ \A s \in DOMAIN r.blocks : r.blocks[s].payload # Empty =>
                                /\ s \in DOMAIN got.blocks
                                /\ got.blocks[s].payload = r.blocks[s].payload
                                /\ IsBnd2(other.fmt) \/ IsCompressed(other) =>
                                        got.blocks[s].align = r.blocks[s].align
  BY Zenon DEF ComesBack
<1>9. img \in CutImages(other) BY DEF CutImages
<1> DEFINE loaded == Loaded(img)
           sized == {s \in MemoryTypes(other.fmt) \cap DOMAIN e.blocks :
                        HasSize(other, e.blocks[s])}
           back(s) == [payload |-> e.blocks[s].payload, trailer |-> <<>>,
                       align |-> SavedAlignment(other, e, s)]
<1>10. result.code = "Success" /\ result.impl = loaded
  <2>1. result = LoadSuccess(loaded) BY <1>9, Reloaded
  <2> HIDE DEF loaded
  <2> QED BY <2>1 DEF LoadSuccess
<1>11. /\ CanReadResource(loaded, k)
       /\ ReadResource(loaded, k) = [type |-> e.type, blocks |-> [s \in sized |-> back(s)],
                                     imports |-> ReadImports(other, k)]
  BY <1>2, <1>4, <1>5, <1>9, SavedRead
<1>12. k \in Readable(loaded)
  <2>1. IsImage(img) BY <1>9, ImageTyped
  <2>2. loaded # NoImpl
    BY <2>1, LoadedBnd2Typed, LoadedBndlTyped DEF Loaded, EmptyIsNoObject
  <2>3. k \in DOMAIN loaded.entries BY <1>2, <1>9, ReadableReloaded
  <2> QED BY <1>11, <2>2, <2>3 DEF Readable, Held
<1>13. ASSUME NEW s \in DOMAIN r.blocks, r.blocks[s].payload # Empty
       PROVE  /\ s \in sized /\ back(s).payload = r.blocks[s].payload
              /\ IsBnd2(other.fmt) \/ IsCompressed(other) => back(s).align = r.blocks[s].align
  <2>1. s \in sized BY <1>6, <1>13 DEF HasSize
  <2>2. IsBnd2(other.fmt) => OnDiskAlignment(r.blocks[s].align) = r.blocks[s].align
    BY SmallPowers, AlignmentWritten DEF FitsFormat
  <2>3. IsBnd2(other.fmt) \/ IsCompressed(other)
            => SavedAlignment(other, e, s) = r.blocks[s].align
    BY <1>6, <1>13, <2>2 DEF SavedAlignment
  <2> QED BY <1>6, <2>1, <2>3
<1> HIDE DEF loaded, sized, e, r, k
<1> QED BY <1>6, <1>7, <1>10, <1>11, <1>12, <1>13

\* A resource that a Commit has accepted comes back from a file as it was staged:
\* Validate lets no alignment, memory type or stream through that Save changes
\* (builder.cpp:178-206).
THEOREM CommitsSurviveSave == EmptyIsNoObject => (BuilderSpec => CommittedSurvivesSave)
<1> DEFINE Survives ==
        \A b \in Builders :
            /\ Commit(b) /\ committed' /\ Savable'
            /\ \A k \in Held(bundle') : /\ k \notin ReservedKeys(bundle'.fmt)
                                        /\ CarriesStream(bundle'.fmt, k[2])
            => ComesBack(bundle', builder[b].key, builder[b].res)
<1> SUFFICES ASSUME EmptyIsNoObject PROVE BuilderSpec => CommittedSurvivesSave OBVIOUS
<1>1. ASSUME BuilderInv, BuilderInv' PROVE Survives
  <2> SUFFICES ASSUME NEW b \in Builders, Commit(b), committed', Savable',
                      \A k \in Held(bundle') : k \notin ReservedKeys(bundle'.fmt)
               PROVE  ComesBack(bundle', builder[b].key, builder[b].res)
    OBVIOUS
  <2>1. /\ Validate(builder[b]) /\ IsImpl(bundle') /\ Committed(bundle, builder[b], bundle')
    BY <1>1, CommitCases
  <2>2. IsBuilder(builder[b]) /\ Given(builder[b].res) BY <1>1 DEF Commit, BuilderInv
  <2>3. bundle'.fmt = bundle.fmt /\ FitsFormat(bundle'.fmt, builder[b].res.blocks)
    BY <2>1 DEF Committed, Validate
  <2>4. bundle' # NoImpl BY <2>1 DEF EmptyIsNoObject
  <2>5. NeedsFlag(bundle') /\ SaveVerdict(bundle'.fmt, bundle'.flags) = "Success"
    BY <1>1, <2>4 DEF BuilderInv, Inv, Good, Savable
  <2>6. ReservedKeys(bundle'.fmt) \cap DOMAIN bundle'.entries = {} BY <2>4 DEF Held
  <2> QED BY <2>1, <2>2, <2>3, <2>5, <2>6, CommittedComesBack
<1>2. BuilderInv /\ BuilderInv' /\ [BuilderNext]_allVars => [Survives]_allVars BY <1>1
<1> HIDE DEF Survives
<1>3. BuilderSpec => [][Survives]_allVars
  BY <1>2, BuilderInvInit, BuilderInvStep, PTL DEF BuilderSpec
<1> QED BY <1>3 DEF Survives, CommittedSurvivesSave
=============================================================================
