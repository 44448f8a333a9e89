---------------------------- MODULE ContainerProofs ----------------------------
(***************************************************************************)
(* Lemmas about the operators of Container: what each member function      *)
(* keeps of the object's type, and which entries it changes.               *)
(***************************************************************************)
EXTENDS Container, FiniteSetsExt, FiniteSetTheorems, WellFoundedInduction, TLAPS

-----------------------------------------------------------------------------
(* Least and greatest elements *)

\* Every set of naturals with a member has a least one.
LEMMA MinExists ==
    ASSUME NEW S \in SUBSET Nat, S # {}
    PROVE  \E m \in S : \A x \in S : m <= x
<1> DEFINE R == OpToRel(<, Nat)
<1>1. IsWellFoundedOn(R, Nat) BY NatLessThanWellFounded
<1>2. ASSUME NEW x \in Nat, NEW y \in Nat, y < x PROVE <<y, x>> \in R
  <2>1. <<y, x>> \in Nat \X Nat OBVIOUS
  <2>2. <<y, x>>[1] < <<y, x>>[2] BY <1>2
  <2> QED BY <2>1, <2>2, Zenon DEF OpToRel
<1> HIDE DEF R
<1>3. PICK x \in S : \A y \in S : ~(<<y, x>> \in R) BY <1>1, WFMin
<1>4. \A y \in S : ~(y < x) BY <1>2, <1>3
<1> QED BY <1>4

\* Every bounded set of naturals with a member has a greatest one.
LEMMA MaxExists ==
    ASSUME NEW n \in Nat, NEW S \in SUBSET (0 .. n), S # {}
    PROVE  \E m \in S : \A x \in S : m >= x
<1> DEFINE T == {n - i : i \in S}
<1>1. T \in SUBSET Nat /\ T # {}
  <2>1. \A i \in S : n - i \in Nat OBVIOUS
  <2>2. PICK i \in S : TRUE OBVIOUS
  <2>3. n - i \in T BY <2>2
  <2> QED BY <2>1, <2>3
<1>2. PICK m \in T : \A x \in T : m <= x
  <2> HIDE DEF T
  <2> QED BY <1>1, MinExists
<1>3. PICK i \in S : m = n - i BY <1>2
<1>4. \A x \in S : i >= x BY <1>2, <1>3
<1> QED BY <1>4

\* Min returns a member of the set.
LEMMA MinIn == ASSUME NEW S \in SUBSET Nat, S # {} PROVE Min(S) \in S
    BY MinExists DEF Min

\* Max returns a member of the set.
LEMMA MaxIn == ASSUME NEW n \in Nat, NEW S \in SUBSET (0 .. n), S # {} PROVE Max(S) \in S
    BY MaxExists DEF Max

-----------------------------------------------------------------------------
(* Maps *)

\* Inserting into a map and erasing from it.
LEMMA PutDrop ==
    ASSUME NEW f, NEW x, NEW v
    PROVE  /\ DOMAIN Put(f, x, v) = DOMAIN f \cup {x}
           /\ Put(f, x, v)[x] = v
           /\ \A y \in DOMAIN f : y # x => Put(f, x, v)[y] = f[y]
           /\ DOMAIN Drop(f, x) = DOMAIN f \ {x}
           /\ \A y \in DOMAIN f : y # x => Drop(f, x)[y] = f[y]
    BY DEF Put, Drop

\* Maps of a type stay in it.
LEMMA PutDropMap ==
    ASSUME NEW D, NEW R, NEW f, IsMap(f, D, R), NEW x \in D
    PROVE  /\ \A v \in R : IsMap(Put(f, x, v), D, R)
           /\ IsMap(Drop(f, x), D, R)
    BY DEF Put, Drop, IsMap

\* The empty map is of every map type.
LEMMA NoEntriesTyped ==
    /\ IsEntries(NoEntries)
    /\ \A D, R : IsMap(NoEntries, D, R)
    BY DEF NoEntries, IsEntries, IsMap

\* Inserting a typed entry and erasing one keep the entries typed.
LEMMA EntriesPutDrop ==
    ASSUME NEW f, IsEntries(f), NEW k \in Key
    PROVE  /\ \A e : IsEntry(e) => IsEntries(Put(f, k, e))
           /\ IsEntries(Drop(f, k))
    BY DEF Put, Drop, IsEntries

\* Erasing what was just inserted gives the map back.
LEMMA DropPut ==
    ASSUME NEW f, f = [y \in DOMAIN f |-> f[y]], NEW x, x \notin DOMAIN f, NEW v, NEW w
    PROVE  /\ Drop(Put(f, x, v), x) = f
           /\ Drop(Put(Put(f, x, v), x, w), x) = f
           /\ Put(Put(f, x, v), x, w) = Put(f, x, w)
    BY DEF Put, Drop

-----------------------------------------------------------------------------
(* Types *)

\* The fields of an object, and the objects made from it by changing one.
LEMMA ImplFields ==
    ASSUME NEW impl, IsImpl(impl)
    PROVE  /\ impl.fmt \in Format /\ impl.flags \subseteq FlagNames
           /\ IsEntries(impl.entries) /\ IsImportLists(impl.imports)
           /\ IsDebugData(impl.debug)
           /\ impl.default \in DefaultKey /\ impl.names \in StreamTable
           /\ impl = [fmt |-> impl.fmt, flags |-> impl.flags, entries |-> impl.entries,
                      imports |-> impl.imports, debug |-> impl.debug,
                      default |-> impl.default, names |-> impl.names]
    BY DEF IsImpl

\* An object with typed fields is typed.
LEMMA ImplTyped ==
    ASSUME NEW fmt \in Format, NEW flags \in SUBSET FlagNames,
           NEW entries, IsEntries(entries), NEW imports, IsImportLists(imports),
           NEW debug, IsDebugData(debug), NEW default \in DefaultKey, NEW names \in StreamTable
    PROVE  IsImpl([fmt |-> fmt, flags |-> flags, entries |-> entries, imports |-> imports,
                   debug |-> debug, default |-> default, names |-> names])
    BY DEF IsImpl

\* Changing fields with EXCEPT is making such an object.
LEMMA ImplExcept ==
    ASSUME NEW impl, IsImpl(impl), NEW a, NEW b
    PROVE  /\ [impl EXCEPT !.entries = a, !.imports = b] =
                [fmt |-> impl.fmt, flags |-> impl.flags, entries |-> a, imports |-> b,
                 debug |-> impl.debug, default |-> impl.default, names |-> impl.names]
           /\ [impl EXCEPT !.entries = a, !.flags = b] =
                [fmt |-> impl.fmt, flags |-> b, entries |-> a, imports |-> impl.imports,
                 debug |-> impl.debug, default |-> impl.default, names |-> impl.names]
<1> DEFINE one == [impl EXCEPT !.entries = a]
<1>1. one = [fmt |-> impl.fmt, flags |-> impl.flags, entries |-> a, imports |-> impl.imports,
             debug |-> impl.debug, default |-> impl.default, names |-> impl.names]
  BY DEF IsImpl
<1>2. /\ [impl EXCEPT !.entries = a, !.imports = b] = [one EXCEPT !.imports = b]
      /\ [impl EXCEPT !.entries = a, !.flags = b] = [one EXCEPT !.flags = b]
  OBVIOUS
<1> HIDE DEF one
<1>3. [one EXCEPT !.imports = b] =
        [fmt |-> impl.fmt, flags |-> impl.flags, entries |-> a, imports |-> b,
         debug |-> impl.debug, default |-> impl.default, names |-> impl.names]
  BY <1>1
<1>4. [one EXCEPT !.flags = b] =
        [fmt |-> impl.fmt, flags |-> b, entries |-> a, imports |-> impl.imports,
         debug |-> impl.debug, default |-> impl.default, names |-> impl.names]
  BY <1>1
<1> QED BY <1>2, <1>3, <1>4

\* The parts of a key.
LEMMA KeyParts ==
    ASSUME NEW k \in Key
    PROVE  /\ k[1] \in ResourceIDs /\ k[2] \in StreamIndices /\ k[2] \in 0..255
           /\ k = <<k[1], k[2]>>
<1>1. k[1] \in ResourceIDs /\ k[2] \in StreamIndices BY DEF Key
<1>2. k = <<k[1], k[2]>> BY DEF Key
<1> QED BY <1>1, <1>2, ContainerAssumption

\* The fields of a typed entry.
LEMMA EntryTyped ==
    ASSUME NEW type \in Types, NEW blocks, IsBlockMap(blocks), NEW count \in Nat,
           NEW offset \in Nat, NEW aligns \in [Slots -> Alignments]
    PROVE  IsEntry([type |-> type, blocks |-> blocks, importCount |-> count,
                    importOffset |-> offset, diskAligns |-> aligns])
    BY DEF IsEntry

\* The Bundle constructor makes a typed object.
LEMMA NewImplTyped ==
    ASSUME NEW fmt \in Format, NEW flags \in SUBSET FlagNames
    PROVE  IsImpl(NewImpl(fmt, flags))
<1>1. NoDefault \in DefaultKey BY DEF DefaultKey
<1>2. [i \in 0 .. StreamLimit - 1 |-> ""] \in StreamTable BY DEF StreamTable, StreamLimit
<1> QED BY <1>1, <1>2, NoEntriesTyped, ImplTyped DEF NewImpl, IsImportLists, IsDebugData

\* The entry AddResource begins with is typed.
LEMMA FreshEntryTyped ==
    ASSUME NEW type \in Types PROVE IsEntry(FreshEntry(type))
<1>1. 1 \in Alignments BY ContainerAssumption
<1> QED BY <1>1, NoEntriesTyped DEF FreshEntry, IsEntry, IsBlockMap

\* A platform's memory types are slots of a resource.
LEMMA MemoryTypesAreSlots ==
    ASSUME NEW fmt
    PROVE  /\ MemoryTypes(fmt) \subseteq Slots /\ MainMemory \in MemoryTypes(fmt)
    BY DEF MemoryTypes, BaseMemoryTypes, Slots, MainMemory, Graphics, Graphics2, Disposable

\* A replacement stops at a slot or finishes.
LEMMA StopSlotsBound ==
    ASSUME NEW impl, NEW r, NEW stop \in StopSlots(impl, r)
    PROVE  stop \in 0 .. 4
    BY MemoryTypesAreSlots DEF StopSlots, CompressedSlots, Finished, Slots

\* A buffer stays typed when BND2 appends the imports to it.
LEMMA StoredBlockTyped ==
    ASSUME NEW fmt, NEW r, IsResource(r), NEW s \in DOMAIN r.blocks
    PROVE  /\ StoredBlock(fmt, r, s) \in Block
           /\ StoredBlock(fmt, r, s).payload = r.blocks[s].payload
    BY DEF StoredBlock, IsResource, IsBlockMap, IsMap, Block

-----------------------------------------------------------------------------
(* Replacing *)

\* The blocks of a replaced entry are new or old ones.
LEMMA ReplacedBlocks ==
    ASSUME NEW impl, NEW e, IsEntry(e), NEW r, IsResource(r), NEW stop
    PROVE  LET b == ReplacedEntry(impl, e, r, stop).blocks
           IN  /\ DOMAIN b \subseteq Slots
               /\ \A s \in DOMAIN b :
                    \/ s \in DOMAIN r.blocks /\ b[s] = StoredBlock(impl.fmt, r, s)
                    \/ s \in DOMAIN e.blocks /\ b[s] = e.blocks[s]
    BY DEF ReplacedEntry, IsEntry, IsResource, IsBlockMap, IsMap

\* A replaced entry is typed wherever the replacement stops.
LEMMA ReplacedEntryTyped ==
    ASSUME NEW impl, NEW e, IsEntry(e), NEW r, IsResource(r), NEW stop
    PROVE  IsEntry(ReplacedEntry(impl, e, r, stop))
<1> DEFINE new == ReplacedEntry(impl, e, r, stop)
<1>1. IsBlockMap(new.blocks)
  <2>1. \A s \in DOMAIN new.blocks : new.blocks[s] \in Block
    BY ReplacedBlocks, StoredBlockTyped DEF IsEntry, IsBlockMap, IsMap
  <2>2. new.blocks = [s \in DOMAIN new.blocks |-> new.blocks[s]]
    BY DEF ReplacedEntry
  <2> QED BY <2>1, <2>2, ReplacedBlocks DEF IsBlockMap, IsMap
<1>2. new.importCount \in Nat /\ new.importOffset \in Nat
  <2>1. Len(r.imports) \in Nat BY DEF IsResource
  <2>2. MainMemory \in DOMAIN r.blocks => Size[r.blocks[MainMemory].payload] \in Nat
    BY ContainerAssumption DEF IsResource, IsBlockMap, IsMap, Block
  <2> QED BY <2>1, <2>2 DEF ReplacedEntry, OffsetFor
<1>3. new.type \in Types BY DEF ReplacedEntry, IsEntry
<1>4. new.diskAligns \in [Slots -> Alignments]
  BY ContainerAssumption DEF ReplacedEntry, IsEntry
<1>5. new = [type |-> new.type, blocks |-> new.blocks, importCount |-> new.importCount,
             importOffset |-> new.importOffset, diskAligns |-> new.diskAligns]
  BY DEF ReplacedEntry
<1>6. IsEntry(new)
  <2> HIDE DEF new
  <2> QED BY <1>1, <1>2, <1>3, <1>4, <1>5, EntryTyped
<1> QED BY <1>6

\* BNDL's import lists stay typed.
LEMMA StoreSeparateImportsTyped ==
    ASSUME NEW imports, IsImportLists(imports), NEW id \in ResourceIDs,
           NEW list \in Seq(ResourceIDs)
    PROVE  IsImportLists(StoreSeparateImports(imports, id, list))
    BY PutDropMap DEF IsImportLists, StoreSeparateImports

\* What ReplaceResource makes of an object: the same one, or one with a new
\* entry under the same key and, in BNDL, a new import list.
LEMMA ReplaceResourceEffect ==
    ASSUME NEW impl, IsImpl(impl), NEW k \in Key, NEW r, IsResource(r), NEW stop
    PROVE  LET result == ReplaceResource(impl, k, r, stop)
           IN  \/ result = [impl |-> impl, ok |-> FALSE]
               \/ /\ k \in DOMAIN impl.entries /\ k[2] < StreamLimit
                  /\ result.ok <=> stop = Finished
                  /\ \E imports :
                        /\ IsImportLists(imports)
                        /\ ~result.ok => imports = impl.imports
                        /\ result.impl =
                            [fmt |-> impl.fmt, flags |-> impl.flags,
                             entries |-> Put(impl.entries, k,
                                ReplacedEntry(impl, impl.entries[k], r, stop)),
                             imports |-> imports, debug |-> impl.debug,
                             default |-> impl.default, names |-> impl.names]
<1>1. CASE k \notin DOMAIN impl.entries \/ Len(r.imports) > ImportLimit \/ k[2] >= StreamLimit
  BY <1>1 DEF ReplaceResource
<1>2. CASE ~(k \notin DOMAIN impl.entries \/ Len(r.imports) > ImportLimit \/ k[2] >= StreamLimit)
  <2> DEFINE imports == IF IsBnd2(impl.fmt) \/ stop # Finished THEN impl.imports
                        ELSE StoreSeparateImports(impl.imports, k[1], r.imports)
             entries == Put(impl.entries, k, ReplacedEntry(impl, impl.entries[k], r, stop))
             result  == ReplaceResource(impl, k, r, stop)
  <2>1. result = [impl |-> [impl EXCEPT !.entries = entries, !.imports = imports],
                  ok |-> stop = Finished]
    BY <1>2 DEF ReplaceResource
  <2>2. IsImportLists(imports)
    BY ImplFields, StoreSeparateImportsTyped DEF Key, IsResource
  <2>3. k[2] < StreamLimit /\ k \in DOMAIN impl.entries
    <3>1. ~(k[2] >= StreamLimit) BY <1>2
    <3>2. k[2] \in 0 .. 255 BY KeyParts
    <3>3. k[2] < StreamLimit BY <3>1, <3>2 DEF StreamLimit
    <3>4. k \in DOMAIN impl.entries BY <1>2
    <3> QED BY <3>3, <3>4
  <2>4. ~(stop = Finished) => imports = impl.imports OBVIOUS
  <2>5. result.impl = [fmt |-> impl.fmt, flags |-> impl.flags, entries |-> entries,
                       imports |-> imports, debug |-> impl.debug,
                       default |-> impl.default, names |-> impl.names]
    <3> HIDE DEF imports, entries, result
    <3> QED BY <2>1, ImplExcept
  <2>6. result.ok <=> stop = Finished
    <3> HIDE DEF imports, entries, result
    <3> QED BY <2>1
  <2> HIDE DEF imports
  <2> QED BY <2>2, <2>3, <2>4, <2>5, <2>6
<1> QED BY <1>1, <1>2

\* ReplaceResource keeps the object typed.
LEMMA ReplaceResourceTyped ==
    ASSUME NEW impl, IsImpl(impl), NEW k \in Key, NEW r, IsResource(r), NEW stop
    PROVE  IsImpl(ReplaceResource(impl, k, r, stop).impl)
<1> DEFINE result == ReplaceResource(impl, k, r, stop)
           entries == Put(impl.entries, k, ReplacedEntry(impl, impl.entries[k], r, stop))
<1>1. CASE result = [impl |-> impl, ok |-> FALSE] BY <1>1
<1>2. CASE ~(result = [impl |-> impl, ok |-> FALSE])
  <2>1. k \in DOMAIN impl.entries BY <1>2, ReplaceResourceEffect
  <2>2. IsEntry(impl.entries[k]) BY <2>1, ImplFields DEF IsEntries
  <2>3. IsEntries(entries) BY <2>2, ReplacedEntryTyped, EntriesPutDrop, ImplFields
  <2>4. PICK imports :
            /\ IsImportLists(imports)
            /\ result.impl = [fmt |-> impl.fmt, flags |-> impl.flags, entries |-> entries,
                              imports |-> imports, debug |-> impl.debug,
                              default |-> impl.default, names |-> impl.names]
    BY <1>2, ReplaceResourceEffect
  <2>5. IsImpl(result.impl)
    <3> HIDE DEF result, entries
    <3> QED BY <2>3, <2>4, ImplTyped, ImplFields
  <2> QED BY <2>5
<1> QED BY <1>1, <1>2

-----------------------------------------------------------------------------
(* Adding *)

FlagsWith(impl, k) ==
    IF k[2] # 0 THEN impl.flags \cup {"MultistreamBundle"} ELSE impl.flags

\* What AddResource makes of an object: the very same one if it fails at any
\* point, or one with a new entry, as a finished replacement leaves it, and the
\* multistream flag if the entry needs it.
LEMMA AddResourceEffect ==
    ASSUME NEW impl, IsImpl(impl), NEW k \in Key, NEW r, IsResource(r), NEW stop
    PROVE  LET result == AddResource(impl, k, r, stop)
           IN  \/ result = [impl |-> impl, ok |-> FALSE]
               \/ /\ result.ok /\ k \notin DOMAIN impl.entries /\ k[2] < StreamLimit
                  /\ \E staged, imports :
                        /\ staged.fmt = impl.fmt /\ IsImportLists(imports)
                        /\ result.impl =
                            [fmt |-> impl.fmt, flags |-> FlagsWith(impl, k),
                             entries |-> Put(impl.entries, k,
                                ReplacedEntry(staged, FreshEntry(r.type), r, Finished)),
                             imports |-> imports, debug |-> impl.debug,
                             default |-> impl.default, names |-> impl.names]
<1> DEFINE result  == AddResource(impl, k, r, stop)
           refused == \/ k \in DOMAIN impl.entries
                      \/ Cardinality(DOMAIN impl.entries) >= EntryLimit
                      \/ Len(r.imports) > ImportLimit
                      \/ k[2] >= StreamLimit
           opened  == Put(impl.entries, k, FreshEntry(r.type))
           staged  == [impl EXCEPT !.entries = opened, !.flags = FlagsWith(impl, k)]
           filled  == ReplaceResource(staged, k, r, stop)
<1>1. CASE refused BY <1>1 DEF AddResource
<1>2. CASE ~refused
  <2>1. k \notin DOMAIN impl.entries BY <1>2
  <2>2. result = IF filled.ok THEN filled
                 ELSE [impl |-> [filled.impl EXCEPT !.entries = Drop(filled.impl.entries, k),
                                                    !.flags = impl.flags],
                       ok   |-> FALSE]
    BY <1>2 DEF AddResource, FlagsWith
  <2>3. staged = [fmt |-> impl.fmt, flags |-> FlagsWith(impl, k), entries |-> opened,
                  imports |-> impl.imports, debug |-> impl.debug,
                  default |-> impl.default, names |-> impl.names]
    <3> HIDE DEF opened
    <3> QED BY ImplExcept
  <2>4. IsImpl(staged)
    <3>1. IsEntries(opened)
      BY FreshEntryTyped, EntriesPutDrop, ImplFields DEF IsResource
    <3>2. FlagsWith(impl, k) \in SUBSET FlagNames
      BY ImplFields DEF FlagsWith, FlagNames, FlagBit
    <3> HIDE DEF staged, opened
    <3> QED BY <2>3, <3>1, <3>2, ImplFields, ImplTyped
  <2>5. /\ k \in DOMAIN opened /\ opened[k] = FreshEntry(r.type)
        /\ impl.entries = [q \in DOMAIN impl.entries |-> impl.entries[q]]
    <3>1. k \in DOMAIN opened /\ opened[k] = FreshEntry(r.type) BY DEF Put
    <3>2. IsEntries(impl.entries) BY ImplFields
    <3> HIDE DEF opened
    <3> QED BY <3>1, <3>2 DEF IsEntries
  <2> DEFINE new == Put(opened, k, ReplacedEntry(staged, opened[k], r, stop))
  <2>6. new = Put(impl.entries, k, ReplacedEntry(staged, FreshEntry(r.type), r, stop))
    BY <2>1, <2>5, DropPut
  <2>7. Drop(opened, k) = impl.entries /\ Drop(new, k) = impl.entries
    BY <2>1, <2>5, DropPut
  <2>8. \/ filled = [impl |-> staged, ok |-> FALSE]
        \/ /\ k[2] < StreamLimit /\ (filled.ok <=> stop = Finished)
           /\ \E imports :
                /\ IsImportLists(imports)
                /\ ~filled.ok => imports = impl.imports
                /\ filled.impl =
                    [fmt |-> impl.fmt, flags |-> FlagsWith(impl, k), entries |-> new,
                     imports |-> imports, debug |-> impl.debug,
                     default |-> impl.default, names |-> impl.names]
    <3>1. /\ staged.fmt = impl.fmt /\ staged.flags = FlagsWith(impl, k)
          /\ staged.entries = opened /\ staged.imports = impl.imports
          /\ staged.debug = impl.debug /\ staged.default = impl.default
          /\ staged.names = impl.names
      BY <2>3
    <3> HIDE DEF opened, staged
    <3> QED BY <2>4, <3>1, ReplaceResourceEffect
  <2>9. CASE filled.ok
    <3>1. filled # [impl |-> staged, ok |-> FALSE] BY <2>9
    <3>2. stop = Finished /\ k[2] < StreamLimit BY <2>8, <2>9, <3>1
    <3>3. PICK imports :
            /\ IsImportLists(imports)
            /\ filled.impl = [fmt |-> impl.fmt, flags |-> FlagsWith(impl, k), entries |-> new,
                              imports |-> imports, debug |-> impl.debug,
                              default |-> impl.default, names |-> impl.names]
      BY <2>8, <3>1
    <3>4. result = filled BY <2>2, <2>9
    <3>5. staged.fmt = impl.fmt BY <2>3
    <3>6. new = Put(impl.entries, k,
                    ReplacedEntry(staged, FreshEntry(r.type), r, Finished))
      BY <2>6, <3>2
    <3>7. /\ result.ok
          /\ result.impl =
                [fmt |-> impl.fmt, flags |-> FlagsWith(impl, k),
                 entries |-> Put(impl.entries, k,
                    ReplacedEntry(staged, FreshEntry(r.type), r, Finished)),
                 imports |-> imports, debug |-> impl.debug,
                 default |-> impl.default, names |-> impl.names]
      <4> HIDE DEF result, staged, filled, new
      <4> QED BY <2>9, <3>3, <3>4, <3>6
    <3> HIDE DEF staged
    <3> QED BY <2>1, <3>2, <3>3, <3>5, <3>7
  <2>10. CASE ~filled.ok
    <3>1. IsImpl(filled.impl) BY <2>4, ReplaceResourceTyped
    <3>2. /\ filled.impl.fmt = impl.fmt /\ filled.impl.imports = impl.imports
          /\ filled.impl.debug = impl.debug /\ filled.impl.default = impl.default
          /\ filled.impl.names = impl.names
          /\ filled.impl.entries \in {opened, new}
      <4>1. /\ staged.fmt = impl.fmt /\ staged.imports = impl.imports
            /\ staged.entries = opened
            /\ staged.debug = impl.debug /\ staged.default = impl.default
            /\ staged.names = impl.names
        BY <2>3
      <4> HIDE DEF staged, filled, new, opened
      <4>2. CASE filled = [impl |-> staged, ok |-> FALSE] BY <4>1, <4>2
      <4>3. CASE filled # [impl |-> staged, ok |-> FALSE] 
        <5>1. PICK imports :
                /\ ~filled.ok => imports = impl.imports
                /\ filled.impl =
                    [fmt |-> impl.fmt, flags |-> FlagsWith(impl, k), entries |-> new,
                     imports |-> imports, debug |-> impl.debug,
                     default |-> impl.default, names |-> impl.names]
          BY <4>3, <2>8
        <5> QED BY <5>1, <2>10
      <4> QED BY <4>2, <4>3
    <3>3. Drop(filled.impl.entries, k) = impl.entries BY <2>7, <3>2
    <3>4. [filled.impl EXCEPT !.entries = Drop(filled.impl.entries, k), !.flags = impl.flags]
            = impl
      <4>1. /\ [filled.impl EXCEPT !.entries = impl.entries, !.flags = impl.flags] =
                 [fmt |-> filled.impl.fmt, flags |-> impl.flags, entries |-> impl.entries,
                  imports |-> filled.impl.imports, debug |-> filled.impl.debug,
                  default |-> filled.impl.default, names |-> filled.impl.names]
        <5> HIDE DEF filled
        <5> QED BY <3>1, ImplExcept
      <4> HIDE DEF filled
      <4> QED BY <3>2, <3>3, <4>1, ImplFields
    <3>5. result = [impl |-> impl, ok |-> FALSE] BY <2>2, <2>10, <3>4
    <3> QED BY <3>5
  <2> QED BY <2>9, <2>10
<1> QED BY <1>1, <1>2

\* AddResource keeps the object typed.
LEMMA AddResourceTyped ==
    ASSUME NEW impl, IsImpl(impl), NEW k \in Key, NEW r, IsResource(r), NEW stop
    PROVE  IsImpl(AddResource(impl, k, r, stop).impl)
<1> DEFINE result == AddResource(impl, k, r, stop)
<1>1. CASE result = [impl |-> impl, ok |-> FALSE] BY <1>1
<1>2. CASE ~(result = [impl |-> impl, ok |-> FALSE])
  <2>1. PICK staged, imports :
            /\ IsImportLists(imports)
            /\ result.impl =
                [fmt |-> impl.fmt, flags |-> FlagsWith(impl, k),
                 entries |-> Put(impl.entries, k,
                    ReplacedEntry(staged, FreshEntry(r.type), r, Finished)),
                 imports |-> imports, debug |-> impl.debug,
                 default |-> impl.default, names |-> impl.names]
    BY <1>2, AddResourceEffect
  <2>2. FlagsWith(impl, k) \in SUBSET FlagNames
    BY ImplFields DEF FlagsWith, FlagNames, FlagBit
  <2>3. IsEntry(ReplacedEntry(staged, FreshEntry(r.type), r, Finished))
    BY FreshEntryTyped, ReplacedEntryTyped DEF IsResource
  <2>4. IsEntries(Put(impl.entries, k, ReplacedEntry(staged, FreshEntry(r.type), r, Finished)))
    BY <2>3, EntriesPutDrop, ImplFields
  <2>5. IsImpl(result.impl)
    <3> HIDE DEF result
    <3> QED BY <2>1, <2>2, <2>4, ImplFields, ImplTyped
  <2> QED BY <2>5
<1> QED BY <1>1, <1>2

-----------------------------------------------------------------------------
(* Metadata *)

\* AddResourceDebugData either fails or adds one name.
LEMMA AddResourceDebugDataEffect ==
    ASSUME NEW impl, IsImpl(impl), NEW k \in Key, NEW name \in DebugNames
    PROVE  LET result == AddResourceDebugData(impl, k, name)
           IN  \/ result = [impl |-> impl, ok |-> FALSE]
               \/ /\ result.ok
                  /\ \E debug :
                       /\ IsDebugData(debug)
                       /\ result.impl =
                            [fmt |-> impl.fmt, flags |-> impl.flags, entries |-> impl.entries,
                             imports |-> impl.imports, debug |-> debug,
                             default |-> impl.default, names |-> impl.names]
<1> DEFINE debug == Put(impl.debug, k, name)
<1>1. IsDebugData(debug) BY PutDropMap, ImplFields DEF IsDebugData
<1>2. [impl EXCEPT !.debug = debug] =
        [fmt |-> impl.fmt, flags |-> impl.flags, entries |-> impl.entries,
         imports |-> impl.imports, debug |-> debug,
         default |-> impl.default, names |-> impl.names]
  <2> HIDE DEF debug
  <2> QED BY DEF IsImpl
<1>3. \/ AddResourceDebugData(impl, k, name) = [impl |-> impl, ok |-> FALSE]
      \/ AddResourceDebugData(impl, k, name) =
            [impl |-> [impl EXCEPT !.debug = debug], ok |-> TRUE]
  BY DEF AddResourceDebugData
<1> HIDE DEF debug
<1> QED BY <1>1, <1>2, <1>3

\* AddResourceDebugData keeps the object typed.
LEMMA AddResourceDebugDataTyped ==
    ASSUME NEW impl, IsImpl(impl), NEW k \in Key, NEW name \in DebugNames
    PROVE  IsImpl(AddResourceDebugData(impl, k, name).impl)
<1>1. CASE AddResourceDebugData(impl, k, name) = [impl |-> impl, ok |-> FALSE] BY <1>1
<1>2. CASE AddResourceDebugData(impl, k, name) # [impl |-> impl, ok |-> FALSE]
  <2>1. PICK debug :
          /\ IsDebugData(debug)
          /\ AddResourceDebugData(impl, k, name).impl =
                [fmt |-> impl.fmt, flags |-> impl.flags, entries |-> impl.entries,
                 imports |-> impl.imports, debug |-> debug,
                 default |-> impl.default, names |-> impl.names]
    BY <1>2, AddResourceDebugDataEffect
  <2> QED BY <2>1, ImplFields, ImplTyped
<1> QED BY <1>1, <1>2

\* SetDefaultResource either fails or sets the default resource and its flag.
LEMMA SetDefaultResourceEffect ==
    ASSUME NEW impl, IsImpl(impl), NEW k
    PROVE  LET result == SetDefaultResource(impl, k)
           IN  \/ result = [impl |-> impl, ok |-> FALSE]
               \/ /\ result.ok /\ k \in DOMAIN impl.entries /\ HasStreamMetadata(impl.fmt)
                  /\ result.impl =
                        [fmt |-> impl.fmt,
                         flags |-> impl.flags \cup {"ContainsDefaultResource"},
                         entries |-> impl.entries, imports |-> impl.imports,
                         debug |-> impl.debug, default |-> k, names |-> impl.names]
<1> DEFINE flags == impl.flags \cup {"ContainsDefaultResource"}
           one   == [impl EXCEPT !.default = k]
<1>1. one = [fmt |-> impl.fmt, flags |-> impl.flags, entries |-> impl.entries,
             imports |-> impl.imports, debug |-> impl.debug, default |-> k,
             names |-> impl.names]
  BY DEF IsImpl
<1>2. [impl EXCEPT !.default = k, !.flags = flags] = [one EXCEPT !.flags = flags]
  OBVIOUS
<1>3. [one EXCEPT !.flags = flags] =
        [fmt |-> impl.fmt, flags |-> flags, entries |-> impl.entries,
         imports |-> impl.imports, debug |-> impl.debug, default |-> k, names |-> impl.names]
  <2> HIDE DEF one, flags
  <2> QED BY <1>1
<1>4. [impl EXCEPT !.default = k, !.flags = @ \cup {"ContainsDefaultResource"}] =
        [impl EXCEPT !.default = k, !.flags = flags]
  OBVIOUS
<1>5. CASE HasStreamMetadata(impl.fmt) /\ k \in DOMAIN impl.entries
  <2>1. SetDefaultResource(impl, k) = [impl |-> [impl EXCEPT !.default = k, !.flags = flags],
                                       ok |-> TRUE]
    BY <1>5, <1>4 DEF SetDefaultResource
  <2> HIDE DEF flags, one
  <2> QED BY <1>2, <1>3, <1>5, <2>1 DEF flags
<1>6. CASE ~(HasStreamMetadata(impl.fmt) /\ k \in DOMAIN impl.entries)
  BY <1>6 DEF SetDefaultResource
<1> QED BY <1>5, <1>6

\* SetDefaultResource keeps the object typed.
LEMMA SetDefaultResourceTyped ==
    ASSUME NEW impl, IsImpl(impl), NEW k
    PROVE  IsImpl(SetDefaultResource(impl, k).impl)
<1>1. k \in DOMAIN impl.entries => k \in DefaultKey
  BY ImplFields DEF IsEntries, DefaultKey
<1>2. impl.flags \cup {"ContainsDefaultResource"} \in SUBSET FlagNames
  BY ImplFields DEF FlagNames, FlagBit
<1>3. CASE SetDefaultResource(impl, k) = [impl |-> impl, ok |-> FALSE] BY <1>3
<1>4. CASE SetDefaultResource(impl, k) # [impl |-> impl, ok |-> FALSE]
  <2>1. /\ k \in DOMAIN impl.entries
        /\ SetDefaultResource(impl, k).impl =
                [fmt |-> impl.fmt, flags |-> impl.flags \cup {"ContainsDefaultResource"},
                 entries |-> impl.entries, imports |-> impl.imports,
                 debug |-> impl.debug, default |-> k, names |-> impl.names]
    BY <1>4, SetDefaultResourceEffect
  <2> QED BY <1>1, <1>2, <2>1, ImplFields, ImplTyped
<1> QED BY <1>3, <1>4

\* SetStreamName either fails or sets one name.
LEMMA SetStreamNameEffect ==
    ASSUME NEW impl, IsImpl(impl), NEW i \in StreamIndices, NEW name \in StreamNames
    PROVE  LET result == SetStreamName(impl, i, name)
           IN  \/ result = [impl |-> impl, ok |-> FALSE]
               \/ /\ result.ok
                  /\ \E names \in StreamTable :
                       result.impl =
                        [fmt |-> impl.fmt, flags |-> impl.flags, entries |-> impl.entries,
                         imports |-> impl.imports, debug |-> impl.debug,
                         default |-> impl.default, names |-> names]
<1> DEFINE names == [impl.names EXCEPT ![i] = name]
<1>1. names \in StreamTable BY ImplFields DEF StreamTable
<1>2. [impl EXCEPT !.names = names] =
        [fmt |-> impl.fmt, flags |-> impl.flags, entries |-> impl.entries,
         imports |-> impl.imports, debug |-> impl.debug,
         default |-> impl.default, names |-> names]
  <2> HIDE DEF names
  <2> QED BY DEF IsImpl
<1>3. \/ SetStreamName(impl, i, name) = [impl |-> impl, ok |-> FALSE]
      \/ SetStreamName(impl, i, name) = [impl |-> [impl EXCEPT !.names = names], ok |-> TRUE]
  BY DEF SetStreamName
<1> HIDE DEF names
<1> QED BY <1>1, <1>2, <1>3

\* SetStreamName keeps the object typed.
LEMMA SetStreamNameTyped ==
    ASSUME NEW impl, IsImpl(impl), NEW i \in StreamIndices, NEW name \in StreamNames
    PROVE  IsImpl(SetStreamName(impl, i, name).impl)
<1>1. CASE SetStreamName(impl, i, name) = [impl |-> impl, ok |-> FALSE] BY <1>1
<1>2. CASE SetStreamName(impl, i, name) # [impl |-> impl, ok |-> FALSE]
  <2>1. PICK names \in StreamTable :
          SetStreamName(impl, i, name).impl =
            [fmt |-> impl.fmt, flags |-> impl.flags, entries |-> impl.entries,
             imports |-> impl.imports, debug |-> impl.debug,
             default |-> impl.default, names |-> names]
    BY <1>2, SetStreamNameEffect
  <2> QED BY <2>1, ImplFields, ImplTyped
<1> QED BY <1>1, <1>2

-----------------------------------------------------------------------------
(* What can be read *)

\* What GetResource needs of an entry, in memory or in a row of a file.
ReadableEntry(fmt, e) ==
    \A s \in MemoryTypes(fmt) :
        /\ s \in DOMAIN e.blocks => Decodable(e.blocks[s])
        /\ IsBnd2(fmt) /\ s = MainMemory => TrailerFits(e)

\* It is what GetResource checks, memory type by memory type.
LEMMA ReadableEntries ==
    \A impl, k : ReadableEntry(impl.fmt, impl.entries[k]) <=> CanReadResource(impl, k)
    BY DEF ReadableEntry, CanReadResource, CanReadBlock

-----------------------------------------------------------------------------
(* Entries *)

\* What an application hands over: AddResource and ReplaceResource compress it
\* themselves, so nothing in it is damaged, and append the imports.
Given(r) ==
    /\ IsResource(r)
    /\ \A s \in DOMAIN r.blocks : r.blocks[s].payload # Garbled /\ r.blocks[s].trailer = <<>>

\* A replacement that finishes leaves an entry that can be read, whatever the
\* old one was: BND2's imports begin where the new main block's payload ends.
LEMMA FinishedReadable ==
    ASSUME NEW impl, NEW e, IsEntry(e), NEW r, Given(r)
    PROVE  ReadableEntry(impl.fmt, ReplacedEntry(impl, e, r, Finished))
<1> DEFINE new == ReplacedEntry(impl, e, r, Finished)
<1>1. ASSUME NEW s \in MemoryTypes(impl.fmt)
      PROVE  /\ s \in DOMAIN new.blocks <=> s \in DOMAIN r.blocks
             /\ s \in DOMAIN r.blocks => new.blocks[s] = StoredBlock(impl.fmt, r, s)
  <2>1. s < Finished BY MemoryTypesAreSlots DEF Slots, Finished
  <2> QED BY <2>1 DEF ReplacedEntry
<1>2. ASSUME NEW s \in MemoryTypes(impl.fmt), s \in DOMAIN new.blocks
      PROVE  Decodable(new.blocks[s])
  <2>1. s \in DOMAIN r.blocks /\ new.blocks[s] = StoredBlock(impl.fmt, r, s) BY <1>1, <1>2
  <2>2. new.blocks[s].payload = r.blocks[s].payload BY <2>1, StoredBlockTyped DEF Given
  <2> HIDE DEF new
  <2> QED BY <2>1, <2>2 DEF Decodable, Given
<1>3. ASSUME IsBnd2(impl.fmt) PROVE TrailerFits(new)
  <2>1. MainMemory \in MemoryTypes(impl.fmt) BY MemoryTypesAreSlots
  <2>2. new.importCount = IF MainMemory \in DOMAIN r.blocks THEN Len(r.imports) ELSE 0
    BY <1>3 DEF ReplacedEntry, CountsImports
  <2>3. new.importOffset = OffsetFor(impl.fmt, r) BY DEF ReplacedEntry
  <2>4. CASE MainMemory \in DOMAIN r.blocks /\ r.imports # <<>>
    <3> DEFINE p == r.blocks[MainMemory].payload
               b == new.blocks[MainMemory]
    <3>1. MainMemory \in DOMAIN new.blocks /\ b = StoredBlock(impl.fmt, r, MainMemory)
      BY <1>1, <2>1, <2>4
    <3>2. r.blocks[MainMemory] \in Block BY <2>4 DEF Given, IsResource, IsBlockMap, IsMap
    <3>3. b.payload = p /\ b.trailer = r.imports
      BY <1>3, <3>1, <3>2 DEF StoredBlock, Block
    <3>4. Size[p] \in Nat BY <3>2, ContainerAssumption DEF Block
    <3>5. Len(r.imports) \in Nat BY DEF Given, IsResource
    <3>6. new.importOffset = Size[p] BY <1>3, <2>3, <2>4 DEF OffsetFor
    <3>7. BlockSize(b) = Size[p] + 16 * Len(r.imports)
      BY <3>3 DEF BlockSize, ImportEntrySize
    <3> HIDE DEF p, b
    <3>8. BlockSize(b) - new.importOffset = 16 * Len(r.imports) BY <3>4, <3>5, <3>6, <3>7
    <3>9. \A n \in Nat : 16 * n >= 0 /\ (16 * n) \div 16 >= n OBVIOUS
    <3>10. /\ BlockSize(b) - new.importOffset >= 0
           /\ (BlockSize(b) - new.importOffset) \div 16 >= new.importCount
      <4> HIDE DEF new
      <4> QED BY <2>2, <2>4, <3>5, <3>8, <3>9
    <3> HIDE DEF new
    <3> QED BY <3>1, <3>10 DEF TrailerFits, b, ImportEntrySize
  <2>5. CASE ~(MainMemory \in DOMAIN r.blocks /\ r.imports # <<>>)
    <3>1. new.importCount = 0 BY <2>2, <2>5
    <3> HIDE DEF new
    <3> QED BY <3>1 DEF TrailerFits
  <2> QED BY <2>4, <2>5
<1>4. ReadableEntry(impl.fmt, new)
  <2> HIDE DEF new
  <2> QED BY <1>2, <1>3 DEF ReadableEntry
<1> QED BY <1>4

\* The entry AddResource begins with can be read.
LEMMA FreshReadable ==
    ASSUME NEW fmt, NEW type
    PROVE  ReadableEntry(fmt, FreshEntry(type))
    BY DEF ReadableEntry, FreshEntry, NoEntries, TrailerFits

-----------------------------------------------------------------------------
(* Calls *)

\* The effect of ReplaceResource on the entries, by its result.
LEMMA ReplaceResourceEntries ==
    ASSUME NEW impl, IsImpl(impl), NEW k \in Key, NEW r, IsResource(r), NEW stop,
           NEW result, result = ReplaceResource(impl, k, r, stop)
    PROVE  \/ result.impl = impl /\ ~result.ok
           \/ /\ k \in DOMAIN impl.entries
              /\ result.ok <=> stop = Finished
              /\ result.impl.fmt = impl.fmt
              /\ result.impl.entries =
                    Put(impl.entries, k, ReplacedEntry(impl, impl.entries[k], r, stop))
<1> DEFINE refused == k \notin DOMAIN impl.entries \/ Len(r.imports) > ImportLimit
                        \/ k[2] >= StreamLimit
           imports == IF IsBnd2(impl.fmt) \/ stop # Finished THEN impl.imports
                      ELSE StoreSeparateImports(impl.imports, k[1], r.imports)
           entries == Put(impl.entries, k, ReplacedEntry(impl, impl.entries[k], r, stop))
<1>1. CASE refused BY <1>1 DEF ReplaceResource
<1>2. CASE ~refused
  <2> DEFINE other == [impl EXCEPT !.entries = entries, !.imports = imports]
             done  == stop = Finished
  <2>1. result = [impl |-> other, ok |-> done] BY <1>2 DEF ReplaceResource
  <2>2. k \in DOMAIN impl.entries BY <1>2
  <2>3. other.fmt = impl.fmt /\ other.entries = entries
    <3> DEFINE one == [impl EXCEPT !.entries = entries]
    <3>1. other = [one EXCEPT !.imports = imports] OBVIOUS
    <3> HIDE DEF entries, imports, other
    <3>2. one = [fmt |-> impl.fmt, flags |-> impl.flags, entries |-> entries,
                 imports |-> impl.imports, debug |-> impl.debug,
                 default |-> impl.default, names |-> impl.names]
      BY DEF IsImpl
    <3> HIDE DEF one
    <3> QED BY <3>1, <3>2
  <2> HIDE DEF entries, other, done
  <2>4. result.impl = other /\ result.ok = done BY <2>1
  <2> QED BY <2>2, <2>3, <2>4 DEF entries, done
<1> QED BY <1>1, <1>2

\* What a replacement that finishes leaves under the key.
LEMMA ReplacedReadable ==
    ASSUME NEW impl, IsImpl(impl), NEW k \in Key, NEW r, Given(r), NEW stop,
           NEW result, result = ReplaceResource(impl, k, r, stop), result.ok
    PROVE  k \in DOMAIN result.impl.entries /\ CanReadResource(result.impl, k)
<1> DEFINE new == ReplacedEntry(impl, impl.entries[k], r, stop)
<1>1. /\ k \in DOMAIN impl.entries /\ stop = Finished
      /\ result.impl.fmt = impl.fmt /\ result.impl.entries = Put(impl.entries, k, new)
  BY ReplaceResourceEntries DEF Given
<1>2. k \in DOMAIN Put(impl.entries, k, new) /\ Put(impl.entries, k, new)[k] = new
  BY DEF Put
<1>3. ReadableEntry(impl.fmt, new)
  <2>1. IsEntry(impl.entries[k]) BY <1>1, ImplFields DEF IsEntries
  <2> QED BY <1>1, <2>1, FinishedReadable
<1> HIDE DEF new
<1> QED BY <1>1, <1>2, <1>3, ReadableEntries

-----------------------------------------------------------------------------
(* What the calls leave *)

\* What one accepted resource leaves, but for the fields of AddResourceEffect.
LEMMA AddResourceImports ==
    ASSUME NEW impl, IsImpl(impl), NEW k \in Key, NEW r, IsResource(r), NEW stop,
           AddResource(impl, k, r, stop).ok
    PROVE  AddResource(impl, k, r, stop).impl.imports =
                IF IsBnd2(impl.fmt) THEN impl.imports
                ELSE StoreSeparateImports(impl.imports, k[1], r.imports)
<1> DEFINE result  == AddResource(impl, k, r, stop)
           refused == \/ k \in DOMAIN impl.entries
                      \/ Cardinality(DOMAIN impl.entries) >= EntryLimit
                      \/ Len(r.imports) > ImportLimit
                      \/ k[2] >= StreamLimit
           opened  == Put(impl.entries, k, FreshEntry(r.type))
           staged  == [impl EXCEPT !.entries = opened, !.flags = FlagsWith(impl, k)]
           filled  == ReplaceResource(staged, k, r, stop)
<1>1. ~refused
  <2>1. refused => result = [impl |-> impl, ok |-> FALSE] BY DEF AddResource
  <2> HIDE DEF refused
  <2> QED BY <2>1
<1>2. result = IF filled.ok THEN filled
               ELSE [impl |-> [filled.impl EXCEPT !.entries = Drop(filled.impl.entries, k),
                                                  !.flags = impl.flags],
                     ok   |-> FALSE]
  BY <1>1 DEF AddResource, FlagsWith
<1>3. filled.ok /\ result = filled
  <2> HIDE DEF filled, result
  <2> QED BY <1>2 DEF result
<1>4. staged.fmt = impl.fmt /\ staged.imports = impl.imports /\ IsImpl(staged)
  <2>1. staged = [fmt |-> impl.fmt, flags |-> FlagsWith(impl, k), entries |-> opened,
                  imports |-> impl.imports, debug |-> impl.debug,
                  default |-> impl.default, names |-> impl.names]
    <3> HIDE DEF opened
    <3> QED BY ImplExcept
  <2>2. IsEntries(opened) BY FreshEntryTyped, EntriesPutDrop, ImplFields DEF IsResource
  <2>3. FlagsWith(impl, k) \in SUBSET FlagNames
    BY ImplFields DEF FlagsWith, FlagNames, FlagBit
  <2> HIDE DEF staged, opened
  <2> QED BY <2>1, <2>2, <2>3, ImplFields, ImplTyped
<1> HIDE DEF staged
<1> DEFINE imports == IF IsBnd2(staged.fmt) \/ stop # Finished THEN staged.imports
                      ELSE StoreSeparateImports(staged.imports, k[1], r.imports)
           entries == Put(staged.entries, k, ReplacedEntry(staged, staged.entries[k], r, stop))
           done    == stop = Finished
<1>5. filled = [impl |-> [staged EXCEPT !.entries = entries, !.imports = imports], ok |-> done]
  <2>1. filled # [impl |-> staged, ok |-> FALSE]
    <3> HIDE DEF filled
    <3> QED BY <1>3
  <2> QED BY <2>1 DEF ReplaceResource
<1> HIDE DEF entries
<1>6. filled.impl.imports = imports /\ done
  <2> HIDE DEF imports, filled, done
  <2>1. filled.impl = [staged EXCEPT !.entries = entries, !.imports = imports] /\ done
    BY <1>3, <1>5
  <2> DEFINE one == [staged EXCEPT !.entries = entries]
  <2>2. filled.impl = [one EXCEPT !.imports = imports] BY <2>1
  <2>3. one = [fmt |-> staged.fmt, flags |-> staged.flags, entries |-> entries,
               imports |-> staged.imports, debug |-> staged.debug,
               default |-> staged.default, names |-> staged.names]
    BY <1>4 DEF IsImpl
  <2> HIDE DEF one
  <2> QED BY <2>1, <2>2, <2>3
<1> HIDE DEF filled, result
<1> QED BY <1>3, <1>4, <1>6 DEF result

\* AddResourceEffect of a call that succeeds.
LEMMA AcceptedEffect ==
    ASSUME NEW impl, IsImpl(impl), NEW k \in Key, NEW r, IsResource(r), NEW stop,
           AddResource(impl, k, r, stop).ok
    PROVE  /\ k \notin DOMAIN impl.entries /\ k[2] < StreamLimit
           /\ \E staged, imports :
                /\ staged.fmt = impl.fmt /\ IsImportLists(imports)
                /\ AddResource(impl, k, r, stop).impl =
                    [fmt |-> impl.fmt, flags |-> FlagsWith(impl, k),
                     entries |-> Put(impl.entries, k,
                        ReplacedEntry(staged, FreshEntry(r.type), r, Finished)),
                     imports |-> imports, debug |-> impl.debug,
                     default |-> impl.default, names |-> impl.names]
<1> DEFINE result == AddResource(impl, k, r, stop)
<1>1. ~(result = [impl |-> impl, ok |-> FALSE])
  <2>1. result.ok OBVIOUS
  <2> HIDE DEF result
  <2> QED BY <2>1
<1>2. PICK staged, imports :
          /\ staged.fmt = impl.fmt /\ IsImportLists(imports)
          /\ result.impl =
              [fmt |-> impl.fmt, flags |-> FlagsWith(impl, k),
               entries |-> Put(impl.entries, k,
                  ReplacedEntry(staged, FreshEntry(r.type), r, Finished)),
               imports |-> imports, debug |-> impl.debug,
               default |-> impl.default, names |-> impl.names]
  BY <1>1, AddResourceEffect
<1>3. k \notin DOMAIN impl.entries /\ k[2] < StreamLimit BY <1>1, AddResourceEffect
<1> QED BY <1>2, <1>3

\* What AddResource leaves alone.
LEMMA AcceptedFields ==
    ASSUME NEW impl, IsImpl(impl), NEW k \in Key, NEW r, IsResource(r), NEW stop,
           AddResource(impl, k, r, stop).ok
    PROVE  /\ k[2] < StreamLimit
           /\ AddResource(impl, k, r, stop).impl.fmt = impl.fmt
           /\ AddResource(impl, k, r, stop).impl.flags = FlagsWith(impl, k)
           /\ AddResource(impl, k, r, stop).impl.debug = impl.debug
<1> DEFINE other == AddResource(impl, k, r, stop).impl
<1>1. PICK staged, imports :
          /\ staged.fmt = impl.fmt /\ IsImportLists(imports)
          /\ other =
              [fmt |-> impl.fmt, flags |-> FlagsWith(impl, k),
               entries |-> Put(impl.entries, k,
                  ReplacedEntry(staged, FreshEntry(r.type), r, Finished)),
               imports |-> imports, debug |-> impl.debug,
               default |-> impl.default, names |-> impl.names]
  BY AcceptedEffect
<1>2. k[2] < StreamLimit BY AcceptedEffect
<1> HIDE DEF other
<1>3. other.fmt = impl.fmt /\ other.flags = FlagsWith(impl, k) /\ other.debug = impl.debug
  BY <1>1
<1> QED BY <1>2, <1>3 DEF other

\* A refused AddResource leaves everything.
LEMMA RefusedAdd ==
    ASSUME NEW impl, IsImpl(impl), NEW k \in Key, NEW r, IsResource(r), NEW stop,
           ~AddResource(impl, k, r, stop).ok
    PROVE  AddResource(impl, k, r, stop).impl = impl
<1> DEFINE result == AddResource(impl, k, r, stop)
<1>1. result = [impl |-> impl, ok |-> FALSE]
  <2>1. result.ok \/ result = [impl |-> impl, ok |-> FALSE] BY AddResourceEffect
  <2> HIDE DEF result
  <2> QED BY <2>1 DEF result
<1> HIDE DEF result
<1> QED BY <1>1 DEF result

\* What AddResource changes in an object when it succeeds.
LEMMA AddedEntry ==
    ASSUME NEW impl, IsImpl(impl), NEW k \in Key, NEW r, IsResource(r), NEW stop,
           AddResource(impl, k, r, stop).ok,
           NEW other, other = AddResource(impl, k, r, stop).impl
    PROVE  /\ k \notin DOMAIN impl.entries
           /\ other.fmt = impl.fmt /\ other.flags = FlagsWith(impl, k)
           /\ other.imports = IF IsBnd2(impl.fmt) THEN impl.imports
                              ELSE StoreSeparateImports(impl.imports, k[1], r.imports)
           /\ \E staged :
                /\ staged.fmt = impl.fmt
                /\ other.entries = Put(impl.entries, k,
                        ReplacedEntry(staged, FreshEntry(r.type), r, Finished))
<1>1. PICK staged, imports :
        /\ staged.fmt = impl.fmt /\ IsImportLists(imports)
        /\ AddResource(impl, k, r, stop).impl =
            [fmt |-> impl.fmt, flags |-> FlagsWith(impl, k),
             entries |-> Put(impl.entries, k,
                ReplacedEntry(staged, FreshEntry(r.type), r, Finished)),
             imports |-> imports, debug |-> impl.debug,
             default |-> impl.default, names |-> impl.names]
  BY AcceptedEffect
<1> DEFINE entries == Put(impl.entries, k, ReplacedEntry(staged, FreshEntry(r.type), r, Finished))
<1>2. other.fmt = impl.fmt /\ other.flags = FlagsWith(impl, k) /\ other.entries = entries
  <2> HIDE DEF entries
  <2> QED BY <1>1 DEF entries
<1>3. k \notin DOMAIN impl.entries BY AcceptedEffect
<1>4. other.imports = IF IsBnd2(impl.fmt) THEN impl.imports
                      ELSE StoreSeparateImports(impl.imports, k[1], r.imports)
  BY AddResourceImports
<1> QED BY <1>1, <1>2, <1>3, <1>4

\* What ReplaceResource leaves, if it does anything: a new entry and, in BNDL and
\* if it finishes, a new import list.
LEMMA ReplacedImpl ==
    ASSUME NEW impl, IsImpl(impl), NEW k \in Key, NEW r, IsResource(r), NEW stop,
           ReplaceResource(impl, k, r, stop) # [impl |-> impl, ok |-> FALSE]
    PROVE  /\ k \in DOMAIN impl.entries
           /\ ReplaceResource(impl, k, r, stop).ok <=> stop = Finished
           /\ ReplaceResource(impl, k, r, stop).impl =
                [fmt |-> impl.fmt, flags |-> impl.flags,
                 entries |-> Put(impl.entries, k,
                                 ReplacedEntry(impl, impl.entries[k], r, stop)),
                 imports |-> IF IsBnd2(impl.fmt) \/ stop # Finished THEN impl.imports
                             ELSE StoreSeparateImports(impl.imports, k[1], r.imports),
                 debug |-> impl.debug, default |-> impl.default, names |-> impl.names]
<1> DEFINE result  == ReplaceResource(impl, k, r, stop)
           refused == \/ k \notin DOMAIN impl.entries \/ Len(r.imports) > ImportLimit
                      \/ k[2] >= StreamLimit
           entries == Put(impl.entries, k, ReplacedEntry(impl, impl.entries[k], r, stop))
           imports == IF IsBnd2(impl.fmt) \/ stop # Finished THEN impl.imports
                      ELSE StoreSeparateImports(impl.imports, k[1], r.imports)
           done    == stop = Finished
<1>1. ~refused
  <2>1. refused => result = [impl |-> impl, ok |-> FALSE] BY DEF ReplaceResource
  <2> HIDE DEF refused
  <2> QED BY <2>1
<1>2. result = [impl |-> [impl EXCEPT !.entries = entries, !.imports = imports], ok |-> done]
  BY <1>1 DEF ReplaceResource
<1>3. k \in DOMAIN impl.entries BY <1>1
<1> HIDE DEF entries, imports, done, refused, result
<1>4. [impl EXCEPT !.entries = entries, !.imports = imports] =
        [fmt |-> impl.fmt, flags |-> impl.flags, entries |-> entries, imports |-> imports,
         debug |-> impl.debug, default |-> impl.default, names |-> impl.names]
  <2> DEFINE one == [impl EXCEPT !.entries = entries]
  <2>1. one = [fmt |-> impl.fmt, flags |-> impl.flags, entries |-> entries,
               imports |-> impl.imports, debug |-> impl.debug,
               default |-> impl.default, names |-> impl.names]
    BY DEF IsImpl
  <2>2. [impl EXCEPT !.entries = entries, !.imports = imports] = [one EXCEPT !.imports = imports]
    OBVIOUS
  <2> HIDE DEF one
  <2> QED BY <2>1, <2>2
<1>5. /\ result.ok = done
      /\ result.impl = [fmt |-> impl.fmt, flags |-> impl.flags, entries |-> entries,
                        imports |-> imports, debug |-> impl.debug,
                        default |-> impl.default, names |-> impl.names]
  BY <1>2, <1>4
<1> QED BY <1>3, <1>5 DEF result, entries, imports, done

\* What a bundle of a format holds of a resource: the blocks of the platform's
\* memory types, and in BND2 no imports without a main memory block.
HeldPart(fmt, type, r) ==
    [type    |-> type,
     blocks  |-> [s \in MemoryTypes(fmt) \cap DOMAIN r.blocks |-> r.blocks[s]],
     imports |-> IF IsBnd2(fmt) /\ MainMemory \notin DOMAIN r.blocks THEN <<>> ELSE r.imports]

\* What is read of an entry that a finished replacement filled, whatever it held
\* before: the blocks the platform has and, where there is a place for them, the imports.
LEMMA ReplacementReadsBack ==
    ASSUME NEW impl, NEW k, NEW other, other.fmt = impl.fmt, NEW e, NEW r, Given(r),
           impl.entries[k] = ReplacedEntry(other, e, r, Finished),
           \/ IsBnd2(impl.fmt) \/ r.imports = <<>>
           \/ k[1] \in DOMAIN impl.imports /\ impl.imports[k[1]] = r.imports
    PROVE  ReadResource(impl, k) = HeldPart(impl.fmt, e.type, r)
<1> DEFINE new  == impl.entries[k]
           here == MemoryTypes(impl.fmt) \cap DOMAIN r.blocks
<1>1. \A s \in MemoryTypes(impl.fmt) : s < Finished
  BY MemoryTypesAreSlots DEF Slots, Finished
<1>2. /\ new.type = e.type
      /\ new.importCount = IF CountsImports(impl.fmt, r, Finished) THEN Len(r.imports) ELSE 0
      /\ new.importOffset = OffsetFor(impl.fmt, r)
      /\ MemoryTypes(impl.fmt) \cap DOMAIN new.blocks = here
      /\ \A s \in here : new.blocks[s] = StoredBlock(impl.fmt, r, s)
  BY <1>1 DEF ReplacedEntry
<1>3. /\ r.imports \in Seq(ResourceIDs)
      /\ \A s \in here : r.blocks[s] \in Block /\ r.blocks[s].trailer = <<>>
  BY DEF Given, IsResource, IsBlockMap, IsMap
<1>4. Len(r.imports) \in Nat /\ (Len(r.imports) = 0 <=> r.imports = <<>>)
      /\ SubSeq(r.imports, 1, Len(r.imports)) = r.imports
  BY <1>3
<1>5. MainMemory \in here <=> MainMemory \in DOMAIN r.blocks BY MemoryTypesAreSlots
<1> HIDE DEF new, here
<1> SUFFICES /\ \A s \in here : ReadBlock(impl, k, s) = r.blocks[s]
             /\ ReadImports(impl, k) = IF IsBnd2(impl.fmt) /\ MainMemory \notin DOMAIN r.blocks
                                       THEN <<>> ELSE r.imports
  BY <1>2 DEF ReadResource, HeldPart, new, here
<1>6. CASE IsBnd2(impl.fmt) /\ MainMemory \in DOMAIN r.blocks /\ r.imports # <<>>
  <2> DEFINE b == r.blocks[MainMemory]
  <2>1. /\ new.importCount = Len(r.imports) /\ new.importCount > 0
        /\ new.importOffset = Size[b.payload]
        /\ new.blocks[MainMemory] = [b EXCEPT !.trailer = r.imports]
    BY <1>2, <1>4, <1>5, <1>6 DEF CountsImports, OffsetFor, StoredBlock
  <2>2. b = [payload |-> b.payload, trailer |-> <<>>, align |-> b.align]
    BY <1>3, <1>5, <1>6 DEF Block
  <2> HIDE DEF b
  <2>3. new.blocks[MainMemory] = [payload |-> b.payload, trailer |-> r.imports, align |-> b.align]
    BY <2>1, <2>2
  <2>4. SplitPayload(new) = b.payload /\ SplitImports(new) = r.imports
    BY <1>4, <2>1, <2>3 DEF SplitPayload, SplitImports
  <2>5. ReadBlock(impl, k, MainMemory) = b
    <3> DEFINE stored == new.blocks[MainMemory]
               split  == [stored EXCEPT !.payload = SplitPayload(new)]
    <3>1. ReadBlock(impl, k, MainMemory) = [split EXCEPT !.trailer = <<>>]
      BY <1>6, <2>1 DEF ReadBlock, new
    <3>2. split = [payload |-> b.payload, trailer |-> r.imports, align |-> b.align]
      BY <2>3, <2>4
    <3> HIDE DEF split
    <3> QED BY <2>2, <3>1, <3>2
  <2>6. \A s \in here : ReadBlock(impl, k, s) = r.blocks[s]
    BY <1>2, <2>5 DEF ReadBlock, StoredBlock, new, b
  <2>7. ReadImports(impl, k) = r.imports BY <1>6, <2>1, <2>4 DEF ReadImports, new
  <2> QED BY <1>6, <2>6, <2>7
<1>7. CASE ~(IsBnd2(impl.fmt) /\ MainMemory \in DOMAIN r.blocks /\ r.imports # <<>>)
  <2>1. \A s \in here : new.blocks[s] = r.blocks[s]
    <3> SUFFICES ASSUME NEW s \in here, IsBnd2(impl.fmt), s = MainMemory
                 PROVE  [r.blocks[s] EXCEPT !.trailer = r.imports] = r.blocks[s]
      BY <1>2 DEF StoredBlock
    <3>1. r.imports = <<>> BY <1>5, <1>7
    <3> QED BY <1>3, <3>1 DEF Block
  <2>2. IsBnd2(impl.fmt) => new.importCount = 0
    BY <1>2, <1>4, <1>7 DEF CountsImports
  <2>3. \A s \in here : ReadBlock(impl, k, s) = r.blocks[s]
    BY <2>1, <2>2 DEF ReadBlock, new
  <2>4. CASE IsBnd2(impl.fmt)
    <3>1. ReadImports(impl, k) = <<>> BY <2>2, <2>4 DEF ReadImports, new
    <3> QED BY <1>7, <2>3, <2>4, <3>1
  <2>5. CASE ~IsBnd2(impl.fmt)
    <3>1. new.importCount = Len(r.imports) BY <1>2, <2>5 DEF CountsImports
    <3>2. ReadImports(impl, k) = r.imports BY <1>4, <2>5, <3>1 DEF ReadImports, new
    <3> QED BY <2>3, <2>5, <3>2
  <2> QED BY <2>4, <2>5
<1> QED BY <1>6, <1>7

\* A resource that AddResource accepted is read back: what the format holds of it.
LEMMA AddedIsHeld ==
    ASSUME NEW impl, IsImpl(impl), NEW k \in Key, NEW r, Given(r), NEW stop,
           AddResource(impl, k, r, stop).ok,
           NEW other, other.fmt = impl.fmt,
           other.entries = AddResource(impl, k, r, stop).impl.entries,
           other.imports = AddResource(impl, k, r, stop).impl.imports
    PROVE  /\ other.entries = Put(impl.entries, k, other.entries[k])
           /\ CanReadResource(other, k)
           /\ ReadResource(other, k) = HeldPart(impl.fmt, r.type, r)
<1>0. IsResource(r) BY DEF Given
<1> DEFINE result == AddResource(impl, k, r, stop)
<1>1. result.ok OBVIOUS
<1>2. PICK staged, imports :
          /\ staged.fmt = impl.fmt /\ IsImportLists(imports)
          /\ result.impl =
              [fmt |-> impl.fmt, flags |-> FlagsWith(impl, k),
               entries |-> Put(impl.entries, k,
                  ReplacedEntry(staged, FreshEntry(r.type), r, Finished)),
               imports |-> imports, debug |-> impl.debug,
               default |-> impl.default, names |-> impl.names]
  BY <1>0, <1>1, AcceptedEffect
<1> HIDE DEF result
<1> DEFINE new == ReplacedEntry(staged, FreshEntry(r.type), r, Finished)
<1>3. other.entries = Put(impl.entries, k, new)
  <2>1. result.impl.entries = Put(impl.entries, k, new)
    <3> HIDE DEF new
    <3> QED BY <1>2 DEF new
  <2> HIDE DEF new
  <2> QED BY <2>1 DEF result
<1>4. k \in DOMAIN other.entries /\ other.entries[k] = new
  <2> HIDE DEF new
  <2> QED BY <1>3 DEF Put
<1>5. ReadableEntry(impl.fmt, new)
  <2>1. IsEntry(FreshEntry(r.type)) BY <1>0, FreshEntryTyped DEF IsResource
  <2>2. ReadableEntry(staged.fmt, new) BY <2>1, FinishedReadable
  <2> HIDE DEF new
  <2> QED BY <1>2, <2>2
<1>6. CanReadResource(other, k)
  <2> HIDE DEF new
  <2> QED BY <1>4, <1>5, ReadableEntries
<1>7. IsBnd2(other.fmt) \/ r.imports = <<>>
          \/ (k[1] \in DOMAIN other.imports /\ other.imports[k[1]] = r.imports)
  <2>1. other.imports = IF IsBnd2(impl.fmt) THEN impl.imports
                        ELSE StoreSeparateImports(impl.imports, k[1], r.imports)
    BY <1>0, AddResourceImports
  <2> QED BY <2>1 DEF StoreSeparateImports, Put
<1>8. ReadResource(other, k) = HeldPart(impl.fmt, r.type, r)
  <2> HIDE DEF new
  <2>1. other.entries[k] = ReplacedEntry(staged, FreshEntry(r.type), r, Finished)
    BY <1>4 DEF new
  <2>2. staged.fmt = other.fmt BY <1>2
  <2>3. ReadResource(other, k) = HeldPart(other.fmt, FreshEntry(r.type).type, r)
    BY <1>7, <2>1, <2>2, ReplacementReadsBack
  <2>4. FreshEntry(r.type).type = r.type BY DEF FreshEntry
  <2> QED BY <2>3, <2>4
<1>9. other.entries = Put(impl.entries, k, other.entries[k])
  <2> HIDE DEF new
  <2> QED BY <1>3, <1>4
<1> QED BY <1>6, <1>8, <1>9

\* So is one that ReplaceResource put in the place of another, but for the type.
LEMMA ReplacedIsHeld ==
    ASSUME NEW impl, IsImpl(impl), NEW k \in Key, NEW r, Given(r), NEW stop,
           ReplaceResource(impl, k, r, stop).ok,
           NEW other, other = ReplaceResource(impl, k, r, stop).impl
    PROVE  /\ k \in DOMAIN impl.entries /\ k \in DOMAIN other.entries
           /\ CanReadResource(other, k)
           /\ ReadResource(other, k) = HeldPart(impl.fmt, impl.entries[k].type, r)
<1>0. IsResource(r) BY DEF Given
<1>1. ReplaceResource(impl, k, r, stop) # [impl |-> impl, ok |-> FALSE]
  <2> DEFINE result == ReplaceResource(impl, k, r, stop)
  <2>1. result.ok OBVIOUS
  <2> HIDE DEF result
  <2>2. result # [impl |-> impl, ok |-> FALSE] BY <2>1
  <2> QED BY <2>2 DEF result
<1> DEFINE new     == ReplacedEntry(impl, impl.entries[k], r, Finished)
           imports == IF IsBnd2(impl.fmt) THEN impl.imports
                      ELSE StoreSeparateImports(impl.imports, k[1], r.imports)
<1>2. /\ k \in DOMAIN impl.entries /\ stop = Finished
      /\ other = [fmt |-> impl.fmt, flags |-> impl.flags, entries |-> Put(impl.entries, k, new),
                  imports |-> imports, debug |-> impl.debug,
                  default |-> impl.default, names |-> impl.names]
  <2>1. k \in DOMAIN impl.entries /\ stop = Finished BY <1>0, ReplaceResourceEntries
  <2>2. other =
            [fmt |-> impl.fmt, flags |-> impl.flags,
             entries |-> Put(impl.entries, k, ReplacedEntry(impl, impl.entries[k], r, stop)),
             imports |-> IF IsBnd2(impl.fmt) \/ stop # Finished THEN impl.imports
                         ELSE StoreSeparateImports(impl.imports, k[1], r.imports),
             debug |-> impl.debug, default |-> impl.default, names |-> impl.names]
    BY <1>0, <1>1, ReplacedImpl
  <2>3. imports = IF IsBnd2(impl.fmt) \/ stop # Finished THEN impl.imports
                  ELSE StoreSeparateImports(impl.imports, k[1], r.imports)
    BY <2>1
  <2>4. new = ReplacedEntry(impl, impl.entries[k], r, stop) BY <2>1
  <2> HIDE DEF new, imports
  <2> QED BY <2>1, <2>2, <2>3, <2>4, Zenon
<1> HIDE DEF new, imports
<1>3. /\ other.fmt = impl.fmt /\ other.imports = imports
      /\ k \in DOMAIN other.entries /\ other.entries[k] = new
  <2>1. other.fmt = impl.fmt /\ other.imports = imports /\ other.entries = Put(impl.entries, k, new)
    BY <1>2
  <2> QED BY <2>1 DEF Put
<1>4. CanReadResource(other, k)
  BY ReplacedReadable
<1>5. IsBnd2(other.fmt) \/ r.imports = <<>>
          \/ (k[1] \in DOMAIN other.imports /\ other.imports[k[1]] = r.imports)
  BY <1>3 DEF imports, StoreSeparateImports, Put
<1>6. ReadResource(other, k) = HeldPart(other.fmt, impl.entries[k].type, r)
  BY <1>3, <1>5, ReplacementReadsBack DEF new
<1> QED BY <1>2, <1>3, <1>4, <1>6
=============================================================================
