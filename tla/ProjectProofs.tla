----------------------------- MODULE ProjectProofs -----------------------------
(***************************************************************************)
(* Project directories, for every bundle, every mixture of exports and     *)
(* imports and every place where a write can fail or the process can die:  *)
(* what .meta.yaml vouches for and that a finished export comes back, if a *)
(* file that was written is still there once it is closed; and, without    *)
(* that, the types of what is written and read, and that an import leaves  *)
(* nothing of .meta.yaml out.                                              *)
(***************************************************************************)
EXTENDS ProjectProperties, ContainerProofs

\* A project's files are not the absence of one.
NoFileIsNoContent == \A impl, opt : MetaOf(impl, opt) # NoFile /\ CombinedOf(impl) # NoFile

\* What the theorems assume of the disk.
WritesLast == CloseMayFail = FALSE

-----------------------------------------------------------------------------
(* The files of one export *)

\* Memory types have names of their own, and none is that of the import list.
LEMMA MemoryTypeNamesDiffer ==
    ASSUME NEW fmt, NEW s \in Slots, NEW t \in Slots
    PROVE  /\ MemoryTypeName(fmt, s) = MemoryTypeName(fmt, t) => s = t
           /\ MemoryTypeName(fmt, s) # "imports"
    BY DEF MemoryTypeName, Slots, MainMemory, Graphics, Graphics2, Disposable

\* What one resource contributes.
BlockFile(impl, opt, k, s) ==
    [path |-> BlockPath(impl.fmt, Folder(impl, opt, k), k, s),
     holds |-> ReadBlock(impl, k, s).payload, key |-> k, rank |-> s]
ListFile(impl, opt, k) ==
    [path |-> ListPath(Folder(impl, opt, k), k), holds |-> ReadImports(impl, k),
     key |-> k, rank |-> Cardinality(Slots)]

LEMMA FileOf ==
    ASSUME NEW impl, NEW opt, NEW f \in FilesToWrite(impl, opt)
    PROVE  \E k : \/ \E s \in Slots : f = BlockFile(impl, opt, k, s)
                  \/ f = ListFile(impl, opt, k)
<1>1. CASE f \in BlocksToWrite(impl, opt)
  <2>1. PICK k \in DOMAIN impl.entries :
            \E s \in DOMAIN ReadResource(impl, k).blocks : f = BlockFile(impl, opt, k, s)
    BY <1>1 DEF BlocksToWrite, BlockFile
  <2>2. DOMAIN ReadResource(impl, k).blocks \subseteq Slots
    BY MemoryTypesAreSlots DEF ReadResource
  <2> QED BY <2>1, <2>2
<1>2. CASE f \in ListsToWrite(impl, opt)
  BY <1>2 DEF ListsToWrite, ListFile
<1> QED BY <1>1, <1>2 DEF FilesToWrite

\* No two files of one export have the same path.
LEMMA PathsDiffer ==
    ASSUME NEW impl, NEW opt, NEW f \in FilesToWrite(impl, opt),
           NEW g \in FilesToWrite(impl, opt), f.path = g.path
    PROVE  f = g
<1>1. PICK k : \/ \E s \in Slots : f = BlockFile(impl, opt, k, s)
               \/ f = ListFile(impl, opt, k)
  BY FileOf
<1>2. PICK q : \/ \E s \in Slots : g = BlockFile(impl, opt, q, s)
               \/ g = ListFile(impl, opt, q)
  BY FileOf
<1>3. f.path[2] = k /\ g.path[2] = q
  BY <1>1, <1>2 DEF BlockFile, ListFile, BlockPath, ListPath
<1>4. k = q BY <1>3
<1>5. CASE f = ListFile(impl, opt, k)
  <2>1. f.path[3] = "imports" BY <1>5 DEF ListFile, ListPath
  <2>2. ASSUME NEW s \in Slots, g = BlockFile(impl, opt, q, s) PROVE FALSE
    <3>1. g.path[3] = MemoryTypeName(impl.fmt, s) BY <2>2 DEF BlockFile, BlockPath
    <3> QED BY <2>1, <3>1, MemoryTypeNamesDiffer
  <2> QED BY <1>2, <1>4, <1>5, <2>2
<1>6. ASSUME NEW s \in Slots, f = BlockFile(impl, opt, k, s) PROVE f = g
  <2>1. f.path[3] = MemoryTypeName(impl.fmt, s) BY <1>6 DEF BlockFile, BlockPath
  <2>2. g # ListFile(impl, opt, q)
    <3>1. g = ListFile(impl, opt, q) => g.path[3] = "imports" BY DEF ListFile, ListPath
    <3> QED BY <2>1, <3>1, MemoryTypeNamesDiffer
  <2>3. PICK t \in Slots : g = BlockFile(impl, opt, q, t) BY <1>2, <2>2
  <2>4. g.path[3] = MemoryTypeName(impl.fmt, t) BY <2>3 DEF BlockFile, BlockPath
  <2>5. s = t BY <2>1, <2>4, MemoryTypeNamesDiffer
  <2> QED BY <1>4, <1>6, <2>3, <2>5
<1> QED BY <1>1, <1>5, <1>6

-----------------------------------------------------------------------------
(* What a running export has written *)

\* The running export, under its options, has written what is no longer pending.
Written(opt) ==
    \A f \in FilesToWrite(bundle, opt) \ exporting.pending :
        f.path \in DOMAIN files /\ files[f.path] = f.holds

Running(opt) ==
    /\ exporting = [pending |-> exporting.pending, meta |-> exporting.meta,
                    combined |-> exporting.combined]
    /\ exporting.pending \subseteq FilesToWrite(bundle, opt)
    /\ Written(opt)
    /\ exporting.combined = IF WritesCombined(bundle, opt) THEN CombinedOf(bundle) ELSE NoFile
    /\ \/ progress = "begun" /\ exporting.meta = MetaOf(bundle, opt)
       \/ /\ progress = "described" /\ described = bundle
          /\ exporting.pending = {} /\ exporting.meta = NoFile
          /\ meta = MetaOf(bundle, opt)

ExportInv ==
    /\ exporting # Idle => importing = Idle /\ \E opt \in Options : Running(opt)
    /\ MetaVouches
    /\ described # NoImpl =>
          \E opt \in Options :
            /\ Describes(opt)
            /\ \A f \in FilesToWrite(described, opt) : f.path \in DOMAIN files

\* The steps that neither write nor begin or end an export.
LEMMA OtherSteps ==
    ASSUME ExportInv, UNCHANGED <<dir, exporting, ghosts>>,
           exporting = Idle \/ UNCHANGED <<bundle, importing>>
    PROVE  ExportInv'
<1> USE DEF dir, ghosts
<1>1. MetaVouches' BY DEF ExportInv, MetaVouches, Describes, HoldsFiles
<1>2. (described # NoImpl =>
          \E opt \in Options :
            /\ Describes(opt)
            /\ \A f \in FilesToWrite(described, opt) : f.path \in DOMAIN files)'
  BY DEF ExportInv, Describes
<1>3. (exporting # Idle => importing = Idle /\ \E opt \in Options : Running(opt))'
  BY DEF ExportInv, Running, Written
<1> QED BY <1>1, <1>2, <1>3 DEF ExportInv

\* A file written under its path leaves what was written before, and the paths
\* that were there.
LEMMA WriteKeeps ==
    ASSUME NEW opt, Running(opt), NEW f \in exporting.pending, NEW content,
           files' = Put(files, f.path, content), UNCHANGED bundle
    PROVE  /\ DOMAIN files \subseteq DOMAIN files'
           /\ \A g \in FilesToWrite(bundle, opt) \ exporting.pending :
                g.path \in DOMAIN files' /\ files'[g.path] = g.holds
           /\ f.path \in DOMAIN files' /\ files'[f.path] = content
<1>1. /\ DOMAIN files' = DOMAIN files \cup {f.path} /\ files'[f.path] = content
      /\ \A path \in DOMAIN files : path # f.path => files'[path] = files[path]
  BY DEF Put
<1>2. ASSUME NEW g \in FilesToWrite(bundle, opt) \ exporting.pending
      PROVE  g.path \in DOMAIN files' /\ files'[g.path] = g.holds
  <2>1. g.path \in DOMAIN files /\ files[g.path] = g.holds BY <1>2 DEF Running, Written
  <2>2. f \in FilesToWrite(bundle, opt) /\ g # f BY <1>2 DEF Running
  <2>3. g.path # f.path BY <1>2, <2>2, PathsDiffer
  <2> QED BY <1>1, <2>1, <2>3
<1> QED BY <1>1, <1>2

\* What stays true of .meta.yaml when a file is written during an export.
LEMMA OldPathsStay ==
    ASSUME ExportInv, DOMAIN files \subseteq DOMAIN files', UNCHANGED <<meta, described>>
    PROVE  (described # NoImpl =>
              \E opt \in Options :
                /\ Describes(opt)
                /\ \A f \in FilesToWrite(described, opt) : f.path \in DOMAIN files)'
    BY DEF ExportInv, Describes

\* Once an export has no file pending, .meta.yaml may describe its bundle.
LEMMA AllWritten ==
    ASSUME NEW opt, Running(opt), exporting.pending = {}
    PROVE  \A f \in FilesToWrite(bundle, opt) :
                f.path \in DOMAIN files /\ files[f.path] = f.holds
    BY DEF Running, Written

LEMMA WriteFileStep ==
    ASSUME ExportInv, WritesLast, WriteFile
    PROVE  ExportInv'
<1>1. importing = Idle BY DEF ExportInv, WriteFile
<1>2. PICK opt \in Options : Running(opt) BY DEF ExportInv, WriteFile
<1>3. PICK f \in exporting.pending :
          /\ files' = Put(files, f.path, f.holds)
          /\ exporting' = [exporting EXCEPT !.pending = @ \ {f}]
  BY DEF WriteFile, Arrives, WritesLast
<1>4. UNCHANGED <<bundle, lastError, meta, combined, importing, exports, described, progress>>
  BY DEF WriteFile, ghosts
<1>5. progress = "begun" /\ exporting.meta = MetaOf(bundle, opt)
  BY <1>2, <1>3 DEF Running
<1>6. /\ exporting'.pending = exporting.pending \ {f}
      /\ exporting'.meta = exporting.meta /\ exporting'.combined = exporting.combined
      /\ exporting' = [pending |-> exporting'.pending, meta |-> exporting'.meta,
                       combined |-> exporting'.combined]
  BY <1>2, <1>3 DEF Running
<1>7. \A g \in FilesToWrite(bundle, opt) \ exporting'.pending :
          g.path \in DOMAIN files' /\ files'[g.path] = g.holds
  <2>1. /\ \A g \in FilesToWrite(bundle, opt) \ exporting.pending :
               g.path \in DOMAIN files' /\ files'[g.path] = g.holds
        /\ f.path \in DOMAIN files' /\ files'[f.path] = f.holds
    BY <1>2, <1>3, <1>4, WriteKeeps
  <2> QED BY <1>6, <2>1
<1>8. Running(opt)'
  BY <1>2, <1>4, <1>5, <1>6, <1>7 DEF Running, Written
<1>9. MetaVouches' BY <1>4, <1>5 DEF MetaVouches
<1>10. DOMAIN files \subseteq DOMAIN files' BY <1>2, <1>3, <1>4, WriteKeeps
<1> QED BY <1>1, <1>4, <1>8, <1>9, <1>10, OldPathsStay DEF ExportInv

LEMMA WriteMetaStep ==
    ASSUME ExportInv, WritesLast, NoFileIsNoContent, WriteMeta
    PROVE  ExportInv'
<1>1. importing = Idle BY DEF ExportInv, WriteMeta
<1>2. PICK opt \in Options : Running(opt) BY DEF ExportInv, WriteMeta
<1>3. /\ exporting.pending = {} /\ exporting.meta = MetaOf(bundle, opt)
      /\ meta' = exporting.meta /\ described' = bundle
      /\ UNCHANGED <<bundle, files, combined, importing>>
  BY <1>2 DEF WriteMeta, Arrives, WritesLast, Running, ExportReturns
<1>4. \A f \in FilesToWrite(bundle, opt) : f.path \in DOMAIN files /\ files[f.path] = f.holds
  BY <1>2, <1>3, AllWritten
<1>5. Describes(opt)' /\ HoldsFiles(opt)' BY <1>3, <1>4 DEF Describes, HoldsFiles
<1>6. (described # NoImpl =>
          \E o \in Options :
            /\ Describes(o)
            /\ \A f \in FilesToWrite(described, o) : f.path \in DOMAIN files)'
  BY <1>5 DEF HoldsFiles
<1>7. CASE exporting.combined # NoFile
  <2>1. exporting' = [exporting EXCEPT !.meta = NoFile] /\ progress' = "described"
    BY <1>7 DEF WriteMeta
  <2>2. Running(opt)' BY <1>2, <1>3, <1>4, <2>1 DEF Running, Written
  <2>3. MetaVouches' BY <1>5, <2>1 DEF MetaVouches
  <2> QED BY <1>1, <1>3, <1>6, <2>2, <2>3 DEF ExportInv
<1>8. CASE exporting.combined = NoFile
  <2>1. exporting' = Idle /\ progress' = "finished" BY <1>8 DEF WriteMeta, ExportReturns
  <2>2. ~WritesCombined(bundle, opt) BY <1>2, <1>8 DEF Running, NoFileIsNoContent
  <2>3. MetaVouches' BY <1>3, <1>5, <2>2 DEF MetaVouches
  <2> QED BY <1>6, <2>1, <2>3 DEF ExportInv
<1> QED BY <1>7, <1>8

LEMMA WriteCombinedStep ==
    ASSUME ExportInv, WritesLast, NoFileIsNoContent, WriteCombined
    PROVE  ExportInv'
<1>1. PICK opt \in Options : Running(opt) BY DEF ExportInv, WriteCombined
<1>2. /\ exporting.meta = NoFile /\ combined' = exporting.combined
      /\ exporting' = Idle /\ progress' = "finished"
      /\ UNCHANGED <<bundle, files, meta, described>>
  BY DEF WriteCombined, Arrives, WritesLast, ExportReturns
<1>3. /\ described = bundle /\ exporting.pending = {} /\ meta = MetaOf(bundle, opt)
      /\ WritesCombined(bundle, opt) => exporting.combined = CombinedOf(bundle)
  BY <1>1, <1>2 DEF Running, NoFileIsNoContent
<1>4. \A f \in FilesToWrite(bundle, opt) : f.path \in DOMAIN files /\ files[f.path] = f.holds
  BY <1>1, <1>3, AllWritten
<1>5. /\ Describes(opt)' /\ HoldsFiles(opt)'
      /\ (WritesCombined(described, opt) => combined = CombinedOf(described))'
  BY <1>2, <1>3, <1>4 DEF Describes, HoldsFiles
<1>6. MetaVouches' BY <1>5 DEF MetaVouches
<1>7. (described # NoImpl =>
          \E o \in Options :
            /\ Describes(o)
            /\ \A f \in FilesToWrite(described, o) : f.path \in DOMAIN files)'
  BY <1>5 DEF HoldsFiles
<1> QED BY <1>2, <1>6, <1>7 DEF ExportInv

\* An export that stops, by a failed write or with the process.
LEMMA TornStep ==
    ASSUME ExportInv, exporting # Idle, TornWrite, exporting' = Idle
    PROVE  ExportInv'
<1>1. PICK opt \in Options : Running(opt) BY DEF ExportInv
<1>2. CASE UNCHANGED <<dir, described, progress>>
  <2>1. MetaVouches'
    BY <1>2 DEF ExportInv, MetaVouches, Describes, HoldsFiles, dir
  <2>2. DOMAIN files \subseteq DOMAIN files' /\ UNCHANGED <<meta, described>> BY <1>2 DEF dir
  <2> QED BY <2>1, <2>2, OldPathsStay DEF ExportInv
<1>3. CASE /\ \E f \in exporting.pending : \E content \in CutFile(f) :
                  IsNext(f) /\ files' = Put(files, f.path, content)
           /\ UNCHANGED <<meta, combined, described, progress>>
  <2>1. DOMAIN files \subseteq DOMAIN files' BY <1>3 DEF Put
  <2>2. progress = "begun" BY <1>1, <1>3 DEF Running
  <2>3. MetaVouches' BY <1>3, <2>2 DEF MetaVouches
  <2> QED BY <1>3, <2>1, <2>3, OldPathsStay DEF ExportInv
<1>4. CASE /\ exporting.pending = {} /\ exporting.meta # NoFile
           /\ meta' \in CutMeta(exporting.meta)
           /\ described' = IF meta' = exporting.meta THEN bundle ELSE NoImpl
           /\ progress' = IF meta' = exporting.meta THEN "described" ELSE progress
           /\ UNCHANGED <<files, combined>>
  <2>1. progress = "begun" /\ exporting.meta = MetaOf(bundle, opt) BY <1>1, <1>4 DEF Running
  <2>2. CASE meta' = exporting.meta
    <3>1. described' = bundle /\ progress' = "described" BY <1>4, <2>2
    <3>2. \A f \in FilesToWrite(bundle, opt) :
              f.path \in DOMAIN files /\ files[f.path] = f.holds
      BY <1>1, <1>4, AllWritten
    <3>3. Describes(opt)' /\ HoldsFiles(opt)'
      BY <1>4, <2>1, <2>2, <3>1, <3>2 DEF Describes, HoldsFiles
    <3>4. MetaVouches' BY <3>1, <3>3 DEF MetaVouches
    <3>5. (described # NoImpl =>
              \E o \in Options :
                /\ Describes(o)
                /\ \A f \in FilesToWrite(described, o) : f.path \in DOMAIN files)'
      BY <3>3 DEF HoldsFiles
    <3> QED BY <3>4, <3>5 DEF ExportInv
  <2>3. CASE meta' # exporting.meta
    <3>1. described' = NoImpl /\ progress' = "begun" BY <1>4, <2>1, <2>3
    <3> QED BY <3>1 DEF ExportInv, MetaVouches
  <2> QED BY <2>2, <2>3
<1>5. CASE /\ exporting.meta = NoFile
           /\ combined' \in CutCombined(exporting.combined)
           /\ UNCHANGED <<files, meta, described, progress>>
  <2>1. progress # "finished" BY <1>1 DEF Running
  <2>2. MetaVouches' BY <1>5, <2>1 DEF ExportInv, MetaVouches, Describes, HoldsFiles
  <2> QED BY <1>5, <2>2, OldPathsStay DEF ExportInv
<1> QED BY <1>2, <1>3, <1>4, <1>5 DEF TornWrite

LEMMA StartExportStep ==
    ASSUME ExportInv, NEW opt \in Options, StartExport(opt)
    PROVE  ExportInv'
<1>1. /\ importing = Idle /\ progress' = "begun"
      /\ UNCHANGED <<bundle, files, meta, combined, importing, described>>
  BY DEF StartExport, Quiet, dir
<1>2. exporting' = [pending  |-> FilesToWrite(bundle, opt), meta |-> MetaOf(bundle, opt),
                    combined |-> IF WritesCombined(bundle, opt) THEN CombinedOf(bundle)
                                 ELSE NoFile]
  BY DEF StartExport
<1>3. Running(opt)' BY <1>1, <1>2 DEF Running, Written
<1>4. MetaVouches' BY <1>1 DEF MetaVouches
<1> QED BY <1>1, <1>3, <1>4, OldPathsStay DEF ExportInv

\* Every step keeps the invariant.
LEMMA ExportInvStep ==
    ASSUME ExportInv, WritesLast, NoFileIsNoContent, [ProjectNext]_projectVars
    PROVE  ExportInv'
<1>1. CASE UNCHANGED projectVars BY <1>1, OtherSteps DEF projectVars
<1>2. ASSUME NEW impl \in Bundles \cup {NoImpl}, UseBundle(impl) PROVE ExportInv'
  BY <1>2, OtherSteps DEF UseBundle, Quiet
<1>3. CASE ExportRejected BY <1>3, OtherSteps DEF ExportRejected, Quiet
<1>4. ASSUME NEW opt \in Options, StartExport(opt) PROVE ExportInv' BY <1>4, StartExportStep
<1>5. CASE WriteFile BY <1>5, WriteFileStep
<1>6. CASE WriteMeta BY <1>6, WriteMetaStep
<1>7. CASE WriteCombined BY <1>7, WriteCombinedStep
<1>8. CASE ExportFails BY <1>8, TornStep DEF ExportFails, ExportReturns
<1>9. CASE Die BY <1>9, TornStep DEF Die
<1>10. CASE StartImport BY <1>10, OtherSteps DEF StartImport, Quiet
<1>11. CASE ImportResource
  <2>1. exporting = Idle BY <1>11 DEF ExportInv, ImportResource, RowsLeft
  <2> QED BY <1>11, <2>1, OtherSteps DEF ImportResource
<1>12. CASE FinishImport
  <2>1. exporting = Idle BY <1>12 DEF ExportInv, FinishImport
  <2> QED BY <1>12, <2>1, OtherSteps DEF FinishImport
<1>13. CASE ImportFails
  <2>1. exporting = Idle BY <1>13 DEF ExportInv, ImportFails, RowsLeft, Quiet
  <2> QED BY <1>13, <2>1, OtherSteps DEF ImportFails
<1> QED
  BY <1>1, <1>2, <1>3, <1>4, <1>5, <1>6, <1>7, <1>8, <1>9, <1>10, <1>11, <1>12, <1>13
  DEF ProjectNext, CallStep

LEMMA ExportInvInit == ProjectInit => ExportInv
    BY DEF ProjectInit, ExportInv, MetaVouches

-----------------------------------------------------------------------------
(* What .meta.yaml vouches for *)

\* Whatever exports failed or died over a directory, in whatever order: once the
\* last one has written .meta.yaml, every file that it names is there with the
\* content it describes (project.cpp:578-651).
THEOREM MetaIsTrue ==
    WritesLast /\ NoFileIsNoContent => (ProjectSpec => []MetaVouches)
<1> SUFFICES ASSUME WritesLast, NoFileIsNoContent PROVE ProjectSpec => []MetaVouches
  OBVIOUS
<1>1. ExportInv => MetaVouches BY DEF ExportInv
<1> QED BY <1>1, ExportInvInit, ExportInvStep, PTL DEF ProjectSpec

\* An export that has not come to .meta.yaml leaves the older project described,
\* with a file under every path it names (project.cpp:526-610).
THEOREM OldProjectsStay ==
    WritesLast /\ NoFileIsNoContent => (ProjectSpec => []OldProjectStays)
<1> SUFFICES ASSUME WritesLast, NoFileIsNoContent PROVE ProjectSpec => []OldProjectStays
  OBVIOUS
<1>1. ExportInv => OldProjectStays BY DEF ExportInv, OldProjectStays
<1> QED BY <1>1, ExportInvInit, ExportInvStep, PTL DEF ProjectSpec

-----------------------------------------------------------------------------
(* The order of an export *)

\* Type, id and stream put any two keys in an order.
LEMMA KeysAreOrdered ==
    ASSUME NEW impl, IsImpl(impl),
           NEW a \in DOMAIN impl.entries, NEW b \in DOMAIN impl.entries, NEW c \in DOMAIN impl.entries
    PROVE  /\ ~KeyBefore(impl, a, a)
           /\ a # b => KeyBefore(impl, a, b) \/ KeyBefore(impl, b, a)
           /\ KeyBefore(impl, a, b) /\ KeyBefore(impl, b, c) => KeyBefore(impl, a, c)
<1> DEFINE n(k) == TypeNumber[impl.entries[k].type]
<1>1. ASSUME NEW k \in DOMAIN impl.entries
      PROVE  k \in Key /\ k[1] \in Nat /\ k[2] \in Nat /\ n(k) \in Nat
  <2>1. k \in Key /\ IsEntry(impl.entries[k]) BY ImplFields DEF IsEntries
  <2>2. k[1] \in ResourceIDs /\ k[2] \in StreamIndices BY <2>1, KeyParts
  <2>3. k[1] \in Nat BY <2>2, ContainerAssumption
  <2>4. k[2] \in Nat
    <3>1. k[2] \in 0 .. 255 BY <2>2, ContainerAssumption
    <3> QED BY <3>1
  <2>5. impl.entries[k].type \in Types BY <2>1 DEF IsEntry
  <2>6. n(k) \in Nat
    <3>1. TypeNumber \in [Types -> Nat] BY ProjectAssumption
    <3> QED BY <2>5, <3>1
  <2> QED BY <2>1, <2>3, <2>4, <2>6
<1>2. a[1] = b[1] /\ a[2] = b[2] => a = b BY <1>1 DEF Key
<1>3. \A x, y : KeyBefore(impl, x, y) <=>
            \/ n(x) < n(y)
            \/ n(x) = n(y) /\ (x[1] < y[1] \/ (x[1] = y[1] /\ x[2] < y[2]))
  BY DEF KeyBefore
<1>4. /\ n(a) \in Nat /\ n(b) \in Nat /\ n(c) \in Nat
      /\ a[1] \in Nat /\ b[1] \in Nat /\ c[1] \in Nat
      /\ a[2] \in Nat /\ b[2] \in Nat /\ c[2] \in Nat
  BY <1>1
<1> HIDE DEF n
<1>5. ~KeyBefore(impl, a, a) BY <1>3, <1>4
<1>6. a # b => KeyBefore(impl, a, b) \/ KeyBefore(impl, b, a) BY <1>2, <1>3, <1>4
<1>7. KeyBefore(impl, a, b) /\ KeyBefore(impl, b, c) => KeyBefore(impl, a, c)
  BY <1>3, <1>4
<1> QED BY <1>5, <1>6, <1>7

\* The keys of an object are finitely many.
LEMMA KeysFinite ==
    ASSUME NEW impl, IsImpl(impl), NEW keys \in SUBSET DOMAIN impl.entries
    PROVE  IsFiniteSet(keys) /\ Cardinality(keys) \in Nat
<1>1. 0 \in Int /\ 255 \in Int OBVIOUS
<1>2. IsFiniteSet(0 .. 255) BY <1>1, FS_Interval
<1>3. IsFiniteSet(StreamIndices) BY <1>2, FS_Subset, ContainerAssumption
<1>4. IsFiniteSet(Key) BY <1>3, FS_Product, ContainerAssumption DEF Key
<1>5. keys \in SUBSET Key BY ImplFields DEF IsEntries
<1>6. IsFiniteSet(keys) BY <1>4, <1>5, FS_Subset
<1> QED BY <1>6, FS_CardinalityType

\* There is a sequence of some keys in that order: the i-th is the one with i
\* keys before it, itself included.
LEMMA OrderExists ==
    ASSUME NEW impl, IsImpl(impl), NEW keys \in SUBSET DOMAIN impl.entries
    PROVE  \E seq \in SetToSeqs(keys) :
                \A i, j \in DOMAIN seq : i < j => KeyBefore(impl, seq[i], seq[j])
<1> DEFINE upTo(k) == {q \in keys : q = k \/ KeyBefore(impl, q, k)}
           n       == Cardinality(keys)
           rank    == [k \in keys |-> Cardinality(upTo(k))]
<1>1. IsFiniteSet(keys) /\ n \in Nat BY KeysFinite
<1>2. ASSUME NEW k \in keys
      PROVE  IsFiniteSet(upTo(k)) /\ Cardinality(upTo(k)) \in 1 .. n
  <2>1. upTo(k) \in SUBSET keys /\ k \in upTo(k) BY <1>2
  <2>2. IsFiniteSet(upTo(k)) /\ Cardinality(upTo(k)) <= n BY <1>1, <2>1, FS_Subset
  <2>3. Cardinality(upTo(k)) \in Nat BY <2>2, FS_CardinalityType
  <2>4. Cardinality(upTo(k)) # 0 BY <2>1, <2>2, FS_EmptySet
  <2> HIDE DEF upTo, n
  <2> QED BY <1>1, <2>2, <2>3, <2>4
<1>3. ASSUME NEW a \in keys, NEW b \in keys, KeyBefore(impl, a, b)
      PROVE  Cardinality(upTo(a)) < Cardinality(upTo(b))
  <2>1. upTo(a) \subseteq upTo(b)
    <3> SUFFICES ASSUME NEW q \in keys, q = a \/ KeyBefore(impl, q, a)
                 PROVE  q = b \/ KeyBefore(impl, q, b)
      OBVIOUS
    <3> QED BY <1>3, KeysAreOrdered
  <2>2. b \in upTo(b) /\ b \notin upTo(a)
    <3>1. b # a BY <1>3, KeysAreOrdered
    <3>2. ~KeyBefore(impl, b, a)
      <4>1. KeyBefore(impl, b, a) => KeyBefore(impl, a, a) BY <1>3, KeysAreOrdered
      <4> QED BY <4>1, KeysAreOrdered
    <3> QED BY <3>1, <3>2
  <2> HIDE DEF upTo
  <2>3. upTo(a) \in SUBSET upTo(b) /\ upTo(a) # upTo(b) BY <2>1, <2>2
  <2>4. /\ Cardinality(upTo(a)) <= Cardinality(upTo(b))
        /\ Cardinality(upTo(a)) # Cardinality(upTo(b))
    BY <1>2, <2>3, FS_Subset
  <2> QED BY <1>1, <1>2, <2>4
<1> HIDE DEF upTo, n
<1>4. rank \in [keys -> 1 .. n] BY <1>2
<1>5. ASSUME NEW a \in keys, NEW b \in keys PROVE rank[a] < rank[b] => KeyBefore(impl, a, b)
  <2>1. a # b => KeyBefore(impl, a, b) \/ KeyBefore(impl, b, a) BY KeysAreOrdered
  <2> QED BY <1>1, <1>2, <1>3, <2>1
<1>6. ASSUME NEW a \in keys, NEW b \in keys, rank[a] = rank[b] PROVE a = b
  <2>1. a # b => KeyBefore(impl, a, b) \/ KeyBefore(impl, b, a) BY KeysAreOrdered
  <2> QED BY <1>1, <1>2, <1>3, <1>6, <2>1
<1> HIDE DEF rank
<1>7. rank \in Injection(keys, 1 .. n) BY <1>4, <1>6 DEF Injection, IsInjective
<1>8. rank \in Surjection(keys, 1 .. n)
  <2>1. 1 \in Int /\ n \in Int BY <1>1
  <2>2. IsFiniteSet(1 .. n) /\ Cardinality(1 .. n) = IF 1 > n THEN 0 ELSE n - 1 + 1
    BY <2>1, FS_Interval
  <2>3. Cardinality(1 .. n) = n BY <1>1, <2>2
  <2> QED BY <1>7, <2>2, <2>3, FS_Injection DEF n
<1> DEFINE seq == [i \in 1 .. n |-> CHOOSE k \in keys : rank[k] = i]
<1>9. ASSUME NEW i \in 1 .. n PROVE seq[i] \in keys /\ rank[seq[i]] = i
  BY <1>8 DEF Surjection
<1>10. seq \in [1 .. n -> keys] /\ \A i, j \in 1 .. n : i # j => seq[i] # seq[j]
  <2>1. \A i \in 1 .. n : seq[i] \in keys BY <1>9
  <2>2. \A i, j \in 1 .. n : i # j => seq[i] # seq[j]
    <3> HIDE DEF seq
    <3> QED BY <1>9
  <2> QED BY <2>1, <2>2
<1>11. \A i, j \in 1 .. n : i < j => KeyBefore(impl, seq[i], seq[j])
  <2> HIDE DEF seq
  <2> QED BY <1>5, <1>9
<1>12. DOMAIN seq = 1 .. n OBVIOUS
<1> HIDE DEF seq
<1>13. seq \in SetToSeqs(keys) BY <1>10 DEF SetToSeqs, n
<1> QED BY <1>11, <1>12, <1>13

\* It is a sequence of all of them, each once.
LEMMA OrderIsComplete ==
    ASSUME NEW impl, IsImpl(impl), NEW keys \in SUBSET DOMAIN impl.entries
    PROVE  /\ InOrder(impl, keys) \in [1 .. Cardinality(keys) -> keys]
           /\ Cardinality(keys) \in Nat
           /\ \A k \in keys : \E i \in 1 .. Cardinality(keys) : InOrder(impl, keys)[i] = k
           /\ \A i, j \in 1 .. Cardinality(keys) :
                    i # j => InOrder(impl, keys)[i] # InOrder(impl, keys)[j]
<1> DEFINE seq == InOrder(impl, keys)
           n   == Cardinality(keys)
<1>1. seq \in SetToSeqs(keys) BY OrderExists DEF InOrder
<1>2. IsFiniteSet(keys) /\ n \in Nat BY KeysFinite
<1> HIDE DEF seq
<1>3. seq \in [1 .. n -> keys] /\ \A i, j \in 1 .. n : i # j => seq[i] # seq[j]
  BY <1>1 DEF SetToSeqs
<1> HIDE DEF n
<1>4. seq \in Injection(1 .. n, keys) BY <1>3 DEF Injection, IsInjective
<1>5. Cardinality(1 .. n) = n
  <2>1. 1 \in Int /\ n \in Int BY <1>2
  <2>2. Cardinality(1 .. n) = IF 1 > n THEN 0 ELSE n - 1 + 1 BY <2>1, FS_Interval
  <2> QED BY <1>2, <2>2
<1>6. seq \in Surjection(1 .. n, keys) BY <1>2, <1>4, <1>5, FS_Injection DEF n
<1> QED BY <1>2, <1>3, <1>6 DEF Surjection, seq, n

-----------------------------------------------------------------------------
(* What an export writes is typed *)

\* A bundle whose every resource can be read.
AllReadable(impl) == \A k \in DOMAIN impl.entries : CanReadResource(impl, k)

\* What an export needs of its bundle.
IsExportable(impl) == IsImpl(impl) /\ ReadsWhole(impl) /\ AllReadable(impl)

\* The import list of a resource, and its blocks.
LEMMA ReadsTyped ==
    ASSUME NEW impl, IsExportable(impl), NEW k \in DOMAIN impl.entries
    PROVE  /\ ReadImports(impl, k) \in Seq(ResourceIDs)
           /\ DOMAIN ReadResource(impl, k).blocks \subseteq Slots
           /\ \A s \in DOMAIN ReadResource(impl, k).blocks :
                /\ ReadResource(impl, k).blocks[s] = ReadBlock(impl, k, s)
                /\ ReadBlock(impl, k, s) \in Block /\ ReadBlock(impl, k, s).payload # Garbled
<1>1. CanReadResource(impl, k) BY DEF IsExportable, AllReadable
<1>2. /\ ReadResource(impl, k).imports \in Seq(ResourceIDs)
      /\ \A s \in DOMAIN ReadResource(impl, k).blocks :
            /\ ReadResource(impl, k).blocks[s] \in Block
            /\ ReadResource(impl, k).blocks[s].payload # Garbled
  BY <1>1 DEF IsExportable, ReadsWhole
<1>3. ReadResource(impl, k).imports = ReadImports(impl, k) BY DEF ReadResource
<1>4. \A s \in DOMAIN ReadResource(impl, k).blocks :
          s \in Slots /\ ReadResource(impl, k).blocks[s] = ReadBlock(impl, k, s)
  BY MemoryTypesAreSlots DEF ReadResource
<1> QED BY <1>2, <1>3, <1>4

\* What a file may hold, by its path.
IsContent(path, content) ==
    content \in IF path[3] = "imports" THEN Seq(ResourceIDs) \cup {Unreadable}
                ELSE Payloads \ {Garbled}

\* It is that whether its writing is cut short or not.
LEMMA FileTyped ==
    ASSUME NEW impl, IsExportable(impl), NEW opt, NEW f \in FilesToWrite(impl, opt),
           NEW content \in CutFile(f) \cup {f.holds}
    PROVE  IsContent(f.path, content)
<1>1. CASE f \in BlocksToWrite(impl, opt)
  <2>1. PICK k \in DOMAIN impl.entries :
            \E s \in DOMAIN ReadResource(impl, k).blocks : f = BlockFile(impl, opt, k, s)
    BY <1>1 DEF BlocksToWrite, BlockFile
  <2>2. PICK s \in DOMAIN ReadResource(impl, k).blocks : f = BlockFile(impl, opt, k, s)
    BY <2>1
  <2>3. /\ s \in Slots /\ ReadBlock(impl, k, s) \in Block
        /\ ReadBlock(impl, k, s).payload # Garbled
    BY <2>2, ReadsTyped
  <2>4. f.holds \in Payloads \ {Garbled}
    <3>1. f.holds = ReadBlock(impl, k, s).payload BY <2>2 DEF BlockFile
    <3> QED BY <2>3, <3>1 DEF Block
  <2>5. f.rank = s /\ f.path[3] = MemoryTypeName(impl.fmt, s)
    BY <2>2 DEF BlockFile, BlockPath
  <2>6. content \in {f.holds} \cup CutPayload[f.holds] BY <2>3, <2>5 DEF CutFile, CutBlock
  <2>7. CutPayload[f.holds] \subseteq Payloads \ {Garbled} BY <2>4, ProjectAssumption
  <2>8. f.path[3] # "imports" BY <2>3, <2>5, MemoryTypeNamesDiffer
  <2> QED BY <2>4, <2>6, <2>7, <2>8 DEF IsContent
<1>2. CASE f \in ListsToWrite(impl, opt)
  <2>1. PICK k \in DOMAIN impl.entries : f = ListFile(impl, opt, k)
    BY <1>2 DEF ListsToWrite, ListFile
  <2>2. f.holds \in Seq(ResourceIDs)
    <3>1. f.holds = ReadImports(impl, k) BY <2>1 DEF ListFile
    <3> QED BY <3>1, ReadsTyped
  <2>3. f.rank = Cardinality(Slots) /\ f.path[3] = "imports" BY <2>1 DEF ListFile, ListPath
  <2>4. Cardinality(Slots) \notin Slots
    <3>1. 0 \in Int /\ 3 \in Int OBVIOUS
    <3>2. Cardinality(0 .. 3) = IF 0 > 3 THEN 0 ELSE 3 - 0 + 1 BY <3>1, FS_Interval
    <3> QED BY <3>2 DEF Slots
  <2>5. content \in {f.holds, Unreadable} \cup {SubSeq(f.holds, 1, n) : n \in 1 .. Len(f.holds)}
    BY <2>3, <2>4 DEF CutFile, CutList
  <2>6. \A n \in 1 .. Len(f.holds) : SubSeq(f.holds, 1, n) \in Seq(ResourceIDs) BY <2>2
  <2> QED BY <2>2, <2>3, <2>5, <2>6 DEF IsContent
<1> QED BY <1>1, <1>2 DEF FilesToWrite

\* A row of .meta.yaml.
LEMMA RowTyped ==
    ASSUME NEW impl, IsExportable(impl), NEW opt, NEW k \in DOMAIN impl.entries
    PROVE  IsRow(RowOf(impl, opt, k))
<1> DEFINE r    == ReadResource(impl, k)
           name == IF k \in DOMAIN impl.debug THEN impl.debug[k] ELSE NoName
           aligns == [s \in DOMAIN r.blocks |-> r.blocks[s].align]
<1>1. k \in Key /\ r.type \in Types
  <2>1. k \in Key /\ IsEntry(impl.entries[k]) BY ImplFields DEF IsExportable, IsEntries
  <2> QED BY <2>1 DEF ReadResource, IsEntry
<1>2. name \in DebugNames \cup {NoName}
  BY ImplFields DEF IsExportable, IsDebugData, IsMap
<1>3. IsMap(aligns, Slots, Alignments)
  <2>1. \A s \in DOMAIN r.blocks : s \in Slots /\ r.blocks[s].align \in Alignments
    BY ReadsTyped DEF Block
  <2> HIDE DEF r
  <2> QED BY <2>1 DEF IsMap
<1>4. HasList(impl, opt, k) \in BOOLEAN BY DEF HasList
<1>5. RowOf(impl, opt, k) = [key |-> k, type |-> r.type, folder |-> Folder(impl, opt, k),
                             name |-> name, aligns |-> aligns, list |-> HasList(impl, opt, k)]
  BY Zenon DEF RowOf
<1> HIDE DEF r, name, aligns
<1> QED BY <1>1, <1>2, <1>3, <1>4, <1>5 DEF IsRow

\* Rows make a description.
LEMMA MetaOfRows ==
    ASSUME NEW fmt \in Format, NEW flags \in SUBSET FlagNames, NEW default \in DefaultKey,
           NEW names \in StreamTable, NEW n \in Nat, NEW rows, DOMAIN rows = 1 .. n,
           rows = [i \in 1 .. n |-> rows[i]], \A i \in 1 .. n : IsRow(rows[i])
    PROVE  IsMeta([fmt |-> fmt, flags |-> flags, default |-> default, names |-> names,
                   rows |-> rows])
<1> DEFINE m == [fmt |-> fmt, flags |-> flags, default |-> default, names |-> names,
                 rows |-> rows]
           all == {rows[i] : i \in DOMAIN rows}
<1>1. rows \in Seq(all)
  <2>1. \A i \in 1 .. n : rows[i] \in all OBVIOUS
  <2> HIDE DEF all
  <2> QED BY <2>1
<1>2. m.rows = rows /\ {m.rows[i] : i \in DOMAIN m.rows} = all OBVIOUS
<1> HIDE DEF all
<1>3. m \in [fmt : Format, flags : SUBSET FlagNames, default : DefaultKey,
             names : StreamTable, rows : Seq(all)]
  BY <1>1
<1> HIDE DEF m
<1>4. IsMeta(m) BY <1>2, <1>3 DEF IsMeta
<1> QED BY <1>4 DEF m

\* .meta.yaml.
LEMMA MetaOfTyped ==
    ASSUME NEW impl, IsExportable(impl), NEW opt
    PROVE  IsMeta(MetaOf(impl, opt))
<1> DEFINE n    == Cardinality(DOMAIN impl.entries)
           rows == [i \in DOMAIN SortedKeys(impl) |-> RowOf(impl, opt, SortedKeys(impl)[i])]
<1>1. SortedKeys(impl) \in [1 .. n -> DOMAIN impl.entries] /\ n \in Nat
  BY OrderIsComplete DEF SortedKeys, IsExportable
<1> HIDE DEF n
<1>2. DOMAIN rows = 1 .. n /\ rows = [i \in 1 .. n |-> rows[i]] BY <1>1
<1>3. \A i \in 1 .. n : IsRow(rows[i])
  <2> SUFFICES ASSUME NEW i \in 1 .. n PROVE IsRow(RowOf(impl, opt, SortedKeys(impl)[i]))
    BY <1>1
  <2> QED BY <1>1, RowTyped
<1>4. MetaOf(impl, opt) = [fmt |-> impl.fmt, flags |-> impl.flags, default |-> impl.default,
                           names |-> impl.names, rows |-> rows]
  BY DEF MetaOf
<1> HIDE DEF rows
<1>5. /\ impl.fmt \in Format /\ impl.flags \in SUBSET FlagNames
      /\ impl.default \in DefaultKey /\ impl.names \in StreamTable
  BY ImplFields DEF IsExportable
<1> QED BY <1>1, <1>2, <1>3, <1>4, <1>5, MetaOfRows

\* .imports.yaml.
LEMMA CombinedOfTyped ==
    ASSUME NEW impl, IsExportable(impl)
    PROVE  IsCombined(CombinedOf(impl))
<1> DEFINE with == {k \in DOMAIN impl.entries : ReadImports(impl, k) # <<>>}
           keys == InOrder(impl, with)
           n    == Cardinality(with)
<1>1. keys \in [1 .. n -> with] /\ n \in Nat
  <2>1. with \in SUBSET DOMAIN impl.entries OBVIOUS
  <2> HIDE DEF with
  <2> QED BY <2>1, OrderIsComplete DEF IsExportable
<1> HIDE DEF keys, n
<1>2. CombinedOf(impl) =
          [i \in DOMAIN keys |-> [key |-> keys[i], list |-> ReadImports(impl, keys[i])]]
  BY DEF CombinedOf, keys
<1>3. \A i \in 1 .. n : keys[i] \in Key /\ ReadImports(impl, keys[i]) \in Seq(ResourceIDs)
  <2>1. \A i \in 1 .. n : keys[i] \in DOMAIN impl.entries BY <1>1
  <2>2. DOMAIN impl.entries \subseteq Key BY ImplFields DEF IsExportable, IsEntries
  <2> QED BY <2>1, <2>2, ReadsTyped
<1> QED BY <1>1, <1>2, <1>3 DEF IsCombined

\* A row that lost its end is a row.
LEMMA CutRowTyped ==
    ASSUME NEW row, IsRow(row), NEW cut \in CutRow(row)
    PROVE  IsRow(cut)
<1>1. PICK last \in DOMAIN row.aligns \cup {-1}, a \in Alignments :
        cut = RowUpTo(row, last, a)
  BY DEF CutRow
<1> DEFINE one    == [row EXCEPT !.list = FALSE]
           aligns == [s \in {t \in DOMAIN row.aligns : t <= last} |->
                         IF s = last THEN a ELSE row.aligns[s]]
<1>2. one = [key |-> row.key, type |-> row.type, folder |-> row.folder, name |-> row.name,
             aligns |-> row.aligns, list |-> FALSE]
  <2>1. row = [key |-> row.key, type |-> row.type, folder |-> row.folder, name |-> row.name,
               aligns |-> row.aligns, list |-> row.list]
    BY DEF IsRow
  <2>2. ASSUME NEW list
        PROVE  [row EXCEPT !.list = list] =
                 [key |-> row.key, type |-> row.type, folder |-> row.folder,
                  name |-> row.name, aligns |-> row.aligns, list |-> list]
    BY <2>1
  <2> QED BY <2>2, Zenon
<1>3. cut = [one EXCEPT !.aligns = aligns]
  <2>1. one.aligns = row.aligns
    <3> HIDE DEF one
    <3> QED BY <1>2
  <2>2. cut = [one EXCEPT !.aligns = [s \in {t \in DOMAIN one.aligns : t <= last} |->
                                         IF s = last THEN a ELSE one.aligns[s]]]
    BY <1>1 DEF RowUpTo
  <2> HIDE DEF one
  <2> QED BY <2>1, <2>2
<1>4. IsMap(aligns, Slots, Alignments)
  <2>1. \A s \in DOMAIN row.aligns : s \in Slots /\ row.aligns[s] \in Alignments
    BY DEF IsRow, IsMap
  <2> QED BY <2>1 DEF IsMap
<1> HIDE DEF one, aligns
<1>5. cut = [key |-> row.key, type |-> row.type, folder |-> row.folder, name |-> row.name,
             aligns |-> aligns, list |-> FALSE]
  BY <1>2, <1>3
<1>6. row.key \in Key /\ row.type \in Types /\ row.name \in DebugNames \cup {NoName}
  BY DEF IsRow
<1> QED BY <1>4, <1>5, <1>6 DEF IsRow

\* A description that lost its end is one.
LEMMA CutMetaTyped ==
    ASSUME NEW m, IsMeta(m), NEW cut \in CutMeta(m), cut # Unreadable
    PROVE  IsMeta(cut)
<1>1. CASE cut = m BY <1>1
<1>2. CASE cut # m
  <2>1. PICK n \in DOMAIN m.rows :
          \E row \in CutRow(m.rows[n]) \cup {m.rows[n]} :
                cut = [m EXCEPT !.rows = Append(SubSeq(@, 1, n - 1), row)]
    BY <1>2 DEF CutMeta
  <2>2. PICK row \in CutRow(m.rows[n]) \cup {m.rows[n]} :
          cut = [m EXCEPT !.rows = Append(SubSeq(@, 1, n - 1), row)]
    BY <2>1
  <2>3. /\ m.rows \in Seq({m.rows[i] : i \in DOMAIN m.rows})
        /\ \A i \in DOMAIN m.rows : IsRow(m.rows[i])
        /\ m.fmt \in Format /\ m.flags \in SUBSET FlagNames
        /\ m.default \in DefaultKey /\ m.names \in StreamTable
        /\ m = [fmt |-> m.fmt, flags |-> m.flags, default |-> m.default, names |-> m.names,
                rows |-> m.rows]
    BY DEF IsMeta
  <2>4. DOMAIN m.rows = 1 .. Len(m.rows) /\ Len(m.rows) \in Nat BY <2>3
  <2>5. IsRow(row)
    <3>1. IsRow(m.rows[n]) BY <2>3
    <3> QED BY <3>1, CutRowTyped
  <2> DEFINE rows == Append(SubSeq(m.rows, 1, n - 1), row)
  <2>6. /\ DOMAIN rows = 1 .. n /\ rows = [i \in 1 .. n |-> rows[i]]
        /\ rows[n] = row /\ \A i \in 1 .. n - 1 : rows[i] = m.rows[i]
    <3> DEFINE all == {m.rows[i] : i \in DOMAIN m.rows} \cup {row}
    <3>1. m.rows \in Seq(all) /\ row \in all
      <4>1. {m.rows[i] : i \in DOMAIN m.rows} \subseteq all OBVIOUS
      <4>2. row \in all OBVIOUS
      <4> HIDE DEF all
      <4> QED BY <2>3, <2>4, <4>1, <4>2
    <3> HIDE DEF all
    <3>2. n \in 1 .. Len(m.rows) BY <2>4
    <3>3. /\ SubSeq(m.rows, 1, n - 1) \in Seq(all) /\ Len(SubSeq(m.rows, 1, n - 1)) = n - 1
          /\ \A i \in 1 .. n - 1 : SubSeq(m.rows, 1, n - 1)[i] = m.rows[i]
      BY <2>4, <3>1, <3>2
    <3> DEFINE front == SubSeq(m.rows, 1, n - 1)
    <3> HIDE DEF front
    <3>4. /\ Append(front, row) \in Seq(all) /\ Len(Append(front, row)) = n
          /\ Append(front, row)[n] = row
          /\ \A i \in 1 .. n - 1 : Append(front, row)[i] = front[i]
      BY <3>1, <3>2, <3>3 DEF front
    <3>5. \A i \in 1 .. n - 1 : Append(front, row)[i] = m.rows[i] BY <3>3, <3>4 DEF front
    <3> HIDE DEF rows
    <3>6. rows \in Seq(all) /\ Len(rows) = n BY <3>4 DEF rows, front
    <3>7. DOMAIN rows = 1 .. n /\ rows = [i \in 1 .. n |-> rows[i]] BY <3>6
    <3> QED BY <3>4, <3>5, <3>7 DEF front, rows
  <2>7. \A i \in 1 .. n : IsRow(rows[i])
    <3> HIDE DEF rows
    <3>1. \A i \in 1 .. n - 1 : i \in DOMAIN m.rows BY <2>4
    <3>2. \A i \in 1 .. n : i = n \/ i \in 1 .. n - 1 BY <2>4
    <3> QED BY <2>3, <2>5, <2>6, <3>1, <3>2
  <2>8. cut = [fmt |-> m.fmt, flags |-> m.flags, default |-> m.default, names |-> m.names,
               rows |-> rows]
    <3>1. cut = [m EXCEPT !.rows = rows] BY <2>2
    <3> HIDE DEF rows
    <3> QED BY <2>3, <3>1
  <2>9. n \in Nat BY <2>4
  <2> HIDE DEF rows
  <2> QED BY <2>3, <2>6, <2>7, <2>8, <2>9, MetaOfRows
<1> QED BY <1>1, <1>2

\* Combined imports that lost their end are combined imports.
LEMMA CutCombinedTyped ==
    ASSUME NEW c, IsCombined(c), NEW cut \in CutCombined(c), cut # Unreadable
    PROVE  IsCombined(cut)
<1> DEFINE Row == [key : Key, list : Seq(ResourceIDs)]
<1>1. CASE cut = c \/ cut = <<>>
  <2>1. c \in Seq(Row) BY DEF IsCombined
  <2> HIDE DEF Row
  <2>2. <<>> \in Seq(Row) OBVIOUS
  <2> QED BY <1>1, <2>1, <2>2 DEF IsCombined, Row
<1>2. CASE cut # c /\ cut # <<>>
  <2>1. PICK n \in DOMAIN c :
          \/ \E id \in ResourceIDs :
                cut = Append(SubSeq(c, 1, n - 1), [key |-> <<id, 0>>, list |-> <<>>])
          \/ \E m \in 0 .. Len(c[n].list) :
                cut = Append(SubSeq(c, 1, n - 1), [c[n] EXCEPT !.list = SubSeq(@, 1, m)])
    BY <1>2 DEF CutCombined
  <2>2. c \in Seq(Row) /\ c[n] \in Row /\ SubSeq(c, 1, n - 1) \in Seq(Row)
    <3>1. c \in Seq(Row) BY DEF IsCombined
    <3> HIDE DEF Row
    <3> QED BY <3>1
  <2>3. \A row \in Row : Append(SubSeq(c, 1, n - 1), row) \in Seq(Row)
    <3> HIDE DEF Row
    <3> QED BY <2>2
  <2>4. \A id \in ResourceIDs : [key |-> <<id, 0>>, list |-> <<>>] \in Row
    <3>1. 0 \in StreamIndices BY ContainerAssumption
    <3> QED BY <3>1 DEF Key
  <2>5. \A m \in 0 .. Len(c[n].list) : [c[n] EXCEPT !.list = SubSeq(@, 1, m)] \in Row
    <3>1. c[n].list \in Seq(ResourceIDs) /\ c[n].key \in Key BY <2>2
    <3>2. \A m \in 0 .. Len(c[n].list) : SubSeq(c[n].list, 1, m) \in Seq(ResourceIDs)
      BY <3>1
    <3>3. c[n] = [key |-> c[n].key, list |-> c[n].list] BY <2>2
    <3>4. ASSUME NEW list
          PROVE  [c[n] EXCEPT !.list = list] = [key |-> c[n].key, list |-> list]
      BY <3>3
    <3> QED BY <3>1, <3>2, <3>4
  <2> HIDE DEF Row
  <2> QED BY <2>1, <2>3, <2>4, <2>5 DEF IsCombined, Row
<1> QED BY <1>1, <1>2

-----------------------------------------------------------------------------
(* What an import builds *)

\* What is read of a key depends on the format and the key's entry, its imports
\* in BNDL on the list of its id.
LEMMA SameEntryReadsSame ==
    ASSUME NEW impl, NEW other, other.fmt = impl.fmt, NEW k,
           other.entries[k] = impl.entries[k]
    PROVE  /\ CanReadResource(other, k) <=> CanReadResource(impl, k)
           /\ \A s : ReadBlock(other, k, s) = ReadBlock(impl, k, s)
           /\ ReadResource(other, k).blocks = ReadResource(impl, k).blocks
           /\ IsBnd2(impl.fmt) => ReadImports(other, k) = ReadImports(impl, k)
<1>1. CanReadResource(other, k) <=> CanReadResource(impl, k)
  BY DEF CanReadResource, CanReadBlock
<1>2. \A s : ReadBlock(other, k, s) = ReadBlock(impl, k, s) BY DEF ReadBlock
<1>3. ReadResource(other, k).blocks = ReadResource(impl, k).blocks
  BY <1>2 DEF ReadResource
<1>4. IsBnd2(impl.fmt) => ReadImports(other, k) = ReadImports(impl, k)
  BY DEF ReadImports
<1> QED BY <1>1, <1>2, <1>3, <1>4

\* A bundle that reads whole does so with another resource in it.
LEMMA AddedReadsWhole ==
    ASSUME NEW impl, IsImpl(impl), ReadsWhole(impl), NEW k \in Key, NEW r, Given(r), NEW stop,
           AddResource(impl, k, r, stop).ok,
           NEW other, IsImpl(other), other.fmt = impl.fmt,
           other.entries = AddResource(impl, k, r, stop).impl.entries,
           other.imports = AddResource(impl, k, r, stop).impl.imports
    PROVE  ReadsWhole(other)
<1>1. /\ other.entries = Put(impl.entries, k, other.entries[k])
      /\ ReadResource(other, k) = HeldPart(impl.fmt, r.type, r)
  BY AddedIsHeld
<1>2. /\ DOMAIN other.entries = DOMAIN impl.entries \cup {k}
      /\ \A q \in DOMAIN impl.entries : q # k => other.entries[q] = impl.entries[q]
  <2> DEFINE e == other.entries[k]
  <2> HIDE DEF e
  <2>1. other.entries = Put(impl.entries, k, e) BY <1>1 DEF e
  <2> QED BY <2>1 DEF Put
<1> DEFINE Whole(x) == /\ x.imports \in Seq(ResourceIDs)
                       /\ \A s \in DOMAIN x.blocks :
                            /\ x.blocks[s] \in Block
                            /\ x.blocks[s].payload # Garbled /\ x.blocks[s].trailer = <<>>
<1>3. Whole(ReadResource(other, k))
  <2>1. /\ r.imports \in Seq(ResourceIDs)
        /\ \A s \in DOMAIN r.blocks : /\ r.blocks[s] \in Block
                                      /\ r.blocks[s].payload # Garbled
                                      /\ r.blocks[s].trailer = <<>>
    BY DEF Given, IsResource, IsBlockMap, IsMap
  <2>2. <<>> \in Seq(ResourceIDs) OBVIOUS
  <2>3. Whole(HeldPart(impl.fmt, r.type, r)) BY <2>1, <2>2 DEF HeldPart
  <2> HIDE DEF Whole
  <2> QED BY <1>1, <2>3
<1>4. ASSUME NEW q \in DOMAIN impl.entries, q # k, CanReadResource(other, q)
      PROVE  Whole(ReadResource(other, q))
  <2>1. other.entries[q] = impl.entries[q] BY <1>2, <1>4
  <2>2. /\ CanReadResource(impl, q)
        /\ ReadResource(other, q).blocks = ReadResource(impl, q).blocks
        /\ IsBnd2(impl.fmt) => ReadImports(other, q) = ReadImports(impl, q)
    BY <1>4, <2>1, SameEntryReadsSame
  <2>3. Whole(ReadResource(impl, q)) BY <2>2 DEF ReadsWhole
  <2>4. /\ ReadResource(other, q).imports = ReadImports(other, q)
        /\ ReadResource(impl, q).imports = ReadImports(impl, q)
    BY DEF ReadResource
  <2>5. ReadImports(other, q) \in Seq(ResourceIDs)
    <3>1. CASE IsBnd2(impl.fmt) BY <2>2, <2>3, <2>4, <3>1
    <3>2. CASE ~IsBnd2(impl.fmt)
      <4>1. <<>> \in Seq(ResourceIDs) OBVIOUS
      <4>2. \A id \in DOMAIN other.imports : other.imports[id] \in Seq(ResourceIDs)
        BY ImplFields DEF IsImportLists, IsMap
      <4> QED BY <3>2, <4>1, <4>2 DEF ReadImports
    <3> QED BY <3>1, <3>2
  <2> QED BY <2>2, <2>3, <2>4, <2>5
<1>5. \A q \in DOMAIN other.entries : CanReadResource(other, q) => Whole(ReadResource(other, q))
  <2> HIDE DEF Whole
  <2> QED BY <1>2, <1>3, <1>4
<1> QED BY <1>5 DEF ReadsWhole

\* What is read depends on the format, the entries and the import lists.
LEMMA SameRead ==
    ASSUME NEW impl, NEW other, other.fmt = impl.fmt,
           other.entries = impl.entries, other.imports = impl.imports
    PROVE  \A k : /\ CanReadResource(other, k) <=> CanReadResource(impl, k)
                  /\ ReadResource(other, k) = ReadResource(impl, k)
<1>1. \A k : CanReadResource(other, k) <=> CanReadResource(impl, k) BY SameEntryReadsSame
<1>2. \A k : ReadImports(other, k) = ReadImports(impl, k) BY DEF ReadImports
<1>3. \A k, s : ReadBlock(other, k, s) = ReadBlock(impl, k, s) BY DEF ReadBlock
<1> QED BY <1>1, <1>2, <1>3 DEF ReadResource

\* Metadata does not change what is read.
LEMMA SameReadsWhole ==
    ASSUME NEW impl, ReadsWhole(impl), NEW other, other.fmt = impl.fmt,
           other.entries = impl.entries, other.imports = impl.imports
    PROVE  ReadsWhole(other)
    BY SameRead DEF ReadsWhole

\* The directory's files, .meta.yaml and .imports.yaml.
DirTyped ==
    /\ \A path \in DOMAIN files : IsContent(path, files[path])
    /\ meta \in {NoFile, Unreadable} \/ IsMeta(meta)
    /\ combined \in {NoFile, Unreadable} \/ IsCombined(combined)

\* What GetResource is to find of a row.
RowBlocks(row) ==
    [s \in BlockSlots(row) |->
        [payload |-> files[PathOf(row, s)], trailer |-> <<>>, align |-> row.aligns[s]]]

\* What an import has built of a row.
RowIsHeld(impl, row) ==
    /\ CanReadResource(impl, row.key)
    /\ \A s \in BlockSlots(row) :
        /\ s \in DOMAIN impl.entries[row.key].blocks
        /\ PathOf(row, s) \in DOMAIN files
        /\ ReadBlock(impl, row.key, s) = RowBlocks(row)[s]

\* The list of a row's resource is one.
LEMMA ImportsForTyped ==
    ASSUME DirTyped, combined # Unreadable, NEW row, HasFiles(row)
    PROVE  ImportsFor(row) \in Seq(ResourceIDs)
<1>1. CASE row.list
  <2> DEFINE path == ListPath(row.folder, row.key)
  <2>1. path \in DOMAIN files /\ files[path] # Unreadable BY <1>1 DEF HasFiles
  <2>2. path[3] = "imports" BY DEF ListPath
  <2> HIDE DEF path
  <2>3. IsContent(path, files[path]) BY <2>1 DEF DirTyped
  <2>4. files[path] \in Seq(ResourceIDs) BY <2>1, <2>2, <2>3 DEF IsContent
  <2> QED BY <1>1, <2>4 DEF ImportsFor, path
<1>2. CASE ~row.list
  <2> DEFINE rows == IF combined = NoFile THEN {}
                     ELSE {i \in DOMAIN combined : combined[i].key = row.key}
  <2>1. CombinedList(row.key) = IF rows = {} THEN <<>> ELSE combined[Max(rows)].list
    BY DEF CombinedList
  <2>2. CASE rows = {}
    <3>1. <<>> \in Seq(ResourceIDs) OBVIOUS
    <3> QED BY <1>2, <2>1, <2>2, <3>1 DEF ImportsFor
  <2>3. CASE rows # {}
    <3>1. IsCombined(combined) BY <2>3 DEF DirTyped
    <3>2. /\ Len(combined) \in Nat /\ DOMAIN combined = 1 .. Len(combined)
          /\ \A i \in DOMAIN combined : combined[i].list \in Seq(ResourceIDs)
      <4> DEFINE Row == [key : Key, list : Seq(ResourceIDs)]
      <4>1. combined \in Seq(Row) BY <3>1 DEF IsCombined
      <4>2. \A x \in Row : x.list \in Seq(ResourceIDs) OBVIOUS
      <4> HIDE DEF Row
      <4> QED BY <4>1, <4>2
    <3>3. rows \in SUBSET (0 .. Len(combined)) /\ rows \subseteq DOMAIN combined BY <3>2
    <3> HIDE DEF rows
    <3>4. Max(rows) \in rows BY <2>3, <3>2, <3>3, MaxIn
    <3>5. combined[Max(rows)].list \in Seq(ResourceIDs) BY <3>2, <3>3, <3>4
    <3> QED BY <1>2, <2>1, <2>3, <3>5 DEF ImportsFor
  <2> QED BY <2>2, <2>3
<1> QED BY <1>1, <1>2

\* What an import hands over is a resource with nothing damaged in it.
LEMMA ResourceFromGiven ==
    ASSUME DirTyped, combined # Unreadable, NEW row, IsRow(row), HasFiles(row)
    PROVE  /\ Given(ResourceFrom(row)) /\ ResourceFrom(row).type = row.type
           /\ ResourceFrom(row).blocks = RowBlocks(row)
<1> DEFINE r == ResourceFrom(row)
<1>1. r = [type |-> row.type, imports |-> ImportsFor(row), blocks |-> RowBlocks(row)]
  BY DEF ResourceFrom, RowBlocks
<1>2. row.type \in Types BY DEF IsRow
<1>3. ASSUME NEW s \in BlockSlots(row)
      PROVE  /\ s \in Slots /\ RowBlocks(row)[s] \in Block
             /\ RowBlocks(row)[s].payload # Garbled /\ RowBlocks(row)[s].trailer = <<>>
  <2> DEFINE path == PathOf(row, s)
             b    == [payload |-> files[path], trailer |-> <<>>, align |-> row.aligns[s]]
  <2>1. s \in Slots /\ row.aligns[s] \in Alignments
    BY <1>3 DEF BlockSlots, IsRow, IsMap
  <2>2. path \in DOMAIN files BY <1>3 DEF HasFiles
  <2>3. path[3] # "imports"
    <3>1. path[3] = MemoryTypeName(meta.fmt, s) BY DEF PathOf, BlockPath
    <3> HIDE DEF path
    <3> QED BY <2>1, <3>1, MemoryTypeNamesDiffer
  <2>4. RowBlocks(row)[s] = b BY DEF RowBlocks
  <2> HIDE DEF path
  <2>5. files[path] \in Payloads \ {Garbled} BY <2>2, <2>3 DEF DirTyped, IsContent
  <2>6. <<>> \in Seq(ResourceIDs) OBVIOUS
  <2>7. b \in Block /\ b.payload # Garbled /\ b.trailer = <<>> BY <2>1, <2>5, <2>6 DEF Block
  <2> HIDE DEF b
  <2> QED BY <2>1, <2>4, <2>7
<1>4. DOMAIN RowBlocks(row) = BlockSlots(row)
      /\ RowBlocks(row) = [s \in BlockSlots(row) |-> RowBlocks(row)[s]]
  BY DEF RowBlocks
<1>5. IsBlockMap(RowBlocks(row)) BY <1>3, <1>4 DEF IsBlockMap, IsMap
<1> HIDE DEF r
<1>6. ImportsFor(row) \in Seq(ResourceIDs) BY ImportsForTyped
<1>7. IsResource(r) BY <1>1, <1>2, <1>5, <1>6 DEF IsResource
<1> QED BY <1>1, <1>3, <1>4, <1>7 DEF Given, r

\* The bundle of the first n rows.
HoldsRows(impl, n) ==
    /\ DOMAIN impl.entries = {meta.rows[i].key : i \in 1 .. n}
    /\ \A i \in 1 .. n : RowIsHeld(impl, meta.rows[i])

\* A running import has come to hold the rows before the next one.
ImportRuns ==
    importing # Idle =>
        /\ exporting = Idle
        /\ meta \notin {NoFile, Unreadable} /\ combined # Unreadable
        /\ importing = [impl |-> importing.impl, next |-> importing.next]
        /\ IsImpl(importing.impl) /\ ReadsWhole(importing.impl)
        /\ importing.impl.fmt = meta.fmt
        /\ importing.next \in 1 .. Len(meta.rows) + 1
        /\ HoldsRows(importing.impl, importing.next - 1)

\* The rows of a description.
LEMMA MetaRows ==
    ASSUME NEW m, IsMeta(m)
    PROVE  /\ DOMAIN m.rows = 1 .. Len(m.rows) /\ Len(m.rows) \in Nat
           /\ \A i \in DOMAIN m.rows : IsRow(m.rows[i]) /\ m.rows[i].key \in Key
<1>1. /\ m.rows \in Seq({m.rows[i] : i \in DOMAIN m.rows})
      /\ \A i \in DOMAIN m.rows : IsRow(m.rows[i])
  BY DEF IsMeta
<1>2. \A i \in DOMAIN m.rows : m.rows[i].key \in Key BY <1>1 DEF IsRow
<1> QED BY <1>1, <1>2

\* An import begins with no resource.
LEMMA ImportBegins ==
    ASSUME DirTyped, StartImport
    PROVE  ImportRuns'
<1>1. /\ exporting = Idle /\ meta \notin {NoFile, Unreadable} /\ combined # Unreadable
      /\ importing' = [impl |-> NewFromMeta, next |-> 1]
      /\ UNCHANGED <<files, meta, combined, exporting>>
  BY DEF StartImport, Quiet, CanStartImport, dir
<1>2. IsMeta(meta) BY <1>1 DEF DirTyped
<1>3. Len(meta.rows) \in Nat BY <1>2, MetaRows
<1> DEFINE new == NewImpl(meta.fmt, meta.flags)
<1>4. meta.fmt \in Format /\ meta.flags \in SUBSET FlagNames /\ meta.names \in StreamTable
  BY <1>2 DEF IsMeta
<1>5. IsImpl(new) /\ new.fmt = meta.fmt /\ new.entries = NoEntries
  BY <1>4, NewImplTyped DEF NewImpl
<1> HIDE DEF new
<1>6. NewFromMeta = [fmt |-> new.fmt, flags |-> new.flags, entries |-> new.entries,
                     imports |-> new.imports, debug |-> new.debug, default |-> new.default,
                     names |-> meta.names]
  <2>1. NewFromMeta = [new EXCEPT !.names = meta.names] BY DEF NewFromMeta, new
  <2>2. new = [fmt |-> new.fmt, flags |-> new.flags, entries |-> new.entries,
               imports |-> new.imports, debug |-> new.debug, default |-> new.default,
               names |-> new.names]
    BY <1>5, ImplFields
  <2> QED BY <2>1, <2>2
<1>7. IsImpl(NewFromMeta) BY <1>4, <1>5, <1>6, ImplFields, ImplTyped
<1>8. /\ NewFromMeta.fmt = meta.fmt /\ NewFromMeta.entries = NoEntries
  BY <1>5, <1>6
<1>9. DOMAIN NewFromMeta.entries = {} BY <1>8 DEF NoEntries
<1>10. ReadsWhole(NewFromMeta) BY <1>9 DEF ReadsWhole
<1>11. importing'.impl = NewFromMeta /\ importing'.next = 1 BY <1>1
<1>12. 1 - 1 = 0 /\ 1 .. 0 = {} /\ 1 \in 1 .. Len(meta.rows) + 1 BY <1>3
<1>13. HoldsRows(NewFromMeta, 0)' BY <1>1, <1>9, <1>12 DEF HoldsRows, NewFromMeta
<1> HIDE DEF new
<1> QED BY <1>1, <1>7, <1>8, <1>9, <1>10, <1>11, <1>12, <1>13 DEF ImportRuns, NewFromMeta

\* One more row, with its debug data: the others stay as they are.
LEMMA RowAdded ==
    ASSUME NEW impl, IsImpl(impl), ReadsWhole(impl), impl.fmt = meta.fmt,
           DirTyped, combined # Unreadable,
           NEW row, IsRow(row), HasFiles(row), importing.impl = impl,
           NEW result \in RowResults(row), result.ok
    PROVE  /\ IsImpl(result.impl) /\ ReadsWhole(result.impl) /\ result.impl.fmt = impl.fmt
           /\ row.key \notin DOMAIN impl.entries
           /\ DOMAIN result.impl.entries = DOMAIN impl.entries \cup {row.key}
           /\ \A k \in DOMAIN impl.entries : result.impl.entries[k] = impl.entries[k]
           /\ RowIsHeld(result.impl, row)
<1> DEFINE r == ResourceFrom(row)
           k == row.key
<1>1. k \in Key /\ row.name \in DebugNames \cup {NoName} BY DEF IsRow
<1>2. Given(r) /\ r.blocks = RowBlocks(row) BY ResourceFromGiven
<1>3. IsResource(r) BY <1>2 DEF Given
<1>4. PICK added \in AddResults(row, r) :
          result = IF added.ok /\ row.name # NoName
                   THEN AddResourceDebugData(added.impl, row.key, row.name) ELSE added
  BY DEF RowResults
<1>5. PICK stop : added = AddResource(impl, k, r, stop) BY <1>4 DEF AddResults
<1> HIDE DEF r, k
<1>6. IsImpl(added.impl) BY <1>1, <1>3, <1>5, AddResourceTyped
<1>7. added.ok /\ (result = added \/ result = AddResourceDebugData(added.impl, k, row.name))
      /\ (result # added => row.name \in DebugNames)
  BY <1>1, <1>4 DEF k
<1>8. /\ IsImpl(result.impl) /\ result.impl.fmt = added.impl.fmt
      /\ result.impl.entries = added.impl.entries /\ result.impl.imports = added.impl.imports
  <2>1. CASE result = added BY <1>6, <2>1
  <2>2. CASE result # added
    <3>1. row.name \in DebugNames /\ result = AddResourceDebugData(added.impl, k, row.name)
      BY <1>7, <2>2
    <3>2. IsImpl(result.impl) BY <1>1, <1>6, <3>1, AddResourceDebugDataTyped
    <3>3. result # [impl |-> added.impl, ok |-> FALSE]
      <4>1. result.ok OBVIOUS
      <4> QED BY <4>1
    <3> DEFINE made == AddResourceDebugData(added.impl, k, row.name)
    <3>a. made # [impl |-> added.impl, ok |-> FALSE] /\ result.impl = made.impl
      <4> HIDE DEF made
      <4> QED BY <3>1, <3>3 DEF made
    <3>4. PICK debug :
            made.impl =
              [fmt |-> added.impl.fmt, flags |-> added.impl.flags,
               entries |-> added.impl.entries, imports |-> added.impl.imports,
               debug |-> debug, default |-> added.impl.default, names |-> added.impl.names]
      BY <1>1, <1>6, <3>1, <3>a, AddResourceDebugDataEffect
    <3> HIDE DEF made
    <3> QED BY <3>2, <3>a, <3>4
  <2> QED BY <2>1, <2>2
<1>9. added.impl.fmt = impl.fmt BY <1>1, <1>3, <1>5, <1>7, AcceptedFields
<1>10. k \notin DOMAIN impl.entries BY <1>1, <1>3, <1>5, <1>7, AcceptedEffect
<1>11. /\ result.impl.entries = Put(impl.entries, k, result.impl.entries[k])
       /\ CanReadResource(result.impl, k)
       /\ ReadResource(result.impl, k) = HeldPart(impl.fmt, r.type, r)
  BY <1>1, <1>2, <1>5, <1>7, <1>8, <1>9, AddedIsHeld
<1>12. ReadsWhole(result.impl)
  BY <1>1, <1>2, <1>5, <1>7, <1>8, <1>9, AddedReadsWhole
<1>13. /\ DOMAIN result.impl.entries = DOMAIN impl.entries \cup {k}
       /\ \A q \in DOMAIN impl.entries : result.impl.entries[q] = impl.entries[q]
  <2> DEFINE e == result.impl.entries[k]
  <2> HIDE DEF e
  <2>1. result.impl.entries = Put(impl.entries, k, e) BY <1>11 DEF e
  <2> QED BY <1>10, <2>1 DEF Put
<1>14. RowIsHeld(result.impl, row)
  <2> SUFFICES ASSUME NEW s \in BlockSlots(row)
               PROVE  /\ s \in DOMAIN result.impl.entries[k].blocks
                      /\ PathOf(row, s) \in DOMAIN files
                      /\ ReadBlock(result.impl, k, s) = RowBlocks(row)[s]
    BY <1>11 DEF RowIsHeld, k
  <2>1. PathOf(row, s) \in DOMAIN files BY DEF HasFiles
  <2>2. s \in MemoryTypes(impl.fmt) \cap DOMAIN r.blocks BY <1>2 DEF BlockSlots, RowBlocks
  <2>3. ReadResource(result.impl, k).blocks =
            [t \in MemoryTypes(impl.fmt) \cap DOMAIN r.blocks |-> r.blocks[t]]
    BY <1>11 DEF HeldPart
  <2>4. ReadResource(result.impl, k).blocks =
            [t \in MemoryTypes(impl.fmt) \cap DOMAIN result.impl.entries[k].blocks |->
                ReadBlock(result.impl, k, t)]
    BY <1>8, <1>9 DEF ReadResource
  <2>5. s \in DOMAIN result.impl.entries[k].blocks
        /\ ReadBlock(result.impl, k, s) = r.blocks[s]
    BY <2>2, <2>3, <2>4
  <2> QED BY <1>2, <2>1, <2>5
<1> QED BY <1>8, <1>9, <1>10, <1>12, <1>13, <1>14 DEF k

\* A row that was held still is.
LEMMA RowStaysHeld ==
    ASSUME NEW impl, NEW other, other.fmt = impl.fmt, NEW row, RowIsHeld(impl, row),
           other.entries[row.key] = impl.entries[row.key]
    PROVE  RowIsHeld(other, row)
    BY SameEntryReadsSame DEF RowIsHeld

LEMMA ImportGoesOn ==
    ASSUME DirTyped, ImportRuns, ImportResource
    PROVE  ImportRuns'
<1> DEFINE impl == importing.impl
           n    == importing.next
           row  == meta.rows[n]
<1>1. /\ exporting = Idle /\ meta \notin {NoFile, Unreadable} /\ combined # Unreadable
      /\ IsImpl(impl) /\ ReadsWhole(impl) /\ impl.fmt = meta.fmt /\ n \in DOMAIN meta.rows
      /\ DOMAIN impl.entries = {meta.rows[i].key : i \in 1 .. n - 1}
      /\ \A i \in 1 .. n - 1 : RowIsHeld(impl, meta.rows[i])
      /\ HasFiles(row)
      /\ UNCHANGED <<files, meta, combined, exporting>>
  BY DEF ImportRuns, HoldsRows, ImportResource, RowsLeft, CurrentRow, dir
<1>2. PICK result \in RowResults(row) :
          result.ok /\ importing' = [impl |-> result.impl, next |-> n + 1]
  BY DEF ImportResource, CurrentRow
<1>3. IsMeta(meta) BY <1>1 DEF DirTyped
<1>4. /\ n \in 1 .. Len(meta.rows) /\ Len(meta.rows) \in Nat
      /\ IsRow(row)
  BY <1>1, <1>3, MetaRows
<1> HIDE DEF n, row, impl
<1>5. /\ IsImpl(result.impl) /\ ReadsWhole(result.impl) /\ result.impl.fmt = impl.fmt
      /\ row.key \notin DOMAIN impl.entries
      /\ DOMAIN result.impl.entries = DOMAIN impl.entries \cup {row.key}
      /\ \A k \in DOMAIN impl.entries : result.impl.entries[k] = impl.entries[k]
      /\ RowIsHeld(result.impl, row)
  BY <1>1, <1>2, <1>4, RowAdded DEF impl
<1>6. importing'.impl = result.impl /\ importing'.next = n + 1
      /\ importing' = [impl |-> importing'.impl, next |-> importing'.next]
  BY <1>2
<1>7. /\ n + 1 - 1 = n /\ n + 1 \in 1 .. Len(meta.rows) + 1
      /\ \A i \in 1 .. n : i = n \/ i \in 1 .. n - 1
      /\ \A i \in 1 .. n - 1 : i \in 1 .. n
      /\ n \in 1 .. n
  BY <1>4
<1> DEFINE new == result.impl
<1>8. DOMAIN new.entries = {meta.rows[i].key : i \in 1 .. n}
  <2>1. ASSUME NEW k \in DOMAIN new.entries PROVE \E i \in 1 .. n : k = meta.rows[i].key
    <3>1. CASE k = row.key
      <4>1. n \in 1 .. n /\ k = meta.rows[n].key BY <1>7, <3>1 DEF row
      <4> QED BY <4>1
    <3>2. CASE k \in DOMAIN impl.entries
      <4>1. PICK i \in 1 .. n - 1 : k = meta.rows[i].key BY <1>1, <3>2
      <4>2. i \in 1 .. n BY <1>7
      <4> QED BY <4>1, <4>2
    <3> QED BY <1>5, <3>1, <3>2
  <2>2. ASSUME NEW i \in 1 .. n PROVE meta.rows[i].key \in DOMAIN new.entries
    <3>1. CASE i = n BY <1>5, <3>1 DEF row
    <3>2. CASE i \in 1 .. n - 1 BY <1>1, <1>5, <3>2
    <3> QED BY <1>7, <3>1, <3>2
  <2> QED BY <2>1, <2>2
<1>9. \A i \in 1 .. n : RowIsHeld(new, meta.rows[i])
  <2> SUFFICES ASSUME NEW i \in 1 .. n - 1 PROVE RowIsHeld(new, meta.rows[i])
    BY <1>5, <1>7 DEF row
  <2>1. meta.rows[i].key \in DOMAIN impl.entries BY <1>1
  <2> QED BY <1>1, <1>5, <2>1, RowStaysHeld
<1>10. importing'.next - 1 = n /\ importing'.impl = new BY <1>4, <1>6
<1>11. DOMAIN new.entries = {meta'.rows[i].key : i \in 1 .. n} BY <1>1, <1>8
<1>12. \A i \in 1 .. n : RowIsHeld(new, meta.rows[i])'
  BY <1>1, <1>9 DEF RowIsHeld, RowBlocks, BlockSlots, PathOf
<1> HIDE DEF new
<1>13. HoldsRows(importing.impl, importing.next - 1)' BY <1>10, <1>11, <1>12 DEF HoldsRows
<1> QED BY <1>1, <1>5, <1>6, <1>7, <1>13 DEF ImportRuns, new

\* The default resource of .meta.yaml is set last.
LEMMA DefaultKeeps ==
    ASSUME NEW impl, IsImpl(impl), NEW other, other = WithDefault(impl).impl
    PROVE  /\ IsImpl(other) /\ other.fmt = impl.fmt
           /\ other.entries = impl.entries /\ other.imports = impl.imports
<1>1. CASE meta.default = NoDefault BY <1>1 DEF WithDefault
<1>2. CASE meta.default # NoDefault
  <2> DEFINE result == SetDefaultResource(impl, meta.default)
  <2>1. other = result.impl BY <1>2 DEF WithDefault
  <2>2. IsImpl(other) BY <2>1, SetDefaultResourceTyped
  <2>3. CASE result = [impl |-> impl, ok |-> FALSE]
    <3> HIDE DEF result
    <3> QED BY <2>1, <2>2, <2>3
  <2>4. CASE result # [impl |-> impl, ok |-> FALSE]
    <3>1. result.impl =
            [fmt |-> impl.fmt, flags |-> impl.flags \cup {"ContainsDefaultResource"},
             entries |-> impl.entries, imports |-> impl.imports,
             debug |-> impl.debug, default |-> meta.default, names |-> impl.names]
      BY <2>4, SetDefaultResourceEffect
    <3> HIDE DEF result
    <3> QED BY <2>1, <2>2, <3>1
  <2> QED BY <2>3, <2>4
<1> QED BY <1>1, <1>2

\* A finished import holds every row of .meta.yaml and reads whole.
LEMMA ImportEnds ==
    ASSUME DirTyped, ImportRuns, FinishImport
    PROVE  /\ IsImpl(bundle') /\ ReadsWhole(bundle')
           /\ HoldsRows(bundle', Len(meta.rows))
           /\ DOMAIN meta.rows = 1 .. Len(meta.rows)
<1> DEFINE impl == importing.impl
<1>1. /\ meta \notin {NoFile, Unreadable} /\ IsImpl(impl) /\ ReadsWhole(impl)
      /\ importing.next \in 1 .. Len(meta.rows) + 1
      /\ HoldsRows(impl, importing.next - 1)
      /\ importing.next \notin DOMAIN meta.rows
      /\ bundle' = WithDefault(impl).impl
  BY DEF ImportRuns, FinishImport, RowsLeft
<1>2. DOMAIN meta.rows = 1 .. Len(meta.rows) /\ Len(meta.rows) \in Nat
  BY <1>1, MetaRows DEF DirTyped
<1>3. importing.next - 1 = Len(meta.rows) BY <1>1, <1>2
<1> HIDE DEF impl
<1>4. HoldsRows(impl, Len(meta.rows)) BY <1>1, <1>3
<1>5. /\ IsImpl(bundle') /\ bundle'.fmt = impl.fmt
      /\ bundle'.entries = impl.entries /\ bundle'.imports = impl.imports
  BY <1>1, DefaultKeeps
<1>6. ReadsWhole(bundle') BY <1>1, <1>5, SameReadsWhole
<1>7. ASSUME NEW i \in 1 .. Len(meta.rows) PROVE RowIsHeld(bundle', meta.rows[i])
  <2>1. RowIsHeld(impl, meta.rows[i]) BY <1>4 DEF HoldsRows
  <2> QED BY <1>5, <2>1, RowStaysHeld
<1>8. HoldsRows(bundle', Len(meta.rows)) BY <1>4, <1>5, <1>7 DEF HoldsRows
<1> QED BY <1>2, <1>5, <1>6, <1>8

-----------------------------------------------------------------------------
(* The typing invariant *)

ValuesTyped ==
    /\ bundle # NoImpl => IsImpl(bundle) /\ ReadsWhole(bundle)
    /\ lastError \in ProjectErrors
    /\ exports \in 0 .. ExportLimit
    /\ described = NoImpl \/ IsImpl(described)
    /\ progress \in {"none", "begun", "described", "finished"}

\* A running export has the files left to write of a bundle that can be exported;
\* one past .meta.yaml has combined imports to write.
ExportRuns ==
    exporting # Idle =>
        /\ importing = Idle /\ bundle # NoImpl /\ AllReadable(bundle)
        /\ IsExport(exporting)
        /\ exporting.meta = NoFile => exporting.combined # NoFile

ProjectInv == ValuesTyped /\ DirTyped /\ ExportRuns /\ ImportRuns

LEMMA ProjectInvTyped == ProjectInv => ProjectTypeOK
<1> SUFFICES ASSUME ProjectInv PROVE ProjectTypeOK
  OBVIOUS
<1>1. /\ bundle = NoImpl \/ IsImpl(bundle)
      /\ lastError \in ProjectErrors /\ exports \in 0 .. ExportLimit
      /\ described = NoImpl \/ IsImpl(described)
      /\ progress \in {"none", "begun", "described", "finished"}
  BY DEF ProjectInv, ValuesTyped
<1>2. /\ meta \in {NoFile, Unreadable} \/ IsMeta(meta)
      /\ combined \in {NoFile, Unreadable} \/ IsCombined(combined)
  BY DEF ProjectInv, DirTyped
<1>3. \A path \in DOMAIN files :
            files[path] \in IF path[3] = "imports" THEN Seq(ResourceIDs) \cup {Unreadable}
                            ELSE Payloads
  BY DEF ProjectInv, DirTyped, IsContent
<1>4. exporting # Idle => bundle # NoImpl /\ IsExport(exporting)
  BY DEF ProjectInv, ExportRuns
<1>5. importing # Idle =>
          IsImpl(importing.impl) /\ importing.next \in 1 .. Len(meta.rows) + 1
  BY DEF ProjectInv, ImportRuns
<1> QED BY <1>1, <1>2, <1>3, <1>4, <1>5 DEF ProjectTypeOK

\* The steps that leave the directory alone and go on with no call.
LEMMA IdleStepTyped ==
    ASSUME ProjectInv, ValuesTyped', UNCHANGED dir, exporting' = Idle, importing' = Idle
    PROVE  ProjectInv'
<1>1. DirTyped' BY DEF ProjectInv, DirTyped, dir
<1>2. ExportRuns' BY DEF ExportRuns
<1>3. ImportRuns' BY DEF ImportRuns
<1> QED BY <1>1, <1>2, <1>3 DEF ProjectInv

LEMMA StartExportTyped ==
    ASSUME ProjectInv, NoFileIsNoContent, NEW opt \in Options, StartExport(opt)
    PROVE  ProjectInv'
<1>1. /\ importing' = Idle /\ bundle # NoImpl /\ IsExportable(bundle)
      /\ UNCHANGED <<bundle, files, meta, combined, described>>
  BY DEF StartExport, Quiet, ProjectInv, ValuesTyped, AllReadable, IsExportable, dir
<1> DEFINE list == IF WritesCombined(bundle, opt) THEN CombinedOf(bundle) ELSE NoFile
<1>2. exporting' = [pending |-> FilesToWrite(bundle, opt), meta |-> MetaOf(bundle, opt),
                    combined |-> list]
  BY DEF StartExport
<1>3. list = NoFile \/ IsCombined(list) BY <1>1, CombinedOfTyped
<1>4. IsMeta(MetaOf(bundle, opt)) /\ MetaOf(bundle, opt) # NoFile
  BY <1>1, MetaOfTyped DEF NoFileIsNoContent
<1> HIDE DEF list
<1>5. /\ exporting' = [pending |-> exporting'.pending, meta |-> exporting'.meta,
                       combined |-> exporting'.combined]
      /\ exporting'.pending = FilesToWrite(bundle, opt)
      /\ exporting'.meta = MetaOf(bundle, opt) /\ exporting'.combined = list
  BY <1>2
<1>6. IsExport(exporting)'
  <2>1. (exporting.meta = NoFile \/ IsMeta(exporting.meta))' BY <1>4, <1>5 DEF IsMeta, IsRow
  <2>2. (exporting.combined = NoFile \/ IsCombined(exporting.combined))'
    BY <1>3, <1>5 DEF IsCombined
  <2>3. \E o \in Options : exporting'.pending \subseteq FilesToWrite(bundle, o)' BY <1>1, <1>5
  <2> QED BY <1>5, <2>1, <2>2, <2>3 DEF IsExport
<1>7. ExportRuns' BY <1>1, <1>4, <1>5, <1>6 DEF ExportRuns, IsExportable, AllReadable
<1>8. ValuesTyped'
  <2>1. exports' \in 0 .. ExportLimit
    BY ProjectAssumption DEF StartExport, ProjectInv, ValuesTyped
  <2> QED BY <1>1, <2>1 DEF StartExport, ProjectInv, ValuesTyped, ProjectErrors
<1>9. DirTyped' BY <1>1 DEF ProjectInv, DirTyped
<1> QED BY <1>1, <1>7, <1>8, <1>9 DEF ProjectInv, ImportRuns

\* A file written under its path holds what such a file may.
LEMMA PutTyped ==
    ASSUME DirTyped, NEW path, NEW content, IsContent(path, content),
           files' = Put(files, path, content), UNCHANGED <<meta, combined>>
    PROVE  DirTyped'
<1>1. ASSUME NEW p \in DOMAIN files' PROVE IsContent(p, files'[p])
  <2>1. CASE p = path
    <3>1. files'[p] = content BY <2>1 DEF Put
    <3> QED BY <2>1, <3>1
  <2>2. CASE p # path
    <3>1. p \in DOMAIN files /\ files'[p] = files[p] BY <2>2 DEF Put
    <3> QED BY <3>1 DEF DirTyped
  <2> QED BY <2>1, <2>2
<1>2. (\A p \in DOMAIN files : IsContent(p, files[p]))' BY <1>1 DEF IsContent
<1> QED BY <1>2 DEF DirTyped

\* One file of a running export, whole or cut.
LEMMA FileWriteTyped ==
    ASSUME ProjectInv, exporting # Idle, NEW f \in exporting.pending,
           NEW content \in CutFile(f) \cup {f.holds}, files' = Put(files, f.path, content),
           UNCHANGED <<meta, combined>>
    PROVE  DirTyped'
<1>1. IsExportable(bundle) BY DEF ProjectInv, ValuesTyped, ExportRuns, IsExportable
<1>2. PICK opt \in Options : f \in FilesToWrite(bundle, opt)
  BY DEF ProjectInv, ExportRuns, IsExport
<1>3. IsContent(f.path, content) BY <1>1, <1>2, FileTyped
<1> QED BY <1>3, PutTyped DEF ProjectInv

\* .meta.yaml and .imports.yaml of a running export, whole or cut.
LEMMA ListWriteTyped ==
    ASSUME ProjectInv, exporting # Idle, UNCHANGED files,
           \/ /\ exporting.meta # NoFile
              /\ meta' \in CutMeta(exporting.meta) \cup {exporting.meta} /\ UNCHANGED combined
           \/ /\ exporting.meta = NoFile
              /\ combined' \in CutCombined(exporting.combined) \cup {exporting.combined}
              /\ UNCHANGED meta
    PROVE  DirTyped'
<1>1. /\ exporting.meta = NoFile \/ IsMeta(exporting.meta)
      /\ exporting.combined = NoFile \/ IsCombined(exporting.combined)
      /\ exporting.meta = NoFile => exporting.combined # NoFile
  BY DEF ProjectInv, ExportRuns, IsExport
<1>2. (\A path \in DOMAIN files : IsContent(path, files[path]))'
  BY DEF ProjectInv, DirTyped
<1>3. meta' \in {NoFile, Unreadable} \/ IsMeta(meta')
  BY <1>1, CutMetaTyped DEF ProjectInv, DirTyped
<1>4. combined' \in {NoFile, Unreadable} \/ IsCombined(combined')
  BY <1>1, CutCombinedTyped DEF ProjectInv, DirTyped
<1>5. (meta \in {NoFile, Unreadable} \/ IsMeta(meta))' BY <1>3 DEF IsMeta, IsRow
<1>6. (combined \in {NoFile, Unreadable} \/ IsCombined(combined))' BY <1>4 DEF IsCombined
<1> QED BY <1>2, <1>5, <1>6 DEF DirTyped

\* An export that stops.
LEMMA TornTyped ==
    ASSUME ProjectInv, exporting # Idle, TornWrite
    PROVE  /\ DirTyped' /\ described' \in {described, bundle, NoImpl}
           /\ progress' \in {progress, "described"}
<1>1. CASE UNCHANGED <<dir, described, progress>>
  BY <1>1 DEF ProjectInv, DirTyped, dir
<1>2. CASE /\ \E f \in exporting.pending : \E content \in CutFile(f) :
                  IsNext(f) /\ files' = Put(files, f.path, content)
           /\ UNCHANGED <<meta, combined, described, progress>>
  BY <1>2, FileWriteTyped
<1>3. CASE /\ exporting.pending = {} /\ exporting.meta # NoFile
           /\ meta' \in CutMeta(exporting.meta)
           /\ described' = IF meta' = exporting.meta THEN bundle ELSE NoImpl
           /\ progress' = IF meta' = exporting.meta THEN "described" ELSE progress
           /\ UNCHANGED <<files, combined>>
  BY <1>3, ListWriteTyped
<1>4. CASE /\ exporting.meta = NoFile
           /\ combined' \in CutCombined(exporting.combined)
           /\ UNCHANGED <<files, meta, described, progress>>
  BY <1>4, ListWriteTyped
<1> QED BY <1>1, <1>2, <1>3, <1>4 DEF TornWrite

LEMMA WriteFileTyped ==
    ASSUME ProjectInv, WriteFile
    PROVE  ProjectInv'
<1>1. exporting # Idle BY DEF WriteFile
<1>2. /\ importing = Idle /\ bundle # NoImpl /\ AllReadable(bundle) /\ IsExport(exporting)
      /\ exporting.meta = NoFile => exporting.combined # NoFile
  BY <1>1 DEF ProjectInv, ExportRuns
<1>3. PICK f \in exporting.pending :
          /\ \E content \in Arrives(f.holds, CutFile(f)) : files' = Put(files, f.path, content)
          /\ exporting' = [exporting EXCEPT !.pending = @ \ {f}]
  BY DEF WriteFile
<1>4. UNCHANGED <<bundle, lastError, meta, combined, importing, exports, described, progress>>
  BY DEF WriteFile, ghosts
<1>5. PICK content \in CutFile(f) \cup {f.holds} : files' = Put(files, f.path, content)
  BY <1>3 DEF Arrives
<1>6. DirTyped' BY <1>1, <1>4, <1>5, FileWriteTyped
<1>7. /\ exporting'.pending = exporting.pending \ {f}
      /\ exporting'.meta = exporting.meta /\ exporting'.combined = exporting.combined
      /\ exporting' = [pending |-> exporting'.pending, meta |-> exporting'.meta,
                       combined |-> exporting'.combined]
  BY <1>2, <1>3 DEF IsExport
<1>8. IsExport(exporting)'
  BY <1>2, <1>4, <1>7 DEF IsExport, IsMeta, IsRow, IsCombined
<1>9. ExportRuns' BY <1>2, <1>4, <1>7, <1>8 DEF ExportRuns, AllReadable
<1>10. ValuesTyped' BY <1>4 DEF ProjectInv, ValuesTyped
<1> QED BY <1>2, <1>4, <1>6, <1>9, <1>10 DEF ProjectInv, ImportRuns

LEMMA WriteMetaTyped ==
    ASSUME ProjectInv, WriteMeta
    PROVE  ProjectInv'
<1>1. exporting # Idle /\ exporting.meta # NoFile BY DEF WriteMeta
<1>2. /\ importing = Idle /\ bundle # NoImpl /\ AllReadable(bundle) /\ IsExport(exporting)
  BY <1>1 DEF ProjectInv, ExportRuns
<1>3. /\ meta' \in CutMeta(exporting.meta) \cup {exporting.meta}
      /\ described' = bundle /\ UNCHANGED <<bundle, files, combined, importing, exports>>
      /\ lastError' \in {lastError, "Success"} /\ progress' \in {"described", "finished"}
  BY DEF WriteMeta, Arrives, ExportReturns
<1>4. DirTyped' BY <1>1, <1>3, ListWriteTyped
<1>5. ValuesTyped' BY <1>2, <1>3 DEF ProjectInv, ValuesTyped, ProjectErrors
<1>6. ExportRuns'
  <2>1. CASE exporting' = Idle BY <2>1 DEF ExportRuns
  <2>2. CASE exporting' # Idle
    <3>1. exporting.combined # NoFile /\ exporting' = [exporting EXCEPT !.meta = NoFile]
      BY <2>2 DEF WriteMeta, ExportReturns
    <3>2. /\ exporting'.pending = exporting.pending /\ exporting'.meta = NoFile
          /\ exporting'.combined = exporting.combined
          /\ exporting' = [pending |-> exporting'.pending, meta |-> exporting'.meta,
                           combined |-> exporting'.combined]
      BY <1>2, <3>1 DEF IsExport
    <3>3. IsExport(exporting)' BY <1>2, <1>3, <3>2 DEF IsExport, IsCombined
    <3> QED BY <1>2, <1>3, <3>1, <3>2, <3>3 DEF ExportRuns, AllReadable
  <2> QED BY <2>1, <2>2
<1> QED BY <1>2, <1>3, <1>4, <1>5, <1>6 DEF ProjectInv, ImportRuns

LEMMA WriteCombinedTyped ==
    ASSUME ProjectInv, WriteCombined
    PROVE  ProjectInv'
<1>1. exporting # Idle /\ exporting.meta = NoFile BY DEF WriteCombined
<1>2. importing = Idle BY <1>1 DEF ProjectInv, ExportRuns
<1>3. /\ combined' \in CutCombined(exporting.combined) \cup {exporting.combined}
      /\ exporting' = Idle /\ lastError' = "Success" /\ progress' = "finished"
      /\ UNCHANGED <<bundle, files, meta, importing, exports, described>>
  BY DEF WriteCombined, Arrives, ExportReturns
<1>4. DirTyped' BY <1>1, <1>3, ListWriteTyped
<1>5. ValuesTyped' BY <1>3 DEF ProjectInv, ValuesTyped, ProjectErrors
<1> QED BY <1>2, <1>3, <1>4, <1>5 DEF ProjectInv, ExportRuns, ImportRuns

\* Every step keeps the invariant.
LEMMA ProjectInvStep ==
    ASSUME ProjectInv, NoFileIsNoContent, [ProjectNext]_projectVars
    PROVE  ProjectInv'
<1> USE DEF ghosts
<1>1. CASE UNCHANGED projectVars
  <2> USE <1>1 DEF projectVars, dir
  <2>1. ValuesTyped' /\ DirTyped' BY DEF ProjectInv, ValuesTyped, DirTyped
  <2>2. ExportRuns' BY DEF ProjectInv, ExportRuns, AllReadable, IsExport
  <2>3. ImportRuns'
    BY DEF ProjectInv, ImportRuns, HoldsRows, RowIsHeld, RowBlocks, BlockSlots, PathOf
  <2> QED BY <2>1, <2>2, <2>3 DEF ProjectInv
<1>2. ASSUME NEW impl \in Bundles \cup {NoImpl}, UseBundle(impl) PROVE ProjectInv'
  <2>1. impl # NoImpl => IsImpl(impl) /\ ReadsWhole(impl) BY ProjectAssumption
  <2>2. ValuesTyped'
    BY <1>2, <2>1 DEF UseBundle, ProjectInv, ValuesTyped, ProjectErrors
  <2> QED BY <1>2, <2>2, IdleStepTyped DEF UseBundle, Quiet
<1>3. CASE ExportRejected
  <2>1. ValuesTyped' BY <1>3 DEF ExportRejected, ProjectInv, ValuesTyped, ProjectErrors
  <2> QED BY <1>3, <2>1, IdleStepTyped DEF ExportRejected, Quiet
<1>4. ASSUME NEW opt \in Options, StartExport(opt) PROVE ProjectInv' BY <1>4, StartExportTyped
<1>5. CASE WriteFile BY <1>5, WriteFileTyped
<1>6. CASE WriteMeta BY <1>6, WriteMetaTyped
<1>7. CASE WriteCombined BY <1>7, WriteCombinedTyped
<1>8. CASE ExportFails \/ Die
  <2>1. exporting # Idle /\ TornWrite BY <1>8 DEF ExportFails, Die
  <2>2. importing = Idle BY <2>1 DEF ProjectInv, ExportRuns
  <2>3. /\ exporting' = Idle /\ importing' = Idle /\ bundle' \in {bundle, NoImpl}
        /\ lastError' \in ProjectErrors /\ UNCHANGED exports
    BY <1>8, <2>2 DEF ExportFails, Die, ExportReturns, ProjectErrors
  <2>4. /\ DirTyped' /\ described' \in {described, bundle, NoImpl}
        /\ progress' \in {progress, "described"}
    BY <2>1, TornTyped
  <2>5. ValuesTyped' BY <2>3, <2>4 DEF ProjectInv, ValuesTyped
  <2> QED BY <2>3, <2>4, <2>5 DEF ProjectInv, ExportRuns, ImportRuns
<1>9. CASE StartImport
  <2>1. ImportRuns' BY <1>9, ImportBegins DEF ProjectInv
  <2>2. ExportRuns' BY <1>9 DEF StartImport, Quiet, ExportRuns
  <2>3. ValuesTyped' /\ DirTyped' BY <1>9 DEF StartImport, ProjectInv, ValuesTyped, DirTyped, dir
  <2> QED BY <2>1, <2>2, <2>3 DEF ProjectInv
<1>10. CASE ImportResource
  <2>1. ImportRuns' BY <1>10, ImportGoesOn DEF ProjectInv
  <2>2. exporting = Idle BY <1>10 DEF ImportResource, RowsLeft, ProjectInv, ImportRuns
  <2>3. ExportRuns' BY <1>10, <2>2 DEF ImportResource, ExportRuns
  <2>4. ValuesTyped' /\ DirTyped'
    BY <1>10 DEF ImportResource, ProjectInv, ValuesTyped, DirTyped, dir
  <2> QED BY <2>1, <2>3, <2>4 DEF ProjectInv
<1>11. CASE FinishImport
  <2>1. exporting = Idle BY <1>11 DEF FinishImport, ProjectInv, ImportRuns
  <2>2. IsImpl(bundle') /\ ReadsWhole(bundle') BY <1>11, ImportEnds DEF ProjectInv
  <2>3. ValuesTyped'
    BY <1>11, <2>2 DEF FinishImport, ProjectInv, ValuesTyped, ProjectErrors
  <2> QED BY <1>11, <2>1, <2>3, IdleStepTyped DEF FinishImport
<1>12. CASE ImportFails
  <2>1. exporting = Idle
    BY <1>12 DEF ImportFails, Quiet, RowsLeft, ProjectInv, ImportRuns
  <2>2. ValuesTyped' BY <1>12 DEF ImportFails, ProjectInv, ValuesTyped, ProjectErrors
  <2> QED BY <1>12, <2>1, <2>2, IdleStepTyped DEF ImportFails
<1> QED
  BY <1>1, <1>2, <1>3, <1>4, <1>5, <1>6, <1>7, <1>8, <1>9, <1>10, <1>11, <1>12
  DEF ProjectNext, CallStep

LEMMA ProjectInvInit == ProjectInit => ProjectInv
<1> SUFFICES ASSUME ProjectInit PROVE ProjectInv
  OBVIOUS
<1>1. ValuesTyped
  <2>1. bundle # NoImpl => IsImpl(bundle) /\ ReadsWhole(bundle)
    BY ProjectAssumption DEF ProjectInit
  <2>2. exports \in 0 .. ExportLimit BY ProjectAssumption DEF ProjectInit
  <2> QED BY <2>1, <2>2 DEF ProjectInit, ValuesTyped, ProjectErrors
<1>2. DirTyped BY DEF ProjectInit, DirTyped, NoEntries
<1> QED BY <1>1, <1>2 DEF ProjectInit, ProjectInv, ExportRuns, ImportRuns

-----------------------------------------------------------------------------
(* Types and whole imports *)

\* Types, under every mixture of exports and imports, failed writes and crashes,
\* files cut short and files whose last bytes were lost at close included.
THEOREM ProjectTypes ==
    NoFileIsNoContent => (ProjectSpec => []ProjectTypeOK)
<1> SUFFICES ASSUME NoFileIsNoContent PROVE ProjectSpec => []ProjectTypeOK
  OBVIOUS
<1> QED BY ProjectInvTyped, ProjectInvInit, ProjectInvStep, PTL DEF ProjectSpec

\* An import that finishes has a resource for each row of .meta.yaml and nothing
\* else, with the bytes of the files under the rows' paths, whoever left them
\* there (project.cpp:700-789).
THEOREM ImportsAreWhole ==
    NoFileIsNoContent => (ProjectSpec => ImportIsWhole)
<1> SUFFICES ASSUME NoFileIsNoContent PROVE ProjectSpec => ImportIsWhole
  OBVIOUS
<1> DEFINE Imported ==
        /\ DOMAIN bundle'.entries = {meta.rows[i].key : i \in DOMAIN meta.rows}
        /\ \A i \in DOMAIN meta.rows : \A s \in BlockSlots(meta.rows[i]) :
            LET row == meta.rows[i]
            IN  /\ CanReadResource(bundle', row.key)
                /\ s \in DOMAIN bundle'.entries[row.key].blocks
                /\ PathOf(row, s) \in DOMAIN files
                /\ ReadBlock(bundle', row.key, s) =
                        [payload |-> files[PathOf(row, s)], trailer |-> <<>>,
                         align |-> row.aligns[s]]
<1>1. ProjectInv /\ FinishImport => Imported
  <2> SUFFICES ASSUME ProjectInv, FinishImport PROVE Imported
    OBVIOUS
  <2>1. HoldsRows(bundle', Len(meta.rows)) /\ DOMAIN meta.rows = 1 .. Len(meta.rows)
    BY ImportEnds DEF ProjectInv
  <2>2. DOMAIN bundle'.entries = {meta.rows[i].key : i \in DOMAIN meta.rows}
    BY <2>1 DEF HoldsRows
  <2>3. \A i \in DOMAIN meta.rows : RowIsHeld(bundle', meta.rows[i])
    BY <2>1 DEF HoldsRows
  <2> QED BY <2>2, <2>3 DEF RowIsHeld, RowBlocks
<1>2. ProjectInv /\ [ProjectNext]_projectVars => [FinishImport => Imported]_projectVars
  BY <1>1
<1> QED BY <1>2, ProjectInvInit, ProjectInvStep, PTL DEF ProjectSpec, ImportIsWhole

-----------------------------------------------------------------------------
(* What a bundle must be to be made again *)

\* What AddResource has checked when it succeeds.
LEMMA AcceptedFits ==
    ASSUME NEW impl, IsImpl(impl), NEW k, NEW r, IsResource(r), NEW stop,
           AddResource(impl, k, r, stop).ok
    PROVE  Cardinality(DOMAIN impl.entries) < EntryLimit /\ Bounded(r.imports)
<1>1. ~(Cardinality(DOMAIN impl.entries) >= EntryLimit \/ Len(r.imports) > ImportLimit)
  BY DEF AddResource
<1>2. Cardinality(DOMAIN impl.entries) \in Nat
  <2> DEFINE keys == DOMAIN impl.entries
  <2>1. keys \in SUBSET DOMAIN impl.entries OBVIOUS
  <2> HIDE DEF keys
  <2>2. Cardinality(keys) \in Nat BY <2>1, KeysFinite
  <2> QED BY <2>2 DEF keys
<1>3. Len(r.imports) \in Nat
  <2>1. r.imports \in Seq(ResourceIDs) BY DEF IsResource
  <2> QED BY <2>1
<1> QED BY <1>1, <1>2, <1>3, ContainerAssumption DEF Bounded

\* AddResource makes of a well-made bundle another.
LEMMA AddedWellMade ==
    ASSUME NEW impl, IsImpl(impl), WellMade(impl), NEW k \in Key, NEW r, Given(r), NEW stop,
           AddResource(impl, k, r, stop).ok, NEW other,
           other.fmt = impl.fmt, other.flags = FlagsWith(impl, k),
           other.entries = AddResource(impl, k, r, stop).impl.entries,
           other.imports = AddResource(impl, k, r, stop).impl.imports,
           other.default = impl.default, other.names = impl.names
    PROVE  WellMade(other)
<1>0. IsResource(r) BY DEF Given
<1>1. Cardinality(DOMAIN impl.entries) < EntryLimit /\ Bounded(r.imports)
  BY <1>0, AcceptedFits
<1>2. /\ k \notin DOMAIN impl.entries
      /\ other.imports = IF IsBnd2(impl.fmt) THEN impl.imports
                         ELSE StoreSeparateImports(impl.imports, k[1], r.imports)
  BY <1>0, AddedEntry
<1>3. /\ other.entries = Put(impl.entries, k, other.entries[k])
      /\ ReadResource(other, k) = HeldPart(impl.fmt, r.type, r)
  BY AddedIsHeld
<1>4. /\ DOMAIN other.entries = DOMAIN impl.entries \cup {k}
      /\ \A q \in DOMAIN impl.entries : other.entries[q] = impl.entries[q]
  <2> DEFINE e == other.entries[k]
  <2> HIDE DEF e
  <2>1. other.entries = Put(impl.entries, k, e) BY <1>3 DEF e
  <2> QED BY <1>2, <2>1 DEF Put
<1>5. Cardinality(DOMAIN other.entries) <= EntryLimit
  <2> DEFINE keys == DOMAIN impl.entries
  <2>1. IsFiniteSet(keys) /\ Cardinality(keys) \in Nat BY KeysFinite
  <2> HIDE DEF keys
  <2>2. Cardinality(keys \cup {k}) = Cardinality(keys) + 1
    BY <1>2, <2>1, FS_AddElement DEF keys
  <2>3. Cardinality(keys) < EntryLimit BY <1>1 DEF keys
  <2> QED BY <1>4, <2>1, <2>2, <2>3, ContainerAssumption DEF keys
<1>6. \A id \in DOMAIN other.imports : Bounded(other.imports[id])
  <2> DEFINE old == impl.imports
  <2>1. \A id \in DOMAIN old : Bounded(old[id]) BY DEF WellMade
  <2>2. other.imports \in {old, Drop(old, k[1]), Put(old, k[1], r.imports)}
    BY <1>2 DEF StoreSeparateImports
  <2> HIDE DEF old
  <2> QED BY <1>1, <2>1, <2>2 DEF Put, Drop
<1>7. Bounded(<<>>) BY ContainerAssumption DEF Bounded
<1>8. ASSUME NEW q \in DOMAIN other.entries, CanReadResource(other, q)
      PROVE  Bounded(ReadImports(other, q))
  <2>1. CASE q = k
    <3>1. ReadImports(other, k) = HeldPart(impl.fmt, r.type, r).imports
      BY <1>3 DEF ReadResource
    <3> QED BY <1>1, <1>7, <2>1, <3>1 DEF HeldPart
  <2>2. CASE q # k /\ IsBnd2(impl.fmt)
    <3>1. q \in DOMAIN impl.entries /\ other.entries[q] = impl.entries[q] BY <1>4, <2>2
    <3>2. CanReadResource(impl, q) /\ ReadImports(other, q) = ReadImports(impl, q)
      BY <1>8, <2>2, <3>1, SameEntryReadsSame
    <3> QED BY <3>1, <3>2 DEF WellMade
  <2>3. CASE ~IsBnd2(impl.fmt) BY <1>6, <1>7, <2>3 DEF ReadImports
  <2> QED BY <2>1, <2>2, <2>3
<1>9. ASSUME NEW q \in DOMAIN other.entries
      PROVE  q[2] < StreamLimit /\ (q[2] # 0 => "MultistreamBundle" \in other.flags)
  <2>1. CASE q = k BY <1>0, <2>1, AcceptedFields DEF FlagsWith
  <2>2. CASE q \in DOMAIN impl.entries BY <2>2 DEF WellMade, FlagsWith
  <2> QED BY <1>4, <2>1, <2>2
<1>10. other.default # NoDefault =>
            HasStreamMetadata(other.fmt) /\ "ContainsDefaultResource" \in other.flags
  BY DEF WellMade, FlagsWith
<1>11. \A i \in DOMAIN other.names : other.names[i] # "" =>
            HasStreamMetadata(other.fmt) /\ other.names[i] \notin LongNames
  BY DEF WellMade
<1> QED BY <1>5, <1>6, <1>8, <1>9, <1>10, <1>11 DEF WellMade

\* What names and default resource are does not count for resources.
LEMMA SameResourcesWellMade ==
    ASSUME NEW impl, WellMade(impl), NEW other, other.fmt = impl.fmt,
           other.entries = impl.entries, other.imports = impl.imports,
           impl.flags \subseteq other.flags, other.names = impl.names,
           \/ other.default = impl.default
           \/ HasStreamMetadata(other.fmt) /\ "ContainsDefaultResource" \in other.flags
    PROVE  WellMade(other)
<1>1. \A k : /\ CanReadResource(other, k) <=> CanReadResource(impl, k)
             /\ ReadImports(other, k) = ReadImports(impl, k)
  <2>1. \A k : CanReadResource(other, k) <=> CanReadResource(impl, k) BY SameEntryReadsSame
  <2>2. \A k : ReadImports(other, k) = ReadImports(impl, k) BY DEF ReadImports
  <2> QED BY <2>1, <2>2
<1> QED BY <1>1 DEF WellMade

\* An import begins with a well-made bundle.
LEMMA NewWellMade ==
    ASSUME IsMeta(meta), NamesFit(meta)
    PROVE  WellMade(NewFromMeta)
<1> DEFINE new == NewImpl(meta.fmt, meta.flags)
<1>1. /\ NewFromMeta.fmt = meta.fmt /\ NewFromMeta.flags = meta.flags
      /\ NewFromMeta.entries = NoEntries /\ NewFromMeta.imports = NoEntries
      /\ NewFromMeta.default = NoDefault /\ NewFromMeta.names = meta.names
  BY DEF NewFromMeta, NewImpl
<1>2. DOMAIN NoEntries = {} BY DEF NoEntries
<1>3. Cardinality({}) = 0 BY FS_EmptySet
<1>4. \A i \in DOMAIN meta.names : meta.names[i] # "" =>
            HasStreamMetadata(meta.fmt) /\ meta.names[i] \notin LongNames
  <2> SUFFICES ASSUME NEW i \in DOMAIN meta.names, meta.names[i] # ""
               PROVE  HasStreamMetadata(meta.fmt) /\ meta.names[i] \notin LongNames
    OBVIOUS
  <2>1. SetStreamName(new, i, meta.names[i]).ok BY DEF NamesFit
  <2>2. new.fmt = meta.fmt BY DEF NewImpl
  <2> HIDE DEF new
  <2> QED BY <2>1, <2>2 DEF SetStreamName
<1>5. Cardinality(DOMAIN NewFromMeta.entries) <= EntryLimit
  BY <1>1, <1>2, <1>3, ContainerAssumption
<1> HIDE DEF new
<1> QED BY <1>1, <1>2, <1>4, <1>5 DEF WellMade

-----------------------------------------------------------------------------
(* What a finished export left in the directory *)

\* The rows of a description are those of the bundle's keys, one for each.
LEMMA RowsOfKeys ==
    ASSUME NEW impl, IsImpl(impl), NEW opt, NEW m, m = MetaOf(impl, opt)
    PROVE  /\ m.fmt = impl.fmt /\ m.flags = impl.flags /\ m.default = impl.default
           /\ m.names = impl.names
           /\ DOMAIN m.rows = 1 .. Cardinality(DOMAIN impl.entries)
           /\ \A i \in DOMAIN m.rows :
                /\ m.rows[i].key \in DOMAIN impl.entries
                /\ m.rows[i] = RowOf(impl, opt, m.rows[i].key)
           /\ \A i, j \in DOMAIN m.rows : i # j => m.rows[i].key # m.rows[j].key
           /\ \A k \in DOMAIN impl.entries : \E i \in DOMAIN m.rows : m.rows[i].key = k
<1> DEFINE all  == DOMAIN impl.entries
           n    == Cardinality(all)
           seq  == SortedKeys(impl)
<1>1. /\ seq \in [1 .. n -> all]
      /\ \A k \in all : \E i \in 1 .. n : seq[i] = k
      /\ \A i, j \in 1 .. n : i # j => seq[i] # seq[j]
  BY OrderIsComplete DEF SortedKeys
<1> HIDE DEF seq, n
<1>2. /\ m.fmt = impl.fmt /\ m.flags = impl.flags /\ m.default = impl.default
      /\ m.names = impl.names
      /\ m.rows = [i \in DOMAIN seq |-> RowOf(impl, opt, seq[i])]
  BY DEF MetaOf, seq
<1>3. \A k : RowOf(impl, opt, k).key = k BY DEF RowOf
<1>4. DOMAIN m.rows = 1 .. n BY <1>1, <1>2
<1>5. \A i \in 1 .. n : m.rows[i] = RowOf(impl, opt, seq[i]) /\ m.rows[i].key = seq[i]
  BY <1>1, <1>2, <1>3
<1> QED BY <1>1, <1>2, <1>4, <1>5 DEF n

\* .imports.yaml gives back the imports it was made of.
LEMMA CombinedFinds ==
    ASSUME NEW was, IsExportable(was), NEW k \in DOMAIN was.entries, ReadImports(was, k) # <<>>
    PROVE  /\ CombinedOf(was) # <<>>
           /\ combined = CombinedOf(was) /\ combined # NoFile
              => CombinedList(k) = ReadImports(was, k)
<1> DEFINE with == {q \in DOMAIN was.entries : ReadImports(was, q) # <<>>}
           keys == InOrder(was, with)
           n    == Cardinality(with)
<1>1. /\ keys \in [1 .. n -> with] /\ n \in Nat
      /\ \A q \in with : \E i \in 1 .. n : keys[i] = q
  <2>1. with \in SUBSET DOMAIN was.entries OBVIOUS
  <2> HIDE DEF with
  <2> QED BY <2>1, OrderIsComplete DEF IsExportable
<1>2. PICK at \in 1 .. n : keys[at] = k BY <1>1
<1> HIDE DEF keys, n
<1> DEFINE c == CombinedOf(was)
<1>3. c = [i \in DOMAIN keys |-> [key |-> keys[i], list |-> ReadImports(was, keys[i])]]
  BY DEF CombinedOf, keys
<1> HIDE DEF c
<1>4. /\ DOMAIN c = 1 .. n
      /\ \A i \in 1 .. n : c[i].key = keys[i] /\ c[i].list = ReadImports(was, keys[i])
  BY <1>1, <1>3
<1>5. c # <<>>
  <2>1. at \in DOMAIN c BY <1>4
  <2>2. DOMAIN <<>> = {} OBVIOUS
  <2> QED BY <2>1, <2>2
<1>6. ASSUME combined = c, combined # NoFile PROVE CombinedList(k) = ReadImports(was, k)
  <2> DEFINE rows == {i \in DOMAIN c : c[i].key = k}
  <2>1. CombinedList(k) = IF rows = {} THEN <<>> ELSE c[Max(rows)].list
    BY <1>6 DEF CombinedList
  <2>2. at \in rows /\ rows \subseteq 1 .. n BY <1>2, <1>4
  <2>3. rows \in SUBSET (0 .. n) BY <1>1, <2>2
  <2>4. \A i \in rows : c[i].list = ReadImports(was, k) BY <1>4
  <2> HIDE DEF rows
  <2>5. Max(rows) \in rows BY <1>1, <2>2, <2>3, MaxIn
  <2> QED BY <2>1, <2>2, <2>4, <2>5
<1> QED BY <1>5, <1>6 DEF c

\* A list of imports is never the value for a file that cannot be parsed, and
\* neither is a description.
ContentIsReadable ==
    Unreadable \notin Seq(ResourceIDs) /\ \A impl, opt : MetaOf(impl, opt) # Unreadable

\* The directory after a finished export under some options.
LeftBy(opt) ==
    /\ Describes(opt) /\ HoldsFiles(opt)
    /\ WritesCombined(described, opt) => combined = CombinedOf(described)

\* What an import reads of the row of a described resource is that resource, but
\* for the imports of one without any.
LEMMA RowComesBack ==
    ASSUME NoFileIsNoContent, ContentIsReadable, IsExportable(described), NEW opt, LeftBy(opt),
           NEW k \in DOMAIN described.entries, NEW row, row = RowOf(described, opt, k)
    PROVE  LET old == ReadResource(described, k)
           IN  /\ HasFiles(row) /\ row.key = k /\ row.type = old.type
               /\ RowBlocks(row) = old.blocks
               /\ ImportsFor(row) \in {old.imports} \cup
                        (IF old.imports = <<>> THEN {CombinedList(k)} ELSE {})
<1> DEFINE old == ReadResource(described, k)
           folder == Folder(described, opt, k)
<1>1. /\ row.key = k /\ row.type = old.type /\ row.folder = folder
      /\ row.aligns = [s \in DOMAIN old.blocks |-> old.blocks[s].align]
      /\ row.list = HasList(described, opt, k)
  BY DEF RowOf
<1>2. meta.fmt = described.fmt BY RowsOfKeys DEF LeftBy, Describes, IsExportable
<1>3. /\ old.imports = ReadImports(described, k)
      /\ old.blocks = [s \in DOMAIN old.blocks |-> old.blocks[s]]
      /\ DOMAIN old.blocks \subseteq MemoryTypes(described.fmt)
      /\ \A s \in DOMAIN old.blocks : old.blocks[s] = ReadBlock(described, k, s)
  BY DEF ReadResource
<1>4. ReadImports(described, k) \in Seq(ResourceIDs) BY ReadsTyped
<1>5. \A s \in DOMAIN old.blocks :
          /\ old.blocks[s] \in Block /\ old.blocks[s].trailer = <<>>
  BY DEF IsExportable, AllReadable, ReadsWhole
<1>6. ASSUME NEW s \in DOMAIN old.blocks
      PROVE  PathOf(row, s) \in DOMAIN files /\ files[PathOf(row, s)] = old.blocks[s].payload
  <2> DEFINE f == BlockFile(described, opt, k, s)
  <2>1. f \in FilesToWrite(described, opt) BY DEF FilesToWrite, BlocksToWrite, BlockFile
  <2>2. f.path = PathOf(row, s) /\ f.holds = old.blocks[s].payload
    BY <1>1, <1>2, <1>3 DEF BlockFile, PathOf
  <2> HIDE DEF f
  <2> QED BY <2>1, <2>2 DEF LeftBy, HoldsFiles
<1>7. ASSUME row.list
      PROVE  /\ ListPath(row.folder, row.key) \in DOMAIN files
             /\ files[ListPath(row.folder, row.key)] = old.imports
  <2> DEFINE f == ListFile(described, opt, k)
  <2>1. f \in FilesToWrite(described, opt)
    BY <1>1, <1>7 DEF FilesToWrite, ListsToWrite, ListFile
  <2>2. f.path = ListPath(row.folder, row.key) /\ f.holds = old.imports
    BY <1>1, <1>3 DEF ListFile
  <2> HIDE DEF f
  <2> QED BY <2>1, <2>2 DEF LeftBy, HoldsFiles
<1> HIDE DEF old, folder
<1>8. BlockSlots(row) = DOMAIN old.blocks BY <1>1, <1>2, <1>3 DEF BlockSlots
<1>9. RowBlocks(row) = old.blocks
  <2>1. ASSUME NEW s \in DOMAIN old.blocks PROVE RowBlocks(row)[s] = old.blocks[s]
    <3> DEFINE b == old.blocks[s]
    <3>1. b = [payload |-> b.payload, trailer |-> <<>>, align |-> b.align] BY <1>5 DEF Block
    <3>2. RowBlocks(row)[s] = [payload |-> files[PathOf(row, s)], trailer |-> <<>>,
                               align |-> row.aligns[s]]
      BY <1>8 DEF RowBlocks
    <3>3. row.aligns[s] = b.align BY <1>1
    <3>4. files[PathOf(row, s)] = b.payload BY <1>6
    <3> HIDE DEF b
    <3>5. RowBlocks(row)[s] = b BY <3>1, <3>2, <3>3, <3>4
    <3> QED BY <3>5 DEF b
  <2>2. RowBlocks(row) = [s \in DOMAIN old.blocks |-> RowBlocks(row)[s]] BY <1>8 DEF RowBlocks
  <2> QED BY <1>3, <2>1, <2>2
<1>10. HasFiles(row)
  <2>1. row.list => files[ListPath(row.folder, row.key)] # Unreadable
    BY <1>3, <1>4, <1>7 DEF ContentIsReadable
  <2> QED BY <1>6, <1>7, <1>8, <2>1 DEF HasFiles
<1>11. CASE row.list BY <1>1, <1>7, <1>9, <1>10, <1>11 DEF ImportsFor, old
<1>12. CASE ~row.list /\ old.imports = <<>> BY <1>1, <1>9, <1>10, <1>12 DEF ImportsFor, old
<1>13. CASE ~row.list /\ old.imports # <<>>
  <2>1. opt.combineImports BY <1>1, <1>3, <1>13 DEF HasList
  <2>2. combined = CombinedOf(described)
    BY <1>3, <1>13, <2>1, CombinedFinds DEF LeftBy, WritesCombined
  <2>3. combined # NoFile BY <2>2 DEF NoFileIsNoContent
  <2>4. CombinedList(k) = old.imports BY <1>3, <1>13, <2>2, <2>3, CombinedFinds
  <2> QED BY <1>1, <1>9, <1>10, <1>13, <2>4 DEF ImportsFor, old
<1> QED BY <1>11, <1>12, <1>13

\* A resource that holds what was read of its row is restored.
LEMMA HeldRestores ==
    ASSUME NoFileIsNoContent, ContentIsReadable, IsExportable(described), NEW opt, LeftBy(opt),
           NEW k \in DOMAIN described.entries, NEW row, row = RowOf(described, opt, k),
           NEW got, ReadResource(got, k) = HeldPart(described.fmt, row.type, ResourceFrom(row))
    PROVE  RestoredResource(got, described, k)
<1> DEFINE old == ReadResource(described, k)
           new == ReadResource(got, k)
           fmt == described.fmt
           e   == described.entries[k]
<1>1. /\ row.type = old.type /\ RowBlocks(row) = old.blocks
      /\ ImportsFor(row) \in {old.imports} \cup
              (IF old.imports = <<>> THEN {CombinedList(k)} ELSE {})
  BY RowComesBack
<1>2. ResourceFrom(row).blocks = RowBlocks(row) /\ ResourceFrom(row).imports = ImportsFor(row)
  BY DEF ResourceFrom, RowBlocks
<1>3. /\ old = [type |-> old.type, blocks |-> old.blocks, imports |-> old.imports]
      /\ old.blocks = [s \in MemoryTypes(fmt) \cap DOMAIN old.blocks |-> old.blocks[s]]
      /\ DOMAIN old.blocks = MemoryTypes(fmt) \cap DOMAIN e.blocks
      /\ old.imports = ReadImports(described, k)
  BY DEF ReadResource
<1> HIDE DEF old, new
<1>4. new = [type |-> old.type, blocks |-> old.blocks,
             imports |-> IF IsBnd2(fmt) /\ MainMemory \notin DOMAIN old.blocks
                         THEN <<>> ELSE ImportsFor(row)]
  BY <1>1, <1>2, <1>3 DEF HeldPart, new
<1>5. IsBnd2(fmt) /\ MainMemory \notin DOMAIN old.blocks => old.imports = <<>>
  <2> SUFFICES ASSUME IsBnd2(fmt), MainMemory \notin DOMAIN old.blocks
               PROVE  old.imports = <<>>
    OBVIOUS
  <2>1. MainMemory \in MemoryTypes(fmt) BY MemoryTypesAreSlots
  <2>2. TrailerFits(e) /\ MainMemory \notin DOMAIN e.blocks
    BY <1>3, <2>1 DEF IsExportable, AllReadable, CanReadResource, CanReadBlock
  <2>3. e.importCount \in Nat BY ImplFields DEF IsExportable, IsEntries, IsEntry
  <2>4. e.importCount = 0 BY <2>2, <2>3 DEF TrailerFits
  <2> QED BY <1>3, <2>4 DEF ReadImports
<1>6. new.imports \in {old.imports} \cup (IF old.imports = <<>> THEN {CombinedList(k)} ELSE {})
  <2>1. new.imports = IF IsBnd2(fmt) /\ MainMemory \notin DOMAIN old.blocks
                      THEN <<>> ELSE ImportsFor(row)
    BY <1>4
  <2> HIDE DEF fmt
  <2> QED BY <1>1, <1>5, <2>1
<1>7. new = [old EXCEPT !.imports = new.imports] BY <1>3, <1>4
<1> QED BY <1>6, <1>7 DEF RestoredResource, old, new

\* It stays restored when a resource of another id is added.
LEMMA StaysRestored ==
    ASSUME NEW impl, IsImpl(impl), NEW k \in Key, NEW r, IsResource(r), NEW stop,
           AddResource(impl, k, r, stop).ok,
           NEW other, other.fmt = impl.fmt,
           other.entries = AddResource(impl, k, r, stop).impl.entries,
           other.imports = AddResource(impl, k, r, stop).impl.imports,
           NEW q \in DOMAIN impl.entries, IsBnd2(impl.fmt) \/ q[1] # k[1]
    PROVE  /\ CanReadResource(other, q) <=> CanReadResource(impl, q)
           /\ ReadResource(other, q) = ReadResource(impl, q)
<1> DEFINE x == AddResource(impl, k, r, stop).impl
<1>1. /\ k \notin DOMAIN impl.entries
      /\ x.imports = IF IsBnd2(impl.fmt) THEN impl.imports
                     ELSE StoreSeparateImports(impl.imports, k[1], r.imports)
  BY AddedEntry
<1>2. PICK staged : x.entries = Put(impl.entries, k,
                        ReplacedEntry(staged, FreshEntry(r.type), r, Finished))
  BY AddedEntry
<1> HIDE DEF x
<1>3. other.entries[q] = impl.entries[q]
  <2> DEFINE e == ReplacedEntry(staged, FreshEntry(r.type), r, Finished)
  <2> HIDE DEF e
  <2>1. other.entries = Put(impl.entries, k, e) BY <1>2 DEF e, x
  <2> QED BY <1>1, <2>1 DEF Put
<1>4. /\ CanReadResource(other, q) <=> CanReadResource(impl, q)
      /\ ReadResource(other, q).blocks = ReadResource(impl, q).blocks
      /\ IsBnd2(impl.fmt) => ReadImports(other, q) = ReadImports(impl, q)
  BY <1>3, SameEntryReadsSame
<1>5. ~IsBnd2(impl.fmt) => ReadImports(other, q) = ReadImports(impl, q)
  <2> SUFFICES ASSUME ~IsBnd2(impl.fmt) PROVE ReadImports(other, q) = ReadImports(impl, q)
    OBVIOUS
  <2>1. other.imports \in {Drop(impl.imports, k[1]), Put(impl.imports, k[1], r.imports)}
    BY <1>1 DEF StoreSeparateImports, x
  <2>2. /\ q[1] \in DOMAIN other.imports <=> q[1] \in DOMAIN impl.imports
        /\ q[1] \in DOMAIN impl.imports => other.imports[q[1]] = impl.imports[q[1]]
    BY <2>1 DEF Put, Drop
  <2> QED BY <1>3, <2>2 DEF ReadImports
<1>6. ReadImports(other, q) = ReadImports(impl, q) BY <1>4, <1>5
<1>7. ReadResource(other, q) = ReadResource(impl, q)
  <2> DEFINE a == ReadResource(other, q)
             b == ReadResource(impl, q)
  <2>1. /\ a = [type |-> a.type, blocks |-> a.blocks, imports |-> a.imports]
        /\ b = [type |-> b.type, blocks |-> b.blocks, imports |-> b.imports]
        /\ a.type = other.entries[q].type /\ b.type = impl.entries[q].type
        /\ a.imports = ReadImports(other, q) /\ b.imports = ReadImports(impl, q)
    BY DEF ReadResource
  <2>2. a.blocks = b.blocks BY <1>4
  <2> HIDE DEF a, b
  <2>3. a = b BY <1>3, <1>6, <2>1, <2>2
  <2> QED BY <2>3 DEF a, b
<1> QED BY <1>4, <1>7

\* Nothing but its checks and compression makes AddResource fail.
LEMMA AddSucceeds ==
    ASSUME NEW impl, IsImpl(impl), NEW k \in Key, k \notin DOMAIN impl.entries,
           NEW r, IsResource(r), Bounded(r.imports), k[2] < StreamLimit,
           Cardinality(DOMAIN impl.entries) < EntryLimit
    PROVE  AddResource(impl, k, r, Finished).ok
<1> DEFINE staged == [impl EXCEPT
                        !.entries = Put(@, k, FreshEntry(r.type)),
                        !.flags = IF k[2] # 0 THEN @ \cup {"MultistreamBundle"} ELSE @]
           filled == ReplaceResource(staged, k, r, Finished)
<1>1. Len(r.imports) \in Nat
  <2>1. r.imports \in Seq(ResourceIDs) BY DEF IsResource
  <2> QED BY <2>1
<1>2. Cardinality(DOMAIN impl.entries) \in Nat
  <2> DEFINE keys == DOMAIN impl.entries
  <2>1. keys \in SUBSET DOMAIN impl.entries OBVIOUS
  <2> HIDE DEF keys
  <2>2. Cardinality(keys) \in Nat BY <2>1, KeysFinite
  <2> QED BY <2>2 DEF keys
<1>3. k[2] \in Nat
  <2>1. k[2] \in StreamIndices BY KeyParts
  <2>2. k[2] \in 0 .. 255 BY <2>1, ContainerAssumption
  <2> QED BY <2>2
<1>4. ~(Len(r.imports) > ImportLimit) /\ ~(k[2] >= StreamLimit)
      /\ ~(Cardinality(DOMAIN impl.entries) >= EntryLimit)
  BY <1>1, <1>2, <1>3, ContainerAssumption DEF Bounded, StreamLimit
<1>5. k \in DOMAIN staged.entries
  <2> DEFINE fresh == FreshEntry(r.type)
             a     == Put(impl.entries, k, fresh)
  <2>1. impl = [fmt |-> impl.fmt, flags |-> impl.flags, entries |-> impl.entries,
                imports |-> impl.imports, debug |-> impl.debug,
                default |-> impl.default, names |-> impl.names]
    BY ImplFields
  <2>2. staged.entries = a BY <2>1
  <2>3. k \in DOMAIN a
    <3> HIDE DEF fresh
    <3> QED BY DEF Put
  <2> HIDE DEF a, staged
  <2> QED BY <2>2, <2>3
<1>6. AddResource(impl, k, r, Finished) =
          IF filled.ok THEN filled
          ELSE [impl |-> [filled.impl EXCEPT !.entries = Drop(@, k), !.flags = impl.flags],
                ok   |-> FALSE]
  BY <1>4, Zenon DEF AddResource
<1> HIDE DEF staged
<1>7. filled.ok
  BY <1>4, <1>5 DEF ReplaceResource
<1> HIDE DEF filled
<1> QED BY <1>6, <1>7

-----------------------------------------------------------------------------
(* Making the bundle again *)

\* The fields of what an import makes of a row.
LEMMA RowFields ==
    ASSUME NEW impl, IsImpl(impl), importing.impl = impl, DirTyped, combined # Unreadable,
           NEW row, IsRow(row), HasFiles(row), NEW result \in RowResults(row), result.ok
    PROVE  /\ result.impl.fmt = impl.fmt /\ result.impl.flags = FlagsWith(impl, row.key)
           /\ result.impl.default = impl.default /\ result.impl.names = impl.names
           /\ result.impl.debug = IF row.name = NoName THEN impl.debug
                                  ELSE Put(impl.debug, row.key, row.name)
           /\ \E stop :
                /\ AddResource(impl, row.key, ResourceFrom(row), stop).ok
                /\ result.impl.entries =
                        AddResource(impl, row.key, ResourceFrom(row), stop).impl.entries
                /\ result.impl.imports =
                        AddResource(impl, row.key, ResourceFrom(row), stop).impl.imports
<1> DEFINE r == ResourceFrom(row)
           k == row.key
<1>1. k \in Key /\ IsResource(r) BY ResourceFromGiven DEF IsRow, Given
<1>2. PICK added \in AddResults(row, r) :
          result = IF added.ok /\ row.name # NoName
                   THEN AddResourceDebugData(added.impl, k, row.name) ELSE added
  BY DEF RowResults
<1>3. PICK stop : added = AddResource(impl, k, r, stop) BY <1>2 DEF AddResults
<1> HIDE DEF r, k
<1>4. added.ok BY <1>2
<1>5. PICK staged, imports :
        /\ staged.fmt = impl.fmt /\ IsImportLists(imports)
        /\ AddResource(impl, k, r, stop).impl =
            [fmt |-> impl.fmt, flags |-> FlagsWith(impl, k),
             entries |-> Put(impl.entries, k,
                ReplacedEntry(staged, FreshEntry(r.type), r, Finished)),
             imports |-> imports, debug |-> impl.debug,
             default |-> impl.default, names |-> impl.names]
  <2>1. AddResource(impl, k, r, stop).ok BY <1>3, <1>4
  <2> QED BY <1>1, <2>1, AcceptedEffect
<1> DEFINE x == added.impl
<1>6. /\ x.fmt = impl.fmt /\ x.flags = FlagsWith(impl, k) /\ x.debug = impl.debug
      /\ x.default = impl.default /\ x.names = impl.names
      /\ x = [fmt |-> x.fmt, flags |-> x.flags, entries |-> x.entries, imports |-> x.imports,
              debug |-> x.debug, default |-> x.default, names |-> x.names]
  <2> DEFINE entries == Put(impl.entries, k,
                            ReplacedEntry(staged, FreshEntry(r.type), r, Finished))
  <2>1. x = [fmt |-> impl.fmt, flags |-> FlagsWith(impl, k), entries |-> entries,
             imports |-> imports, debug |-> impl.debug,
             default |-> impl.default, names |-> impl.names]
    BY <1>3, <1>5
  <2> HIDE DEF x, entries
  <2> QED BY <2>1
<1>7. /\ result.impl.fmt = x.fmt /\ result.impl.flags = x.flags
      /\ result.impl.entries = x.entries /\ result.impl.imports = x.imports
      /\ result.impl.default = x.default /\ result.impl.names = x.names
      /\ result.impl.debug = IF row.name = NoName THEN x.debug ELSE Put(x.debug, k, row.name)
  <2>1. CASE row.name = NoName BY <1>2, <2>1
  <2>2. CASE row.name # NoName
    <3> DEFINE d == Put(x.debug, k, row.name)
    <3>1. result = AddResourceDebugData(x, k, row.name) BY <1>2, <1>4, <2>2
    <3>2. result.impl = [x EXCEPT !.debug = d] BY <3>1 DEF AddResourceDebugData
    <3> HIDE DEF d, x
    <3> QED BY <1>6, <2>2, <3>2 DEF d
  <2> QED BY <2>1, <2>2
<1> HIDE DEF x
<1>8. /\ result.impl.fmt = impl.fmt /\ result.impl.flags = FlagsWith(impl, k)
      /\ result.impl.default = impl.default /\ result.impl.names = impl.names
      /\ result.impl.debug = IF row.name = NoName THEN impl.debug
                             ELSE Put(impl.debug, k, row.name)
  BY <1>6, <1>7
<1>9. /\ AddResource(impl, k, r, stop).ok
      /\ result.impl.entries = AddResource(impl, k, r, stop).impl.entries
      /\ result.impl.imports = AddResource(impl, k, r, stop).impl.imports
  BY <1>3, <1>4, <1>7 DEF x
<1> QED BY <1>8, <1>9 DEF r, k

\* What an import has made so far of a bundle that was: its resources, and of the rest
\* all but the default resource and the debug data of those to come.
Rebuilt(impl, was) ==
    /\ impl.flags = was.flags /\ impl.names = was.names /\ impl.default = NoDefault
    /\ impl.debug = [k \in DOMAIN was.debug \cap DOMAIN impl.entries |-> was.debug[k]]
    /\ \A k \in DOMAIN impl.entries : CanReadResource(impl, k) /\ RestoredResource(impl, was, k)

\* An import begins with nothing of it.
LEMMA RebuiltBegins ==
    ASSUME IsImpl(described), NEW opt, LeftBy(opt)
    PROVE  Rebuilt(NewFromMeta, described)
<1>1. meta.flags = described.flags /\ meta.names = described.names
  BY RowsOfKeys DEF LeftBy, Describes
<1>2. /\ NewFromMeta.flags = meta.flags /\ NewFromMeta.names = meta.names
      /\ NewFromMeta.default = NoDefault
      /\ NewFromMeta.entries = NoEntries /\ NewFromMeta.debug = NoEntries
  BY DEF NewFromMeta, NewImpl
<1>3. DOMAIN NoEntries = {} BY DEF NoEntries
<1>4. NoEntries = [k \in DOMAIN described.debug \cap {} |-> described.debug[k]] BY DEF NoEntries
<1> QED BY <1>1, <1>2, <1>3, <1>4 DEF Rebuilt

\* A row adds a resource of it.
LEMMA RebuiltGoesOn ==
    ASSUME NoFileIsNoContent, ContentIsReadable, IsExportable(described), WellMade(described),
           ~SharesLists(described), NEW opt, LeftBy(opt), DirTyped, combined # Unreadable,
           NEW impl, IsImpl(impl), impl.fmt = described.fmt, importing.impl = impl,
           DOMAIN impl.entries \subseteq DOMAIN described.entries, Rebuilt(impl, described),
           NEW k \in DOMAIN described.entries, NEW row, row = RowOf(described, opt, k),
           NEW result \in RowResults(row), result.ok
    PROVE  Rebuilt(result.impl, described)
<1> DEFINE was == described
           other == result.impl
           r == ResourceFrom(row)
<1>1. IsRow(row) /\ HasFiles(row) /\ row.key = k BY RowTyped, RowComesBack
<1>2. k \in Key /\ Given(r) /\ IsResource(r) /\ r.type = row.type
  BY <1>1, ResourceFromGiven DEF IsRow, Given
<1>3. /\ other.fmt = impl.fmt /\ other.flags = FlagsWith(impl, k)
      /\ other.default = impl.default /\ other.names = impl.names
      /\ other.debug = IF row.name = NoName THEN impl.debug ELSE Put(impl.debug, k, row.name)
  BY <1>1, RowFields
<1>4. PICK stop : /\ AddResource(impl, k, r, stop).ok
                  /\ other.entries = AddResource(impl, k, r, stop).impl.entries
                  /\ other.imports = AddResource(impl, k, r, stop).impl.imports
  BY <1>1, RowFields
<1>5. row.name = IF k \in DOMAIN was.debug THEN was.debug[k] ELSE NoName BY DEF RowOf
<1> HIDE DEF other, r
<1>6. k \notin DOMAIN impl.entries BY <1>2, <1>4, AddedEntry
<1>7. /\ other.entries = Put(impl.entries, k, other.entries[k])
      /\ CanReadResource(other, k) /\ ReadResource(other, k) = HeldPart(was.fmt, row.type, r)
  BY <1>2, <1>3, <1>4, AddedIsHeld
<1>8. DOMAIN other.entries = DOMAIN impl.entries \cup {k}
  <2> DEFINE e == other.entries[k]
  <2> HIDE DEF e
  <2>1. other.entries = Put(impl.entries, k, e) BY <1>7 DEF e
  <2> QED BY <2>1 DEF Put
<1>9. other.flags = was.flags
  <2>1. k[2] # 0 => "MultistreamBundle" \in was.flags BY DEF WellMade
  <2>2. impl.flags = was.flags BY DEF Rebuilt
  <2> QED BY <1>3, <2>1, <2>2 DEF FlagsWith
<1>10. other.debug = [q \in DOMAIN was.debug \cap DOMAIN other.entries |-> was.debug[q]]
  <2> DEFINE done == DOMAIN was.debug \cap DOMAIN impl.entries
  <2>1. impl.debug = [q \in done |-> was.debug[q]] BY DEF Rebuilt
  <2>2. CASE k \notin DOMAIN was.debug
    <3>1. DOMAIN was.debug \cap DOMAIN other.entries = done BY <1>8, <2>2
    <3>2. other.debug = impl.debug BY <1>3, <1>5, <2>2
    <3> QED BY <2>1, <3>1, <3>2
  <2>3. CASE k \in DOMAIN was.debug
    <3>1. DOMAIN was.debug \cap DOMAIN other.entries = done \cup {k} BY <1>8, <2>3
    <3>2. was.debug[k] \in DebugNames
      BY <2>3, ImplFields DEF IsExportable, IsDebugData, IsMap
    <3>3. row.name = was.debug[k] /\ row.name # NoName BY <1>5, <2>3, <3>2, ProjectAssumption
    <3>4. other.debug = Put(impl.debug, k, was.debug[k]) BY <1>3, <3>3
    <3> HIDE DEF done
    <3>5. DOMAIN impl.debug = done /\ \A q \in done : impl.debug[q] = was.debug[q] BY <2>1
    <3>6. other.debug = [q \in done \cup {k} |-> was.debug[q]] BY <3>4, <3>5 DEF Put
    <3> QED BY <3>1, <3>6
  <2> QED BY <2>2, <2>3
<1>11. RestoredResource(other, was, k)
  <2>1. ReadResource(other, k) = HeldPart(described.fmt, row.type, ResourceFrom(row))
    BY <1>7 DEF r
  <2> QED BY <2>1, HeldRestores
<1>12. ASSUME NEW q \in DOMAIN impl.entries
       PROVE  CanReadResource(other, q) /\ RestoredResource(other, was, q)
  <2>1. IsBnd2(impl.fmt) \/ q[1] # k[1]
    <3> SUFFICES ASSUME ~IsBnd2(impl.fmt), q[1] = k[1] PROVE FALSE OBVIOUS
    <3>1. q \in DOMAIN was.entries /\ q[2] = 0 /\ k[2] = 0 BY DEF SharesLists
    <3>2. q \in Key BY ImplFields DEF IsEntries
    <3>3. q = k BY <1>2, <3>1, <3>2, KeyParts
    <3> QED BY <1>6, <3>3
  <2>2. /\ CanReadResource(other, q) <=> CanReadResource(impl, q)
        /\ ReadResource(other, q) = ReadResource(impl, q)
    BY <1>2, <1>3, <1>4, <2>1, StaysRestored
  <2>3. CanReadResource(impl, q) /\ RestoredResource(impl, was, q) BY DEF Rebuilt
  <2> QED BY <2>2, <2>3 DEF RestoredResource
<1>13. \A q \in DOMAIN other.entries :
            CanReadResource(other, q) /\ RestoredResource(other, was, q)
  BY <1>7, <1>8, <1>11, <1>12
<1>14. other.names = was.names /\ other.default = NoDefault BY <1>3 DEF Rebuilt
<1> QED BY <1>9, <1>10, <1>13, <1>14 DEF Rebuilt, other

\* What it takes to be the bundle restored.
LEMMA IsRestored ==
    ASSUME NEW was, IsImpl(was), NEW got, IsImpl(got), DOMAIN got.entries = DOMAIN was.entries,
           got.fmt = was.fmt, got.flags = was.flags, got.default = was.default,
           got.names = was.names,
           got.debug = [k \in DOMAIN was.debug \cap DOMAIN was.entries |-> was.debug[k]],
           \A k \in DOMAIN was.entries : CanReadResource(got, k) /\ RestoredResource(got, was, k)
    PROVE  Restored(got, was)
<1> DEFINE a     == got.entries
           b     == got.imports
           keys  == DOMAIN was.entries
           debug == [k \in DOMAIN was.debug \cap keys |-> was.debug[k]]
           one   == [was EXCEPT !.entries = a]
           two   == [one EXCEPT !.imports = b]
           three == [two EXCEPT !.debug = [k \in DOMAIN @ \cap keys |-> @[k]]]
<1>1. got = [fmt |-> was.fmt, flags |-> was.flags, entries |-> a, imports |-> b,
             debug |-> debug, default |-> was.default, names |-> was.names]
  BY ImplFields
<1>2. Restored(got, was) <=>
          /\ got = three /\ DOMAIN got.entries = DOMAIN was.entries
          /\ \A k \in DOMAIN was.entries :
                CanReadResource(got, k) /\ RestoredResource(got, was, k)
  BY Zenon DEF Restored
<1>3. was = [fmt |-> was.fmt, flags |-> was.flags, entries |-> was.entries,
             imports |-> was.imports, debug |-> was.debug, default |-> was.default,
             names |-> was.names]
  BY ImplFields
<1> HIDE DEF a, b, keys
<1>4. one = [fmt |-> was.fmt, flags |-> was.flags, entries |-> a, imports |-> was.imports,
             debug |-> was.debug, default |-> was.default, names |-> was.names]
  BY <1>3
<1> HIDE DEF one
<1>5. two = [fmt |-> was.fmt, flags |-> was.flags, entries |-> a, imports |-> b,
             debug |-> was.debug, default |-> was.default, names |-> was.names]
  BY <1>4
<1> HIDE DEF two
<1>6. [k \in DOMAIN two.debug \cap keys |-> two.debug[k]] = debug BY <1>5
<1>7. three = [two EXCEPT !.debug = debug] BY <1>6
<1> HIDE DEF debug, three
<1>8. three = [fmt |-> was.fmt, flags |-> was.flags, entries |-> a, imports |-> b,
               debug |-> debug, default |-> was.default, names |-> was.names]
  BY <1>5, <1>7
<1> QED BY <1>1, <1>2, <1>8

\* The default resource completes it.
LEMMA RebuiltEnds ==
    ASSUME IsImpl(described), WellMade(described), NEW opt, LeftBy(opt),
           NEW impl, IsImpl(impl), impl.fmt = described.fmt,
           DOMAIN impl.entries = DOMAIN described.entries, Rebuilt(impl, described),
           WithDefault(impl).ok
    PROVE  Restored(WithDefault(impl).impl, described)
<1> DEFINE was   == described
           other == WithDefault(impl).impl
<1>1. meta.default = was.default BY RowsOfKeys DEF LeftBy, Describes
<1>2. /\ other.fmt = impl.fmt /\ other.entries = impl.entries /\ other.imports = impl.imports
      /\ IsImpl(other)
  BY DefaultKeeps
<1>3. /\ other.flags = was.flags /\ other.default = was.default /\ other.names = was.names
      /\ other.debug = impl.debug
  <2>1. impl.flags = was.flags /\ impl.names = was.names /\ impl.default = NoDefault
    BY DEF Rebuilt
  <2>2. CASE meta.default = NoDefault BY <1>1, <2>1, <2>2 DEF WithDefault
  <2>3. CASE meta.default # NoDefault
    <3> DEFINE result == SetDefaultResource(impl, meta.default)
    <3>1. WithDefault(impl) = result BY <2>3 DEF WithDefault
    <3>2. result # [impl |-> impl, ok |-> FALSE]
      <4>1. result.ok BY <3>1
      <4> HIDE DEF result
      <4> QED BY <4>1
    <3>3. result.impl =
            [fmt |-> impl.fmt, flags |-> impl.flags \cup {"ContainsDefaultResource"},
             entries |-> impl.entries, imports |-> impl.imports,
             debug |-> impl.debug, default |-> meta.default, names |-> impl.names]
      BY <3>2, SetDefaultResourceEffect
    <3>4. "ContainsDefaultResource" \in was.flags BY <1>1, <2>3 DEF WellMade
    <3> HIDE DEF result
    <3>5. /\ other.flags = was.flags \cup {"ContainsDefaultResource"}
          /\ other.default = meta.default /\ other.names = impl.names
          /\ other.debug = impl.debug
      BY <2>1, <3>1, <3>3
    <3> QED BY <1>1, <2>1, <3>4, <3>5
  <2> QED BY <2>2, <2>3
<1> HIDE DEF other
<1>4. other.debug = [k \in DOMAIN was.debug \cap DOMAIN was.entries |-> was.debug[k]]
  BY <1>3 DEF Rebuilt
<1>5. ASSUME NEW k \in DOMAIN was.entries
      PROVE  CanReadResource(other, k) /\ RestoredResource(other, was, k)
  <2>1. CanReadResource(impl, k) /\ RestoredResource(impl, was, k) BY DEF Rebuilt
  <2>2. /\ CanReadResource(other, k) <=> CanReadResource(impl, k)
        /\ ReadResource(other, k) = ReadResource(impl, k)
    BY <1>2, SameRead
  <2> QED BY <2>1, <2>2 DEF RestoredResource
<1>6. Restored(other, was) BY <1>2, <1>3, <1>4, <1>5, IsRestored
<1> QED BY <1>6 DEF other

\* The lists of .imports.yaml are none too long.
ListsFit(c) == \A i \in DOMAIN c : Bounded(c[i].list)

\* So what an import finds there is not.
LEMMA CombinedListFits ==
    ASSUME DirTyped, combined # Unreadable, combined # NoFile => ListsFit(combined), NEW k
    PROVE  Bounded(CombinedList(k))
<1> DEFINE rows == IF combined = NoFile THEN {}
                   ELSE {i \in DOMAIN combined : combined[i].key = k}
<1>1. CombinedList(k) = IF rows = {} THEN <<>> ELSE combined[Max(rows)].list
  BY DEF CombinedList
<1>2. Bounded(<<>>) BY ContainerAssumption DEF Bounded
<1>3. CASE rows # {}
  <2>1. combined # NoFile /\ IsCombined(combined) BY <1>3 DEF DirTyped
  <2>2. Len(combined) \in Nat /\ DOMAIN combined = 1 .. Len(combined) BY <2>1 DEF IsCombined
  <2>3. rows \in SUBSET (0 .. Len(combined)) /\ rows \subseteq DOMAIN combined BY <2>2
  <2> HIDE DEF rows
  <2>4. Max(rows) \in rows BY <1>3, <2>2, <2>3, MaxIn
  <2> QED BY <1>1, <1>3, <2>1, <2>3, <2>4 DEF ListsFit
<1> HIDE DEF rows
<1> QED BY <1>1, <1>2, <1>3

\* What an export writes there.
LEMMA CombinedOfFits ==
    ASSUME NEW was, IsExportable(was), WellMade(was)
    PROVE  ListsFit(CombinedOf(was))
<1> DEFINE with == {k \in DOMAIN was.entries : ReadImports(was, k) # <<>>}
           keys == InOrder(was, with)
           n    == Cardinality(with)
<1>1. keys \in [1 .. n -> with]
  <2>1. with \in SUBSET DOMAIN was.entries OBVIOUS
  <2> HIDE DEF with
  <2> QED BY <2>1, OrderIsComplete DEF IsExportable
<1> HIDE DEF keys, n
<1>2. CombinedOf(was) =
          [i \in DOMAIN keys |-> [key |-> keys[i], list |-> ReadImports(was, keys[i])]]
  BY DEF CombinedOf, keys
<1>3. \A i \in DOMAIN keys : keys[i] \in DOMAIN was.entries BY <1>1
<1>4. \A k \in DOMAIN was.entries : Bounded(ReadImports(was, k))
  BY DEF WellMade, IsExportable, AllReadable
<1> QED BY <1>2, <1>3, <1>4 DEF ListsFit

\* And what may be left of it.
LEMMA CutCombinedFits ==
    ASSUME NEW c, IsCombined(c), ListsFit(c), NEW cut \in CutCombined(c), cut # Unreadable
    PROVE  ListsFit(cut)
<1> DEFINE Row == [key : Key, list : Seq(ResourceIDs)]
<1>1. CASE cut = c \/ cut = <<>> BY <1>1 DEF ListsFit
<1>2. CASE cut # c /\ cut # <<>>
  <2>1. PICK n \in DOMAIN c :
          \/ \E id \in ResourceIDs :
                cut = Append(SubSeq(c, 1, n - 1), [key |-> <<id, 0>>, list |-> <<>>])
          \/ \E m \in 0 .. Len(c[n].list) :
                cut = Append(SubSeq(c, 1, n - 1), [c[n] EXCEPT !.list = SubSeq(@, 1, m)])
    BY <1>2 DEF CutCombined
  <2>2. c \in Seq(Row) /\ c[n] \in Row
    <3>1. c \in Seq(Row) BY DEF IsCombined
    <3> HIDE DEF Row
    <3> QED BY <3>1
  <2>3. c[n].list \in Seq(ResourceIDs) /\ c[n] = [key |-> c[n].key, list |-> c[n].list]
    BY <2>2
  <2> HIDE DEF Row
  <2>4. n \in 1 .. Len(c) /\ Len(c) \in Nat BY <2>1, <2>2
  <2> DEFINE rest == SubSeq(c, 1, n - 1)
  <2>5. rest \in Seq(Row) /\ Len(rest) = n - 1 /\ \A i \in 1 .. n - 1 : rest[i] = c[i]
    BY <2>2, <2>4
  <2>6. Bounded(<<>>) BY ContainerAssumption DEF Bounded
  <2>7. \A m \in 0 .. Len(c[n].list) : Bounded(SubSeq(c[n].list, 1, m))
    <3> SUFFICES ASSUME NEW m \in 0 .. Len(c[n].list) PROVE Bounded(SubSeq(c[n].list, 1, m))
      OBVIOUS
    <3>1. Len(c[n].list) <= ImportLimit /\ Len(c[n].list) \in Nat
      BY <2>1, <2>3 DEF ListsFit, Bounded
    <3>2. Len(SubSeq(c[n].list, 1, m)) = m BY <2>3, <3>1
    <3> QED BY <3>1, <3>2, ContainerAssumption DEF Bounded
  <2>8. ASSUME NEW list PROVE [c[n] EXCEPT !.list = list] = [key |-> c[n].key, list |-> list]
    BY <2>3
  <2>9. PICK last : cut = Append(rest, last) /\ Bounded(last.list)
    <3>1. ASSUME NEW id \in ResourceIDs,
                 cut = Append(rest, [key |-> <<id, 0>>, list |-> <<>>])
          PROVE  \E last : cut = Append(rest, last) /\ Bounded(last.list)
      <4> DEFINE last == [key |-> <<id, 0>>, list |-> <<>>]
      <4>1. last.list = <<>> OBVIOUS
      <4> HIDE DEF rest
      <4> WITNESS last
      <4> QED BY <2>6, <3>1, <4>1
    <3>2. ASSUME NEW m \in 0 .. Len(c[n].list),
                 cut = Append(rest, [c[n] EXCEPT !.list = SubSeq(@, 1, m)])
          PROVE  \E last : cut = Append(rest, last) /\ Bounded(last.list)
      <4> DEFINE short == SubSeq(c[n].list, 1, m)
                 last  == [key |-> c[n].key, list |-> short]
      <4>1. Bounded(short) BY <2>7
      <4> HIDE DEF short, rest
      <4>2. cut = Append(rest, last) BY <2>8, <3>2 DEF short
      <4>3. last.list = short OBVIOUS
      <4> WITNESS last
      <4> QED BY <4>1, <4>2, <4>3
    <3> QED BY <2>1, <3>1, <3>2
  <2> HIDE DEF rest
  <2>10. /\ DOMAIN cut = 1 .. n /\ cut[n] = last
         /\ \A i \in 1 .. n - 1 : cut[i] = c[i]
    BY <2>4, <2>5, <2>9
  <2>11. ASSUME NEW i \in DOMAIN cut PROVE Bounded(cut[i].list)
    <3>1. CASE i = n BY <2>9, <2>10, <3>1
    <3>2. CASE i # n
      <4>1. i \in 1 .. n - 1 /\ i \in DOMAIN c BY <2>2, <2>4, <2>10, <3>2
      <4> QED BY <2>10, <4>1 DEF ListsFit
    <3> QED BY <3>1, <3>2
  <2> QED BY <2>11 DEF ListsFit
<1> QED BY <1>1, <1>2

\* A finished export can be imported again.
LEMMA ImportCanStart ==
    ASSUME NoFileIsNoContent, ContentIsReadable, IsImpl(described), WellMade(described),
           NEW opt, LeftBy(opt), combined # Unreadable
    PROVE  CanStartImport
<1>1. meta = MetaOf(described, opt) BY DEF LeftBy, Describes
<1>2. meta \notin {NoFile, Unreadable} BY <1>1 DEF NoFileIsNoContent, ContentIsReadable
<1>3. meta.fmt = described.fmt /\ meta.names = described.names BY <1>1, RowsOfKeys
<1>4. ASSUME NEW i \in DOMAIN meta.names, meta.names[i] # ""
      PROVE  SetStreamName(NewImpl(meta.fmt, meta.flags), i, meta.names[i]).ok
  <2> DEFINE new  == NewImpl(meta.fmt, meta.flags)
             name == meta.names[i]
  <2>1. new.fmt = meta.fmt BY DEF NewImpl
  <2>2. HasStreamMetadata(meta.fmt) /\ name \notin LongNames
    BY <1>3, <1>4 DEF WellMade
  <2>3. i < StreamLimit
    <3>1. described.names \in StreamTable BY ImplFields
    <3>2. i \in 0 .. StreamLimit - 1 BY <1>3, <3>1 DEF StreamTable
    <3> QED BY <3>2 DEF StreamLimit
  <2> HIDE DEF new, name
  <2>4. SetStreamName(new, i, name).ok BY <2>1, <2>2, <2>3 DEF SetStreamName
  <2> QED BY <2>4 DEF new, name
<1>5. NamesFit(meta) BY <1>4 DEF NamesFit
<1> QED BY <1>2, <1>5 DEF CanStartImport

\* Each of its rows, without compression, makes its resource.
LEMMA RowSucceeds ==
    ASSUME NoFileIsNoContent, ContentIsReadable, IsExportable(described), WellMade(described),
           NEW opt, LeftBy(opt), DirTyped, combined # Unreadable,
           combined # NoFile => ListsFit(combined),
           NEW impl, IsImpl(impl), importing.impl = impl, ~IsCompressed(impl),
           DOMAIN impl.entries \subseteq DOMAIN described.entries,
           DOMAIN impl.debug \subseteq DOMAIN impl.entries,
           NEW k \in DOMAIN described.entries, k \notin DOMAIN impl.entries,
           NEW row, row = RowOf(described, opt, k), NEW result \in RowResults(row)
    PROVE  result.ok
<1> DEFINE r   == ResourceFrom(row)
           old == ReadResource(described, k)
<1>1. IsRow(row) /\ HasFiles(row) /\ row.key = k BY RowTyped, RowComesBack
<1>2. k \in Key /\ IsResource(r) BY <1>1, ResourceFromGiven DEF IsRow, Given
<1>3. Bounded(r.imports)
  <2>1. ImportsFor(row) \in {old.imports} \cup
                (IF old.imports = <<>> THEN {CombinedList(k)} ELSE {})
    BY RowComesBack
  <2>2. Bounded(CombinedList(k)) BY CombinedListFits
  <2>3. old.imports = ReadImports(described, k) BY DEF ReadResource
  <2>4. Bounded(ReadImports(described, k)) BY DEF WellMade, IsExportable, AllReadable
  <2>5. r.imports = ImportsFor(row) BY DEF ResourceFrom
  <2> HIDE DEF old, r
  <2> QED BY <2>1, <2>2, <2>3, <2>4, <2>5
<1>4. k[2] < StreamLimit BY DEF WellMade
<1>5. Cardinality(DOMAIN impl.entries) < EntryLimit
  <2> DEFINE all  == DOMAIN described.entries
             some == DOMAIN impl.entries
  <2>1. IsFiniteSet(all) /\ Cardinality(all) \in Nat BY KeysFinite DEF IsExportable
  <2>2. Cardinality(some) \in Nat BY KeysFinite
  <2>3. some \in SUBSET all /\ some # all OBVIOUS
  <2>4. Cardinality(all) <= EntryLimit BY DEF WellMade
  <2> HIDE DEF all, some
  <2>5. Cardinality(some) <= Cardinality(all) /\ Cardinality(some) # Cardinality(all)
    BY <2>1, <2>3, FS_Subset
  <2>6. Cardinality(some) < EntryLimit BY <2>1, <2>2, <2>4, <2>5, ContainerAssumption
  <2> QED BY <2>6 DEF some
<1>6. PICK added \in AddResults(row, r) :
          result = IF added.ok /\ row.name # NoName
                   THEN AddResourceDebugData(added.impl, k, row.name) ELSE added
  BY <1>1 DEF RowResults
<1>7. added = AddResource(impl, k, r, Finished)
  BY <1>1, <1>6 DEF AddResults, StopSlots, CompressedSlots
<1> HIDE DEF r
<1>8. AddResource(impl, k, r, Finished).ok BY <1>2, <1>3, <1>4, <1>5, AddSucceeds
<1>9. added.impl.debug = impl.debug BY <1>2, <1>7, <1>8, AcceptedFields
<1>10. k \notin DOMAIN added.impl.debug BY <1>9
<1>11. AddResourceDebugData(added.impl, k, row.name).ok
  BY <1>10 DEF AddResourceDebugData
<1> QED BY <1>6, <1>7, <1>8, <1>11

\* And so does its default resource, if that is there.
LEMMA DefaultSucceeds ==
    ASSUME IsImpl(described), WellMade(described), NEW opt, LeftBy(opt), HoldsDefault(described),
           NEW impl, impl.fmt = described.fmt, DOMAIN impl.entries = DOMAIN described.entries
    PROVE  WithDefault(impl).ok
<1>1. meta.default = described.default BY RowsOfKeys DEF LeftBy, Describes
<1>2. CASE meta.default = NoDefault BY <1>2 DEF WithDefault
<1>3. CASE meta.default # NoDefault
  <2>1. HasStreamMetadata(impl.fmt) /\ meta.default \in DOMAIN impl.entries
    BY <1>1, <1>3 DEF WellMade, HoldsDefault
  <2>2. SetDefaultResource(impl, meta.default).ok BY <2>1 DEF SetDefaultResource
  <2> QED BY <1>3, <2>2 DEF WithDefault
<1> QED BY <1>2, <1>3

-----------------------------------------------------------------------------
(* A finished export comes back *)

\* An import makes bundles that can be made again, as each row ...
LEMMA RowWellMade ==
    ASSUME NEW impl, IsImpl(impl), WellMade(impl), importing.impl = impl, DirTyped,
           combined # Unreadable, NEW row, IsRow(row), HasFiles(row),
           NEW result \in RowResults(row), result.ok
    PROVE  WellMade(result.impl)
<1> DEFINE r     == ResourceFrom(row)
           k     == row.key
           other == result.impl
<1>1. k \in Key /\ Given(r) BY ResourceFromGiven DEF IsRow
<1>2. /\ other.fmt = impl.fmt /\ other.flags = FlagsWith(impl, k)
      /\ other.default = impl.default /\ other.names = impl.names
  BY RowFields
<1>3. PICK stop : /\ AddResource(impl, k, r, stop).ok
                  /\ other.entries = AddResource(impl, k, r, stop).impl.entries
                  /\ other.imports = AddResource(impl, k, r, stop).impl.imports
  BY RowFields
<1> HIDE DEF r, k, other
<1>4. WellMade(other) BY <1>1, <1>2, <1>3, AddedWellMade
<1> QED BY <1>4 DEF other

\* ... and as the default resource is set.
LEMMA DefaultWellMade ==
    ASSUME NEW impl, IsImpl(impl), WellMade(impl)
    PROVE  WellMade(WithDefault(impl).impl)
<1>1. CASE meta.default = NoDefault BY <1>1 DEF WithDefault
<1>2. CASE meta.default # NoDefault
  <2> DEFINE result == SetDefaultResource(impl, meta.default)
  <2>1. WithDefault(impl) = result BY <1>2 DEF WithDefault
  <2>2. CASE result = [impl |-> impl, ok |-> FALSE]
    <3> HIDE DEF result
    <3>1. result.impl = impl BY <2>2
    <3> QED BY <2>1, <3>1
  <2>3. CASE result # [impl |-> impl, ok |-> FALSE]
    <3> DEFINE other == result.impl
    <3>1. HasStreamMetadata(impl.fmt) BY <2>3, SetDefaultResourceEffect
    <3>2. other =
            [fmt |-> impl.fmt, flags |-> impl.flags \cup {"ContainsDefaultResource"},
             entries |-> impl.entries, imports |-> impl.imports,
             debug |-> impl.debug, default |-> meta.default, names |-> impl.names]
      BY <2>3, SetDefaultResourceEffect
    <3> HIDE DEF other
    <3>3. /\ other.fmt = impl.fmt /\ other.entries = impl.entries
          /\ other.imports = impl.imports /\ other.names = impl.names
          /\ other.flags = impl.flags \cup {"ContainsDefaultResource"}
      BY <3>2
    <3>4. WellMade(other) BY <3>1, <3>3, SameResourcesWellMade
    <3> QED BY <2>1, <3>4 DEF other
  <2> QED BY <2>2, <2>3
<1> QED BY <1>1, <1>2

\* How an import of a finished export goes through the keys.
LEMMA ImportOf ==
    ASSUME ProjectInv, IsImpl(described), NEW opt, LeftBy(opt), importing # Idle
    PROVE  /\ importing.impl.fmt = described.fmt
           /\ DOMAIN importing.impl.entries \subseteq DOMAIN described.entries
           /\ RowsLeft => \E k \in DOMAIN described.entries :
                    /\ k \notin DOMAIN importing.impl.entries
                    /\ CurrentRow = RowOf(described, opt, k)
           /\ ~RowsLeft => DOMAIN importing.impl.entries = DOMAIN described.entries
<1> DEFINE n    == importing.next
           done == DOMAIN importing.impl.entries
           all  == DOMAIN described.entries
<1>1. /\ importing.impl.fmt = meta.fmt /\ meta \notin {NoFile, Unreadable}
      /\ n \in 1 .. Len(meta.rows) + 1
      /\ done = {meta.rows[i].key : i \in 1 .. n - 1}
  BY DEF ProjectInv, ImportRuns, HoldsRows
<1>2. DOMAIN meta.rows = 1 .. Len(meta.rows) /\ Len(meta.rows) \in Nat
  BY <1>1, MetaRows DEF ProjectInv, DirTyped
<1>3. /\ meta.fmt = described.fmt
      /\ \A i \in DOMAIN meta.rows :
            meta.rows[i].key \in all /\ meta.rows[i] = RowOf(described, opt, meta.rows[i].key)
      /\ \A i, j \in DOMAIN meta.rows : i # j => meta.rows[i].key # meta.rows[j].key
      /\ \A k \in all : \E i \in DOMAIN meta.rows : meta.rows[i].key = k
  BY RowsOfKeys DEF LeftBy, Describes
<1>4. \A i \in 1 .. n - 1 : i \in DOMAIN meta.rows /\ i # n BY <1>1, <1>2
<1> HIDE DEF n, done, all
<1>5. done \subseteq all BY <1>1, <1>3, <1>4
<1>6. ASSUME n \in DOMAIN meta.rows
      PROVE  \E k \in all : k \notin done /\ meta.rows[n] = RowOf(described, opt, k)
  <2>1. meta.rows[n].key \in all BY <1>3, <1>6
  <2>2. meta.rows[n].key \notin done BY <1>1, <1>3, <1>4, <1>6
  <2> QED BY <1>3, <1>6, <2>1, <2>2
<1>7. ASSUME n \notin DOMAIN meta.rows PROVE done = all
  <2>1. \A i \in DOMAIN meta.rows : i \in 1 .. n - 1 BY <1>1, <1>2, <1>7
  <2>2. all \subseteq done BY <1>1, <1>3, <2>1
  <2> QED BY <1>5, <2>2
<1> QED BY <1>1, <1>3, <1>5, <1>6, <1>7 DEF RowsLeft, CurrentRow, n, done, all

\* Every bundle there is can be made again; a finished export's was exportable, and
\* an import of it is making it.
MakesAgain ==
    /\ bundle # NoImpl => WellMade(bundle)
    /\ combined \notin {NoFile, Unreadable} => ListsFit(combined)
    /\ progress \in {"described", "finished"} => IsExportable(described) /\ WellMade(described)
    /\ importing # Idle =>
            /\ WellMade(importing.impl)
            /\ progress = "finished" /\ ~SharesLists(described)
               => Rebuilt(importing.impl, described)

\* What a finished export has left.
LEMMA FinishedLeaves ==
    ASSUME ExportInv, MakesAgain, progress = "finished"
    PROVE  /\ IsExportable(described) /\ IsImpl(described) /\ WellMade(described)
           /\ \E opt \in Options : LeftBy(opt)
<1>1. IsExportable(described) /\ WellMade(described) BY DEF MakesAgain
<1>2. \E opt \in Options : LeftBy(opt) BY DEF ExportInv, MetaVouches, LeftBy
<1> QED BY <1>1, <1>2 DEF IsExportable

\* The steps after which no import is running.
LEMMA MakesAgainIdle ==
    ASSUME MakesAgain, importing' = Idle,
           bundle' # NoImpl => WellMade(bundle'),
           combined' = combined \/ combined' \in {NoFile, Unreadable} \/ ListsFit(combined'),
           \/ progress' = progress /\ described' = described
           \/ progress' \notin {"described", "finished"}
           \/ IsExportable(described') /\ WellMade(described')
    PROVE  MakesAgain'
<1>1. (combined \notin {NoFile, Unreadable} => ListsFit(combined))'
  BY DEF MakesAgain, ListsFit
<1>2. (progress \in {"described", "finished"} => IsExportable(described) /\ WellMade(described))'
  BY DEF MakesAgain
<1> QED BY <1>1, <1>2 DEF MakesAgain

LEMMA WriteMetaMakes ==
    ASSUME ProjectInv, MakesAgain, WriteMeta
    PROVE  MakesAgain'
<1>1. importing = Idle /\ bundle # NoImpl /\ IsExportable(bundle)
  BY DEF WriteMeta, ProjectInv, ExportRuns, ValuesTyped, IsExportable
<1>2. WellMade(bundle) BY <1>1 DEF MakesAgain
<1>3. described' = bundle /\ UNCHANGED <<bundle, combined, importing>>
  BY DEF WriteMeta, ExportReturns
<1> QED BY <1>1, <1>2, <1>3, MakesAgainIdle

\* What a running export writes, or leaves, of .imports.yaml.
LEMMA ListsStayFit ==
    ASSUME ProjectInv, ExportInv, MakesAgain, exporting # Idle, exporting.meta = NoFile,
           combined' \in CutCombined(exporting.combined) \cup {exporting.combined}
    PROVE  combined' = Unreadable \/ ListsFit(combined')
<1>1. /\ bundle # NoImpl /\ IsExportable(bundle) /\ exporting.combined # NoFile
  BY DEF ProjectInv, ExportRuns, ValuesTyped, IsExportable
<1>2. exporting.combined = CombinedOf(bundle) BY <1>1 DEF ExportInv, Running
<1>3. ListsFit(exporting.combined) BY <1>1, <1>2, CombinedOfFits DEF MakesAgain
<1>4. IsCombined(exporting.combined) BY <1>1, <1>2, CombinedOfTyped
<1> QED BY <1>3, <1>4, CutCombinedFits

LEMMA WriteCombinedMakes ==
    ASSUME ProjectInv, ExportInv, MakesAgain, NoFileIsNoContent, WriteCombined
    PROVE  MakesAgain'
<1>1. /\ exporting # Idle /\ exporting.meta = NoFile /\ importing = Idle
      /\ combined' \in CutCombined(exporting.combined) \cup {exporting.combined}
      /\ UNCHANGED <<bundle, importing, described>>
  BY DEF WriteCombined, Arrives, ExportReturns, ProjectInv, ExportRuns
<1>2. combined' = Unreadable \/ ListsFit(combined') BY <1>1, ListsStayFit
<1>3. progress = "described" BY <1>1 DEF ExportInv, Running, NoFileIsNoContent
<1>4. IsExportable(described) /\ WellMade(described) BY <1>3 DEF MakesAgain
<1> QED BY <1>1, <1>2, <1>4, MakesAgainIdle DEF MakesAgain

LEMMA TornMakes ==
    ASSUME ProjectInv, ExportInv, MakesAgain, exporting # Idle, TornWrite,
           importing' = Idle, bundle' \in {bundle, NoImpl}
    PROVE  MakesAgain'
<1>1. bundle # NoImpl /\ IsExportable(bundle) /\ WellMade(bundle)
  BY DEF ProjectInv, ExportRuns, ValuesTyped, IsExportable, MakesAgain
<1>2. bundle' # NoImpl => WellMade(bundle') BY <1>1
<1>3. CASE UNCHANGED <<dir, described, progress>>
  BY <1>2, <1>3, MakesAgainIdle DEF dir
<1>4. CASE /\ \E f \in exporting.pending : \E content \in CutFile(f) :
                  IsNext(f) /\ files' = Put(files, f.path, content)
           /\ UNCHANGED <<meta, combined, described, progress>>
  BY <1>2, <1>4, MakesAgainIdle
<1>5. CASE /\ exporting.pending = {} /\ exporting.meta # NoFile
           /\ meta' \in CutMeta(exporting.meta)
           /\ described' = IF meta' = exporting.meta THEN bundle ELSE NoImpl
           /\ progress' = IF meta' = exporting.meta THEN "described" ELSE progress
           /\ UNCHANGED <<files, combined>>
  <2>1. progress = "begun" BY <1>5 DEF ExportInv, Running
  <2>2. progress' \notin {"described", "finished"} \/ described' = bundle BY <1>5, <2>1
  <2> QED BY <1>1, <1>2, <1>5, <2>2, MakesAgainIdle
<1>6. CASE /\ exporting.meta = NoFile
           /\ combined' \in CutCombined(exporting.combined)
           /\ UNCHANGED <<files, meta, described, progress>>
  <2>1. combined' = Unreadable \/ ListsFit(combined') BY <1>6, ListsStayFit
  <2> QED BY <1>2, <1>6, <2>1, MakesAgainIdle
<1> QED BY <1>3, <1>4, <1>5, <1>6 DEF TornWrite

LEMMA StartImportMakes ==
    ASSUME ProjectInv, ExportInv, MakesAgain, StartImport
    PROVE  MakesAgain'
<1>1. /\ NamesFit(meta) /\ meta \notin {NoFile, Unreadable}
      /\ importing' = [impl |-> NewFromMeta, next |-> 1]
      /\ UNCHANGED <<bundle, combined, described, progress>>
  BY DEF StartImport, CanStartImport, dir, ghosts
<1>2. PICK new : new = NewFromMeta OBVIOUS
<1>3. WellMade(new) BY <1>1, <1>2, NewWellMade DEF ProjectInv, DirTyped
<1>4. progress = "finished" => Rebuilt(new, described)
  BY <1>2, FinishedLeaves, RebuiltBegins
<1>5. importing'.impl = new BY <1>1, <1>2
<1>6. progress = "finished" => Rebuilt(importing.impl, described)'
  <2> SUFFICES ASSUME progress = "finished" PROVE Rebuilt(importing.impl, described)'
    OBVIOUS
  <2>1. UNCHANGED <<combined, described>> BY <1>1
  <2>2. Rebuilt(new, described) BY <1>4
  <2>3. \A k : CombinedList(k)' = CombinedList(k) BY <2>1 DEF CombinedList
  <2>4. ASSUME NEW k \in DOMAIN new.entries PROVE RestoredResource(new, described, k)'
    BY <2>1, <2>2, <2>3 DEF Rebuilt, RestoredResource
  <2>5. Rebuilt(new, described)' BY <2>1, <2>2, <2>4 DEF Rebuilt
  <2> QED BY <1>5, <2>5
<1> QED BY <1>1, <1>3, <1>5, <1>6 DEF MakesAgain, ListsFit

LEMMA ImportResourceMakes ==
    ASSUME ProjectInv, ExportInv, MakesAgain, NoFileIsNoContent, ContentIsReadable,
           ImportResource
    PROVE  MakesAgain'
<1> DEFINE impl == importing.impl
           row  == CurrentRow
<1>1. /\ importing # Idle /\ RowsLeft /\ HasFiles(row)
      /\ UNCHANGED <<bundle, combined, described, progress>>
  BY DEF ImportResource, RowsLeft, dir, ghosts
<1>2. PICK result \in RowResults(row) :
          result.ok /\ importing' = [impl |-> result.impl, next |-> importing.next + 1]
  BY DEF ImportResource
<1>3. /\ IsImpl(impl) /\ WellMade(impl) /\ DirTyped /\ combined # Unreadable /\ IsMeta(meta)
  BY <1>1 DEF ProjectInv, ImportRuns, DirTyped, MakesAgain
<1>4. IsRow(row) BY <1>1, <1>3, MetaRows DEF RowsLeft, CurrentRow
<1>5. WellMade(result.impl) BY <1>1, <1>2, <1>3, <1>4, RowWellMade
<1>6. ASSUME progress = "finished", ~SharesLists(described)
      PROVE  Rebuilt(result.impl, described)
  <2>1. IsExportable(described) /\ IsImpl(described) /\ WellMade(described)
    BY <1>6, FinishedLeaves
  <2>2. PICK opt \in Options : LeftBy(opt) BY <1>6, FinishedLeaves
  <2>3. /\ impl.fmt = described.fmt /\ DOMAIN impl.entries \subseteq DOMAIN described.entries
    BY <1>1, <2>1, <2>2, ImportOf
  <2>4. PICK k \in DOMAIN described.entries : row = RowOf(described, opt, k)
    BY <1>1, <2>1, <2>2, ImportOf
  <2>5. Rebuilt(impl, described) BY <1>1, <1>6 DEF MakesAgain
  <2> HIDE DEF impl, row
  <2>6. importing.impl = impl BY DEF impl
  <2> QED BY <1>2, <1>3, <1>6, <2>1, <2>2, <2>3, <2>4, <2>5, <2>6, RebuiltGoesOn
<1> DEFINE new == result.impl
<1>7. importing'.impl = new BY <1>2
<1> HIDE DEF new
<1>8. progress = "finished" /\ ~SharesLists(described) => Rebuilt(importing.impl, described)'
  BY <1>1, <1>6, <1>7 DEF Rebuilt, RestoredResource, CombinedList, new
<1> QED BY <1>1, <1>3, <1>5, <1>7, <1>8 DEF MakesAgain, ListsFit, new

\* Every step goes on making.
LEMMA MakesAgainStep ==
    ASSUME ProjectInv, ExportInv, MakesAgain, WritesLast, NoFileIsNoContent, ContentIsReadable,
           \A impl \in Bundles : WellMade(impl), [ProjectNext]_projectVars
    PROVE  MakesAgain'
<1>1. CASE UNCHANGED projectVars
  <2>1. UNCHANGED <<bundle, combined, importing, described, progress>>
    BY <1>1 DEF projectVars, dir, ghosts
  <2> QED BY <2>1 DEF MakesAgain, ListsFit, Rebuilt, RestoredResource, CombinedList
<1>2. ASSUME NEW impl \in Bundles \cup {NoImpl}, UseBundle(impl) PROVE MakesAgain'
  BY <1>2, MakesAgainIdle DEF UseBundle, Quiet, dir, ghosts
<1>3. CASE ExportRejected
  BY <1>3, MakesAgainIdle DEF ExportRejected, Quiet, dir, ghosts, MakesAgain
<1>4. ASSUME NEW opt \in Options, StartExport(opt) PROVE MakesAgain'
  <2>1. /\ importing' = Idle /\ progress' = "begun" /\ UNCHANGED <<bundle, combined>>
    BY <1>4 DEF StartExport, Quiet, dir
  <2> QED BY <2>1, MakesAgainIdle DEF MakesAgain
<1>5. CASE WriteFile
  <2>1. /\ importing' = Idle /\ UNCHANGED <<bundle, combined, described, progress>>
    BY <1>5 DEF WriteFile, ExportInv, ghosts
  <2> QED BY <2>1, MakesAgainIdle DEF MakesAgain
<1>6. CASE WriteMeta BY <1>6, WriteMetaMakes
<1>7. CASE WriteCombined BY <1>7, WriteCombinedMakes
<1>8. CASE ExportFails \/ Die
  <2>1. /\ exporting # Idle /\ TornWrite /\ importing' = Idle /\ bundle' \in {bundle, NoImpl}
    BY <1>8 DEF ExportFails, Die, ExportReturns, ExportInv
  <2> QED BY <2>1, TornMakes
<1>9. CASE StartImport BY <1>9, StartImportMakes
<1>10. CASE ImportResource BY <1>10, ImportResourceMakes
<1>11. CASE FinishImport
  <2>1. /\ bundle' = WithDefault(importing.impl).impl /\ importing' = Idle
        /\ UNCHANGED <<combined, described, progress>>
    BY <1>11 DEF FinishImport, dir, ghosts
  <2>2. IsImpl(importing.impl) /\ WellMade(importing.impl)
    BY <1>11 DEF FinishImport, ProjectInv, ImportRuns, MakesAgain
  <2>3. WellMade(bundle') BY <2>1, <2>2, DefaultWellMade
  <2> QED BY <2>1, <2>3, MakesAgainIdle
<1>12. CASE ImportFails
  BY <1>12, MakesAgainIdle DEF ImportFails, dir, ghosts, MakesAgain
<1> QED
  BY <1>1, <1>2, <1>3, <1>4, <1>5, <1>6, <1>7, <1>8, <1>9, <1>10, <1>11, <1>12
  DEF ProjectNext, CallStep

LEMMA FinishRestores ==
    ASSUME ProjectInv, ExportInv, MakesAgain,
           progress = "finished", ~SharesLists(described), FinishImport
    PROVE  Restored(bundle', described)
<1> DEFINE impl == importing.impl
<1>1. /\ importing # Idle /\ ~RowsLeft /\ WithDefault(impl).ok
      /\ bundle' = WithDefault(impl).impl
  BY DEF FinishImport
<1>2. IsImpl(described) /\ WellMade(described) BY FinishedLeaves
<1>3. PICK opt \in Options : LeftBy(opt) BY FinishedLeaves
<1>4. IsImpl(impl) BY <1>1 DEF ProjectInv, ImportRuns
<1>5. impl.fmt = described.fmt /\ DOMAIN impl.entries = DOMAIN described.entries
  BY <1>1, <1>2, <1>3, ImportOf
<1>6. Rebuilt(impl, described) BY <1>1 DEF MakesAgain
<1> HIDE DEF impl
<1> QED BY <1>1, <1>2, <1>3, <1>4, <1>5, <1>6, RebuiltEnds

LEMMA FailureHasReason ==
    ASSUME ProjectInv, ExportInv, MakesAgain, NoFileIsNoContent, ContentIsReadable,
           progress = "finished", ~SharesLists(described), ImportFails
    PROVE  combined = Unreadable \/ ~HoldsDefault(described) \/ IsCompressed(described)
<1> SUFFICES ASSUME combined # Unreadable, HoldsDefault(described), ~IsCompressed(described)
             PROVE  FALSE
  OBVIOUS
<1>1. IsExportable(described) /\ IsImpl(described) /\ WellMade(described) BY FinishedLeaves
<1>2. PICK opt \in Options : LeftBy(opt) BY FinishedLeaves
<1>3. CanStartImport BY <1>1, <1>2, ImportCanStart
<1>4. importing # Idle BY <1>3 DEF ImportFails, RowsLeft
<1> DEFINE impl == importing.impl
<1>5. IsImpl(impl) /\ DirTyped BY <1>4 DEF ProjectInv, ImportRuns
<1>6. /\ impl.fmt = described.fmt /\ DOMAIN impl.entries \subseteq DOMAIN described.entries
      /\ ~RowsLeft => DOMAIN impl.entries = DOMAIN described.entries
  BY <1>1, <1>2, <1>4, ImportOf
<1>7. Rebuilt(impl, described) BY <1>4 DEF MakesAgain
<1>8. ~IsCompressed(impl) /\ DOMAIN impl.debug \subseteq DOMAIN impl.entries
  BY <1>7 DEF Rebuilt, IsCompressed
<1>9. combined # NoFile => ListsFit(combined) BY DEF MakesAgain
<1>10. CASE RowsLeft
  <2>1. PICK k \in DOMAIN described.entries :
            k \notin DOMAIN impl.entries /\ CurrentRow = RowOf(described, opt, k)
    BY <1>1, <1>2, <1>4, <1>10, ImportOf
  <2>2. HasFiles(CurrentRow) BY <1>1, <1>2, <2>1, RowComesBack
  <2>3. PICK result \in RowResults(CurrentRow) : ~result.ok
    BY <1>3, <1>10, <2>2 DEF ImportFails
  <2> HIDE DEF impl
  <2>4. importing.impl = impl BY DEF impl
  <2> QED
    BY <1>1, <1>2, <1>5, <1>6, <1>8, <1>9, <2>1, <2>3, <2>4, RowSucceeds
<1>11. CASE ~RowsLeft
  <2>1. WithDefault(impl).ok BY <1>1, <1>2, <1>6, <1>11, DefaultSucceeds
  <2> QED BY <1>3, <1>11, <2>1 DEF ImportFails
<1> QED BY <1>10, <1>11

\* What a finished export wrote comes back, whatever older exports had left in the
\* directory, and an import of it fails only for one of three reasons: a broken
\* .imports.yaml that it did not write, a default resource that the bundle does not
\* hold, no memory for compression (project.cpp:657-808).
THEOREM FinishedExportsComeBack ==
    WritesLast /\ NoFileIsNoContent /\ ContentIsReadable /\ (\A impl \in Bundles : WellMade(impl))
        => (ProjectSpec => FinishedExportComesBack)
<1> SUFFICES ASSUME WritesLast, NoFileIsNoContent, ContentIsReadable,
                    \A impl \in Bundles : WellMade(impl)
             PROVE  ProjectSpec => FinishedExportComesBack
  OBVIOUS
<1> DEFINE Inv == ProjectInv /\ ExportInv /\ MakesAgain
           ComesBack ==
               progress = "finished" /\ ~SharesLists(described) =>
                   /\ FinishImport => Restored(bundle', described)
                   /\ ImportFails => \/ combined = Unreadable \/ ~HoldsDefault(described)
                                     \/ IsCompressed(described)
<1>1. ProjectInit => Inv
  <2>1. ProjectInit => MakesAgain BY DEF ProjectInit, MakesAgain
  <2> QED BY <2>1, ProjectInvInit, ExportInvInit
<1>2. Inv /\ [ProjectNext]_projectVars => Inv'
  BY ProjectInvStep, ExportInvStep, MakesAgainStep
<1>3. Inv => [ComesBack]_projectVars BY FinishRestores, FailureHasReason
<1> QED BY <1>1, <1>2, <1>3, PTL DEF ProjectSpec, FinishedExportComesBack
=============================================================================
