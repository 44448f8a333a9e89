------------------------------ MODULE DebugTable ------------------------------
(***************************************************************************)
(* The resource string table: how the debug data of a bundle is written to *)
(* XML rows and read back.  A row carries the resource id and, in BND2 v5  *)
(* only, a streamIndex attribute; the stream of every other row has to be  *)
(* guessed from the resources the bundle holds.                            *)
(***************************************************************************)
EXTENDS Container, SequencesExt

CONSTANT XmlNames       \* the debug names that end with ".xml"

\* streamIndex attributes that are not a number: absent, or "importEntry".
Omitted     == -1
ImportEntry == -2

Row == [id : ResourceIDs, stream : StreamIndices \cup {Omitted, ImportEntry}, name : DebugNames]

-----------------------------------------------------------------------------
(* Writing *)

\* A mutant: v5 rows are sorted by id, as those of the other versions.
RowBeforeById(impl, a, b) ==
    LET xml(k) == IF impl.debug[k] \in XmlNames THEN 1 ELSE 0
        before(x, y, equal) == x < y \/ (x = y /\ equal)
    IN  IF IsBnd2(impl.fmt) /\ impl.fmt.version < 5
        THEN before(xml(a), xml(b), a[1] < b[1])
        ELSE before(a[1], b[1], a[2] < b[2])

\* SortedDebugDataKeys: whether a goes before b. BNDL keeps the map's order;
\* std::sort is not stable, so BND2 before v5 may write the streams of one id
\* in any order.
RowBefore(impl, a, b) ==
    LET xml(k) == IF impl.debug[k] \in XmlNames THEN 1 ELSE 0
        before(x, y, equal) == x < y \/ (x = y /\ equal)
    IN  CASE ~IsBnd2(impl.fmt)    -> before(a[1], b[1], a[2] < b[2])
          [] IsBnd2(impl.fmt) /\ impl.fmt.version < 5 -> before(xml(a), xml(b), a[1] < b[1])
          [] HasStreamMetadata(impl.fmt) -> before(a[2], b[2], a[1] < b[1])

RowOrders(impl) ==
    {order \in SetToSeqs(DOMAIN impl.debug) :
        \A i, j \in DOMAIN order : i < j => ~RowBefore(impl, order[j], order[i])}

\* GetDebugDataAttributes. Only v5 rows name a stream, and not even those of
\* an uncompressed bundle with one resource whose stream is the default one.
StreamAttribute(impl, k) ==
    LET sparse == /\ Cardinality(DOMAIN impl.entries) = 1
                  /\ impl.default[2] = k[2]
                  /\ ~IsCompressed(impl)
    IN  IF ~HasStreamMetadata(impl.fmt) \/ sparse THEN Omitted
        ELSE IF k \in DOMAIN impl.entries THEN k[2] ELSE ImportEntry

TableOf(impl, order) ==
    [i \in DOMAIN order |-> [id     |-> order[i][1],
                             stream |-> StreamAttribute(impl, order[i]),
                             name   |-> impl.debug[order[i]]]]

\* GenerateDebugData: every table the writer may produce.
Tables(impl) == {TableOf(impl, order) : order \in RowOrders(impl)}

-----------------------------------------------------------------------------
(* Reading *)

\* A number outside 0..3 counts as 0.
NumberedStream(row) == IF row.stream < StreamLimit THEN row.stream ELSE 0

\* "importEntry" repeats the stream of the last row that had a number.
LastStream(table, i) ==
    LET numbered == {j \in 1 .. i - 1 : table[j].stream >= 0}
    IN  IF numbered = {} THEN 0 ELSE NumberedStream(table[Max(numbered)])

\* Without the attribute: the first stream the resource is stored in.
FirstStream(entries, id) ==
    LET streams == {k[2] : k \in {e \in DOMAIN entries : e[1] = id}}
    IN  IF streams = {} THEN 0 ELSE Min(streams)

RowStream(table, i, entries) ==
    CASE table[i].stream = Omitted     -> FirstStream(entries, table[i].id)
      [] table[i].stream = ImportEntry -> LastStream(table, i)
      [] OTHER                         -> NumberedStream(table[i])

\* ParseDebugData: a later row for the same key replaces an earlier one.
ParseTable(table, entries) ==
    LET keyOf(i) == <<table[i].id, RowStream(table, i, entries)>>
        keys     == {keyOf(i) : i \in DOMAIN table}
    IN  [k \in keys |-> table[Max({i \in DOMAIN table : keyOf(i) = k})].name]
=============================================================================
