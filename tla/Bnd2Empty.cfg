SPECIFICATION Spec
CONSTANTS
    Bytes = Bytes
    Other = Other
    Empty = Empty
    Garbled = Garbled
    TableText = TableText
    NoImpl = NoImpl
    NoFile = NoFile
    PartialFile = PartialFile
    OtherFile = OtherFile
    Payloads <- MCPayloads
    Size <- MCSize
    Types <- MCTypes
    Alignments <- MCAlignments
    TextFile = "TextFile"
    ResourceIDs = {1}
    StreamIndices = {0, 1, 2, 4}
    StringTableID = 1
    DebugNames = {"car.bin", "car.xml"}
    XmlNames = {"car.xml"}
    StreamNames = {}
    LongNames = {}
    ImportLimit = 1
    EntryLimit = 3
    Fmt <- V5Fmt
    InitialFlags <- StreamFlags
    Resources <- OneStreamResource
    GivenNames = {}
    GivenStreamNames = {}
    ForeignFiles = {}
    WriterMayThrow = FALSE
INVARIANTS
    WriterDividesByNoZero
