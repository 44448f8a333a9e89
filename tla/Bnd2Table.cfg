SPECIFICATION Spec
CONSTANTS
    Bytes = Bytes
    Other = Other
    Empty = Empty
    Garbled = Garbled
    TableText = TableText
    NoImpl = NoImpl
    NoFile = NoFile
    PartialFile = PartialFile
    OtherFile = OtherFile
    Payloads <- MCPayloads
    Size <- MCSize
    Types <- MCTypes
    Alignments <- MCAlignments
    TextFile = "TextFile"
    ResourceIDs = {1, 2}
    StreamIndices = {0, 1}
    StringTableID = 1
    DebugNames = {"car.bin", "car.xml"}
    XmlNames = {"car.xml"}
    StreamNames = {"low", "a name too long"}
    LongNames = {"a name too long"}
    ImportLimit = 1
    EntryLimit = 3
    Fmt <- V5Fmt
    InitialFlags <- TableFlags
    Resources <- OneResource
    GivenNames = {"car.bin", "car.xml"}
    GivenStreamNames = {"low", "a name too long"}
    ForeignFiles = {}
    WriterMayThrow = FALSE
CONSTRAINT NotSaved
INVARIANTS
    ResaveIsStable
    DebugDataSurvives
