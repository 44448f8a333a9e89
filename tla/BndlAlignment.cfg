SPECIFICATION Spec
CONSTANTS
    Bytes = Bytes
    Other = Other
    Empty = Empty
    Garbled = Garbled
    TableText = TableText
    NoImpl = NoImpl
    NoFile = NoFile
    PartialFile = PartialFile
    OtherFile = OtherFile
    Payloads <- MCPayloads
    Size <- MCSize
    Types <- MCTypes
    Alignments <- MCAlignments
    TextFile = "TextFile"
    ResourceIDs = {1, 2}
    StreamIndices = {0}
    StringTableID = 2
    DebugNames = {"car.bin", "car.xml"}
    XmlNames = {"car.xml"}
    StreamNames = {"low"}
    LongNames = {}
    ImportLimit = 1
    EntryLimit = 2
    Fmt <- BndlFmt
    InitialFlags = {}
    Resources <- ImportingResource
    GivenNames = {}
    GivenStreamNames = {}
    ForeignFiles = {}
    WriterMayThrow = FALSE
INVARIANTS
    BndlKeepsAlignments
