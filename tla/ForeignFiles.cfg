SPECIFICATION Spec
CONSTANTS
    Bytes = Bytes
    Other = Other
    Empty = Empty
    Garbled = Garbled
    TableText = TableText
    NoImpl = NoImpl
    NoFile = NoFile
    PartialFile = PartialFile
    OtherFile = OtherFile
    Payloads <- MCPayloads
    Size <- MCSize
    Types <- MCTypes
    Alignments <- MCAlignments
    TextFile = "TextFile"
    ResourceIDs = {0, 1, 2}
    StreamIndices = {0, 1}
    StringTableID = 2
    DebugNames = {"car.bin", "car.xml"}
    XmlNames = {"car.xml"}
    StreamNames = {"low"}
    LongNames = {}
    ImportLimit = 1
    EntryLimit = 1
    Fmt <- XboxBndl
    InitialFlags = {}
    Resources <- RepairResources
    GivenNames = {}
    GivenStreamNames = {}
    ForeignFiles <- OtherToolsFiles
    WriterMayThrow = FALSE
INVARIANTS
    ResaveIsStable
    StreamNeedsFlag
PROPERTIES
    ReadableStaysReadable
    ReplacingRepairs
