SPECIFICATION CSpec
CONSTANTS
    Bytes = Bytes
    Other = Other
    Empty = Empty
    Garbled = Garbled
    TableText = TableText
    NoImpl = NoImpl
    NoFile = NoFile
    PartialFile = PartialFile
    OtherFile = OtherFile
    Payloads <- MCPayloads
    Size <- MCSize
    Types <- MCTypes
    Alignments <- MCAlignments
    TextFile = "TextFile"
    ResourceIDs = {1, 2}
    StreamIndices = {0, 1, 4}
    StringTableID = 2
    DebugNames = {"car.bin", "car.xml"}
    XmlNames = {"car.xml"}
    StreamNames = {}
    LongNames = {}
    ImportLimit = 2
    EntryLimit = 2
    Fmt <- XboxBndl
    InitialFlags = {}
    Resources = {}
    GivenNames = {"car.bin"}
    GivenStreamNames = {}
    ForeignFiles <- MCFiles
    WriterMayThrow = FALSE
    Creations <- MCCreations
    ResourceTypes = {"BinaryFile"}
    MemoryTypeArgs = {0, 4}
    Buffers <- MCBuffers
    ImportBound = 2
    MemoryMayRunOut = TRUE
    Null = Null
CONSTRAINT InBounds
INVARIANTS
    CTypeOK
    HalfMadeSurvivesSave
PROPERTIES
    SuccessIsWhole
    OutOfMemoryIsContained
