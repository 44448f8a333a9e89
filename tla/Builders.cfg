SPECIFICATION BuilderSpec
CONSTANTS
    Bytes = Bytes
    Other = Other
    Empty = Empty
    Garbled = Garbled
    TableText = TableText
    NoImpl = NoImpl
    NoFile = NoFile
    PartialFile = PartialFile
    OtherFile = OtherFile
    Payloads <- MCPayloads
    Size <- MCSize
    Types <- MCTypes
    Alignments <- MCAlignments
    TextFile = "TextFile"
    ResourceIDs = {1}
    StreamIndices = {0, 1}
    StringTableID = 1
    DebugNames = {"car.bin", "car.xml"}
    XmlNames = {"car.xml"}
    StreamNames = {}
    LongNames = {}
    ImportLimit = 1
    EntryLimit = 1
    Fmt <- V3Fmt
    InitialFlags = {"HasDebugData"}
    Resources = {}
    GivenNames = {"car.bin"}
    GivenStreamNames = {}
    ForeignFiles = {}
    WriterMayThrow = FALSE
    Builders = {b1, b2}
    NoBuilder = NoBuilder
    NoName = NoName
    StagedTypes = {"BinaryFile"}
    StagedBlocks <- MCStagedBlocks
    StagedImports = 1
    StagedNames = {"car.bin"}
    Profiles <- MCProfiles
SYMMETRY MCSymmetry
CONSTRAINT InBounds
INVARIANTS
    BuilderTypeOK
PROPERTIES
    CommitIsWhole
    CommitKeepsSavable
    CommittedSurvivesSave
