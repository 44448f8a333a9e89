SPECIFICATION ProjectSpec
CONSTANTS
    Bytes = Bytes
    Other = Other
    Empty = Empty
    Garbled = Garbled
    TableText = TableText
    NoImpl = NoImpl
    NoFile = NoFile
    NoName = NoName
    Idle = Idle
    Unreadable = Unreadable
    Payloads <- MCPayloads
    Size <- MCSize
    Types <- MCTypes
    TypeNumber <- MCTypeNumber
    FolderName <- MCFolderName
    CutPayload <- MCCutPayload
    Alignments = {0, 1, 4}
    ResourceIDs = {1}
    StreamIndices = {0, 1}
    DebugNames = {"car.bin", "car.xml"}
    StreamNames = {"low"}
    LongNames = {}
    ImportLimit = 1
    EntryLimit = 2
    Bundles <- MCBundles
    Options <- MCOptions
    CloseMayFail = TRUE
    ExportLimit = 1
INVARIANTS
    NoIncompleteProject
