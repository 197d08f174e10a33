SPECIFICATION Spec
CONSTANTS
    UInt64 = 65536
    Devices <- MCDevices
    Masks <- MCMasks
    FailingSets <- MCFailingSets
    Starts = {0, 1, 65535}
    Counts = {0, 1, 4, 65535}
    Offsets = {0, 100, 512, 1024}
    Sizes = {0, 1, 513, 2048}
    Exports <- MCExports
    Main = main
    Workers = {w1, w2}
    Total = 4
    Ranges <- MCRanges
    MaxCalls = 2
    MaxMillis = 1
    Typed <- MCTyped
    MaxCommands = 3
INVARIANTS
    TypeOK
    EnginesReadWhatIsAsked
    DetectionAgrees
    ExportFits
    TokensAreOfLiveOps
    ValidateAgrees
PROPERTIES
    FinishedRowsStay
CHECK_DEADLOCK FALSE
