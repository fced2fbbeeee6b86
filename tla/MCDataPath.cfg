CONSTANTS
    AnyTable = AnyTable
    NoName = NoName
    NoRule = NoRule
    Jobs <- MCJobs
    MaxFrame = 40
    MaxStartup = 9
    Chunk = 6
    SeqIds = 5
    OneByte = 3
    RingSize = 2
SPECIFICATION Spec
INVARIANTS
    TypeOK
    FramesWhole
    SensitiveHidden
    DetectedHidden
    LogCarriesNoValue
    RingTellsRecent
