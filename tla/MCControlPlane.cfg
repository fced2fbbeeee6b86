CONSTANTS
    h1 = h1
    h2 = h2
    h3 = h3
    manual = manual
    watch = watch
    k1 = k1
    k2 = k2
    Handlers = {h1, h2, h3}
    Reloaders = {manual, watch}
    Watcher = watch
    Secrets = {k1, k2}
    NoSecret = NoSecret
    RandomKey = RandomKey
    Torn = Torn
    NoFile = NoFile
    Original = Original
    Edited = Edited
    NoTable = NoTable
    EmptyTable = EmptyTable
    KnownStrategies = {"email", "hash", "ssn", "ip"}
    Given = {"u", "p"}
    Invalid = Invalid
    EmptyValue = EmptyValue
    Absent = Absent
    Passthrough = Passthrough
    NoSection = NoSection
    NoRequest = NoRequest
    NoHint = NoHint
    NullValue = NullValue
    Unreadable = Unreadable
    MaxSample = 5
    NoScan = NoScan
    Scenes <- MCScenes
SPECIFICATION FairSpec
INVARIANTS
    TypeOK
    PolicyOnDisk
    SettledAgrees
    AckedIsDurable
    StrangersKeptOut
    HealthTold
    ReportIsComplete
PROPERTIES
    EditsAreKeyed
    LastSaveIsLoaded
