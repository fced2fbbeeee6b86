CONSTANTS
    p1 = p1
    r1 = r1
    NoFile = NoFile
    Paths = {p1}
    Configs <- MCOnOff
    Reloaders = {r1}
    MaxFiles = 2
    FileLimit = 1
    RingSize = 1
    MaxEntries = 4
    MaxCalls = 2
    MaxReloads = 1
    MaxMishaps = 1
SPECIFICATION FairSpec
\* The calls and reloads of an instance are numbered; CallsEnd says that none is stuck.
CHECK_DEADLOCK FALSE
INVARIANTS
    TypeOK
    TrailIsKept
    WritesToConfiguredFile
PROPERTY
    CallsEnd
