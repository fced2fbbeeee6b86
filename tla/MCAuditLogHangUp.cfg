CONSTANTS
    p1 = p1
    r1 = r1
    NoFile = NoFile
    Paths = {p1}
    Configs <- MCOneFile
    Reloaders = {r1}
    MaxFiles = 2
    FileLimit = 1
    RingSize = 2
    MaxEntries = 4
    MaxCalls = 2
    MaxReloads = 0
    MaxMishaps = 1
SPECIFICATION Spec
CHECK_DEADLOCK FALSE
INVARIANT
    NoRotationOverAnother
