SPECIFICATION FairSpec

CONSTANTS
    f1 = f1
    f2 = f2
    Files = {f1, f2}
    Own = Own
    None = None
    LastPosition = 2
    MaxEvents = 2
    Scenarios <- Acts
    ResumePoints = {1}
    Deltas = {0, 2, 4}
    GiveUpCount = 3
    EngageMillis = 2
    ReleaseMillis = 1
    HardSeekMillis = 3
    SlewMax = 2
    SlewQuantum = 1
    EngageRun = 1
    RecommandSamples = 1

INVARIANTS
    TypeOK
    RightFile
    GraceHolds
    NeverStranded
PROPERTIES
    Returns

CHECK_DEADLOCK FALSE
