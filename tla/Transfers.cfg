SPECIFICATION FairSpec

CONSTANTS
    Peers = {1, 2}
    Files = {1, 2}
    Size = 3
    ChunksPerBlock = 2
    PipelineDepth = 1
    MaxSources = 1
    SnubTimeout = 2
    UrgentAge = 1
    BackoffCap = 2
    MaxSolicitAttempts = 1
    Cooldown = 2
    OpenBuffer = 1
    OpsDepth = 2
    MaxStreamEvents = 1
    Plans <- MCPlans
    Scenarios <- MCScenarios

INVARIANTS
    TypeOK
    InFlightNeeded
    VerifiedGood
    ToldPlayable
PROPERTIES
    SharedBudget
    BulkOnce
    Answered
    Completes

CHECK_DEADLOCK FALSE
