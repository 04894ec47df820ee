SPECIFICATION SyncedSpec

CONSTANTS
    c1 = c1
    c2 = c2
    srv = srv
    Clients <- MCClients
    Server <- MCServer
    ServerPos <- MCServerPos
    Actors <- MCActors
    ActorOf <- MCActorOf
    PosActorOf <- MCPosActorOf
    PositionOf <- MCPositionOf
    Flags = {1}
    Positions = {11, 12}
    Values = {2}
    Clocks = {0}
    Datagrams = 0
    Alarm = FALSE
    MaxConns = 2
    MaxMapWrites = 0
    MaxRegWrites = 1
    MaxTicks = 0
    MaxMarks = 0
    MaxDrops = 0
    MaxCompactions = 1
    MaxPauses = 1
    MaxClientRestarts = 0
    MaxServerRestarts = 0

PROPERTIES
    PauseBeatenOnlyByAPress

CHECK_DEADLOCK FALSE
