SPECIFICATION SyncedSpec

CONSTANTS
    c1 = c1
    c2 = c2
    srv = srv
    Clients <- MCClients
    Server <- MCServer
    ServerPos <- MCServerPos
    Actors <- MCActors
    ActorOf <- MCActorOf
    PosActorOf <- MCPosActorOf
    PositionOf <- MCPositionOf
    Flags = {1}
    Positions = {11, 12}
    Values = {2}
    Clocks = {0}
    Datagrams = 0
    Alarm = FALSE
    MaxConns = 4
    MaxMapWrites = 2
    MaxRegWrites = 0
    MaxTicks = 0
    MaxMarks = 0
    MaxDrops = 0
    MaxCompactions = 0
    MaxPauses = 0
    MaxClientRestarts = 0
    MaxServerRestarts = 1

PROPERTIES
    MergeBringsOnlyOfflineEdits

CHECK_DEADLOCK FALSE
