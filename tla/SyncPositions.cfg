SPECIFICATION SyncedSpec

CONSTANTS
    c1 = c1
    c2 = c2
    srv = srv
    Clients <- MCClients
    Server <- MCServer
    ServerPos <- MCServerPos
    Actors <- MCActors
    ActorOf <- MCActorOf
    PosActorOf <- MCPosActorOf
    PositionOf <- MCPositionOf
    Flags = {1}
    Positions = {11, 12}
    Values = {2}
    Clocks = {0}
    Datagrams = 1
    Alarm = FALSE
    MaxConns = 2
    MaxMapWrites = 0
    MaxRegWrites = 0
    MaxTicks = 1
    MaxMarks = 0
    MaxDrops = 0
    MaxCompactions = 0
    MaxPauses = 0
    MaxClientRestarts = 0
    MaxServerRestarts = 0

INVARIANTS
    PositionsCatchUp

CHECK_DEADLOCK FALSE
