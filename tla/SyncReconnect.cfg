SPECIFICATION ReconnectSpec

CONSTANTS
    c1 = c1
    c2 = c2
    srv = srv
    Clients <- MCClients
    Server <- MCServer
    ServerPos <- MCServerPos
    Actors <- MCActors
    ActorOf <- MCActorOf
    PosActorOf <- MCPosActorOf
    PositionOf <- MCPositionOf
    Flags = {1}
    Positions = {11, 12}
    Values = {2}
    Clocks = {0}
    Datagrams = 1
    Alarm = FALSE
    MaxConns = 4
    MaxMapWrites = 2
    MaxRegWrites = 1
    MaxTicks = 2
    MaxMarks = 0
    MaxDrops = 1
    MaxCompactions = 1
    MaxPauses = 1
    MaxClientRestarts = 1
    MaxServerRestarts = 0

INVARIANTS
    TypeOK
    LamportFloor
    HubKnowsMost
    FannedOutOnce
    NoWedge
    PositionsNeverQueue
PROPERTIES
    OwnWriteShows
    ServedInSequence

CHECK_DEADLOCK FALSE
