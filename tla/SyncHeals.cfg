SPECIFICATION HealSpec

CONSTANTS
    c1 = c1
    c2 = c2
    srv = srv
    Clients <- MCClients
    Server <- MCServer
    ServerPos <- MCServerPos
    Actors <- MCActors
    ActorOf <- MCActorOf
    PosActorOf <- MCPosActorOf
    PositionOf <- MCPositionOf
    Flags = {1, 2}
    Positions = {11, 12}
    Values = {2}
    Clocks = {0}
    Datagrams = 0
    Alarm = TRUE
    MaxConns = 4
    MaxMapWrites = 0
    MaxRegWrites = 0
    MaxTicks = 0
    MaxMarks = 2
    MaxDrops = 0
    MaxCompactions = 1
    MaxPauses = 0
    MaxClientRestarts = 0
    MaxServerRestarts = 1

INVARIANTS
    NoWedge
PROPERTIES
    Heals
