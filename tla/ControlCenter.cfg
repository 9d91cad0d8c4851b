CONSTANTS
    h1 = h1
    h2 = h2
    local = local
    Hosts = {h1, h2}
    Local = local
    Contents <- MCContents
    MaxRead = 4
    MaxMoves = 2
    Clients = {c1}
    Capacity = 2
    Writers <- MCSources
    Operators = {o1}
SPECIFICATION Spec
CHECK_DEADLOCK FALSE
CONSTRAINT Bounded
INVARIANTS
    TypeOK
    NoLinePassedOver
    StoredIsProjected
    NoPageForgotten
    LossIsMarked
    
PROPERTIES
    CursorAdvances
    LinesArrive
    HealthFollowsHost
    PageCatchesUp
    DemandIsRaised
