SPECIFICATION FairSpec
CONSTANTS
    Hosts = {"fourA", "sixA"}
    HostFamily <- MCHostFamily
    HostName <- OwnNames
    MinimumUp = 1
    RoutesFail = FALSE
    HasTable = TRUE
    MaxEpoch = 1
INVARIANTS
    TypeOK
    DownLeavesNothing
PROPERTIES
    ImplementsSession
    FourHostBringsAll
    LinkDownEnds
    WatchersEnd
CHECK_DEADLOCK FALSE
