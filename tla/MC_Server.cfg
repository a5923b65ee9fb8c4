SPECIFICATION ServerFairSpec
CONSTANTS
    Hosts = {"fourA"}
    HostFamily <- MCHostFamily
    HostName <- OwnNames
    MinimumUp = 1
    RoutesFail = FALSE
    HasTable = TRUE
    MaxEpoch = 2
    MaxQueue = 2
    MaxFlips = 3
INVARIANTS
    ServerTypeOK
    DownLeavesNothing
    LinkFollows
    StopLeavesNothing
PROPERTIES
    ImplementsSession
    NoLinkChangeAfterStop
    ServerSettles
CHECK_DEADLOCK FALSE
