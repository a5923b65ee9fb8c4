SPECIFICATION Spec
CONSTANTS
    Hosts = {"fourA"}
    HostFamily <- MCHostFamily
    HostName <- OwnNames
    MinimumUp = 1
    RoutesFail = FALSE
    HasTable = TRUE
    MaxEpoch = 1
INVARIANT NoStaleMonitor
CHECK_DEADLOCK FALSE
