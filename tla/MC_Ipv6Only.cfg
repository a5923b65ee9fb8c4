SPECIFICATION FairSpec
CONSTANTS
    Hosts = {"sixA"}
    HostFamily <- MCHostFamily
    HostName <- OwnNames
    MinimumUp = 1
    RoutesFail = FALSE
    HasTable = TRUE
    MaxEpoch = 1
PROPERTY HostsGetMonitored
CHECK_DEADLOCK FALSE
