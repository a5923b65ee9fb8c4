SPECIFICATION Spec
CONSTANTS
    Hosts = {"fourA", "sixA"}
    HostFamily <- MCHostFamily
    HostName <- SharedName
    MinimumUp = 1
    RoutesFail = FALSE
    HasTable = TRUE
    MaxEpoch = 1
INVARIANT DownStopsMonitors
CHECK_DEADLOCK FALSE
