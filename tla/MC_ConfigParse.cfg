SPECIFICATION Spec
CONSTANTS
    Settings = {"burst_size", "icmp_timeout"}
    Actions = {"up_action"}
    InterfaceNames = {"wan", "lte"}
    Addresses = {"fourA", "fourB", "sixA"}
    FamilyOf <- MCFamilyOf
    MaxInterfaces = 2
    MaxHosts = 2
    TableInputs <- MCTables
    MetricInputs <- MCMetrics
    MinimumInputs <- MCMinimums
    TableMax = 300
INVARIANTS
    ConfigTypeOK
    NearestWins
    HostsCounted
    FailedIsWorse
CHECK_DEADLOCK FALSE
