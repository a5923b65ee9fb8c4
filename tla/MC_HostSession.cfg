SPECIFICATION FairSpec
CONSTANTS
    Monitors = {"fourA", "fourB", "sixA", "sixB"}
    FamilyOf <- MCFamilyOf
    Total <- MCTotal
    MinimumUp = 2
    RoutesFail = TRUE
INVARIANTS
    TypeOK
    CountAgrees
    CountInRange
    GatewayAgrees
PROPERTIES
    DownIsQuiet
    LinkDownEnds
