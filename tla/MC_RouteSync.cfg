SPECIFICATION Spec
CONSTANTS
    Routes = {"fourA"}
    GatewayRoutes = {"fourA"}
    FamilyOf <- MCFamilyOf
    Original = "other"
    Changers = {c1, c2}
    MaxQueue = 2
    MaxExternal = 2
    MaxChanges = 2
    MaxCrashes = 1
    MaxEvents = 4
SYMMETRY MCSymmetry
INVARIANTS
    TypeOK
    NoGap
    Restored
    Covered
    MetricAgrees
CHECK_DEADLOCK FALSE
