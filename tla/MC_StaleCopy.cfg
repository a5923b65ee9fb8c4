SPECIFICATION Spec
CONSTANTS
    Routes = {"fourA", "onlink"}
    GatewayRoutes = {"fourA"}
    FamilyOf <- MCFamilyOf
    Original = "other"
    Changers = {"callback"}
    MaxQueue = 2
    MaxExternal = 1
    MaxChanges = 1
    MaxCrashes = 0
    MaxEvents = 4
INVARIANT NoStaleCopy
CHECK_DEADLOCK FALSE
