SPECIFICATION Spec
CONSTANTS
    Routes = {"fourA"}
    GatewayRoutes = {"fourA"}
    FamilyOf <- MCFamilyOf
    Original = "good"
    Changers = {"callback"}
    MaxQueue = 2
    MaxExternal = 0
    MaxChanges = 1
    MaxCrashes = 0
    MaxEvents = 4
INVARIANT RestoresOriginal
CHECK_DEADLOCK FALSE
