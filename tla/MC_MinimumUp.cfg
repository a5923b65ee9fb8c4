SPECIFICATION Spec
CONSTANTS
    Monitors = {"fourA", "fourB", "sixA"}
    FamilyOf <- MCFamilyOf
    Total <- MCTotal
    MinimumUp = 2
    RoutesFail = TRUE
INVARIANT MinimumUpDecides
