SPECIFICATION Spec
CONSTANTS
    Orders = {o1, o2}
    o1 = o1
    o2 = o2
    NumOps = 1
    HasBom = FALSE
    MaxQty = 1
    StockLevels = {1}
    MaxInspections = 0
    MaxReopened = 0
SYMMETRY OrdersAreAlike
CONSTRAINTS
    ScrappedOnce
    ReleasedTwice
INVARIANTS
    DriftIsOneSided
CHECK_DEADLOCK FALSE
