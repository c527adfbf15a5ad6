SPECIFICATION Spec
CONSTANTS
    Orders = {o1, o2}
    o1 = o1
    o2 = o2
    NumOps = 0
    HasBom = TRUE
    MaxQty = 2
    StockLevels = {2}
    MaxInspections = 2
    MaxReopened = 0
SYMMETRY OrdersAreAlike
INVARIANTS
    TypeOK
CHECK_DEADLOCK FALSE
