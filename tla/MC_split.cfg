SPECIFICATION Spec
CONSTANTS
    Orders = {o1, o2}
    o1 = o1
    o2 = o2
    NumOps = 2
    HasBom = FALSE
    MaxQty = 3
    StockLevels = {3}
    MaxInspections = 0
    MaxReopened = 0
SYMMETRY OrdersAreAlike
CONSTRAINTS
    StillPlanned
    OneOnTheFloor
PROPERTIES
    SplitKeepsBacking
CHECK_DEADLOCK FALSE
