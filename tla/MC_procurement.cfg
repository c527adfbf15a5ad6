SPECIFICATION Spec
CONSTANTS
    Orders = {p1, p2}
    Lines = {l1, l2}
    Items = {steel, resin}
    Plans = {k1, k2}
    p1 = p1
    p2 = p2
    l1 = l1
    l2 = l2
    k1 = k1
    k2 = k2
    steel = steel
    resin = resin
    NoOrder = NoOrder
    Costs = {0, 1, 2}
    Freights = {0, 100}
    MaxQty = 2
    SafetyStock = 1
    MinOrder = 2
    StandardCost = 1
    MaxDemand = 1
    MaxPlan = 4
SYMMETRY IdsAreAlike
CONSTRAINT SmallInstance
INVARIANTS
    ReceivedWithinOrdered
    ReceivedIsFull
    StockIsReceived
    FreightOnce
    PlannedOnce
CHECK_DEADLOCK FALSE
