SPECIFICATION Spec
CONSTANTS
    Orders = {o1, o2}
    Lines = {l1, l2}
    WorkOrders = {w1, w2}
    o1 = o1
    o2 = o2
    l1 = l1
    l2 = l2
    w1 = w1
    w2 = w2
    NoOrder = NoOrder
    NoLine = NoLine
    LegacyLine = l1
    Openings = {2}
    MaxQty = 2
    MaxPieces = 3
    MaxStock = 4
    MaxShipments = 2
SYMMETRY IdsAreAlike
CONSTRAINT SmallInstance
INVARIANTS
    ShippedOnce
    CostMatchesGoods
    ShipOrderTakesAll
    LineNotMadeTwice
    AllocatedWasProduced
    ShippedWithinOrdered
PROPERTIES
    ShippedLinesFrozen
CHECK_DEADLOCK FALSE
