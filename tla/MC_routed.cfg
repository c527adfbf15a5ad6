SPECIFICATION Spec
CONSTANTS
    Orders = {o1}
    o1 = o1
    NumOps = 2
    HasBom = FALSE
    MaxQty = 2
    StockLevels = {2}
    MaxInspections = 1
    MaxReopened = 1
SYMMETRY OrdersAreAlike
CONSTRAINTS
    ScrappedOnce
    ReleasedOnce
    ReopenedPlainly
INVARIANTS
    AllocationCoversLedger
    UninspectedCompletionIsReceived
    ShortIsUnreceived
    ClosedHoldsNothing
    ConsumptionMatchesRows
    ReceivedIsSettled
    OnHandMatchesPostings
PROPERTIES
    ConsumedRowFrozen
CHECK_DEADLOCK FALSE
