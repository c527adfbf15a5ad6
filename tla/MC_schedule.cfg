SPECIFICATION Spec
CONSTANTS
    Printers = {p1}
    Resources = {r1}
    NoMachine = NoMachine
    Windows = {w1, w2}
    w1 = w1
    w2 = w2
    p1 = p1
    r1 = r1
    Horizon = 3
    Orders = {x1, x2}
    Operations = {cut, sew, pack}
    x1 = x1
    x2 = x2
    cut = cut
    sew = sew
    pack = pack
    Route <- TwoRoutes
    Duration = 1
    Threads = {t1}
    t1 = t1
    NoRequest = NoRequest
SYMMETRY IdsAreAlike
CONSTRAINT SmallInstance
INVARIANTS
    MaintenanceHasWindow
    BookingsDisjoint
    RoutingOrderKept
    SuggestedSlotIsEarliest
CHECK_DEADLOCK FALSE
