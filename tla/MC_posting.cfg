SPECIFICATION Spec
CONSTANTS
    t1 = t1
    t2 = t2
    a1 = a1
    Sessions = {t1, t2, a1}
    Inline = {a1}
    Kind <- AllDirect
    Rows = {r1, r2}
    r1 = r1
    r2 = r2
    Opening = 1
    Deltas <- OneUpOrDown
    MaxSteps = 2
    Nobody = Nobody
INVARIANTS
    StuckOnlyBehindFailure
PROPERTIES
    RefinesBook
CHECK_DEADLOCK FALSE
