SPECIFICATION Spec
CONSTANTS
    Threads = {t1, t2}
    t1 = t1
    t2 = t2
    EventLoop = EventLoop
    Script = Script
    NoSession = NoSession
    Ordered = 2
    MaterialCost = 1
    LaborCost = 1
    UnitCost = 3
    MaxRows = 4
    MaxEntries = 2
    NoEntry = NoEntry
SYMMETRY ThreadsAreAlike
CONSTRAINT SmallInstance
INVARIANTS
    JournaledOnce
    ReceivedOnce
    AcceptIsFirst
    WipClears
PROPERTY RefinesJournal
CHECK_DEADLOCK FALSE
