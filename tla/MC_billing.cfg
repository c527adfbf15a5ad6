SPECIFICATION FairSpec
CONSTANTS
    Payments = {1, 2, 3}
    Invoices = {1, 2}
    Threads = {t1, t2}
    t1 = t1
    t2 = t2
    EventLoop = EventLoop
    NoInvoice = NoInvoice
    NoPayment = NoPayment
    OrderTotal = 2
    MaxAmount = 1
CONSTRAINT SmallInstance
INVARIANTS
    CashMatchesPayments
    RefundsWithinCollected
    VoidedIsReversed
PROPERTIES
    EventLoopFreed
CHECK_DEADLOCK FALSE
