SPECIFICATION Spec
CONSTANTS
    Payments = {1, 2}
    Invoices = {1, 2}
    Threads = {t1, t2}
    t1 = t1
    t2 = t2
    EventLoop = EventLoop
    NoInvoice = NoInvoice
    NoPayment = NoPayment
    OrderTotal = 2
    MaxAmount = 2
CONSTRAINT SmallInstance
PROPERTIES
    VoidedPaymentUncounted
CHECK_DEADLOCK FALSE
