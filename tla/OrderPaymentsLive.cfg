CONSTANTS
    o1 = o1
    o2 = o2
    t1 = t1
    t2 = t2
    t3 = t3
    p1 = p1
    p2 = p2
    Order = {o1, o2}
    Ticket = {t1, t2, t3}
    Pool = {p1}
    OrderOf <- MCOrderOf
    ProviderOf <- MCBothProviders
    PoolCapacity <- MCPoolCapacity
    EventCapacity = 2
    ProviderEvent = {e1, e2}
    Worker = {w1, w2}
    MaxCrashes = 0
    None = None
SPECIFICATION FairSpec
PROPERTIES
    RecordedIsFinished
    OrdersSettle
CHECK_DEADLOCK FALSE
