CONSTANTS
    t1 = t1
    t2 = t2
    t3 = t3
    Ticket = {t1, t2, t3}
    Price <- MCPrice
    Worker = {w1, w2}
    MaxRefunds = 3
    MaxRequests = 3
    MaxCrashes = 1
    MaxFaults = 1
    None = None
SPECIFICATION FairSpec
INVARIANTS PlacesGivenBackOnce NoTicketRefundedTwice BooksFollowCharge RestStayValid
PROPERTIES TicketsFollowTable RequestsSettle
CHECK_DEADLOCK FALSE
