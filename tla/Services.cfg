CONSTANTS
    \* cancellation
    o1 = o1
    o2 = o2
    Buyer = {o1, o2}
    Early = {o2}
    Quantity <- MCQuantity
    BuyerProvider <- MCProvider
    Places <- MCPlaces
    Staff = {s1, s2}
    MaxLost = 1
    Nobody = Nobody
    \* e-mail
    Mails = 3
    MAX_ATTEMPTS = 2
    BatchLimit = 2
    MaxMailFaults = 1
    \* calendar
    Desk = {d1, d2}
    MaxTasks = 2
    MaxPlaces = 1
    MAX_TRIES = 2
    MaxCalendarFaults = 1
    NoEntry = NoEntry
    \* gate
    Guest = {g1}
    Scanner = {c1, c2}
    MaxQueue = 2
    MaxTroubles = 1
    MaxFetches = 1
    NoGuest = NoGuest
    \* pools
    Pools = 3
    Capacity = 1
    Horizon = 2
    Shopper = {b1}
    MaxOverrides = 1
    NoDate = NoDate
    \* layouts
    MAX_OBJECTS = 2
    MAX_SEATS_TOTAL = 3
    MAX_SEATS_PER_ORDER = 2
    max_tickets_per_order = 1
    PoolPrices = {2550, 9999}
    MAX_ZONES = 2
    ZONE_PERCENT = {80, 100, 120}
    Documents <- MCDocuments
    Editor = {w1, w2}
    Concert = {e1, e2}
    Attached = {e1, e2}
    Drafts <- MCDrafts
    FirstDraft <- Large
    Halls = {h1, h2}
    MaxVersions = 3
    NoMap = NoMap
    \* halls
    NORTH_WALL_ID = "north"
    HIDDEN_WALLS = {"street"}
    HIDDEN_OVERHEAD = {"booth"}
    SHOWN_ENTRANCES = {"door"}
    Exports <- MCExports
    Posts <- MCPosts
    MAX_CUSTOM = 1
    Owner = {u1, u2}
    RoomId = {r1, r2}
    FirstRoom = r1
    MaxRoomSaves = 2
    NoRoom = NoRoom
    \* editing
    p1 = p1
    p2 = p2
    PoolId = {p1, p2}
    PoolForms <- MCForms
    ConcertDays = {1, 2}
    Times <- MCTimes
    CLUB_MAX_CAPACITY = 2
    Clerk = {k1, k2}
    MaxSaves = 2
    MaxSales = 1
    Never = Never
    NoPool = NoPool
    NoBuyer = NoBuyer
    Meanwhile = Meanwhile
SPECIFICATION ServicesSpec
INVARIANTS
    ServicesTypeOK
    PlacesFollowOrders DecisionTellsMoney EveryBuyerTold
    OneCopy
    CalendarShowsEvent
    NoEntryForgotten
    PoolsTakeTurns
    AcceptedLayoutsSell
    MapsFollowLayout
    HallKeepsWishes
    PoolsStayApart BuyersKnowDate
PROPERTIES
    KeptMeansKept RowWritesMeant SecondScanCaught ClosedIsFinal SavesSeen
    NothingWaitsForever
CHECK_DEADLOCK FALSE
