CONSTANTS
    Quantity <- MCQuantity
    Seat = {s1, s2, s3}
    Layouts <- MCLayouts
    Order = {o1, o2}
    Worker = {w1, w2}
    PoolCapacity = 2
    None = None
SPECIFICATION Spec
SYMMETRY Symmetry
INVARIANTS
    TypeOK
    OwnersStand
    CapacityIsSellable
PROPERTIES
    NoSeatLost
    ImplementsOwnership
CHECK_DEADLOCK FALSE
