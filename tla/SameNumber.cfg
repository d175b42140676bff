CONSTANTS
    Quantity <- MCQuantity
    Seat = {s1, s2, s3}
    Layouts <- MCLayouts
    Order = {o1}
    Worker = {w1, w2}
    PoolCapacity = 2
    None = None
SPECIFICATION Spec
SYMMETRY Symmetry
INVARIANT SameNumber
CHECK_DEADLOCK FALSE
