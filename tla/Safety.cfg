SPECIFICATION Spec
CONSTANTS
    d1 = d1
    d2 = d2
    i1 = i1
    i2 = i2
    p1 = p1
    p2 = p2
    None = None
    NoRow = NoRow
    Demo = {d1}
    Image = {i1, i2}
    Port = {p1, p2}
    DeliveryId <- MCDeliveryId
    Delivery <- OneDemo
    Project <- EveryConfig
    Lifetime = 1
    MaxTime = 2
    MaxRequests = 4
    Redelivery = TRUE
    StoreFaults = TRUE
    MaxDisturbances = 2
INVARIANTS
    TypeOK
    NoOrphans
    RefsResolve
    OutcomeIsTrue
    Inv
    ReadyIsServed
    ReadyInv
PROPERTIES
    NoRollback
    ImplementsLifecycle
\* A database error may end the loop's task for good: the system really stops.
CHECK_DEADLOCK FALSE
