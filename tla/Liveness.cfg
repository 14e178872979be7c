SPECIFICATION HealthFairSpec
CONSTANTS
    d1 = d1
    d2 = d2
    i1 = i1
    i2 = i2
    p1 = p1
    p2 = p2
    None = None
    NoRow = NoRow
    Demo = {d1}
    Image = {i1, i2}
    Port = {p1, p2}
    DeliveryId <- MCDeliveryId
    Delivery <- OneDemo
    Project <- EveryConfig
    Lifetime = 1
    MaxTime = 1
    MaxRequests = 3
    Redelivery = FALSE
    StoreFaults = FALSE
    MaxDisturbances = 2
PROPERTIES
    StatusRecovers
    Convergence
    StopCompletes
