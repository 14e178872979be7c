SPECIFICATION FairSpec
CONSTANTS
    d1 = d1
    d2 = d2
    i1 = i1
    i2 = i2
    p1 = p1
    p2 = p2
    None = None
    NoRow = NoRow
    Demo = {d1, d2}
    Image = {i1, i2}
    Port = {p1, p2}
    DeliveryId <- MCDeliveryId
    Delivery <- TwoDemos
    Project <- Refusing
    Lifetime = 1
    MaxTime = 0
    MaxRequests = 4
    Redelivery = FALSE
    StoreFaults = FALSE
    MaxDisturbances = 1
PROPERTIES
    NoLiveTeardown
    WithdrawalCompletes
