SPECIFICATION Spec
CONSTANTS
    h1 = h1
    h2 = h2
    n1 = n1
    r1 = r1
    x = x
    y = y
    None = None
    Repository = {r1}
    Nonce = {n1}
    Content = {x, y}
    Message <- OneNonce
    Handler = {h1, h2}
    MaxAge = 1
    RateLimit = 2
    Window = 3
    MaxDelay = 1
    MaxTime = 4
    MaxRequests = 4
    MaxFaults = 1
SYMMETRY Handlers
INVARIANTS
    TypeOK
    FirstUseRemembered
    NonceBinds
    RateKept
    AuthInv
PROPERTIES
    RetriesAdmitted
    RefusedOnlyWhenBusy
\* Time and requests are bounded: the system goes on where the model stops.
CHECK_DEADLOCK FALSE
