SPECIFICATION MCFairSpec
CONSTANTS
    u1 = u1
    u2 = u2
    None = None
    Unit = {u1, u2}
    Config = {c1, c2}
    c1 = c1
    c2 = c2
    Secret = {s1, s2}
    s1 = s1
    s2 = s2
    NodePort = {p1, p2}
    p1 = p1
    p2 = p2
    Hosts = {h1, h2}
    h1 = h1
    h2 = h2
    MaxDisturbances = 2
INVARIANTS
    TypeOK
    RemovalCleansUp
    ServiceIsOwned
PROPERTIES
    RouteOnlyCorrected
    RouteFollows
    RunsWhatIsWanted
    ActiveIsHonest
ACTION_CONSTRAINT FirstFirst
\* When the last unit is gone nothing is left to happen.
CHECK_DEADLOCK FALSE
