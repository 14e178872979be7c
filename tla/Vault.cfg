SPECIFICATION FairSpec
CONSTANTS
    c1 = c1
    c2 = c2
    None = None
    Caller = {c1, c2}
    MaxLookups = 3
    MaxFaults = 2
INVARIANTS
    TypeOK
    PoolDiscipline
    NoRedundantLogin
    NeverReplayed
    OneFaultMasked
    VaultInv
    MaskInv
PROPERTIES
    LookupEnds
\* The lookups are bounded, and a closed client makes no more of them.
CHECK_DEADLOCK FALSE
