CONSTANTS
    c1 = c1
    c2 = c2
    Nil = Nil
    Callers = {c1, c2}
    Escrows = {1, 3}
    Ports <- TwoPorts
    OpenAttempts = 2
    FailThreshold = 2
    OpenSecs = 1
    MaxEntries = 1
    MaxAge = 1
    MaxNow = 1
SPECIFICATION FairSpec
INVARIANTS
    TypeOK
    BreakerGuardsEndpoint
    MutexKeepsWallet
PROPERTY CallsReturn
