CONSTANTS
    i1 = i1
    i2 = i2
    a1 = a1
    t1 = t1
    t2 = t2
    why1 = why1
    Blank = Blank
    Invalid = Invalid
    None = None
    Infos = {i1, i2}
    Addresses = {a1}
    Txids = {t1, t2}
    Reasons = {why1}
    Amounts = {5}
    Balances = {6, 7}
    FeeFloor = 1
    FeeBps = 1
    Denominator = 4
    MaxU64 = 7
SPECIFICATION Spec
SYMMETRY Symm
INVARIANTS
    ArbiterMatchesRecord
    SettledByOneQuorum
    FundedCoversFee
PROPERTY RecordsAreKept
CHECK_DEADLOCK FALSE
