CONSTANTS
    p1 = p1
    p2 = p2
    h1 = h1
    h2 = h2
    i1 = i1
    i2 = i2
    t1 = t1
    t2 = t2
    j1 = j1
    j2 = j2
    q1 = q1
    q2 = q2
    q3 = q3
    None = None
    Participants = {p1}
    StepStates = {"make_collected"}
    Seqs = {1}
    Payloads = {h1, h2}
    Items = {i1}
    ItemState <- MCItemState
    DeadLetterAfter = 2
    MaxAttempts = 3
    Txsets = {t1}
    Jtis = {j1}
    ReqIds = {q1, q2}
    SentThreshold = 0
    PendingThreshold = 0
    DeadThreshold = 0
    MaxReports = 1
SPECIFICATION ReportsSpec
SYMMETRY Symm
INVARIANTS
    DeadLetterOnRecord
    ReportsAreHonest
PROPERTY StepsStand
CHECK_DEADLOCK FALSE
