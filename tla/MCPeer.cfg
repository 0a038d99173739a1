CONSTANTS
    c1 = c1
    c2 = c2
    c3 = c3
    e1 = e1
    e2 = e2
    s1 = s1
    Calls = {c1, c2, c3}
    Escrows = {e1, e2}
    Signers = {s1}
    Kinds = {"tx_sign_resp", "unreadable"}
    PullMax = 2
    MaxPulls = 2
    MaxRows = 2
    MaxReceipts = 2
SPECIFICATION Spec
SYMMETRY Symm
INVARIANTS
    RowAnswersOnce
    OwnAnswer
    HeardInOrder
CHECK_DEADLOCK FALSE
