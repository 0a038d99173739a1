CONSTANTS
    g1 = g1
    g2 = g2
    i1 = i1
    i2 = i2
    s1 = s1
    s2 = s2
    t1 = t1
    t2 = t2
    None = None
    Guards = {g1, g2}
    SignerIds = {i1, i2}
    Quorum = 2
    Actions = {"release", "refund"}
    Snapshots = {s1, s2}
    Policy <- MCPolicy
    Txsets = {t1, t2}
    Transfer <- MCTransfer
    Overrides = {None, 0, 1, 2, 3}
    First = s1
    MaxEpoch = 2
    MaxAdmissions = 4
    MaxProposals = 1
    MaxTokens = 1
SPECIFICATION Spec
INVARIANTS
    SignedAsAdmitted
    SignedAsProposed
    PaysUnderWorkflowSnapshot
    DraftIsValid
SYMMETRY MCSymmetry
CHECK_DEADLOCK FALSE
