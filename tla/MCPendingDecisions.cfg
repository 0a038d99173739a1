CONSTANTS
    o1 = o1
    o2 = o2
    r1 = r1
    r2 = r2
    j1 = j1
    j2 = j2
    t1 = t1
    Operators = {o1, o2}
    Rows = {r1, r2}
    Txsets = {t1}
    Txset <- MCTxset
    Jtis = {j1, j2}
    JtiTxset <- MCJtiTxset
    MaxOutSeq = 3
SPECIFICATION Spec
SYMMETRY Symm
INVARIANTS
    SeqCarriesOneAnswer
    OneApprovalPerTxset
    DecidedIsAnswered
CHECK_DEADLOCK FALSE
