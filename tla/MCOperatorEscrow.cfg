CONSTANTS
    n1 = n1
    buyer = buyer
    merchant = merchant
    operator = operator
    stranger = stranger
    i0 = i0
    i1 = i1
    Notes = {n1}
    Parties = {buyer, merchant, operator}
    Keys = {buyer, merchant, operator, stranger}
    Indices = {i0, i1}
    Actions = {"release", "refund"}
    Quorum = 2
    MaxProposals = 2
    MaxApprovals = 2
    MaxBundles = 2
SPECIFICATION Spec
INVARIANTS
    FundingIsReal
    PaidAsApproved
SYMMETRY MCSymmetry
CHECK_DEADLOCK FALSE
