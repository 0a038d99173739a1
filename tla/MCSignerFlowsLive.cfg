CONSTANTS
    w1 = w1
    w2 = w2
    t1 = t1
    t2 = t2
    j1 = j1
    j2 = j2
    j3 = j3
    s1 = s1
    Workers = {w1, w2}
    Txsets = {t1}
    Jtis = {j1, j2}
    SellerJtis = {s1}
    None = None
    StoreRequired = FALSE
    VerifySubmit = FALSE
    Failures = {"crash", "disconnect", "storage", "wallet", "operator"}
SPECIFICATION FairSpec
INVARIANT SubmitBacked
PROPERTY NoWedgedRequest
