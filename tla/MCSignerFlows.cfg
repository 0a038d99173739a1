CONSTANTS
    w1 = w1
    w2 = w2
    t1 = t1
    t2 = t2
    j1 = j1
    j2 = j2
    j3 = j3
    s1 = s1
    Workers = {w1, w2}
    Txsets = {t1, t2}
    Jtis = {j1, j2, j3}
    SellerJtis = {s1}
    None = None
    StoreRequired = TRUE
    VerifySubmit = TRUE
    Failures = {"crash", "disconnect", "storage", "wallet"}
SPECIFICATION Spec
SYMMETRY Symm
INVARIANTS
    TypeOK
    RequestExclusive
    JtiSingleUse
    ProofAgreesWithEvent
PROPERTIES
    CompletedNeverReruns
    OneShotSpec
