CONSTANTS
    g1 = g1
    g2 = g2
    sig = sig
    iss = iss
    NoFile = NoFile
    GuardHosts = {g1, g2}
    Local = sig
    Issuer = iss
    Epochs = {1, 2}
    MaxKeys <- MCMaxKeys
    MaxBundles = 2
SPECIFICATION TrustSpec
INVARIANTS
    RunsUnderBothGuards
    StartsFromOneBundle
CHECK_DEADLOCK FALSE
