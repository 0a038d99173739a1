CONSTANTS
    m1 = m1
    m2 = m2
    m3 = m3
    i1 = i1
    i2 = i2
    p1 = p1
    p2 = p2
    Messages = {m1, m2, m3}
    Inboxes = {i1, i2}
    Inbox <- MCInbox
    CharLen <- MCCharLen
    ByteLen <- MCByteLen
    Pollers = {p1, p2}
    PollerInbox <- MCPollerInbox
    MaxRowsGlobal = 2
    MaxPerInbox = 2
    MaxBytesPerInbox = 3
    PullMax = 2
    LeaseTime = 1
    Ttls = {3}
    MaxTtl = 2
    Lag = 1
    MaxNow = 2
    MaxPushes = 3
    MaxLeases = 5
    MaxRestarts = 1
SPECIFICATION FairSpec
INVARIANTS
    TypeOK
    LeaseExclusive
PROPERTIES
    RelayPromise
    MessageMoves
