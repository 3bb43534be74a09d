SPECIFICATION Spec
CONSTANTS
    s1 = s1
    s2 = s2
    r1 = r1
    r2 = r2
    me = me
    nobody = nobody
    d1 = d1
    d2 = d2
    Sessions = {s1, s2}
    Rcpts = {r1, r2, me, nobody}
    Dests = {d1, d2}
    Local = {me}
    DestOf <- MCDestOf
    NoDest = NoDest
    Envelope <- MCEnvelope
    maxRetries = 2
    MaxFaults = 1
INVARIANTS
    TypeOK
    RowHasItsMail
    AcceptedNotLost
    DoneMeansHandled
    OrphanNeedsFault
    DuplicateNeedsFault
    SentOnlyAfterArrival
PROPERTIES
    KeptUntilArrived
    ImplementsRelay
