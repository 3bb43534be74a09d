SPECIFICATION Spec
CONSTANTS
    s1 = s1
    r1 = r1
    r2 = r2
    d1 = d1
    c1 = c1
    Sessions = {s1}
    Rcpts = {r2}
    Dests = {d1}
    Local = {}
    DestOf <- MCDestOf
    NoDest = NoDest
    Envelope <- MCEnvelope
    maxRetries = 1
    MaxFaults = 1
    Addresses = {r1}
    Generic = {}
    NodeAliases = {r2}
    Admins = {c1}
    MaxUsers = 1
    MaxReceiverFaults = 1
    MaxLines = 3
INVARIANTS
    TypeOK
    ConfirmedMeansStored
    NeverLost
    SentMeansStored
    CopiesNeedFaults
PROPERTIES
    ImplementsRelay
CHECK_DEADLOCK FALSE
