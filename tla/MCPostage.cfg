SPECIFICATION PostFairSpec
CONSTANTS
    s1 = s1
    r1 = r1
    r2 = r2
    d1 = d1
    Sessions = {s1}
    Rcpts = {r1, r2}
    Dests = {d1}
    Local = {}
    DestOf <- SameNodeDestOf
    NoDest = NoDest
    Envelope <- SameNodeEnvelope
    maxRetries = 1
    MaxFaults = 1
    MaxTime = 5
INVARIANTS
    PostTypeOK
PROPERTIES
    EventualFate
    OnlyExpiredStay
    StuckForGood
