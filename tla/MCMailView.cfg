SPECIFICATION ViewSpec
CONSTANTS
    inbox = inbox
    sent = sent
    a = a
    b = b
    t1 = t1
    t2 = t2
    Names <- MCTwoNames
    Protected <- MCTwoNames
    Mails <- MCMails
    Threads <- MCThreads
    Sets <- MCAll
    MaxBox = 2
    MaxUid = 2
    MaxFaults = 0
    MaxLooks = 1
INVARIANTS
    SequenceIsUid
    NothingArrivesBehind
    ListingIsComplete
SYMMETRY Symmetry
CONSTRAINT StillLooking
CHECK_DEADLOCK FALSE
