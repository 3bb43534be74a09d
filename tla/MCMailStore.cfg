SPECIFICATION Spec
CONSTANTS
    inbox = inbox
    trash = trash
    a = a
    b = b
    t1 = t1
    t2 = t2
    Names <- MCNames
    Protected <- MCProtected
    Mails <- MCMails
    Threads <- MCThreads
    MaxBox = 2
    MaxUid = 2
    MaxFaults = 1
INVARIANTS
    TypeOK
    UidBelowNext
    QuiescentAccepts
    AcknowledgedKept
    RefusedNotStored
    OneCopy
PROPERTIES
    ImplementsMailboxes
SYMMETRY Symmetry
CHECK_DEADLOCK FALSE
