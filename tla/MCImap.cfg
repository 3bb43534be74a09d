SPECIFICATION ImapSpec
CONSTANTS
    inbox = inbox
    trash = trash
    a = a
    b = b
    c = c
    t1 = t1
    t2 = t2
    Names <- MCNames
    Protected <- MCProtected
    Mails <- MCMails
    Threads <- MCThreads
    Sets <- MCAll
    MaxBox = 2
    MaxUid = 2
    MaxFaults = 1
    MaxCommands = 2
INVARIANTS
    ImapTypeOK
    
PROPERTIES
    ImplementsMailStore
SYMMETRY Symmetry
CONSTRAINT FewFaults
CHECK_DEADLOCK FALSE
