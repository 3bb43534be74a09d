SPECIFICATION ImapSpec
CONSTANTS
    inbox = inbox
    trash = trash
    a = a
    b = b
    c = c
    t1 = t1
    t2 = t2
    Names <- MCNames
    Protected <- MCProtected
    Mails <- MCThreeMails
    Threads <- MCOneThread
    Sets <- MCSecond
    MaxBox = 2
    MaxUid = 2
    MaxFaults = 0
    MaxCommands = 1
INVARIANTS
    CopyFlagsOnlyTheCopy

CHECK_DEADLOCK FALSE
