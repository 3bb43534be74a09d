SPECIFICATION ViewSpec
CONSTANTS
    inbox = inbox
    sent = sent
    a = a
    b = b
    t1 = t1
    t2 = t2
    Names <- MCNames
    Protected <- MCNames
    Mails <- MCMails
    Threads <- MCThreads
    Sets <- MCSets
    MaxBox = 1
    MaxUid = 2
    MaxFaults = 0
    MaxLooks = 2
INVARIANT UidNamesOneMail
CHECK_DEADLOCK FALSE
