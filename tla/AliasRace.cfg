SPECIFICATION DirectorySpec
CONSTANTS
    alice = alice
    bob = bob
    node1 = node1
    c1 = c1
    c2 = c2
    Addresses <- MCAddresses
    Generic = {}
    NodeAliases = {node1}
    Admins = {c1, c2}
    MaxUsers = 2
    MaxFaults = 0
PROPERTY AddUserTakesNothing
CHECK_DEADLOCK FALSE
