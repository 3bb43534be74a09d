SPECIFICATION Spec
CONSTANTS
    alice = alice
    bob = bob
    node1 = node1
    node2 = node2
    p1 = p1
    p2 = p2
    c1 = c1
    c2 = c2
    Addresses = {alice, bob}
    Generic = {}
    NodeAliases = {node1, node2}
    Admins = {c1, c2}
    MaxUsers = 2
    MaxFaults = 1
    Peers = {p1, p2}
    RcptsOf <- MCRcptsOf
    Stamped <- MCStamped
    MaxSends = 2
INVARIANTS
    TypeOK
    AcceptedMeansStored
    OnceEach
    OneNodeOwner
    OneTarget
CHECK_DEADLOCK FALSE
