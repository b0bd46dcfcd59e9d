SPECIFICATION FairSpec
CONSTANTS
    PublicKey = PublicKey
    k1 = k1
    k2 = k2
    k3 = k3
    Conns = {k1, k2, k3}
    Foreign = {k3}
    Stalled = {k1}
    MAX_CONNECTIONS = 1
    MaxRequests = 2
    CounterMod = 4
INVARIANTS TypeOK PermitsConserved
PROPERTIES SlotsComeBack CallsReturn FirstRequestAnswered FirstRequestStands
CHECK_DEADLOCK FALSE
