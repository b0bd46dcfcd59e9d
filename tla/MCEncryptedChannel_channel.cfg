SPECIFICATION Spec
CONSTANTS
    s1 = s1
    s2 = s2
    Damaged = Damaged
    Secrets = {s1}
    CounterMod = 4
    MaxMessages = 3
INVARIANTS TypeOK NoncesUnique AcceptedInOrder
PROPERTY ImplementsLink
CHECK_DEADLOCK FALSE
