SPECIFICATION FairSpec
CONSTANTS
    a = a
    b = b
    sync1 = sync1
    worker = worker
    None = None
    Damaged = Damaged
    NoKey = NoKey
    Accounts = {a, b}
    Passwords = {1, 2}
    WeakKdf = {b}
    Registered <- SameOrNot
    Changing = {a}
    Keys = {11, 12}
    Faulty = {"key_store"}
    SyncTasks = {worker, sync1}
INVARIANTS TypeOK RevokedPasswordIsForgotten LoginOwnsTheCache OnlyItsOwnPasswordOpens
PROPERTY RevokedVaultLocks
