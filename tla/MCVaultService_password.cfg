SPECIFICATION Spec
CONSTANTS
    c1 = c1
    c2 = c2
    tty1 = tty1
    tty2 = tty2
    sync1 = sync1
    worker = worker
    Unknown = Unknown
    NoPin = NoPin
    NoSession = NoSession
    Clients = {c1, c2}
    Scopes = {tty1, tty2}
    ScopeOf <- UnknownScope
    Pins = {1, 2}
    PIN_MAX_ATTEMPTS = 2
    ApprovalTicks = 1
    AutoLockTicks = 1
    MaxFailures = 1
    BackoffDelay <- EarlyDelays
    Methods = {"login", "authorize", "logout", "set_pin", "sync"}
    Mortal = {}
    SyncTasks = {worker}
INVARIANTS KeysOnlyWhileUnlocked NoExhaustedSession
PROPERTY ImplementsMachine
