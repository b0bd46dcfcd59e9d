SPECIFICATION Spec
CONSTANTS
    c1 = c1
    c2 = c2
    tty1 = tty1
    tty2 = tty2
    sync1 = sync1
    worker = worker
    Unknown = Unknown
    NoPin = NoPin
    NoSession = NoSession
    Clients = {c1, c2}
    Scopes = {tty1, tty2}
    ScopeOf <- TwoScopes
    Pins = {1}
    PIN_MAX_ATTEMPTS = 1
    ApprovalTicks = 1
    AutoLockTicks = 1
    MaxFailures = 0
    BackoffDelay <- Delays
    Methods = {"read", "lock", "unlock"}
    Mortal = {}
    SyncTasks = {worker}
INVARIANT LockedVaultHasNoGrants
