SPECIFICATION Spec
CONSTANTS
    caller = caller
    other = other
    sync = sync
    locker = locker
    Callers = {caller, other}
    Requests <- AnyAndWrite
    Syncs = {sync}
PROPERTY IdleVaultAlwaysLocks
CHECK_DEADLOCK FALSE
