SPECIFICATION Spec
CONSTANTS
    caller = caller
    other = other
    sync = sync
    locker = locker
    Callers = {caller, other}
    Requests <- AnyAndWrite
    Syncs = {sync}
INVARIANTS TypeOK WaitingHoldsNothing CheckedStaysTrue
PROPERTIES IdleVaultLocks EveryRequestAnswered
CHECK_DEADLOCK FALSE
