\* Three attempts on two keys; the pool has fewer connections than attempts.
SPECIFICATION FairSpec
CONSTANTS
    a1 = a1
    a2 = a2
    a3 = a3
    Attempt <- MCAttempt
    Turn = {"t1"}
    ActionType = {"issue_refund", "cancel_order"}
    Params = {"o1"}
    PoolSize = 2
    Nobody = Nobody
INVARIANTS
    RowIsLock
    SecondExecutionNeedsFailure
    SuccessIsDurable
PROPERTIES
    ImplementsLock
    EveryAttemptEnds
CHECK_DEADLOCK FALSE
CONSTRAINT
    FirstAttemptRefunds
