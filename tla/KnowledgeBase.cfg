\* One upload, a retry, a deletion; each job started up to twice.
SPECIFICATION FairSpec
CONSTANTS
    u = u
    q1 = q1
    q2 = q2
    d1 = d1
    Upload = u
    Retry <- MCRetry1
    Deleter <- MCDeleter1
    MaxTries = 2
INVARIANTS
    ReadyIsSearchable
    DeletedStaysDeleted
PROPERTIES
    ProcessingEnds
CHECK_DEADLOCK FALSE
