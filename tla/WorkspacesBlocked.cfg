\* Two workspaces, an account and an invited one, four requests, two at a time.
SPECIFICATION Spec
CONSTANTS
    w1 = w1
    w2 = w2
    a = a
    b = b
    s1 = s1
    s2 = s2
    None = None
    Unborn = Unborn
    Gone = Gone
    Workspace <- MCWorkspace
    User <- MCUser
    Registered <- MCRegistered
    Slot <- MCSlot
    Grace = 1
    MaxTime = 2
    MaxRequests = 4
INVARIANTS
    FailureBlocksNoOther
CHECK_DEADLOCK FALSE
