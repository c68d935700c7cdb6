\* Two sockets of one conversation, two messages each.
SPECIFICATION Spec
CONSTANTS
    r1 = r1
    r2 = r2
    r3 = r3
    s1 = s1
    s2 = s2
    Request = {}
    Socket <- MCSocket2
    Message = {"m1", "m2"}
    KeyedMessage = {}
    Nobody = Nobody
SYMMETRY SocketPerms
INVARIANTS
    TranscriptContiguous
    ReplyFollowsQuestion
    ForgottenNeedsUnanswered
    RegistryHoldsLiveSocket
CHECK_DEADLOCK FALSE
