\* Three requests of one conversation that retry one keyed message.
SPECIFICATION FairSpec
CONSTANTS
    r1 = r1
    r2 = r2
    r3 = r3
    s1 = s1
    s2 = s2
    Request <- MCRequest3
    Socket = {}
    Message = {"m1"}
    KeyedMessage = {"m1"}
    Nobody = Nobody
INVARIANTS
    SuccessHasTwoTurns
    SecondRunNeedsFailure
    CachedAnswerIsStored
PROPERTIES
    EveryRequestEnds
    KeyIsFreedInTheEnd
    ImplementsKey
CHECK_DEADLOCK FALSE
