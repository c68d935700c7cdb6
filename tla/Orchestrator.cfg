\* Two turns of a thread, one after the other or overlapping, and what they
\* remember of the customer.
SPECIFICATION MemorySpec
CONSTANTS
    r1 = r1
    r2 = r2
    Run <- MCRun2
    CallLists <- MCCallLists
    MAX_MESSAGES = 2
    MaxRounds = 2
    Fact = {"f"}
INVARIANTS
    NoOrphanAnswer
    UnansweredNeedsCutRun
    QuestionLostByLongTurn
    RiskyOnlyBehindAnother
    LostFactNeedsOverlap
CHECK_DEADLOCK FALSE
