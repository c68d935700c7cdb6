\* Three requests with keys, of one or of both clicks on an approval; a job may be
\* started once.
SPECIFICATION Spec
CONSTANTS
    h1 = h1
    h2 = h2
    h3 = h3
    Approval = {"p1"}
    Request <- MCRequest3
    KeyedRequest <- MCRequest3
    MaxTries = 1
SYMMETRY RequestPerms
INVARIANTS
    SecondDecisionNeedsOverlap
    SuccessIsQueued
PROPERTIES
    ImplementsKey
CHECK_DEADLOCK FALSE
