\* API_REFERENCE.md:106 against the code: a request with a key and one without.
SPECIFICATION FairSpec
CONSTANTS
    h1 = h1
    h2 = h2
    h3 = h3
    Approval = {"p1"}
    Request <- MCRequest2
    KeyedRequest <- MCKeyed1
    MaxTries = 1
PROPERTIES
    ResolvedIsFinal
CHECK_DEADLOCK FALSE
