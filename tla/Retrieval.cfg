\* Two chunks of the workspace and two of another; three have an id.
SPECIFICATION RetrievalSpec
CONSTANTS
    c1 = c1
    c2 = c2
    c3 = c3
    c4 = c4
    Chunk = {c1, c2, c3, c4}
    Own = {c1, c2}
    Identified = {c1, c2, c3}
    TopK = 3
    Unit = 238266
    Score = {0, 1, 2}
    Threshold = 1
INVARIANTS FusionAgrees VerdictSeesAll
CHECK_DEADLOCK FALSE
