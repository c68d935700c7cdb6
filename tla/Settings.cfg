\* Two integrations, providers and agents; five requests, two at a time.
SPECIFICATION Spec
CONSTANTS
    i1 = i1
    i2 = i2
    p1 = p1
    p2 = p2
    s1 = s1
    s2 = s2
    k1 = k1
    k2 = k2
    a1 = a1
    a2 = a2
    m1 = m1
    Integration = {i1, i2}
    Provider = {p1, p2}
    DefaultProvider = p1
    Agent = {a1, a2}
    Model = {m1}
    Secret = {k1, k2}
    Slot = {s1, s2}
    MaxRequests = 5
    None = None
    Gone = Gone
SYMMETRY Perms
INVARIANTS TwoPrimariesNeedOverlap VerifiedMeansChecked ActiveKeyKept
CHECK_DEADLOCK FALSE
