CONSTANTS
    Kids = {k1, k2}
    Families = {f1}
    Procs = {p1, p2}
    Requests = {r1, r2}
    RefreshTTL = 1
    Overlap = 2
    MaxMints = 3
    MaxTime = 2
    MaxFaults = 1
SPECIFICATION Spec
INVARIANTS SessionInv LiveTokensVerify InactiveSessionsEnd
PROPERTIES RevokedForGood
SYMMETRY Symmetry
CHECK_DEADLOCK FALSE
