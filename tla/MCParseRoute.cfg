CONSTANTS
    Merchants = {m1}
    Numbers = {n1, n2}
    Workers = {w1, w2}
    BatchCount = 2
    MaxEvents = 3
SPECIFICATION FairSpec
INVARIANT RoutingInv
PROPERTY HandlingEnds
