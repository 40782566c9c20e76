CONSTANTS
    Clients = {c1, c2}
    Triggers = {g1, g2}
    DisplayMin = 0
    MaxWork = 2
    MaxCrowd = 3
    MaxLoad = 4
    MaxRestarts = 1
    MaxFaults = 1
SPECIFICATION FairSpec
INVARIANTS TaskInv StampsInOrder
PROPERTIES TakenOnlyFromQueue SignalsAnswered
CHECK_DEADLOCK FALSE
