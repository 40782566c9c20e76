CONSTANTS
    Ids = {d1, d2}
    Calls = {c1, c2, c3}
    NoCall = NoCall
    MaxAutoRetries = 4
    Backoffs = 4
SPECIFICATION FairSpec
INVARIANTS StatusConsistent ReplayedPublished
PROPERTIES TerminalStays PendingSettled
