CONSTANTS
    Events = {e1}
    NoHandler = NoHandler
    Handlers = {c1, c2}
    Window = 2
    MaxTime = 4
    \* One more send than can go wrong.
    MaxSends = 4
    MaxMishaps = 2
    MaxFaults = 1
SPECIFICATION FairSpec
INVARIANT IngressInv
PROPERTY Resolved
\* The source has nothing left to send.
CHECK_DEADLOCK FALSE
