CONSTANTS
    Receipts = {r1}
    Statuses = {"completed", "voided"}
    Pods = {p1, p2}
    Clerks = {c1, c2}
    ConsumerBatch = 2
    MaxManual = 1
    MaxFaults = 1
SPECIFICATION FairSpec
INVARIANTS  CountedOnceUnlessFaulty
PROPERTY EveryLineCounted
