CONSTANTS
    Merchants = {1, 2}
    MaxPerMerchant = 3
    Workers = {w1, w2}
    Survivor = w1
    BatchSize = 4
    MinBatch = 3
    MaxFailed = 1
SPECIFICATION CalmSpec
INVARIANTS AnchoringInv OncePerWorker
PROPERTY EventuallyAnchored
