CONSTANTS
    m1 = m1
    m2 = m2
    h1 = h1
    h2 = h2
    h3 = h3
    w1 = w1
    w2 = w2
    w3 = w3
    Merchants = {m1, m2}
    Hashes = {h1}
    Workers = {w1}
    LockKeys = {1, 2}
    hashtext <- OwnLocks
    NoWorker = NoWorker
    Precision = 1
    BatchCount = 2
    MaxEvents = 1
    Times = {1}
SPECIFICATION CalmSpec
PROPERTY Redelivered
