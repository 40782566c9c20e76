SPECIFICATION MCSpec
CONSTANTS
    Callers = {c1, c2}
    Threshold = 2
    IPThreshold = 3
    RateLimitRPM = 1
    MaxCalls = 4
    MaxErrors = 1
    Tenants = {t1, t2}
    KeyRequests = {r1, r2}
    Grants <- MCGrants
    MaxKeys = 3
    Hosts = {h1, h2}
    TouchedKeys = {k1, k2}
    MaxTouches = 2
    Requests = {r1, r2, r3}
    States = {s1, s2}
    MaxPairs = 4
    MaxFaults = 1
    Challenges = {k1, k2}
    Wallets = {w1, w2}
    Replicas = {h1, h2}
    MaxPolls = 2
    Events = {e1, e2}
    Clients = {c1, c2}
    MaxAnchors = 2
    MaxTokens = 2
    Names <- MCNames
    Owners = {t1, t2}
    MaxRegs = 3
    Shops = {1, 2}
    MaxDocs = 3
    MaxDate = 2
    fetchLimit = 2
    MaxSnags = 1
    ChainHashes = {a, b, c, d, e}
    MaxLeaves = 5
    Payers = {c1, c2}
    MaxInt = 3
    MaxPays = 3
    Suppliers = {d}
    PONumbers = {a, b}
    Buyers = {c1, c2}
    MaxUpdates = 4
    Receipts = {d1}
    Clerks = {c1, c2}
    Engines = {h1, h2}
    MaxExecutions = 3
    MaxAdvances = 1
    Operators = {r1, r2}
    Codes = {a, b}
    Vendors = {d}
    MaxFlows = 2
    MaxInserts = 2
    OpenFoodFacts = off
    UPCItemDB = upc
    Others = {d}
    Items <- MCItems
    Category <- MCCategory
    Promotions <- MCPromotions
    PriceRows <- MCPriceRows
    Quantities = {2, 10}
    Rates = {1}
    Scale = 4
    Fine = 10
    MaxPromos = 3
    MaxLines = 2
    Cashiers = {c1}
    Managers = {c2}
    NoOne = NoOne
    ScreenedSales <- MCSales
    ScreenedEvents <- MCEvents
    Parameter <- MCParameter
    DayLen = 5
    Hours <- MCHours
    Tolerance = 1
    Window = 1
    ScreenKinds = {"dead_count"}
    RowRules = {"refund_no_receipt", "manager_override_frequency"}
    MaxLog = 1
    MaxSales = 2
    MaxEvaluations = 1
    MaxEntries = 1
    MaxStumbles = 2
    ListedRows = {1, 2, 3, 4}
    DefaultPage = 1
    MaxPage = 2
    Asks = {0, 2, 3}
    MaxAdded = 1
    MaxLeft = 1
    Objects <- MCObjects
    Sendable <- MCSendable
    LastDay = 2
    MaxSent = 2
    SourceIds = {"", "a"}
    Limits = {1, 2}
    SequenceIds = {0, 1, 2}
    IdempotencyTTL = 1
    reloadEvery = 1
    LastMinute = 3
    MaxGuarded = 3
    Readers = {c1, c2}
    Whats = {a}
    TTL = 1
    LastTime = 4
    MaxChanges = 1
    MaxReads = 3
SYMMETRY MCSymmetry
INVARIANTS CredentialsSound LogInSound ProtocolSound BooksSound NothingLeftBehind CatalogSound ScreeningSound AnswersSound
\* The components stop when their bounds are spent.
CHECK_DEADLOCK FALSE
