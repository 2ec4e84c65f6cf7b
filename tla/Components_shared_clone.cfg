SPECIFICATION Spec
CONSTANTS
    Parts = {"git"}
    \* GitAnchor
    Manifests = {m1, m2}
    NoManifest = NoManifest
    Workers = {a, b}
    SharedClone = TRUE
    PushFaults = 1
    \* Confirmation
    Runs = {r1}
    Calendars = {c1, c2}
    MinCalendars = 1
    Upgraders = {u1}
    HeaderSources = {TRUE}
    OverlappingPasses = FALSE
    MaxTime = 2
    Resolves = 2
    OtsFaults = 1
    \* ReferenceCapture
    Symbols = {s1, s2}
    Capturers = {w1, w2}
    Kinds = {"live", "backtest", "halt"}
    RefTimes = {1, 2}
    Grace = 1
    HaltGrace = 1
    SipDelay = 3
    Close = 2
    CoverageWait = 3
    MaxInstant = 5
    BeginBy = 1
    CaptureFaults = 1
    LosesLock = TRUE
    \* FeedIngest
    Names = {n1, n2}
    Pollers = {p1, p2}
    Lookback = 2
    Sla = 0
    LastDay = 2
    \* TradeTape
    Conditions <- CodeSets
    Prices = {1, 2}
    Instants = 2
    MaxTrades = 3
    \* MarketCalendar
    LastDate = 3
    Hours = {"regular", "early"}
    Ranges <- TwoOverlappingRanges
    HoursReturn = FALSE
    MaxSyncs = 3
    MaxChanges = 2
    \* DecisionWeek
    Securities = {1, 2, 3}
    Agents = {v1, v2, v3}
    Sectors = {"s", "t"}
    Vols = {1, 2}
    Edges = {0, 2}
    Whole = 10
    TopN = 3
    GateK = 2
    RankTopM = 2
    Gain = 4
    MaxPosition = 5
    MaxSector = 6
    MinPosition = 2
    VolTarget = 7
    WeightFloor = 2
    \* PointInTime
    Subjects <- OneDocument
    Fetchers = {f1}
    SessionClose = 1
    TapeDelay = 1
    DayLength = 2
    SnapshotTimes = {1}
    FeatureTimes = {2}
    MaxRevisions = 2
    MaxClock = 3
    SilentEdits = FALSE
    \* SequentialTest
    One = 1000
    Excess <- LosingAndWinning
    MinWeek = 2
    MaxWeek = 6
    Threshold = 1400
    Cap = 500
    \* RateLimits
    Clients = {k1, k2}
    Window = 3
    WindowLimit = 2
    ServerWindow = 2
    Jitter = 1
    RequestCap = 1
    TokenCap = 3
    Minute = 2
    Costs = {2, 4}
    LimitHorizon = 3
INVARIANT
    PublishedManifest
CHECK_DEADLOCK FALSE
