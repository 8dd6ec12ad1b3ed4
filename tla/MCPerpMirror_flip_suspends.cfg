\* A flip that is interrupted between its two orders.
CONSTANTS
    Followers = {f1}
    Symbols = {s1}
    Tradable = {s1}
    KillSwitches = {FALSE}
    KillSwitchCloses = FALSE
    AllowShort = TRUE
    MaxSymbol = 1
    MaxOrder = 1
    MinOrder = 1
    MaxOpenSymbols = 2
    MaxTotal = 2
    Step = 1
    MinQuantity = 1
    MinNotional = 1
    MaxQuantity = 0
    DriftPercent = 0
    DriftMin = 0
    FailureCooldown = TRUE
    MaxRetries = 1
    MaxConcurrentOrders = 1
    PartialFills = FALSE
    OrdersOutliveAnswers = FALSE
    Targets <- Flat
    Positions <- LongOnly
    UserTrades = TRUE
    MaxFaults = 1
    PreserveModes = {TRUE}
    DiskMayFail = FALSE
    NoFile = NoFile
    Supported <- AllKeys
    LeaderPositions <- Sides
    UsersTradeMidRound = FALSE
    MaxLeaderMoves = 2
    LeaderEquities <- One
    FollowerEquities <- One
    CopyMode = "fixed"
    FixedMargin = 1
    CopyRatio = 1
    CopyLeverage = FALSE
    FixedLeverage = 1
    MaxLeverage = 1
    LeaderLeverage = 1
SPECIFICATION SystemSpec
PROPERTIES SuspendedOnlyByOthers
