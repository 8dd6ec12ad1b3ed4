\* Self-healing in both modes after crashes, late orders, failures, user trades.
CONSTANTS
    Followers = {f1}
    Symbols = {s1}
    Tradable = {s1}
    KillSwitches = {FALSE}
    KillSwitchCloses = FALSE
    AllowShort = TRUE
    MaxSymbol = 1
    MaxOrder = 1
    MinOrder = 1
    MaxOpenSymbols = 2
    MaxTotal = 2
    Step = 1
    MinQuantity = 1
    MinNotional = 1
    MaxQuantity = 0
    DriftPercent = 0
    DriftMin = 0
    FailureCooldown = TRUE
    MaxRetries = 1
    MaxConcurrentOrders = 1
    PartialFills = FALSE
    OrdersOutliveAnswers = TRUE
    Targets <- Flat
    Positions <- LongOnly
    UserTrades = TRUE
    MaxFaults = 3
    PreserveModes = {TRUE, FALSE}
    DiskMayFail = FALSE
    NoFile = NoFile
    Supported <- AllKeys
    LeaderPositions <- Sides
    UsersTradeMidRound = TRUE
    MaxLeaderMoves = 2
    LeaderEquities <- One
    FollowerEquities <- One
    CopyMode = "fixed"
    FixedMargin = 1
    CopyRatio = 1
    CopyLeverage = FALSE
    FixedLeverage = 1
    MaxLeverage = 1
    LeaderLeverage = 1
SPECIFICATION FairSystemSpec
PROPERTIES EventuallyCopied
