\* One follower, one symbol, a leader that also turns short, a kill switch set or not.
CONSTANTS
    Followers = {f1}
    Symbols = {s1}
    Tradable = {s1}
    KillSwitches = {FALSE, TRUE}
    KillSwitchCloses = TRUE
    AllowShort = TRUE
    MaxSymbol = 2
    MaxOrder = 2
    MinOrder = 1
    MaxOpenSymbols = 2
    MaxTotal = 2
    Step = 1
    MinQuantity = 1
    MinNotional = 1
    MaxQuantity = 0
    DriftPercent = 0
    DriftMin = 0
    FailureCooldown = TRUE
    MaxRetries = 1
    MaxConcurrentOrders = 1
    PartialFills = TRUE
    OrdersOutliveAnswers = FALSE
    Targets <- Flat
    Positions <- LongOnly
    UserTrades = TRUE
    MaxFaults = 3
    PreserveModes = {TRUE}
    DiskMayFail = FALSE
    NoFile = NoFile
    Supported <- AllKeys
    LeaderPositions <- Sides
    UsersTradeMidRound = FALSE
    MaxLeaderMoves = 3
    LeaderEquities <- NoneOrOne
    FollowerEquities <- AnyEquity
    CopyMode = "ratio"
    FixedMargin = 1
    CopyRatio = 1
    CopyLeverage = TRUE
    FixedLeverage = 1
    MaxLeverage = 1
    LeaderLeverage = 1
SPECIFICATION SystemSpec
INVARIANTS SystemTypeOK OwnPositionsManaged EveryTradeNotified
PROPERTIES StartupPositionsUntouched SuspensionHolds OnlyOwnPositions StatusesFollowCycle SideOfTheLeader OrdersStayWithinPlan
