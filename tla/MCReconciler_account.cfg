\* Two symbols of one account, one order at a time: chunks, partial fills, flips, lost answers, rejections.
CONSTANTS
    Followers = {f1}
    Symbols = {s1, s2}
    Tradable = {s1, s2}
    KillSwitches = {FALSE, TRUE}
    KillSwitchCloses = TRUE
    AllowShort = TRUE
    MaxSymbol = 3
    MaxOrder = 3
    MinOrder = 1
    MaxOpenSymbols = 2
    Step = 1
    MinQuantity = 1
    MinNotional = 1
    DriftPercent = 0
    FailureCooldown = TRUE
    MaxTotal = 3
    MaxQuantity = 2
    DriftMin = 0
    MaxRetries = 1
    MaxConcurrentOrders = 1
    PartialFills = TRUE
    OrdersOutliveAnswers = FALSE
    Targets <- Turning
    Positions <- Few
    UserTrades = FALSE
    MaxFaults = 2
SPECIFICATION FairSpec
INVARIANTS TypeOK ReportTruthful TradeReported
PROPERTIES NoOvershoot NeverCrossesZero NoNewRisk WithinTotal EveryCallReturns
