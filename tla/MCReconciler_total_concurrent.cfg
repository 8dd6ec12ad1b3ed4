\* Two symbols of one account, two calls at a time.
CONSTANTS
    Followers = {f1}
    Symbols = {s1, s2}
    Tradable = {s1, s2}
    KillSwitches = {FALSE}
    KillSwitchCloses = FALSE
    AllowShort = TRUE
    MaxSymbol = 3
    MaxOrder = 3
    MinOrder = 1
    MaxOpenSymbols = 2
    Step = 1
    MinQuantity = 1
    MinNotional = 1
    DriftPercent = 0
    FailureCooldown = TRUE
    MaxTotal = 3
    MaxQuantity = 0
    DriftMin = 0
    MaxRetries = 1
    MaxConcurrentOrders = 2
    PartialFills = FALSE
    OrdersOutliveAnswers = FALSE
    Targets <- Totals
    Positions <- Flat
    UserTrades = FALSE
    MaxFaults = 0
SPECIFICATION Spec
PROPERTIES WithinTotal
