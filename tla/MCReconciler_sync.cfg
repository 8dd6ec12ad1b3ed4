\* One symbol, two targets in any order, then one for ever; late orders, user trades, a minimum of two units.
CONSTANTS
    Followers = {f1}
    Symbols = {s1}
    Tradable = {s1}
    KillSwitches = {FALSE}
    KillSwitchCloses = FALSE
    AllowShort = TRUE
    MaxSymbol = 4
    MaxOrder = 4
    MinOrder = 1
    MaxOpenSymbols = 2
    Step = 1
    MinQuantity = 2
    MinNotional = 2
    DriftPercent = 0
    FailureCooldown = TRUE
    MaxTotal = 5
    MaxQuantity = 2
    DriftMin = 0
    MaxRetries = 1
    MaxConcurrentOrders = 1
    PartialFills = TRUE
    OrdersOutliveAnswers = TRUE
    Targets <- LargeOrSmall
    Positions <- Around
    UserTrades = TRUE
    MaxFaults = 2
SPECIFICATION RepeatedSpec
PROPERTIES EventuallyInSync
