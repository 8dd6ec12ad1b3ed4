CONSTANTS
    Exchanges = {"binance", "okx"}
    Debounce = TRUE
    MaxChanges = 2
    MaxFaults = 1
    MaxCards = 2
    QueueSize = 1
    MaxRetries = 2
SPECIFICATION Spec
INVARIANTS LifecycleTypeOK NoRoundAfterClose NoCardLost DrainedBeforeClose
PROPERTIES NoRepeatAfterDelivery ChangesRead StopCompletes
CHECK_DEADLOCK FALSE
