CONSTANTS
    Adapters = {"binance", "okx"}
    PositionModes = {"one_way", "hedge"}
    Clocks = {"right", "off", "wrong"}
    Retries = 2
    PartialFills = TRUE
    Quantities = {1, 2}
    MaxOrders = 2
    MaxFaults = 2
SPECIFICATION Spec
INVARIANTS OrderTypeOK ExecutesOnce
PROPERTIES ImplementsOrderCall CallEnds
CHECK_DEADLOCK FALSE
