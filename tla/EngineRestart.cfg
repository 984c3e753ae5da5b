CONSTANTS
    Symbols <- OneSymbol
    Orders <- TwoOrders
    OrderSym <- TwoSyms
    OrderQty <- TwoQtys
    LimitOrders = {"limit2"}
    TpslOrders = {"buy1"}
    QtyTotal = 3
    Sharded = TRUE
    MaxRequests = 1
    MaxFaults = 1
SPECIFICATION EngSpec
INVARIANT RestartKeepsOpenOrders
CHECK_DEADLOCK FALSE
