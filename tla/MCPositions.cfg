SPECIFICATION Spec
CONSTANTS
    PriceOf <- MCPriceOf
    PreSettlement = 1
    OldLots <- MCOldLots
    Balance = 10
    Amounts = {2}
    MaxLots = 2
    MaxEvents = 1
INVARIANTS
    HoldingsRight
    LotsRight
    CashBalanced
    ClosesFit
CHECK_DEADLOCK FALSE
