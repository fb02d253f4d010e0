SPECIFICATION FairSpec
CONSTANTS
    StgyUniverse <- MCStgyUniverse
    SameId <- MCSameId
    TradedIn <- MCTradedIn
    BatchSize = 1
    RetryTimes = 2
    MaxDowns = 1
    MaxErrors = 1
    Midnights = 1
INVARIANTS AllSubscribed TradesCounted
PROPERTY StartupEnds
CHECK_DEADLOCK FALSE
