SPECIFICATION FairSpec
CONSTANTS
    SlotBlock = 2
    MaxGroups = 2
    Configs <- TwoConfigs
    MaxVolume = 2
    CloseKeys = {1, 2}
    Odds = {"signal", "late_trade", "no_position", "overtaken", "crash"}
    MaxCrash = 1
INVARIANTS
    BookRight
    SlotsRight
    LockCovers
    LockGoesOn
    Recoverable
    NeverFails
PROPERTIES
    OrdersEnd
CHECK_DEADLOCK FALSE
