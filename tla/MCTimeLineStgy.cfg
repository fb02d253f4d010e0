SPECIFICATION Spec
CONSTANTS
    SlotBlock = 5
    MaxGroups = 2
    Slot = 3
    MaxVolume = 2
    CloseKeys = {1}
    Odds = {"no_position", "limit_open"}
    MaxCrash = 1
    MaxDays = 1
INVARIANTS
    BookAgrees
    WithinSlot
    ExitsFlat
    LoadsRight
CHECK_DEADLOCK FALSE
