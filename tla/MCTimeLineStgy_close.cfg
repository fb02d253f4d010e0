SPECIFICATION Spec
CONSTANTS
    SlotBlock = 5
    MaxGroups = 3
    Slot = 3
    MaxVolume = 2
    CloseKeys = {1}
    Odds = {}
    MaxCrash = 0
    MaxDays = 1
PROPERTIES
    StopsAtClose
CHECK_DEADLOCK FALSE
