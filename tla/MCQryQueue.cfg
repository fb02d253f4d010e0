SPECIFICATION Spec
CONSTANTS
    Clients = {c1, c2}
    MaxBuffer = 2
    Interval = 1
    MaxQry = 2
    MaxOther = 1
    Kinds = {"commission", "instruments", "account", "confirm"}
SYMMETRY Interchangeable
INVARIANTS
    OneOutstanding
    SentInOrder
    OwnReply
    OwnRows
    NullOnlyIfNull
    FrontDefined
CHECK_DEADLOCK FALSE
