SPECIFICATION FairSpec
CONSTANTS
    Clients = {c1, c2}
    MaxBuffer = 1
    Interval = 1
    MaxQry = 2
    MaxOther = 0
    Kinds = {"rows", "confirm"}
INVARIANT OwnRows
PROPERTY QryReturns
CHECK_DEADLOCK FALSE
