SPECIFICATION Spec
CONSTANTS
    Orders = {o1}
    Quantity = 3
    Restart = TRUE
    MaxRelogin = 2
SYMMETRY Symmetry
INVARIANTS
    PositionExact
    ToldOnce
    OpenOrdersCountRight
PROPERTY FinalStays
CHECK_DEADLOCK FALSE
