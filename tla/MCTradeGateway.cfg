SPECIFICATION Spec
CONSTANTS
    Orders = {o1, o2}
    Quantity = 1
    Restart = FALSE
    MaxRelogin = 0
SYMMETRY Symmetry
INVARIANTS
    FrozenExact
    ToldAll
CHECK_DEADLOCK FALSE
