SPECIFICATION DaySpec
CONSTANTS
    a1 = a1
    a2 = a2
    a = a
    Instruments = {a1, a2}
    Products = {a}
    ProductOf <- OfTheProducts
    MaxNow = 5
    MaxLag = 1
    MaxStarts = 3
    MaxSpurious = 1
SYMMETRY Symmetry
INVARIANTS
    RatesRight
    PublishedOnce
    EveryDayTold
CHECK_DEADLOCK FALSE
