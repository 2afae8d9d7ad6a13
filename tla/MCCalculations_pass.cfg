CONSTANTS
    RowQuantities = {1, 2}
    RowPrices = {1, 3}
    MaxRows = 5
    Width = 4
    NewtonMax = 2
    MaxIterations = 2
    Pole = 0
    Prices = {0, 1, 20, 21}
    Nominals = {0, 2}
    Bonds = {1, 2}
    Maturities = {3, 5}
    Periods = {0, 2}
    Schedules <- SomeSchedules
    Horizons = {2, 9}
    Limits = {1, 9}
    MinDate <- Floor
    LastDay = 4
    Searchers = {a, b}
    Keys = {x, y}
    Ttl = 2
    LastTime = 4
    Jobs = {j1, j2}
    Lists <- SomeLists
    PageSize = 2
    MaxPages = 2
    MaxChanges = 1
SPECIFICATION CalculationsSpec
INVARIANTS OpenCoversHeld AverageFromOpenPurchases
    BracketHoldsRoot NoneMeansNoRoot OrdinaryRequestsAnswered
    GridsMeet PrincipalOnce NextCouponsComplete
    ServedWithinTtl StoredWhole
PROPERTY NeverEmptied
CHECK_DEADLOCK FALSE
