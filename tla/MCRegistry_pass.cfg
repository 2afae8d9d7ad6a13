CONSTANTS
    k1 = k1  k2 = k2
    u1 = u1  u2 = u2
    n1 = n1  n2 = n2
    Tasks = {k1, k2}
    Users = {u1, u2}
    Names = {n1, n2}
    Isins = {s1, s2}
    s1 = s1  s2 = s2
    LastId <- Limits
SPECIFICATION ScopedSpec
SYMMETRY Symmetry
CHECK_DEADLOCK FALSE
INVARIANTS OwnersAgree SchedulesKept HoldersTold
PROPERTIES CatalogueSpec
