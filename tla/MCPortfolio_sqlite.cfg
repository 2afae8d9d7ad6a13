CONSTANTS
    k1 = k1  k2 = k2
    u1 = u1  u2 = u2
    a1 = a1  a2 = a2
    b1 = b1
    i1 = i1  i2 = i2  i3 = i3
    Tasks = {k1, k2}
    Users = {u1, u2}
    Accounts = {a1, a2}
    Bonds = {b1}
    OwnerOf <- Owners
    Ids = {i1, i2, i3}
    Types = {"BUY", "SELL"}
    Quantities = {1}
    RowLocks = FALSE
SPECIFICATION Spec
SYMMETRY Symmetry
INVARIANT NonNegative
