CONSTANTS
    u1 = u1  u2 = u2
    w1 = w1  w2 = w2
    r1 = r1
    Users = {u1, u2}
    Writers = {w1, w2}
    Readers = {r1}
    QueueCap = 1
    SingleWriter = FALSE
    Failures = TRUE
    Stoppable = TRUE
    MaxChanges = 2
SPECIFICATION Spec
SYMMETRY Symmetry
INVARIANTS RecalculationIsRecent NoChangeForgotten
CHECK_DEADLOCK FALSE
