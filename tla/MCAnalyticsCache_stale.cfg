CONSTANTS
    u1 = u1  u2 = u2
    w1 = w1  w2 = w2
    r1 = r1
    Users = {u1}
    Writers = {w1}
    Readers = {r1}
    QueueCap = 1
    SingleWriter = TRUE
    Failures = FALSE
    Stoppable = FALSE
    MaxChanges = 2
SPECIFICATION Spec
INVARIANT FreshWhenQuiet
CHECK_DEADLOCK FALSE
