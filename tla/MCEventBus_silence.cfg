CONSTANTS
    c1 = c1  c2 = c2  c3 = c3
    s1 = s1  s2 = s2
    t1 = t1
    Clients = {c1, c2}
    Subs = {s1}
    Topics = {t1}
    TopicOf <- OneTopic
    RequestHandlers = {s1}
    Removable = {s1}
    Stoppable = TRUE
    Cap = 3
    MaxMessages = 6
SPECIFICATION Spec
SYMMETRY ClientSymmetry
INVARIANT WarnedOfThisFill
