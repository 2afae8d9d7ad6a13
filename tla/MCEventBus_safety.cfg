CONSTANTS
    c1 = c1  c2 = c2  c3 = c3
    s1 = s1  s2 = s2
    t1 = t1
    Clients = {c1, c2, c3}
    Subs = {s1, s2}
    Topics = {t1}
    TopicOf <- OneTopic
    RequestHandlers = {s1, s2}
    Removable = {s1, s2}
    Stoppable = TRUE
    Cap = 1
    MaxMessages = 3
SPECIFICATION Spec
SYMMETRY ClientSymmetry
INVARIANTS DispatcherIffServed StopReleasesRequesters NoLostWakeup SenderOrder
    FullQueueWarned
PROPERTIES ReplyIsForThisRequest FirstResolutionWins
