CONSTANTS
    c1 = c1  c2 = c2  c3 = c3
    s1 = s1  s2 = s2
    t1 = t1
    Clients = {c1, c2}
    Subs = {s1, s2}
    Topics = {t1}
    TopicOf <- OneTopic
    RequestHandlers = {s2}
    Removable = {}
    Stoppable = FALSE
    Cap = 1
    MaxMessages = 4
SPECIFICATION FairSpec
PROPERTIES RoutingEnds EverySubscriberServed TimedRequestReturns
CHECK_DEADLOCK FALSE
