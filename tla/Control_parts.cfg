SPECIFICATION PartsSpec
CONSTANTS
    Urls = {a, b}
    NoUrl = NoUrl
    MaxUpdates = 3
    MaxFailures = 2
    Clients = {c1, c2}
    Passwords = {p1, p2}
    DefaultPassword = admin
    Torn = torn
    TTL = 1
    MaxSessions = 3
    MaxNow = 2
    MaxBreaks = 1
INVARIANTS Agreement CacheOfSubscription
INVARIANTS AcceptedUntilEnded ChangeLasts
PROPERTIES NodesOfSubscription UpdateEnds
CHECK_DEADLOCK FALSE
