SPECIFICATION FairSpec
CONSTANTS
    Tasks = {t1, t2}
    Workers = {w1, w2}
    Priorities = {0, 1}
    MaxRetries = 3
    MaxFailures = 1
    NoTask = NoTask
PROPERTIES
    StaleLocksRecover
