SPECIFICATION FairSpec
CONSTANTS
    Tasks = {t1, t2}
    Workers = {w1, w2}
    Priorities = {0, 1}
    MaxRetries = 3
    MaxFailures = 2
    NoTask = NoTask
INVARIANTS
    TypeOK
    OneWorkerPerTask
    EffectsAreBounded
    OutcomeIsJustified
    OrphanNeedsFault
PROPERTIES
    TerminalIsFinal
    TasksSettle
