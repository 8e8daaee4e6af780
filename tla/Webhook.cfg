SPECIFICATION FairSpec
CONSTANTS
    Hooks = {h1, h2}
    Calls = {c1}
    Admins = {a1, a2}
    Types = {"a"}
    EventLists = {{"a"}, {}}
    MaxRetries = 2
    MaxFailures = 1
    NoHook = NoHook
    NoRow = NoRow
INVARIANTS
    TypeOK
    RowTellsTheTruth
    StuckNeedsFault
    EveryMatchIsServed
PROPERTIES
    SettledIsFinal
    DeletedStaysDeleted
    DeliveriesSettle
