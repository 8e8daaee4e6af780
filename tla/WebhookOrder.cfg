SPECIFICATION Spec
CONSTANTS
    Hooks = {h1}
    Calls = {c1, c2}
    Admins = {a1}
    Types = {"a", "b"}
    EventLists = {{"*"}, {"b"}}
    MaxRetries = 2
    MaxFailures = 1
    NoHook = NoHook
    NoRow = NoRow
INVARIANTS
    OrderedPerSubscription
