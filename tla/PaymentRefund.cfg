SPECIFICATION Spec
CONSTANTS
    Requests = {r1, r2}
    Keys = {k1}
    Amounts = {1, 2}
    Methods = {"stripe"}
    NoKey = NoKey
    NoRequest = NoRequest
    NoRow = NoRow
INVARIANTS
    RefundsWithinOriginal
