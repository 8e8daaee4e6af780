SPECIFICATION Spec
CONSTANTS
    Requests = {r1, r2, r3}
    RPS = 2
    Never = Never
    MaxTime = 2
    MaxCalls = 3
SYMMETRY RequestSymmetry
INVARIANTS
    LimitIsExact
