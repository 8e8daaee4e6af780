SPECIFICATION Spec
CONSTANTS
    Requests = {r1, r2}
    Pairs = {p1}
    AccessLife = 1
    RefreshLife = 2
    MaxTime = 2
    Never = Never
    NoUser = NoUser
    NoToken = NoToken
SYMMETRY RequestSymmetry
INVARIANTS
    TypeOK
    LoggedOutIsRefused
    OnlyAccessTokensServed
    RevokedKeyIsRefused
