SPECIFICATION FairSpec
CONSTANTS
    Requests = {r1, r2}
    Keys = {k1}
    Amounts = {1, 2}
    Methods = {"stripe", "paypal"}
    NoKey = NoKey
    NoRequest = NoRequest
    NoRow = NoRow
INVARIANTS
    TypeOK
    AtMostOneChargePerKey
    SucceededMeansCharged
    CleanRequestBalances
    AnnouncedMeansStored
PROPERTIES
    SettledRowsAreFinal
    ImplementsPromise
    EveryRequestEnds
