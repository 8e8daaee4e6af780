SPECIFICATION Spec
CONSTANTS
    Requests = {r1, r2}
    Prices <- SomePrices
    Absent = Absent
SYMMETRY RequestSymmetry
INVARIANTS
    TypeOK
    PriceIsPositive
PROPERTIES
    OnlyRacesUnarchive
    DeletedIsFinal
