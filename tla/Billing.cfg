SPECIFICATION Spec
CONSTANTS
    Jobs = {j1, j2}
    Steps <- Counts
    Urls = {u1}
    NoUrl = NoUrl
    Horizon = 1
    NoRow = NoRow
SYMMETRY JobSymmetry
INVARIANTS
    TypeOK
    AnswerTellsTheTruth
    EventsFollowTheStore
    ReviewHasEvidence
    PeriodInOrder
PROPERTIES
    DraftIsSentFirst
    OnlyRacesLoseUpdates
    CancelledStays
    PaidStays
