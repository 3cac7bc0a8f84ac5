\* One request at a time, two notes, one of them reopened once.
CONSTANTS
    n1 = n1
    n2 = n2
    Notes = {n1, n2}
    Workers = {w1}
    Ordered = {0, 1}
    Counts = {0, 1}
    Forms <- FilledIn
    Places = {TRUE}
    Opening = 1
    MaxMoved = 2
    MaxReopened = 1
SPECIFICATION Spec
SYMMETRY AnyNote
INVARIANTS
    TypeOK StockIsReceived BookedPerCompletion CompleteIsBooked CompleteIsFit
CHECK_DEADLOCK FALSE
