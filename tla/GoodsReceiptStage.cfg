\* One request at a time: are the goods booked whichever request completes a note?
CONSTANTS
    n1 = n1
    n2 = n2
    Notes = {n1, n2}
    Workers = {w1}
    Ordered = {0, 1}
    Counts = {0, 1}
    Forms <- FilledIn
    Places = {TRUE}
    Opening = 1
    MaxMoved = 2
    MaxReopened = 1
SPECIFICATION Spec
INVARIANT
    TransitionsBook
CHECK_DEADLOCK FALSE
