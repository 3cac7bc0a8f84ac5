\* One request at a time on one order, with crashes between two writes, failed
\* look-ups and two treasury payments.
SPECIFICATION Spec
CONSTANTS
    Workers = {w1}
    Endpoints <- AllRoutes
    MaxOutwards = 2
    Overlap = FALSE
    LookupsFail = TRUE
INVARIANTS
    TypeOK
    PaidInv
    ClosedInv
    OverrideInv
PROPERTIES
    PaysUnpaidOnly
    ClaimsUnpaidOnly
