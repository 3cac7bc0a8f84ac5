\* Two syncs in flight.
SPECIFICATION Spec
CONSTANTS
    Workers = {w1, w2}
    Payments = {p1, p2}
    Ops <- SyncOnly
    Bands <- OneBand
    ManualLinks <- NoLinks
INVARIANT
    NoDuplicate
