\* Two requests in flight on one payment: stale copies, row locks, double submits.
SPECIFICATION Spec
CONSTANTS
    Workers = {w1, w2}
    Payments = {p1}
    Ops <- AllOps
    Bands <- OneBand
    ManualLinks <- NoLinks
INVARIANTS
    SignedInv
    NeverStranded
