\* One request at a time; payables of the document come from the sync.
SPECIFICATION Spec
CONSTANTS
    Workers = {w1}
    Payments = {p1, p2}
    Ops <- SyncedOps
    Bands <- AllBands
    ManualLinks <- NoLinks
INVARIANTS
    TypeOK
    StatusInv
    SourceInv
PROPERTY
    Lifecycle
