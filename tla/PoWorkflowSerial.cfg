\* One request at a time, any handler may die between two writes;
\* direct edits of the PO row at any time.
SPECIFICATION Spec
CONSTANTS
    Workers = {w1}
    Ops <- AllOps
    Classes <- AllClasses
    TrackedColumns <- ShipmentColumns
    MaxAmendments = 2
    MayAbort = TRUE
INVARIANTS
    TypeOK
    VendorAnswerInv
    ReleasedInv
    CancelInv
    AuthorisedInv
    RequestInv
PROPERTIES
    HoldPauses
    CancelIsFinal
