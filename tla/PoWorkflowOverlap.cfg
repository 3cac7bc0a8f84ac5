\* Two requests in flight: stale copies, lost updates, checks passed too early.
SPECIFICATION FairSpec
CONSTANTS
    Workers = {w1, w2}
    Ops <- OverlapOps
    Classes <- OneClass
    TrackedColumns = {}
    MaxAmendments = 1
    MayAbort = FALSE
INVARIANT
    AuthorisedInv
PROPERTIES
    HoldComesToRest
