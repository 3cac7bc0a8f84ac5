\* Two vendor answers in flight at once.
SPECIFICATION Spec
CONSTANTS
    Workers = {w1, w2}
    Ops <- AnswerOps
    Classes <- OneClass
    TrackedColumns = {}
    MaxAmendments = 1
    MayAbort = FALSE
INVARIANT
    OneAnswer
