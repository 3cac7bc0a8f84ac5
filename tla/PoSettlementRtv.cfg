\* A return to vendor raised while a payment is with the treasury.
SPECIFICATION Spec
CONSTANTS
    Workers = {w1}
    Endpoints <- AllRoutes
    MaxOutwards = 1
    Overlap = FALSE
    LookupsFail = FALSE
PROPERTY
    RtvBlocksPayment
