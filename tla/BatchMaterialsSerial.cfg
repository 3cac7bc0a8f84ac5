\* One request at a time on one batch; any request may be cut off after any of its writes.
CONSTANTS
    m1 = m1
    m2 = m2
    l1 = l1
    l2 = l2
    Transfers = {m1, m2}
    Lines = {l1, l2}
    SentStatuses = {"rm_reserved", "dispensing"}
    SentConnected = {}
    AskedFor = {2}
    BornHeaders = {"Pending", "In Transit", "Completed"}
    Required = 2
    MaxOrdered = 2
    MaxStock = 2
    MaxAstray = 1
    MaxTrouble = 1
SPECIFICATION Spec
SYMMETRY AnyName
INVARIANTS
    TypeOK TotalsAgree Conserved LineMovesOnce HeaderAgrees
    DispensedIsConsumed
PROPERTIES ExclusiveReserve 
CHECK_DEADLOCK FALSE
