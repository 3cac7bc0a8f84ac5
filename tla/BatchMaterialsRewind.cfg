\* The status a batch may be sent back to by a PUT; no failures.
CONSTANTS
    m1 = m1
    m2 = m2
    l1 = l1
    l2 = l2
    Transfers = {m1, m2}
    Lines = {l1, l2}
    SentStatuses = {"rm_reserved", "dispensing"}
    SentConnected = {}
    AskedFor = {0, 2}
    BornHeaders = {"Pending"}
    Required = 2
    MaxOrdered = 2
    MaxStock = 2
    MaxAstray = 1
    MaxTrouble = 0
SPECIFICATION Spec
PROPERTIES NeverRewinds
CHECK_DEADLOCK FALSE
