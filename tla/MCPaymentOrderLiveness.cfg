SPECIFICATION JobSpec
CONSTANTS
    w1 = w1
    w2 = w2
    Workers = {w1, w2}
    OrderTypes = {"balance"}
    OrderTimeout = 1
    Grace = 1
    AssignCap = 2
    MaxPurged = 0
PROPERTY RechargingEnds
CHECK_DEADLOCK FALSE
