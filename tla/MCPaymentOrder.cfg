SPECIFICATION Spec
CONSTANTS
    w1 = w1
    w2 = w2
    Workers = {w1, w2}
    OrderTypes = {"balance", "subscription"}
    OrderTimeout = 1
    Grace = 1
    AssignCap = 2
    MaxPurged = 1
SYMMETRY Symmetry
INVARIANTS
    TypeOK
    CreditPerCode
    DeliveredIsPaid
    CompletedIsDelivered
    RebateOnce
    AssignedOnce
    PaidInTimeIsKept
    PaidIsAttended
CHECK_DEADLOCK FALSE
PROPERTY FollowsLifecycle
