SPECIFICATION Spec
CONSTANTS
    w1 = w1
    w2 = w2
    Workers = {w1, w2}
    Deducts = {0, 1}
    MaxDeducted = 3
SYMMETRY Symmetry
INVARIANTS
    TypeOK
    FailedRefundRestores
    RetriesDeductOnce
    RefundedIsReturned
CHECK_DEADLOCK FALSE
PROPERTY RefundFollowsLifecycle
