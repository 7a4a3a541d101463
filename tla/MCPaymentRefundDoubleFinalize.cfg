SPECIFICATION Spec
CONSTANTS
    w1 = w1
    w2 = w2
    Workers = {w1, w2}
    Deducts = {1}
    MaxDeducted = 3
SYMMETRY Symmetry
INVARIANTS
    DeductedAtMostOnce
CHECK_DEADLOCK FALSE
