SPECIFICATION Spec
CONSTANTS
  Requests = {r1, r2, r3}
  Keys = {k1, k2}
  Fingerprints = {f1, f2}
  Cleaners = {c1, c2}
  None = None
SYMMETRY Symmetry
INVARIANTS
  TypeOK
  ChargedOnce
  AnswerIsTrue
CHECK_DEADLOCK FALSE
