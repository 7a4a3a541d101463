SPECIFICATION Spec
CONSTANTS
  Editors = {e1}
  Billers = {b1}
  Pollers = {p1, p2}
  Rebuilders = {}
  Requests = {}
  None = None
  MaxChanges = 2
  MaxFaults = 1
SYMMETRY Symmetry
INVARIANTS
  TypeOK
  StaleIsExplained
CHECK_DEADLOCK FALSE
