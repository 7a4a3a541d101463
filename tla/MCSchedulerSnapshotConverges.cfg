SPECIFICATION FairSpec
CONSTANTS
  Editors = {e1}
  Billers = {}
  Pollers = {p1}
  Rebuilders = {r1}
  Requests = {q1}
  None = None
  MaxChanges = 1
  MaxFaults = 1
PROPERTY Converges
CHECK_DEADLOCK FALSE
