SPECIFICATION FairSpec
CONSTANTS
  s1 = s1
  s2 = s2
  r1 = r1
  Sweepers = {s1, s2}
  Requests = {r1}
  Process <- MCProcess
  Admin = admin
  None = None
  MaxGen = 2
  MaxFaults = 1
INVARIANTS
  TypeOK
  LiveTokenKept
  ErrorIsDeserved
PROPERTY DueIsHandled
CHECK_DEADLOCK FALSE
