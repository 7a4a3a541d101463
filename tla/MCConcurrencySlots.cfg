SPECIFICATION FairSpec
CONSTANTS
  r1 = r1
  r2 = r2
  r3 = r3
  u1 = u1
  u2 = u2
  a1 = a1
  p1 = p1
  p2 = p2
  Requests = {r1, r2, r3}
  Processes = {p1, p2}
  Users = {u1, u2}
  Accounts = {a1}
  Process <- MCProcess
  User <- MCUser
  Account <- MCAccount
  Limit <- MCLimit
  MaxWait <- MCMaxWait
  MaxFaults = 1
INVARIANTS
  TypeOK
  LimitHolds
  WaitIsExact
PROPERTY RequestEnds
CHECK_DEADLOCK FALSE
