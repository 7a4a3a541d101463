\* Three requests with one key; TTL 3, so two record lifetimes fit in the clock.
SPECIFICATION Spec
CONSTANTS
  Requests = {r1, r2, r3}
  Payloads = {p, q}
  NoPayload = NoPayload
  NoBody = NoBody
  Bodies <- MCBodies
  TTL = 3
  ProcessingTimeout = 2
  FailedRetryBackoff = 1
  ClaimMax = 2
  RequestMax = 3
  MaxTime = 6
SYMMETRY Symmetry
INVARIANTS TypeOK SingleEffect SingleExecutor ReplayIsOfSuccess
CHECK_DEADLOCK FALSE
