\* An update, its retry under the same operation id, and a rollback.
SPECIFICATION Spec
CONSTANTS
  update = update
  retry = retry
  rollback = rollback
  updateId = updateId
  rollbackId = rollbackId
  Ops = {update, retry, rollback}
  OpId <- MCOpId
  Payloads = {updateId, rollbackId}
  NoPayload = NoPayload
  NoBody = NoBody
  Bodies <- MCBodies
  Lease = 3
  RenewInterval = 1
  TTL = 4
  ClaimMax = 1
  MaxErrors = 1
  MaxTime = 7
INVARIANTS TypeOK CreatorExclusive LeaseLiveWhileHeld
CHECK_DEADLOCK FALSE
