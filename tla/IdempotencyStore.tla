-------------------------- MODULE IdempotencyStore --------------------------
(***************************************************************************)
(* The idempotency_records table as one (scope, key hash) sees it: at most *)
(* one row, guarded by the unique key on (scope, idempotency_key_hash).    *)
(* Every statement of repository/idempotency_repo.go is one atomic SQL     *)
(* statement, modelled as the row it leaves behind.  NULL locked_until is  *)
(* 0: "locked_until IS NULL OR locked_until <= now" is then locked <= now. *)
(***************************************************************************)
EXTENDS Naturals

CONSTANTS Payloads,   \* request fingerprints (or operation ids, for the lock)
          NoPayload,  \* fingerprint column of an absent row
          Bodies,     \* stored response bodies
          NoBody      \* response_body NULL

ASSUME StoreAssumption == NoPayload \notin Payloads /\ NoBody \notin Bodies

(* IdempotencyStatus*; "none" marks the absent row. *)
Statuses == {"none", "processing", "succeeded", "failed_retryable"}

(* IdempotencyRecord, without the columns no decision reads. *)
Row == [id: Nat, fp: Payloads \cup {NoPayload}, status: Statuses,
        locked: Nat, expires: Nat, body: Bodies \cup {NoBody}]

NoRow == [id |-> 0, fp |-> NoPayload, status |-> "none",
          locked |-> 0, expires |-> 0, body |-> NoBody]

Present(row) == row.status # "none"

(* A record that succeeded has a response and no lock, whoever marks it when. *)
WellFormed(row) == row.status = "succeeded" => row.locked = 0 /\ row.body # NoBody

(* CreateProcessing's INSERT IGNORE when no row has the key. *)
CreatedRow(id, fp, lockedUntil, expiresAt) ==
  [id |-> id, fp |-> fp, status |-> "processing",
   locked |-> lockedUntil, expires |-> expiresAt, body |-> NoBody]

(* Mutations of CanReclaim: without the status, without the lock condition. *)
CanReclaimAnyStatus(row, id, fromStatus, now) == row.id = id /\ row.locked <= now
CanReclaimLocked(row, id, fromStatus, now) == row.id = id /\ row.status = fromStatus

(* TryReclaim's WHERE clause, on a row still identified by id. *)
CanReclaim(row, id, fromStatus, now) ==
  /\ row.id = id
  /\ row.status = fromStatus
  /\ row.locked <= now

(* TryReclaim's SET clause: fingerprint and response_body are kept. *)
ReclaimedRow(row, lockedUntil, expiresAt) ==
  [id |-> row.id, fp |-> row.fp, status |-> "processing",
   locked |-> lockedUntil, expires |-> expiresAt, body |-> row.body]

(* ExtendProcessingLock's WHERE clause. *)
CanExtend(row, id, fp) ==
  /\ row.id = id
  /\ row.status = "processing"
  /\ row.fp = fp

(* Mutation of ExtendedRow: expires_at is left alone. *)
ExtendedLockOnly(row, lockedUntil, expiresAt) ==
  [id |-> row.id, fp |-> row.fp, status |-> row.status,
   locked |-> lockedUntil, expires |-> row.expires, body |-> row.body]

(* ExtendProcessingLock's SET clause. *)
ExtendedRow(row, lockedUntil, expiresAt) ==
  [id |-> row.id, fp |-> row.fp, status |-> row.status,
   locked |-> lockedUntil, expires |-> expiresAt, body |-> row.body]

(* Mutation of SucceededRow: locked_until is not set to NULL. *)
SucceededStillLocked(row, id, body, expiresAt) ==
  IF row.id = id
  THEN [id |-> id, fp |-> row.fp, status |-> "succeeded",
        locked |-> row.locked, expires |-> expiresAt, body |-> body]
  ELSE row

(* MarkSucceeded: by id alone, whatever the row's status is by then. *)
SucceededRow(row, id, body, expiresAt) ==
  IF row.id = id
  THEN [id |-> id, fp |-> row.fp, status |-> "succeeded",
        locked |-> 0, expires |-> expiresAt, body |-> body]
  ELSE row

(* MarkFailedRetryable: by id alone as well. *)
FailedRow(row, id, lockedUntil, expiresAt) ==
  IF row.id = id
  THEN [id |-> id, fp |-> row.fp, status |-> "failed_retryable",
        locked |-> lockedUntil, expires |-> expiresAt, body |-> row.body]
  ELSE row

(* DeleteExpired's WHERE clause. *)
Expired(row, now) == Present(row) /\ row.expires <= now
=============================================================================
