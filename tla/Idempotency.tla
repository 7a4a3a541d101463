---------------------------- MODULE Idempotency ----------------------------
(***************************************************************************)
(* IdempotencyCoordinator.Execute (service/idempotency.go) for the         *)
(* requests that carry one idempotency key, against the SQL store, with    *)
(* the cleanup service, process crashes, store errors and the clock.       *)
(* Each request is one HTTP call; a client's retry is another request.     *)
(***************************************************************************)
EXTENDS IdempotencyStore, Sequences

CONSTANTS Requests,           \* HTTP requests that carry the key
          TTL,                \* opts.TTL or cfg.DefaultTTL
          ProcessingTimeout,  \* cfg.ProcessingTimeout
          FailedRetryBackoff, \* cfg.FailedRetryBackoff
          ClaimMax,           \* bound: time from "now := time.Now()" to the claim
          RequestMax,         \* bound: time from "now := time.Now()" to the return
          MaxTime             \* bound: the clock stops here

(***************************************************************************)
(* config.Validate requires the three durations to be positive.  Claiming  *)
(* is three short statements and a request does not outlive the TTL (30    *)
(* seconds and 24 hours by default): the two bounds say so.                *)
(***************************************************************************)
ASSUME DurationAssumption ==
  /\ TTL \in Nat \ {0} /\ ProcessingTimeout \in Nat \ {0}
  /\ FailedRetryBackoff \in Nat \ {0} /\ MaxTime \in Nat
  /\ ClaimMax \in Nat /\ ClaimMax <= ProcessingTimeout
  /\ RequestMax \in Nat /\ RequestMax <= TTL

(* The response of an execution: whose it is, and whether it fits MaxStoredResponseLen. *)
ASSUME BodiesAssumption == Bodies = [by: Requests, whole: BOOLEAN]

VARIABLES now,      \* wall clock, one for all instances and the database
          row,      \* the key's row
          nextId,   \* AUTO_INCREMENT of idempotency_records
          pc,       \* where each request is in Execute
          fp,       \* its fingerprint
          t,        \* its "now", from which expiresAt and lockedUntil derive
          recordId, \* its record.ID, once it owns the row
          existing, \* its last read of the row
          result,   \* what it returned
          data,     \* the body it replayed
          window,   \* history: end of the current row's first TTL window
          effects   \* history: the executions that succeeded, in order

local == <<fp, t, recordId, existing, result, data>>
table == <<row, nextId, window>>
vars  == <<now, table, pc, local, effects>>

ClaimPcs  == {"insert", "selectId", "get", "reclaimExpired", "reget", "reclaimFailed"}
HolderPcs == {"exec", "markOk", "markFail"}
Results   == {"none", "ok", "error", "replayed", "unavailable", "keyConflict",
              "inProgress", "retryBackoff", "crashed"}

(* until: the expiresAt of the execution; first: it fell in its record's first window. *)
Effect == [by: Requests, fp: Payloads \cup {NoPayload}, at: Nat, until: Nat, first: BOOLEAN]

(* The clock, the row and every request's locals keep their types, and a   *)
(* record that succeeded is not locked.                                    *)
TypeOK ==
  /\ now \in Nat
  /\ row \in Row /\ WellFormed(row)
  /\ nextId \in Nat \ {0}
  /\ pc \in [Requests -> {"idle", "done"} \cup ClaimPcs \cup HolderPcs]
  /\ fp \in [Requests -> Payloads \cup {NoPayload}]
  /\ t \in [Requests -> Nat]
  /\ recordId \in [Requests -> Nat]
  /\ existing \in [Requests -> Row]
  /\ result \in [Requests -> Results]
  /\ data \in [Requests -> Bodies \cup {NoBody}]
  /\ window \in Nat
  /\ effects \in Seq(Effect)

Init ==
  /\ now = 0
  /\ row = NoRow
  /\ nextId = 1
  /\ pc = [r \in Requests |-> "idle"]
  /\ fp = [r \in Requests |-> NoPayload]
  /\ t = [r \in Requests |-> 0]
  /\ recordId = [r \in Requests |-> 0]
  /\ existing = [r \in Requests |-> NoRow]
  /\ result = [r \in Requests |-> "none"]
  /\ data = [r \in Requests |-> NoBody]
  /\ window = 0
  /\ effects = <<>>

LockedUntil(r) == t[r] + ProcessingTimeout
ExpiresAt(r)   == t[r] + TTL

(* Mutation of SamePayload: the fingerprint is not compared. *)
AnyPayload(r) == r \in Requests

(* existing.RequestFingerprint == fingerprint *)
SamePayload(r) == row.fp = fp[r]

Goto(r, label) ==
  /\ pc' = [pc EXCEPT ![r] = label]
  /\ UNCHANGED local

(* Keep what was read for the reclaim that follows. *)
Remember(r, label) ==
  /\ pc' = [pc EXCEPT ![r] = label]
  /\ existing' = [existing EXCEPT ![r] = row]
  /\ UNCHANGED <<fp, t, recordId, result, data>>

(* The row is this request's: record.ID is set and execute(ctx) starts. *)
Own(r, id) ==
  /\ pc' = [pc EXCEPT ![r] = "exec"]
  /\ recordId' = [recordId EXCEPT ![r] = id]
  /\ existing' = [existing EXCEPT ![r] = NoRow]
  /\ UNCHANGED <<fp, t, result, data>>

(* Execute returns: its locals are gone, what it returned is kept. *)
ReturnData(r, res, body) ==
  /\ pc' = [pc EXCEPT ![r] = "done"]
  /\ result' = [result EXCEPT ![r] = res]
  /\ data' = [data EXCEPT ![r] = body]
  /\ t' = [t EXCEPT ![r] = 0]
  /\ recordId' = [recordId EXCEPT ![r] = 0]
  /\ existing' = [existing EXCEPT ![r] = NoRow]
  /\ UNCHANGED fp

Return(r, res) == ReturnData(r, res, NoBody)

-----------------------------------------------------------------------------
(* Fingerprint, now, expiresAt and lockedUntil are computed once, here. *)
Begin(r, p) ==
  /\ pc[r] = "idle"
  /\ pc' = [pc EXCEPT ![r] = "insert"]
  /\ fp' = [fp EXCEPT ![r] = p]
  /\ t' = [t EXCEPT ![r] = now]
  /\ UNCHANGED <<now, table, recordId, existing, result, data, effects>>

(* An empty key: refused, or run without the store in the observation period. *)
BeginWithoutKey(r) ==
  /\ pc[r] = "idle"
  /\ \E res \in {"ok", "error"} : Return(r, res)
  /\ UNCHANGED <<now, table, effects>>

(* CreateProcessing, first statement: INSERT IGNORE. *)
InsertIgnore(r) ==
  /\ pc[r] = "insert"
  /\ \/ /\ Present(row)
        /\ Goto(r, "get")
        /\ UNCHANGED table
     \/ /\ ~Present(row)
        /\ row' = CreatedRow(nextId, fp[r], LockedUntil(r), ExpiresAt(r))
        /\ nextId' = nextId + 1
        /\ window' = ExpiresAt(r)
        /\ Goto(r, "selectId")
  /\ UNCHANGED <<now, effects>>

(* CreateProcessing, second statement: read the new row's id back by its key. *)
SelectId(r) ==
  /\ pc[r] = "selectId"
  /\ IF Present(row) THEN Own(r, row.id) ELSE Goto(r, "get")
  /\ UNCHANGED <<now, table, effects>>

(* The switch on existing.Status; a truncated body does not decode. *)
SwitchOnStatus(r) ==
  \/ /\ row.status = "succeeded"
     /\ IF row.body # NoBody /\ ~row.body.whole
        THEN Return(r, "unavailable")
        ELSE ReturnData(r, "replayed", row.body)
  \/ row.status = "processing" /\ Return(r, "inProgress")
  \/ row.status = "failed_retryable" /\ row.locked > t[r] /\ Return(r, "retryBackoff")
  \/ row.status = "failed_retryable" /\ row.locked <= t[r] /\ Remember(r, "reclaimFailed")

(* GetByScopeAndKeyHash and the checks up to the expired-record reclaim. *)
GetExisting(r) ==
  /\ pc[r] = "get"
  /\ \/ ~Present(row) /\ Return(r, "unavailable")
     \/ Present(row) /\ ~SamePayload(r) /\ Return(r, "keyConflict")
     \/ Present(row) /\ SamePayload(r) /\ row.expires <= t[r] /\ Remember(r, "reclaimExpired")
     \/ Present(row) /\ SamePayload(r) /\ row.expires > t[r] /\ SwitchOnStatus(r)
  /\ UNCHANGED <<now, table, effects>>

(* TryReclaim takes the row that was read. *)
TakeOver(r) ==
  /\ CanReclaim(row, existing[r].id, existing[r].status, t[r])
  /\ row' = ReclaimedRow(row, LockedUntil(r), ExpiresAt(r))
  /\ Own(r, existing[r].id)
  /\ UNCHANGED <<nextId, window>>

(* TryReclaim changes no row. *)
Refused(r) ==
  /\ ~CanReclaim(row, existing[r].id, existing[r].status, t[r])
  /\ UNCHANGED table

ReclaimExpired(r) ==
  /\ pc[r] = "reclaimExpired"
  /\ TakeOver(r) \/ (Refused(r) /\ Goto(r, "reget"))
  /\ UNCHANGED <<now, effects>>

(* The second read, after a lost expired-record reclaim. *)
GetLatest(r) ==
  /\ pc[r] = "reget"
  /\ \/ ~Present(row) /\ Return(r, "unavailable")
     \/ Present(row) /\ ~SamePayload(r) /\ Return(r, "keyConflict")
     \/ Present(row) /\ SamePayload(r) /\ SwitchOnStatus(r)
  /\ UNCHANGED <<now, table, effects>>

ReclaimFailed(r) ==
  /\ pc[r] = "reclaimFailed"
  /\ TakeOver(r) \/ (Refused(r) /\ Return(r, "inProgress"))
  /\ UNCHANGED <<now, effects>>

(* execute(ctx) returns data; its side effect is now done. *)
ExecuteOk(r) ==
  /\ pc[r] = "exec"
  /\ Goto(r, "markOk")
  /\ effects' = Append(effects, [by |-> r, fp |-> fp[r], at |-> now,
                                 until |-> ExpiresAt(r), first |-> now < window])
  /\ UNCHANGED <<now, table>>

ExecuteFails(r) ==
  /\ pc[r] = "exec"
  /\ Goto(r, "markFail")
  /\ UNCHANGED <<now, table, effects>>

(* marshalStoredResponse truncates a body over MaxStoredResponseLen; then the UPDATE. *)
MarkSucceeded(r) ==
  /\ pc[r] = "markOk"
  /\ \E whole \in BOOLEAN :
       row' = SucceededRow(row, recordId[r], [by |-> r, whole |-> whole], ExpiresAt(r))
  /\ Return(r, "ok")
  /\ UNCHANGED <<now, nextId, window, effects>>

MarkFailedRetryable(r) ==
  /\ pc[r] = "markFail"
  /\ row' = FailedRow(row, recordId[r], now + FailedRetryBackoff, ExpiresAt(r))
  /\ Return(r, "error")
  /\ UNCHANGED <<now, nextId, window, effects>>

(* A store call fails, or the response cannot be marshalled: nothing is undone. *)
StoreError(r) ==
  /\ pc[r] \in ClaimPcs \cup {"markOk", "markFail"}
  /\ Return(r, IF pc[r] = "markFail" THEN "error" ELSE "unavailable")
  /\ UNCHANGED <<now, table, effects>>

(* The instance serving the request dies. *)
Crash(r) ==
  /\ pc[r] \in ClaimPcs \cup HolderPcs
  /\ Return(r, "crashed")
  /\ UNCHANGED <<now, table, effects>>

(* IdempotencyCleanupService.cleanupOnce. *)
CleanupOnce ==
  /\ Expired(row, now)
  /\ row' = NoRow
  /\ UNCHANGED <<now, nextId, window, pc, local, effects>>

(* Time passes, within the two bounds of the requests under way. *)
Tick ==
  /\ now < MaxTime
  /\ \A r \in Requests :
       /\ pc[r] \in ClaimPcs => now + 1 < t[r] + ClaimMax
       /\ pc[r] \in ClaimPcs \cup HolderPcs => now + 1 < t[r] + RequestMax
  /\ now' = now + 1
  /\ UNCHANGED <<table, pc, local, effects>>

Step(r) ==
  \/ \E p \in Payloads : Begin(r, p)
  \/ BeginWithoutKey(r)
  \/ InsertIgnore(r) \/ SelectId(r) \/ GetExisting(r)
  \/ ReclaimExpired(r) \/ GetLatest(r) \/ ReclaimFailed(r)
  \/ ExecuteOk(r) \/ ExecuteFails(r)
  \/ MarkSucceeded(r) \/ MarkFailedRetryable(r)
  \/ StoreError(r) \/ Crash(r)

Next == (\E r \in Requests : Step(r)) \/ CleanupOnce \/ Tick

Spec == Init /\ [][Next]_vars

-----------------------------------------------------------------------------
(***************************************************************************)
(* Execute's promise while the key's record is in its first TTL window: no *)
(* execution succeeds after one that succeeded there until its expiresAt,  *)
(* whatever is retried, crashes, cannot reach the store or is cleaned up.  *)
(***************************************************************************)
SingleEffect ==
  \A i, j \in 1..Len(effects) :
    i < j /\ effects[i].first => effects[i].until <= effects[j].at

(***************************************************************************)
(* Two requests never run execute(ctx) for the key at the same time, also  *)
(* when both reclaimed a record that had expired.                          *)
(***************************************************************************)
SingleExecutor ==
  \A r, s \in Requests :
    pc[r] \in HolderPcs /\ pc[s] \in HolderPcs => r = s

(***************************************************************************)
(* What a replay returns was produced by an execution that succeeded for   *)
(* the same fingerprint: Execute never replays another payload's response. *)
(***************************************************************************)
ReplayIsOfSuccess ==
  \A r \in Requests : result[r] = "replayed" =>
    \E i \in 1..Len(effects) :
      effects[i].by = data[r].by /\ effects[i].fp = fp[r]
=============================================================================
