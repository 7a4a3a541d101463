------------------------ MODULE SystemOperationLock ------------------------
(***************************************************************************)
(* The global lock of admin system operations (update, rollback, restart): *)
(* SystemOperationLockService keeps it as one row of idempotency_records,  *)
(* leased for Lease and renewed every RenewInterval by the holder's        *)
(* renewLoop.  Each operation is one admin request; operations may share   *)
(* an operation id (the id derives from the Idempotency-Key).              *)
(***************************************************************************)
EXTENDS IdempotencyStore

CONSTANTS Ops,            \* admin operations that want the lock
          OpId,           \* operation id of each, in Payloads
          Lease,          \* cfg.ProcessingTimeout
          RenewInterval,  \* lease / 3
          TTL,            \* cfg.SystemOperationTTL
          ClaimMax,       \* bound: time from Acquire's "now" to its return
          MaxErrors,      \* bound: renewals in a row that fail in the store
          MaxTime         \* bound: the clock stops here

(***************************************************************************)
(* The lease outlives the acquisition and MaxErrors failed renewals, and   *)
(* the TTL outlives the lease (30 seconds, 10 seconds and 1 hour).         *)
(***************************************************************************)
ASSUME LeaseAssumption ==
  /\ OpId \in [Ops -> Payloads]
  /\ Lease \in Nat /\ RenewInterval \in Nat \ {0} /\ TTL \in Nat
  /\ ClaimMax \in Nat \ {0} /\ MaxErrors \in Nat /\ MaxTime \in Nat
  /\ ClaimMax + (MaxErrors + 1) * RenewInterval <= Lease
  /\ Lease <= TTL

VARIABLES now, row, nextId,
          pc,       \* where each operation is
          t,        \* Acquire's "now"
          recordId, \* lock.recordID
          existing, \* Acquire's read of the row
          loop,     \* renewLoop: "off", "on", "stopping" once stopCh is closed
          renewAt,  \* when its ticker fires next
          errors,   \* renewals that failed in a row
          creator   \* history: the operation inserted the row it holds

vars == <<now, row, nextId, pc, t, recordId, existing, loop, renewAt, errors, creator>>
claimVars == <<t, existing>>
loopVars  == <<loop, renewAt, errors>>

ClaimPcs == {"insert", "selectId", "get", "reclaim"}
DonePcs  == {"busy", "unavailable", "done"}

(* The clock, the row and the state of every operation keep their types,   *)
(* and a released row is not locked, also if it is renewed meanwhile.      *)
TypeOK ==
  /\ now \in Nat /\ row \in Row /\ WellFormed(row) /\ nextId \in Nat \ {0}
  /\ pc \in [Ops -> {"idle", "held"} \cup ClaimPcs \cup DonePcs]
  /\ t \in [Ops -> Nat]
  /\ recordId \in [Ops -> Nat]
  /\ existing \in [Ops -> Row]
  /\ loop \in [Ops -> {"off", "on", "stopping"}]
  /\ renewAt \in [Ops -> Nat]
  /\ errors \in [Ops -> 0..MaxErrors]
  /\ creator \in [Ops -> BOOLEAN]

Init ==
  /\ now = 0 /\ row = NoRow /\ nextId = 1
  /\ pc = [o \in Ops |-> "idle"]
  /\ t = [o \in Ops |-> 0]
  /\ recordId = [o \in Ops |-> 0]
  /\ existing = [o \in Ops |-> NoRow]
  /\ loop = [o \in Ops |-> "off"]
  /\ renewAt = [o \in Ops |-> 0]
  /\ errors = [o \in Ops |-> 0]
  /\ creator = [o \in Ops |-> FALSE]

Goto(o, label) == pc' = [pc EXCEPT ![o] = label]

(* Acquire returns: its locals are gone. *)
Return(o, label) ==
  /\ Goto(o, label)
  /\ t' = [t EXCEPT ![o] = 0]
  /\ existing' = [existing EXCEPT ![o] = NoRow]

(* Acquire returns the lock and starts renewLoop. *)
Hold(o, id) ==
  /\ Return(o, "held")
  /\ recordId' = [recordId EXCEPT ![o] = id]
  /\ loop' = [loop EXCEPT ![o] = "on"]
  /\ renewAt' = [renewAt EXCEPT ![o] = now + RenewInterval]
  /\ UNCHANGED errors

(* renewLoop returns. *)
EndLoop(o) ==
  /\ loop' = [loop EXCEPT ![o] = "off"]
  /\ renewAt' = [renewAt EXCEPT ![o] = 0]
  /\ errors' = [errors EXCEPT ![o] = 0]

-----------------------------------------------------------------------------
BeginAcquire(o) ==
  /\ pc[o] = "idle"
  /\ Goto(o, "insert")
  /\ t' = [t EXCEPT ![o] = now]
  /\ UNCHANGED <<now, row, nextId, recordId, existing, loopVars, creator>>

(* CreateProcessing: INSERT IGNORE, then the id is read back. *)
InsertIgnore(o) ==
  /\ pc[o] = "insert"
  /\ \/ /\ Present(row)
        /\ Goto(o, "get")
        /\ UNCHANGED <<row, nextId>>
     \/ /\ ~Present(row)
        /\ row' = CreatedRow(nextId, OpId[o], t[o] + Lease, t[o] + TTL)
        /\ nextId' = nextId + 1
        /\ Goto(o, "selectId")
  /\ UNCHANGED <<now, recordId, claimVars, loopVars, creator>>

SelectId(o) ==
  /\ pc[o] = "selectId"
  /\ \/ Present(row) /\ Hold(o, row.id) /\ creator' = [creator EXCEPT ![o] = TRUE]
     \/ ~Present(row) /\ Goto(o, "get") /\ UNCHANGED <<recordId, claimVars, loopVars, creator>>
  /\ UNCHANGED <<now, row, nextId>>

(* GetByScopeAndKeyHash: busy while a processing row's lease is live. *)
GetExisting(o) ==
  /\ pc[o] = "get"
  /\ \/ ~Present(row) /\ Return(o, "unavailable")
     \/ row.status = "processing" /\ row.locked > t[o] /\ Return(o, "busy")
     \/ /\ Present(row) /\ (row.status # "processing" \/ row.locked <= t[o])
        /\ Goto(o, "reclaim") /\ existing' = [existing EXCEPT ![o] = row]
        /\ UNCHANGED t
  /\ UNCHANGED <<now, row, nextId, recordId, loopVars, creator>>

(* TryReclaim from the status that was read; refused means busy. *)
Reclaim(o) ==
  /\ pc[o] = "reclaim"
  /\ \/ /\ CanReclaim(row, existing[o].id, existing[o].status, t[o])
        /\ row' = ReclaimedRow(row, t[o] + Lease, t[o] + TTL)
        /\ Hold(o, existing[o].id)
     \/ /\ ~CanReclaim(row, existing[o].id, existing[o].status, t[o])
        /\ Return(o, "busy")
        /\ UNCHANGED <<row, recordId, loopVars>>
  /\ UNCHANGED <<now, nextId, creator>>

(* Mutation of RenewError: a transient failure ends the renewal loop. *)
RenewErrorExits(o) ==
  /\ loop[o] # "off" /\ now >= renewAt[o]
  /\ EndLoop(o)
  /\ UNCHANGED <<now, row, nextId, pc, recordId, claimVars, creator>>

(* ExtendProcessingLock fails in the store: the loop tries again next round. *)
RenewError(o) ==
  /\ loop[o] = "on" /\ now >= renewAt[o] /\ errors[o] < MaxErrors
  /\ errors' = [errors EXCEPT ![o] = errors[o] + 1]
  /\ renewAt' = [renewAt EXCEPT ![o] = renewAt[o] + RenewInterval]
  /\ UNCHANGED <<now, row, nextId, pc, recordId, claimVars, loop, creator>>

(* renewLoop's tick; it may still win the select after stopCh is closed. *)
Renew(o) ==
  /\ loop[o] # "off" /\ now >= renewAt[o]
  /\ \/ /\ CanExtend(row, recordId[o], OpId[o])
        /\ row' = ExtendedRow(row, now + Lease, now + TTL)
        /\ renewAt' = [renewAt EXCEPT ![o] = renewAt[o] + RenewInterval]
        /\ errors' = [errors EXCEPT ![o] = 0]
        /\ UNCHANGED loop
     \/ /\ ~CanExtend(row, recordId[o], OpId[o])   \* "ownership_lost"
        /\ EndLoop(o)
        /\ UNCHANGED row
  /\ UNCHANGED <<now, nextId, pc, recordId, claimVars, creator>>

(* The renewal goroutine sees stopCh. *)
LoopStops(o) ==
  /\ loop[o] = "stopping"
  /\ EndLoop(o)
  /\ UNCHANGED <<now, row, nextId, pc, recordId, claimVars, creator>>

(* Release: stop renewing, then mark the row by id; a store error is ignored. *)
Release(o) ==
  /\ pc[o] = "held"
  /\ Goto(o, "done")
  /\ loop' = [loop EXCEPT ![o] = IF loop[o] = "on" THEN "stopping" ELSE "off"]
  /\ \/ \E b \in Bodies : row' = SucceededRow(row, recordId[o], b, now + TTL)
     \/ row' = FailedRow(row, recordId[o], now, now + TTL)
     \/ row' = row
  /\ UNCHANGED <<now, nextId, recordId, claimVars, renewAt, errors, creator>>

StoreError(o) ==
  /\ pc[o] \in ClaimPcs
  /\ Return(o, "unavailable")
  /\ UNCHANGED <<now, row, nextId, recordId, loopVars, creator>>

(* The instance dies: neither renewal nor Release happens any more. *)
Crash(o) ==
  /\ pc[o] \in ClaimPcs \cup {"held"}
  /\ Return(o, "done")
  /\ EndLoop(o)
  /\ UNCHANGED <<now, row, nextId, recordId, creator>>

(* IdempotencyCleanupService deletes the row like any other. *)
CleanupOnce ==
  /\ Expired(row, now)
  /\ row' = NoRow
  /\ UNCHANGED <<now, nextId, pc, recordId, claimVars, loopVars, creator>>

(* Time passes; a running renewal loop is served when its ticker fires. *)
Tick ==
  /\ now < MaxTime
  /\ \A o \in Ops : /\ pc[o] \in ClaimPcs => now + 1 < t[o] + ClaimMax
                    /\ loop[o] # "off" => now < renewAt[o]
  /\ now' = now + 1
  /\ UNCHANGED <<row, nextId, pc, recordId, claimVars, loopVars, creator>>

Step(o) ==
  \/ BeginAcquire(o) \/ InsertIgnore(o) \/ SelectId(o) \/ GetExisting(o) \/ Reclaim(o)
  \/ Renew(o) \/ RenewError(o) \/ LoopStops(o) \/ Release(o)
  \/ StoreError(o) \/ Crash(o)

Next == (\E o \in Ops : Step(o)) \/ CleanupOnce \/ Tick

Spec == Init /\ [][Next]_vars

-----------------------------------------------------------------------------
(***************************************************************************)
(* An operation that created the lock row shares it with nobody for as     *)
(* long as it runs, although up to MaxErrors renewals in a row fail: the   *)
(* renewal loop keeps the lease alive.                                     *)
(***************************************************************************)
CreatorExclusive ==
  \A o, p \in Ops :
    /\ o # p /\ pc[o] = "held" /\ pc[p] = "held" /\ creator[o]
    => recordId[o] # recordId[p]

(***************************************************************************)
(* What TestSystemOperationLockService_RenewLease asserts of an operation  *)
(* that created its row: locked_until is renewed while the lock is held,   *)
(* whatever other operations try to reclaim, the clean-up deletes or the   *)
(* store fails.  A holder that reclaimed the row of another operation is   *)
(* not covered: TryReclaim keeps the old request_fingerprint, so that its  *)
(* renewals match no row.                                                  *)
(***************************************************************************)
LeaseLiveWhileHeld ==
  \A o \in Ops : pc[o] = "held" /\ creator[o] =>
    /\ row.id = recordId[o] /\ row.status = "processing" /\ row.locked > now
=============================================================================
