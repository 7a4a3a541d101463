--------------------- MODULE SystemOperationLockProofs ---------------------
(***************************************************************************)
(* The lock service for any number of operations, any lease and any number *)
(* of failed renewals that the lease outlives.  The inductive invariant:   *)
(*   ClockInv  where the clock is relative to each operation's times;      *)
(*   IdInv     record ids are never reused;                                *)
(*   OwnerInv  an operation that has inserted the row owns it: its lease   *)
(*             outlives the renewals that may still fail, and nobody else  *)
(*             knows the row's id as his own.                              *)
(***************************************************************************)
EXTENDS SystemOperationLock, TLAPS

ClockInv ==
  \A o \in Ops :
    /\ t[o] <= now
    /\ pc[o] \in ClaimPcs => now < t[o] + ClaimMax
    /\ loop[o] # "off" => now <= renewAt[o] /\ pc[o] \in {"held", "done"}
    /\ loop[o] = "off" => errors[o] = 0
    /\ loop[o] = "stopping" => pc[o] = "done"
    /\ pc[o] \in {"idle"} \cup ClaimPcs => ~creator[o]

IdInv ==
  /\ row.id < nextId
  /\ \A o \in Ops : recordId[o] < nextId /\ existing[o].id < nextId

\* What e failed renewals leave of the time for failures.
Slack(e) == (MaxErrors - e) * RenewInterval

Owner(o) == pc[o] = "selectId" \/ (pc[o] = "held" /\ creator[o])

OwnerInv ==
  \A o \in Ops : Owner(o) =>
    /\ row.status = "processing" /\ row.fp = OpId[o]
    /\ row.locked > now /\ row.expires >= row.locked
    /\ pc[o] = "selectId" => row.locked = t[o] + Lease
    /\ pc[o] = "held" =>
         /\ row.id = recordId[o] /\ loop[o] = "on"
         /\ row.locked > renewAt[o] + Slack(errors[o])
    /\ \A p \in Ops \ {o} : ~Owner(p) /\ recordId[p] # row.id

IInv == TypeOK /\ ClockInv /\ IdInv /\ OwnerInv

USE LeaseAssumption, StoreAssumption
USE DEF TypeOK, ClockInv, IdInv, Owner, OwnerInv, IInv, ClaimPcs, DonePcs,
        claimVars, loopVars, Row, NoRow, Statuses, Present, Goto, Return,
        EndLoop

-----------------------------------------------------------------------------

\* Each failure uses up one interval, and the lease has room for all.
LEMMA SlackFacts ==
  /\ \A e \in 0..MaxErrors : Slack(e) \in Nat
  /\ \A e \in 0..MaxErrors : e < MaxErrors => Slack(e) = Slack(e + 1) + RenewInterval
  /\ ClaimMax + RenewInterval + Slack(0) <= Lease
BY DEF Slack

\* The invariant holds before the first operation.
LEMMA InitHolds == Init => IInv
BY DEF Init, WellFormed

\* An operation begins.
LEMMA BeginAcquireKeeps ==
  ASSUME IInv, NEW o \in Ops, BeginAcquire(o)
  PROVE  IInv'
<1>1. TypeOK'
  BY DEF BeginAcquire
<1>2. ClockInv'
  BY DEF BeginAcquire
<1>3. IdInv'
  BY DEF BeginAcquire
<1>4. OwnerInv'
  BY DEF BeginAcquire
<1> QED
  BY <1>1, <1>2, <1>3, <1>4

\* Whoever inserts the row owns it: its id is new.
LEMMA InsertIgnoreKeeps ==
  ASSUME IInv, NEW o \in Ops, InsertIgnore(o)
  PROVE  IInv'
<1>1. TypeOK'
  <2>1. row' = row \/ row'.status = "processing"
    BY DEF InsertIgnore, CreatedRow
  <2>2. WellFormed(row)'
    BY <2>1 DEF WellFormed
  <2> QED
    BY <2>2 DEF InsertIgnore, CreatedRow
<1>2. ClockInv'
  BY DEF InsertIgnore, CreatedRow
<1>3. IdInv'
  BY DEF InsertIgnore, CreatedRow
<1>4. OwnerInv'
  BY SlackFacts DEF InsertIgnore, CreatedRow
<1> QED
  BY <1>1, <1>2, <1>3, <1>4

\* The row is still there when its id is read back.
LEMMA SelectIdKeeps ==
  ASSUME IInv, NEW o \in Ops, SelectId(o)
  PROVE  IInv'
<1>1. /\ row' = row /\ now' = now /\ nextId' = nextId /\ row.id \in Nat
      /\ pc' = [pc EXCEPT ![o] = "held"]
      /\ t' = [t EXCEPT ![o] = 0]
      /\ existing' = [existing EXCEPT ![o] = NoRow]
      /\ recordId' = [recordId EXCEPT ![o] = row.id]
      /\ loop' = [loop EXCEPT ![o] = "on"]
      /\ renewAt' = [renewAt EXCEPT ![o] = now + RenewInterval]
      /\ errors' = errors
      /\ creator' = [creator EXCEPT ![o] = TRUE]
  BY DEF SelectId, Hold
<1>2. /\ pc[o] = "selectId" /\ loop[o] = "off" /\ errors[o] = 0
      /\ Owner(o) /\ row.locked = t[o] + Lease /\ now < t[o] + ClaimMax
  BY DEF SelectId
<1>3. TypeOK'
  <2>1. now' \in Nat /\ row' \in Row /\ WellFormed(row)' /\ nextId' \in Nat \ {0}
    BY <1>1 DEF WellFormed
  <2>2. pc' \in [Ops -> {"idle", "held"} \cup ClaimPcs \cup DonePcs]
    BY <1>1
  <2>3. t' \in [Ops -> Nat]
    BY <1>1
  <2>4. recordId' \in [Ops -> Nat]
    BY <1>1
  <2>5. existing' \in [Ops -> Row]
    BY <1>1
  <2>6. loop' \in [Ops -> {"off", "on", "stopping"}]
    BY <1>1
  <2>7. renewAt' \in [Ops -> Nat]
    BY <1>1
  <2>8. errors' \in [Ops -> 0..MaxErrors]
    BY <1>1
  <2>9. creator' \in [Ops -> BOOLEAN]
    BY <1>1
  <2> QED
    BY <2>1, <2>2, <2>3, <2>4, <2>5, <2>6, <2>7, <2>8, <2>9
<1>4. ClockInv'
  BY <1>1, <1>2
<1>5. IdInv'
  BY <1>1, <1>2
<1>6. OwnerInv'
  BY <1>1, <1>2, SlackFacts
<1> QED
  BY <1>3, <1>4, <1>5, <1>6

\* A reader owns nothing.
LEMMA GetExistingKeeps ==
  ASSUME IInv, NEW o \in Ops, GetExisting(o)
  PROVE  IInv'
<1>1. CASE ~Present(row) \/ (row.status = "processing" /\ row.locked > t[o])
  <2>1. /\ now' = now /\ nextId' = nextId /\ row' = row
        /\ pc[o] = "get"
        /\ pc' \in {[pc EXCEPT ![o] = "busy"], [pc EXCEPT ![o] = "unavailable"]}
        /\ t' = [t EXCEPT ![o] = 0]
        /\ existing' = [existing EXCEPT ![o] = NoRow]
        /\ recordId' = recordId /\ loop' = loop /\ renewAt' = renewAt
        /\ errors' = errors /\ creator' = creator
    BY <1>1 DEF GetExisting
  <2>3. TypeOK'
    <3>1. now' \in Nat /\ row' \in Row /\ WellFormed(row)' /\ nextId' \in Nat \ {0}
      BY <2>1 DEF WellFormed
    <3>2. pc' \in [Ops -> {"idle", "held"} \cup ClaimPcs \cup DonePcs]
      BY <2>1
    <3>3. t' \in [Ops -> Nat]
      BY <2>1
    <3>4. recordId' \in [Ops -> Nat]
      BY <2>1
    <3>5. existing' \in [Ops -> Row]
      BY <2>1
    <3>6. loop' \in [Ops -> {"off", "on", "stopping"}]
      BY <2>1
    <3>7. renewAt' \in [Ops -> Nat]
      BY <2>1
    <3>8. errors' \in [Ops -> 0..MaxErrors]
      BY <2>1
    <3>9. creator' \in [Ops -> BOOLEAN]
      BY <2>1
    <3> QED
      BY <3>1, <3>2, <3>3, <3>4, <3>5, <3>6, <3>7, <3>8, <3>9
  <2>4. ClockInv'
    BY <2>1
  <2>5. IdInv'
    BY <2>1
  <2>6. OwnerInv'
    BY <2>1
  <2> QED
    BY <2>3, <2>4, <2>5, <2>6
<1>2. CASE Present(row) /\ (row.status # "processing" \/ row.locked <= t[o])
  <2>1. /\ now' = now /\ nextId' = nextId /\ row' = row
        /\ pc[o] = "get"
        /\ pc' = [pc EXCEPT ![o] = "reclaim"]
        /\ t' = t
        /\ existing' = [existing EXCEPT ![o] = row]
        /\ recordId' = recordId /\ loop' = loop /\ renewAt' = renewAt
        /\ errors' = errors /\ creator' = creator
    BY <1>2 DEF GetExisting
  <2>3. TypeOK'
    <3>1. now' \in Nat /\ row' \in Row /\ WellFormed(row)' /\ nextId' \in Nat \ {0}
      BY <2>1 DEF WellFormed
    <3>2. pc' \in [Ops -> {"idle", "held"} \cup ClaimPcs \cup DonePcs]
      BY <2>1
    <3>3. t' \in [Ops -> Nat]
      BY <2>1
    <3>4. recordId' \in [Ops -> Nat]
      BY <2>1
    <3>5. existing' \in [Ops -> Row]
      BY <2>1
    <3>6. loop' \in [Ops -> {"off", "on", "stopping"}]
      BY <2>1
    <3>7. renewAt' \in [Ops -> Nat]
      BY <2>1
    <3>8. errors' \in [Ops -> 0..MaxErrors]
      BY <2>1
    <3>9. creator' \in [Ops -> BOOLEAN]
      BY <2>1
    <3> QED
      BY <3>1, <3>2, <3>3, <3>4, <3>5, <3>6, <3>7, <3>8, <3>9
  <2>4. ClockInv'
    BY <2>1
  <2>5. IdInv'
    BY <2>1
  <2>6. OwnerInv'
    BY <2>1
  <2> QED
    BY <2>3, <2>4, <2>5, <2>6
<1> QED
  BY <1>1, <1>2

\* An owned row cannot be reclaimed: its lease is live.
LEMMA ReclaimKeeps ==
  ASSUME IInv, NEW o \in Ops, Reclaim(o)
  PROVE  IInv'
<1>1. CASE CanReclaim(row, existing[o].id, existing[o].status, t[o])
  <2>1. /\ now' = now /\ nextId' = nextId
        /\ pc[o] = "reclaim"
        /\ row.id = existing[o].id /\ row.status = existing[o].status
        /\ row.status = "processing" => row.locked <= t[o]
        /\ row' \in Row /\ row'.id = row.id /\ row'.status = "processing"
        /\ pc' = [pc EXCEPT ![o] = "held"]
        /\ t' = [t EXCEPT ![o] = 0]
        /\ existing' = [existing EXCEPT ![o] = NoRow]
        /\ recordId' = [recordId EXCEPT ![o] = existing[o].id]
        /\ loop' = [loop EXCEPT ![o] = "on"]
        /\ renewAt' = [renewAt EXCEPT ![o] = now + RenewInterval]
        /\ errors' = errors /\ creator' = creator
    BY <1>1 DEF Reclaim, Hold, CanReclaim, ReclaimedRow
  <2>2. \A p \in Ops : ~Owner(p)
    BY <2>1
  <2>3. TypeOK'
    <3>1. now' \in Nat /\ row' \in Row /\ WellFormed(row)' /\ nextId' \in Nat \ {0}
      BY <2>1 DEF WellFormed
    <3>2. pc' \in [Ops -> {"idle", "held"} \cup ClaimPcs \cup DonePcs]
      BY <2>1
    <3>3. t' \in [Ops -> Nat]
      BY <2>1
    <3>4. recordId' \in [Ops -> Nat]
      BY <2>1
    <3>5. existing' \in [Ops -> Row]
      BY <2>1
    <3>6. loop' \in [Ops -> {"off", "on", "stopping"}]
      BY <2>1
    <3>7. renewAt' \in [Ops -> Nat]
      BY <2>1
    <3>8. errors' \in [Ops -> 0..MaxErrors]
      BY <2>1
    <3>9. creator' \in [Ops -> BOOLEAN]
      BY <2>1
    <3> QED
      BY <3>1, <3>2, <3>3, <3>4, <3>5, <3>6, <3>7, <3>8, <3>9
  <2>4. ClockInv'
    BY <2>1
  <2>5. IdInv'
    BY <2>1
  <2>6. OwnerInv'
    BY <2>1, <2>2
  <2> QED
    BY <2>3, <2>4, <2>5, <2>6
<1>2. CASE ~CanReclaim(row, existing[o].id, existing[o].status, t[o])
  <2>1. /\ now' = now /\ nextId' = nextId /\ row' = row
        /\ pc[o] = "reclaim"
        /\ pc' = [pc EXCEPT ![o] = "busy"]
        /\ t' = [t EXCEPT ![o] = 0]
        /\ existing' = [existing EXCEPT ![o] = NoRow]
        /\ recordId' = recordId /\ loop' = loop /\ renewAt' = renewAt
        /\ errors' = errors /\ creator' = creator
    BY <1>2 DEF Reclaim, Hold, CanReclaim, ReclaimedRow
  <2>3. TypeOK'
    <3>1. now' \in Nat /\ row' \in Row /\ WellFormed(row)' /\ nextId' \in Nat \ {0}
      BY <2>1 DEF WellFormed
    <3>2. pc' \in [Ops -> {"idle", "held"} \cup ClaimPcs \cup DonePcs]
      BY <2>1
    <3>3. t' \in [Ops -> Nat]
      BY <2>1
    <3>4. recordId' \in [Ops -> Nat]
      BY <2>1
    <3>5. existing' \in [Ops -> Row]
      BY <2>1
    <3>6. loop' \in [Ops -> {"off", "on", "stopping"}]
      BY <2>1
    <3>7. renewAt' \in [Ops -> Nat]
      BY <2>1
    <3>8. errors' \in [Ops -> 0..MaxErrors]
      BY <2>1
    <3>9. creator' \in [Ops -> BOOLEAN]
      BY <2>1
    <3> QED
      BY <3>1, <3>2, <3>3, <3>4, <3>5, <3>6, <3>7, <3>8, <3>9
  <2>4. ClockInv'
    BY <2>1
  <2>5. IdInv'
    BY <2>1
  <2>6. OwnerInv'
    BY <2>1
  <2> QED
    BY <2>3, <2>4, <2>5, <2>6
<1> QED
  BY <1>1, <1>2

\* A renewal extends the lease; nobody else's renewal matches the row.
LEMMA RenewKeeps ==
  ASSUME IInv, NEW o \in Ops, Renew(o)
  PROVE  IInv'
<1>1. CASE CanExtend(row, recordId[o], OpId[o])
  <2>1. /\ now' = now /\ nextId' = nextId
        /\ loop[o] # "off" /\ now >= renewAt[o]
        /\ row.id = recordId[o] /\ row.fp = OpId[o] /\ row.status = "processing"
        /\ row'.id = row.id /\ row'.fp = row.fp /\ row'.status = row.status
        /\ row'.locked = now + Lease /\ row'.expires = now + TTL
        /\ row' \in Row
        /\ renewAt' = [renewAt EXCEPT ![o] = renewAt[o] + RenewInterval]
        /\ errors' = [errors EXCEPT ![o] = 0]
        /\ loop' = loop /\ pc' = pc /\ recordId' = recordId
        /\ t' = t /\ existing' = existing /\ creator' = creator
    BY <1>1 DEF Renew, CanExtend, ExtendedRow
  <2>3. TypeOK'
    <3>1. now' \in Nat /\ row' \in Row /\ WellFormed(row)' /\ nextId' \in Nat \ {0}
      BY <2>1 DEF WellFormed
    <3>2. pc' \in [Ops -> {"idle", "held"} \cup ClaimPcs \cup DonePcs]
      BY <2>1
    <3>3. t' \in [Ops -> Nat]
      BY <2>1
    <3>4. recordId' \in [Ops -> Nat]
      BY <2>1
    <3>5. existing' \in [Ops -> Row]
      BY <2>1
    <3>6. loop' \in [Ops -> {"off", "on", "stopping"}]
      BY <2>1
    <3>7. renewAt' \in [Ops -> Nat]
      BY <2>1
    <3>8. errors' \in [Ops -> 0..MaxErrors]
      BY <2>1
    <3>9. creator' \in [Ops -> BOOLEAN]
      BY <2>1
    <3> QED
      BY <3>1, <3>2, <3>3, <3>4, <3>5, <3>6, <3>7, <3>8, <3>9
  <2>4. ClockInv'
    BY <2>1
  <2>5. IdInv'
    BY <2>1
  <2>6. OwnerInv'
    BY <2>1, SlackFacts
  <2> QED
    BY <2>3, <2>4, <2>5, <2>6
<1>2. CASE ~CanExtend(row, recordId[o], OpId[o])
  <2>1. /\ now' = now /\ nextId' = nextId /\ row' = row
        /\ loop[o] # "off" /\ now >= renewAt[o]
        /\ loop' = [loop EXCEPT ![o] = "off"]
        /\ renewAt' = [renewAt EXCEPT ![o] = 0]
        /\ errors' = [errors EXCEPT ![o] = 0]
        /\ pc' = pc /\ recordId' = recordId
        /\ t' = t /\ existing' = existing /\ creator' = creator
    BY <1>2 DEF Renew, CanExtend, ExtendedRow
  <2>3. TypeOK'
    <3>1. now' \in Nat /\ row' \in Row /\ WellFormed(row)' /\ nextId' \in Nat \ {0}
      BY <2>1 DEF WellFormed
    <3>2. pc' \in [Ops -> {"idle", "held"} \cup ClaimPcs \cup DonePcs]
      BY <2>1
    <3>3. t' \in [Ops -> Nat]
      BY <2>1
    <3>4. recordId' \in [Ops -> Nat]
      BY <2>1
    <3>5. existing' \in [Ops -> Row]
      BY <2>1
    <3>6. loop' \in [Ops -> {"off", "on", "stopping"}]
      BY <2>1
    <3>7. renewAt' \in [Ops -> Nat]
      BY <2>1
    <3>8. errors' \in [Ops -> 0..MaxErrors]
      BY <2>1
    <3>9. creator' \in [Ops -> BOOLEAN]
      BY <2>1
    <3> QED
      BY <3>1, <3>2, <3>3, <3>4, <3>5, <3>6, <3>7, <3>8, <3>9
  <2>4. ClockInv'
    BY <2>1
  <2>5. IdInv'
    BY <2>1
  <2>6. OwnerInv'
    BY <1>2, <2>1 DEF CanExtend
  <2> QED
    BY <2>3, <2>4, <2>5, <2>6
<1> QED
  BY <1>1, <1>2

\* A failed renewal uses up one interval of the lease.
LEMMA RenewErrorKeeps ==
  ASSUME IInv, NEW o \in Ops, RenewError(o)
  PROVE  IInv'
<1>1. TypeOK'
  BY DEF RenewError
<1>2. ClockInv'
  BY DEF RenewError
<1>3. IdInv'
  BY DEF RenewError
<1>4. OwnerInv'
  BY SlackFacts DEF RenewError
<1> QED
  BY <1>1, <1>2, <1>3, <1>4

\* A loop that was told to stop ends.
LEMMA LoopStopsKeeps ==
  ASSUME IInv, NEW o \in Ops, LoopStops(o)
  PROVE  IInv'
<1>1. TypeOK'
  BY DEF LoopStops
<1>2. ClockInv'
  BY DEF LoopStops
<1>3. IdInv'
  BY DEF LoopStops
<1>4. OwnerInv'
  BY DEF LoopStops
<1> QED
  BY <1>1, <1>2, <1>3, <1>4

\* Only the owner releases an owned row.
LEMMA ReleaseKeeps ==
  ASSUME IInv, NEW o \in Ops, Release(o)
  PROVE  IInv'
<1>1. TypeOK'
  BY DEF Release, SucceededRow, FailedRow, WellFormed
<1>2. ClockInv'
  BY DEF Release, SucceededRow, FailedRow
<1>3. IdInv'
  BY DEF Release, SucceededRow, FailedRow
<1>4. OwnerInv'
  BY DEF Release, SucceededRow, FailedRow
<1> QED
  BY <1>1, <1>2, <1>3, <1>4

\* An acquisition that fails owns nothing.
LEMMA StoreErrorKeeps ==
  ASSUME IInv, NEW o \in Ops, StoreError(o)
  PROVE  IInv'
<1>1. TypeOK'
  BY DEF StoreError
<1>2. ClockInv'
  BY DEF StoreError
<1>3. IdInv'
  BY DEF StoreError
<1>4. OwnerInv'
  BY DEF StoreError
<1> QED
  BY <1>1, <1>2, <1>3, <1>4

\* A dead operation owns nothing.
LEMMA CrashKeeps ==
  ASSUME IInv, NEW o \in Ops, Crash(o)
  PROVE  IInv'
<1>1. TypeOK'
  BY DEF Crash
<1>2. ClockInv'
  BY DEF Crash
<1>3. IdInv'
  BY DEF Crash
<1>4. OwnerInv'
  BY DEF Crash
<1> QED
  BY <1>1, <1>2, <1>3, <1>4

\* The clean-up deletes no owned row: it expires after its lease.
LEMMA CleanupOnceKeeps ==
  ASSUME IInv, CleanupOnce
  PROVE  IInv'
<1>1. TypeOK'
  BY DEF CleanupOnce, Expired, WellFormed
<1>2. ClockInv'
  BY DEF CleanupOnce, Expired
<1>3. IdInv'
  BY DEF CleanupOnce, Expired
<1>4. OwnerInv'
  BY DEF CleanupOnce, Expired
<1> QED
  BY <1>1, <1>2, <1>3, <1>4

\* Time does not pass the end of an owner's lease: its loop is served first.
LEMMA TickKeeps ==
  ASSUME IInv, Tick
  PROVE  IInv'
<1>1. TypeOK'
  BY DEF Tick
<1>2. ClockInv'
  BY DEF Tick
<1>3. IdInv'
  BY DEF Tick
<1>4. OwnerInv'
  BY SlackFacts DEF Tick
<1> QED
  BY <1>1, <1>2, <1>3, <1>4

\* The invariant is inductive.
LEMMA Inductive == IInv /\ [Next]_vars => IInv'
<1> SUFFICES ASSUME IInv, [Next]_vars
             PROVE  IInv'
  OBVIOUS
<1>1. ASSUME NEW o \in Ops, Step(o)
      PROVE  IInv'
  BY <1>1, BeginAcquireKeeps, InsertIgnoreKeeps, SelectIdKeeps,
     GetExistingKeeps, ReclaimKeeps, RenewKeeps, RenewErrorKeeps,
     LoopStopsKeeps, ReleaseKeeps, StoreErrorKeeps, CrashKeeps DEF Step
<1>2. CASE CleanupOnce \/ Tick
  BY <1>2, CleanupOnceKeeps, TickKeeps
<1>3. CASE UNCHANGED vars
  BY <1>3 DEF vars
<1> HIDE DEF IInv
<1> QED
  BY <1>1, <1>2, <1>3 DEF Next

\* The invariant implies the properties.
LEMMA Implied == IInv => TypeOK /\ CreatorExclusive /\ LeaseLiveWhileHeld
BY DEF CreatorExclusive, LeaseLiveWhileHeld

HIDE DEF IInv, TypeOK

\* The inductive invariant holds in every reachable state.
LEMMA Invariance == Spec => []IInv
BY InitHolds, Inductive, PTL DEF Spec

\* The clock, the row and the operations keep their types.
THEOREM TypeCorrect == Spec => []TypeOK
BY Invariance, Implied, PTL

\* No other operation acquires the lock of a running operation that created
\* its row.
THEOREM CreatorExclusiveHolds == Spec => []CreatorExclusive
BY Invariance, Implied, PTL

\* renewLoop keeps the lease of such an operation alive for as long as it
\* holds the lock.
THEOREM LeaseLiveWhileHeldHolds == Spec => []LeaseLiveWhileHeld
BY Invariance, Implied, PTL

=============================================================================
