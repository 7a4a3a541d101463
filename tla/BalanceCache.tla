---------------------------- MODULE BalanceCache ----------------------------
(***************************************************************************)
(* The cached balance of one user (BillingCacheService over Redis): loaded *)
(* on a miss, built and decremented by tasks of a bounded queue that       *)
(* several workers drain, deleted by whoever cannot compute it.  A charge  *)
(* is the transaction of usageBillingRepository.Apply (module UsageBilling *)
(* has its inside) followed by finalizePostUsageBilling.  What is taken    *)
(* from the balance, or added to it, is one unit.  BillingProofs extends   *)
(* this module and UsageBilling, so its names begin with Cache.            *)
(***************************************************************************)
EXTENDS Integers, Sequences, FiniteSets

CONSTANTS Charges,    \* charged requests of the user
          Absent,     \* no cached value, no load in flight
          Workers,    \* cacheWriteWorker goroutines
          QueueSize,  \* cacheWriteBufferSize
          Balance0, Points0,   \* the wallet at the start
          MaxTopUps            \* bound: recharges and balance writes of refunds

ASSUME QueueAssumption ==
  /\ Absent \notin Int /\ QueueSize \in Nat
  /\ IsFiniteSet(Charges) /\ IsFiniteSet(Workers)
  /\ Balance0 \in Int /\ Points0 \in Nat /\ MaxTopUps \in Nat

VARIABLES balance,  \* users.balance, as committed
          points,   \* users.points_balance, as committed
          stage,       \* where each charge is
          result,   \* UsageBillingApplyResult: what was taken, and NewBalance
          topUp,    \* "idle", or "invalidate" after a recharge has committed
          topUps,   \* recharges and refund writes so far
          cached,   \* the Redis key of the balance
          load,     \* balance read by the running singleflight load
          queue,    \* cacheWriteChan
          running,  \* the task each worker executes
          drift     \* history: the entry, or a value on its way to it, may miss a change

wallet == <<balance, points>>
chargeVars == <<stage, result>>
topVars == <<topUp, topUps>>
entryVars == <<cached, load, queue, running, drift>>
cacheVars == <<wallet, chargeVars, topVars, entryVars>>

NoResult == [taken |-> {}, newBalance |-> 0]
NoTask == [kind |-> "none", value |-> 0]
SetTask(v) == [kind |-> "set", value |-> v]
DeductTask == [kind |-> "deduct", value |-> 1]
Task == [kind : {"none", "set", "deduct"}, value : Int]

(* The wallet, the charges, the entry and the bounded queue keep their types. *)
CacheTypeOK ==
  /\ balance \in Int /\ points \in Nat
  /\ stage \in [Charges -> {"idle", "sync", "done"}]
  /\ result \in [Charges -> [taken : SUBSET {"points", "balance"}, newBalance : Int]]
  /\ topUp \in {"idle", "invalidate"} /\ topUps \in 0..MaxTopUps
  /\ cached \in Int \cup {Absent} /\ load \in Int \cup {Absent}
  /\ queue \in Seq(Task) /\ Len(queue) <= QueueSize
  /\ running \in [Workers -> Task]
  /\ drift \in BOOLEAN

CacheInit ==
  /\ balance = Balance0 /\ points = Points0
  /\ stage = [c \in Charges |-> "idle"] /\ result = [c \in Charges |-> NoResult]
  /\ topUp = "idle" /\ topUps = 0
  /\ cached = Absent /\ load = Absent /\ queue = <<>>
  /\ running = [w \in Workers |-> NoTask] /\ drift = FALSE

(* Deductions in the database that have still to reach the entry. *)
Pending ==
  Cardinality({c \in Charges : stage[c] = "sync" /\ "balance" \in result[c].taken})
    + Cardinality({i \in DOMAIN queue : queue[i].kind = "deduct"})
    + Cardinality({w \in Workers : running[w].kind = "deduct"})

(* A balance read earlier is still to be written to the entry. *)
SetInFlight ==
  \/ load # Absent
  \/ \E i \in DOMAIN queue : queue[i].kind = "set"
  \/ \E w \in Workers : running[w].kind = "set"

-----------------------------------------------------------------------------
(* Mutant: one task too many. *)
FullTooLate == Len(queue) > QueueSize

(* enqueueCacheWrite: never blocks; the caller handles a full queue. *)
Full == Len(queue) >= QueueSize
Enqueue(task) == queue' = Append(queue, task)

(* deductBalanceScript: a missing entry stays missing. *)
Deducted(c) == IF c = Absent THEN Absent ELSE c - 1

(* The entry is removed; what it missed no longer matters. *)
Removed ==
  /\ cached' = Absent
  /\ drift' = (drift /\ SetInFlight)

(* InvalidateUserBalance: DEL, whose error is only logged. *)
InvalidateUserBalance ==
  \/ Removed
  \/ cached # Absent /\ drift' = TRUE /\ UNCHANGED cached

(* DeductUserBalance, whose error is only logged. *)
DeductUserBalance ==
  \/ cached' = Deducted(cached) /\ UNCHANGED drift
  \/ cached # Absent /\ drift' = TRUE /\ UNCHANGED cached

(* Mutant: a full queue drops the deduction. *)
QueueDeductBalanceDrops ==
  \/ ~Full /\ Enqueue(DeductTask) /\ UNCHANGED <<cached, drift>>
  \/ Full /\ UNCHANGED <<queue, cached, drift>>

(* QueueDeductBalance: synchronous when the queue is full. *)
QueueDeductBalance ==
  \/ ~Full /\ Enqueue(DeductTask) /\ UNCHANGED <<cached, drift>>
  \/ Full /\ DeductUserBalance /\ UNCHANGED queue

-----------------------------------------------------------------------------
(* GetUserBalance on a miss, or when Redis fails: singleflight reads the  *)
(* database once for all who wait.                                        *)
LoadBalance ==
  /\ load = Absent
  /\ load' = balance
  /\ drift' = (drift \/ Pending > 0)
  /\ UNCHANGED <<wallet, chargeVars, topVars, cached, queue, running>>

(* The loaded balance is queued for the entry; a full queue drops it. *)
EnqueueLoaded ==
  /\ load # Absent
  /\ \/ ~Full /\ Enqueue(SetTask(load))
     \/ Full /\ UNCHANGED queue
  /\ load' = Absent
  /\ UNCHANGED <<wallet, chargeVars, topVars, cached, running, drift>>

(* cacheWriteWorker takes a task. *)
TakeTask(w) ==
  /\ running[w] = NoTask /\ queue # <<>>
  /\ running' = [running EXCEPT ![w] = Head(queue)]
  /\ queue' = Tail(queue)
  /\ UNCHANGED <<wallet, chargeVars, topVars, cached, load, drift>>

(* cacheWriteWorker executes it; errors and timeouts are only logged. *)
RunTask(w) ==
  /\ \/ running[w].kind = "set" /\ cached' = running[w].value /\ UNCHANGED drift
     \/ running[w].kind = "set" /\ UNCHANGED <<cached, drift>>
     \/ running[w].kind = "deduct" /\ DeductUserBalance
  /\ running' = [running EXCEPT ![w] = NoTask]
  /\ UNCHANGED <<wallet, chargeVars, topVars, load, queue>>

(* Mutant: a positive balance is stored without a TTL. *)
ExpireExhausted ==
  /\ cached # Absent /\ cached <= 0
  /\ Removed
  /\ UNCHANGED <<wallet, chargeVars, topVars, load, queue, running>>

(* The entry's TTL ends. *)
Expire ==
  /\ cached # Absent
  /\ Removed
  /\ UNCHANGED <<wallet, chargeVars, topVars, load, queue, running>>

-----------------------------------------------------------------------------
(* deductUsageBillingWallet and the commit: the row lock on the user makes *)
(* them one step.  A user who prefers points pays with them, and with the  *)
(* balance what the points do not cover.                                   *)
ChargeCommits(c) ==
  /\ stage[c] = "idle"
  /\ \/ /\ points > 0 /\ points' = points - 1
        /\ result' = [result EXCEPT ![c].taken = {"points"}]
        /\ UNCHANGED <<balance, drift>>
     \/ \E taken \in {{"balance"}, {"points", "balance"}} :
          /\ "points" \in taken => points > 0
          /\ points' = IF "points" \in taken THEN 0 ELSE points
          /\ balance' = balance - 1
          /\ result' = [result EXCEPT ![c] = [taken |-> taken, newBalance |-> balance - 1]]
          /\ drift' = (drift \/ SetInFlight)
  /\ stage' = [stage EXCEPT ![c] = "sync"]
  /\ UNCHANGED <<topVars, cached, load, queue, running>>

ChargeEnds(c) ==
  /\ stage' = [stage EXCEPT ![c] = "done"]
  /\ result' = [result EXCEPT ![c] = NoResult]

(* balanceBelowEligibilityThreshold, without a reserve. *)
BelowThreshold(b) == b <= 0

(* finalizePostUsageBilling, syncBalanceCacheAfterDeduction: points and an *)
(* exhausted balance remove the entry, any other charge is queued.         *)
finalizePostUsageBilling(c) ==
  /\ stage[c] = "sync"
  /\ \/ "points" \in result[c].taken /\ InvalidateUserBalance /\ UNCHANGED queue
     \/ /\ result[c].taken = {"balance"}
        /\ \/ BelowThreshold(result[c].newBalance) /\ InvalidateUserBalance /\ UNCHANGED queue
           \/ ~BelowThreshold(result[c].newBalance) /\ QueueDeductBalance
  /\ ChargeEnds(c)
  /\ UNCHANGED <<wallet, topVars, load, running>>

(* The commit's answer is lost: Apply reports an error and the caller     *)
(* leaves the cache alone.                                                *)
AnswerLost(c) ==
  /\ stage[c] = "sync"
  /\ drift' = (drift \/ ("balance" \in result[c].taken /\ cached # Absent))
  /\ ChargeEnds(c)
  /\ UNCHANGED <<wallet, topVars, cached, load, queue, running>>

(* A recharge (a redeemed code) commits, and then removes the entry. *)
TopUp ==
  /\ topUp = "idle" /\ topUps < MaxTopUps
  /\ balance' = balance + 1
  /\ topUp' = "invalidate" /\ topUps' = topUps + 1
  /\ drift' = (drift \/ SetInFlight \/ cached # Absent)
  /\ UNCHANGED <<points, chargeVars, cached, load, queue, running>>

TopUpInvalidates ==
  /\ topUp = "invalidate" /\ topUp' = "idle"
  /\ InvalidateUserBalance
  /\ UNCHANGED <<wallet, chargeVars, topUps, load, queue, running>>

(* A refund deducts, or a rolled back one gives back, what the order      *)
(* credited; nobody removes the entry.                                    *)
RefundWrites ==
  /\ topUps < MaxTopUps /\ topUps' = topUps + 1
  /\ balance' \in {balance - 1, balance + 1}
  /\ drift' = (drift \/ SetInFlight \/ cached # Absent)
  /\ UNCHANGED <<points, chargeVars, topUp, cached, load, queue, running>>

(* The process dies with its queue, its workers, its load and its charges. *)
Restart ==
  /\ queue' = <<>> /\ running' = [w \in Workers |-> NoTask] /\ load' = Absent
  /\ drift' = ((drift \/ Pending > 0) /\ cached # Absent)
  /\ stage' = [c \in Charges |-> IF stage[c] = "sync" THEN "done" ELSE stage[c]]
  /\ result' = [c \in Charges |-> NoResult]
  /\ topUp' = "idle"
  /\ UNCHANGED <<wallet, cached, topUps>>

-----------------------------------------------------------------------------
CacheNext ==
  \/ LoadBalance \/ EnqueueLoaded \/ Expire
  \/ \E w \in Workers : TakeTask(w) \/ RunTask(w)
  \/ \E c \in Charges : ChargeCommits(c) \/ finalizePostUsageBilling(c) \/ AnswerLost(c)
  \/ TopUp \/ TopUpInvalidates \/ RefundWrites \/ Restart

CacheSpec == CacheInit /\ [][CacheNext]_cacheVars

(* Workers, loads and started charges go on, and an entry that is not     *)
(* renewed expires.                                                       *)
CacheFairness ==
  /\ WF_cacheVars(EnqueueLoaded) /\ WF_cacheVars(Expire) /\ WF_cacheVars(TopUpInvalidates)
  /\ \A w \in Workers : WF_cacheVars(TakeTask(w)) /\ WF_cacheVars(RunTask(w))
  /\ \A c \in Charges : WF_cacheVars(finalizePostUsageBilling(c))

CacheFairSpec == CacheSpec /\ CacheFairness

(* The cached balance is the balance in the database plus the deductions  *)
(* still on their way, in any order of the workers and with a full queue. *)
(* The exceptions (drift) last until the entry is removed: a load         *)
(* overlapped a change; Redis, the commit's answer or the process failed; *)
(* a recharge has still to remove the entry; a refund wrote the balance,  *)
(* which never touches the entry.  So no step of its own drops a charge   *)
(* on its way to the entry that eligibility is decided on.                *)
CacheTracksBalance == drift \/ cached = Absent \/ cached = balance + Pending

(* Whatever was lost or overtaken, a wrong balance does not stay in the   *)
(* cache: once the charges end, the entry is absent or right for good,    *)
(* by its TTL (a deduction renews it, a lost one does not).               *)
StaleBalanceEnds == <>[](cached = Absent \/ cached = balance)
=============================================================================
