---------------------------- MODULE PaymentOrder ----------------------------
(***************************************************************************)
(* One payment order of the payment service, from the moment CreateOrder   *)
(* has inserted its row until it is delivered: provider call, webhook and  *)
(* query confirmation, cancellation, expiry, fulfilment of a balance or a  *)
(* subscription order, admin retry and manual fulfilment.                  *)
(*                                                                         *)
(* Every request, webhook delivery or background pass that touches the     *)
(* order is run by a worker; a step of a worker is one SQL statement or    *)
(* transaction, or one answer of the payment provider.  Any number of      *)
(* workers (of any number of server instances) interleave.                 *)
(*                                                                         *)
(* Time is kept as two ages in units of the model: the order's age since   *)
(* created_at and the row's age since updated_at, which every UPDATE       *)
(* resets.  Both saturate above the largest limit the code compares with.  *)
(***************************************************************************)
EXTENDS Integers, FiniteSets

CONSTANTS
    Workers,        \* requests, webhook deliveries and expiry passes
    OrderTypes,     \* order types to consider
    OrderTimeout,   \* payment config OrderTimeoutMin: expires_at - created_at
    Grace,          \* paymentGraceMinutes
    AssignCap,      \* bound: assignments are counted up to this number
    MaxPurged       \* bound: used redeem codes an admin may delete

ASSUME TypesAssumption == OrderTypes \subseteq {"balance", "subscription"}

ASSUME TimesAssumption ==
    /\ OrderTimeout \in Nat \ {0}
    /\ Grace \in Nat \ {0}

ASSUME BoundsAssumption ==
    /\ AssignCap \in Nat
    /\ AssignCap >= 2
    /\ MaxPurged \in Nat

VARIABLES
    orderType,      \* order_type, never written after the insert
    status,         \* status column
    paidAt,         \* paid_at is set
    age,            \* time since created_at
    idle,           \* time since updated_at
    creator,        \* where CreateOrder is, or how it ended
    payable,        \* the provider holds an open payment for the order
    received,       \* the provider has received the money
    inTime,         \* ... and did so before expires_at
    confirmed,      \* an admin has vouched for the payment
    code,           \* the order's redeem code row
    credits,        \* times the user's balance was credited for the order
    purged,         \* times the order's used redeem code was deleted
    assignments,    \* times the order's subscription was assigned or extended
    rebates,        \* times the inviter's rebate was accrued
    audit,          \* audit log actions of the order that some code reads
    lapsed,         \* RECHARGING was taken from its holder, an assignment
                    \* left no audit row, or the row could not be read
                    \* (history)
    blind,          \* checkPaid missed a payment made in time (history)
    dropped,        \* a worker died with a PAID order (history)
    pc,             \* where each worker is
    seen            \* the status AdminManualFulfillOrder read

orderVars  == <<orderType, status, paidAt>>
clockVars  == <<age, idle>>
payVars    == <<payable, received, inTime>>
history    == <<blind, dropped>>
goodsVars  == <<code, credits, purged, assignments, rebates>>
vars == <<orderType, status, paidAt, age, idle, creator, payable, received,
          inTime, confirmed, code, credits, purged, assignments, rebates,
          audit, lapsed, blind, dropped, pc, seen>>

\* Statuses of an order before any refund (PaymentRefund has the others).
Statuses == {"PENDING", "PAID", "RECHARGING", "COMPLETED", "EXPIRED",
             "CANCELLED", "FAILED"}

AuditActions == {"ASSIGNED", "REBATE"}

\* rechargingTimeout: the configured timeout, at least the grace period.
rechargingTimeout == IF OrderTimeout < Grace THEN Grace ELSE OrderTimeout

AgeCap  == OrderTimeout + Grace + 1
IdleCap == rechargingTimeout + 1

\* Workers that hold the RECHARGING lock, by the statement they run next.
BalancePcs == {"getCode", "createCode", "redeem"}
SubPcs     == {"checkAudit", "assign", "logAssigned"}
DeliveredPcs == {"rebate", "complete"}
FulfilPcs  == BalancePcs \cup SubPcs \cup DeliveredPcs \cup {"markFailed"}

\* Workers that have not locked the order.
EntryPcs == {"toPaid", "already", "execute", "lock", "reset", "manual",
             "queryCancel", "queryExpire", "queryVerify", "cancel", "expire"}

Pcs == {"idle"} \cup EntryPcs \cup FulfilPcs

-----------------------------------------------------------------------------
(* Shorthands.                                                             *)

\* An UPDATE of the order row that sets its status.
SetStatus(s) == status' = s /\ idle' = 0

SameOrder == UNCHANGED <<status, idle>>

Goto(w, p) == pc' = [pc EXCEPT ![w] = p]

Return(w) == Goto(w, "idle")

\* The status a manual fulfilment read is local to it.
Forget(w) == seen' = [seen EXCEPT ![w] = "PENDING"]

\* The order has reached the buyer.
Delivered == credits > 0 \/ assignments > 0

-----------------------------------------------------------------------------
(* CreateOrder, after the insert, and the payment provider.                *)

Init ==
    /\ orderType \in OrderTypes
    /\ status = "PENDING"
    /\ paidAt = FALSE
    /\ age = 0
    /\ idle = 0
    /\ creator = "invoke"
    /\ payable = FALSE
    /\ received = FALSE
    /\ inTime = FALSE
    /\ confirmed = FALSE
    /\ code = "none"
    /\ credits = 0
    /\ purged = 0
    /\ assignments = 0
    /\ rebates = 0
    /\ audit = {}
    /\ lapsed = FALSE
    /\ blind = FALSE
    /\ dropped = FALSE
    /\ pc = [w \in Workers |-> "idle"]
    /\ seen = [w \in Workers |-> "PENDING"]

\* prov.CreatePayment opens the payment; its answer may still be lost.
OpenPayment ==
    /\ creator = "invoke"
    /\ creator' = "save"
    /\ payable' = TRUE
    /\ UNCHANGED <<orderVars, clockVars, received, inTime, confirmed,
                   goodsVars, audit, lapsed, pc, seen, history>>

\* invokeProvider stores the provider's trade number and pay link.
SaveDetails ==
    /\ creator = "save"
    /\ creator' = "done"
    /\ idle' = 0
    /\ UNCHANGED <<orderVars, age, payVars, confirmed, goodsVars, audit,
                   lapsed, pc, seen, history>>

\* invokeProvider returned an error, before or after the provider opened the
\* payment: the status is overwritten whatever it is by now.
CreateFails ==
    /\ creator \in {"invoke", "save"}
    /\ creator' = "failed"
    /\ SetStatus("FAILED")
    /\ lapsed' = (lapsed \/ status = "RECHARGING")
    /\ UNCHANGED <<orderType, paidAt, age, payVars, confirmed, goodsVars,
                   audit, pc, seen, history>>

\* The process ends, or the UPDATE itself fails, before CreateOrder's last
\* write: the order stays as it is.
CreatorStops ==
    /\ creator \in {"invoke", "save"}
    /\ creator' = "done"
    /\ UNCHANGED <<orderVars, clockVars, payVars, confirmed, goodsVars, audit,
                   lapsed, pc, seen, history>>

\* The user pays at the provider (external).
UserPays ==
    /\ payable
    /\ ~received
    /\ received' = TRUE
    /\ inTime' = (age < OrderTimeout)
    /\ UNCHANGED <<orderVars, clockVars, creator, payable, confirmed,
                   goodsVars, audit, lapsed, pc, seen, history>>

\* Time passes.  No code asks how old updated_at is in another status.
Tick ==
    /\ age' = IF age < AgeCap THEN age + 1 ELSE age
    /\ idle' = IF status \in {"PAID", "RECHARGING", "EXPIRED"} /\ idle < IdleCap
               THEN idle + 1 ELSE idle
    /\ <<age, idle>>' # <<age, idle>>
    /\ UNCHANGED <<orderVars, creator, payVars, confirmed, goodsVars, audit,
                   lapsed, pc, seen, history>>

-----------------------------------------------------------------------------
(* Confirmation: HandlePaymentNotification, confirmPayment, toPaid.        *)

\* A webhook delivery, first or repeated, that passes the checks of
\* confirmPayment; one that fails them changes nothing.
HandlePaymentNotification(w) ==
    /\ pc[w] = "idle"
    /\ received
    /\ Goto(w, "toPaid")
    /\ UNCHANGED <<orderVars, clockVars, creator, payVars, confirmed,
                   goodsVars, audit, lapsed, seen, history>>

\* The WHERE clause of toPaid.
Payable ==
    \/ status \in {"PENDING", "CANCELLED"}
    \/ status = "FAILED" /\ age <= OrderTimeout + Grace
    \/ status = "EXPIRED" /\ idle <= Grace

\* Mutant: the UPDATE forgets paid_at.
toPaidWithoutTime(w) ==
    /\ pc[w] = "toPaid"
    /\ Payable
    /\ SetStatus("PAID")
    /\ Goto(w, "execute")
    /\ UNCHANGED <<orderType, paidAt, age, creator, payVars, confirmed,
                   goodsVars, audit, lapsed, seen, history>>

\* Mutant: the payment is recorded and the fulfilment left to somebody else.
toPaidOnly(w) ==
    /\ pc[w] = "toPaid"
    /\ Payable
    /\ SetStatus("PAID")
    /\ paidAt' = TRUE
    /\ Return(w)
    /\ UNCHANGED <<orderType, age, creator, payVars, confirmed, goodsVars,
                   audit, lapsed, seen, history>>

toPaid(w) ==
    /\ pc[w] = "toPaid"
    /\ Payable
    /\ SetStatus("PAID")
    /\ paidAt' = TRUE
    /\ Goto(w, "execute")
    /\ UNCHANGED <<orderType, age, creator, payVars, confirmed, goodsVars,
                   audit, lapsed, seen, history>>

toPaidMisses(w) ==
    /\ pc[w] = "toPaid"
    /\ ~Payable
    /\ Goto(w, "already")
    /\ UNCHANGED <<orderVars, clockVars, creator, payVars, confirmed,
                   goodsVars, audit, lapsed, seen, history>>

\* alreadyProcessed: only a FAILED order that was paid before is taken up
\* again; a payment for an expired order, or for one that failed unpaid, is
\* dropped with an audit row that no code reads.
Resumes == status = "FAILED" /\ paidAt

alreadyProcessed(w) ==
    /\ pc[w] = "already"
    /\ Goto(w, IF Resumes THEN "execute" ELSE "idle")
    /\ UNCHANGED <<orderVars, clockVars, creator, payVars, confirmed,
                   goodsVars, audit, lapsed, seen, history>>

-----------------------------------------------------------------------------
(* CancelOrder, AdminCancelOrder, the expiry job, VerifyOrderByOutTradeNo. *)

CancelOrder(w) ==
    /\ pc[w] = "idle"
    /\ status = "PENDING"
    /\ Goto(w, "queryCancel")
    /\ UNCHANGED <<orderVars, clockVars, creator, payVars, confirmed,
                   goodsVars, audit, lapsed, seen, history>>

\* Mutant: the job looks for pending orders of any age.
ExpirePendingOrders(w) ==
    /\ pc[w] = "idle"
    /\ status = "PENDING"
    /\ Goto(w, "queryExpire")
    /\ UNCHANGED <<orderVars, clockVars, creator, payVars, confirmed,
                   goodsVars, audit, lapsed, seen, history>>

ExpireTimedOutOrders(w) ==
    /\ pc[w] = "idle"
    /\ status = "PENDING"
    /\ age >= OrderTimeout
    /\ Goto(w, "queryExpire")
    /\ UNCHANGED <<orderVars, clockVars, creator, payVars, confirmed,
                   goodsVars, audit, lapsed, seen, history>>

VerifyOrderByOutTradeNo(w) ==
    /\ pc[w] = "idle"
    /\ status \in {"PENDING", "EXPIRED"}
    /\ Goto(w, "queryVerify")
    /\ UNCHANGED <<orderVars, clockVars, creator, payVars, confirmed,
                   goodsVars, audit, lapsed, seen, history>>

QueryPcs == {"queryCancel", "queryExpire", "queryVerify"}

\* Where a caller of checkPaid goes on when the answer is not "paid".
AfterCheck(p) ==
    IF p = "queryCancel" THEN "cancel"
    ELSE IF p = "queryExpire" THEN "expire" ELSE "idle"

\* checkPaid learns that the order is paid: it may store the upstream trade
\* number, which touches updated_at, and replays the notification.
checkPaid(w) ==
    /\ pc[w] \in QueryPcs
    /\ received
    /\ idle' \in {idle, 0}
    /\ Goto(w, "toPaid")
    /\ UNCHANGED <<orderVars, age, creator, payVars, confirmed, goodsVars,
                   audit, lapsed, seen, history>>

\* checkPaid finds the order unpaid and closes it at providers that can.
checkUnpaid(w) ==
    /\ pc[w] \in QueryPcs
    /\ ~received
    /\ payable' \in {payable, FALSE}
    /\ Goto(w, AfterCheck(pc[w]))
    /\ UNCHANGED <<orderVars, clockVars, creator, received, inTime, confirmed,
                   goodsVars, audit, lapsed, seen, history>>

\* No provider, a query error or an invalid amount: the caller goes on as if
\* the order were unpaid.
checkFails(w) ==
    /\ pc[w] \in QueryPcs
    /\ Goto(w, AfterCheck(pc[w]))
    /\ blind' = (blind \/ inTime)
    /\ UNCHANGED <<orderVars, clockVars, creator, payVars, confirmed,
                   goodsVars, audit, lapsed, seen, dropped>>

\* Mutant: the UPDATE does not test that the order is still PENDING.
cancelAnyStatus(w) ==
    /\ pc[w] \in {"cancel", "expire"}
    /\ SetStatus(IF pc[w] = "cancel" THEN "CANCELLED" ELSE "EXPIRED")
    /\ Return(w)
    /\ UNCHANGED <<orderType, paidAt, age, creator, payVars, confirmed,
                   goodsVars, audit, lapsed, seen, history>>

\* cancelCore's transaction.
cancelCore(w) ==
    /\ pc[w] \in {"cancel", "expire"}
    /\ IF status = "PENDING"
       THEN SetStatus(IF pc[w] = "cancel" THEN "CANCELLED" ELSE "EXPIRED")
       ELSE SameOrder
    /\ Return(w)
    /\ UNCHANGED <<orderType, paidAt, age, creator, payVars, confirmed,
                   goodsVars, audit, lapsed, seen, history>>

\* Mutant: the job looks for stale orders among the PAID ones.
StalePaid == status = "PAID" /\ idle >= rechargingTimeout

\* The expiry job fails an order that has been RECHARGING for too long.
Stale == status = "RECHARGING" /\ idle >= rechargingTimeout

failStaleRechargingOrders ==
    /\ Stale
    /\ SetStatus("FAILED")
    /\ lapsed' = TRUE
    /\ UNCHANGED <<orderType, paidAt, age, creator, payVars, confirmed,
                   goodsVars, audit, pc, seen, history>>

-----------------------------------------------------------------------------
(* Admin: RetryFulfillment, AdminManualFulfillOrder, redeem code deletion. *)

\* Mutant: the retry does not ask for paid_at.
RetryableUnpaid == status \in {"FAILED", "PAID"}

Retryable == paidAt /\ status \in {"FAILED", "PAID"}

RetryFulfillment(w) ==
    /\ pc[w] = "idle"
    /\ Retryable
    /\ Goto(w, "reset")
    /\ UNCHANGED <<orderVars, clockVars, creator, payVars, confirmed,
                   goodsVars, audit, lapsed, seen, history>>

\* The reset ignores how many rows it changed.
ResetForRetry(w) ==
    /\ pc[w] = "reset"
    /\ IF status \in {"FAILED", "PAID"} THEN SetStatus("PAID") ELSE SameOrder
    /\ Goto(w, "execute")
    /\ UNCHANGED <<orderType, paidAt, age, creator, payVars, confirmed,
                   goodsVars, audit, lapsed, seen, history>>

AdminManualFulfillOrder(w) ==
    /\ pc[w] = "idle"
    /\ status # "COMPLETED"
    /\ status = "RECHARGING" => Stale
    /\ seen' = [seen EXCEPT ![w] = status]
    /\ Goto(w, "manual")
    /\ UNCHANGED <<orderVars, clockVars, creator, payVars, confirmed,
                   goodsVars, audit, lapsed, history>>

\* The order is moved to PAID from the status that was read ...
MarkPaidManually(w) ==
    /\ pc[w] = "manual"
    /\ seen[w] # "PAID"
    /\ status = seen[w]
    /\ SetStatus("PAID")
    /\ paidAt' = TRUE
    /\ confirmed' = TRUE
    /\ lapsed' = (lapsed \/ status = "RECHARGING")
    /\ Goto(w, "execute")
    /\ Forget(w)
    /\ UNCHANGED <<orderType, age, creator, payVars, goodsVars, audit, history>>

\* ... a changed status is a conflict ...
ManualConflict(w) ==
    /\ pc[w] = "manual"
    /\ seen[w] # "PAID"
    /\ status # seen[w]
    /\ Return(w)
    /\ Forget(w)
    /\ UNCHANGED <<orderVars, clockVars, creator, payVars, confirmed,
                   goodsVars, audit, lapsed, history>>

\* ... and an order read as PAID at most has its payment details replaced.
UpdateManualDetails(w) ==
    /\ pc[w] = "manual"
    /\ seen[w] = "PAID"
    /\ idle' \in {idle, 0}
    /\ Goto(w, "execute")
    /\ Forget(w)
    /\ UNCHANGED <<orderVars, age, creator, payVars, confirmed, goodsVars,
                   audit, lapsed, history>>

\* The admin API (adminServiceImpl.DeleteRedeemCode) hands the id straight to
\* redeemCodeRepository.Delete: a code is deleted whatever its status.
DeleteRedeemCode ==
    /\ code # "none"
    /\ code = "used" => purged < MaxPurged
    /\ purged' = IF code = "used" THEN purged + 1 ELSE purged
    /\ code' = "none"
    /\ UNCHANGED <<orderVars, clockVars, creator, payVars, confirmed, credits,
                   assignments, rebates, audit, lapsed, pc, seen, history>>

-----------------------------------------------------------------------------
(* Fulfilment: executeFulfillment, Execute{Balance,Subscription}Fulfillment.*)

\* The status check before the lock.
executeFulfillment(w) ==
    /\ pc[w] = "execute"
    /\ Goto(w, IF status \in {"PAID", "FAILED"} THEN "lock" ELSE "idle")
    /\ UNCHANGED <<orderVars, clockVars, creator, payVars, confirmed,
                   goodsVars, audit, lapsed, seen, history>>

\* Mutant: the lock does not exclude an order that is being fulfilled.
LockableAgain == status \in {"PAID", "FAILED", "RECHARGING"}

Lockable == status \in {"PAID", "FAILED"}

\* The conditional UPDATE to RECHARGING; the loser returns without error.
LockOrder(w) ==
    /\ pc[w] = "lock"
    /\ IF Lockable
       THEN /\ SetStatus("RECHARGING")
            /\ Goto(w, IF orderType = "balance" THEN "getCode"
                                                ELSE "checkAudit")
       ELSE SameOrder /\ Return(w)
    /\ UNCHANGED <<orderType, paidAt, age, creator, payVars, confirmed,
                   goodsVars, audit, lapsed, seen, history>>

\* Mutant: an existing code, used or not, counts as redeemed.
resolveAnyCode(c) == IF c = "none" THEN "createCode" ELSE "rebate"

\* doBalance: resolveRedeemAction on the code found; a failed lookup counts
\* as "no such code".
resolveRedeemAction(c) ==
    IF c = "none" THEN "createCode" ELSE IF c = "used" THEN "rebate"
                                                       ELSE "redeem"

GetByCode(w) ==
    /\ pc[w] = "getCode"
    /\ \/ Goto(w, resolveRedeemAction(code))
       \/ Goto(w, resolveRedeemAction("none"))
    /\ UNCHANGED <<orderVars, clockVars, creator, payVars, confirmed,
                   goodsVars, audit, lapsed, seen, history>>

\* The code column is unique.
CreateCode(w) ==
    /\ pc[w] = "createCode"
    /\ IF code = "none"
       THEN code' = "unused" /\ Goto(w, "redeem")
       ELSE code' = code /\ Goto(w, "markFailed")
    /\ UNCHANGED <<orderVars, clockVars, creator, payVars, confirmed, credits,
                   purged, assignments, rebates, audit, lapsed, seen, history>>

\* Mutant: the UPDATE of the code does not test its status.
CanRedeemUsed == code \in {"unused", "used"}

\* Redeem's transaction marks the code used and credits the balance; an
\* error after the commit is an error of the fulfilment all the same.
CanRedeem == code = "unused"

Redeem(w) ==
    /\ pc[w] = "redeem"
    /\ CanRedeem
    /\ code' = "used"
    /\ credits' = credits + 1
    /\ \/ Goto(w, "rebate")
       \/ Goto(w, "markFailed")
    /\ UNCHANGED <<orderVars, clockVars, creator, payVars, confirmed, purged,
                   assignments, rebates, audit, lapsed, seen, history>>

\* The code is used already or gone.
RedeemRefused(w) ==
    /\ pc[w] = "redeem"
    /\ ~CanRedeem
    /\ Goto(w, "markFailed")
    /\ UNCHANGED <<orderVars, clockVars, creator, payVars, confirmed,
                   goodsVars, audit, lapsed, seen, history>>

\* doSub: the audit log tells whether the subscription was assigned.
AssignedBefore == "ASSIGNED" \in audit

\* hasAuditLog drops the error of its query: "not assigned" is the answer.
checkAudit(w) ==
    /\ pc[w] = "checkAudit"
    /\ \/ /\ Goto(w, IF AssignedBefore THEN "rebate" ELSE "assign")
          /\ lapsed' = lapsed
       \/ Goto(w, "assign") /\ lapsed' = (lapsed \/ AssignedBefore)
    /\ UNCHANGED <<orderVars, clockVars, creator, payVars, confirmed,
                   goodsVars, audit, seen, history>>

\* An existing subscription is read again after the commit, and the error of
\* that read is an error of the fulfilment.
AssignOrExtendSubscription(w) ==
    /\ pc[w] = "assign"
    /\ assignments' = IF assignments < AssignCap THEN assignments + 1
                                                 ELSE assignments
    /\ \/ Goto(w, "logAssigned") /\ lapsed' = lapsed
       \/ Goto(w, "markFailed") /\ lapsed' = TRUE
    /\ UNCHANGED <<orderVars, clockVars, creator, payVars, confirmed, code,
                   credits, purged, rebates, audit, seen, history>>

\* writeAuditLog only logs its own failure.
LogAssigned(w) ==
    /\ pc[w] = "logAssigned"
    /\ \/ audit' = audit \cup {"ASSIGNED"} /\ lapsed' = lapsed
       \/ audit' = audit /\ lapsed' = TRUE
    /\ Goto(w, "rebate")
    /\ UNCHANGED <<orderVars, clockVars, creator, payVars, confirmed,
                   goodsVars, seen, history>>

\* Mutant: the claim ignores an earlier claim.
RebateAlways == TRUE

\* applyAffiliateRebateForOrder: one transaction that claims the audit row
\* and accrues the rebate, or records that there is none to accrue.
RebateUnclaimed == "REBATE" \notin audit

applyAffiliateRebateForOrder(w) ==
    /\ pc[w] = "rebate"
    /\ IF RebateUnclaimed
       THEN /\ audit' = audit \cup {"REBATE"}
            /\ rebates' \in {rebates, rebates + 1}
       ELSE UNCHANGED <<audit, rebates>>
    /\ Goto(w, "complete")
    /\ UNCHANGED <<orderVars, clockVars, creator, payVars, confirmed, code,
                   credits, purged, assignments, lapsed, seen, history>>

\* markCompleted: the order is completed if it is still RECHARGING; the
\* *_SUCCESS audit row is written either way, or its loss is only logged.
markCompleted(w) ==
    /\ pc[w] = "complete"
    /\ IF status = "RECHARGING" THEN SetStatus("COMPLETED") ELSE SameOrder
    /\ \/ audit' = audit
       \/ orderType = "subscription" /\ audit' = audit \cup {"ASSIGNED"}
    /\ Return(w)
    /\ UNCHANGED <<orderType, paidAt, age, creator, payVars, confirmed,
                   goodsVars, lapsed, seen, history>>

\* Any error after the lock ends in markFailed.
FulfilmentError(w) ==
    /\ pc[w] \in FulfilPcs \ {"getCode", "logAssigned", "markFailed"}
    /\ Goto(w, "markFailed")
    /\ UNCHANGED <<orderVars, clockVars, creator, payVars, confirmed,
                   goodsVars, audit, lapsed, seen, history>>

markFailed(w) ==
    /\ pc[w] = "markFailed"
    /\ IF status = "RECHARGING" THEN SetStatus("FAILED") ELSE SameOrder
    /\ Return(w)
    /\ UNCHANGED <<orderType, paidAt, age, creator, payVars, confirmed,
                   goodsVars, audit, lapsed, seen, history>>

\* A database error before the lock or in markFailed ends the request; a
\* crash ends it anywhere.
Crash(w) ==
    /\ pc[w] # "idle"
    /\ Return(w)
    /\ Forget(w)
    /\ dropped' = \/ dropped
                  \/ status = "PAID" /\ pc[w] \in {"execute", "lock"}
    /\ UNCHANGED <<orderVars, clockVars, creator, payVars, confirmed,
                   goodsVars, audit, lapsed, blind>>

-----------------------------------------------------------------------------

Step(w) ==
    \/ toPaid(w) \/ toPaidMisses(w) \/ alreadyProcessed(w)
    \/ checkPaid(w) \/ checkUnpaid(w) \/ checkFails(w) \/ cancelCore(w)
    \/ ResetForRetry(w)
    \/ MarkPaidManually(w) \/ ManualConflict(w) \/ UpdateManualDetails(w)
    \/ executeFulfillment(w) \/ LockOrder(w)
    \/ GetByCode(w) \/ CreateCode(w) \/ Redeem(w) \/ RedeemRefused(w)
    \/ checkAudit(w) \/ AssignOrExtendSubscription(w) \/ LogAssigned(w)
    \/ applyAffiliateRebateForOrder(w) \/ markCompleted(w)
    \/ FulfilmentError(w) \/ markFailed(w)

Start(w) ==
    \/ HandlePaymentNotification(w) \/ CancelOrder(w)
    \/ ExpireTimedOutOrders(w) \/ VerifyOrderByOutTradeNo(w)
    \/ RetryFulfillment(w) \/ AdminManualFulfillOrder(w)

Environment ==
    \/ OpenPayment \/ SaveDetails \/ CreateFails \/ CreatorStops
    \/ UserPays \/ Tick \/ failStaleRechargingOrders \/ DeleteRedeemCode

Next == Environment \/ \E w \in Workers : Start(w) \/ Step(w) \/ Crash(w)

Spec == Init /\ [][Next]_vars

\* Time passes and the expiry job runs every minute for ever.
JobFairness == WF_vars(Tick) /\ WF_vars(failStaleRechargingOrders)

JobSpec == Spec /\ JobFairness

-----------------------------------------------------------------------------
(* Properties.                                                             *)

\* The variables keep their types, and the row its shape: an order that is
\* being fulfilled or is completed has its paid_at, on which RetryFulfillment
\* and alreadyProcessed rely.
TypeOK ==
    /\ orderType \in OrderTypes
    /\ status \in Statuses
    /\ paidAt \in BOOLEAN
    /\ status \in {"PAID", "RECHARGING", "COMPLETED"} => paidAt
    /\ age \in 0..AgeCap
    /\ idle \in 0..IdleCap
    /\ creator \in {"invoke", "save", "done", "failed"}
    /\ payable \in BOOLEAN
    /\ received \in BOOLEAN
    /\ inTime \in BOOLEAN
    /\ confirmed \in BOOLEAN
    /\ code \in {"none", "unused", "used"}
    /\ credits \in Nat
    /\ purged \in 0..MaxPurged
    /\ assignments \in 0..AssignCap
    /\ rebates \in Nat
    /\ audit \subseteq AuditActions
    /\ lapsed \in BOOLEAN
    /\ blind \in BOOLEAN
    /\ dropped \in BOOLEAN
    /\ pc \in [Workers -> Pcs]
    /\ seen \in [Workers -> Statuses]

\* However many webhooks, queries, retries, time-outs and crashes an order
\* sees, its balance is credited once for each life of its redeem code: a
\* second credit takes an admin who deletes the used code.
CreditPerCode == credits <= 1 + purged

\* The goods of an order go out only if the provider received the money or
\* an admin vouched for it: in particular a FAILED order that was never paid
\* is not fulfilled by a late retry.
DeliveredIsPaid == Delivered => received \/ confirmed

\* An order shown as COMPLETED has been delivered, although markCompleted
\* and markFailed of several workers race for the row.
CompletedIsDelivered == status = "COMPLETED" => Delivered

\* The inviter's rebate is accrued at most once, and only for an order that
\* has been delivered.
RebateOnce == rebates <= 1 /\ (rebates = 1 => Delivered)

\* A subscription order extends the subscription once as long as nobody
\* takes RECHARGING from a worker and the assignment's audit row is written
\* and read.
AssignedOnce == ~lapsed => assignments <= 1

\* alreadyProcessed drops the payment of an order that is EXPIRED, or FAILED
\* with no paid_at.  A payment made before the deadline meets such an order
\* only if a query of the provider (checkPaid) failed, or CreateOrder itself
\* had failed after the provider opened the payment: webhooks that come late
\* or never do not lose the payment of an order that was created.
PaidInTimeIsKept ==
    inTime => /\ status = "EXPIRED" => blind
              /\ status = "FAILED" /\ ~paidAt => creator = "failed"

\* alreadyProcessed and the expiry job leave a PAID order to the worker that
\* set the status, whichever of several confirmations, retries and manual
\* fulfilments that was: somebody is on the way to lock it, unless a worker
\* died in between, which only an admin's retry repairs.
PaidIsAttended ==
    status = "PAID"
        => dropped \/ \E w \in Workers : pc[w] \in {"execute", "lock"}

\* The order as its buyer sees it.
Lifecycle == INSTANCE OrderLifecycle WITH
    paid <- received \/ confirmed,
    delivered <- Delivered,
    returned <- FALSE

\* However the workers interleave, die and overtake each other, the order
\* goes through its life cycle: it is closed only before a payment is
\* accepted, worked on only when paid, delivered for good and completed only
\* after delivery.
FollowsLifecycle == Lifecycle!Spec

\* No order stays RECHARGING for ever, whatever happens to its worker.
RechargingEnds == (status = "RECHARGING") ~> (status # "RECHARGING")

=============================================================================
