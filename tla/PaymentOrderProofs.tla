------------------------- MODULE PaymentOrderProofs -------------------------
(***************************************************************************)
(* The safety properties of PaymentOrder, for every number of workers and  *)
(* every timeout.  The inductive invariant has four parts:                 *)
(*   PaidInv      whoever is on the way to fulfilment has seen a payment;  *)
(*   CodeInv      the redeem code counts the credits;                      *)
(*   DeliveryInv  whoever is past the delivery, and every record of it,    *)
(*                implies it;                                              *)
(*   HolderInv    unless RECHARGING was taken over, one worker holds it    *)
(*                and the audit log knows of the assignment.               *)
(* A second one rests on it: DeadlineInv, what an expiry pass can miss,    *)
(* and PaidIsAttended, which is inductive as it stands.                    *)
(***************************************************************************)
EXTENDS PaymentOrder, TLAPS

\* Statements a worker reaches only for a paid order.
PaidPcs == {"execute", "lock", "reset"} \cup FulfilPcs

PaidInv ==
    /\ paidAt => received \/ confirmed
    /\ status \in {"PAID", "RECHARGING", "COMPLETED"} => paidAt
    /\ Delivered => paidAt
    /\ \A w \in Workers : pc[w] \in PaidPcs => paidAt
    /\ \A w \in Workers : pc[w] = "toPaid" => received
    /\ \A w \in Workers : seen[w] = "PAID" => paidAt
    /\ \A w \in Workers : seen[w] # "COMPLETED"

CodeInv == credits = IF code = "used" THEN purged + 1 ELSE purged

DeliveryInv ==
    /\ \A w \in Workers : pc[w] \in DeliveredPcs \cup {"logAssigned"}
                             => Delivered
    /\ "ASSIGNED" \in audit => Delivered
    /\ status = "COMPLETED" => Delivered
    /\ rebates <= 1
    /\ rebates = 1 => Delivered /\ "REBATE" \in audit

\* The audit log knows of every assignment.
Logged == assignments = 0 \/ "ASSIGNED" \in audit

HolderInv ==
    ~lapsed =>
        /\ \A w, v \in Workers :
              pc[w] \in FulfilPcs /\ pc[v] \in FulfilPcs => w = v
        /\ \A w \in Workers : pc[w] \in FulfilPcs => status = "RECHARGING"
        /\ status # "RECHARGING" => Logged
        /\ \A w \in Workers : pc[w] \in FulfilPcs \ {"logAssigned"} => Logged
        /\ \A w \in Workers : pc[w] = "assign" => assignments = 0
        /\ assignments <= 1

IInv == TypeOK /\ PaidInv /\ CodeInv /\ DeliveryInv /\ HolderInv

USE TypesAssumption, TimesAssumption, BoundsAssumption
USE DEF IInv, TypeOK, PaidInv, CodeInv, DeliveryInv, HolderInv, PaidPcs,
        Logged, Delivered, Statuses, AuditActions, Pcs, EntryPcs, FulfilPcs,
        BalancePcs, SubPcs, DeliveredPcs, QueryPcs, AgeCap, IdleCap,
        rechargingTimeout, orderVars, clockVars, payVars, goodsVars, history,
        SetStatus, SameOrder, Goto, Return, Forget

-----------------------------------------------------------------------------

\* The invariant holds when CreateOrder has inserted the row.
LEMMA InitHolds == Init => IInv
<1> SUFFICES ASSUME Init PROVE IInv
  OBVIOUS
<1>1. TypeOK
  <2>1. pc \in [Workers -> Pcs] /\ seen \in [Workers -> Statuses]
    BY DEF Init
  <2>2. audit \subseteq AuditActions
    BY Zenon DEF Init
  <2>3. orderType \in OrderTypes /\ status \in Statuses
    BY DEF Init
  <2>4. /\ {paidAt, payable, received, inTime, confirmed, lapsed, blind,
            dropped} \subseteq BOOLEAN
        /\ code \in {"none", "unused", "used"}
        /\ creator \in {"invoke", "save", "done", "failed"}
    BY Zenon DEF Init
  <2>5. /\ age \in 0..AgeCap /\ idle \in 0..IdleCap
        /\ purged \in 0..MaxPurged /\ assignments \in 0..AssignCap
        /\ credits \in Nat /\ rebates \in Nat
    BY DEF Init
  <2>6. status \notin {"PAID", "RECHARGING", "COMPLETED"}
    BY DEF Init
  <2> QED
    BY <2>1, <2>2, <2>3, <2>4, <2>5, <2>6, Zenon
<1>2. PaidInv
  BY DEF Init
<1>3. CodeInv
  BY DEF Init
<1>4. DeliveryInv
  BY DEF Init
<1>5. HolderInv
  BY DEF Init
<1> QED
  BY <1>1, <1>2, <1>3, <1>4, <1>5

\* CreateOrder, the provider, the clock, the expiry job and the admin who
\* deletes codes keep the invariant.
LEMMA EnvironmentKeeps ==
    ASSUME IInv, Environment
    PROVE  IInv'
<1>1. CASE OpenPayment
  BY <1>1 DEF OpenPayment
<1>2. CASE SaveDetails
  BY <1>2 DEF SaveDetails
<1>3. CASE CreateFails
  BY <1>3 DEF CreateFails
<1>4. CASE CreatorStops
  BY <1>4 DEF CreatorStops
<1>5. CASE UserPays
  BY <1>5 DEF UserPays
<1>6. CASE Tick
  BY <1>6 DEF Tick
<1>7. CASE failStaleRechargingOrders
  BY <1>7 DEF failStaleRechargingOrders, Stale
<1>8. CASE DeleteRedeemCode
  BY <1>8 DEF DeleteRedeemCode
<1> QED
  BY <1>1, <1>2, <1>3, <1>4, <1>5, <1>6, <1>7, <1>8 DEF Environment

\* Taking up a request, a webhook or an expiry pass keeps the invariant.
LEMMA StartKeeps ==
    ASSUME NEW w \in Workers, IInv, Start(w)
    PROVE  IInv'
<1>1. CASE HandlePaymentNotification(w)
  BY <1>1 DEF HandlePaymentNotification
<1>2. CASE CancelOrder(w)
  BY <1>2 DEF CancelOrder
<1>3. CASE ExpireTimedOutOrders(w)
  BY <1>3 DEF ExpireTimedOutOrders
<1>4. CASE VerifyOrderByOutTradeNo(w)
  BY <1>4 DEF VerifyOrderByOutTradeNo
<1>5. CASE RetryFulfillment(w)
  BY <1>5 DEF RetryFulfillment, Retryable
<1>6. CASE AdminManualFulfillOrder(w)
  BY <1>6 DEF AdminManualFulfillOrder, Stale
<1> QED
  BY <1>1, <1>2, <1>3, <1>4, <1>5, <1>6 DEF Start

\* Every statement a worker runs keeps the invariant.
LEMMA StepKeeps ==
    ASSUME NEW w \in Workers, IInv, Step(w)
    PROVE  IInv'
<1>1. CASE toPaid(w)
  BY <1>1 DEF toPaid, Payable
<1>2. CASE toPaidMisses(w)
  BY <1>2 DEF toPaidMisses, Payable
<1>3. CASE alreadyProcessed(w)
  BY <1>3 DEF alreadyProcessed, Resumes
<1>4. CASE checkPaid(w)
  BY <1>4 DEF checkPaid
<1>5. CASE checkUnpaid(w)
  <2>1. TypeOK'
    <3>1. payable' \in BOOLEAN
      BY <1>5, Zenon DEF checkUnpaid, AfterCheck
    <3> QED
      BY <1>5, <3>1 DEF checkUnpaid, AfterCheck
  <2>2. PaidInv'
    BY <1>5 DEF checkUnpaid, AfterCheck
  <2>3. CodeInv'
    BY <1>5 DEF checkUnpaid, AfterCheck
  <2>4. DeliveryInv'
    BY <1>5 DEF checkUnpaid, AfterCheck
  <2>5. HolderInv'
    BY <1>5 DEF checkUnpaid, AfterCheck
  <2> QED
    BY <2>1, <2>2, <2>3, <2>4, <2>5
<1>6. CASE checkFails(w)
  BY <1>6 DEF checkFails, AfterCheck
<1>7. CASE cancelCore(w)
  BY <1>7 DEF cancelCore
<1>8. CASE ResetForRetry(w)
  BY <1>8 DEF ResetForRetry
<1>9. CASE MarkPaidManually(w)
  BY <1>9 DEF MarkPaidManually
<1>10. CASE ManualConflict(w)
  BY <1>10 DEF ManualConflict
<1>11. CASE UpdateManualDetails(w)
  BY <1>11 DEF UpdateManualDetails
<1>12. CASE executeFulfillment(w)
  BY <1>12 DEF executeFulfillment
<1>13. CASE LockOrder(w)
  BY <1>13 DEF LockOrder, Lockable
<1>14. CASE GetByCode(w)
  BY <1>14 DEF GetByCode, resolveRedeemAction
<1>15. CASE CreateCode(w)
  BY <1>15 DEF CreateCode
<1>16. CASE Redeem(w)
  BY <1>16 DEF Redeem, CanRedeem
<1>17. CASE RedeemRefused(w)
  BY <1>17 DEF RedeemRefused, CanRedeem
<1>18. CASE checkAudit(w)
  BY <1>18 DEF checkAudit, AssignedBefore
<1>19. CASE AssignOrExtendSubscription(w)
  <2>1. TypeOK'
    <3>1. lapsed' \in BOOLEAN
      BY <1>19, Zenon DEF AssignOrExtendSubscription
    <3> QED
      BY <1>19, <3>1 DEF AssignOrExtendSubscription
  <2>2. PaidInv'
    BY <1>19 DEF AssignOrExtendSubscription
  <2>3. CodeInv'
    BY <1>19 DEF AssignOrExtendSubscription
  <2>4. DeliveryInv'
    BY <1>19 DEF AssignOrExtendSubscription
  <2>5. HolderInv'
    BY <1>19 DEF AssignOrExtendSubscription
  <2> QED
    BY <2>1, <2>2, <2>3, <2>4, <2>5
<1>20. CASE LogAssigned(w)
  <2>1. TypeOK'
    <3>1. audit' \subseteq AuditActions /\ lapsed' \in BOOLEAN
      BY <1>20, Zenon DEF LogAssigned
    <3> QED
      BY <1>20, <3>1 DEF LogAssigned
  <2>2. PaidInv'
    BY <1>20 DEF LogAssigned
  <2>3. CodeInv'
    BY <1>20 DEF LogAssigned
  <2>4. DeliveryInv'
    BY <1>20 DEF LogAssigned
  <2>5. HolderInv'
    BY <1>20 DEF LogAssigned
  <2> QED
    BY <2>1, <2>2, <2>3, <2>4, <2>5
<1>21. CASE applyAffiliateRebateForOrder(w)
  <2>1. TypeOK'
    <3>1. audit' \subseteq AuditActions
      BY <1>21, Zenon DEF applyAffiliateRebateForOrder, RebateUnclaimed
    <3> QED
      BY <1>21, <3>1 DEF applyAffiliateRebateForOrder, RebateUnclaimed
  <2>2. PaidInv'
    BY <1>21 DEF applyAffiliateRebateForOrder, RebateUnclaimed
  <2>3. CodeInv'
    BY <1>21 DEF applyAffiliateRebateForOrder, RebateUnclaimed
  <2>4. DeliveryInv'
    BY <1>21 DEF applyAffiliateRebateForOrder, RebateUnclaimed
  <2>5. HolderInv'
    BY <1>21 DEF applyAffiliateRebateForOrder, RebateUnclaimed
  <2> QED
    BY <2>1, <2>2, <2>3, <2>4, <2>5
<1>22. CASE markCompleted(w)
  <2>1. TypeOK'
    <3>1. audit' \subseteq AuditActions
      BY <1>22, Zenon DEF markCompleted
    <3> QED
      BY <1>22, <3>1 DEF markCompleted
  <2>2. PaidInv'
    BY <1>22 DEF markCompleted
  <2>3. CodeInv'
    BY <1>22 DEF markCompleted
  <2>4. DeliveryInv'
    BY <1>22 DEF markCompleted
  <2>5. HolderInv'
    BY <1>22 DEF markCompleted
  <2> QED
    BY <2>1, <2>2, <2>3, <2>4, <2>5
<1>23. CASE FulfilmentError(w)
  BY <1>23 DEF FulfilmentError
<1>24. CASE markFailed(w)
  BY <1>24 DEF markFailed
<1> QED
  BY <1>1, <1>2, <1>3, <1>4, <1>5, <1>6, <1>7, <1>8, <1>9,
     <1>10, <1>11, <1>12, <1>13, <1>14, <1>15, <1>16, <1>17,
     <1>18, <1>19, <1>20, <1>21, <1>22, <1>23, <1>24 DEF Step

\* A crash of a worker keeps the invariant.
LEMMA CrashKeeps ==
    ASSUME NEW w \in Workers, IInv, Crash(w)
    PROVE  IInv'
BY DEF Crash

\* A step that changes nothing keeps the invariant.
LEMMA StutterKeeps ==
    ASSUME IInv, UNCHANGED vars
    PROVE  IInv'
BY DEF vars

\* The invariant is inductive.
LEMMA Inductive == IInv /\ [Next]_vars => IInv'
BY EnvironmentKeeps, StartKeeps, StepKeeps, CrashKeeps, StutterKeeps DEF Next

\* The invariant implies the properties.
LEMMA Implied ==
    IInv => /\ TypeOK /\ CreditPerCode /\ DeliveredIsPaid
            /\ CompletedIsDelivered /\ RebateOnce /\ AssignedOnce
BY DEF CreditPerCode, DeliveredIsPaid, CompletedIsDelivered, RebateOnce,
       AssignedOnce

-----------------------------------------------------------------------------
(* A second invariant: what the deadline and the expiry job rest on, and   *)
(* who attends to a PAID order.                                            *)

\* An expiry pass runs after the deadline, so that a payment it does not see
\* is late unless its query failed; and an order fails unpaid in CreateOrder
\* alone.
DeadlineInv ==
    /\ inTime => received
    /\ \A w \in Workers : pc[w] \in {"queryExpire", "expire"}
                             => age >= OrderTimeout
    /\ \A w \in Workers : pc[w] = "expire" => blind \/ ~inTime
    /\ status = "EXPIRED" => age >= OrderTimeout /\ (blind \/ ~inTime)
    /\ status = "FAILED" /\ ~paidAt => creator = "failed"

DInv == DeadlineInv /\ PaidIsAttended

\* The second invariant holds in a new order.
LEMMA DInitHolds == Init => DInv
BY DEF Init, DInv, DeadlineInv, PaidIsAttended

\* Every step keeps the deadline part.
LEMMA DeadlineKeeps ==
    ASSUME IInv, DeadlineInv, Next
    PROVE  DeadlineInv'
<1> USE DEF DeadlineInv
<1>1. CASE Environment
  BY <1>1 DEF Environment, OpenPayment, SaveDetails, CreateFails,
       CreatorStops, UserPays, Tick, failStaleRechargingOrders, Stale,
       DeleteRedeemCode
<1>2. ASSUME NEW w \in Workers, Start(w)
      PROVE  DeadlineInv'
  BY <1>2 DEF Start, HandlePaymentNotification, CancelOrder,
       ExpireTimedOutOrders, VerifyOrderByOutTradeNo, RetryFulfillment,
       AdminManualFulfillOrder
<1>3. ASSUME NEW w \in Workers, Crash(w)
      PROVE  DeadlineInv'
  BY <1>3 DEF Crash
<1>4. ASSUME NEW w \in Workers, Step(w)
      PROVE  DeadlineInv'
  <2>1. CASE toPaid(w) \/ toPaidMisses(w) \/ alreadyProcessed(w)
    BY <2>1 DEF toPaid, toPaidMisses, alreadyProcessed
  <2>2. CASE checkPaid(w) \/ checkUnpaid(w) \/ checkFails(w)
    <3>1. CASE checkPaid(w)
      BY <3>1 DEF checkPaid
    <3>2. CASE checkUnpaid(w)
      <4>1. /\ UNCHANGED <<status, paidAt, creator, age, received, inTime,
                           blind, audit>>
            /\ ~received
            /\ pc[w] \in QueryPcs
            /\ pc' = [pc EXCEPT ![w] = AfterCheck(pc[w])]
        BY <3>2 DEF checkUnpaid
      <4> QED
        BY <4>1 DEF AfterCheck
    <3>3. CASE checkFails(w)
      BY <3>3 DEF checkFails, AfterCheck
    <3> QED
      BY <2>2, <3>1, <3>2, <3>3
  <2>3. CASE cancelCore(w)
    BY <2>3 DEF cancelCore
  <2>4. CASE \/ ResetForRetry(w) \/ MarkPaidManually(w)
             \/ ManualConflict(w) \/ UpdateManualDetails(w)
             \/ executeFulfillment(w) \/ LockOrder(w)
    BY <2>4 DEF ResetForRetry, MarkPaidManually, ManualConflict,
         UpdateManualDetails, executeFulfillment, LockOrder
  <2>5. CASE \/ GetByCode(w) \/ CreateCode(w) \/ Redeem(w)
             \/ RedeemRefused(w)
    BY <2>5 DEF GetByCode, resolveRedeemAction, CreateCode, Redeem,
         RedeemRefused
  <2>6. CASE \/ checkAudit(w) \/ AssignOrExtendSubscription(w)
             \/ LogAssigned(w) \/ applyAffiliateRebateForOrder(w)
    BY <2>6 DEF checkAudit, AssignOrExtendSubscription, LogAssigned,
         applyAffiliateRebateForOrder
  <2>7. CASE markCompleted(w) \/ FulfilmentError(w) \/ markFailed(w)
    BY <2>7 DEF markCompleted, FulfilmentError, markFailed
  <2> QED
    BY <1>4, <2>1, <2>2, <2>3, <2>4, <2>5, <2>6, <2>7 DEF Step
<1> QED
  BY <1>1, <1>2, <1>3, <1>4 DEF Next

\* Every step keeps somebody at a PAID order: a worker leaves "execute" and
\* "lock" only when the status has changed, changes it, or dies.
LEMMA AttendedKeeps ==
    ASSUME IInv, PaidIsAttended, Next
    PROVE  PaidIsAttended'
<1> USE DEF PaidIsAttended
<1>1. CASE Environment
  BY <1>1 DEF Environment, OpenPayment, SaveDetails, CreateFails,
       CreatorStops, UserPays, Tick, failStaleRechargingOrders, Stale,
       DeleteRedeemCode
<1>2. ASSUME NEW w \in Workers, Start(w)
      PROVE  PaidIsAttended'
  BY <1>2 DEF Start, HandlePaymentNotification, CancelOrder,
       ExpireTimedOutOrders, VerifyOrderByOutTradeNo, RetryFulfillment,
       AdminManualFulfillOrder
<1>3. ASSUME NEW w \in Workers, Crash(w)
      PROVE  PaidIsAttended'
  BY <1>3 DEF Crash
<1>4. ASSUME NEW w \in Workers, Step(w)
      PROVE  PaidIsAttended'
  <2>1. CASE toPaid(w) \/ toPaidMisses(w) \/ alreadyProcessed(w)
    BY <2>1 DEF toPaid, toPaidMisses, alreadyProcessed
  <2>2. CASE checkPaid(w) \/ checkUnpaid(w) \/ checkFails(w)
    BY <2>2 DEF checkPaid, checkUnpaid, checkFails, AfterCheck
  <2>3. CASE cancelCore(w)
    BY <2>3 DEF cancelCore
  <2>4. CASE \/ ResetForRetry(w) \/ MarkPaidManually(w)
             \/ ManualConflict(w) \/ UpdateManualDetails(w)
    BY <2>4 DEF ResetForRetry, MarkPaidManually, ManualConflict,
         UpdateManualDetails
  <2>5. CASE executeFulfillment(w)
    BY <2>5 DEF executeFulfillment
  <2>6. CASE LockOrder(w)
    BY <2>6 DEF LockOrder, Lockable
  <2>7. CASE \/ GetByCode(w) \/ CreateCode(w) \/ Redeem(w)
             \/ RedeemRefused(w)
    BY <2>7 DEF GetByCode, resolveRedeemAction, CreateCode, Redeem,
         RedeemRefused
  <2>8. CASE \/ checkAudit(w) \/ AssignOrExtendSubscription(w)
             \/ LogAssigned(w) \/ applyAffiliateRebateForOrder(w)
    BY <2>8 DEF checkAudit, AssignOrExtendSubscription, LogAssigned,
         applyAffiliateRebateForOrder
  <2>9. CASE markCompleted(w) \/ FulfilmentError(w) \/ markFailed(w)
    BY <2>9 DEF markCompleted, FulfilmentError, markFailed
  <2> QED
    BY <1>4, <2>1, <2>2, <2>3, <2>4, <2>5, <2>6, <2>7, <2>8, <2>9 DEF Step
<1> QED
  BY <1>1, <1>2, <1>3, <1>4 DEF Next

\* The second invariant is inductive on top of the first.
LEMMA DInductive == IInv /\ DInv /\ [Next]_vars => DInv'
<1> SUFFICES ASSUME IInv, DInv, [Next]_vars
             PROVE  DInv'
  OBVIOUS
<1>1. CASE Next
  BY <1>1, DeadlineKeeps, AttendedKeeps DEF DInv
<1>2. CASE UNCHANGED vars
  BY <1>2 DEF vars, DInv, DeadlineInv, PaidIsAttended
<1> QED
  BY <1>1, <1>2

\* The second invariant implies the properties.
LEMMA DImplied == DInv => PaidInTimeIsKept /\ PaidIsAttended
BY DEF DInv, DeadlineInv, PaidInTimeIsKept

-----------------------------------------------------------------------------
(* The refinement of OrderLifecycle.                                       *)

\* A new order is a new order.
LEMMA LifecycleInit == Init => Lifecycle!Init
BY DEF Init, Lifecycle!Init

\* What the life cycle shows of an order.
visible == <<status, received, confirmed, credits, assignments>>

\* The money and the goods are what these columns say.
LEMMA SameMoney ==
    ASSUME UNCHANGED <<received, confirmed, credits, assignments>>
    PROVE  UNCHANGED Lifecycle!money
<1>1. /\ received' = received /\ confirmed' = confirmed
      /\ credits' = credits /\ assignments' = assignments
  OBVIOUS
<1>2. (received \/ confirmed)' = (received \/ confirmed)
  <2>1. (received' \/ confirmed') <=> (received \/ confirmed)
    BY <1>1
  <2> QED
    BY <2>1, Zenon
<1>3. Delivered' = Delivered
  BY <1>1, Zenon
<1> QED
  BY <1>2, <1>3, Zenon DEF Lifecycle!money

\* A step that leaves the status alone as well is invisible.
LEMMA Invisible ==
    ASSUME UNCHANGED visible
    PROVE  UNCHANGED Lifecycle!vars
<1>1. /\ status' = status
      /\ UNCHANGED <<received, confirmed, credits, assignments>>
  BY DEF visible
<1>2. UNCHANGED Lifecycle!money
  BY <1>1, SameMoney
<1> QED
  BY <1>1, <1>2, Zenon DEF Lifecycle!money, Lifecycle!vars

\* Confirming a payment, by webhook, query, retry or admin.
LEMMA AcceptStep ==
    ASSUME status \in {"PENDING", "CANCELLED", "EXPIRED", "FAILED",
                       "RECHARGING"},
           status' = "PAID", received' \/ confirmed',
           UNCHANGED <<credits, assignments>>
    PROVE  Lifecycle!Next
<1>1. (received' \/ confirmed') = TRUE
  BY Zenon
<1>2. (credits > 0 \/ assignments > 0)' = (credits > 0 \/ assignments > 0)
  BY Zenon
<1>3. Lifecycle!Accept
  BY <1>1, <1>2, Zenon DEF Lifecycle!Accept
<1> QED
  BY <1>3, Zenon DEF Lifecycle!Next

\* Crediting the balance or assigning the subscription.
LEMMA DeliverStep ==
    ASSUME received \/ confirmed, Delivered',
           UNCHANGED <<status, received, confirmed>>
    PROVE  Lifecycle!Next
<1>1. Delivered' = TRUE /\ (received' \/ confirmed') = (received \/ confirmed)
  BY Zenon
<1>2. Lifecycle!Deliver
  BY <1>1, Zenon DEF Lifecycle!Deliver
<1> QED
  BY <1>2, Zenon DEF Lifecycle!Next

\* Steps of CreateOrder, the provider, the clock, the job and the admin.
LEMMA LifecycleEnvironment ==
    ASSUME IInv, Environment
    PROVE  Lifecycle!Next \/ UNCHANGED Lifecycle!vars
<1>1. CASE \/ OpenPayment \/ SaveDetails \/ CreatorStops \/ Tick
           \/ DeleteRedeemCode
  <2>1. UNCHANGED visible
    BY <1>1 DEF OpenPayment, SaveDetails, CreatorStops, Tick,
         DeleteRedeemCode, visible
  <2> QED
    BY <2>1, Invisible
<1>2. CASE CreateFails \/ failStaleRechargingOrders
  <2>1. /\ status' = "FAILED"
        /\ UNCHANGED <<received, confirmed, credits, assignments>>
    BY <1>2 DEF CreateFails, failStaleRechargingOrders
  <2> QED
    BY <2>1, SameMoney, Zenon DEF Lifecycle!Fail, Lifecycle!Next
<1>3. CASE UserPays
  <2>1. /\ received' = TRUE
        /\ UNCHANGED <<status, credits, assignments>>
    BY <1>3 DEF UserPays
  <2>2. (received' \/ confirmed') = TRUE
    BY <2>1, Zenon
  <2>3. (credits > 0 \/ assignments > 0)' = (credits > 0 \/ assignments > 0)
    BY <2>1, Zenon
  <2>4. Lifecycle!Pay
    BY <2>1, <2>2, <2>3, Zenon DEF Lifecycle!Pay
  <2> QED
    BY <2>4, Zenon DEF Lifecycle!Next
<1> QED
  BY <1>1, <1>2, <1>3 DEF Environment

\* Steps of a worker.
LEMMA LifecycleWorker ==
    ASSUME NEW w \in Workers, IInv, IInv', Step(w)
    PROVE  Lifecycle!Next \/ UNCHANGED Lifecycle!vars
<1>1. CASE \/ toPaidMisses(w) \/ alreadyProcessed(w) \/ checkPaid(w)
           \/ checkUnpaid(w) \/ checkFails(w) \/ ManualConflict(w)
           \/ UpdateManualDetails(w) \/ executeFulfillment(w)
  <2>1. UNCHANGED visible
    BY <1>1 DEF toPaidMisses, alreadyProcessed, checkPaid, checkUnpaid,
         checkFails, ManualConflict, UpdateManualDetails, executeFulfillment,
         visible
  <2> QED
    BY <2>1, Invisible
<1>2. CASE \/ GetByCode(w) \/ CreateCode(w) \/ RedeemRefused(w)
           \/ checkAudit(w) \/ LogAssigned(w)
           \/ applyAffiliateRebateForOrder(w) \/ FulfilmentError(w)
  <2>1. UNCHANGED visible
    BY <1>2 DEF GetByCode, CreateCode, RedeemRefused, checkAudit,
         LogAssigned, applyAffiliateRebateForOrder, FulfilmentError, visible
  <2> QED
    BY <2>1, Invisible
<1>3. CASE toPaid(w)
  <2>1. /\ status \in {"PENDING", "CANCELLED", "EXPIRED", "FAILED"}
        /\ status' = "PAID" /\ received' /\ UNCHANGED <<credits, assignments>>
    BY <1>3 DEF toPaid, Payable
  <2> QED
    BY <2>1, AcceptStep
<1>4. CASE ResetForRetry(w)
  <2>1. CASE status = "FAILED"
    <3>1. /\ status' = "PAID" /\ UNCHANGED <<credits, assignments>>
          /\ received' \/ confirmed'
      BY <1>4, <2>1 DEF ResetForRetry
    <3> QED
      BY <2>1, <3>1, AcceptStep
  <2>2. CASE status # "FAILED"
    <3>1. UNCHANGED visible
      BY <1>4, <2>2 DEF ResetForRetry, visible
    <3> QED
      BY <3>1, Invisible
  <2> QED
    BY <2>1, <2>2
<1>5. CASE MarkPaidManually(w)
  <2>1. status \in {"PENDING", "CANCELLED", "EXPIRED", "FAILED", "RECHARGING"}
    BY <1>5 DEF MarkPaidManually
  <2>2. /\ status' = "PAID" /\ confirmed' /\ UNCHANGED <<credits, assignments>>
    BY <1>5 DEF MarkPaidManually
  <2> QED
    BY <2>1, <2>2, AcceptStep
<1>6. CASE cancelCore(w)
  <2>1. CASE status = "PENDING"
    <3>1. /\ status' \in {"CANCELLED", "EXPIRED"}
          /\ UNCHANGED <<received, confirmed, credits, assignments>>
      BY <1>6, <2>1 DEF cancelCore
    <3> QED
      BY <2>1, <3>1, SameMoney, Zenon DEF Lifecycle!Close, Lifecycle!Next
  <2>2. CASE status # "PENDING"
    <3>1. UNCHANGED visible
      BY <1>6, <2>2 DEF cancelCore, visible
    <3> QED
      BY <3>1, Invisible
  <2> QED
    BY <2>1, <2>2
<1>7. CASE LockOrder(w)
  <2>1. CASE Lockable
    <3>1. /\ status \in {"PAID", "FAILED"} /\ status' = "RECHARGING"
          /\ received \/ confirmed
          /\ UNCHANGED <<received, confirmed, credits, assignments>>
      BY <1>7, <2>1 DEF LockOrder, Lockable
    <3> QED
      BY <3>1, SameMoney, Zenon DEF Lifecycle!Work, Lifecycle!Next
  <2>2. CASE ~Lockable
    <3>1. UNCHANGED visible
      BY <1>7, <2>2 DEF LockOrder, visible
    <3> QED
      BY <3>1, Invisible
  <2> QED
    BY <2>1, <2>2
<1>8. CASE Redeem(w) \/ AssignOrExtendSubscription(w)
  <2>1. received \/ confirmed
    BY <1>8 DEF Redeem, AssignOrExtendSubscription
  <2>2. Delivered'
    <3>1. CASE Redeem(w)
      BY <3>1 DEF Redeem
    <3>2. CASE AssignOrExtendSubscription(w)
      <4>1. assignments' > 0
        BY <3>2 DEF AssignOrExtendSubscription
      <4> QED
        BY <4>1
    <3> QED
      BY <1>8, <3>1, <3>2
  <2>3. UNCHANGED <<status, received, confirmed>>
    BY <1>8 DEF Redeem, AssignOrExtendSubscription
  <2> QED
    BY <2>1, <2>2, <2>3, DeliverStep
<1>9. CASE markCompleted(w) \/ markFailed(w)
  <2>1. UNCHANGED <<received, confirmed, credits, assignments>>
    BY <1>9 DEF markCompleted, markFailed
  <2>2. CASE status # "RECHARGING"
    <3>1. UNCHANGED visible
      BY <1>9, <2>1, <2>2 DEF markCompleted, markFailed, visible
    <3> QED
      BY <3>1, Invisible
  <2>3. CASE status = "RECHARGING" /\ status' = "COMPLETED"
    <3>1. Delivered
      BY <1>9, <2>3 DEF markCompleted, markFailed
    <3> QED
      BY <2>1, <2>3, <3>1, SameMoney, Zenon
         DEF Lifecycle!Complete, Lifecycle!Next
  <2>4. CASE status' = "FAILED"
    BY <2>1, <2>4, SameMoney, Zenon DEF Lifecycle!Fail, Lifecycle!Next
  <2> QED
    BY <1>9, <2>2, <2>3, <2>4 DEF markCompleted, markFailed
<1> QED
  BY <1>1, <1>2, <1>3, <1>4, <1>5, <1>6, <1>7, <1>8, <1>9 DEF Step

\* Every step of a reachable order is a step of its life cycle or invisible.
LEMMA LifecycleStep ==
    ASSUME IInv, IInv', Next
    PROVE  Lifecycle!Next \/ UNCHANGED Lifecycle!vars
<1>1. ASSUME NEW w \in Workers, Start(w) \/ Crash(w)
      PROVE  UNCHANGED Lifecycle!vars
  <2>1. UNCHANGED visible
    BY <1>1 DEF Start, HandlePaymentNotification, CancelOrder,
         ExpireTimedOutOrders, VerifyOrderByOutTradeNo, RetryFulfillment,
         AdminManualFulfillOrder, Crash, visible
  <2> QED
    BY <2>1, Invisible
<1> QED
  BY <1>1, LifecycleEnvironment, LifecycleWorker DEF Next

\* The same for stuttering steps.
LEMMA LifecycleStutter == UNCHANGED vars => UNCHANGED Lifecycle!vars
BY Invisible DEF vars, visible

HIDE DEF IInv, TypeOK, PaidInv, CodeInv, DeliveryInv, HolderInv, Delivered

\* The inductive invariant holds in every reachable state.
LEMMA Invariance == Spec => []IInv
BY InitHolds, Inductive, PTL DEF Spec

\* So does the second one.
LEMMA DInvariance == Spec => []DInv
BY Invariance, DInitHolds, DInductive, PTL DEF Spec

\* The columns and the workers keep their types.
THEOREM TypeCorrect == Spec => []TypeOK
BY Invariance, Implied, PTL

\* Webhooks, queries, retries, time-outs and crashes never make doBalance
\* credit an order twice through the same redeem code row.
THEOREM CreditPerCodeHolds == Spec => []CreditPerCode
BY Invariance, Implied, PTL

\* No order is fulfilled unless the provider received its payment or an admin
\* confirmed it.
THEOREM DeliveredIsPaidHolds == Spec => []DeliveredIsPaid
BY Invariance, Implied, PTL

\* An order that markCompleted has set COMPLETED has been delivered.
THEOREM CompletedIsDeliveredHolds == Spec => []CompletedIsDelivered
BY Invariance, Implied, PTL

\* applyAffiliateRebateForOrder accrues the rebate of an order at most once
\* and only after its delivery.
THEOREM RebateOnceHolds == Spec => []RebateOnce
BY Invariance, Implied, PTL

\* doSub assigns the subscription of an order at most once while RECHARGING is
\* not taken from its worker and the assignment is logged.
THEOREM AssignedOnceHolds == Spec => []AssignedOnce
BY Invariance, Implied, PTL

\* cancelCore and alreadyProcessed lose a payment made before the deadline
\* only when checkPaid's query failed or CreateOrder had failed.
THEOREM PaidInTimeIsKeptHolds == Spec => []PaidInTimeIsKept
BY DInvariance, DImplied, PTL

\* A PAID order has a worker on its way to lock it unless one died there.
THEOREM PaidIsAttendedHolds == Spec => []PaidIsAttended
BY DInvariance, DImplied, PTL

\* The order service implements the abstract life cycle of an order.
THEOREM ImplementsLifecycle == Spec => FollowsLifecycle
<1>1. IInv /\ IInv' /\ [Next]_vars => [Lifecycle!Next]_(Lifecycle!vars)
  BY LifecycleStep, LifecycleStutter
<1> QED
  BY <1>1, Invariance, LifecycleInit, PTL
     DEF Spec, FollowsLifecycle, Lifecycle!Spec

=============================================================================
