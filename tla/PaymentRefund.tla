---------------------------- MODULE PaymentRefund ----------------------------
(***************************************************************************)
(* The refund of one completed payment order: RequestRefund, PrepareRefund *)
(* and ExecuteRefund with their roll-backs, and QueryAndFinalizeRefund for *)
(* refunds the gateway has left pending.  Several admins (workers) act on  *)
(* the order at once; a step is one SQL statement or one gateway answer.   *)
(*                                                                         *)
(* The balance (or the subscription days) to take back counts as one unit; *)
(* REFUNDED stands for PARTIALLY_REFUNDED too, which the code treats alike. *)
(***************************************************************************)
EXTENDS Integers, FiniteSets

CONSTANTS
    Workers,        \* admin requests
    Deducts,        \* units a plan may take back: 0 when the balance is empty
                    \* or the admin does not ask for a deduction
    MaxDeducted     \* bound: units taken back for the order at any time, and
                    \* units moved by statements that reported an error

ASSUME WorkersAssumption == IsFiniteSet(Workers)
ASSUME DeductsAssumption == Deducts \subseteq {0, 1}
ASSUME BoundAssumption == MaxDeducted \in Nat /\ MaxDeducted >= 2

VARIABLES
    hasTradeNo,     \* the order has a trade number at the gateway; a manually
                    \* fulfilled order may have none
    queryable,      \* its provider supports refund queries
    status,         \* status column
    gateway,        \* the refund at the gateway
    deducted,       \* units taken back from the user, less roll-backs
    hidden,         \* units among them moved by calls that returned an error
                    \* after their UPDATE had committed (history)
    audit,          \* audit actions of the order that some code reads
    pendingOK,      \* deductionRollbackOK of the REFUND_PENDING audit row
    auditLost,      \* an audit row that a later attempt reads was not written,
                    \* or could not be read (history)
    pc,             \* where each worker is
    prev,           \* the plan's copy of the status
    toDeduct        \* the plan's BalanceToDeduct or SubDaysToDeduct

fixed == <<hasTradeNo, queryable>>
units == <<deducted, hidden>>
bookVars == <<deducted, hidden, audit, pendingOK, auditLost>>
vars == <<hasTradeNo, queryable, status, gateway, deducted, hidden, audit,
          pendingOK, auditLost, pc, prev, toDeduct>>

Statuses == {"COMPLETED", "REFUND_REQUESTED", "REFUNDING", "REFUND_PENDING",
             "REFUNDED", "REFUND_FAILED"}

\* Statuses from which PrepareRefund and ExecuteRefund proceed.
Refundable == {"COMPLETED", "REFUND_REQUESTED", "REFUND_PENDING",
               "REFUND_FAILED"}

AuditActions == {"REFUND_ROLLBACK_FAILED", "REFUND_SUCCESS"}

\* Statements of ExecuteRefund after its lock.
RefundPcs == {"deduct", "gwRefund", "rollbackFail", "restore", "markFailed",
              "markOk", "rollbackPending", "markPending"}

\* Statements of QueryAndFinalizeRefund.
FinalizePcs == {"query", "finalDeduct", "finalOk", "finalFailed"}

Pcs == {"idle", "lock"} \cup RefundPcs \cup FinalizePcs

Init ==
    /\ hasTradeNo \in BOOLEAN
    /\ queryable \in BOOLEAN
    /\ status = "COMPLETED"
    /\ gateway = "none"
    /\ deducted = 0
    /\ hidden = 0
    /\ audit = {}
    /\ pendingOK = "none"
    /\ auditLost = FALSE
    /\ pc = [w \in Workers |-> "idle"]
    /\ prev = [w \in Workers |-> "COMPLETED"]
    /\ toDeduct = [w \in Workers |-> 0]

Goto(w, p) == pc' = [pc EXCEPT ![w] = p]

\* The request ends and its plan is gone.
Return(w) ==
    /\ Goto(w, "idle")
    /\ prev' = [prev EXCEPT ![w] = "COMPLETED"]
    /\ toDeduct' = [toDeduct EXCEPT ![w] = 0]

Keep == UNCHANGED <<prev, toDeduct>>

Plan(w, n) == toDeduct' = [toDeduct EXCEPT ![w] = n] /\ UNCHANGED prev

\* writeAuditLog; (order_id, action) is unique and errors are only logged.
WriteAudit(a) == audit' \in {audit, audit \cup {a}}

-----------------------------------------------------------------------------
(* RequestRefund, PrepareRefund, ExecuteRefund.                            *)

\* The user's request repeats all its conditions in its UPDATE.
RequestRefund ==
    /\ status = "COMPLETED"
    /\ status' = "REFUND_REQUESTED"
    /\ UNCHANGED <<fixed, gateway, bookVars, pc, prev, toDeduct>>

\* A plan for a pending refund deducts nothing.
PlannedDeduction(s, d) == IF s = "REFUND_PENDING" THEN 0 ELSE d

PrepareRefund(w) ==
    /\ pc[w] = "idle"
    /\ status \in Refundable
    /\ prev' = [prev EXCEPT ![w] = status]
    /\ \E d \in Deducts :
          toDeduct' = [toDeduct EXCEPT ![w] = PlannedDeduction(status, d)]
    /\ Goto(w, "lock")
    /\ UNCHANGED <<fixed, status, gateway, bookVars>>

\* Mutant: the status is set without testing it.
ExecuteAnyStatus(w) ==
    /\ pc[w] = "lock"
    /\ status' = "REFUNDING"
    /\ Goto(w, "deduct")
    /\ Keep
    /\ UNCHANGED <<fixed, gateway, bookVars>>

ExecuteRefund(w) ==
    /\ pc[w] = "lock"
    /\ IF status \in Refundable
       THEN status' = "REFUNDING" /\ Goto(w, "deduct") /\ Keep
       ELSE status' = status /\ Return(w)
    /\ UNCHANGED <<fixed, gateway, bookVars>>

\* Mutant: the retry forgets that the last roll-back failed.
NeverSkip == FALSE

\* A deduction that an earlier attempt could not roll back is not repeated.
SkipDeduction == "REFUND_ROLLBACK_FAILED" \in audit

\* hasAuditLog drops the error of its query: a lost answer reads as "no row".
Unread(found) == auditLost' = (auditLost \/ found)

\* DeductBalance or ExtendSubscription with negative days.
Deduct ==
    /\ deducted < MaxDeducted
    /\ deducted' = deducted + 1
    /\ UNCHANGED hidden

\* They run in no transaction: the error may be that of the UPDATE, or that of
\* a statement after it, when the units are gone.
DeductFails ==
    \/ UNCHANGED units
    \/ /\ deducted < MaxDeducted
       /\ hidden < MaxDeducted
       /\ deducted' = deducted + 1
       /\ hidden' = hidden + 1

DeductForRefund(w) ==
    /\ pc[w] = "deduct"
    /\ \/ /\ toDeduct[w] > 0
          /\ Unread(SkipDeduction)
          /\ \/ Deduct /\ Goto(w, "gwRefund")
             \/ DeductFails /\ Goto(w, "restore")
          /\ Keep
       \/ /\ toDeduct[w] = 0 \/ SkipDeduction
          /\ UNCHANGED units
          /\ Goto(w, "gwRefund")
          /\ Plan(w, 0)
          /\ UNCHANGED auditLost
    /\ UNCHANGED <<fixed, status, gateway, audit, pendingOK>>

\* gwRefund: without a trade number the gateway is not asked; otherwise it
\* refunds, defers or refuses, and its answer may be lost or unknown.
gwRefund(w) ==
    /\ pc[w] = "gwRefund"
    /\ \/ ~hasTradeNo /\ gateway' = gateway /\ Goto(w, "markOk")
       \/ hasTradeNo /\ gateway' = "refunded" /\ Goto(w, "markOk")
       \/ /\ hasTradeNo
          /\ gateway # "refunded"
          /\ gateway' = "pending"
          /\ Goto(w, "rollbackPending") \/ Goto(w, "rollbackFail")
       \/ /\ hasTradeNo
          /\ gateway' \in {gateway, "refunded"}
          /\ Goto(w, "rollbackFail")
    /\ Keep
    /\ UNCHANGED <<fixed, status, bookVars>>

\* Mutant: the roll-back does not look at what the plan has deducted.
RolledBackAlways(w) ==
    /\ deducted' = deducted - 1
    /\ UNCHANGED <<hidden, audit, auditLost>>

\* RollbackRefund gives the units back, or records that it could not ...
RolledBack(w) ==
    /\ deducted' = deducted - toDeduct[w]
    /\ UNCHANGED <<hidden, audit, auditLost>>

\* ... although they may be back by then.
RollbackFails(w) ==
    /\ toDeduct[w] > 0
    /\ WriteAudit("REFUND_ROLLBACK_FAILED")
    /\ auditLost' = (auditLost \/ "REFUND_ROLLBACK_FAILED" \notin audit')
    /\ \/ UNCHANGED units
       \/ /\ hidden > -MaxDeducted
          /\ deducted' = deducted - 1
          /\ hidden' = hidden - 1

\* Mutant: handleGwFail does not give the units back.
NoRollback(w) ==
    /\ pc[w] = "rollbackFail"
    /\ Goto(w, "restore")
    /\ Keep
    /\ UNCHANGED <<fixed, status, gateway, bookVars>>

handleGwFail(w) ==
    /\ pc[w] = "rollbackFail"
    /\ \/ RolledBack(w) /\ Goto(w, "restore")
       \/ RollbackFails(w) /\ Goto(w, "markFailed")
    /\ Keep
    /\ UNCHANGED <<fixed, status, gateway, pendingOK>>

\* restoreStatus and the REFUND_FAILED update ignore their errors and the
\* status the order has by now.
restoreStatus(w) ==
    /\ pc[w] = "restore"
    /\ status' \in {status, IF prev[w] = "REFUND_REQUESTED"
                            THEN "REFUND_REQUESTED" ELSE "COMPLETED"}
    /\ Return(w)
    /\ UNCHANGED <<fixed, gateway, bookVars>>

MarkRefundFailed(w) ==
    /\ pc[w] \in {"markFailed", "finalFailed"}
    /\ status' \in {status, "REFUND_FAILED"}
    /\ Return(w)
    /\ UNCHANGED <<fixed, gateway, bookVars>>

\* Mutant: the gateway's refusal is taken for its consent.
MarkOkPcs(w) == pc[w] \in {"markOk", "finalOk", "rollbackFail"}

\* finishRefund on the statuses success and refunded.
FinishesOk(w) == pc[w] \in {"markOk", "finalOk"}

\* markRefundOk sets REFUNDED whatever the status; if the UPDATE fails the
\* request ends there.
markRefundOk(w) ==
    /\ FinishesOk(w)
    /\ \/ status' = "REFUNDED" /\ WriteAudit("REFUND_SUCCESS")
       \/ UNCHANGED <<status, audit>>
    /\ Return(w)
    /\ UNCHANGED <<fixed, gateway, units, pendingOK, auditLost>>

\* markRefundPending rolls the deduction back first ...
RollbackPending(w) ==
    /\ pc[w] = "rollbackPending"
    /\ \/ RolledBack(w) /\ Plan(w, 0)
       \/ RollbackFails(w) /\ Keep
    /\ Goto(w, "markPending")
    /\ UNCHANGED <<fixed, status, gateway, pendingOK>>

\* ... and then sets the status and writes the audit row.  The audit row of
\* an earlier attempt stays: (order_id, action) is unique.
markRefundPending(w) ==
    /\ pc[w] = "markPending"
    /\ \/ /\ status' = "REFUND_PENDING"
          /\ pendingOK' \in {pendingOK,
                IF pendingOK # "none" THEN pendingOK
                ELSE IF toDeduct[w] = 0 THEN "yes" ELSE "no"}
          /\ auditLost' = (auditLost \/ pendingOK' = "none")
       \/ UNCHANGED <<status, pendingOK, auditLost>>
    /\ Return(w)
    /\ UNCHANGED <<fixed, gateway, units, audit>>

-----------------------------------------------------------------------------
(* QueryAndFinalizeRefund.                                                 *)

\* Only an order read as pending, at a provider that can be asked.  The plan
\* deducts again what was rolled back; an audit row that is missing, or cannot
\* be read, says it was.  A subscription that is gone leaves nothing to take.
QueryAndFinalizeRefund(w) ==
    /\ pc[w] = "idle"
    /\ queryable
    /\ status = "REFUND_PENDING"
    /\ Goto(w, "query")
    /\ \/ Plan(w, 0) /\ UNCHANGED auditLost
       \/ Plan(w, 1) /\ Unread(pendingOK = "no")
    /\ UNCHANGED <<fixed, status, gateway, units, audit, pendingOK>>

\* The gateway's answer.  On an error or a pending refund the request ends; an
\* answer with an unknown status counts as a failure.
QueryRefund(w) ==
    /\ pc[w] = "query"
    /\ \/ gateway = "refunded" /\ Goto(w, "finalDeduct") /\ Keep
       \/ Goto(w, "finalFailed") /\ Keep
       \/ Return(w)
    /\ UNCHANGED <<fixed, status, gateway, bookVars>>

\* applyRefundFinalDeduction: nothing is deducted after REFUND_SUCCESS.
applyRefundFinalDeduction(w) ==
    /\ pc[w] = "finalDeduct"
    /\ \/ /\ toDeduct[w] > 0
          /\ Unread("REFUND_SUCCESS" \in audit)
          /\ \/ Deduct /\ Goto(w, "finalOk") /\ Keep
             \/ DeductFails /\ Return(w)
       \/ /\ toDeduct[w] = 0 \/ "REFUND_SUCCESS" \in audit
          /\ UNCHANGED units
          /\ Goto(w, "finalOk")
          /\ Plan(w, 0)
          /\ UNCHANGED auditLost
    /\ UNCHANGED <<fixed, status, gateway, audit, pendingOK>>

\* The gateway decides a pending refund (external).
GatewayResolves ==
    /\ gateway = "pending"
    /\ gateway' \in {"refunded", "failed"}
    /\ UNCHANGED <<fixed, status, bookVars, pc, prev, toDeduct>>

\* The server process ends.
Crash(w) ==
    /\ pc[w] # "idle"
    /\ Return(w)
    /\ UNCHANGED <<fixed, status, gateway, bookVars>>

Next ==
    \/ RequestRefund \/ GatewayResolves
    \/ \E w \in Workers :
          \/ PrepareRefund(w) \/ ExecuteRefund(w) \/ DeductForRefund(w)
          \/ gwRefund(w) \/ handleGwFail(w) \/ restoreStatus(w)
          \/ MarkRefundFailed(w) \/ markRefundOk(w) \/ RollbackPending(w)
          \/ markRefundPending(w) \/ QueryAndFinalizeRefund(w)
          \/ QueryRefund(w) \/ applyRefundFinalDeduction(w) \/ Crash(w)

Spec == Init /\ [][Next]_vars

-----------------------------------------------------------------------------
(* Properties.                                                             *)

\* The variables keep their types.
TypeOK ==
    /\ hasTradeNo \in BOOLEAN
    /\ queryable \in BOOLEAN
    /\ status \in Statuses
    /\ gateway \in {"none", "pending", "refunded", "failed"}
    /\ deducted \in 0..MaxDeducted
    /\ hidden \in (-MaxDeducted)..MaxDeducted
    /\ audit \subseteq AuditActions
    /\ pendingOK \in {"none", "yes", "no"}
    /\ auditLost \in BOOLEAN
    /\ pc \in [Workers -> Pcs]
    /\ prev \in [Workers -> Statuses]
    /\ toDeduct \in [Workers -> {0, 1}]

\* Units the code has taken and knows of.
Known == deducted - hidden

\* A refund that did not go through leaves the user's balance as it was: an
\* order that is back in a refundable status has nothing deducted but what
\* ExecuteRefund was told it had not deducted (debitWalletBuckets commits and
\* then fails to read the balance), unless a failed roll-back was recorded or
\* its record was lost.  Refunds that are finalised by query deduct while the
\* order is still pending.
FailedRefundRestores ==
    (status \in Refundable /\ ~queryable /\ ~auditLost)
        => Known = 0 \/ "REFUND_ROLLBACK_FAILED" \in audit

\* Retries after failed roll-backs, pending answers and crashes never take
\* the same units back twice, unless a deduction that took them reported an
\* error ...
DeductedAtMostOnce == ~auditLost => Known <= 1

\* ... at a provider whose pending refunds cannot be finalised.
RetriesDeductOnce == ~queryable => DeductedAtMostOnce

\* An order shown as REFUNDED has its money back, if there was any to return.
RefundedIsReturned ==
    status = "REFUNDED" => gateway = "refunded" \/ ~hasTradeNo

\* The order as its buyer sees it.
Lifecycle == INSTANCE OrderLifecycle WITH
    paid <- TRUE,
    delivered <- TRUE,
    returned <- gateway = "refunded" \/ ~hasTradeNo

\* At a provider without refund queries the refund goes through the order's
\* life cycle although no statement after the lock tests the status: one
\* admin at a time is past the lock, and REFUNDED is never overwritten.
\* (QueryAndFinalizeRefund takes no lock and races with a retry.)
RefundFollowsLifecycle ==
    [][~queryable => Lifecycle!Next \/ UNCHANGED Lifecycle!vars]_vars

=============================================================================
