------------------------- MODULE PaymentRefundProofs -------------------------
(***************************************************************************)
(* The safety properties of PaymentRefund, for every number of admins.     *)
(* The inductive invariant has four parts:                                 *)
(*   HeldInv    the units that workers may still roll back are deducted;   *)
(*   ReturnInv  whoever is about to set REFUNDED knows of the money;       *)
(*   LockInv    without refund queries one worker is past the lock;        *)
(*   BooksInv   ... and the audit log tells which known deduction stands.  *)
(***************************************************************************)
EXTENDS PaymentRefund, FiniteSetTheorems, TLAPS

\* The refund has reached the buyer, or there is none to make.
Returned == gateway = "refunded" \/ ~hasTradeNo

\* Workers that may give back a unit they have deducted.
HoldingPcs == {"gwRefund", "rollbackFail", "rollbackPending"}
Holding == {w \in Workers : pc[w] \in HoldingPcs /\ toDeduct[w] = 1}

HeldInv == Cardinality(Holding) <= deducted

ReturnInv ==
    /\ status = "REFUNDED" => Returned
    /\ \A w \in Workers : pc[w] \in {"markOk", "finalDeduct", "finalOk"}
                             => Returned

LockInv ==
    ~queryable =>
        /\ \A w \in Workers : pc[w] \notin FinalizePcs
        /\ \A w \in Workers : pc[w] \in RefundPcs => status = "REFUNDING"
        /\ \A w, v \in Workers :
              pc[w] \in RefundPcs /\ pc[v] \in RefundPcs => w = v

\* Between attempts the code knows of no deduction but one it has recorded
\* that it could not roll back.
Balanced == Known = IF SkipDeduction THEN 1 ELSE 0

BooksInv ==
    ~queryable /\ ~auditLost =>
        /\ Known <= 1
        /\ status \in Refundable => Balanced
        /\ \A w \in Workers :
              /\ pc[w] \in {"deduct", "restore", "markPending"} => Balanced
              /\ pc[w] \in HoldingPcs /\ toDeduct[w] = 0 => Balanced
              /\ pc[w] \in HoldingPcs /\ toDeduct[w] = 1
                    => Known = 1 /\ ~SkipDeduction
              /\ pc[w] = "markFailed" => Known = 1 /\ SkipDeduction

IInv == TypeOK /\ HeldInv /\ ReturnInv /\ LockInv /\ BooksInv

USE DeductsAssumption, BoundAssumption
USE DEF Statuses, AuditActions, Pcs, RefundPcs, FinalizePcs, Refundable,
        fixed, bookVars, units, Known, Goto, Return, Keep, Plan, WriteAudit, Unread,
        SkipDeduction, PlannedDeduction, Deduct, DeductFails, RolledBack, RollbackFails,
        FinishesOk, HoldingPcs, Returned, Balanced

-----------------------------------------------------------------------------
(* Counting the units that may still be rolled back.                       *)

\* The workers that hold a unit are finitely many.
LEMMA HoldingFinite ==
    /\ IsFiniteSet(Holding)
    /\ Cardinality(Holding) \in Nat
<1>1. Holding \subseteq Workers
  BY DEF Holding
<1> QED
  BY <1>1, WorkersAssumption, FS_Subset, FS_CardinalityType

\* One unit more is deducted when one worker more holds one.
LEMMA HoldingGrows ==
    ASSUME NEW w \in Workers, HeldInv, deducted \in Nat,
           deducted' = deducted + 1,
           Holding' = Holding \cup {w}
    PROVE  HeldInv'
<1>1. Cardinality(Holding \cup {w})
        = IF w \in Holding THEN Cardinality(Holding)
                           ELSE Cardinality(Holding) + 1
  BY HoldingFinite, FS_AddElement
<1>2. /\ Cardinality(Holding') <= Cardinality(Holding) + 1
      /\ Cardinality(Holding') \in Nat
  BY <1>1, HoldingFinite
<1> QED
  BY <1>2, HoldingFinite DEF HeldInv

\* A unit is given back by a worker that holds one.
LEMMA HoldingShrinks ==
    ASSUME NEW w \in Workers, HeldInv, deducted \in Nat,
           w \in Holding, deducted' = deducted - 1,
           Holding' = Holding \ {w}
    PROVE  HeldInv'
<1>1. Cardinality(Holding') = Cardinality(Holding) - 1
  BY HoldingFinite, FS_RemoveElement
<1> QED
  BY <1>1, HoldingFinite DEF HeldInv

\* Nobody else holds a unit, and none is given back.
LEMMA HoldingKept ==
    ASSUME HeldInv, deducted \in Nat, deducted' \in Nat,
           deducted' >= deducted, Holding' \subseteq Holding
    PROVE  HeldInv'
<1>1. /\ Cardinality(Holding') <= Cardinality(Holding)
      /\ Cardinality(Holding') \in Nat
  BY HoldingFinite, FS_Subset, FS_CardinalityType
<1> QED
  BY <1>1, HoldingFinite DEF HeldInv

\* A worker that holds a unit shows that one is deducted.
LEMMA HeldIsDeducted ==
    ASSUME NEW w \in Holding, HeldInv, deducted \in Nat
    PROVE  deducted >= 1
<1>1. Cardinality(Holding) # 0
  BY HoldingFinite, FS_EmptySet
<1> QED
  BY <1>1, HoldingFinite DEF HeldInv

-----------------------------------------------------------------------------

\* The invariant holds for a completed order.
LEMMA InitHolds == Init => IInv
<1> SUFFICES ASSUME Init PROVE IInv
  OBVIOUS
<1>1. TypeOK
  <2>1. /\ hasTradeNo \in BOOLEAN /\ queryable \in BOOLEAN
        /\ auditLost \in BOOLEAN
    BY Zenon DEF Init
  <2>2. audit \subseteq AuditActions
    BY Zenon DEF Init
  <2>3. /\ pc \in [Workers -> Pcs] /\ prev \in [Workers -> Statuses]
        /\ toDeduct \in [Workers -> {0, 1}]
        /\ status \in Statuses /\ deducted \in 0..MaxDeducted
        /\ hidden \in (-MaxDeducted)..MaxDeducted
        /\ gateway \in {"none", "pending", "refunded", "failed"}
        /\ pendingOK \in {"none", "yes", "no"}
    BY DEF Init
  <2> QED
    BY <2>1, <2>2, <2>3, Zenon DEF TypeOK
<1>2. HeldInv
  <2>1. Holding = {}
    BY DEF Init, Holding
  <2> QED
    BY <2>1, FS_EmptySet DEF HeldInv, Init
<1>3. ReturnInv
  BY DEF Init, ReturnInv
<1>4. LockInv
  BY DEF Init, LockInv
<1>5. BooksInv
  BY DEF Init, BooksInv
<1> QED
  BY <1>1, <1>2, <1>3, <1>4, <1>5 DEF IInv

\* The variables keep their types.
LEMMA TypeKeeps ==
    ASSUME TypeOK, HeldInv, Next
    PROVE  TypeOK'
<1> USE DEF TypeOK, TypeOK
<1>1. CASE RequestRefund \/ GatewayResolves
  BY <1>1 DEF RequestRefund, GatewayResolves
<1>2. ASSUME NEW w \in Workers, PrepareRefund(w)
      PROVE  TypeOK'
  BY <1>2 DEF PrepareRefund
<1>3. ASSUME NEW w \in Workers, ExecuteRefund(w)
      PROVE  TypeOK'
  BY <1>3 DEF ExecuteRefund
<1>4. ASSUME NEW w \in Workers, DeductForRefund(w)
      PROVE  TypeOK'
  <2>1. auditLost' \in BOOLEAN
    BY <1>4, Zenon DEF DeductForRefund
  <2>2. /\ deducted' \in 0..MaxDeducted
        /\ hidden' \in (-MaxDeducted)..MaxDeducted /\ pc' \in [Workers -> Pcs]
        /\ toDeduct' \in [Workers -> {0, 1}]
    BY <1>4 DEF DeductForRefund
  <2> QED
    BY <1>4, <2>1, <2>2, Zenon DEF DeductForRefund
<1>5. ASSUME NEW w \in Workers, gwRefund(w)
      PROVE  TypeOK'
  BY <1>5 DEF gwRefund
<1>6. ASSUME NEW w \in Workers, handleGwFail(w)
      PROVE  TypeOK'
  <2>1. auditLost' \in BOOLEAN
    BY <1>6, Zenon DEF handleGwFail
  <2>2. audit' \subseteq AuditActions
    BY <1>6, Zenon DEF handleGwFail
  <2>3. toDeduct[w] = 1 => deducted >= 1
    BY <1>6, HeldIsDeducted DEF handleGwFail, Holding
  <2>4. /\ deducted' \in 0..MaxDeducted
        /\ hidden' \in (-MaxDeducted)..MaxDeducted /\ pc' \in [Workers -> Pcs]
        /\ toDeduct' \in [Workers -> {0, 1}]
    BY <1>6, <2>3 DEF handleGwFail
  <2> QED
    BY <1>6, <2>1, <2>2, <2>4, Zenon DEF handleGwFail
<1>7. ASSUME NEW w \in Workers, restoreStatus(w)
      PROVE  TypeOK'
  BY <1>7 DEF restoreStatus
<1>8. ASSUME NEW w \in Workers, MarkRefundFailed(w)
      PROVE  TypeOK'
  BY <1>8 DEF MarkRefundFailed
<1>9. ASSUME NEW w \in Workers, markRefundOk(w)
      PROVE  TypeOK'
  BY <1>9 DEF markRefundOk
<1>10. ASSUME NEW w \in Workers, RollbackPending(w)
      PROVE  TypeOK'
  <2>1. auditLost' \in BOOLEAN
    BY <1>10, Zenon DEF RollbackPending
  <2>2. audit' \subseteq AuditActions
    BY <1>10, Zenon DEF RollbackPending
  <2>3. toDeduct[w] = 1 => deducted >= 1
    BY <1>10, HeldIsDeducted DEF RollbackPending, Holding
  <2>4. /\ deducted' \in 0..MaxDeducted
        /\ hidden' \in (-MaxDeducted)..MaxDeducted /\ pc' \in [Workers -> Pcs]
        /\ toDeduct' \in [Workers -> {0, 1}]
    BY <1>10, <2>3 DEF RollbackPending
  <2> QED
    BY <1>10, <2>1, <2>2, <2>4, Zenon DEF RollbackPending
<1>11. ASSUME NEW w \in Workers, markRefundPending(w)
      PROVE  TypeOK'
  BY <1>11 DEF markRefundPending
<1>12. ASSUME NEW w \in Workers, QueryAndFinalizeRefund(w)
      PROVE  TypeOK'
  <2>1. auditLost' \in BOOLEAN
    BY <1>12, Zenon DEF QueryAndFinalizeRefund
  <2>2. pc' \in [Workers -> Pcs] /\ toDeduct' \in [Workers -> {0, 1}]
    BY <1>12 DEF QueryAndFinalizeRefund
  <2> QED
    BY <1>12, <2>1, <2>2, Zenon DEF QueryAndFinalizeRefund
<1>13. ASSUME NEW w \in Workers, QueryRefund(w)
      PROVE  TypeOK'
  BY <1>13 DEF QueryRefund
<1>14. ASSUME NEW w \in Workers, applyRefundFinalDeduction(w)
      PROVE  TypeOK'
  <2>1. auditLost' \in BOOLEAN
    BY <1>14, Zenon DEF applyRefundFinalDeduction
  <2>2. /\ deducted' \in 0..MaxDeducted
        /\ hidden' \in (-MaxDeducted)..MaxDeducted /\ pc' \in [Workers -> Pcs]
        /\ toDeduct' \in [Workers -> {0, 1}] /\ prev' \in [Workers -> Statuses]
    BY <1>14 DEF applyRefundFinalDeduction
  <2> QED
    BY <1>14, <2>1, <2>2, Zenon DEF applyRefundFinalDeduction
<1>15. ASSUME NEW w \in Workers, Crash(w)
      PROVE  TypeOK'
  BY <1>15 DEF Crash
<1> QED
  BY <1>1, <1>2, <1>3, <1>4, <1>5, <1>6, <1>7, <1>8,
     <1>9, <1>10, <1>11, <1>12, <1>13, <1>14, <1>15 DEF Next

\* What the gateway has refunded stays refunded.
LEMMA ReturnKeeps ==
    ASSUME TypeOK, ReturnInv, Next
    PROVE  ReturnInv'
<1> USE DEF TypeOK, ReturnInv
<1>1. CASE RequestRefund \/ GatewayResolves
  BY <1>1 DEF RequestRefund, GatewayResolves
<1>2. ASSUME NEW w \in Workers, PrepareRefund(w)
      PROVE  ReturnInv'
  BY <1>2 DEF PrepareRefund
<1>3. ASSUME NEW w \in Workers, ExecuteRefund(w)
      PROVE  ReturnInv'
  BY <1>3 DEF ExecuteRefund
<1>4. ASSUME NEW w \in Workers, DeductForRefund(w)
      PROVE  ReturnInv'
  BY <1>4 DEF DeductForRefund
<1>5. ASSUME NEW w \in Workers, gwRefund(w)
      PROVE  ReturnInv'
  BY <1>5 DEF gwRefund
<1>6. ASSUME NEW w \in Workers, handleGwFail(w)
      PROVE  ReturnInv'
  BY <1>6 DEF handleGwFail
<1>7. ASSUME NEW w \in Workers, restoreStatus(w)
      PROVE  ReturnInv'
  BY <1>7 DEF restoreStatus
<1>8. ASSUME NEW w \in Workers, MarkRefundFailed(w)
      PROVE  ReturnInv'
  BY <1>8 DEF MarkRefundFailed
<1>9. ASSUME NEW w \in Workers, markRefundOk(w)
      PROVE  ReturnInv'
  BY <1>9 DEF markRefundOk
<1>10. ASSUME NEW w \in Workers, RollbackPending(w)
      PROVE  ReturnInv'
  BY <1>10 DEF RollbackPending
<1>11. ASSUME NEW w \in Workers, markRefundPending(w)
      PROVE  ReturnInv'
  BY <1>11 DEF markRefundPending
<1>12. ASSUME NEW w \in Workers, QueryAndFinalizeRefund(w)
      PROVE  ReturnInv'
  BY <1>12 DEF QueryAndFinalizeRefund
<1>13. ASSUME NEW w \in Workers, QueryRefund(w)
      PROVE  ReturnInv'
  BY <1>13 DEF QueryRefund
<1>14. ASSUME NEW w \in Workers, applyRefundFinalDeduction(w)
      PROVE  ReturnInv'
  BY <1>14 DEF applyRefundFinalDeduction
<1>15. ASSUME NEW w \in Workers, Crash(w)
      PROVE  ReturnInv'
  BY <1>15 DEF Crash
<1> QED
  BY <1>1, <1>2, <1>3, <1>4, <1>5, <1>6, <1>7, <1>8,
     <1>9, <1>10, <1>11, <1>12, <1>13, <1>14, <1>15 DEF Next

\* The conditional UPDATE admits one worker, and every way out of REFUNDING
\* ends that worker.
LEMMA LockKeeps ==
    ASSUME TypeOK, LockInv, Next
    PROVE  LockInv'
<1> USE DEF TypeOK, LockInv
<1>1. CASE RequestRefund \/ GatewayResolves
  BY <1>1 DEF RequestRefund, GatewayResolves
<1>2. ASSUME NEW w \in Workers, PrepareRefund(w)
      PROVE  LockInv'
  BY <1>2 DEF PrepareRefund
<1>3. ASSUME NEW w \in Workers, ExecuteRefund(w)
      PROVE  LockInv'
  BY <1>3 DEF ExecuteRefund
<1>4. ASSUME NEW w \in Workers, DeductForRefund(w)
      PROVE  LockInv'
  BY <1>4 DEF DeductForRefund
<1>5. ASSUME NEW w \in Workers, gwRefund(w)
      PROVE  LockInv'
  BY <1>5 DEF gwRefund
<1>6. ASSUME NEW w \in Workers, handleGwFail(w)
      PROVE  LockInv'
  BY <1>6 DEF handleGwFail
<1>7. ASSUME NEW w \in Workers, restoreStatus(w)
      PROVE  LockInv'
  BY <1>7 DEF restoreStatus
<1>8. ASSUME NEW w \in Workers, MarkRefundFailed(w)
      PROVE  LockInv'
  BY <1>8 DEF MarkRefundFailed
<1>9. ASSUME NEW w \in Workers, markRefundOk(w)
      PROVE  LockInv'
  BY <1>9 DEF markRefundOk
<1>10. ASSUME NEW w \in Workers, RollbackPending(w)
      PROVE  LockInv'
  BY <1>10 DEF RollbackPending
<1>11. ASSUME NEW w \in Workers, markRefundPending(w)
      PROVE  LockInv'
  BY <1>11 DEF markRefundPending
<1>12. ASSUME NEW w \in Workers, QueryAndFinalizeRefund(w)
      PROVE  LockInv'
  BY <1>12 DEF QueryAndFinalizeRefund
<1>13. ASSUME NEW w \in Workers, QueryRefund(w)
      PROVE  LockInv'
  BY <1>13 DEF QueryRefund
<1>14. ASSUME NEW w \in Workers, applyRefundFinalDeduction(w)
      PROVE  LockInv'
  BY <1>14 DEF applyRefundFinalDeduction
<1>15. ASSUME NEW w \in Workers, Crash(w)
      PROVE  LockInv'
  BY <1>15 DEF Crash
<1> QED
  BY <1>1, <1>2, <1>3, <1>4, <1>5, <1>6, <1>7, <1>8,
     <1>9, <1>10, <1>11, <1>12, <1>13, <1>14, <1>15 DEF Next

\* Deductions, roll-backs and the REFUND_ROLLBACK_FAILED row agree.
LEMMA BooksKeeps ==
    ASSUME TypeOK, LockInv, BooksInv, Next
    PROVE  BooksInv'
<1> USE DEF TypeOK, LockInv, BooksInv
<1>1. CASE RequestRefund \/ GatewayResolves
  BY <1>1 DEF RequestRefund, GatewayResolves
<1>2. ASSUME NEW w \in Workers, PrepareRefund(w)
      PROVE  BooksInv'
  BY <1>2 DEF PrepareRefund
<1>3. ASSUME NEW w \in Workers, ExecuteRefund(w)
      PROVE  BooksInv'
  BY <1>3 DEF ExecuteRefund
<1>4. ASSUME NEW w \in Workers, DeductForRefund(w)
      PROVE  BooksInv'
  <2>1. /\ pc[w] = "deduct" /\ UNCHANGED <<queryable, status, audit>>
        /\ ~auditLost' => ~auditLost
    BY <1>4, Zenon DEF DeductForRefund
  <2>2. CASE auditLost'
    BY <2>2
  <2>3. CASE queryable
    BY <2>1, <2>3
  <2>4. CASE ~auditLost' /\ ~queryable
    <3>1. /\ \A v \in Workers \ {w} : pc[v] \notin RefundPcs
          /\ status = "REFUNDING" /\ Balanced
      BY <2>1, <2>4
    <3>2. \/ /\ ~SkipDeduction /\ Deduct /\ toDeduct[w] = 1
             /\ Goto(w, "gwRefund") /\ Keep
          \/ DeductFails /\ Goto(w, "restore") /\ Keep
          \/ UNCHANGED units /\ Goto(w, "gwRefund") /\ Plan(w, 0)
      <4>1. Unread(SkipDeduction) => ~SkipDeduction
        BY <2>4, Zenon
      <4>2. toDeduct[w] > 0 => toDeduct[w] = 1
        BY <1>4
      <4> HIDE DEF Unread, SkipDeduction, Goto, Keep, Plan, Deduct,
                   DeductFails, units
      <4> QED
        BY <1>4, <4>1, <4>2, Zenon DEF DeductForRefund
    <3> QED
      BY <2>1, <2>4, <3>1, <3>2
  <2> QED
    BY <2>2, <2>3, <2>4
<1>5. ASSUME NEW w \in Workers, gwRefund(w)
      PROVE  BooksInv'
  BY <1>5 DEF gwRefund
<1>6. ASSUME NEW w \in Workers, handleGwFail(w)
      PROVE  BooksInv'
  <2>1. CASE RolledBack(w) /\ Goto(w, "restore")
    BY <1>6, <2>1 DEF handleGwFail
  <2>2. CASE RollbackFails(w) /\ Goto(w, "markFailed")
    <3>1. ~auditLost' => ~auditLost /\ SkipDeduction'
      BY <2>2, Zenon
    <3> QED
      BY <1>6, <2>2, <3>1 DEF handleGwFail
  <2> QED
    BY <1>6, <2>1, <2>2 DEF handleGwFail
<1>7. ASSUME NEW w \in Workers, restoreStatus(w)
      PROVE  BooksInv'
  BY <1>7 DEF restoreStatus
<1>8. ASSUME NEW w \in Workers, MarkRefundFailed(w)
      PROVE  BooksInv'
  BY <1>8 DEF MarkRefundFailed
<1>9. ASSUME NEW w \in Workers, markRefundOk(w)
      PROVE  BooksInv'
  BY <1>9 DEF markRefundOk
<1>10. ASSUME NEW w \in Workers, RollbackPending(w)
      PROVE  BooksInv'
  <2>1. CASE RolledBack(w) /\ Plan(w, 0)
    BY <1>10, <2>1 DEF RollbackPending
  <2>2. CASE RollbackFails(w) /\ Keep
    <3>1. ~auditLost' => ~auditLost /\ SkipDeduction'
      BY <2>2, Zenon
    <3> QED
      BY <1>10, <2>2, <3>1 DEF RollbackPending
  <2> QED
    BY <1>10, <2>1, <2>2 DEF RollbackPending
<1>11. ASSUME NEW w \in Workers, markRefundPending(w)
      PROVE  BooksInv'
  BY <1>11 DEF markRefundPending
<1>12. ASSUME NEW w \in Workers, QueryAndFinalizeRefund(w)
      PROVE  BooksInv'
  BY <1>12 DEF QueryAndFinalizeRefund
<1>13. ASSUME NEW w \in Workers, QueryRefund(w)
      PROVE  BooksInv'
  BY <1>13 DEF QueryRefund
<1>14. ASSUME NEW w \in Workers, applyRefundFinalDeduction(w)
      PROVE  BooksInv'
  BY <1>14 DEF applyRefundFinalDeduction
<1>15. ASSUME NEW w \in Workers, Crash(w)
      PROVE  BooksInv'
  BY <1>15 DEF Crash
<1> QED
  BY <1>1, <1>2, <1>3, <1>4, <1>5, <1>6, <1>7, <1>8,
     <1>9, <1>10, <1>11, <1>12, <1>13, <1>14, <1>15 DEF Next

\* Every step keeps the count of the units that may be rolled back.
LEMMA HeldKeeps ==
    ASSUME TypeOK, TypeOK', HeldInv, Next
    PROVE  HeldInv'
<1> USE DEF TypeOK
<1>1. CASE RequestRefund \/ GatewayResolves
  <2>1. Holding' = Holding /\ deducted' = deducted
    BY <1>1 DEF RequestRefund, GatewayResolves, Holding
  <2> QED
    BY <2>1 DEF HeldInv
<1>2. ASSUME NEW w \in Workers,
             \/ PrepareRefund(w) \/ ExecuteRefund(w) \/ restoreStatus(w)
             \/ MarkRefundFailed(w) \/ markRefundOk(w)
             \/ markRefundPending(w)
      PROVE  HeldInv'
  <2>1. Holding' \subseteq Holding /\ deducted' = deducted
    BY <1>2 DEF PrepareRefund, ExecuteRefund, restoreStatus,
         MarkRefundFailed, markRefundOk, markRefundPending, Holding
  <2> QED
    BY <2>1, HoldingKept
<1>3. ASSUME NEW w \in Workers,
             \/ gwRefund(w) \/ QueryAndFinalizeRefund(w) \/ QueryRefund(w)
             \/ Crash(w)
      PROVE  HeldInv'
  <2>1. Holding' \subseteq Holding /\ deducted' = deducted
    BY <1>3 DEF gwRefund, QueryAndFinalizeRefund, QueryRefund, Crash, Holding
  <2> QED
    BY <2>1, HoldingKept
<1>4. ASSUME NEW w \in Workers, applyRefundFinalDeduction(w)
      PROVE  HeldInv'
  <2>1. Holding' \subseteq Holding /\ deducted' >= deducted
    BY <1>4 DEF applyRefundFinalDeduction, Holding
  <2> QED
    BY <2>1, HoldingKept
<1>5. ASSUME NEW w \in Workers, DeductForRefund(w)
      PROVE  HeldInv'
  <2>1. CASE deducted' = deducted + 1
    <3>1. /\ toDeduct[w] = 1 /\ toDeduct' = toDeduct
          /\ \/ pc' = [pc EXCEPT ![w] = "gwRefund"]
             \/ pc[w] = "deduct" /\ pc' = [pc EXCEPT ![w] = "restore"]
      BY <1>5, <2>1 DEF DeductForRefund
    <3>2. Holding' = Holding \cup {w} \/ Holding' = Holding
      BY <3>1 DEF Holding
    <3> QED
      BY <2>1, <3>2, HoldingGrows, HoldingKept
  <2>2. CASE deducted' = deducted
    <3>1. Holding' \subseteq Holding
      BY <1>5, <2>2 DEF DeductForRefund, Holding
    <3> QED
      BY <2>2, <3>1, HoldingKept
  <2> QED
    BY <1>5, <2>1, <2>2 DEF DeductForRefund
<1>6. ASSUME NEW w \in Workers, handleGwFail(w) \/ RollbackPending(w)
      PROVE  HeldInv'
  <2>1. /\ pc[w] \in HoldingPcs
        /\ Holding' = Holding \ {w}
    BY <1>6 DEF handleGwFail, RollbackPending, Holding
  <2>2. CASE deducted' = deducted
    BY <2>1, <2>2, HoldingKept
  <2>3. CASE deducted' = deducted - toDeduct[w] /\ toDeduct[w] = 1
    <3>1. w \in Holding
      BY <2>1, <2>3 DEF Holding
    <3> QED
      BY <2>1, <2>3, <3>1, HoldingShrinks
  <2>4. CASE deducted' = deducted - toDeduct[w] /\ toDeduct[w] = 0
    BY <2>2, <2>4
  <2>5. CASE deducted' = deducted - 1 /\ toDeduct[w] > 0
    BY <2>3, <2>5
  <2> QED
    BY <1>6, <2>2, <2>3, <2>4, <2>5 DEF handleGwFail, RollbackPending
<1> QED
  BY <1>1, <1>2, <1>3, <1>4, <1>5, <1>6 DEF Next

\* The invariant is inductive.
LEMMA Inductive == IInv /\ [Next]_vars => IInv'
<1> SUFFICES ASSUME IInv, [Next]_vars
             PROVE  IInv'
  OBVIOUS
<1>1. CASE Next
  BY <1>1, TypeKeeps, HeldKeeps, ReturnKeeps, LockKeeps, BooksKeeps DEF IInv
<1>2. CASE UNCHANGED vars
  BY <1>2 DEF vars, IInv, TypeOK, HeldInv, Holding, ReturnInv, LockInv,
       BooksInv
<1> QED
  BY <1>1, <1>2

\* The invariant implies the properties.
LEMMA Implied ==
    IInv => /\ TypeOK /\ FailedRefundRestores /\ RetriesDeductOnce
            /\ RefundedIsReturned
BY DEF IInv, TypeOK, ReturnInv, LockInv, BooksInv, FailedRefundRestores,
       RetriesDeductOnce, DeductedAtMostOnce, RefundedIsReturned

-----------------------------------------------------------------------------
(* The refinement of OrderLifecycle without refund queries.                *)

\* A step that changes neither column is invisible.
LEMMA Invisible ==
    ASSUME UNCHANGED <<status, gateway, hasTradeNo>>
    PROVE  UNCHANGED Lifecycle!vars
<1>1. status' = status
  OBVIOUS
<1>2. Returned' = Returned
  <2>1. Returned' <=> Returned
    OBVIOUS
  <2> QED
    BY <2>1, Zenon
<1> QED
  BY <1>1, <1>2, Zenon DEF Lifecycle!vars

\* A step that changes the status alone is judged by the two statuses.
LEMMA StatusStep ==
    ASSUME UNCHANGED <<gateway, hasTradeNo>>,
           \/ status = "COMPLETED" /\ status' = "REFUND_REQUESTED"
           \/ status \in Refundable /\ status' = "REFUNDING"
           \/ /\ status = "REFUNDING"
              /\ status' \in Refundable \cup {"REFUNDED"}
              /\ status' = "REFUNDED" => Returned
    PROVE  Lifecycle!Next
<1>1. Returned' = Returned
  <2>1. Returned' <=> Returned
    OBVIOUS
  <2> QED
    BY <2>1, Zenon
<1>2. UNCHANGED Lifecycle!money
  BY <1>1, Zenon DEF Lifecycle!money
<1> QED
  BY <1>2, Zenon DEF Lifecycle!Next, Lifecycle!RequestRefund,
     Lifecycle!BeginRefund, Lifecycle!EndRefund, Lifecycle!Refundable

\* The gateway's refund is a step of the life cycle or invisible.
LEMMA GatewayStep ==
    ASSUME UNCHANGED <<status, hasTradeNo>>,
           gateway' = "refunded" \/ (gateway # "refunded" /\ gateway' # "refunded")
    PROVE  Lifecycle!Next \/ UNCHANGED Lifecycle!vars
<1>1. CASE Returned'
  <2>1. Returned' = TRUE
    BY <1>1, Zenon
  <2>2. Lifecycle!ReturnMoney
    BY <2>1, Zenon DEF Lifecycle!ReturnMoney
  <2> QED
    BY <2>2, Zenon DEF Lifecycle!Next
<1>2. CASE ~Returned'
  <2>1. ~Returned
    BY <1>2
  <2>2. Returned' = Returned
    BY <1>2, <2>1, Zenon
  <2> QED
    BY <2>2, Zenon DEF Lifecycle!vars
<1> QED
  BY <1>1, <1>2

\* Every step of a reachable refund is a step of the order's life cycle.
LEMMA LifecycleStep ==
    ASSUME IInv, ~queryable, Next
    PROVE  Lifecycle!Next \/ UNCHANGED Lifecycle!vars
<1> USE DEF IInv, TypeOK, LockInv, ReturnInv
<1>1. CASE RequestRefund
  BY <1>1, StatusStep DEF RequestRefund
<1>2. CASE GatewayResolves
  BY <1>2, GatewayStep DEF GatewayResolves
<1>3. ASSUME NEW w \in Workers,
             \/ PrepareRefund(w) \/ DeductForRefund(w) \/ handleGwFail(w)
             \/ RollbackPending(w) \/ QueryAndFinalizeRefund(w)
             \/ QueryRefund(w) \/ applyRefundFinalDeduction(w) \/ Crash(w)
      PROVE  UNCHANGED Lifecycle!vars
  BY <1>3, Invisible DEF PrepareRefund, DeductForRefund, handleGwFail,
     RollbackPending, QueryAndFinalizeRefund, QueryRefund,
     applyRefundFinalDeduction, Crash
<1>4. ASSUME NEW w \in Workers, gwRefund(w)
      PROVE  Lifecycle!Next \/ UNCHANGED Lifecycle!vars
  <2>1. /\ UNCHANGED <<status, hasTradeNo>>
        /\ \/ gateway' = gateway \/ gateway' = "refunded"
           \/ gateway # "refunded" /\ gateway' = "pending"
    BY <1>4 DEF gwRefund
  <2> QED
    BY <2>1, GatewayStep, Invisible
<1>5. ASSUME NEW w \in Workers,
             \/ ExecuteRefund(w) \/ restoreStatus(w) \/ MarkRefundFailed(w)
             \/ markRefundOk(w) \/ markRefundPending(w)
      PROVE  Lifecycle!Next \/ UNCHANGED Lifecycle!vars
  <2>1. UNCHANGED <<gateway, hasTradeNo>>
    BY <1>5 DEF ExecuteRefund, restoreStatus, MarkRefundFailed, markRefundOk,
         markRefundPending
  <2>2. CASE status' = status
    BY <2>1, <2>2, Invisible
  <2>3. CASE status' # status
    <3>1. \/ status \in Refundable /\ status' = "REFUNDING"
          \/ /\ status = "REFUNDING"
             /\ status' \in Refundable \cup {"REFUNDED"}
             /\ status' = "REFUNDED" => Returned
      BY <1>5, <2>3 DEF ExecuteRefund, restoreStatus, MarkRefundFailed,
           markRefundOk, markRefundPending
    <3> QED
      BY <2>1, <3>1, StatusStep
  <2> QED
    BY <2>2, <2>3
<1> QED
  BY <1>1, <1>2, <1>3, <1>4, <1>5 DEF Next

-----------------------------------------------------------------------------

\* The inductive invariant holds in every reachable state.
LEMMA Invariance == Spec => []IInv
BY InitHolds, Inductive, PTL DEF Spec

\* The order, the books and the plans keep their types; in particular what
\* RollbackRefund gives back was deducted.
THEOREM TypeCorrect == Spec => []TypeOK
BY Invariance, Implied, PTL

\* handleGwFail and markRefundPending give back what ExecuteRefund knows it has
\* deducted, or record that they could not, at a provider without refund
\* queries; only a deduction that reported an error can be left behind.
THEOREM FailedRefundRestoresHolds == Spec => []FailedRefundRestores
BY Invariance, Implied, PTL

\* No retry of ExecuteRefund deducts twice at such a provider, but for
\* deductions that reported an error although they had committed.
THEOREM RetriesDeductOnceHolds == Spec => []RetriesDeductOnce
BY Invariance, Implied, PTL

\* markRefundOk sets REFUNDED only for money the gateway has returned.
THEOREM RefundedIsReturnedHolds == Spec => []RefundedIsReturned
BY Invariance, Implied, PTL

\* Without refund queries a refund goes through the order's life cycle.
THEOREM ImplementsLifecycle == Spec => RefundFollowsLifecycle
<1>1. IInv /\ [Next]_vars
        => [~queryable => Lifecycle!Next \/ UNCHANGED Lifecycle!vars]_vars
  BY LifecycleStep
<1> QED
  BY <1>1, Invariance, PTL DEF Spec, RefundFollowsLifecycle

=============================================================================
