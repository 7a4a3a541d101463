------------------------- MODULE IdempotencyProofs -------------------------
(***************************************************************************)
(* The coordinator executes a key's side effect once per first window, for *)
(* any number of requests and any durations DurationAssumption allows.     *)
(***************************************************************************)
EXTENDS Idempotency, TLAPS

(* Requests that own the processing row: claimed, id read back or not yet. *)
Owns(r) == pc[r] \in HolderPcs \cup {"selectId"}

(* What Tick's two bounds buy, and that nobody's clock is ahead. *)
Clocks ==
  \A r \in Requests :
    /\ t[r] <= now
    /\ pc[r] \in ClaimPcs => now < t[r] + ProcessingTimeout
    /\ pc[r] \in ClaimPcs \cup HolderPcs => now < t[r] + TTL

(* Ids are never reused, and only the absent row has id 0. *)
Ids ==
  /\ row.id < nextId
  /\ Present(row) <=> row.id # 0
  /\ \A r \in Requests :
       /\ existing[r].id < nextId
       /\ pc[r] \in {"reclaimExpired", "reclaimFailed"} => existing[r].id # 0
       /\ pc[r] = "reclaimFailed" => existing[r].status = "failed_retryable"

(* The owner's claim is the one in the row, so there is one owner. *)
Ownership ==
  /\ \A r \in Requests : Owns(r) =>
       /\ row.status = "processing"
       /\ row.fp = fp[r]
       /\ row.expires = t[r] + TTL
       /\ pc[r] \in HolderPcs => row.id = recordId[r]
  /\ \A r, s \in Requests : Owns(r) /\ Owns(s) => r = s

(* A reader about to reclaim a processing row either still sees an expired *)
(* row or its WHERE clause will refuse the newer claim.                    *)
Reclaims ==
  \A r \in Requests :
    /\ pc[r] = "reclaimExpired" /\ existing[r].id = row.id /\ row.status = "processing" =>
         row.expires <= now \/ row.locked > t[r]
    /\ pc[r] \in {"reclaimExpired", "reclaimFailed"} /\ existing[r].id = row.id =>
         row.fp = fp[r]

(* Inside the first window the row is not expired and nobody saw it expired. *)
FirstWindow ==
  /\ window <= now + TTL
  /\ row.status = "failed_retryable" => window <= row.locked + TTL
  /\ Present(row) /\ now < window =>
       /\ row.expires >= window
       /\ \A r \in Requests : ~(pc[r] = "reclaimExpired" /\ existing[r].id = row.id)

(* A success of a first window that is still open is what the row shows. *)
OpenEffects ==
  \A i \in 1..Len(effects) :
    /\ effects[i].at <= now
    /\ effects[i].first /\ now < effects[i].until =>
         /\ row.status \in {"processing", "succeeded"}
         /\ row.expires = effects[i].until
         /\ \A r \in Requests :
              /\ ~(pc[r] = "reclaimExpired" /\ existing[r].id = row.id)
              /\ pc[r] \notin {"selectId", "exec", "markFail"}

(* Stored bodies, and those about to be stored, come from successes. *)
Produced(by, p) == \E i \in 1..Len(effects) : effects[i].by = by /\ effects[i].fp = p

Replays ==
  /\ row.status = "succeeded" => row.body # NoBody
  /\ row.body # NoBody => Produced(row.body.by, row.fp)
  /\ \A r \in Requests : pc[r] = "markOk" => Produced(r, fp[r])
  /\ \A r \in Requests : result[r] = "replayed" => pc[r] = "done" /\ Produced(data[r].by, fp[r])

Rest ==
  /\ Clocks /\ Ids /\ Ownership /\ Reclaims
  /\ FirstWindow /\ OpenEffects /\ SingleEffect /\ Replays

IInv == TypeOK /\ Rest

-----------------------------------------------------------------------------
(* The statements of the store leave rows behind. *)
LEMMA RowTypes ==
  /\ NoRow \in Row
  /\ \A id \in Nat, p \in Payloads \cup {NoPayload}, lock, exp \in Nat : CreatedRow(id, p, lock, exp) \in Row
  /\ \A ro \in Row, lock, exp \in Nat : ReclaimedRow(ro, lock, exp) \in Row
  /\ \A ro \in Row, id, exp \in Nat, b \in Bodies : SucceededRow(ro, id, b, exp) \in Row
  /\ \A ro \in Row, id, lock, exp \in Nat : FailedRow(ro, id, lock, exp) \in Row
BY DEF NoRow, CreatedRow, ReclaimedRow, SucceededRow, FailedRow, Row, Statuses

(* They leave them well formed: only MarkSucceeded makes a success. *)
LEMMA RowForms ==
  /\ WellFormed(NoRow)
  /\ \A id, p, lock, exp : WellFormed(CreatedRow(id, p, lock, exp))
  /\ \A ro, lock, exp : WellFormed(ReclaimedRow(ro, lock, exp))
  /\ \A ro, id, exp : \A b \in Bodies : WellFormed(ro) => WellFormed(SucceededRow(ro, id, b, exp))
  /\ \A ro, id, lock, exp : WellFormed(ro) => WellFormed(FailedRow(ro, id, lock, exp))
BY StoreAssumption DEF WellFormed, NoRow, CreatedRow, ReclaimedRow, SucceededRow, FailedRow

(* The columns of a row, for proofs that do not need to see what a row is. *)
LEMMA RowColumns ==
  ASSUME NEW ro \in Row
  PROVE  /\ ro.id \in Nat /\ ro.locked \in Nat /\ ro.expires \in Nat
         /\ ro.fp \in Payloads \cup {NoPayload}
         /\ ro.status \in Statuses
         /\ ro.body \in Bodies \cup {NoBody}
BY DEF Row

(* Every action keeps the state well typed. *)
LEMMA TypeStep == TypeOK /\ [Next]_vars => TypeOK'
<1> SUFFICES ASSUME TypeOK, [Next]_vars PROVE TypeOK'
  OBVIOUS
<1> USE DurationAssumption DEF TypeOK, local, table
<1>0. /\ NoRow \in Row
      /\ row.id \in Nat /\ row.body \in Bodies \cup {NoBody}
      /\ \A r \in Requests : existing[r].id \in Nat /\ LockedUntil(r) \in Nat /\ ExpiresAt(r) \in Nat
  <2>1. row.id \in Nat /\ row.body \in Bodies \cup {NoBody}
    BY RowColumns
  <2>2. ASSUME NEW r \in Requests PROVE existing[r].id \in Nat
    <3>1. existing[r] \in Row
      OBVIOUS
    <3> QED
      BY <3>1, RowColumns
  <2>3. \A r \in Requests : LockedUntil(r) \in Nat /\ ExpiresAt(r) \in Nat
    BY DEF LockedUntil, ExpiresAt
  <2> QED
    BY <2>1, <2>2, <2>3, RowTypes
<1>1. CASE UNCHANGED vars
  BY <1>1 DEF vars
<1>2. CASE CleanupOnce
  BY <1>0, <1>2, RowForms DEF CleanupOnce
<1>3. CASE Tick
  BY <1>3 DEF Tick
<1>4. ASSUME NEW r \in Requests, NEW p \in Payloads, Begin(r, p) PROVE TypeOK'
  BY <1>4 DEF Begin, ClaimPcs
<1>5. ASSUME NEW r \in Requests, BeginWithoutKey(r) PROVE TypeOK'
  BY <1>0, <1>5 DEF BeginWithoutKey, Return, ReturnData, Results
<1>6. ASSUME NEW r \in Requests, InsertIgnore(r) PROVE TypeOK'
  <2>1. CreatedRow(nextId, fp[r], LockedUntil(r), ExpiresAt(r)) \in Row
    BY <1>0, RowTypes
  <2>2. CASE Present(row)
    BY <1>6, <2>2 DEF InsertIgnore, Goto, ClaimPcs
  <2>3. CASE ~Present(row)
    <3>1. /\ row' \in Row /\ WellFormed(row') /\ nextId' = nextId + 1 /\ window' \in Nat
          /\ Goto(r, "selectId") /\ UNCHANGED <<now, effects>>
      BY <1>0, <1>6, <2>1, <2>3, RowForms DEF InsertIgnore
    <3>2. nextId + 1 \in Nat \ {0}
      OBVIOUS
    <3> QED
      BY <3>1, <3>2 DEF Goto, ClaimPcs
  <2> QED
    BY <2>2, <2>3
<1>7. ASSUME NEW r \in Requests, SelectId(r) PROVE TypeOK'
  <2>1. CASE Present(row)
    BY <1>0, <1>7, <2>1 DEF SelectId, Own, HolderPcs
  <2>2. CASE ~Present(row)
    BY <1>7, <2>2 DEF SelectId, Goto, ClaimPcs
  <2> QED
    BY <2>1, <2>2
<1>8. ASSUME NEW r \in Requests, GetExisting(r) \/ GetLatest(r) PROVE TypeOK'
  <2>1. CASE \E res \in Results, b \in Bodies \cup {NoBody} : ReturnData(r, res, b) /\ UNCHANGED <<now, table, effects>>
    BY <1>0, <2>1 DEF ReturnData
  <2>2. CASE \E label \in ClaimPcs : Remember(r, label) /\ UNCHANGED <<now, table, effects>>
    BY <2>2 DEF Remember
  <2> QED
    BY <1>0, <1>8, <2>1, <2>2 DEF GetExisting, GetLatest, SamePayload, SwitchOnStatus, Return, ClaimPcs, Results
<1>9. ASSUME NEW r \in Requests, ReclaimExpired(r) \/ ReclaimFailed(r) PROVE TypeOK'
  <2>1. ReclaimedRow(row, LockedUntil(r), ExpiresAt(r)) \in Row
    BY <1>0, RowTypes
  <2>2. CASE TakeOver(r) /\ UNCHANGED <<now, effects>>
    BY <1>0, <2>1, <2>2, RowForms DEF TakeOver, Own, HolderPcs
  <2>3. CASE UNCHANGED <<now, table, effects>> /\ Goto(r, "reget")
    BY <2>3 DEF Goto, ClaimPcs
  <2>4. CASE UNCHANGED <<now, table, effects>> /\ Return(r, "inProgress")
    BY <1>0, <2>4 DEF Return, ReturnData, Results
  <2> QED
    BY <1>9, <2>2, <2>3, <2>4 DEF ReclaimExpired, ReclaimFailed, Refused
<1>10. ASSUME NEW r \in Requests, ExecuteOk(r) PROVE TypeOK'
  <2>1. [by |-> r, fp |-> fp[r], at |-> now, until |-> ExpiresAt(r), first |-> now < window] \in Effect
    BY <1>0 DEF Effect
  <2> QED
    BY <1>10, <2>1 DEF ExecuteOk, Goto, HolderPcs
<1>11. ASSUME NEW r \in Requests, ExecuteFails(r) PROVE TypeOK'
  BY <1>11 DEF ExecuteFails, Goto, HolderPcs
<1>12. ASSUME NEW r \in Requests, MarkSucceeded(r) PROVE TypeOK'
  <2>1. \A w \in BOOLEAN : SucceededRow(row, recordId[r], [by |-> r, whole |-> w], ExpiresAt(r)) \in Row
    BY <1>0, RowTypes, BodiesAssumption
  <2>2. \A w \in BOOLEAN : WellFormed(SucceededRow(row, recordId[r], [by |-> r, whole |-> w], ExpiresAt(r)))
    <3>1. \A w \in BOOLEAN : [by |-> r, whole |-> w] \in Bodies
      BY BodiesAssumption
    <3> QED
      BY <3>1, RowForms
  <2> QED
    BY <1>0, <1>12, <2>1, <2>2 DEF MarkSucceeded, Return, ReturnData, Results
<1>13. ASSUME NEW r \in Requests, MarkFailedRetryable(r) PROVE TypeOK'
  <2>1. FailedRow(row, recordId[r], now + FailedRetryBackoff, ExpiresAt(r)) \in Row
    BY <1>0, RowTypes
  <2> QED
    BY <1>0, <1>13, <2>1, RowForms DEF MarkFailedRetryable, Return, ReturnData, Results
<1>14. ASSUME NEW r \in Requests, StoreError(r) \/ Crash(r) PROVE TypeOK'
  <2>1. PICK res \in Results : Return(r, res) /\ UNCHANGED <<now, table, effects>>
    BY <1>14 DEF StoreError, Crash, Results
  <2> QED
    BY <1>0, <2>1 DEF Return, ReturnData
<1> QED
  BY <1>1, <1>2, <1>3, <1>4, <1>5, <1>6, <1>7, <1>8, <1>9, <1>10, <1>11, <1>12,
     <1>13, <1>14 DEF Next, Step

-----------------------------------------------------------------------------
(* The numbers the invariant compares are naturals. *)
LEMMA ColumnsOfState ==
  ASSUME TypeOK
  PROVE  /\ row.id \in Nat /\ row.locked \in Nat /\ row.expires \in Nat
         /\ now \in Nat /\ nextId \in Nat /\ window \in Nat
         /\ \A s \in Requests : t[s] \in Nat /\ existing[s].id \in Nat
<1>1. row.id \in Nat /\ row.locked \in Nat /\ row.expires \in Nat
  BY RowColumns DEF TypeOK
<1>2. ASSUME NEW s \in Requests PROVE existing[s].id \in Nat
  <2>1. existing[s] \in Row
    BY DEF TypeOK
  <2> QED
    BY <2>1, RowColumns
<1> QED
  BY <1>1, <1>2 DEF TypeOK

(* A request returns and leaves the table alone. *)
LEMMA LeaveStep ==
  ASSUME IInv, NEW r \in Requests, NEW res \in Results, NEW b \in Bodies \cup {NoBody},
         ReturnData(r, res, b), UNCHANGED <<now, table, effects>>,
         res = "replayed" => Produced(b.by, fp[r])
  PROVE  Rest'
<1>0. /\ row.id \in Nat /\ row.locked \in Nat /\ row.expires \in Nat
      /\ now \in Nat /\ nextId \in Nat /\ window \in Nat
      /\ \A s \in Requests : t[s] \in Nat /\ existing[s].id \in Nat
  BY ColumnsOfState DEF IInv
<1> USE DEF IInv, Rest, TypeOK, ReturnData, table
<1>1. pc' = [pc EXCEPT ![r] = "done"] /\ pc'[r] = "done"
  OBVIOUS
<1>2. Clocks'
  BY <1>0, <1>1 DEF Clocks, ClaimPcs, HolderPcs
<1>3. Ids'
  BY <1>0, <1>1 DEF Ids, Present, NoRow
<1>4. Ownership'
  BY <1>1 DEF Ownership, Owns, HolderPcs
<1>5. Reclaims'
  BY <1>0, <1>1 DEF Reclaims
<1>6. FirstWindow'
  BY <1>0, <1>1 DEF FirstWindow, Present
<1>7. OpenEffects' /\ SingleEffect'
  BY <1>0, <1>1 DEF OpenEffects, SingleEffect
<1>8. Replays'
  <2>1. \A by, q : Produced(by, q)' <=> Produced(by, q)
    BY <1>1 DEF Produced
  <2>2. \A s \in Requests \ {r} : pc'[s] = pc[s]
    BY <1>1
  <2> QED
    BY <1>1, <2>1, <2>2 DEF Replays
<1> QED
  BY <1>2, <1>3, <1>4, <1>5, <1>6, <1>7, <1>8

(* A claimant moves on without the row: lost INSERT, lost reclaim. *)
LEMMA MoveStep ==
  ASSUME IInv, NEW r \in Requests, pc[r] \in ClaimPcs, NEW label \in {"get", "reget"},
         Goto(r, label), UNCHANGED <<now, table, effects>>
  PROVE  Rest'
<1>0. /\ row.id \in Nat /\ row.locked \in Nat /\ row.expires \in Nat
      /\ now \in Nat /\ nextId \in Nat /\ window \in Nat
      /\ \A s \in Requests : t[s] \in Nat /\ existing[s].id \in Nat
  BY ColumnsOfState DEF IInv
<1> USE DEF IInv, Rest, TypeOK, Goto, table, local
<1>1. pc' = [pc EXCEPT ![r] = label] /\ pc'[r] = label /\ label \in ClaimPcs
  BY DEF ClaimPcs
<1>2. Clocks'
  BY <1>0, <1>1 DEF Clocks, ClaimPcs, HolderPcs
<1>3. Ids'
  BY <1>0, <1>1 DEF Ids, Present
<1>4. Ownership'
  BY <1>1 DEF Ownership, Owns, HolderPcs
<1>5. Reclaims'
  BY <1>0, <1>1 DEF Reclaims
<1>6. FirstWindow'
  BY <1>0, <1>1 DEF FirstWindow, Present
<1>7. OpenEffects' /\ SingleEffect'
  BY <1>0, <1>1 DEF OpenEffects, SingleEffect
<1>8. Replays'
  <2>1. \A by, q : Produced(by, q)' <=> Produced(by, q)
    BY <1>1 DEF Produced
  <2>2. \A s \in Requests \ {r} : pc'[s] = pc[s]
    BY <1>1
  <2> QED
    BY <1>1, <2>1, <2>2 DEF Replays, ClaimPcs
<1> QED
  BY <1>2, <1>3, <1>4, <1>5, <1>6, <1>7, <1>8

(* A claimant keeps the row it read, expired or failed, for TryReclaim. *)
LEMMA RememberStep ==
  ASSUME IInv, NEW r \in Requests, pc[r] \in {"get", "reget"}, Present(row), row.fp = fp[r],
         NEW label \in {"reclaimExpired", "reclaimFailed"},
         label = "reclaimExpired" => row.expires <= t[r],
         label = "reclaimFailed" => row.status = "failed_retryable",
         Remember(r, label), UNCHANGED <<now, table, effects>>
  PROVE  Rest'
<1>0. /\ row.id \in Nat /\ row.locked \in Nat /\ row.expires \in Nat
      /\ now \in Nat /\ nextId \in Nat /\ window \in Nat
      /\ \A s \in Requests : t[s] \in Nat /\ existing[s].id \in Nat
  BY ColumnsOfState DEF IInv
<1> USE DEF IInv, Rest, TypeOK, Remember, table
<1>1. /\ pc' = [pc EXCEPT ![r] = label] /\ pc'[r] = label /\ label \in ClaimPcs
      /\ existing'[r] = row /\ \A s \in Requests \ {r} : existing'[s] = existing[s]
      /\ t[r] <= now
  BY DEF ClaimPcs, Clocks
<1>2. Clocks'
  BY <1>0, <1>1 DEF Clocks, ClaimPcs, HolderPcs
<1>3. Ids'
  BY <1>0, <1>1 DEF Ids, Present
<1>4. Ownership'
  BY <1>1 DEF Ownership, Owns, HolderPcs
<1>5. Reclaims'
  BY <1>0, <1>1 DEF Reclaims
<1>6. FirstWindow'
  BY <1>0, <1>1 DEF FirstWindow, Present
<1>7. OpenEffects' /\ SingleEffect'
  <2>1. label = "reclaimExpired" => row.expires <= now
    BY <1>0, <1>1
  <2>2. OpenEffects'
    <3> SUFFICES ASSUME NEW i \in 1..Len(effects), effects[i].first, now < effects[i].until,
                        NEW s \in Requests
                 PROVE  /\ ~(pc'[s] = "reclaimExpired" /\ existing'[s].id = row.id)
                        /\ pc'[s] \notin {"selectId", "exec", "markFail"}
      BY DEF OpenEffects
    <3>1. /\ row.expires = effects[i].until
          /\ ~(pc[s] = "reclaimExpired" /\ existing[s].id = row.id)
          /\ pc[s] \notin {"selectId", "exec", "markFail"}
      BY DEF OpenEffects
    <3>2. CASE s = r
      BY <1>0, <1>1, <2>1, <3>1, <3>2
    <3>3. CASE s # r
      BY <1>1, <3>1, <3>3
    <3> QED
      BY <3>2, <3>3
  <2> QED
    BY <2>2 DEF SingleEffect
<1>8. Replays'
  <2>1. \A by, q : Produced(by, q)' <=> Produced(by, q)
    BY <1>1 DEF Produced
  <2>2. \A s \in Requests \ {r} : pc'[s] = pc[s]
    BY <1>1
  <2> QED
    BY <1>1, <2>1, <2>2 DEF Replays
<1> QED
  BY <1>2, <1>3, <1>4, <1>5, <1>6, <1>7, <1>8

(* A request starts: its clock reads now. *)
LEMMA BeginStep ==
  ASSUME IInv, NEW r \in Requests, NEW p \in Payloads, Begin(r, p)
  PROVE  Rest'
<1>0. /\ row.id \in Nat /\ row.locked \in Nat /\ row.expires \in Nat
      /\ now \in Nat /\ nextId \in Nat /\ window \in Nat
      /\ \A s \in Requests : t[s] \in Nat /\ existing[s].id \in Nat
  BY ColumnsOfState DEF IInv
<1> USE DurationAssumption DEF IInv, Rest, TypeOK, Begin, table
<1>1. /\ pc' = [pc EXCEPT ![r] = "insert"] /\ pc'[r] = "insert" /\ t'[r] = now
      /\ \A s \in Requests \ {r} : pc'[s] = pc[s] /\ t'[s] = t[s] /\ fp'[s] = fp[s]
  OBVIOUS
<1>2. Clocks'
  BY <1>0, <1>1 DEF Clocks, ClaimPcs, HolderPcs
<1>3. Ids'
  BY <1>0, <1>1 DEF Ids, Present
<1>4. Ownership'
  BY <1>1 DEF Ownership, Owns, HolderPcs
<1>5. Reclaims'
  BY <1>0, <1>1 DEF Reclaims
<1>6. FirstWindow'
  BY <1>0, <1>1 DEF FirstWindow, Present
<1>7. OpenEffects' /\ SingleEffect'
  BY <1>0, <1>1 DEF OpenEffects, SingleEffect
<1>8. Replays'
  <2>1. pc[r] = "idle" /\ result[r] # "replayed"
    BY DEF Replays
  <2>2. \A by, q : Produced(by, q)' <=> Produced(by, q)
    BY DEF Produced
  <2> QED
    BY <1>1, <2>1, <2>2 DEF Replays
<1> QED
  BY <1>2, <1>3, <1>4, <1>5, <1>6, <1>7, <1>8

(* The INSERT wins: a new id, so nobody else can own or have read this row. *)
LEMMA InsertStep ==
  ASSUME IInv, NEW r \in Requests, InsertIgnore(r), ~Present(row)
  PROVE  Rest'
<1>0. /\ row.id \in Nat /\ row.locked \in Nat /\ row.expires \in Nat
      /\ now \in Nat /\ nextId \in Nat /\ window \in Nat
      /\ \A s \in Requests : t[s] \in Nat /\ existing[s].id \in Nat
  BY ColumnsOfState DEF IInv
<1> USE DurationAssumption DEF IInv, Rest, TypeOK
<1>1. /\ pc[r] = "insert" /\ pc' = [pc EXCEPT ![r] = "selectId"] /\ pc'[r] = "selectId"
      /\ row'.id = nextId /\ row'.fp = fp[r] /\ row'.status = "processing" /\ row'.body = NoBody
      /\ row'.expires = t[r] + TTL /\ row'.locked = t[r] + ProcessingTimeout
      /\ nextId' = nextId + 1 /\ window' = t[r] + TTL
      /\ UNCHANGED <<now, fp, t, recordId, existing, result, data, effects>>
  BY DEF InsertIgnore, CreatedRow, Goto, local, LockedUntil, ExpiresAt
<1>a. \A s \in Requests : ~Owns(s)
  BY DEF Ownership, Present
<1>b. \A s \in Requests : existing'[s].id # row'.id
  BY <1>0, <1>1 DEF Ids
<1>2. Clocks'
  BY <1>0, <1>1 DEF Clocks, ClaimPcs, HolderPcs
<1>3. Ids'
  BY <1>0, <1>1 DEF Ids, Present
<1>4. Ownership'
  BY <1>1, <1>a DEF Ownership, Owns, HolderPcs
<1>5. Reclaims'
  BY <1>0, <1>1, <1>b DEF Reclaims
<1>6. FirstWindow'
  BY <1>0, <1>1, <1>b DEF FirstWindow, Clocks
<1>7. OpenEffects' /\ SingleEffect'
  BY <1>0, <1>1 DEF OpenEffects, SingleEffect, Present
<1>8. Replays'
  <2>1. \A by, q : Produced(by, q)' <=> Produced(by, q)
    BY <1>1 DEF Produced
  <2>2. \A s \in Requests \ {r} : pc'[s] = pc[s]
    BY <1>1
  <2> QED
    BY <1>1, <2>1, <2>2 DEF Replays
<1> QED
  BY <1>2, <1>3, <1>4, <1>5, <1>6, <1>7, <1>8

(* The inserter reads its id back. *)
LEMMA SelectIdStep ==
  ASSUME IInv, NEW r \in Requests, SelectId(r), Present(row)
  PROVE  Rest'
<1>0. /\ row.id \in Nat /\ row.locked \in Nat /\ row.expires \in Nat
      /\ now \in Nat /\ nextId \in Nat /\ window \in Nat
      /\ \A s \in Requests : t[s] \in Nat /\ existing[s].id \in Nat
  BY ColumnsOfState DEF IInv
<1> USE DEF IInv, Rest, TypeOK, table
<1>1. /\ pc[r] = "selectId" /\ pc' = [pc EXCEPT ![r] = "exec"] /\ pc'[r] = "exec"
      /\ recordId'[r] = row.id /\ \A s \in Requests \ {r} : recordId'[s] = recordId[s]
      /\ existing' = [existing EXCEPT ![r] = NoRow] /\ existing'[r] = NoRow
      /\ UNCHANGED <<now, row, nextId, window, fp, t, result, data, effects>>
  BY DEF SelectId, Own
<1>a. Owns(r)
  BY <1>1 DEF Owns
<1>2. Clocks'
  BY <1>0, <1>1 DEF Clocks, ClaimPcs, HolderPcs
<1>3. Ids'
  BY <1>0, <1>1 DEF Ids, Present, NoRow
<1>4. Ownership'
  BY <1>1, <1>a DEF Ownership, Owns, HolderPcs
<1>5. Reclaims'
  BY <1>0, <1>1 DEF Reclaims
<1>6. FirstWindow'
  BY <1>0, <1>1 DEF FirstWindow, Present
<1>7. OpenEffects' /\ SingleEffect'
  BY <1>0, <1>1 DEF OpenEffects, SingleEffect
<1>8. Replays'
  <2>1. \A by, q : Produced(by, q)' <=> Produced(by, q)
    BY <1>1 DEF Produced
  <2>2. \A s \in Requests \ {r} : pc'[s] = pc[s]
    BY <1>1
  <2> QED
    BY <1>1, <2>1, <2>2 DEF Replays
<1> QED
  BY <1>2, <1>3, <1>4, <1>5, <1>6, <1>7, <1>8

(* TryReclaim takes the row: it had no owner, and no open first-window success. *)
LEMMA TakeOverStep ==
  ASSUME IInv, NEW r \in Requests, pc[r] \in {"reclaimExpired", "reclaimFailed"},
         TakeOver(r), UNCHANGED <<now, effects>>,
         pc[r] = "reclaimFailed" => row.status = "failed_retryable"
  PROVE  Rest'
<1>0. /\ row.id \in Nat /\ row.locked \in Nat /\ row.expires \in Nat
      /\ now \in Nat /\ nextId \in Nat /\ window \in Nat
      /\ \A s \in Requests : t[s] \in Nat /\ existing[s].id \in Nat
  BY ColumnsOfState DEF IInv
<1> USE DurationAssumption DEF IInv, Rest, TypeOK
<1>1. /\ pc' = [pc EXCEPT ![r] = "exec"] /\ pc'[r] = "exec"
      /\ recordId'[r] = row.id /\ \A s \in Requests \ {r} : recordId'[s] = recordId[s]
      /\ existing' = [existing EXCEPT ![r] = NoRow] /\ existing'[r] = NoRow
      /\ existing[r].id = row.id /\ row.locked <= t[r]
      /\ row'.id = row.id /\ row'.fp = row.fp /\ row'.status = "processing" /\ row'.body = row.body
      /\ row'.expires = t[r] + TTL /\ row'.locked = t[r] + ProcessingTimeout
      /\ UNCHANGED <<now, nextId, window, fp, t, result, data, effects>>
  BY DEF TakeOver, Own, CanReclaim, ReclaimedRow, LockedUntil, ExpiresAt
<1>a. \A s \in Requests : ~Owns(s)
  <2> SUFFICES ASSUME NEW s \in Requests, Owns(s) PROVE FALSE
    OBVIOUS
  <2>1. row.status = "processing" /\ row.expires = t[s] + TTL
    BY DEF Ownership
  <2>2. now < t[s] + TTL
    BY DEF Clocks, Owns, ClaimPcs, HolderPcs
  <2>3. pc[r] = "reclaimExpired"
    BY <2>1
  <2> QED
    <3>1. row.expires <= now
      BY <1>0, <1>1, <2>1, <2>3 DEF Reclaims
    <3> QED
      BY <1>0, <2>1, <2>2, <3>1
<1>2. Clocks'
  BY <1>0, <1>1 DEF Clocks, ClaimPcs, HolderPcs
<1>3. Ids'
  BY <1>0, <1>1 DEF Ids, Present, NoRow
<1>4. Ownership'
  <2>1. row.fp = fp[r]
    BY <1>1 DEF Reclaims
  <2> QED
    BY <1>1, <1>a, <2>1 DEF Ownership, Owns, HolderPcs
<1>5. Reclaims'
  <2>1. now < t[r] + ProcessingTimeout /\ \A s \in Requests : t[s] <= now
    BY DEF Clocks, ClaimPcs
  <2> QED
    BY <1>0, <1>1, <2>1 DEF Reclaims
<1>6. FirstWindow'
  <2>1. Present(row)
    BY <1>1 DEF Ids
  <2>2. now < window => row.status = "failed_retryable"
    BY <1>1, <2>1 DEF FirstWindow
  <2> QED
    BY <1>0, <1>1, <2>1, <2>2 DEF FirstWindow
<1>7. OpenEffects' /\ SingleEffect'
  <2>1. \A i \in 1..Len(effects) : ~(effects[i].first /\ now < effects[i].until)
    BY <1>1 DEF OpenEffects
  <2> QED
    BY <1>1, <2>1 DEF OpenEffects, SingleEffect
<1>8. Replays'
  <2>1. \A by, q : Produced(by, q)' <=> Produced(by, q)
    BY <1>1 DEF Produced
  <2>2. \A s \in Requests \ {r} : pc'[s] = pc[s]
    BY <1>1
  <2> QED
    BY <1>1, <2>1, <2>2 DEF Replays
<1> QED
  BY <1>2, <1>3, <1>4, <1>5, <1>6, <1>7, <1>8

(* The owner stores its success: the row keeps its expires_at. *)
LEMMA MarkSucceededStep ==
  ASSUME IInv, NEW r \in Requests, MarkSucceeded(r)
  PROVE  Rest'
<1>0. /\ row.id \in Nat /\ row.locked \in Nat /\ row.expires \in Nat
      /\ now \in Nat /\ nextId \in Nat /\ window \in Nat
      /\ \A s \in Requests : t[s] \in Nat /\ existing[s].id \in Nat
  BY ColumnsOfState DEF IInv
<1> USE DurationAssumption DEF IInv, Rest, TypeOK
<1>a. /\ pc[r] = "markOk" /\ Owns(r) /\ row.id = recordId[r]
      /\ row.status = "processing" /\ row.expires = t[r] + TTL /\ row.fp = fp[r]
  BY DEF MarkSucceeded, Owns, Ownership, HolderPcs
<1>b. \A s \in Requests : Owns(s) => s = r
  BY <1>a DEF Ownership
<1>1. /\ pc' = [pc EXCEPT ![r] = "done"] /\ pc'[r] = "done"
      /\ t' = [t EXCEPT ![r] = 0] /\ t'[r] = 0
      /\ existing' = [existing EXCEPT ![r] = NoRow] /\ existing'[r] = NoRow
      /\ result'[r] = "ok" /\ \A s \in Requests \ {r} : result'[s] = result[s] /\ data'[s] = data[s]
      /\ row'.id = row.id /\ row'.fp = row.fp /\ row'.status = "succeeded"
      /\ row'.expires = row.expires
      /\ row'.body # NoBody /\ row'.body.by = r
      /\ UNCHANGED <<now, nextId, window, fp, effects>>
  BY <1>a, BodiesAssumption, StoreAssumption DEF MarkSucceeded, Return, ReturnData, ExpiresAt, SucceededRow
<1>2. Clocks'
  BY <1>0, <1>1 DEF Clocks, ClaimPcs, HolderPcs
<1>3. Ids'
  BY <1>0, <1>1, <1>a DEF Ids, Present, NoRow
<1>4. Ownership'
  BY <1>1, <1>b DEF Ownership, Owns, HolderPcs
<1>5. Reclaims'
  BY <1>0, <1>1 DEF Reclaims
<1>6. FirstWindow'
  BY <1>0, <1>1, <1>a DEF FirstWindow, Present
<1>7. OpenEffects' /\ SingleEffect'
  BY <1>0, <1>1, <1>a DEF OpenEffects, SingleEffect
<1>8. Replays'
  <2>1. \A by, q : Produced(by, q)' <=> Produced(by, q)
    BY <1>1 DEF Produced
  <2>2. \A s \in Requests \ {r} : pc'[s] = pc[s]
    BY <1>1
  <2> QED
    BY <1>1, <1>a, <2>1, <2>2 DEF Replays
<1> QED
  BY <1>2, <1>3, <1>4, <1>5, <1>6, <1>7, <1>8

(* The owner stores its failure: the backoff ends no earlier than now. *)
LEMMA MarkFailedStep ==
  ASSUME IInv, NEW r \in Requests, MarkFailedRetryable(r)
  PROVE  Rest'
<1>0. /\ row.id \in Nat /\ row.locked \in Nat /\ row.expires \in Nat
      /\ now \in Nat /\ nextId \in Nat /\ window \in Nat
      /\ \A s \in Requests : t[s] \in Nat /\ existing[s].id \in Nat
  BY ColumnsOfState DEF IInv
<1> USE DurationAssumption DEF IInv, Rest, TypeOK
<1>a. /\ pc[r] = "markFail" /\ Owns(r) /\ row.id = recordId[r]
      /\ row.status = "processing" /\ row.expires = t[r] + TTL /\ row.fp = fp[r]
  BY DEF MarkFailedRetryable, Owns, Ownership, HolderPcs
<1>b. \A s \in Requests : Owns(s) => s = r
  BY <1>a DEF Ownership
<1>1. /\ pc' = [pc EXCEPT ![r] = "done"] /\ pc'[r] = "done"
      /\ t' = [t EXCEPT ![r] = 0] /\ t'[r] = 0
      /\ existing' = [existing EXCEPT ![r] = NoRow] /\ existing'[r] = NoRow
      /\ result'[r] = "error" /\ \A s \in Requests \ {r} : result'[s] = result[s] /\ data'[s] = data[s]
      /\ row'.id = row.id /\ row'.fp = row.fp /\ row'.status = "failed_retryable"
      /\ row'.expires = row.expires
      /\ row'.locked = now + FailedRetryBackoff /\ row'.body = row.body
      /\ UNCHANGED <<now, nextId, window, fp, effects>>
  BY <1>a DEF MarkFailedRetryable, Return, ReturnData, ExpiresAt, FailedRow
<1>2. Clocks'
  BY <1>0, <1>1 DEF Clocks, ClaimPcs, HolderPcs
<1>3. Ids'
  BY <1>0, <1>1, <1>a DEF Ids, Present, NoRow
<1>4. Ownership'
  BY <1>1, <1>b DEF Ownership, Owns, HolderPcs
<1>5. Reclaims'
  BY <1>0, <1>1 DEF Reclaims
<1>6. FirstWindow'
  BY <1>0, <1>1, <1>a DEF FirstWindow, Present
<1>7. OpenEffects' /\ SingleEffect'
  BY <1>0, <1>1, <1>a DEF OpenEffects, SingleEffect
<1>8. Replays'
  <2>1. \A by, q : Produced(by, q)' <=> Produced(by, q)
    BY <1>1 DEF Produced
  <2>2. \A s \in Requests \ {r} : pc'[s] = pc[s]
    BY <1>1
  <2> QED
    BY <1>1, <1>a, <2>1, <2>2 DEF Replays
<1> QED
  BY <1>2, <1>3, <1>4, <1>5, <1>6, <1>7, <1>8

(* execute(ctx) succeeds: every first-window success before it has ended. *)
LEMMA ExecuteOkStep ==
  ASSUME IInv, NEW r \in Requests, ExecuteOk(r)
  PROVE  Rest'
<1>0. /\ row.id \in Nat /\ row.locked \in Nat /\ row.expires \in Nat
      /\ now \in Nat /\ nextId \in Nat /\ window \in Nat
      /\ \A s \in Requests : t[s] \in Nat /\ existing[s].id \in Nat
  BY ColumnsOfState DEF IInv
<1> USE DurationAssumption DEF IInv, Rest, TypeOK, table, local
<1>a. /\ pc[r] = "exec" /\ Owns(r) /\ row.status = "processing" /\ row.expires = t[r] + TTL
  BY DEF ExecuteOk, Owns, Ownership, HolderPcs
<1>b. \A s \in Requests : Owns(s) => s = r
  BY <1>a DEF Ownership
<1>c. \A i \in 1..Len(effects) : ~(effects[i].first /\ now < effects[i].until)
  BY <1>a DEF OpenEffects
<1> DEFINE e == [by |-> r, fp |-> fp[r], at |-> now, until |-> t[r] + TTL, first |-> now < window]
<1>1. /\ pc' = [pc EXCEPT ![r] = "markOk"] /\ pc'[r] = "markOk"
      /\ effects' = Append(effects, e)
      /\ UNCHANGED <<now, row, nextId, window, fp, t, recordId, existing, result, data>>
  BY DEF ExecuteOk, Goto, ExpiresAt
<1>d. /\ effects \in Seq(Effect) /\ Len(effects') = Len(effects) + 1
      /\ effects'[Len(effects) + 1] = e
      /\ \A i \in 1..Len(effects) : effects'[i] = effects[i]
  BY <1>1
<1>e. \A i \in 1..Len(effects) : effects[i].until \in Nat
  <2>1. \A i \in 1..Len(effects) : effects[i] \in Effect
    BY <1>d
  <2> QED
    BY <2>1 DEF Effect
<1>f. e.by = r /\ e.fp = fp[r] /\ e.at = now /\ e.until = t[r] + TTL /\ (e.first <=> now < window)
  OBVIOUS
<1> HIDE DEF e
<1>2. Clocks'
  BY <1>0, <1>1, <1>a DEF Clocks, ClaimPcs, HolderPcs
<1>3. Ids'
  BY <1>0, <1>1 DEF Ids, Present
<1>4. Ownership'
  BY <1>1, <1>a, <1>b DEF Ownership, Owns, HolderPcs
<1>5. Reclaims'
  BY <1>0, <1>1 DEF Reclaims
<1>6. FirstWindow'
  BY <1>0, <1>1 DEF FirstWindow, Present
<1>7. OpenEffects' /\ SingleEffect'
  <2>1. OpenEffects'
    <3> SUFFICES ASSUME NEW i \in 1..Len(effects')
                 PROVE  /\ effects'[i].at <= now
                        /\ effects'[i].first /\ now < effects'[i].until =>
                             /\ row.status \in {"processing", "succeeded"}
                             /\ row.expires = effects'[i].until
                             /\ \A s \in Requests :
                                  /\ ~(pc'[s] = "reclaimExpired" /\ existing[s].id = row.id)
                                  /\ pc'[s] \notin {"selectId", "exec", "markFail"}
      BY <1>1 DEF OpenEffects
    <3>1. CASE i \in 1..Len(effects)
      BY <1>c, <1>d, <3>1 DEF OpenEffects
    <3>2. CASE i = Len(effects) + 1
      <4>1. effects'[i] = e
        BY <1>d, <3>2
      <4>2. now < window => \A s \in Requests : ~(pc[s] = "reclaimExpired" /\ existing[s].id = row.id)
        BY <1>a DEF FirstWindow, Present
      <4>3. \A s \in Requests \ {r} : pc'[s] \notin {"selectId", "exec", "markFail"}
        BY <1>1, <1>b DEF Owns, HolderPcs
      <4> QED
        BY <1>0, <1>1, <1>a, <1>f, <4>1, <4>2, <4>3
    <3> QED
      BY <1>d, <3>1, <3>2
  <2>2. SingleEffect'
    <3> SUFFICES ASSUME NEW i \in 1..Len(effects'), NEW j \in 1..Len(effects'), i < j, effects'[i].first
                 PROVE  effects'[i].until <= effects'[j].at
      BY DEF SingleEffect
    <3>0. Len(effects) \in Nat /\ i \in 1..Len(effects) /\ effects'[i] = effects[i]
      BY <1>d
    <3>1. CASE j \in 1..Len(effects)
      BY <1>d, <3>0, <3>1 DEF SingleEffect
    <3>2. CASE j = Len(effects) + 1
      BY <1>0, <1>c, <1>d, <1>e, <1>f, <3>0, <3>2
    <3> QED
      BY <1>d, <3>0, <3>1, <3>2
  <2> QED
    BY <2>1, <2>2
<1>8. Replays'
  <2>1. ASSUME NEW by, NEW p, Produced(by, p) PROVE Produced(by, p)'
    BY <1>d, <2>1 DEF Produced
  <2>2. Produced(r, fp[r])'
    <3>1. Len(effects) + 1 \in 1..Len(effects') /\ fp' = fp
      BY <1>1, <1>d
    <3> QED
      BY <1>d, <1>f, <3>1 DEF Produced
  <2> QED
    BY <1>1, <1>a, <2>1, <2>2 DEF Replays
<1> QED
  BY <1>2, <1>3, <1>4, <1>5, <1>6, <1>7, <1>8

(* execute(ctx) fails: only the owner's program counter moves. *)
LEMMA ExecuteFailsStep ==
  ASSUME IInv, NEW r \in Requests, ExecuteFails(r)
  PROVE  Rest'
<1>0. /\ row.id \in Nat /\ row.locked \in Nat /\ row.expires \in Nat
      /\ now \in Nat /\ nextId \in Nat /\ window \in Nat
      /\ \A s \in Requests : t[s] \in Nat /\ existing[s].id \in Nat
  BY ColumnsOfState DEF IInv
<1> USE DEF IInv, Rest, TypeOK, ExecuteFails, Goto, table, local
<1>1. /\ pc[r] = "exec" /\ pc' = [pc EXCEPT ![r] = "markFail"] /\ pc'[r] = "markFail"
  OBVIOUS
<1>2. Clocks'
  BY <1>0, <1>1 DEF Clocks, ClaimPcs, HolderPcs
<1>3. Ids'
  BY <1>0, <1>1 DEF Ids, Present
<1>4. Ownership'
  BY <1>1 DEF Ownership, Owns, HolderPcs
<1>5. Reclaims'
  BY <1>0, <1>1 DEF Reclaims
<1>6. FirstWindow'
  BY <1>0, <1>1 DEF FirstWindow, Present
<1>7. OpenEffects' /\ SingleEffect'
  BY <1>0, <1>1 DEF OpenEffects, SingleEffect
<1>8. Replays'
  <2>1. \A by, q : Produced(by, q)' <=> Produced(by, q)
    BY <1>1 DEF Produced
  <2>2. \A s \in Requests \ {r} : pc'[s] = pc[s]
    BY <1>1
  <2> QED
    BY <1>1, <2>1, <2>2 DEF Replays
<1> QED
  BY <1>2, <1>3, <1>4, <1>5, <1>6, <1>7, <1>8

(* Cleanup deletes an expired row, which has no owner. *)
LEMMA CleanupStep ==
  ASSUME IInv, CleanupOnce
  PROVE  Rest'
<1>0. /\ row.id \in Nat /\ row.locked \in Nat /\ row.expires \in Nat
      /\ now \in Nat /\ nextId \in Nat /\ window \in Nat
      /\ \A s \in Requests : t[s] \in Nat /\ existing[s].id \in Nat
  BY ColumnsOfState DEF IInv
<1> USE DurationAssumption DEF IInv, Rest, TypeOK
<1>1. /\ row' = NoRow /\ row'.id = 0 /\ row'.status = "none" /\ row'.body = NoBody
      /\ row.expires <= now /\ UNCHANGED <<now, nextId, window, pc, fp, t, recordId, existing, result, data, effects>>
  BY DEF CleanupOnce, Expired, NoRow, local
<1>a. \A s \in Requests : ~Owns(s)
  BY <1>0, <1>1 DEF Ownership, Clocks, Owns, ClaimPcs, HolderPcs
<1>2. Clocks'
  BY <1>1 DEF Clocks
<1>3. Ids'
  BY <1>0, <1>1 DEF Ids, Present
<1>4. Ownership'
  BY <1>1, <1>a DEF Ownership, Owns
<1>5. Reclaims'
  BY <1>1 DEF Reclaims, Ids
<1>6. FirstWindow'
  BY <1>1 DEF FirstWindow, Present
<1>7. OpenEffects' /\ SingleEffect'
  <2>1. effects \in Seq(Effect)
    OBVIOUS
  <2>2. \A i \in 1..Len(effects) : effects[i].until \in Nat
    <3>1. \A i \in 1..Len(effects) : effects[i] \in Effect
      BY <2>1
    <3> QED
      BY <3>1 DEF Effect
  <2> QED
    BY <1>0, <1>1, <2>2 DEF OpenEffects, SingleEffect
<1>8. Replays'
  <2>1. \A by, q : Produced(by, q)' <=> Produced(by, q)
    BY <1>1 DEF Produced
  <2> QED
    BY <1>1, <2>1 DEF Replays
<1> QED
  BY <1>2, <1>3, <1>4, <1>5, <1>6, <1>7, <1>8

(* Time passes only as far as the requests under way allow. *)
LEMMA TickStep ==
  ASSUME IInv, Tick
  PROVE  Rest'
<1>0. /\ row.id \in Nat /\ row.locked \in Nat /\ row.expires \in Nat
      /\ now \in Nat /\ nextId \in Nat /\ window \in Nat
      /\ \A s \in Requests : t[s] \in Nat /\ existing[s].id \in Nat
  BY ColumnsOfState DEF IInv
<1> USE DurationAssumption DEF IInv, Rest, TypeOK, Tick, table, local
<1>a. \A i \in 1..Len(effects) : effects[i].until \in Nat /\ effects[i].at \in Nat
  <2>1. \A i \in 1..Len(effects) : effects[i] \in Effect
    OBVIOUS
  <2> QED
    BY <2>1 DEF Effect
<1>2. Clocks'
  BY <1>0 DEF Clocks
<1>3. Ids'
  BY <1>0 DEF Ids, Present
<1>4. Ownership'
  BY DEF Ownership, Owns
<1>5. Reclaims'
  BY <1>0 DEF Reclaims
<1>6. FirstWindow'
  BY <1>0 DEF FirstWindow, Present
<1>7. OpenEffects' /\ SingleEffect'
  BY <1>0, <1>a DEF OpenEffects, SingleEffect
<1>8. Replays'
  BY DEF Replays, Produced
<1> QED
  BY <1>2, <1>3, <1>4, <1>5, <1>6, <1>7, <1>8

-----------------------------------------------------------------------------
(* IInv is inductive: one case per action, each by its lemma. *)
LEMMA InductiveStep == IInv /\ [Next]_vars => IInv'
<1> SUFFICES ASSUME IInv, [Next]_vars PROVE Rest'
  BY TypeStep DEF IInv
<1>1. CASE UNCHANGED vars
  <2> USE <1>1 DEF vars, local, table, IInv, Rest
  <2>1. Clocks' /\ Ids' /\ FirstWindow'
    BY DEF Clocks, Ids, FirstWindow, Present
  <2>2. Ownership' /\ Reclaims'
    BY DEF Ownership, Owns, Reclaims
  <2>3. OpenEffects' /\ SingleEffect'
    BY DEF OpenEffects, SingleEffect
  <2>4. Replays'
    BY DEF Replays, Produced
  <2> QED
    BY <2>1, <2>2, <2>3, <2>4
<1>2. CASE CleanupOnce
  BY <1>2, CleanupStep
<1>3. CASE Tick
  BY <1>3, TickStep
<1>4. ASSUME NEW r \in Requests, NEW p \in Payloads, Begin(r, p) PROVE Rest'
  BY <1>4, BeginStep
<1>5. ASSUME NEW r \in Requests, BeginWithoutKey(r) PROVE Rest'
  <2>1. PICK res \in {"ok", "error"} : ReturnData(r, res, NoBody)
    BY <1>5 DEF BeginWithoutKey, Return
  <2>2. res \in Results /\ res # "replayed" /\ UNCHANGED <<now, table, effects>>
    BY <1>5 DEF BeginWithoutKey, Results
  <2> QED
    BY <2>1, <2>2, LeaveStep
<1>6. ASSUME NEW r \in Requests, InsertIgnore(r) PROVE Rest'
  <2>1. CASE Present(row)
    <3>1. pc[r] \in ClaimPcs /\ Goto(r, "get") /\ UNCHANGED <<now, table, effects>>
      BY <1>6, <2>1 DEF InsertIgnore, ClaimPcs
    <3> QED
      BY <3>1, MoveStep
  <2> QED
    BY <1>6, <2>1, InsertStep
<1>7. ASSUME NEW r \in Requests, SelectId(r) PROVE Rest'
  <2>1. CASE ~Present(row)
    <3>1. pc[r] \in ClaimPcs /\ Goto(r, "get") /\ UNCHANGED <<now, table, effects>>
      BY <1>7, <2>1 DEF SelectId, ClaimPcs
    <3> QED
      BY <3>1, MoveStep
  <2> QED
    BY <1>7, <2>1, SelectIdStep
<1>8. ASSUME NEW r \in Requests, GetExisting(r) \/ GetLatest(r) PROVE Rest'
  <2>0. UNCHANGED <<now, table, effects>> /\ pc[r] \in {"get", "reget"}
    BY <1>8 DEF GetExisting, GetLatest
  <2>1. CASE \E res \in Results \ {"replayed"} : Return(r, res)
    BY <2>0, <2>1, LeaveStep DEF Return
  <2>2. CASE Present(row) /\ row.fp = fp[r] /\ row.status = "succeeded" /\ ReturnData(r, "replayed", row.body)
    <3>1. row.body \in Bodies \cup {NoBody} /\ Produced(row.body.by, fp[r]) /\ "replayed" \in Results
      BY <2>2, RowColumns DEF IInv, Rest, TypeOK, Replays, Results
    <3> QED
      BY <2>0, <2>2, <3>1, LeaveStep
  <2>3. CASE Present(row) /\ row.fp = fp[r] /\ row.expires <= t[r] /\ Remember(r, "reclaimExpired")
    BY <2>0, <2>3, RememberStep
  <2>4. CASE Present(row) /\ row.fp = fp[r] /\ row.status = "failed_retryable" /\ Remember(r, "reclaimFailed")
    BY <2>0, <2>4, RememberStep
  <2> QED
    BY <1>8, <2>1, <2>2, <2>3, <2>4 DEF GetExisting, GetLatest, SamePayload, SwitchOnStatus, Results
<1>9. ASSUME NEW r \in Requests, ReclaimExpired(r) PROVE Rest'
  <2>1. pc[r] = "reclaimExpired" /\ pc[r] \in ClaimPcs /\ UNCHANGED <<now, effects>>
    BY <1>9 DEF ReclaimExpired, ClaimPcs
  <2>2. CASE TakeOver(r)
    BY <2>1, <2>2, TakeOverStep
  <2>3. CASE Refused(r) /\ Goto(r, "reget")
    BY <2>1, <2>3, MoveStep DEF Refused
  <2> QED
    BY <1>9, <2>2, <2>3 DEF ReclaimExpired
<1>10. ASSUME NEW r \in Requests, ReclaimFailed(r) PROVE Rest'
  <2>1. pc[r] = "reclaimFailed" /\ UNCHANGED <<now, effects>>
    BY <1>10 DEF ReclaimFailed
  <2>2. CASE TakeOver(r)
    <3>1. row.status = "failed_retryable"
      BY <2>1, <2>2 DEF TakeOver, CanReclaim, IInv, Rest, Ids
    <3> QED
      BY <2>1, <2>2, <3>1, TakeOverStep
  <2>3. CASE Refused(r) /\ Return(r, "inProgress")
    BY <2>1, <2>3, LeaveStep DEF Refused, Return, Results
  <2> QED
    BY <1>10, <2>2, <2>3 DEF ReclaimFailed
<1>11. ASSUME NEW r \in Requests, ExecuteOk(r) \/ ExecuteFails(r) PROVE Rest'
  BY <1>11, ExecuteOkStep, ExecuteFailsStep
<1>12. ASSUME NEW r \in Requests, MarkSucceeded(r) \/ MarkFailedRetryable(r) PROVE Rest'
  BY <1>12, MarkSucceededStep, MarkFailedStep
<1>13. ASSUME NEW r \in Requests, StoreError(r) \/ Crash(r) PROVE Rest'
  <2>1. \E res \in Results \ {"replayed"} : ReturnData(r, res, NoBody)
    BY <1>13 DEF StoreError, Crash, Return, Results
  <2>2. UNCHANGED <<now, table, effects>>
    BY <1>13 DEF StoreError, Crash
  <2> QED
    BY <2>1, <2>2, LeaveStep
<1> QED
  BY <1>1, <1>2, <1>3, <1>4, <1>5, <1>6, <1>7, <1>8, <1>9, <1>10, <1>11, <1>12,
     <1>13 DEF Next, Step

(* The empty table and idle requests satisfy the invariant. *)
LEMMA InductiveInit == Init => IInv
<1> SUFFICES ASSUME Init PROVE IInv
  OBVIOUS
<1> USE DurationAssumption, RowTypes DEF Init
<1>1. TypeOK
  BY RowForms DEF TypeOK, Results
<1>2. Rest
  <2>1. Clocks /\ Ids /\ Ownership
    BY DEF Clocks, Ids, Ownership, Owns, Present, NoRow, ClaimPcs, HolderPcs
  <2>2. Reclaims /\ FirstWindow
    BY DEF Reclaims, FirstWindow, Present, NoRow
  <2>3. Len(effects) = 0
    OBVIOUS
  <2>4. OpenEffects /\ SingleEffect
    BY <2>3 DEF OpenEffects, SingleEffect
  <2>5. Replays
    BY DEF Replays, NoRow
  <2> QED
    BY <2>1, <2>2, <2>4, <2>5 DEF Rest
<1> QED
  BY <1>1, <1>2 DEF IInv

(***************************************************************************)
(* IdempotencyCoordinator.Execute, for every number of requests and every  *)
(* duration the assumptions allow: no second success before the expiresAt  *)
(* of one that fell in its record's first window.                          *)
(***************************************************************************)
THEOREM EffectOnce == Spec => []SingleEffect
<1>1. IInv => SingleEffect
  BY DEF IInv, Rest
<1> QED
  BY InductiveInit, InductiveStep, <1>1, PTL DEF Spec

(* TypeOK holds in every reachable state. *)
THEOREM TypeCorrect == Spec => []TypeOK
<1>1. IInv => TypeOK
  BY DEF IInv
<1> QED
  BY InductiveInit, InductiveStep, <1>1, PTL DEF Spec

(***************************************************************************)
(* execute(ctx) never runs in two requests of the key at once, although    *)
(* Execute neither renews its lock nor checks it before it marks the row.  *)
(***************************************************************************)
THEOREM ExecutorUnique == Spec => []SingleExecutor
<1>1. IInv => SingleExecutor
  BY DEF IInv, Rest, Ownership, Owns, SingleExecutor
<1> QED
  BY InductiveInit, InductiveStep, <1>1, PTL DEF Spec

(* A replayed response is that of a success with the same fingerprint. *)
THEOREM ReplaySound == Spec => []ReplayIsOfSuccess
<1>1. IInv => ReplayIsOfSuccess
  BY DEF IInv, Rest, Replays, Produced, ReplayIsOfSuccess
<1> QED
  BY InductiveInit, InductiveStep, <1>1, PTL DEF Spec
=============================================================================
