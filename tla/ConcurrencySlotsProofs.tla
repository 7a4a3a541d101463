----------------------- MODULE ConcurrencySlotsProofs -----------------------
(***************************************************************************)
(* ConcurrencySlots for any number of requests, processes, users and       *)
(* accounts.  The inductive invariant adds to the properties:              *)
(*   SlotInv   a request that holds a key has its member in the key's      *)
(*             sorted set, unless it was removed under it;                 *)
(*   QueueInv  a request is counted only from its increment to the one     *)
(*             decrement that follows, and holds nothing while idle;       *)
(*   HoldInv   as long as its client stays, a request keeps the user's     *)
(*             slot while it is after the account's, and both while its    *)
(*             upstream call runs.                                         *)
(***************************************************************************)
EXTENDS ConcurrencySlots, FiniteSetTheorems, TLAPS

SlotInv == \A r \in Requests, k \in Keys : k \in holds[r] /\ <<r, k>> \notin excused => r \in slots[k]

QueueInv ==
  \A r \in Requests :
    /\ counted[r] => pc[r] \in {"wait", "uncount", "leave"}
    /\ pc[r] = "idle" => holds[r] = {}

HoldInv ==
  \A r \in Requests :
    /\ key[r] \in KeysOf(r)
    /\ pc[r] = "idle" => key[r] = User[r]
    /\ pc[r] = "try" => key[r] = Account[r]
    /\ r \notin gone =>
         /\ key[r] = Account[r] /\ pc[r] \in {"try", "count", "wait", "uncount"} => User[r] \in holds[r]
         /\ pc[r] = "uncount" => key[r] \in holds[r]
         /\ pc[r] = "run" => KeysOf(r) \subseteq holds[r]

IInv == TypeOK /\ SlotInv /\ QueueInv /\ HoldInv /\ WaitIsExact

Labels == {"idle", "count", "wait", "uncount", "try", "run", "leave", "release"}
Fits == \A k \in Keys : Cardinality(slots[k]) + leaked[k] <= Limit[k]
Queued == \A k \in Keys : wait[k] <= MaxWait[k]
Types ==
  /\ slots \in [Keys -> SUBSET Requests] /\ leaked \in [Keys -> Nat]
  /\ wait \in [Keys -> Nat] /\ pc \in [Requests -> Labels]
  /\ key \in [Requests -> Keys] /\ counted \in [Requests -> BOOLEAN]
  /\ holds \in [Requests -> SUBSET Keys] /\ gone \in SUBSET Requests
  /\ faults \in 0..MaxFaults /\ excused \in SUBSET (Requests \X Keys)
  /\ drifted \in SUBSET Keys

USE SlotAssumption
USE DEF Goto, Fault, Fails, KeysOf

-----------------------------------------------------------------------------

\* The type invariant in its three parts: plain types, the size of the sorted
\* sets, the bound of the counters.
LEMMA TypeParts ==
  (TypeOK <=> Types /\ Fits /\ Queued) /\ (TypeOK' <=> Types' /\ Fits' /\ Queued')
BY DEF TypeOK, Types, Fits, Queued, Labels

\* A sorted set, and the requests counted for a key, are finite.
LEMMA Finite ==
  ASSUME Types, NEW k \in Keys
  PROVE  /\ IsFiniteSet(slots[k]) /\ Cardinality(slots[k]) \in Nat
         /\ IsFiniteSet(Counted(k)) /\ Cardinality(Counted(k)) \in Nat
<1>1. slots[k] \in SUBSET Requests /\ Counted(k) \in SUBSET Requests
  BY DEF Types, Counted
<1> QED
  BY <1>1, FS_Subset, FS_CardinalityType

\* The counter stays exact where neither it nor who is counted changes.
LEMMA CountKept ==
  ASSUME Types, WaitIsExact, wait' = wait, drifted \subseteq drifted',
         \A r \in Requests : (counted'[r] <=> counted[r]) /\ (counted[r] => key'[r] = key[r])
  PROVE  WaitIsExact'
<1>1. \A k \in Keys : Counted(k)' = Counted(k)
  BY DEF Counted
<1> QED
  BY <1>1 DEF WaitIsExact, Counted

-----------------------------------------------------------------------------

\* The invariant holds with empty sorted sets and counters at zero.
LEMMA InitHolds == Init => IInv
<1> HAVE Init
<1>1. Types
  BY DEF Init, Types, Labels, Keys
<1>2. Fits /\ Queued
  BY FS_EmptySet DEF Init, Fits, Queued
<1>3. SlotInv /\ QueueInv /\ HoldInv
  BY DEF Init, SlotInv, QueueInv, HoldInv, Keys
<1>4. \A k \in Keys : Counted(k) = {}
  BY DEF Init, Counted
<1>5. WaitIsExact
  BY <1>4, FS_EmptySet DEF Init, WaitIsExact
<1> QED
  BY <1>1, <1>2, <1>3, <1>5, TypeParts DEF IInv

\* A request starts with its user.
LEMMA ArriveKeeps ==
  ASSUME IInv, NEW r \in Requests, Arrive(r)
  PROVE  IInv'
<1> USE DEF Arrive
<1>1. Types /\ Fits /\ Queued
  BY TypeParts DEF IInv
<1>2. Types'
  BY <1>1 DEF Types, Labels, Keys
<1>3. Fits' /\ Queued'
  BY <1>1 DEF Fits, Queued
<1>4. SlotInv'
  BY DEF IInv, SlotInv
<1>5. QueueInv' /\ HoldInv'
  BY <1>1 DEF IInv, QueueInv, HoldInv, Types, Keys
<1>6. WaitIsExact'
  BY <1>1, CountKept DEF IInv
<1> QED
  BY <1>2, <1>3, <1>4, <1>5, <1>6, TypeParts DEF IInv

\* A client that leaves changes nothing by itself.
LEMMA ClientLeavesKeeps ==
  ASSUME IInv, NEW r \in Requests, ClientLeaves(r)
  PROVE  IInv'
<1> USE DEF ClientLeaves
<1>1. Types /\ Fits /\ Queued
  BY TypeParts DEF IInv
<1>2. Types'
  BY <1>1 DEF Types
<1>3. Fits' /\ Queued' /\ SlotInv' /\ QueueInv' /\ HoldInv'
  BY <1>1 DEF IInv, Fits, Queued, SlotInv, QueueInv, HoldInv
<1>4. WaitIsExact'
  BY <1>1, CountKept DEF IInv
<1> QED
  BY <1>2, <1>3, <1>4, TypeParts DEF IInv

\* A request is counted with the increment; a lost one is recorded as drift.
LEMMA IncrementWaitCountKeeps ==
  ASSUME IInv, NEW r \in Requests, IncrementWaitCount(r)
  PROVE  IInv'
<1> USE DEF IncrementWaitCount
<1>1. Types /\ Fits /\ Queued
  BY TypeParts DEF IInv
<1>2. Types'
  <2>1. counted' \in [Requests -> BOOLEAN]
    BY Zenon, <1>1 DEF Types
  <2>2. wait' \in [Keys -> Nat] /\ faults' \in 0..MaxFaults /\ drifted' \in SUBSET Keys
    BY <1>1 DEF Types
  <2>3. pc' \in [Requests -> Labels]
    BY <1>1 DEF Types, Labels
  <2> QED
    BY <1>1, <2>1, <2>2, <2>3 DEF Types
<1>3. Fits' /\ Queued'
  BY <1>1 DEF Fits, Queued, Types
<1>4. SlotInv'
  BY DEF IInv, SlotInv
<1>5. QueueInv' /\ HoldInv'
  BY <1>1 DEF IInv, QueueInv, HoldInv, Types
<1>6. WaitIsExact'
  <2> DEFINE k == key[r]
  <2>1. k \in Keys /\ ~counted[r]
    BY <1>1 DEF IInv, QueueInv, Types
  <2>2. \A q \in Requests \ {r} : (counted'[q] <=> counted[q]) /\ key'[q] = key[q]
    BY <1>1 DEF Types
  <2>3. \A j \in Keys \ {k} : Counted(j)' = Counted(j)
    BY <2>1, <2>2 DEF Counted
  <2>4. CASE /\ wait[k] < MaxWait[k] /\ wait' = [wait EXCEPT ![k] = @ + 1]
             /\ counted' = [counted EXCEPT ![r] = TRUE] /\ drifted' = drifted
    <3>1. Counted(k)' = Counted(k) \cup {r} /\ r \notin Counted(k)
      BY <2>1, <2>2, <2>4, <1>1 DEF Counted, Types
    <3>2. Cardinality(Counted(k)') = Cardinality(Counted(k)) + 1
      BY <3>1, <2>1, <1>1, Finite, FS_AddElement
    <3>3. wait'[k] = wait[k] + 1 /\ \A j \in Keys \ {k} : wait'[j] = wait[j]
      BY <2>4, <1>1 DEF Types
    <3> QED
      BY <2>1, <2>3, <2>4, <3>2, <3>3 DEF IInv, WaitIsExact
  <2>5. CASE UNCHANGED <<wait, counted, drifted>>
    BY <2>5, <1>1, CountKept DEF IInv
  <2>6. CASE drifted' = drifted \cup {k} /\ wait' = wait
    BY <2>3, <2>6 DEF IInv, WaitIsExact
  <2> QED
    BY <2>4, <2>5, <2>6
<1> QED
  BY <1>2, <1>3, <1>4, <1>5, <1>6, TypeParts DEF IInv

\* A member is added only while there is room, together with the duty to
\* release it; a member that nobody knows of also takes room.
LEMMA AcquireKeeps ==
  ASSUME IInv, NEW r \in Requests, NEW then \in Labels, NEW full \in Labels, NEW failed \in Labels,
         Acquire(r, then, full, failed), UNCHANGED <<wait, key, counted, gone, excused, drifted>>,
         {"idle", "try"} \cap {then, full, failed} = {},
         {"uncount", "run"} \cap {full, failed} = {}, then = "run" => pc[r] = "try",
         pc[r] \in {"try", "wait"},
         counted[r] => {then, full, failed} \subseteq {"wait", "uncount", "leave"}
  PROVE  IInv'
<1> DEFINE k == key[r]
<1>1. Types /\ Fits /\ Queued
  BY TypeParts DEF IInv
<1>2. k \in Keys
  BY <1>1 DEF Types
<1>3. Cardinality(slots[k]) \in Nat
  BY <1>1, <1>2, Finite
<1>4. pc' \in [Requests -> Labels] /\ faults' \in 0..MaxFaults
  BY <1>1 DEF Types, Labels, Acquire
<1>5. \A q \in Requests \ {r} : pc'[q] = pc[q]
  BY <1>1 DEF Types, Acquire
<1>6. /\ pc'[r] # "idle" /\ pc'[r] # "try"
      /\ counted[r] => pc'[r] \in {"wait", "uncount", "leave"}
  <2>1. pc'[r] \in {then, full, failed}
    BY <1>1 DEF Types, Acquire
  <2> QED
    BY <2>1
<1>7. WaitIsExact' /\ Queued'
  BY <1>1, CountKept DEF IInv, Queued
<1>8. CASE /\ Room(k) /\ slots' = [slots EXCEPT ![k] = @ \cup {r}]
           /\ holds' = [holds EXCEPT ![r] = @ \cup {k}] /\ Goto(r, then)
           /\ UNCHANGED <<leaked, faults>>
  <2>1. Types'
    BY <1>1, <1>2, <1>4, <1>8 DEF Types
  <2>2. Cardinality(slots[k] \cup {r}) <= Cardinality(slots[k]) + 1
        /\ Cardinality(slots[k] \cup {r}) \in Nat
    <3>1. IsFiniteSet(slots[k])
      BY <1>1, <1>2, Finite
    <3>2. Cardinality(slots[k] \cup {r})
            = IF r \in slots[k] THEN Cardinality(slots[k]) ELSE Cardinality(slots[k]) + 1
      BY <3>1, FS_AddElement
    <3> QED
      BY <1>3, <3>2
  <2>3. Fits'
    BY <1>1, <1>2, <1>3, <1>8, <2>2 DEF Fits, Room, Types
  <2>4. SlotInv'
    BY <1>1, <1>2, <1>8 DEF IInv, SlotInv, Types
  <2>5. QueueInv'
    BY <1>1, <1>5, <1>6, <1>8 DEF IInv, QueueInv, Types
  <2>6. HoldInv'
    <3>1. holds'[r] = holds[r] \cup {k} /\ \A q \in Requests \ {r} : holds'[q] = holds[q]
      BY <1>1, <1>8 DEF Types
    <3>2. pc'[r] = then
      BY <1>1, <1>8 DEF Types
    <3> QED
      BY <1>5, <1>6, <3>1, <3>2 DEF IInv, HoldInv
  <2> QED
    BY <1>7, <2>1, <2>3, <2>4, <2>5, <2>6, TypeParts DEF IInv
<1>9. CASE /\ UNCHANGED <<slots, holds>> /\ (Goto(r, full) \/ Goto(r, failed))
           /\ UNCHANGED leaked \/ (Room(k) /\ leaked' = [leaked EXCEPT ![k] = @ + 1])
  <2>1. Types'
    BY <1>1, <1>2, <1>4, <1>9 DEF Types
  <2>2. Fits'
    BY <1>1, <1>2, <1>3, <1>9 DEF Fits, Room, Types
  <2>3. SlotInv'
    BY <1>9 DEF IInv, SlotInv
  <2>4. QueueInv'
    BY <1>5, <1>6, <1>9 DEF IInv, QueueInv
  <2>5. HoldInv'
    <3>1. pc'[r] \in {full, failed}
      BY <1>1, <1>9 DEF Types
    <3> QED
      BY <1>5, <1>6, <1>9, <3>1 DEF IInv, HoldInv
  <2> QED
    BY <1>7, <2>1, <2>2, <2>3, <2>4, <2>5, TypeParts DEF IInv
<1> QED
  BY <1>8, <1>9 DEF Acquire

\* One attempt of a waiting request.
LEMMA WaitForSlotKeeps ==
  ASSUME IInv, NEW r \in Requests, WaitForSlot(r)
  PROVE  IInv'
BY AcquireKeeps DEF WaitForSlot, Labels

\* A request that tries the account's slot is not counted.
LEMMA TryAccountKeeps ==
  ASSUME IInv, NEW r \in Requests, TryAccount(r)
  PROVE  IInv'
<1>1. ~counted[r]
  BY DEF TryAccount, IInv, QueueInv
<1>2. CASE Acquire(r, "run", "count", "count")
  BY <1>1, <1>2, AcquireKeeps DEF TryAccount, Labels
<1>3. CASE Goto(r, "release") /\ UNCHANGED <<slots, leaked, holds, faults>>
  <2>1. Types /\ Fits /\ Queued
    BY TypeParts DEF IInv
  <2>2. Types'
    BY <2>1, <1>3 DEF TryAccount, Types, Labels
  <2>3. Fits' /\ Queued' /\ SlotInv'
    BY <2>1, <1>3 DEF TryAccount, IInv, Fits, Queued, SlotInv
  <2>4. QueueInv' /\ HoldInv'
    BY <1>1, <2>1, <1>3 DEF TryAccount, IInv, QueueInv, HoldInv, Types
  <2>5. WaitIsExact'
    BY <2>1, <1>3, CountKept DEF TryAccount, IInv
  <2> QED
    BY <2>2, <2>3, <2>4, <2>5, TypeParts DEF IInv
<1> QED
  BY <1>2, <1>3 DEF TryAccount

-----------------------------------------------------------------------------

\* A decrement takes exactly the request out of the count; only afterwards
\* may it turn to another key.
LEMMA Decrement ==
  ASSUME IInv, NEW r \in Requests, DecrementWaitCount(r),
         \A q \in Requests \ {r} : key'[q] = key[q]
  PROVE  /\ counted' \in [Requests -> BOOLEAN] /\ ~counted'[r]
         /\ \A q \in Requests \ {r} : counted'[q] <=> counted[q]
         /\ wait' \in [Keys -> Nat] /\ faults' \in 0..MaxFaults /\ drifted' \in SUBSET Keys
         /\ Queued' /\ WaitIsExact'
<1>1. Types /\ Fits /\ Queued
  BY TypeParts DEF IInv
<1>2. PICK k \in Keys : k = key[r]
  BY <1>1 DEF Types
<1>3. CASE ~counted[r] /\ UNCHANGED <<wait, counted, faults, drifted>>
  <2>1. WaitIsExact'
    BY <1>1, <1>3, CountKept DEF IInv
  <2> QED
    BY <1>1, <1>3, <2>1 DEF Types, Queued
<1>4. CASE counted[r] /\ counted' = [counted EXCEPT ![r] = FALSE]
  <2>1. /\ counted' \in [Requests -> BOOLEAN] /\ ~counted'[r]
        /\ \A q \in Requests \ {r} : counted'[q] <=> counted[q]
    BY Zenon, <1>1, <1>4 DEF Types
  <2>2. Counted(k)' = Counted(k) \ {r} /\ \A j \in Keys \ {k} : Counted(j)' = Counted(j)
    BY <1>2, <2>1 DEF Counted
  <2>3. r \in Counted(k)
    BY <1>2, <1>4 DEF Counted
  <2>4. Cardinality(Counted(k)') = Cardinality(Counted(k)) - 1 /\ Cardinality(Counted(k)) # 0
    <3>1. IsFiniteSet(Counted(k))
      BY <1>1, Finite
    <3>2. Cardinality(Counted(k) \ {r}) = Cardinality(Counted(k)) - 1
      BY <2>3, <3>1, FS_RemoveElement
    <3>3. Cardinality(Counted(k)) # 0
      BY <2>3, <3>1, FS_EmptySet
    <3> QED
      BY <2>2, <3>2, <3>3
  <2>5. CASE wait' = [wait EXCEPT ![k] = IF @ > 0 THEN @ - 1 ELSE 0] /\ UNCHANGED <<faults, drifted>>
    <3>1. wait' \in [Keys -> Nat] /\ Queued'
      BY <1>1, <1>2, <2>5 DEF Types, Queued
    <3>2. wait'[k] = (IF wait[k] > 0 THEN wait[k] - 1 ELSE 0) /\ \A j \in Keys \ {k} : wait'[j] = wait[j]
      BY <1>1, <1>2, <2>5 DEF Types
    <3>3. ASSUME NEW j \in Keys \ drifted' PROVE wait'[j] = Cardinality(Counted(j)')
      <4>1. wait[j] = Cardinality(Counted(j)) /\ Cardinality(Counted(j)) \in Nat
        BY <1>1, <2>5, <3>3, Finite DEF IInv, WaitIsExact
      <4>2. CASE j = k
        BY <4>1, <4>2, <2>4, <3>2
      <4>3. CASE j # k
        BY <4>1, <4>3, <2>2, <3>2
      <4> QED
        BY <4>2, <4>3
    <3>4. WaitIsExact'
      BY <3>3 DEF WaitIsExact
    <3> QED
      BY <1>1, <2>1, <2>5, <3>1, <3>4 DEF Types
  <2>6. CASE Fault /\ drifted' = drifted \cup {k} /\ UNCHANGED wait
    <3>1. WaitIsExact'
      BY <2>2, <2>6 DEF IInv, WaitIsExact
    <3> QED
      BY <1>1, <1>2, <2>1, <2>6, <3>1 DEF Types, Queued
  <2> QED
    BY <1>2, <1>4, <2>5, <2>6 DEF DecrementWaitCount
<1> QED
  BY <1>3, <1>4 DEF DecrementWaitCount

\* With its slot the request leaves the queue before it turns to the account.
LEMMA LeaveQueueKeeps ==
  ASSUME IInv, NEW r \in Requests, LeaveQueue(r)
  PROVE  IInv'
<1>1. Types /\ Fits /\ Queued
  BY TypeParts DEF IInv
<1>2. /\ key' \in [Requests -> Keys] /\ pc' \in [Requests -> Labels]
      /\ \A q \in Requests \ {r} : key'[q] = key[q] /\ pc'[q] = pc[q]
      /\ pc'[r] # "idle"
  BY <1>1 DEF Types, Labels, LeaveQueue, Keys
<1>3. DecrementWaitCount(r) /\ UNCHANGED <<slots, leaked, holds, gone, excused>>
  BY DEF LeaveQueue
<1>4. Types' /\ Fits'
  BY <1>1, <1>2, <1>3, Decrement DEF Types, Fits
<1>5. SlotInv'
  BY <1>3 DEF IInv, SlotInv
<1>6. QueueInv'
  BY <1>2, <1>3, Decrement DEF IInv, QueueInv
<1>7. HoldInv'
  <2>1. User[r] \in Users /\ Account[r] \in Accounts
    OBVIOUS
  <2>2. \/ key[r] = User[r] /\ pc'[r] = "try" /\ key'[r] = Account[r]
        \/ key[r] = Account[r] /\ pc'[r] = "run" /\ key'[r] = Account[r]
    BY <1>1, <2>1 DEF LeaveQueue, IInv, HoldInv, Types
  <2>3. pc[r] = "uncount"
    BY DEF LeaveQueue
  <2> QED
    BY <1>2, <1>3, <2>1, <2>2, <2>3 DEF IInv, HoldInv
<1> QED
  BY <1>2, <1>3, <1>4, <1>5, <1>6, <1>7, Decrement, TypeParts DEF IInv

\* So does a request that gives up.
LEMMA GiveUpKeeps ==
  ASSUME IInv, NEW r \in Requests, GiveUp(r)
  PROVE  IInv'
<1>1. Types /\ Fits /\ Queued
  BY TypeParts DEF IInv
<1>2. /\ pc' \in [Requests -> Labels] /\ pc'[r] # "idle"
      /\ \A q \in Requests \ {r} : pc'[q] = pc[q]
  BY <1>1 DEF Types, Labels, GiveUp
<1>3. DecrementWaitCount(r) /\ UNCHANGED <<slots, leaked, key, holds, gone, excused>>
  BY DEF GiveUp
<1>4. Types' /\ Fits'
  BY <1>1, <1>2, <1>3, Decrement DEF Types, Fits
<1>5. SlotInv'
  BY <1>3 DEF IInv, SlotInv
<1>6. QueueInv'
  BY <1>2, <1>3, Decrement DEF IInv, QueueInv
<1>7. HoldInv'
  <2>1. pc'[r] = "release"
    BY <1>1 DEF GiveUp, Types
  <2> QED
    BY <1>2, <1>3, <2>1 DEF IInv, HoldInv
<1> QED
  BY <1>3, <1>4, <1>5, <1>6, <1>7, Decrement, TypeParts DEF IInv

-----------------------------------------------------------------------------

\* The steps that only move the request: a time-out leads to the decrement,
\* a finished call to the releases.
LEMMA MoveKeeps ==
  ASSUME IInv, NEW r \in Requests, WaitTimesOut(r) \/ Finish(r)
  PROVE  IInv'
<1> USE DEF WaitTimesOut, Finish
<1>1. Types /\ Fits /\ Queued
  BY TypeParts DEF IInv
<1>2. Types'
  BY <1>1 DEF Types, Labels
<1>3. Fits' /\ Queued' /\ SlotInv'
  BY <1>1 DEF IInv, Fits, Queued, SlotInv
<1>4. QueueInv' /\ HoldInv'
  BY <1>1 DEF IInv, QueueInv, HoldInv, Types
<1>5. WaitIsExact'
  BY <1>1, CountKept DEF IInv
<1> QED
  BY <1>2, <1>3, <1>4, <1>5, TypeParts DEF IInv

\* Who holds nothing is done, and its excuses can be forgotten.
LEMMA AnswerKeeps ==
  ASSUME IInv, NEW r \in Requests, Answer(r)
  PROVE  IInv'
<1> USE DEF Answer
<1>1. Types /\ Fits /\ Queued
  BY TypeParts DEF IInv
<1>2. Types'
  BY <1>1 DEF Types, Labels, Keys
<1>3. Fits' /\ Queued'
  BY <1>1 DEF Fits, Queued
<1>4. SlotInv'
  BY <1>1 DEF IInv, SlotInv, Types
<1>5. QueueInv'
  BY <1>1 DEF IInv, QueueInv, Types
<1>6. HoldInv'
  BY <1>1 DEF IInv, HoldInv, Types
<1>7. WaitIsExact'
  BY <1>1, CountKept DEF IInv, QueueInv, Types
<1> QED
  BY <1>2, <1>3, <1>4, <1>5, <1>6, <1>7, TypeParts DEF IInv

\* ZREM takes the request's own member; if it fails, the member stays as a
\* leaked one in the same place.
LEMMA ReleaseSlotKeeps ==
  ASSUME IInv, NEW r \in Requests, NEW k \in Keys, ReleaseSlot(r, k)
  PROVE  IInv'
<1>1. Types /\ Fits /\ Queued
  BY TypeParts DEF IInv
<1>2. /\ slots' = [slots EXCEPT ![k] = slots[k] \ {r}]
      /\ holds' = [holds EXCEPT ![r] = holds[r] \ {k}]
      /\ UNCHANGED <<wait, pc, key, counted, gone, excused, drifted>>
  BY DEF ReleaseSlot, Removed
<1>3. faults' \in 0..MaxFaults /\ leaked' \in [Keys -> Nat]
  BY <1>1 DEF Types, ReleaseSlot
<1>4. Types'
  BY <1>1, <1>2, <1>3 DEF Types
<1>5. Fits'
  <2>1. IsFiniteSet(slots[k]) /\ Cardinality(slots[k]) \in Nat
    BY <1>1, Finite
  <2>2. Cardinality(slots[k] \ {r})
          = IF r \in slots[k] THEN Cardinality(slots[k]) - 1 ELSE Cardinality(slots[k])
    BY <2>1, FS_RemoveElement
  <2>3. leaked'[k] = leaked[k] \/ (r \in slots[k] /\ leaked'[k] = leaked[k] + 1)
    BY <1>1 DEF ReleaseSlot, Types
  <2>4. Cardinality(slots[k] \ {r}) + leaked'[k] <= Limit[k]
    BY <1>1, <2>1, <2>2, <2>3 DEF Fits, Types
  <2>5. \A j \in Keys \ {k} : slots'[j] = slots[j] /\ leaked'[j] = leaked[j]
    BY <1>1 DEF ReleaseSlot, Types
  <2>6. slots'[k] = slots[k] \ {r}
    BY <1>1, <1>2 DEF Types
  <2> QED
    BY <1>1, <2>4, <2>5, <2>6 DEF Fits
<1>6. SlotInv'
  BY <1>1, <1>2 DEF IInv, SlotInv, Types
<1>7. QueueInv' /\ HoldInv'
  <2>1. r \in gone \/ pc[r] = "release"
    BY DEF ReleaseSlot, MayRelease
  <2> QED
    BY <1>1, <1>2, <2>1 DEF IInv, QueueInv, HoldInv, Types
<1>8. WaitIsExact' /\ Queued'
  BY <1>1, <1>2, CountKept DEF IInv, Queued
<1> QED
  BY <1>4, <1>5, <1>6, <1>7, <1>8, TypeParts DEF IInv

\* A leaked member that expires makes room.
LEMMA LeakExpiresKeeps ==
  ASSUME IInv, NEW k \in Keys, LeakExpires(k)
  PROVE  IInv'
<1> USE DEF LeakExpires
<1>1. Types /\ Fits /\ Queued
  BY TypeParts DEF IInv
<1>2. Types'
  BY <1>1 DEF Types
<1>3. Fits'
  BY <1>1, Finite DEF Fits, Types
<1>4. SlotInv' /\ QueueInv' /\ HoldInv' /\ Queued'
  BY <1>1 DEF IInv, SlotInv, QueueInv, HoldInv, Queued
<1>5. WaitIsExact'
  BY <1>1, CountKept DEF IInv
<1> QED
  BY <1>2, <1>3, <1>4, <1>5, TypeParts DEF IInv

\* A member that expires under its request excuses it.
LEMMA SlotExpiresKeeps ==
  ASSUME IInv, NEW r \in Requests, NEW k \in Keys, SlotExpires(r, k)
  PROVE  IInv'
<1> USE DEF SlotExpires
<1>1. Types /\ Fits /\ Queued
  BY TypeParts DEF IInv
<1>2. Types'
  BY <1>1 DEF Types
<1>3. Fits'
  <2>1. IsFiniteSet(slots[k]) /\ Cardinality(slots[k]) \in Nat
    BY <1>1, Finite
  <2>2. Cardinality(slots[k] \ {r}) = Cardinality(slots[k]) - 1
    BY <2>1, FS_RemoveElement
  <2>3. slots'[k] = slots[k] \ {r} /\ \A j \in Keys \ {k} : slots'[j] = slots[j]
    BY <1>1 DEF Types
  <2> QED
    BY <1>1, <2>1, <2>2, <2>3 DEF Fits, Types
<1>4. SlotInv'
  BY <1>1 DEF IInv, SlotInv, Types
<1>5. QueueInv' /\ HoldInv' /\ Queued'
  BY <1>1 DEF IInv, QueueInv, HoldInv, Queued
<1>6. WaitIsExact'
  BY <1>1, CountKept DEF IInv
<1> QED
  BY <1>2, <1>3, <1>4, <1>5, <1>6, TypeParts DEF IInv

\* A counter that expires when nobody is counted is right again, and drifts
\* when somebody is.
LEMMA WaitExpiresKeeps ==
  ASSUME IInv, NEW k \in Keys, WaitExpires(k)
  PROVE  IInv'
<1> USE DEF WaitExpires
<1>1. Types /\ Fits /\ Queued
  BY TypeParts DEF IInv
<1>2. Types' /\ Queued'
  BY <1>1 DEF Types, Queued
<1>3. Fits' /\ SlotInv' /\ QueueInv' /\ HoldInv'
  BY <1>1 DEF IInv, Fits, SlotInv, QueueInv, HoldInv
<1>4. WaitIsExact'
  <2>1. \A j \in Keys : Counted(j)' = Counted(j)
    BY DEF Counted
  <2>2. wait'[k] = 0 /\ \A j \in Keys \ {k} : wait'[j] = wait[j]
    BY <1>1 DEF Types
  <2> QED
    BY <2>1, <2>2, FS_EmptySet DEF IInv, WaitIsExact
<1> QED
  BY <1>2, <1>3, <1>4, TypeParts DEF IInv

\* What a dead process held stays in the sorted sets, leaked; the keys it was
\* counted for drift.
LEMMA CrashKeeps ==
  ASSUME IInv, NEW p \in Processes, Crash(p)
  PROVE  IInv'
<1> DEFINE dead == {r \in Requests : Process[r] = p}
<1>1. Types /\ Fits /\ Queued
  BY TypeParts DEF IInv
<1>2. /\ slots' = [k \in Keys |-> slots[k] \ dead]
      /\ leaked' = [k \in Keys |-> leaked[k] + Cardinality(slots[k] \cap dead)]
      /\ drifted' = drifted \cup {k \in Keys : Counted(k) \cap dead # {}}
      /\ pc' = [r \in Requests |-> IF r \in dead THEN "idle" ELSE pc[r]]
      /\ counted' = [r \in Requests |-> r \notin dead /\ counted[r]]
      /\ holds' = [r \in Requests |-> IF r \in dead THEN {} ELSE holds[r]]
      /\ key' = [r \in Requests |-> IF r \in dead THEN User[r] ELSE key[r]]
      /\ gone' = gone \ dead /\ excused' = {e \in excused : e[1] \notin dead}
      /\ faults' \in 0..MaxFaults /\ UNCHANGED wait
  BY <1>1 DEF Crash, Types
<1> HIDE DEF dead
<1>3. ASSUME NEW k \in Keys
      PROVE  /\ Cardinality(slots[k] \cap dead) \in Nat
             /\ Cardinality(slots[k] \ dead) = Cardinality(slots[k]) - Cardinality(slots[k] \cap dead)
  <2>1. IsFiniteSet(slots[k])
    BY <1>1, Finite
  <2>2. IsFiniteSet(slots[k] \cap dead)
    BY <2>1, FS_Intersection
  <2> QED
    BY <2>1, <2>2, FS_CardinalityType, FS_Difference
<1>4. Types'
  <2>1. counted' \in [Requests -> BOOLEAN]
    BY Zenon, <1>2
  <2>2. leaked' \in [Keys -> Nat]
    <3>1. ASSUME NEW k \in Keys PROVE leaked[k] + Cardinality(slots[k] \cap dead) \in Nat
      <4>1. leaked[k] \in Nat /\ Cardinality(slots[k] \cap dead) \in Nat
        BY <1>1, <1>3 DEF Types
      <4> QED
        BY <4>1
    <3> QED
      BY Zenon, <1>2, <3>1
  <2>3. slots' \in [Keys -> SUBSET Requests] /\ holds' \in [Requests -> SUBSET Keys]
    BY <1>1, <1>2 DEF Types
  <2>4. pc' \in [Requests -> Labels] /\ drifted' \in SUBSET Keys
        /\ key' \in [Requests -> Keys]
    BY <1>1, <1>2 DEF Types, Labels, Keys
  <2> QED
    BY <1>1, <1>2, <2>1, <2>2, <2>3, <2>4 DEF Types
<1>5. Fits'
  <2> SUFFICES ASSUME NEW k \in Keys PROVE Cardinality(slots'[k]) + leaked'[k] <= Limit[k]
    BY DEF Fits
  <2>1. slots'[k] = slots[k] \ dead /\ leaked'[k] = leaked[k] + Cardinality(slots[k] \cap dead)
    BY <1>2
  <2>2. Cardinality(slots[k]) \in Nat /\ leaked[k] \in Nat /\ Cardinality(slots[k]) + leaked[k] <= Limit[k]
    BY <1>1, Finite DEF Fits, Types
  <2>3. Cardinality(slots[k] \ dead) + Cardinality(slots[k] \cap dead) = Cardinality(slots[k])
    BY <1>3, <2>2
  <2> QED
    BY <1>3, <2>1, <2>2, <2>3
<1>6. SlotInv' /\ Queued'
  BY <1>1, <1>2 DEF IInv, SlotInv, Queued, Types
<1>7. QueueInv' /\ HoldInv'
  BY <1>2 DEF IInv, QueueInv, HoldInv
<1>8. WaitIsExact'
  <2>1. \A k \in Keys : Counted(k) \cap dead = {} => Counted(k)' = Counted(k)
    BY <1>2 DEF Counted
  <2> QED
    BY <1>2, <2>1 DEF IInv, WaitIsExact
<1> QED
  BY <1>4, <1>5, <1>6, <1>7, <1>8, TypeParts DEF IInv

\* The cleanup of a starting process excuses everybody whose member it removes,
\* and the counter it deletes drifts unless nobody is counted.
LEMMA CleanupStaleProcessSlotsKeeps ==
  ASSUME IInv, NEW p \in Processes, NEW k \in Keys, CleanupStaleProcessSlots(p, k)
  PROVE  IInv'
<1> USE DEF CleanupStaleProcessSlots
<1>1. Types /\ Fits /\ Queued
  BY TypeParts DEF IInv
<1>2. Types' /\ Queued'
  BY <1>1 DEF Types, Queued
<1>3. Fits'
  <2>1. slots'[k] = {} /\ leaked'[k] = 0 /\ \A j \in Keys \ {k} : slots'[j] = slots[j] /\ leaked'[j] = leaked[j]
    BY <1>1 DEF Types
  <2>2. Cardinality(slots'[k]) + leaked'[k] <= Limit[k]
    <3>1. Cardinality(slots'[k]) = 0 /\ Limit[k] \in Nat
      BY <2>1, FS_EmptySet
    <3> QED
      BY <2>1, <3>1
  <2> QED
    BY <1>1, <2>1, <2>2 DEF Fits
<1>4. SlotInv'
  BY <1>1 DEF IInv, SlotInv, Types
<1>5. QueueInv' /\ HoldInv'
  BY DEF IInv, QueueInv, HoldInv
<1>6. WaitIsExact'
  <2>1. \A j \in Keys : Counted(j)' = Counted(j)
    BY DEF Counted
  <2>2. wait'[k] = 0 /\ \A j \in Keys \ {k} : wait'[j] = wait[j]
    BY <1>1 DEF Types
  <2> QED
    BY <2>1, <2>2, FS_EmptySet DEF IInv, WaitIsExact
<1> QED
  BY <1>2, <1>3, <1>4, <1>5, <1>6, TypeParts DEF IInv

-----------------------------------------------------------------------------

\* Every step keeps the invariant.
LEMMA NextKeeps == IInv /\ [Next]_vars => IInv'
<1> SUFFICES ASSUME IInv, [Next]_vars PROVE IInv'
  OBVIOUS
<1>1. CASE UNCHANGED vars
  <2>1. TypeOK' /\ SlotInv' /\ QueueInv' /\ HoldInv'
    BY <1>1 DEF IInv, vars, TypeOK, SlotInv, QueueInv, HoldInv
  <2>2. WaitIsExact'
    BY <1>1, CountKept, TypeParts DEF IInv, vars
  <2> QED
    BY <2>1, <2>2 DEF IInv
<1>2. ASSUME NEW r \in Requests, Arrive(r) \/ ClientLeaves(r) \/ WaitTimesOut(r) PROVE IInv'
  BY <1>2, ArriveKeeps, ClientLeavesKeeps, MoveKeeps
<1>3. ASSUME NEW r \in Requests, RequestStep(r) PROVE IInv'
  BY Zenon, <1>3, IncrementWaitCountKeeps, WaitForSlotKeeps, LeaveQueueKeeps, TryAccountKeeps,
     GiveUpKeeps, MoveKeeps, AnswerKeeps, ReleaseSlotKeeps DEF RequestStep
<1>4. ASSUME NEW k \in Keys, LeakExpires(k) \/ WaitExpires(k) PROVE IInv'
  BY <1>4, LeakExpiresKeeps, WaitExpiresKeeps
<1>5. ASSUME NEW r \in Requests, NEW k \in Keys, SlotExpires(r, k) PROVE IInv'
  BY <1>5, SlotExpiresKeeps
<1>6. ASSUME NEW p \in Processes, Crash(p) \/ \E k \in Keys : CleanupStaleProcessSlots(p, k) PROVE IInv'
  BY <1>6, CrashKeeps, CleanupStaleProcessSlotsKeeps
<1> QED
  BY Zenon, <1>1, <1>2, <1>3, <1>4, <1>5, <1>6 DEF Next

\* The invariant holds in every reachable state.
THEOREM Invariance == Spec => []IInv
BY InitHolds, NextKeeps, PTL DEF Spec

\* Type correctness; in particular no sorted set outgrows its key's limit and
\* no wait counter its bound.
THEOREM TypeCorrect == Spec => []TypeOK
<1>1. IInv => TypeOK
  BY DEF IInv
<1> QED
  BY <1>1, Invariance, PTL

\* The limit of a user or account holds for the requests that have its slot and
\* those whose call runs for a client, whatever leaks, fails or restarts: their
\* members are all in a set that fits.  A call drained after its client has left
\* is not among them (wrapReleaseOnDone has freed its slots).
THEOREM LimitIsKept == Spec => []LimitHolds
<1>1. IInv => LimitHolds
  <2> DEFINE Occupies(r, k) ==
               /\ <<r, k>> \notin excused
               /\ \/ k \in holds[r]
                  \/ pc[r] = "run" /\ r \notin gone /\ k \in KeysOf(r)
  <2> SUFFICES ASSUME IInv, NEW k \in Keys
               PROVE  Cardinality({r \in Requests : Occupies(r, k)}) <= Limit[k]
    BY Zenon DEF LimitHolds
  <2> DEFINE rightful == {r \in Requests : Occupies(r, k)}
  <2>1. Types /\ Fits
    BY TypeParts DEF IInv
  <2>2. rightful \in SUBSET slots[k]
    BY DEF IInv, SlotInv, HoldInv
  <2>3. IsFiniteSet(slots[k]) /\ Cardinality(slots[k]) \in Nat
    BY <2>1, Finite
  <2> HIDE DEF rightful
  <2>4. Cardinality(rightful) <= Cardinality(slots[k]) /\ Cardinality(rightful) \in Nat
    BY <2>2, <2>3, FS_Subset, FS_CardinalityType
  <2>5. Cardinality(rightful) <= Limit[k]
    BY <2>1, <2>3, <2>4 DEF Fits, Types
  <2> QED
    BY <2>5 DEF rightful
<1> QED
  BY <1>1, Invariance, PTL

\* A counter is exact, each way out of the queue decrementing once, unless a
\* call failed, a client left uncounted or its TTL ended under a waiting request.
THEOREM CountersAreExact == Spec => []WaitIsExact
<1>1. IInv => WaitIsExact
  BY DEF IInv
<1> QED
  BY <1>1, Invariance, PTL

=============================================================================
