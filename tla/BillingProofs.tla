---------------------------- MODULE BillingProofs ----------------------------
(***************************************************************************)
(* UsageBilling for any number of requests, keys and retention jobs, and   *)
(* BalanceCache for any number of charges and workers and any queue.       *)
(*                                                                         *)
(* The inductive invariant of UsageBilling adds three parts:               *)
(*   RowInv      a running transaction has the row of its key (TypeOK says *)
(*               the converse: no row without a transaction or a charge);  *)
(*   KeyInv      the key of a charged request is live or archived, so that *)
(*               a transaction past the archive check has the key alone;   *)
(*   JobInv      a job deletes only charged requests' rows, archived first;*)
(* ChargedOnce and AnswerIsTrue are inductive together with these.         *)
(*                                                                         *)
(* The one of BalanceCache adds FlightInv: unless the entry has drifted,   *)
(* no deduction is pending while a loaded balance is on its way to the     *)
(* entry, and that balance is the one in the database.                     *)
(***************************************************************************)
EXTENDS UsageBilling, BalanceCache, FunctionTheorems, FiniteSetTheorems, SequenceTheorems, TLAPS

(* Balances on their way to the entry are those of the database. *)
Fresh ==
  /\ load # Absent => load = balance
  /\ \A i \in DOMAIN queue : queue[i].kind = "set" => queue[i].value = balance
  /\ \A w \in Workers : running[w].kind = "set" => running[w].value = balance

(* A load reads while nothing is pending, or the entry counts as drifted. *)
FlightInv == ~drift /\ SetInFlight => Pending = 0 /\ Fresh

CacheInv == CacheTypeOK /\ CacheTracksBalance /\ FlightInv

(* Where a deduction can be pending. *)
Syncing == {c \in Charges : stage[c] = "sync" /\ "balance" \in result[c].taken}
Deducts(q) == {i \in DOMAIN q : q[i].kind = "deduct"}
Executing == {w \in Workers : running[w].kind = "deduct"}

USE QueueAssumption

-----------------------------------------------------------------------------

\* A member more, a member less.
LEMMA OneMore ==
  ASSUME NEW S, IsFiniteSet(S), NEW x
  PROVE  /\ Cardinality(S) \in Nat
         /\ x \notin S => Cardinality(S \cup {x}) = Cardinality(S) + 1
         /\ x \in S => Cardinality(S \ {x}) = Cardinality(S) - 1 /\ Cardinality(S) >= 1
<1>1. Cardinality(S) \in Nat /\ Cardinality(S \ {x}) \in Nat
  BY FS_CardinalityType, FS_RemoveElement
<1>2. Cardinality(S \cup {x}) = IF x \in S THEN Cardinality(S) ELSE Cardinality(S) + 1
  BY FS_AddElement
<1>3. Cardinality(S \ {x}) = IF x \in S THEN Cardinality(S) - 1 ELSE Cardinality(S)
  BY FS_RemoveElement
<1> QED
  BY <1>1, <1>2, <1>3

\* The deductions in a queue are finitely many.
LEMMA QueueFinite ==
  ASSUME NEW q \in Seq(Task)
  PROVE  IsFiniteSet(Deducts(q)) /\ Cardinality(Deducts(q)) \in Nat
<1>1. DOMAIN q = 1..Len(q) /\ Len(q) \in Nat
  BY LenProperties
<1>2. IsFiniteSet(1..Len(q))
  BY <1>1, FS_Interval
<1>3. Deducts(q) \in SUBSET (1..Len(q))
  BY <1>1 DEF Deducts
<1> QED
  BY <1>2, <1>3, FS_Subset, FS_CardinalityType

\* A task at the end: one deduction more if it is one.
LEMMA QueueGrows ==
  ASSUME NEW q \in Seq(Task), NEW t \in Task
  PROVE  /\ Append(q, t) \in Seq(Task) /\ Len(Append(q, t)) = Len(q) + 1
         /\ \A i \in DOMAIN Append(q, t) : Append(q, t)[i] = t \/ \E j \in DOMAIN q : Append(q, t)[i] = q[j]
         /\ \A j \in DOMAIN q : \E i \in DOMAIN Append(q, t) : Append(q, t)[i] = q[j]
         /\ Cardinality(Deducts(Append(q, t))) =
              Cardinality(Deducts(q)) + (IF t.kind = "deduct" THEN 1 ELSE 0)
<1> DEFINE u == Append(q, t)
           n == Len(q) + 1
<1>1. /\ Len(q) \in Nat /\ DOMAIN q = 1..Len(q) /\ u \in Seq(Task) /\ Len(u) = n
      /\ \A i \in 1..Len(q) : u[i] = q[i]
      /\ u[n] = t
  BY LenProperties, AppendProperties
<1> HIDE DEF u
<1>2. DOMAIN u = 1..n
  BY <1>1, LenProperties
<1>3. /\ \A i \in DOMAIN u : i = n \/ i \in DOMAIN q
      /\ \A i \in DOMAIN q : i \in DOMAIN u /\ i # n /\ u[i] = q[i]
      /\ n \in DOMAIN u
  BY <1>1, <1>2
<1> HIDE DEF n
<1>4. Deducts(u) = IF t.kind = "deduct" THEN Deducts(q) \cup {n} ELSE Deducts(q)
  BY <1>1, <1>3 DEF Deducts
<1>5. n \notin Deducts(q)
  BY <1>3 DEF Deducts
<1>6. IsFiniteSet(Deducts(q)) /\ Cardinality(Deducts(q)) \in Nat
  BY QueueFinite
<1>7. Cardinality(Deducts(q) \cup {n}) = Cardinality(Deducts(q)) + 1
  BY <1>5, <1>6, OneMore
<1>8. Cardinality(Deducts(u)) = Cardinality(Deducts(q)) + (IF t.kind = "deduct" THEN 1 ELSE 0)
  BY <1>4, <1>6, <1>7
<1>9. /\ \A i \in DOMAIN u : u[i] = t \/ \E j \in DOMAIN q : u[i] = q[j]
      /\ \A j \in DOMAIN q : \E i \in DOMAIN u : u[i] = q[j]
  BY <1>1, <1>3
<1> QED
  BY <1>1, <1>8, <1>9 DEF u, n

\* The first task is taken: one deduction less if it is one.
LEMMA QueueShrinks ==
  ASSUME NEW q \in Seq(Task), q # <<>>
  PROVE  /\ Head(q) \in Task /\ Tail(q) \in Seq(Task) /\ Len(Tail(q)) = Len(q) - 1
         /\ \E i \in DOMAIN q : Head(q) = q[i]
         /\ \A i \in DOMAIN Tail(q) : \E j \in DOMAIN q : Tail(q)[i] = q[j]
         /\ \A j \in DOMAIN q : q[j] = Head(q) \/ \E i \in DOMAIN Tail(q) : Tail(q)[i] = q[j]
         /\ Cardinality(Deducts(q)) =
              Cardinality(Deducts(Tail(q))) + (IF Head(q).kind = "deduct" THEN 1 ELSE 0)
<1> DEFINE u == Tail(q)
           h == Head(q)
<1>1. /\ Len(q) \in Nat /\ DOMAIN q = 1..Len(q) /\ Len(q) >= 1
  BY LenProperties, EmptySeq
<1>2. /\ h = q[1] /\ h \in Task /\ u \in Seq(Task) /\ Len(u) = Len(q) - 1
      /\ \A i \in 1..Len(u) : u[i] = q[i + 1]
  BY <1>1, HeadTailProperties, ElementOfSeq
<1> HIDE DEF u, h
<1>3. DOMAIN u = 1..(Len(q) - 1)
  BY <1>2, LenProperties
<1>4. /\ \A i \in DOMAIN u : i + 1 \in DOMAIN q /\ u[i] = q[i + 1] /\ i + 1 # 1
      /\ \A j \in DOMAIN q : j = 1 \/ (j - 1 \in DOMAIN u /\ u[j - 1] = q[j])
      /\ 1 \in DOMAIN q
  BY <1>1, <1>2, <1>3
<1> DEFINE D == Deducts(q) \ {1}
           E == Deducts(u)
           f == [i \in E |-> i + 1]
<1>5. f \in Bijection(E, D)
  <2>1. \A i \in E : i \in Nat /\ i + 1 \in D
    BY <1>3, <1>4 DEF Deducts
  <2>2. f \in [E -> D]
    BY <2>1
  <2>3. \A i, j \in E : f[i] = f[j] => i = j
    BY <2>1
  <2>4. \A d \in D : \E i \in E : f[i] = d
    <3> SUFFICES ASSUME NEW d \in D PROVE \E i \in E : f[i] = d
      OBVIOUS
    <3>1. d - 1 \in E /\ d \in Int
      BY <1>1, <1>4 DEF Deducts
    <3>2. f[d - 1] = d
      BY <3>1
    <3> QED
      BY <3>1, <3>2
  <2> QED
    BY <2>2, <2>3, <2>4, Fun_IsBij
<1>6. Cardinality(D) = Cardinality(E)
  <2>1. IsFiniteSet(E)
    BY <1>2, QueueFinite
  <2>2. ExistsBijection(E, D)
    BY <1>5 DEF ExistsBijection
  <2> QED
    BY <2>1, <2>2, FS_Bijection
<1>7. IsFiniteSet(Deducts(q)) /\ Cardinality(Deducts(q)) \in Nat
  BY QueueFinite
<1>8. 1 \in Deducts(q) <=> h.kind = "deduct"
  BY <1>2, <1>4 DEF Deducts
<1>9. Cardinality(Deducts(q)) = Cardinality(E) + (IF h.kind = "deduct" THEN 1 ELSE 0)
  <2>1. CASE 1 \in Deducts(q)
    <3>1. Cardinality(D) = Cardinality(Deducts(q)) - 1
      BY <1>7, <2>1, OneMore
    <3> QED
      BY <1>6, <1>7, <1>8, <2>1, <3>1
  <2>2. CASE 1 \notin Deducts(q)
    <3>1. D = Deducts(q)
      BY <2>2
    <3>2. Cardinality(E) = Cardinality(Deducts(q))
      BY <1>6, <3>1
    <3> HIDE DEF D, E
    <3> QED
      BY <1>7, <1>8, <2>2, <3>2
  <2> QED
    BY <2>1, <2>2
<1>10. /\ \E i \in DOMAIN q : h = q[i]
       /\ \A i \in DOMAIN u : \E j \in DOMAIN q : u[i] = q[j]
       /\ \A j \in DOMAIN q : q[j] = h \/ \E i \in DOMAIN u : u[i] = q[j]
  BY <1>2, <1>4
<1> QED
  BY <1>2, <1>9, <1>10 DEF u, h

\* Pending is the sum over its three places.
LEMMA Counts ==
  ASSUME CacheTypeOK
  PROVE  /\ IsFiniteSet(Syncing) /\ IsFiniteSet(Executing) /\ IsFiniteSet(Deducts(queue))
         /\ Cardinality(Syncing) \in Nat /\ Cardinality(Executing) \in Nat /\ Cardinality(Deducts(queue)) \in Nat
         /\ Pending = Cardinality(Syncing) + Cardinality(Deducts(queue)) + Cardinality(Executing)
         /\ Pending \in Nat
<1>1. Syncing \in SUBSET Charges /\ Executing \in SUBSET Workers /\ queue \in Seq(Task)
  BY DEF Syncing, Executing, CacheTypeOK
<1>2. IsFiniteSet(Syncing) /\ Cardinality(Syncing) \in Nat
  BY <1>1, FS_Subset, FS_CardinalityType
<1>3. IsFiniteSet(Executing) /\ Cardinality(Executing) \in Nat
  BY <1>1, FS_Subset, FS_CardinalityType
<1>4. IsFiniteSet(Deducts(queue)) /\ Cardinality(Deducts(queue)) \in Nat
  BY <1>1, QueueFinite
<1>5. Pending = Cardinality(Syncing) + Cardinality(Deducts(queue)) + Cardinality(Executing)
  BY DEF Pending, Syncing, Deducts, Executing
<1> QED
  BY <1>2, <1>3, <1>4, <1>5

\* The same after a step.
LEMMA CountsAfter ==
  Pending' = Cardinality(Syncing') + Cardinality(Deducts(queue')) + Cardinality(Executing')
BY DEF Pending, Syncing, Deducts, Executing

\* A charge that leaves "sync", and a worker that is done, count no longer.
LEMMA SyncEnds ==
  ASSUME CacheTypeOK, NEW c \in Charges, stage[c] = "sync", ChargeEnds(c)
  PROVE  Syncing' = Syncing \ {c} /\ (c \in Syncing <=> "balance" \in result[c].taken)
BY DEF CacheTypeOK, ChargeEnds, Syncing, NoResult

\* Nothing in flight, or only what is fresh.
LEMMA FlightFresh ==
  (CacheInv /\ ~drift => Fresh /\ (SetInFlight => Pending = 0))
    /\ ((~drift' => Fresh' /\ (SetInFlight' => Pending' = 0)) => FlightInv')
BY DEF CacheInv, FlightInv, Fresh, SetInFlight

\* Fresh and SetInFlight depend on what is in flight only.
LEMMA FlightSame ==
  ASSUME UNCHANGED <<load, queue, running>>
  PROVE  (SetInFlight' <=> SetInFlight) /\ (balance' = balance => (Fresh' <=> Fresh))
BY DEF SetInFlight, Fresh

-----------------------------------------------------------------------------

\* The invariant holds with an empty queue and no entry.
LEMMA CacheInitHolds == CacheInit => CacheInv
<1> HAVE CacheInit
<1>1. CacheTypeOK
  <2>1. queue \in Seq(Task) /\ Len(queue) <= QueueSize
    BY DEF CacheInit
  <2>2. NoTask \in Task /\ running \in [Workers -> Task]
    BY DEF CacheInit, NoTask, Task
  <2>3. result \in [Charges -> [taken : SUBSET {"points", "balance"}, newBalance : Int]]
    BY DEF CacheInit, NoResult
  <2>4. stage \in [Charges -> {"idle", "sync", "done"}] /\ drift \in BOOLEAN
    BY DEF CacheInit
  <2>5. balance \in Int /\ points \in Nat /\ topUp \in {"idle", "invalidate"} /\ topUps \in 0..MaxTopUps
    BY DEF CacheInit
  <2>6. cached \in Int \cup {Absent} /\ load \in Int \cup {Absent}
    BY DEF CacheInit
  <2> QED
    BY <2>1, <2>2, <2>3, <2>4, <2>5, <2>6 DEF CacheTypeOK
<1>2. CacheTracksBalance
  BY DEF CacheInit, CacheTracksBalance
<1>3. ~SetInFlight
  BY DEF CacheInit, SetInFlight, NoTask
<1> QED
  BY <1>1, <1>2, <1>3 DEF CacheInv, FlightInv

\* A load that reads while nothing is pending reads what the entry should be.
LEMMA LoadBalanceKeeps ==
  ASSUME CacheInv, LoadBalance
  PROVE  CacheInv'
<1>0. CacheTypeOK
  BY DEF CacheInv
<1>1. CacheTypeOK'
  BY <1>0 DEF CacheTypeOK, LoadBalance
<1>2. Pending' = Pending /\ Pending \in Nat
  BY <1>0, Counts, CountsAfter DEF LoadBalance, wallet, chargeVars, Syncing, Executing
<1>3. (~drift' => ~drift /\ Pending = 0) /\ UNCHANGED <<cached, balance>>
  BY <1>0, <1>2 DEF LoadBalance, CacheTypeOK, wallet
<1>4. CacheTracksBalance'
  BY <1>2, <1>3 DEF CacheInv, CacheTracksBalance
<1>5. Fresh => Fresh'
  BY DEF Fresh, LoadBalance, wallet
<1>6. FlightInv'
  BY <1>2, <1>3, <1>5, FlightFresh
<1> QED
  BY <1>1, <1>4, <1>6 DEF CacheInv

\* The loaded balance moves to the queue, or is dropped.
LEMMA EnqueueLoadedKeeps ==
  ASSUME CacheInv, EnqueueLoaded
  PROVE  CacheInv'
<1>0. CacheTypeOK /\ queue \in Seq(Task) /\ SetTask(load) \in Task /\ load \in Int
  BY DEF CacheInv, CacheTypeOK, EnqueueLoaded, SetTask, Task
<1> DEFINE q == Append(queue, SetTask(load))
<1>1. /\ q \in Seq(Task) /\ Len(q) = Len(queue) + 1
      /\ \A i \in DOMAIN q : q[i] = SetTask(load) \/ \E j \in DOMAIN queue : q[i] = queue[j]
      /\ Cardinality(Deducts(q)) = Cardinality(Deducts(queue))
  BY <1>0, QueueGrows, QueueFinite DEF SetTask
<1>2. /\ (queue' = q /\ ~Full) \/ queue' = queue
      /\ load # Absent /\ load' = Absent /\ UNCHANGED <<wallet, chargeVars, topVars, cached, running, drift>>
  BY DEF EnqueueLoaded, Enqueue
<1> HIDE DEF q
<1>3. CacheTypeOK'
  BY <1>0, <1>1, <1>2, LenProperties DEF CacheTypeOK, Full, wallet, chargeVars, topVars
<1>4. Pending' = Pending
  BY <1>0, <1>1, <1>2, Counts, CountsAfter DEF chargeVars, Syncing, Executing
<1>5. CacheTracksBalance'
  BY <1>2, <1>4 DEF CacheInv, CacheTracksBalance, wallet
<1>6. SetInFlight /\ (Fresh => Fresh')
  BY <1>1, <1>2 DEF SetInFlight, Fresh, SetTask, wallet
<1>7. FlightInv'
  BY <1>2, <1>4, <1>6, FlightFresh
<1> QED
  BY <1>3, <1>5, <1>7 DEF CacheInv

\* A task moves from the queue to a worker.
LEMMA TakeTaskKeeps ==
  ASSUME CacheInv, NEW w \in Workers, TakeTask(w)
  PROVE  CacheInv'
<1> DEFINE h == Head(queue)
           t == Tail(queue)
<1>0. CacheTypeOK /\ queue \in Seq(Task) /\ queue # <<>>
  BY DEF CacheInv, CacheTypeOK, TakeTask
<1>1. /\ h \in Task /\ t \in Seq(Task) /\ Len(t) = Len(queue) - 1
      /\ \E i \in DOMAIN queue : h = queue[i]
      /\ \A i \in DOMAIN t : \E j \in DOMAIN queue : t[i] = queue[j]
      /\ Cardinality(Deducts(queue)) = Cardinality(Deducts(t)) + (IF h.kind = "deduct" THEN 1 ELSE 0)
  BY <1>0, QueueShrinks
<1>2. /\ running[w] = NoTask /\ running' = [running EXCEPT ![w] = h] /\ queue' = t
      /\ UNCHANGED <<wallet, chargeVars, topVars, cached, load, drift>>
  BY DEF TakeTask
<1> HIDE DEF h, t
<1>3. CacheTypeOK'
  BY <1>0, <1>1, <1>2, LenProperties DEF CacheTypeOK, wallet, chargeVars, topVars
<1>4. Executing' = IF h.kind = "deduct" THEN Executing \cup {w} ELSE Executing
  BY <1>0, <1>2 DEF CacheTypeOK, Executing, NoTask
<1>5. w \notin Executing /\ Syncing' = Syncing
  BY <1>2 DEF Executing, NoTask, Syncing, chargeVars
<1>6. Pending' = Pending
  <2>1. Cardinality(Deducts(t)) \in Nat
    BY <1>1, QueueFinite
  <2>2. Cardinality(Executing \cup {w}) = Cardinality(Executing) + 1
    BY <1>0, <1>5, Counts, OneMore
  <2> QED
    BY <1>0, <1>1, <1>2, <1>4, <1>5, <2>1, <2>2, Counts, CountsAfter
<1>7. CacheTracksBalance'
  BY <1>2, <1>6 DEF CacheInv, CacheTracksBalance, wallet
<1>8. Fresh => Fresh'
  BY <1>0, <1>1, <1>2 DEF CacheTypeOK, Fresh, wallet
<1>9. SetInFlight' => SetInFlight
  BY <1>0, <1>1, <1>2 DEF CacheTypeOK, SetInFlight
<1>10. FlightInv'
  BY <1>2, <1>6, <1>8, <1>9, FlightFresh
<1> QED
  BY <1>3, <1>7, <1>10 DEF CacheInv

\* A deduction that reaches the entry is pending no longer; a balance that was
\* loaded while nothing changed is right.
LEMMA RunTaskKeeps ==
  ASSUME CacheInv, NEW w \in Workers, RunTask(w)
  PROVE  CacheInv'
<1>0. CacheTypeOK /\ running[w] \in Task /\ balance \in Int
  BY DEF CacheInv, CacheTypeOK
<1>1. /\ running' = [running EXCEPT ![w] = NoTask]
      /\ UNCHANGED <<wallet, chargeVars, topVars, load, queue>>
  BY DEF RunTask
<1>2. Deducted(cached) \in Int \cup {Absent}
  BY <1>0 DEF CacheTypeOK, Deducted
<1>3. CacheTypeOK'
  <2>1. running' \in [Workers -> Task]
    BY <1>0, <1>1 DEF CacheTypeOK, NoTask, Task
  <2>2. cached' \in Int \cup {Absent}
    BY <1>0, <1>2 DEF CacheTypeOK, RunTask, DeductUserBalance, Task
  <2>3. drift' \in BOOLEAN
    BY <1>0 DEF CacheTypeOK, RunTask, DeductUserBalance
  <2> QED
    BY <1>0, <1>1, <2>1, <2>2, <2>3 DEF CacheTypeOK, wallet, chargeVars, topVars
<1>4. Executing' = Executing \ {w} /\ Syncing' = Syncing
  BY <1>0, <1>1 DEF CacheTypeOK, Executing, NoTask, Syncing, chargeVars
<1>5. /\ running[w].kind = "deduct" => Pending' = Pending - 1 /\ Pending >= 1
      /\ running[w].kind # "deduct" => Pending' = Pending
      /\ Pending \in Nat
  <2>1. CASE w \in Executing
    <3>1. Cardinality(Executing') = Cardinality(Executing) - 1 /\ Cardinality(Executing) >= 1
      BY <1>0, <1>4, <2>1, Counts, OneMore
    <3> QED
      BY <1>0, <1>1, <1>4, <2>1, <3>1, Counts, CountsAfter DEF Executing
  <2>2. CASE w \notin Executing
    <3>1. Executing' = Executing
      BY <1>4, <2>2
    <3> QED
      BY <1>0, <1>1, <1>4, <2>2, <3>1, Counts, CountsAfter DEF Executing
  <2> QED
    BY <2>1, <2>2
<1>6. (Fresh => Fresh') /\ (SetInFlight' => SetInFlight)
  BY <1>0, <1>1 DEF CacheTypeOK, Fresh, SetInFlight, NoTask, wallet
<1>7. CASE running[w].kind = "set"
  <2>1. SetInFlight /\ drift' = drift /\ (cached' = running[w].value \/ cached' = cached)
    BY <1>7 DEF SetInFlight, RunTask
  <2>2. ~drift => Pending = 0 /\ running[w].value = balance
    BY <1>7, <2>1, FlightFresh DEF Fresh
  <2>3. CacheTracksBalance'
    BY <1>0, <1>1, <1>5, <1>7, <2>1, <2>2 DEF CacheInv, CacheTracksBalance, wallet
  <2>4. FlightInv'
    BY <1>5, <1>6, <1>7, <2>1, FlightFresh
  <2> QED
    BY <1>3, <2>3, <2>4 DEF CacheInv
<1>8. CASE running[w].kind = "deduct"
  <2>1. ~drift' => ~drift /\ cached' = Deducted(cached)
    BY <1>0, <1>8 DEF RunTask, DeductUserBalance, CacheTypeOK
  <2>2. CacheTracksBalance'
    BY <1>0, <1>1, <1>5, <1>8, <2>1 DEF CacheInv, CacheTypeOK, CacheTracksBalance, Deducted, wallet
  <2>3. FlightInv'
    BY <1>5, <1>6, <1>8, <2>1, FlightFresh
  <2> QED
    BY <1>3, <2>2, <2>3 DEF CacheInv
<1> QED
  BY <1>7, <1>8 DEF RunTask

\* An entry that is gone says nothing wrong.
LEMMA RemovedKeeps ==
  ASSUME CacheInv, Removed, UNCHANGED <<balance, load, queue, running>>, Pending' <= Pending,
         Pending \in Nat, Pending' \in Nat
  PROVE  CacheTracksBalance' /\ FlightInv'
<1>1. cached' = Absent /\ (~drift' => ~drift \/ ~SetInFlight)
  BY DEF Removed, CacheInv, CacheTypeOK
<1>2. CacheTracksBalance'
  BY <1>1 DEF CacheTracksBalance
<1>3. (SetInFlight' <=> SetInFlight) /\ (Fresh' <=> Fresh)
  BY FlightSame
<1>4. FlightInv'
  BY <1>1, <1>3, FlightFresh DEF Fresh, SetInFlight, FlightInv
<1> QED
  BY <1>2, <1>4

\* Whoever invalidates removes the entry or leaves a drift.
LEMMA InvalidateKeeps ==
  ASSUME CacheInv, InvalidateUserBalance, UNCHANGED <<balance, load, queue, running>>, Pending' <= Pending,
         Pending \in Nat, Pending' \in Nat
  PROVE  /\ CacheTracksBalance' /\ FlightInv'
         /\ cached' \in Int \cup {Absent} /\ drift' \in BOOLEAN
<1>1. CASE Removed
  BY <1>1, RemovedKeeps DEF Removed, CacheInv, CacheTypeOK
<1>2. CASE cached # Absent /\ drift' = TRUE /\ UNCHANGED cached
  BY <1>2 DEF CacheInv, CacheTypeOK, CacheTracksBalance, FlightInv
<1> QED
  BY <1>1, <1>2 DEF InvalidateUserBalance

\* The TTL removes the entry.
LEMMA ExpireKeeps ==
  ASSUME CacheInv, Expire
  PROVE  CacheInv'
<1>0. CacheTypeOK /\ Removed /\ UNCHANGED <<wallet, chargeVars, topVars, load, queue, running>>
  BY DEF CacheInv, Expire
<1>1. CacheTypeOK'
  BY <1>0 DEF CacheTypeOK, Removed, wallet, chargeVars, topVars
<1>2. Pending' = Pending /\ Pending \in Nat
  BY <1>0, Counts, CountsAfter DEF chargeVars, Syncing, Executing
<1>3. CacheTracksBalance' /\ FlightInv'
  BY <1>0, <1>2, RemovedKeeps DEF wallet
<1> QED
  BY <1>1, <1>3 DEF CacheInv

\* A charge of the balance is pending from its commit on; what is in flight then
\* is out of date.
LEMMA ChargeCommitsKeeps ==
  ASSUME CacheInv, NEW c \in Charges, ChargeCommits(c)
  PROVE  CacheInv'
<1>0. /\ CacheTypeOK /\ balance \in Int /\ stage[c] = "idle"
      /\ UNCHANGED <<topVars, cached, load, queue, running>> /\ stage' = [stage EXCEPT ![c] = "sync"]
  BY DEF CacheInv, CacheTypeOK, ChargeCommits
<1>1. CacheTypeOK'
  <2>1. result' \in [Charges -> [taken : SUBSET {"points", "balance"}, newBalance : Int]]
    <3>1. CASE result' = [result EXCEPT ![c].taken = {"points"}]
      BY <1>0, <3>1 DEF CacheTypeOK
    <3>2. ASSUME NEW taken \in {{"balance"}, {"points", "balance"}},
                 result' = [result EXCEPT ![c] = [taken |-> taken, newBalance |-> balance - 1]]
          PROVE  result' \in [Charges -> [taken : SUBSET {"points", "balance"}, newBalance : Int]]
      BY <1>0, <3>2 DEF CacheTypeOK
    <3> QED
      BY <3>1, <3>2 DEF ChargeCommits
  <2>2. balance' \in Int /\ points' \in Nat /\ stage' \in [Charges -> {"idle", "sync", "done"}]
    BY <1>0 DEF CacheTypeOK, ChargeCommits
  <2>3. drift' \in BOOLEAN
    BY <1>0 DEF CacheTypeOK, ChargeCommits
  <2> QED
    BY <1>0, <2>1, <2>2, <2>3 DEF CacheTypeOK, topVars
<1>2. c \notin Syncing /\ Executing' = Executing
  BY <1>0 DEF Syncing, Executing
<1>3. CASE /\ result' = [result EXCEPT ![c].taken = {"points"}]
           /\ UNCHANGED <<balance, drift>>
  <2>1. Syncing' = Syncing
    BY <1>0, <1>2, <1>3 DEF CacheTypeOK, Syncing
  <2>2. Pending' = Pending
    BY <1>0, <1>2, <2>1, Counts, CountsAfter
  <2>3. CacheTracksBalance'
    BY <1>0, <1>3, <2>2 DEF CacheInv, CacheTracksBalance
  <2>4. FlightInv'
    BY <1>0, <1>3, <2>2, FlightFresh, FlightSame
  <2> QED
    BY <1>1, <2>3, <2>4 DEF CacheInv
<1>4. ASSUME NEW taken \in {{"balance"}, {"points", "balance"}},
             balance' = balance - 1, drift' = (drift \/ SetInFlight),
             result' = [result EXCEPT ![c] = [taken |-> taken, newBalance |-> balance - 1]]
      PROVE  CacheInv'
  <2>1. Syncing' = Syncing \cup {c}
    BY <1>0, <1>4 DEF CacheTypeOK, Syncing
  <2>2. Cardinality(Syncing') = Cardinality(Syncing) + 1
    BY <1>0, <1>2, <2>1, Counts, OneMore
  <2>3. Pending' = Pending + 1 /\ Pending \in Nat
    BY <1>0, <1>2, <2>2, Counts, CountsAfter
  <2>4. ~drift' => ~drift /\ ~SetInFlight
    BY <1>0, <1>4 DEF CacheTypeOK
  <2>5. CacheTracksBalance'
    BY <1>0, <1>4, <2>3, <2>4 DEF CacheInv, CacheTracksBalance
  <2>6. FlightInv'
    BY <1>0, <2>4, FlightSame DEF FlightInv
  <2> QED
    BY <1>1, <2>5, <2>6 DEF CacheInv
<1> QED
  BY <1>3, <1>4 DEF ChargeCommits

\* A deduction that reaches the entry before or instead of the queue.
LEMMA DeductKeeps ==
  ASSUME CacheInv, DeductUserBalance, UNCHANGED <<balance, load, queue, running>>,
         Pending \in Nat, Pending >= 1, Pending' = Pending - 1
  PROVE  /\ CacheTracksBalance' /\ FlightInv'
         /\ cached' \in Int \cup {Absent} /\ drift' \in BOOLEAN
<1>0. balance \in Int /\ cached \in Int \cup {Absent} /\ drift \in BOOLEAN
  BY DEF CacheInv, CacheTypeOK
<1>1. /\ cached' \in Int \cup {Absent} /\ drift' \in BOOLEAN
      /\ ~drift' => ~drift /\ cached' = Deducted(cached)
  <2>1. CASE cached' = Deducted(cached) /\ UNCHANGED drift
    BY <1>0, <2>1 DEF Deducted
  <2>2. CASE cached # Absent /\ drift' = TRUE /\ UNCHANGED cached
    BY <1>0, <2>2
  <2> QED
    BY <2>1, <2>2 DEF DeductUserBalance
<1>2. CacheTracksBalance'
  BY <1>0, <1>1 DEF CacheInv, CacheTracksBalance, Deducted
<1>3. FlightInv'
  BY <1>1, FlightFresh, FlightSame
<1> QED
  BY <1>1, <1>2, <1>3

\* A charge that ends leaves its deduction in the queue or in the entry, or the
\* entry is invalidated.
LEMMA FinalizePostUsageBillingKeeps ==
  ASSUME CacheInv, NEW c \in Charges, finalizePostUsageBilling(c)
  PROVE  CacheInv'
<1>0. /\ CacheTypeOK /\ balance \in Int /\ stage[c] = "sync" /\ ChargeEnds(c)
      /\ UNCHANGED <<balance, points, topUp, topUps, load, running>>
  BY DEF CacheInv, CacheTypeOK, finalizePostUsageBilling, wallet, topVars
<1>1. stage' \in [Charges -> {"idle", "sync", "done"}]
  BY <1>0 DEF CacheTypeOK, ChargeEnds
<1>2. result' \in [Charges -> [taken : SUBSET {"points", "balance"}, newBalance : Int]]
  BY <1>0 DEF CacheTypeOK, ChargeEnds, NoResult
<1>3. ASSUME cached' \in Int \cup {Absent}, drift' \in BOOLEAN, queue' \in Seq(Task), Len(queue') <= QueueSize
      PROVE  CacheTypeOK'
  BY <1>0, <1>1, <1>2, <1>3 DEF CacheTypeOK
<1>4. Syncing' = Syncing \ {c} /\ (c \in Syncing <=> "balance" \in result[c].taken) /\ Executing' = Executing
  BY <1>0, SyncEnds DEF Executing
<1>5. /\ c \in Syncing => Cardinality(Syncing') = Cardinality(Syncing) - 1 /\ Cardinality(Syncing) >= 1
      /\ c \notin Syncing => Cardinality(Syncing') = Cardinality(Syncing)
  <2>1. CASE c \in Syncing
    BY <1>0, <1>4, <2>1, Counts, OneMore
  <2>2. CASE c \notin Syncing
    <3>1. Syncing' = Syncing
      BY <1>4, <2>2
    <3> QED
      BY <2>2, <3>1
  <2> QED
    BY <2>1, <2>2
<1>6. ASSUME queue' = queue
      PROVE  /\ Pending \in Nat /\ Pending' \in Nat /\ Pending' <= Pending
             /\ c \in Syncing => Pending' = Pending - 1 /\ Pending >= 1
  <2>1. Cardinality(Executing') = Cardinality(Executing) /\ Deducts(queue') = Deducts(queue)
    BY <1>4, <1>6
  <2> QED
    BY <1>0, <1>5, <2>1, Counts, CountsAfter
<1>7. CASE InvalidateUserBalance /\ UNCHANGED queue
  <2>1. /\ CacheTracksBalance' /\ FlightInv'
        /\ cached' \in Int \cup {Absent} /\ drift' \in BOOLEAN
    BY <1>0, <1>6, <1>7, InvalidateKeeps
  <2>2. CacheTypeOK'
    BY <1>0, <1>3, <1>7, <2>1 DEF CacheTypeOK
  <2> QED
    BY <2>1, <2>2 DEF CacheInv
<1>8. CASE result[c].taken = {"balance"} /\ DeductUserBalance /\ UNCHANGED queue
  <2>1. Pending \in Nat /\ Pending >= 1 /\ Pending' = Pending - 1
    BY <1>4, <1>6, <1>8
  <2>2. /\ CacheTracksBalance' /\ FlightInv'
        /\ cached' \in Int \cup {Absent} /\ drift' \in BOOLEAN
    BY <1>0, <1>8, <2>1, DeductKeeps
  <2>3. CacheTypeOK'
    BY <1>0, <1>3, <1>8, <2>2 DEF CacheTypeOK
  <2> QED
    BY <2>2, <2>3 DEF CacheInv
<1>9. CASE /\ result[c].taken = {"balance"} /\ ~Full /\ queue' = Append(queue, DeductTask)
           /\ UNCHANGED <<cached, drift>>
  <2> DEFINE q == Append(queue, DeductTask)
  <2>0. DeductTask \in Task /\ DeductTask.kind = "deduct" /\ queue \in Seq(Task) /\ Len(queue) \in Nat
    BY <1>0, LenProperties DEF DeductTask, Task, CacheTypeOK
  <2>1. /\ q \in Seq(Task) /\ Len(q) = Len(queue) + 1
        /\ \A i \in DOMAIN q : q[i] = DeductTask \/ \E j \in DOMAIN queue : q[i] = queue[j]
        /\ Cardinality(Deducts(q)) = Cardinality(Deducts(queue)) + 1
    BY <2>0, QueueGrows
  <2>2. queue' = q
    BY <1>9
  <2> HIDE DEF q
  <2>3. CacheTypeOK'
    BY <1>0, <1>3, <1>9, <2>0, <2>1, <2>2 DEF CacheTypeOK, Full
  <2>4. Pending' = Pending
    BY <1>0, <1>4, <1>5, <1>9, <2>1, <2>2, Counts, CountsAfter
  <2>5. CacheTracksBalance'
    BY <1>0, <1>9, <2>4 DEF CacheInv, CacheTracksBalance
  <2>6. (Fresh => Fresh') /\ (SetInFlight' => SetInFlight)
    BY <1>0, <2>0, <2>1, <2>2 DEF Fresh, SetInFlight
  <2>7. FlightInv'
    BY <1>9, <2>4, <2>6, FlightFresh
  <2> QED
    BY <2>3, <2>5, <2>7 DEF CacheInv
<1> QED
  BY <1>7, <1>8, <1>9 DEF finalizePostUsageBilling, QueueDeductBalance, Enqueue

\* A charge whose answer is lost leaves a drift if there is an entry.
LEMMA AnswerLostKeeps ==
  ASSUME CacheInv, NEW c \in Charges, AnswerLost(c)
  PROVE  CacheInv'
<1>0. /\ CacheTypeOK /\ balance \in Int /\ stage[c] = "sync" /\ ChargeEnds(c)
      /\ UNCHANGED <<balance, points, topUp, topUps, cached, load, queue, running>>
  BY DEF CacheInv, CacheTypeOK, AnswerLost, wallet, topVars
<1>1. CacheTypeOK'
  <2>1. stage' \in [Charges -> {"idle", "sync", "done"}]
    BY <1>0 DEF CacheTypeOK, ChargeEnds
  <2>2. result' \in [Charges -> [taken : SUBSET {"points", "balance"}, newBalance : Int]]
    BY <1>0 DEF CacheTypeOK, ChargeEnds, NoResult
  <2>3. drift' \in BOOLEAN
    BY <1>0 DEF CacheTypeOK, AnswerLost
  <2> QED
    BY <1>0, <2>1, <2>2, <2>3 DEF CacheTypeOK
<1>2. Syncing' = Syncing \ {c} /\ (c \in Syncing <=> "balance" \in result[c].taken) /\ Executing' = Executing
  BY <1>0, SyncEnds DEF Executing
<1>3. ~drift' => ~drift /\ (c \notin Syncing \/ cached = Absent)
  BY <1>0, <1>2 DEF CacheTypeOK, AnswerLost
<1>4. CASE c \notin Syncing
  <2>1. Syncing' = Syncing
    BY <1>2, <1>4
  <2>2. Pending' = Pending
    BY <1>0, <1>2, <2>1, Counts, CountsAfter
  <2>3. CacheTracksBalance'
    BY <1>0, <1>3, <2>2 DEF CacheInv, CacheTracksBalance
  <2>4. FlightInv'
    BY <1>0, <1>3, <2>2, FlightFresh, FlightSame
  <2> QED
    BY <1>1, <2>3, <2>4 DEF CacheInv
<1>5. CASE c \in Syncing
  <2>1. Cardinality(Syncing) >= 1
    BY <1>0, <1>5, Counts, OneMore
  <2>2. Pending \in Nat /\ Pending >= 1
    BY <1>0, <2>1, Counts
  <2>3. ~drift => ~SetInFlight
    BY <2>2, FlightFresh
  <2>4. CacheTracksBalance'
    BY <1>0, <1>3, <1>5 DEF CacheTracksBalance
  <2>5. FlightInv'
    BY <1>0, <1>3, <2>3, FlightSame DEF FlightInv
  <2> QED
    BY <1>1, <2>4, <2>5 DEF CacheInv
<1> QED
  BY <1>4, <1>5

\* A recharge makes an entry, or what is in flight, out of date.
LEMMA TopUpKeeps ==
  ASSUME CacheInv, TopUp
  PROVE  CacheInv'
<1>0. CacheTypeOK /\ UNCHANGED <<points, chargeVars, cached, load, queue, running>>
  BY DEF CacheInv, TopUp
<1>1. CacheTypeOK'
  BY <1>0 DEF CacheTypeOK, TopUp, chargeVars
<1>2. ~drift' => ~SetInFlight /\ cached = Absent
  BY <1>0 DEF CacheTypeOK, TopUp
<1>3. CacheTracksBalance'
  BY <1>0, <1>2 DEF CacheTracksBalance
<1>4. FlightInv'
  BY <1>0, <1>2, FlightSame DEF FlightInv
<1> QED
  BY <1>1, <1>3, <1>4 DEF CacheInv

\* Then it invalidates the entry.
LEMMA TopUpInvalidatesKeeps ==
  ASSUME CacheInv, TopUpInvalidates
  PROVE  CacheInv'
<1>0. /\ CacheTypeOK /\ InvalidateUserBalance /\ topUp' = "idle"
      /\ UNCHANGED <<balance, points, stage, result, topUps, load, queue, running>>
  BY DEF CacheInv, TopUpInvalidates, wallet, chargeVars
<1>1. Pending' = Pending /\ Pending \in Nat
  BY <1>0, Counts, CountsAfter DEF Syncing, Executing
<1>2. /\ CacheTracksBalance' /\ FlightInv'
      /\ cached' \in Int \cup {Absent} /\ drift' \in BOOLEAN
  BY <1>0, <1>1, InvalidateKeeps
<1>3. CacheTypeOK'
  BY <1>0, <1>2 DEF CacheTypeOK
<1> QED
  BY <1>2, <1>3 DEF CacheInv

\* A refund makes an entry, or what is in flight, out of date as well.
LEMMA RefundWritesKeeps ==
  ASSUME CacheInv, RefundWrites
  PROVE  CacheInv'
<1>0. CacheTypeOK /\ UNCHANGED <<points, chargeVars, topUp, cached, load, queue, running>>
  BY DEF CacheInv, RefundWrites
<1>1. CacheTypeOK'
  BY <1>0 DEF CacheTypeOK, RefundWrites, chargeVars
<1>2. ~drift' => ~SetInFlight /\ cached = Absent
  BY <1>0 DEF CacheTypeOK, RefundWrites
<1>3. CacheTracksBalance'
  BY <1>0, <1>2 DEF CacheTracksBalance
<1>4. FlightInv'
  BY <1>0, <1>2, FlightSame DEF FlightInv
<1> QED
  BY <1>1, <1>3, <1>4 DEF CacheInv

\* A restart forgets what was pending or in flight; an entry that missed some of
\* it has drifted.
LEMMA RestartKeeps ==
  ASSUME CacheInv, Restart
  PROVE  CacheInv'
<1>0. /\ CacheTypeOK /\ UNCHANGED <<balance, points, cached, topUps>>
      /\ queue' = <<>> /\ running' = [w \in Workers |-> NoTask] /\ load' = Absent /\ topUp' = "idle"
  BY DEF CacheInv, Restart, wallet
<1>1. CacheTypeOK'
  <2>1. queue' \in Seq(Task) /\ Len(queue') <= QueueSize
    BY <1>0
  <2>2. NoTask \in Task /\ running' \in [Workers -> Task]
    BY <1>0 DEF NoTask, Task
  <2>3. result' \in [Charges -> [taken : SUBSET {"points", "balance"}, newBalance : Int]]
    BY DEF Restart, NoResult
  <2>4. stage' \in [Charges -> {"idle", "sync", "done"}]
    BY <1>0 DEF CacheTypeOK, Restart
  <2>5. drift' \in BOOLEAN
    BY <1>0 DEF CacheTypeOK, Restart
  <2> QED
    BY <1>0, <2>1, <2>2, <2>3, <2>4, <2>5 DEF CacheTypeOK
<1>2. Syncing' = {} /\ Executing' = {} /\ Deducts(queue') = {}
  BY <1>0 DEF CacheTypeOK, Restart, Syncing, Executing, Deducts, NoTask, NoResult
<1>3. Pending' = 0
  BY <1>2, CountsAfter, FS_EmptySet
<1>4. Pending \in Nat /\ balance \in Int
  BY <1>0, Counts DEF CacheTypeOK
<1>5. ~drift' => cached = Absent \/ (~drift /\ Pending = 0)
  <2>1. drift' = ((drift \/ Pending > 0) /\ cached # Absent)
    BY DEF Restart
  <2>2. ~(Pending > 0) => Pending = 0
    BY <1>4
  <2> QED
    BY Zenon, <2>1, <2>2
<1>6. CacheTracksBalance'
  BY <1>0, <1>3, <1>4, <1>5 DEF CacheInv, CacheTracksBalance
<1>7. ~SetInFlight'
  BY <1>0 DEF SetInFlight, NoTask
<1>8. FlightInv'
  BY <1>7 DEF FlightInv
<1> QED
  BY <1>1, <1>6, <1>8 DEF CacheInv

-----------------------------------------------------------------------------
\* A step that changes nothing.
LEMMA StutterKeeps ==
  ASSUME CacheInv, UNCHANGED cacheVars
  PROVE  CacheInv'
<1>1. UNCHANGED <<balance, points, stage, result, topUp, topUps, cached, load, queue, running, drift>>
  BY DEF cacheVars, wallet, chargeVars, topVars, entryVars
<1>2. CacheTypeOK'
  BY <1>1 DEF CacheInv, CacheTypeOK
<1>3. Pending' = Pending
  BY <1>1 DEF Pending
<1>4. CacheTracksBalance'
  BY <1>1, <1>3 DEF CacheInv, CacheTracksBalance
<1>5. FlightInv'
  BY <1>1, <1>3, FlightFresh, FlightSame
<1> QED
  BY <1>2, <1>4, <1>5 DEF CacheInv

\* Every step keeps the invariant.
LEMMA NextKeeps == CacheInv /\ [CacheNext]_cacheVars => CacheInv'
<1> SUFFICES ASSUME CacheInv, [CacheNext]_cacheVars PROVE CacheInv'
  OBVIOUS
<1>1. CASE LoadBalance \/ EnqueueLoaded \/ Expire
  BY <1>1, LoadBalanceKeeps, EnqueueLoadedKeeps, ExpireKeeps
<1>2. ASSUME NEW w \in Workers, TakeTask(w) \/ RunTask(w) PROVE CacheInv'
  BY <1>2, TakeTaskKeeps, RunTaskKeeps
<1>3. ASSUME NEW c \in Charges, ChargeCommits(c) \/ finalizePostUsageBilling(c) \/ AnswerLost(c) PROVE CacheInv'
  BY <1>3, ChargeCommitsKeeps, FinalizePostUsageBillingKeeps, AnswerLostKeeps
<1>4. CASE TopUp \/ TopUpInvalidates \/ RefundWrites \/ Restart
  BY <1>4, TopUpKeeps, TopUpInvalidatesKeeps, RefundWritesKeeps, RestartKeeps
<1>5. CASE UNCHANGED cacheVars
  BY <1>5, StutterKeeps
<1> QED
  BY <1>1, <1>2, <1>3, <1>4, <1>5 DEF CacheNext

\* The inductive invariant holds in every reachable state, for any number of
\* charges and workers and any size of the queue.
THEOREM CacheInvariance == CacheSpec => []CacheInv
<1>1. CacheInit => CacheInv
  BY CacheInitHolds
<1>2. CacheInv /\ [CacheNext]_cacheVars => CacheInv'
  BY NextKeeps
<1> QED
  BY <1>1, <1>2, PTL DEF CacheSpec

\* The queue never exceeds its size, and all state keeps its type.
THEOREM CacheTypeCorrect == CacheSpec => []CacheTypeOK
<1>1. CacheInv => CacheTypeOK
  BY DEF CacheInv
<1> QED
  BY <1>1, CacheInvariance, PTL

\* Without drift the entry is the balance plus the deductions on their way.
THEOREM EntryTracksBalance == CacheSpec => []CacheTracksBalance
<1>1. CacheInv => CacheTracksBalance
  BY DEF CacheInv
<1> QED
  BY <1>1, CacheInvariance, PTL

-----------------------------------------------------------------------------
RowInv == \A r \in Requests : pc[r] \in TxPcs => live[key[r]] = r

KeyInv ==
  /\ \A k \in Keys : \A r \in charged[k] :
       /\ key[r] = k /\ pc[r] \in {"applied", "failed"}
       /\ live[k] = r \/ archive[k] # None
  /\ \A k \in Keys : archive[k] # None => \E o \in charged[k] : fp[o] = archive[k]
  /\ \A r \in Requests : pc[r] \in {"effects", "commit"} => archive[key[r]] = None

JobInv ==
  \A c \in Cleaners : \A v \in victims[c] :
    /\ v \in charged[key[v]]
    /\ job[c] = "delete" => live[key[v]] # v \/ archive[key[v]] # None

IInv == TypeOK /\ RowInv /\ KeyInv /\ JobInv /\ ChargedOnce /\ AnswerIsTrue

HIDE QueueAssumption
USE NoneAssumption
USE DEF TypeOK, RowInv, KeyInv, JobInv, ChargedOnce, AnswerIsTrue, IInv,
        Pcs, TxPcs, input, jobVars, Goto, Committed, Without, Verdict

-----------------------------------------------------------------------------

\* The invariant holds while both tables are empty.
LEMMA InitHolds == Init => IInv
BY DEF Init

\* A claimed key gets a row of its own.
LEMMA InsertIgnoreKeeps ==
  ASSUME IInv, NEW r \in Requests, InsertIgnore(r)
  PROVE  IInv'
<1>1. TypeOK'
  BY DEF InsertIgnore
<1>2. RowInv'
  BY DEF InsertIgnore
<1>3. KeyInv'
  BY DEF InsertIgnore
<1>4. JobInv'
  BY DEF InsertIgnore
<1>5. ChargedOnce'
  BY DEF InsertIgnore
<1>6. AnswerIsTrue'
  BY DEF InsertIgnore
<1> QED
  BY <1>1, <1>2, <1>3, <1>4, <1>5, <1>6

\* A committed row was charged.
LEMMA ReadFingerprintKeeps ==
  ASSUME IInv, NEW r \in Requests, ReadFingerprint(r)
  PROVE  IInv'
<1>1. TypeOK'
  BY DEF ReadFingerprint
<1>2. RowInv'
  BY DEF ReadFingerprint
<1>3. KeyInv'
  BY DEF ReadFingerprint
<1>4. JobInv'
  BY DEF ReadFingerprint
<1>5. ChargedOnce'
  BY DEF ReadFingerprint
<1>6. AnswerIsTrue'
  BY DEF ReadFingerprint
<1> QED
  BY <1>1, <1>2, <1>3, <1>4, <1>5, <1>6

\* An archived key was charged.
LEMMA CheckArchiveKeeps ==
  ASSUME IInv, NEW r \in Requests, CheckArchive(r)
  PROVE  IInv'
<1>1. TypeOK'
  BY DEF CheckArchive
<1>2. RowInv'
  BY DEF CheckArchive
<1>3. KeyInv'
  BY DEF CheckArchive
<1>4. JobInv'
  BY DEF CheckArchive
<1>5. ChargedOnce'
  BY DEF CheckArchive
<1>6. AnswerIsTrue'
  BY DEF CheckArchive
<1> QED
  BY <1>1, <1>2, <1>3, <1>4, <1>5, <1>6

\* The effects belong to the transaction.
LEMMA ApplyUsageBillingEffectsKeeps ==
  ASSUME IInv, NEW r \in Requests, applyUsageBillingEffects(r)
  PROVE  IInv'
<1>1. TypeOK'
  BY DEF applyUsageBillingEffects
<1>2. RowInv'
  BY DEF applyUsageBillingEffects
<1>3. KeyInv'
  BY DEF applyUsageBillingEffects
<1>4. JobInv'
  BY DEF applyUsageBillingEffects
<1>5. ChargedOnce'
  BY DEF applyUsageBillingEffects
<1>6. AnswerIsTrue'
  BY DEF applyUsageBillingEffects
<1> QED
  BY <1>1, <1>2, <1>3, <1>4, <1>5, <1>6

\* A transaction that passed the archive check commits the first charge of
\* its key.
LEMMA CommitKeeps ==
  ASSUME IInv, NEW r \in Requests, Commit(r)
  PROVE  IInv'
<1>1. TypeOK'
  BY DEF Commit
<1>2. RowInv'
  BY DEF Commit
<1>3. KeyInv'
  BY DEF Commit
<1>4. JobInv'
  BY DEF Commit
<1>5. ChargedOnce'
  BY DEF Commit
<1>6. AnswerIsTrue'
  BY DEF Commit
<1> QED
  BY <1>1, <1>2, <1>3, <1>4, <1>5, <1>6

\* A roll-back takes the row with it.
LEMMA RollbackKeeps ==
  ASSUME IInv, NEW r \in Requests, Rollback(r)
  PROVE  IInv'
<1>1. TypeOK'
  BY DEF Rollback
<1>2. RowInv'
  BY DEF Rollback
<1>3. KeyInv'
  BY DEF Rollback
<1>4. JobInv'
  BY DEF Rollback
<1>5. ChargedOnce'
  BY DEF Rollback
<1>6. AnswerIsTrue'
  BY DEF Rollback
<1> QED
  BY <1>1, <1>2, <1>3, <1>4, <1>5, <1>6

\* A job selects committed rows.
LEMMA SelectVictimsKeeps ==
  ASSUME IInv, NEW c \in Cleaners, SelectVictims(c)
  PROVE  IInv'
<1>1. TypeOK'
  BY DEF SelectVictims
<1>2. RowInv'
  BY DEF SelectVictims
<1>3. KeyInv'
  BY DEF SelectVictims
<1>4. JobInv'
  BY DEF SelectVictims
<1>5. ChargedOnce'
  BY DEF SelectVictims
<1>6. AnswerIsTrue'
  BY DEF SelectVictims
<1> QED
  BY <1>1, <1>2, <1>3, <1>4, <1>5, <1>6

\* It archives keys of charged requests.
LEMMA ArchiveVictimsKeeps ==
  ASSUME IInv, NEW c \in Cleaners, ArchiveVictims(c)
  PROVE  IInv'
<1>1. TypeOK'
  BY DEF ArchiveVictims
<1>2. RowInv'
  BY DEF ArchiveVictims
<1>3. KeyInv'
  BY DEF ArchiveVictims
<1>4. JobInv'
  BY DEF ArchiveVictims
<1>5. ChargedOnce'
  BY DEF ArchiveVictims
<1>6. AnswerIsTrue'
  BY DEF ArchiveVictims
<1> QED
  BY <1>1, <1>2, <1>3, <1>4, <1>5, <1>6

\* It deletes what is archived.
LEMMA DeleteVictimsKeeps ==
  ASSUME IInv, NEW c \in Cleaners, DeleteVictims(c)
  PROVE  IInv'
<1>1. TypeOK'
  BY DEF DeleteVictims, JobEnds
<1>2. RowInv'
  BY DEF DeleteVictims, JobEnds
<1>3. KeyInv'
  BY DEF DeleteVictims, JobEnds
<1>4. JobInv'
  BY DEF DeleteVictims, JobEnds
<1>5. ChargedOnce'
  BY DEF DeleteVictims, JobEnds
<1>6. AnswerIsTrue'
  BY DEF DeleteVictims, JobEnds
<1> QED
  BY <1>1, <1>2, <1>3, <1>4, <1>5, <1>6

\* A job that stops leaves both tables alone.
LEMMA JobStopsKeeps ==
  ASSUME IInv, NEW c \in Cleaners, JobStops(c)
  PROVE  IInv'
<1>1. TypeOK'
  BY DEF JobStops, JobEnds
<1>2. RowInv'
  BY DEF JobStops, JobEnds
<1>3. KeyInv'
  BY DEF JobStops, JobEnds
<1>4. JobInv'
  BY DEF JobStops, JobEnds
<1>5. ChargedOnce'
  BY DEF JobStops, JobEnds
<1>6. AnswerIsTrue'
  BY DEF JobStops, JobEnds
<1> QED
  BY <1>1, <1>2, <1>3, <1>4, <1>5, <1>6

\* The invariant is inductive.
LEMMA Inductive == IInv /\ [Next]_vars => IInv'
<1> SUFFICES ASSUME IInv, [Next]_vars
             PROVE  IInv'
  OBVIOUS
<1>1. ASSUME NEW r \in Requests, RequestStep(r)
      PROVE  IInv'
  BY <1>1, InsertIgnoreKeeps, ReadFingerprintKeeps, CheckArchiveKeeps,
     ApplyUsageBillingEffectsKeeps, CommitKeeps, RollbackKeeps DEF RequestStep
<1>2. ASSUME NEW c \in Cleaners, CleanerStep(c)
      PROVE  IInv'
  BY <1>2, SelectVictimsKeeps, ArchiveVictimsKeeps, DeleteVictimsKeeps,
     JobStopsKeeps DEF CleanerStep
<1>3. CASE UNCHANGED vars
  BY <1>3 DEF vars
<1> HIDE DEF IInv
<1> QED
  BY <1>1, <1>2, <1>3 DEF Next

HIDE DEF TypeOK, ChargedOnce, AnswerIsTrue

\* The inductive invariant holds in every reachable state.
LEMMA Invariance == Spec => []IInv
<1> HIDE DEF IInv
<1> QED
  BY InitHolds, Inductive, PTL DEF Spec

\* Tables, requests and jobs keep their types, and no failed Apply leaves its
\* claim in usage_billing_dedup.
THEOREM TypeCorrect == Spec => []TypeOK
BY Invariance, PTL DEF IInv

\* Apply charges at most one request of a (request_id, api_key_id), however
\* many instances move keys to the archive at the same time.
THEOREM ChargedOnceHolds == Spec => []ChargedOnce
BY Invariance, PTL DEF IInv

\* Apply answers "applied", duplicate and conflict truthfully.
THEOREM AnswerIsTrueHolds == Spec => []AnswerIsTrue
BY Invariance, PTL DEF IInv

=============================================================================
