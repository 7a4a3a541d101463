------------------------- MODULE SchedulerSnapshot -------------------------
(***************************************************************************)
(* The account list of one scheduling bucket, cached in Redis.  Edits      *)
(* change the database, enqueue an outbox event (unless one was enqueued   *)
(* within the last second) and write the account's payload to the cache.   *)
(* A poller per process handles the events behind a shared watermark; it,  *)
(* a periodic full rebuild and requests that miss the cache load the list  *)
(* from the database and activate it as a new version.                     *)
(*                                                                         *)
(* One account, one bucket.  Database contents are numbered by revision.   *)
(* Versions are only compared, so the version counter is the sequence of   *)
(* those who hold one, oldest first; "active" stands for the active one.   *)
(***************************************************************************)
EXTENDS Naturals, Sequences

CONSTANTS Editors,     \* callers of the account repository
          Billers,     \* charges that change an account in their transaction
          Pollers,     \* runOutboxWorker, one per process
          Rebuilders,  \* runFullRebuildWorker, one per process
          Requests,    \* threads in ListSchedulableAccounts
          None,
          MaxChanges,  \* bound: edits
          MaxFaults    \* bound: failures of Redis, database or process

Writers == Pollers \cup Rebuilders \cup Requests
Actors == Editors \cup Billers \cup Writers

ASSUME ActorAssumption ==
  /\ Editors \cap (Billers \cup Writers) = {} /\ Billers \cap Writers = {}
  /\ Pollers \cap Rebuilders = {}
  /\ Requests \cap (Pollers \cup Rebuilders) = {}
  /\ None \notin Actors /\ "active" \notin Actors
  /\ MaxChanges \in Nat /\ MaxFaults \in Nat

VARIABLES
  db,         \* the account: revision, and whether the bucket lists it
  outbox,     \* scheduler_outbox: the state of the row with each id
  watermark,  \* id of the last handled event
  lock,       \* the bucket lock: who set it, or None
  versions,   \* holders of versions, oldest first
  snap,       \* revision of the active list; 0 when there is none
  meta,       \* revision of the account's payload in Redis; 0 when there is none
  pc, loaded, \* of each actor: where it is, what it has read from the database
  batch,      \* ids a poller has read and not handled; the open row of a transaction
  rebuilt,    \* the poller's seen: the batch has rebuilt the bucket
  faults,
  newest,     \* history: newest revision loaded by a rebuild that an overlapping one,
              \* with a newer version, has replaced or kept out, or that was cleared
  missed      \* history: newest change whose event may do nothing; 0 once loaded

vars == <<db, outbox, watermark, lock, versions, snap, meta, pc, loaded, batch,
          rebuilt, faults, newest, missed>>
cache == <<lock, versions, snap, meta>>
history == <<newest, missed>>

Revisions == 0..(MaxChanges + 1)
Nothing == [rev |-> 0, state |-> "out"]
(* Listed in the bucket or not.  Deletion is a change to "out": that the    *)
(* payload is deleted too only makes more requests miss.                    *)
Contents == [rev : Revisions, state : {"in", "out"}]
(* A row of an open transaction, one inside the dedup window, an older     *)
(* one, and one that was rolled back.                                      *)
Rows == {"open", "recent", "old", "void"}
Locked == {"load", "version", "write", "activate"}
Pcs == {"idle", "enqueue", "commit", "syncRead", "syncWrite", "account",
        "setAccount", "lock", "watermark"} \cup Locked

Active == \E i \in DOMAIN versions : versions[i] = "active"
Visible(i) == outbox[i] \in {"recent", "old"}

(* Rows, cache, versions and actors keep their types; nobody holds two     *)
(* versions, and only a writer that is about to activate holds one.        *)
TypeOK ==
  /\ db \in Contents /\ outbox \in Seq(Rows)
  /\ watermark \in 0..Len(outbox) /\ lock \in Pollers \cup Rebuilders \cup {None}
  /\ snap \in Revisions /\ meta \in Revisions
  /\ pc \in [Actors -> Pcs] /\ loaded \in [Actors -> Contents]
  /\ batch \in [Billers \cup Pollers -> SUBSET DOMAIN outbox]
  /\ rebuilt \in [Pollers -> BOOLEAN]
  /\ faults \in 0..MaxFaults /\ newest \in Revisions /\ missed \in Revisions
  /\ versions \in Seq(Writers \cup {"active"})
  /\ \A i, j \in DOMAIN versions : versions[i] = versions[j] => i = j
  /\ \A i \in DOMAIN versions :
       versions[i] = "active" \/ (versions[i] \in Writers /\ pc[versions[i]] \in {"write", "activate"})

Init ==
  /\ db = [rev |-> 1, state |-> "in"] /\ outbox = <<>> /\ watermark = 0
  /\ lock = None /\ versions = <<>> /\ snap = 0 /\ meta = 0
  /\ pc = [a \in Actors |-> "idle"] /\ loaded = [a \in Actors |-> Nothing]
  /\ batch = [a \in Billers \cup Pollers |-> {}]
  /\ rebuilt = [p \in Pollers |-> FALSE]
  /\ faults = 0 /\ newest = 0 /\ missed = 0

Goto(a, label) == pc' = [pc EXCEPT ![a] = label]
Read(a) == loaded' = [loaded EXCEPT ![a] = db]
Forget(a) == loaded' = [loaded EXCEPT ![a] = Nothing]
Fault == faults < MaxFaults /\ faults' = faults + 1
Larger(m, n) == IF m > n THEN m ELSE n
Miss == missed' = db.rev
CanChange == db.rev <= MaxChanges
Changes(s) == CanChange /\ db' = [rev |-> db.rev + 1, state |-> s]

-----------------------------------------------------------------------------
(* An edit of the account, which goes on to the outbox (most edits and     *)
(* deletion), or only to the cached payload: UpdateCredentials, and        *)
(* BindGroups that takes the account out of its groups.                    *)
Change(e) ==
  /\ pc[e] = "idle"
  /\ \/ \E s \in {"in", "out"} : Changes(s) /\ Goto(e, "enqueue") /\ UNCHANGED missed
     \/ \E s \in {db.state, "out"} :
          Changes(s) /\ Goto(e, "syncRead") /\ missed' = db.rev + 1
  /\ UNCHANGED <<outbox, watermark, cache, loaded, batch, rebuilt, faults, newest>>

(* enqueueSchedulerOutbox: nothing is inserted while a row of the last      *)
(* second exists.  An error is only logged.                                 *)
Deduplicated == \E i \in DOMAIN outbox : outbox[i] = "recent"

enqueueSchedulerOutbox(e) ==
  /\ pc[e] = "enqueue"
  /\ \/ /\ ~Deduplicated /\ outbox' = Append(outbox, "recent")
        /\ UNCHANGED <<faults, missed>>
     \/ Deduplicated /\ Miss /\ UNCHANGED <<outbox, faults>>
     \/ Fault /\ Miss /\ UNCHANGED outbox
  /\ Goto(e, "syncRead")
  /\ UNCHANGED <<db, watermark, cache, loaded, batch, rebuilt, newest>>

(* syncSchedulerAccountSnapshot reads the account again and writes its      *)
(* payload.  Some edits and deletion leave it out; a read may fail.         *)
SyncRead(e) ==
  /\ pc[e] = "syncRead"
  /\ \/ Read(e) /\ Goto(e, "syncWrite")
     \/ Goto(e, "idle") /\ UNCHANGED loaded
  /\ UNCHANGED <<db, outbox, watermark, cache, batch, rebuilt, faults, history>>

SyncWrite(e) ==
  /\ pc[e] = "syncWrite"
  /\ meta' = loaded[e].rev /\ Forget(e) /\ Goto(e, "idle")
  /\ UNCHANGED <<db, outbox, watermark, lock, versions, snap, batch, rebuilt, faults, history>>

(* A transaction (incrementUsageBillingAccountQuota) inserts its event,     *)
(* which gets its id at once and becomes visible with the change.           *)
BeginTransaction(b) ==
  /\ pc[b] = "idle" /\ CanChange /\ Goto(b, "commit")
  /\ \/ /\ ~Deduplicated /\ outbox' = Append(outbox, "open")
        /\ batch' = [batch EXCEPT ![b] = {Len(outbox')}]
     \/ Deduplicated /\ UNCHANGED <<outbox, batch>>
  /\ UNCHANGED <<db, watermark, cache, loaded, rebuilt, faults, history>>

(* The change may be missed if its event was deduplicated or if a row with  *)
(* a larger id is visible already, which the watermark may have passed.     *)
CommitTransaction(b) ==
  /\ pc[b] = "commit"
  /\ \E s \in {"in", "out"} : Changes(s)
  /\ outbox' = [i \in DOMAIN outbox |-> IF i \in batch[b] THEN "recent" ELSE outbox[i]]
  /\ missed' = IF \E i \in batch[b] : \A j \in DOMAIN outbox : j > i => ~Visible(j)
               THEN missed ELSE db'.rev
  /\ batch' = [batch EXCEPT ![b] = {}] /\ Goto(b, "idle")
  /\ UNCHANGED <<watermark, cache, loaded, rebuilt, faults, newest>>

RollbackTransaction(b) ==
  /\ pc[b] = "commit" /\ (Fault \/ (~CanChange /\ UNCHANGED faults))
  /\ outbox' = [i \in DOMAIN outbox |-> IF i \in batch[b] THEN "void" ELSE outbox[i]]
  /\ batch' = [batch EXCEPT ![b] = {}] /\ Goto(b, "idle")
  /\ UNCHANGED <<db, watermark, cache, loaded, rebuilt, history>>

(* A row leaves the dedup window. *)
WindowEnds(i) ==
  /\ outbox[i] = "recent" /\ outbox' = [outbox EXCEPT ![i] = "old"]
  /\ UNCHANGED <<db, watermark, cache, pc, loaded, batch, rebuilt, faults, history>>

-----------------------------------------------------------------------------
(* pollOutbox: ListAfter(watermark). *)
Pending == {i \in DOMAIN outbox : i > watermark /\ Visible(i)}

pollOutbox(p) ==
  /\ pc[p] = "idle" /\ Pending # {}
  /\ batch' = [batch EXCEPT ![p] = Pending] /\ Goto(p, "account")
  /\ UNCHANGED <<db, outbox, watermark, cache, loaded, rebuilt, faults, history>>

(* Mutant: pollOutbox goes on after an event that fails. *)
GoOn(p) ==
  /\ Goto(p, IF batch[p] = {} THEN "idle" ELSE "watermark") /\ Forget(p)
  /\ UNCHANGED <<batch, rebuilt>>

(* An event that fails ends the round: its watermark is not set. *)
GiveUp(p) ==
  /\ Goto(p, "idle") /\ Forget(p)
  /\ batch' = [batch EXCEPT ![p] = {}] /\ rebuilt' = [rebuilt EXCEPT ![p] = FALSE]

(* handleAccountEvent reads the account (GetByID), ... *)
handleAccountEvent(p) ==
  /\ pc[p] = "account"
  /\ \/ Read(p) /\ Goto(p, "setAccount") /\ UNCHANGED <<batch, rebuilt, faults>>
     \/ Fault /\ GiveUp(p)
  /\ UNCHANGED <<db, outbox, watermark, cache, history>>

(* ... writes its payload (SetAccount) and rebuilds its buckets.  A bucket  *)
(* is rebuilt by the first event of a batch only, and a mixed one, or one   *)
(* of a group the event does not name, not at all if the account read is    *)
(* no longer in it.                                                         *)
rebuildByAccount(p) ==
  /\ pc[p] = "setAccount"
  /\ \/ /\ meta' = loaded[p].rev /\ Forget(p) /\ UNCHANGED <<batch, faults>>
        /\ \/ rebuilt[p] /\ Goto(p, "watermark") /\ UNCHANGED <<rebuilt, missed>>
           \/ /\ ~rebuilt[p] /\ Goto(p, "lock")
              /\ rebuilt' = [rebuilt EXCEPT ![p] = TRUE] /\ UNCHANGED missed
           \/ /\ ~rebuilt[p] /\ loaded[p].state = "out" /\ Goto(p, "watermark")
              /\ missed' = Larger(missed, loaded[p].rev) /\ UNCHANGED rebuilt
     \/ Fault /\ GiveUp(p) /\ UNCHANGED <<meta, missed>>
  /\ UNCHANGED <<db, outbox, watermark, lock, versions, snap, newest>>

(* Where a writer goes when the bucket is done.                             *)
AfterRebuild(w) == IF w \in Pollers /\ batch[w] # {} THEN "watermark" ELSE "idle"

(* Mutant: the watermark is the next id to read. *)
nextID(p) == 1 + CHOOSE i \in batch[p] : \A j \in batch[p] : i >= j

lastID(p) == CHOOSE i \in batch[p] : \A j \in batch[p] : i >= j

(* With events left the next one is handled, otherwise the watermark is     *)
(* set.  A lag or backlog (checkOutboxLag) then triggers a full rebuild,    *)
(* even if the watermark could not be written.                              *)
SetOutboxWatermark(p) ==
  /\ pc[p] = "watermark"
  /\ LET left == {i \in batch[p] : \E j \in batch[p] : j < i} IN
       \/ /\ left # {} /\ batch' = [batch EXCEPT ![p] = left] /\ Goto(p, "account")
          /\ UNCHANGED <<watermark, rebuilt, faults>>
       \/ /\ left = {} /\ (Goto(p, "idle") \/ Goto(p, "lock"))
          /\ batch' = [batch EXCEPT ![p] = {}] /\ rebuilt' = [rebuilt EXCEPT ![p] = FALSE]
          /\ \/ watermark' = lastID(p) /\ UNCHANGED faults
             \/ Fault /\ UNCHANGED watermark
  /\ UNCHANGED <<db, outbox, cache, loaded, history>>

-----------------------------------------------------------------------------
(* Mutant: the full rebuild is switched off. *)
NoFullRebuild(r) == r \notin Rebuilders /\ UNCHANGED vars

(* runInitialRebuild and runFullRebuildWorker. *)
triggerFullRebuild(r) ==
  /\ pc[r] = "idle" /\ Goto(r, "lock")
  /\ UNCHANGED <<db, outbox, watermark, cache, loaded, batch, rebuilt, faults, history>>

(* ListSchedulableAccounts misses the snapshot (or cannot read it) and      *)
(* loads the list itself, without the bucket's lock.                        *)
ListSchedulableAccounts(q) ==
  /\ pc[q] = "idle"
  /\ \/ (~Active \/ meta = 0) /\ UNCHANGED faults
     \/ Fault
  /\ Goto(q, "load")
  /\ UNCHANGED <<db, outbox, watermark, cache, loaded, batch, rebuilt, history>>

(* rebuildBucket: TryLockBucket; without the lock the bucket is skipped.    *)
TryLockBucket(w) ==
  /\ pc[w] = "lock"
  /\ \/ lock = None /\ lock' = w /\ Goto(w, "load") /\ UNCHANGED <<loaded, batch, rebuilt, faults, missed>>
     \/ /\ lock # None /\ Goto(w, AfterRebuild(w)) /\ Miss
        /\ UNCHANGED <<lock, loaded, batch, rebuilt, faults>>
     \/ /\ Fault /\ UNCHANGED <<lock, missed>>
        /\ \/ w \in Pollers /\ GiveUp(w)
           \/ w \in Rebuilders /\ Goto(w, "idle") /\ UNCHANGED <<loaded, batch, rebuilt>>
  /\ UNCHANGED <<db, outbox, watermark, versions, snap, meta, newest>>

loadAccountsFromDB(w) ==
  /\ pc[w] = "load" /\ Read(w) /\ Goto(w, "version")
  /\ UNCHANGED <<db, outbox, watermark, cache, batch, rebuilt, faults, history>>

(* SetSnapshot: INCR of the version, ... *)
TakeVersion(w) ==
  /\ pc[w] = "version" /\ versions' = Append(versions, w) /\ Goto(w, "write")
  /\ UNCHANGED <<db, outbox, watermark, lock, snap, meta, loaded, batch, rebuilt, faults, history>>

(* ... the payloads of the accounts listed, ... *)
writeAccounts(w) ==
  /\ pc[w] = "write" /\ Goto(w, "activate")
  /\ meta' = IF loaded[w].state = "in" THEN loaded[w].rev ELSE meta
  /\ UNCHANGED <<db, outbox, watermark, lock, versions, snap, loaded, batch, rebuilt, faults, history>>

(* The version of v, if it has one, is gone. *)
Without(s, v) ==
  LET at == CHOOSE i \in DOMAIN s : s[i] = v
  IN  IF \E i \in DOMAIN s : s[i] = v
      THEN SubSeq(s, 1, at - 1) \o SubSeq(s, at + 1, Len(s)) ELSE s
Drop(a) == Without(versions, a)

(* The version of w becomes the active one of s. *)
Switched(s, w) == [i \in DOMAIN s |-> IF s[i] = w THEN "active" ELSE s[i]]

NewerIsActive(w) ==
  \E i, j \in DOMAIN versions : i < j /\ versions[i] = w /\ versions[j] = "active"

(* rebuildBucket's deferred UnlockBucket: the lock is deleted, whoever has   *)
(* set it.                                                                   *)
UnlockBucket(w) == lock' = IF w \in Requests THEN lock ELSE None

Activates(w) ==
  loaded[w].state = "in" /\ snap' = loaded[w].rev /\ versions' = Switched(Drop("active"), w)
Clears(w) ==
  loaded[w].state # "in" /\ snap' = 0 /\ versions' = Without(Drop("active"), w)

(* Mutant: the scripts do not compare the versions. *)
RunsRegardless(w) == Activates(w) \/ Clears(w)

(* activateSnapshotScript for a list with members, clearEmptySnapshotScript *)
(* otherwise; an older version does nothing.                                *)
RunsScript(w) ==
  \/ NewerIsActive(w) /\ versions' = Drop(w) /\ UNCHANGED snap
  \/ ~NewerIsActive(w) /\ (Activates(w) \/ Clears(w))

(* ... and the script. *)
ActivateOrClear(w) ==
  /\ pc[w] = "activate" /\ RunsScript(w)
  /\ newest' = Larger(newest,
                 Larger(IF NewerIsActive(w) THEN 0 ELSE snap,
                        IF NewerIsActive(w) \/ loaded[w].state # "in" THEN loaded[w].rev ELSE 0))
  /\ missed' = IF loaded[w].rev >= missed THEN 0 ELSE missed
  /\ Forget(w) /\ Goto(w, AfterRebuild(w))
  /\ \/ UnlockBucket(w) /\ UNCHANGED faults
     \/ w \notin Requests /\ Fault /\ UNCHANGED lock
  /\ UNCHANGED <<db, outbox, watermark, meta, batch, rebuilt>>

(* The database or Redis fails while the list is loaded or written: a       *)
(* poller's event has failed.                                               *)
RebuildFails(w) ==
  /\ pc[w] \in Locked /\ Fault
  /\ versions' = Drop(w) /\ UnlockBucket(w)
  /\ \/ w \in Pollers /\ GiveUp(w)
     \/ w \notin Pollers /\ Forget(w) /\ Goto(w, "idle") /\ UNCHANGED <<batch, rebuilt>>
  /\ UNCHANGED <<db, outbox, watermark, snap, meta, history>>

-----------------------------------------------------------------------------
(* The lock's TTL ends; its owner is then gone, or slower than its own      *)
(* time-out, which counts as a fault.                                       *)
LockExpires ==
  /\ lock # None
  /\ \/ pc[lock] \notin Locked /\ UNCHANGED faults
     \/ pc[lock] \in Locked /\ Fault
  /\ lock' = None
  /\ UNCHANGED <<db, outbox, watermark, versions, snap, meta, pc, loaded, batch, rebuilt, history>>

(* An actor's process dies; the database rolls its transaction back.        *)
Crash(a) ==
  /\ Fault /\ pc[a] # "idle" /\ Goto(a, "idle") /\ Forget(a)
  /\ versions' = Drop(a)
  /\ outbox' = [i \in DOMAIN outbox |->
                  IF pc[a] = "commit" /\ i \in batch[a] THEN "void" ELSE outbox[i]]
  /\ batch' = [b \in DOMAIN batch |-> IF b = a THEN {} ELSE batch[b]]
  /\ rebuilt' = [p \in Pollers |-> IF p = a THEN FALSE ELSE rebuilt[p]]
  /\ missed' = IF pc[a] = "enqueue" THEN db.rev ELSE missed
  /\ UNCHANGED <<db, watermark, lock, snap, meta, newest>>

-----------------------------------------------------------------------------
EditorStep(e) ==
  enqueueSchedulerOutbox(e) \/ SyncRead(e) \/ SyncWrite(e)

EndTransaction(b) == CommitTransaction(b) \/ RollbackTransaction(b)

PollerStep(p) == handleAccountEvent(p) \/ rebuildByAccount(p) \/ SetOutboxWatermark(p)

WriterStep(w) ==
  \/ TryLockBucket(w) \/ loadAccountsFromDB(w) \/ TakeVersion(w) \/ writeAccounts(w)
  \/ ActivateOrClear(w) \/ RebuildFails(w)

Next ==
  \/ \E e \in Editors : Change(e) \/ EditorStep(e)
  \/ \E b \in Billers : BeginTransaction(b) \/ EndTransaction(b)
  \/ \E p \in Pollers : pollOutbox(p) \/ PollerStep(p)
  \/ \E r \in Rebuilders : triggerFullRebuild(r)
  \/ \E q \in Requests : ListSchedulableAccounts(q)
  \/ \E w \in Writers : WriterStep(w)
  \/ \E i \in DOMAIN outbox : WindowEnds(i)
  \/ LockExpires \/ \E a \in Actors : Crash(a)

Spec == Init /\ [][Next]_vars

(* Started calls go on, pollers and rebuilders run on their tickers (a full *)
(* rebuild visits the bucket while it is registered, that is while it has   *)
(* an active version), and Redis ends a lock that nobody gives back.        *)
Fairness ==
  /\ \A e \in Editors : WF_vars(EditorStep(e))
  /\ \A b \in Billers : WF_vars(EndTransaction(b))
  /\ \A p \in Pollers : WF_vars(pollOutbox(p)) /\ WF_vars(PollerStep(p))
  /\ \A w \in Writers : WF_vars(WriterStep(w))
  /\ \A r \in Rebuilders : WF_vars(Active /\ triggerFullRebuild(r))
  /\ WF_vars(LockExpires)

FairSpec == Spec /\ Fairness

-----------------------------------------------------------------------------
(* A list older than the database is accounted for: its event is about to   *)
(* be enqueued or handled; or the change is one that the outbox may miss    *)
(* (deduplicated, overtaken by a larger id, not enqueued, its rebuild       *)
(* skipped because the bucket was locked, or because the account had left   *)
(* a mixed bucket: mixed scheduling was switched off); or newer data was    *)
(* loaded by a rebuild that overlapped with one of a newer version, or that *)
(* cleared the list.  No event is lost by a failing or dying poller or by   *)
(* two pollers that share the watermark, and of two overlapping rebuilds    *)
(* the one with the older version never wins.                               *)
StaleIsExplained ==
  Active /\ snap < db.rev =>
    \/ Pending # {} \/ \E e \in Editors : pc[e] = "enqueue"
    \/ snap < missed \/ snap < newest

(* Once the changes stop, list and payload become and stay those of the     *)
(* database, or requests miss and ask the database: the full rebuilds make  *)
(* up for everything that StaleIsExplained excuses.                         *)
Converges ==
  <>[](~Active \/ meta = 0 \/ (snap = db.rev /\ meta = db.rev))
=============================================================================
