---------------------------- MODULE OAuthRefresh ----------------------------
(***************************************************************************)
(* Refreshing the OAuth token of one account.  Background sweeps and       *)
(* request threads of several processes call RefreshIfNeeded, which takes  *)
(* a mutex of the process and a Redis lock with a TTL; an admin refreshes  *)
(* and edits the account without either.  The provider rotates refresh     *)
(* tokens: each is accepted once.  Tokens are numbered by generation; the  *)
(* refresh token, access token and expiry of one answer share a number.    *)
(***************************************************************************)
EXTENDS Naturals

CONSTANTS Sweepers,   \* TokenRefreshService goroutines, one per process
          Requests,   \* request threads in GetAccessToken
          Process,    \* the process of each of them
          Admin,      \* the admin's request
          None,
          MaxGen,     \* bound: generations of tokens
          MaxFaults   \* bound: failures of Redis, database, provider or process

Callers == Sweepers \cup Requests
Actors == Callers \cup {Admin}

ASSUME ActorAssumption ==
  /\ Sweepers \cap Requests = {} /\ Admin \notin Callers /\ None \notin Actors
  /\ DOMAIN Process = Callers /\ MaxGen \in Nat \ {0} /\ MaxFaults \in Nat

VARIABLES
  live,     \* the refresh token the provider accepts
  due,      \* generations up to this one are inside the refresh window
  db,       \* accounts row: token generation, _token_version, status
  lock,     \* the refresh lock in Redis: who set it, or None
  cached,   \* access token in the Redis token cache, or 0
  pc, copy, \* of each actor: where it is, the account it works on
  got,      \* the generation the provider gave it, not yet stored
  held,     \* lockAcquired
  outcome,  \* what RefreshIfNeeded will return
  faults,
  lost,     \* history: the live token was answered to nobody, not stored or overwritten
  broken,   \* history: refreshes overlapped, or a recovery could not read the database
  refused   \* history: the provider refused for a reason other than a spent token, or said
            \* of a spent one refresh_token_reused, from which nobody recovers

vars == <<live, due, db, lock, cached, pc, copy, got, held, outcome, faults, lost, broken, refused>>

Gen == 0..MaxGen
NoAccount == [token |-> 0, version |-> 0, status |-> "active"]
Account == {row \in [token : Gen, version : Gen, status : {"active", "error"}] :
              row.version <= row.token}

(* Between taking the lock (or doing without it) and giving it back. *)
Section == {"reread", "refresh", "recover", "persist", "release"}
(* What RefreshIfNeeded returns to the caller that got this far. *)
Outcomes == {"none", "refreshed", "already", "invalid", "failed"}
Pcs == {"idle", "mutex", "lock", "setError", "invalidate", "version", "cache",
        "manual", "manualStore", "recoverState", "edit"} \cup Section

(* Provider, row, lock, caches and actors keep their types, and no row or  *)
(* copy has a _token_version ahead of the token it came with.              *)
TypeOK ==
  /\ live \in Gen /\ due \in Gen /\ db \in Account
  /\ lock \in Callers \cup {None} /\ cached \in Gen
  /\ pc \in [Actors -> Pcs] /\ copy \in [Actors -> Account] /\ got \in [Actors -> Gen]
  /\ held \in [Callers -> BOOLEAN] /\ outcome \in [Callers -> Outcomes]
  /\ faults \in 0..MaxFaults /\ lost \in BOOLEAN /\ broken \in BOOLEAN /\ refused \in BOOLEAN

Init ==
  /\ live = 1 /\ due = 0 /\ lock = None /\ cached = 0
  /\ db = [token |-> 1, version |-> 0, status |-> "active"]
  /\ pc = [a \in Actors |-> "idle"] /\ copy = [a \in Actors |-> NoAccount]
  /\ got = [a \in Actors |-> 0] /\ held = [c \in Callers |-> FALSE]
  /\ outcome = [c \in Callers |-> "none"]
  /\ faults = 0 /\ lost = FALSE /\ broken = FALSE /\ refused = FALSE

Goto(a, label) == pc' = [pc EXCEPT ![a] = label]
(* A step that uses the copy of the account no more. *)
GoOn(a, label) == Goto(a, label) /\ copy' = [copy EXCEPT ![a] = NoAccount]
Return(a) == GoOn(a, "idle")
Fault == faults < MaxFaults /\ faults' = faults + 1
NeedsRefresh(account) == account.token <= due
InSection(a) == pc[a] \in Section
Overlaps(c) == pc[Admin] = "manualStore" \/ \E o \in Callers \ {c} : InSection(o)
Leave(c, result) == Goto(c, "release") /\ outcome' = [outcome EXCEPT ![c] = result]

-----------------------------------------------------------------------------
(* processRefresh finds an active account whose token is due. *)
BeginSweep(c) ==
  /\ pc[c] = "idle" /\ db.status = "active" /\ NeedsRefresh(db)
  /\ Goto(c, "mutex") /\ copy' = [copy EXCEPT ![c] = db]
  /\ UNCHANGED <<live, due, db, lock, cached, got, held, outcome, faults, lost, broken, refused>>

(* GetAccessToken misses the token cache. *)
BeginRequest(c) ==
  /\ pc[c] = "idle" /\ db.status = "active" /\ cached = 0
  /\ Goto(c, IF NeedsRefresh(db) THEN "mutex" ELSE "version")
  /\ copy' = [copy EXCEPT ![c] = db]
  /\ UNCHANGED <<live, due, db, lock, cached, got, held, outcome, faults, lost, broken, refused>>

(* localMu.Lock: one caller of a process at a time from here to its return. *)
TakeMutex(c) ==
  /\ pc[c] = "mutex"
  /\ \A o \in Callers \ {c} : Process[o] = Process[c] => ~InSection(o) /\ pc[o] # "lock"
  /\ Goto(c, "lock")
  /\ UNCHANGED <<live, due, db, lock, cached, copy, got, held, outcome, faults, lost, broken, refused>>

(* AcquireRefreshLock (SETNX with TTL).  An error means going on without. *)
AcquireRefreshLock(c) ==
  /\ pc[c] = "lock"
  /\ \/ /\ lock = None /\ lock' = c /\ held' = [held EXCEPT ![c] = TRUE]
        /\ UNCHANGED faults
     \/ Fault /\ UNCHANGED <<lock, held>>
  /\ Goto(c, "reread") /\ broken' = (broken \/ Overlaps(c))
  /\ UNCHANGED <<live, due, db, cached, copy, got, outcome, lost, refused>>

(* LockHeld: a sweep skips the account; a request waits, looks into the    *)
(* cache once more, and otherwise uses the token it has.                   *)
LockHeld(c) ==
  /\ pc[c] = "lock" /\ lock # None
  /\ \/ (c \in Sweepers \/ cached # 0) /\ Return(c)
     \/ c \in Requests /\ cached = 0 /\ Goto(c, "version") /\ UNCHANGED copy
  /\ UNCHANGED <<live, due, db, lock, cached, got, held, outcome, faults, lost, broken, refused>>

(* The account is read again; when that fails the caller's copy is used. *)
(* Nothing is done if it is no longer due.                               *)
Reread(c) ==
  /\ pc[c] = "reread"
  /\ \/ copy' = [copy EXCEPT ![c] = db] /\ UNCHANGED faults
     \/ Fault /\ UNCHANGED copy
  /\ \/ NeedsRefresh(copy'[c]) /\ Goto(c, "refresh") /\ UNCHANGED outcome
     \/ ~NeedsRefresh(copy'[c]) /\ Leave(c, "already")
  /\ UNCHANGED <<live, due, db, lock, cached, got, held, lost, broken, refused>>

(* The provider spends the token and issues the next, refuses a spent one  *)
(* (invalid_grant), fails, or spends it and its answer is lost.  It may    *)
(* also refuse any token: a withdrawn grant is an invalid_grant, which     *)
(* goes through the recovery; invalid_client, access_denied,               *)
(* refresh_token_reused and the others of IsNonRetryableRefreshError are   *)
(* final at once.                                                          *)
Refresh(c) ==
  /\ pc[c] = "refresh"
  /\ \/ /\ copy[c].token = live /\ live' = live + 1
        /\ got' = [got EXCEPT ![c] = live + 1] /\ Goto(c, "persist")
        /\ UNCHANGED <<outcome, faults, lost, refused>>
     \/ /\ copy[c].token # live /\ Goto(c, "recover")
        /\ UNCHANGED <<live, got, outcome, faults, lost, refused>>
     \/ Fault /\ Leave(c, "failed") /\ UNCHANGED <<live, got, lost, refused>>
     \/ /\ Fault /\ copy[c].token = live /\ live' = live + 1 /\ lost' = TRUE
        /\ Leave(c, "failed") /\ UNCHANGED <<got, refused>>
     \/ /\ refused' = TRUE
        /\ (Leave(c, "invalid") \/ (Goto(c, "recover") /\ UNCHANGED outcome))
        /\ UNCHANGED <<live, got, faults, lost>>
  /\ UNCHANGED <<due, db, lock, cached, copy, held, broken>>

(* Mutant: every invalid_grant is the account's fault. *)
NoRecovery(c) ==
  /\ pc[c] = "recover" /\ Leave(c, "invalid")
  /\ UNCHANGED <<live, due, db, lock, cached, copy, got, held, faults, lost, broken, refused>>

(* tryRecoverFromRefreshRace: another refresh token in the database means  *)
(* that somebody else has refreshed.                                       *)
tryRecoverFromRefreshRace(c) ==
  /\ pc[c] = "recover"
  /\ \/ /\ db.token # copy[c].token /\ copy' = [copy EXCEPT ![c] = db]
        /\ Leave(c, "already") /\ UNCHANGED <<faults, broken>>
     \/ db.token = copy[c].token /\ Leave(c, "invalid") /\ UNCHANGED <<copy, faults, broken>>
     \/ Fault /\ broken' = TRUE /\ Leave(c, "invalid") /\ UNCHANGED copy
  /\ UNCHANGED <<live, due, db, lock, cached, got, held, lost, refused>>

(* Mutant: the old credentials win the merge. *)
MergedKeepsOld(account, token) == [account EXCEPT !.version = token]

(* The credentials a refresh stores: new token, new _token_version. *)
Merged(account, token) == [account EXCEPT !.token = token, !.version = token]

(* persistAccountCredentials: an unconditional UPDATE of the credentials. *)
Persist(c) ==
  /\ pc[c] = "persist"
  /\ \/ /\ db' = Merged(db, got[c]) /\ copy' = [copy EXCEPT ![c] = Merged(@, got[c])]
        /\ Leave(c, "refreshed") /\ UNCHANGED <<faults, lost>>
     \/ Fault /\ lost' = TRUE /\ Leave(c, "failed") /\ UNCHANGED <<db, copy>>
  /\ got' = [got EXCEPT ![c] = 0]
  /\ UNCHANGED <<live, due, lock, cached, held, broken, refused>>

(* The caller's next step after RefreshIfNeeded.  A sweep marks an account *)
(* whose error is not retryable, retries what may pass or gives up for     *)
(* this round; a request goes on with its token.                           *)
Continue(c) ==
  \/ c \in Requests /\ Goto(c, "version") /\ UNCHANGED copy
  \/ c \in Sweepers /\ outcome[c] = "failed" /\ Goto(c, "mutex") /\ UNCHANGED copy
  \/ c \in Sweepers /\ outcome[c] = "refreshed" /\ GoOn(c, "invalidate")
  \/ c \in Sweepers /\ outcome[c] = "invalid" /\ GoOn(c, "setError")
  \/ c \in Sweepers /\ outcome[c] \in {"already", "failed"} /\ Return(c)

(* ReleaseRefreshLock deletes the key, whoever has set it; its error is    *)
(* ignored.                                                                *)
Release(c) ==
  /\ pc[c] = "release"
  /\ \/ lock' = (IF held[c] THEN None ELSE lock) /\ UNCHANGED faults
     \/ held[c] /\ Fault /\ UNCHANGED lock
  /\ held' = [held EXCEPT ![c] = FALSE]
  /\ Continue(c) /\ outcome' = [outcome EXCEPT ![c] = "none"]
  /\ UNCHANGED <<live, due, db, cached, got, lost, broken, refused>>

(* SetError: the account leaves the sweeps and the scheduler. *)
SetError(a) ==
  /\ pc[a] = "setError"
  /\ \/ db' = [db EXCEPT !.status = "error"] /\ UNCHANGED faults
     \/ Fault /\ UNCHANGED db
  /\ Return(a)
  /\ UNCHANGED <<live, due, lock, cached, got, held, outcome, lost, broken, refused>>

(* postRefreshActions: the cached access token is deleted. *)
InvalidateToken(c) ==
  /\ pc[c] = "invalidate"
  /\ \/ cached' = 0 /\ UNCHANGED faults
     \/ Fault /\ UNCHANGED cached
  /\ Return(c)
  /\ UNCHANGED <<live, due, db, lock, got, held, outcome, lost, broken, refused>>

(* CheckTokenVersion: a request whose account is outdated uses the newer   *)
(* one and leaves the cache alone.                                         *)
CheckTokenVersion(c) ==
  /\ pc[c] = "version"
  /\ \/ db.version > copy[c].version /\ Return(c) /\ UNCHANGED faults
     \/ db.version <= copy[c].version /\ Goto(c, "cache") /\ UNCHANGED <<copy, faults>>
     \/ Fault /\ Goto(c, "cache") /\ UNCHANGED copy
  /\ UNCHANGED <<live, due, db, lock, cached, got, held, outcome, lost, broken, refused>>

SetAccessToken(c) ==
  /\ pc[c] = "cache"
  /\ cached' = copy[c].token
  /\ Return(c)
  /\ UNCHANGED <<live, due, db, lock, got, held, outcome, faults, lost, broken, refused>>

-----------------------------------------------------------------------------
(* The admin refreshes by hand: no lock, no second read, no recovery.  Any *)
(* non-retryable error marks the account (persistManualRefreshFailureState). *)
BeginManual ==
  /\ pc[Admin] = "idle"
  /\ Goto(Admin, "manual") /\ copy' = [copy EXCEPT ![Admin] = db]
  /\ UNCHANGED <<live, due, db, lock, cached, got, held, outcome, faults, lost, broken, refused>>

refreshSingleAccount ==
  /\ pc[Admin] = "manual"
  /\ \/ /\ copy[Admin].token = live /\ live < MaxGen /\ live' = live + 1
        /\ got' = [got EXCEPT ![Admin] = live + 1] /\ Goto(Admin, "manualStore")
        /\ UNCHANGED <<copy, faults, lost, refused>>
     \/ /\ copy[Admin].token # live /\ GoOn(Admin, "setError")
        /\ UNCHANGED <<live, got, faults, lost, refused>>
     \/ Fault /\ Return(Admin) /\ UNCHANGED <<live, got, lost, refused>>
     \/ /\ Fault /\ copy[Admin].token = live /\ live < MaxGen /\ live' = live + 1
        /\ lost' = TRUE /\ Return(Admin) /\ UNCHANGED <<got, refused>>
     \/ /\ refused' = TRUE /\ GoOn(Admin, "setError")
        /\ UNCHANGED <<live, got, faults, lost>>
  /\ broken' = (broken \/ copy[Admin].token # db.token \/ \E c \in Callers : InSection(c))
  /\ UNCHANGED <<due, db, lock, cached, held, outcome>>

(* UpdateAccount with the new credentials; _token_version stays the old one. *)
ManualStore ==
  /\ pc[Admin] = "manualStore"
  /\ \/ /\ db' = [db EXCEPT !.token = got[Admin], !.version = copy[Admin].version]
        /\ GoOn(Admin, "recoverState") /\ UNCHANGED <<faults, lost>>
     \/ Fault /\ lost' = TRUE /\ Return(Admin) /\ UNCHANGED db
  /\ got' = [got EXCEPT ![Admin] = 0]
  /\ UNCHANGED <<live, due, lock, cached, held, outcome, broken, refused>>

(* InvalidateToken and RecoverAccountState. *)
RecoverAccountState ==
  /\ pc[Admin] = "recoverState"
  /\ cached' = 0
  /\ db' = [db EXCEPT !.status = "active"]
  /\ Return(Admin)
  /\ UNCHANGED <<live, due, lock, got, held, outcome, faults, lost, broken, refused>>

(* Any other edit: UpdateAccount reads the row and writes all its columns. *)
BeginEdit ==
  /\ pc[Admin] = "idle"
  /\ Goto(Admin, "edit") /\ copy' = [copy EXCEPT ![Admin] = db]
  /\ UNCHANGED <<live, due, db, lock, cached, got, held, outcome, faults, lost, broken, refused>>

UpdateAccount ==
  /\ pc[Admin] = "edit"
  /\ db' = copy[Admin] /\ lost' = (lost \/ db.token # copy[Admin].token)
  /\ Return(Admin)
  /\ UNCHANGED <<live, due, lock, cached, got, held, outcome, faults, broken, refused>>

-----------------------------------------------------------------------------
(* Time brings the newest token into the refresh window. *)
Age ==
  /\ due < live /\ live < MaxGen
  /\ due' = live
  /\ UNCHANGED <<live, db, lock, cached, pc, copy, got, held, outcome, faults, lost, broken, refused>>

(* Mutant: the lock is set without a TTL. *)
LockStays == FALSE /\ UNCHANGED vars

(* The lock's TTL ends; that its owner is still refreshing takes a slow     *)
(* provider (its time-out equals the TTL) and counts as a fault.            *)
LockExpires ==
  /\ lock # None
  /\ \/ ~InSection(lock) /\ UNCHANGED faults
     \/ InSection(lock) /\ Fault
  /\ lock' = None
  /\ UNCHANGED <<live, due, db, cached, pc, copy, got, held, outcome, lost, broken, refused>>

(* The TTL of the cached access token ends. *)
CacheExpires ==
  /\ cached # 0 /\ cached' = 0
  /\ UNCHANGED <<live, due, db, lock, pc, copy, got, held, outcome, faults, lost, broken, refused>>

(* A process dies; a token it has not stored is lost. *)
Crash(p) ==
  /\ Fault
  /\ LET dead == {c \in Callers : Process[c] = p} IN
       /\ pc' = [a \in Actors |-> IF a \in dead THEN "idle" ELSE pc[a]]
       /\ copy' = [a \in Actors |-> IF a \in dead THEN NoAccount ELSE copy[a]]
       /\ got' = [a \in Actors |-> IF a \in dead THEN 0 ELSE got[a]]
       /\ held' = [c \in Callers |-> IF c \in dead THEN FALSE ELSE held[c]]
       /\ outcome' = [c \in Callers |-> IF c \in dead THEN "none" ELSE outcome[c]]
       /\ lost' = (lost \/ \E c \in dead : pc[c] = "persist")
  /\ UNCHANGED <<live, due, db, lock, cached, broken, refused>>

-----------------------------------------------------------------------------
CallerStep(c) ==
  \/ AcquireRefreshLock(c) \/ LockHeld(c) \/ Reread(c) \/ Refresh(c)
  \/ tryRecoverFromRefreshRace(c) \/ Persist(c) \/ Release(c)

AfterRefresh(c) ==
  \/ SetError(c) \/ InvalidateToken(c) \/ CheckTokenVersion(c) \/ SetAccessToken(c)

AdminStep ==
  \/ BeginManual \/ refreshSingleAccount \/ ManualStore \/ RecoverAccountState
  \/ SetError(Admin) \/ BeginEdit \/ UpdateAccount

Next ==
  \/ \E c \in Sweepers : BeginSweep(c)
  \/ \E c \in Requests : BeginRequest(c)
  \/ \E c \in Callers : TakeMutex(c) \/ CallerStep(c) \/ AfterRefresh(c)
  \/ AdminStep \/ Age \/ LockExpires \/ CacheExpires
  \/ \E p \in {Process[c] : c \in Callers} : Crash(p)

Spec == Init /\ [][Next]_vars

(* Sweeps run on their ticker, a started call goes on, a Go mutex starves   *)
(* nobody, and Redis ends a lock that nobody gives back.                    *)
Fairness ==
  /\ \A c \in Sweepers : WF_vars(BeginSweep(c))
  /\ \A c \in Callers : WF_vars(CallerStep(c) \/ AfterRefresh(c)) /\ SF_vars(TakeMutex(c))
  /\ WF_vars(LockExpires)

FairSpec == Spec /\ Fairness

-----------------------------------------------------------------------------
(* The database has the refresh token that the provider accepts, or the    *)
(* one caller who holds it is about to store it - even when the lock has   *)
(* expired, was deleted by another caller or could not be taken, since     *)
(* only the newest token can be exchanged.  It is lost only if an answer   *)
(* or an UPDATE failed, a process died in between, or an admin's edit      *)
(* wrote an old row back.                                                  *)
LiveTokenKept ==
  \/ lost
  \/ db.token = live
  \/ \E a \in Actors : pc[a] \in {"persist", "manualStore"} /\ got[a] = live

(* An account is marked as failed only if its token was really lost, the   *)
(* provider refused it for more than being spent, refreshes overlapped, an *)
(* admin worked on an old copy, or the recovery could not read the         *)
(* database: a race lost with invalid_grant, a stale copy after a failed   *)
(* re-read or a held lock alone never cost an account.  A race lost with   *)
(* refresh_token_reused does, and counts among the refusals.               *)
ErrorIsDeserved == db.status = "error" => lost \/ broken \/ refused

(* A token that is due does not stay so: it is refreshed, or the account   *)
(* marked for the admin, whatever process died holding the lock.           *)
DueIsHandled ==
  (db.status = "active" /\ NeedsRefresh(db)) ~> (db.status = "error" \/ ~NeedsRefresh(db))
=============================================================================
