------------------------- MODULE OAuthRefreshProofs -------------------------
(***************************************************************************)
(* OAuthRefresh for any number of processes, sweeps and requests.  The     *)
(* inductive invariant adds three parts:                                   *)
(*   AgeInv   no copy is newer than the provider's token, and who is about *)
(*            to exchange a token found it due; a refused one is an old    *)
(*            one unless the provider had another reason;                  *)
(*   KeepInv  until a token is lost, whoever is about to store the newest  *)
(*            is alone in having it, and otherwise the database has it;    *)
(*   RaceInv  while nothing was lost, overlapped or refused, one caller at *)
(*            a time is in the section, without the admin, and nobody has  *)
(*            reason to mark the account.                                  *)
(***************************************************************************)
EXTENDS OAuthRefresh, TLAPS

Storing(a) == pc[a] \in {"persist", "manualStore"}

AgeInv ==
  /\ due <= live /\ (due = live => live < MaxGen)
  /\ db.token <= live
  /\ \A a \in Actors : copy[a].token <= live /\ got[a] <= live
  /\ \A c \in Callers : pc[c] = "refresh" => copy[c].token <= due
  /\ \A c \in Callers : pc[c] = "recover" => refused \/ copy[c].token # live
  /\ \A c \in Callers : pc[c] # "manualStore" /\ pc[c] # "manual"
  /\ ~InSection(Admin)
  /\ pc[Admin] = "manualStore" => copy[Admin].token <= got[Admin]

KeepInv ==
  ~lost =>
    /\ (\A a \in Actors : ~Storing(a)) => db.token = live
    /\ \A a \in Actors : Storing(a) =>
         /\ got[a] = live /\ db.token # live
         /\ \A b \in Actors : copy[b].token # live /\ (Storing(b) => b = a)

RaceInv ==
  ~lost /\ ~broken /\ ~refused =>
    /\ db.status = "active"
    /\ \A a \in Actors : copy[a].status = "active" /\ pc[a] # "setError"
    /\ \A c \in Callers : outcome[c] # "invalid"
    /\ \A c, d \in Callers : InSection(c) /\ InSection(d) => c = d
    /\ \A c \in Callers : InSection(c) => pc[Admin] # "manualStore"

IInv == TypeOK /\ AgeInv /\ KeepInv /\ RaceInv

USE ActorAssumption
USE DEF IInv, TypeOK, AgeInv, KeepInv, RaceInv, Storing, Callers, Actors, Gen, NoAccount,
        Account, Section, Outcomes, Pcs, Goto, Return, Fault, NeedsRefresh, InSection,
        Overlaps, Leave, GoOn

-----------------------------------------------------------------------------

\* A row whose token and version are replaced keeps its status.
LEMMA EditedRow ==
  ASSUME NEW row \in Account, NEW t \in Gen, NEW v \in Gen, v <= t
  PROVE  LET new == [row EXCEPT !.token = t, !.version = v]
         IN  new \in Account /\ new.token = t /\ new.status = row.status
<1> DEFINE new == [row EXCEPT !.token = t, !.version = v]
<1>1. row \in [token : Gen, version : Gen, status : {"active", "error"}]
  OBVIOUS
<1>2. new \in [token : Gen, version : Gen, status : {"active", "error"}]
  BY <1>1
<1>3. new.token = t /\ new.version = v /\ new.status = row.status
  BY <1>1
<1> HIDE DEF new
<1> QED
  BY <1>2, <1>3

\* The invariant holds with the first token stored and everybody idle.
LEMMA InitHolds == Init => IInv
<1> HAVE Init
<1>1. TypeOK
  <2>1. db \in Account /\ NoAccount \in Account
    BY DEF Init
  <2>2. pc \in [Actors -> Pcs] /\ got \in [Actors -> Gen]
    BY DEF Init
  <2>3. copy \in [Actors -> Account]
    BY Zenon, <2>1 DEF Init
  <2>4. held \in [Callers -> BOOLEAN] /\ lost \in BOOLEAN /\ broken \in BOOLEAN /\ refused \in BOOLEAN
    BY Zenon DEF Init
  <2>5. outcome \in [Callers -> Outcomes]
    BY DEF Init
  <2>6. live \in Gen /\ due \in Gen /\ lock \in Callers \cup {None} /\ cached \in Gen
        /\ faults \in 0..MaxFaults
    BY DEF Init
  <2> QED
    BY Zenon, <2>1, <2>2, <2>3, <2>4, <2>5, <2>6
<1>2. AgeInv
  BY DEF Init
<1>3. KeepInv
  BY DEF Init
<1>4. RaceInv
  BY DEF Init
<1> QED
  BY <1>1, <1>2, <1>3, <1>4

\* A copy of the row is no newer than the row.
LEMMA BeginSweepKeeps ==
  ASSUME IInv, NEW c \in Sweepers, BeginSweep(c)
  PROVE  IInv'
<1>1. TypeOK'
  BY DEF BeginSweep
<1>2. AgeInv'
  BY DEF BeginSweep
<1>3. KeepInv'
  BY DEF BeginSweep
<1>4. RaceInv'
  BY DEF BeginSweep
<1> QED
  BY <1>1, <1>2, <1>3, <1>4

\* A copy of the row is no newer than the row.
LEMMA BeginRequestKeeps ==
  ASSUME IInv, NEW c \in Requests, BeginRequest(c)
  PROVE  IInv'
<1>1. TypeOK'
  BY DEF BeginRequest
<1>2. AgeInv'
  BY DEF BeginRequest
<1>3. KeepInv'
  BY DEF BeginRequest
<1>4. RaceInv'
  BY DEF BeginRequest
<1> QED
  BY <1>1, <1>2, <1>3, <1>4

\* The mutex moves its owner only.
LEMMA TakeMutexKeeps ==
  ASSUME IInv, NEW c \in Callers, TakeMutex(c)
  PROVE  IInv'
<1>1. TypeOK'
  BY DEF TakeMutex
<1>2. AgeInv'
  BY DEF TakeMutex
<1>3. KeepInv'
  BY DEF TakeMutex
<1>4. RaceInv'
  BY DEF TakeMutex
<1> QED
  BY <1>1, <1>2, <1>3, <1>4

\* Entering beside another caller or the admin counts as an overlap.
LEMMA AcquireRefreshLockKeeps ==
  ASSUME IInv, NEW c \in Callers, AcquireRefreshLock(c)
  PROVE  IInv'
<1>1. TypeOK'
  <2>1. broken' \in BOOLEAN
    BY Zenon DEF AcquireRefreshLock
  <2>2. pc' \in [Actors -> Pcs]
    BY DEF AcquireRefreshLock
  <2>3. lock' \in Callers \cup {None} /\ held' \in [Callers -> BOOLEAN] /\ faults' \in 0..MaxFaults
    <3>1. CASE UNCHANGED faults
      BY <3>1 DEF AcquireRefreshLock
    <3>2. CASE Fault /\ UNCHANGED <<lock, held>>
      BY <3>2
    <3> QED
      BY Zenon, <3>1, <3>2 DEF AcquireRefreshLock
  <2>4. UNCHANGED <<live, due, db, cached, copy, got, outcome, lost, refused>>
    BY DEF AcquireRefreshLock
  <2> QED
    BY <2>1, <2>2, <2>3, <2>4
<1>2. AgeInv'
  BY DEF AcquireRefreshLock
<1>3. KeepInv'
  BY DEF AcquireRefreshLock
<1>4. RaceInv'
  BY DEF AcquireRefreshLock
<1> QED
  BY <1>1, <1>2, <1>3, <1>4

\* Who finds the lock held changes nothing shared.
LEMMA LockHeldKeeps ==
  ASSUME IInv, NEW c \in Callers, LockHeld(c)
  PROVE  IInv'
<1>1. TypeOK'
  BY DEF LockHeld
<1>2. AgeInv'
  BY DEF LockHeld
<1>3. KeepInv'
  BY DEF LockHeld
<1>4. RaceInv'
  BY DEF LockHeld
<1> QED
  BY <1>1, <1>2, <1>3, <1>4

\* Only a copy that is due goes on to the provider.
LEMMA RereadKeeps ==
  ASSUME IInv, NEW c \in Callers, Reread(c)
  PROVE  IInv'
<1>1. TypeOK'
  BY DEF Reread
<1>2. AgeInv'
  BY DEF Reread
<1>3. KeepInv'
  BY DEF Reread
<1>4. RaceInv'
  BY DEF Reread
<1> QED
  BY <1>1, <1>2, <1>3, <1>4

\* Only the newest token is exchanged, when nobody else is storing.
LEMMA RefreshKeeps ==
  ASSUME IInv, NEW c \in Callers, Refresh(c)
  PROVE  IInv'
<1>1. TypeOK'
  <2>1. CASE copy[c].token = live
    <3>1. live + 1 \in Gen
      BY <2>1 DEF Refresh
    <3>2. live' \in Gen /\ got' \in [Actors -> Gen]
      BY <3>1 DEF Refresh
    <3>3. pc' \in [Actors -> Pcs] /\ outcome' \in [Callers -> Outcomes] /\ faults' \in 0..MaxFaults
      BY <2>1 DEF Refresh
    <3>4. lost' \in BOOLEAN /\ refused' \in BOOLEAN
      BY Zenon DEF Refresh
    <3>5. UNCHANGED <<due, db, lock, cached, copy, held, broken>>
      BY DEF Refresh
    <3> QED
      BY <3>2, <3>3, <3>4, <3>5
  <2>2. CASE copy[c].token # live
    <3>1. UNCHANGED <<live, due, db, lock, cached, copy, held, got, broken>>
      BY <2>2 DEF Refresh
    <3>2. pc' \in [Actors -> Pcs] /\ outcome' \in [Callers -> Outcomes] /\ faults' \in 0..MaxFaults
      BY <2>2 DEF Refresh
    <3>3. lost' \in BOOLEAN /\ refused' \in BOOLEAN
      BY Zenon DEF Refresh
    <3> QED
      BY <3>1, <3>2, <3>3
  <2> QED
    BY <2>1, <2>2
<1>2. AgeInv'
  BY DEF Refresh
<1>3. KeepInv'
  BY DEF Refresh
<1>4. RaceInv'
  BY DEF Refresh
<1> QED
  BY <1>1, <1>2, <1>3, <1>4

\* Alone in the section, the refused caller finds a newer row.
LEMMA TryRecoverFromRefreshRaceKeeps ==
  ASSUME IInv, NEW c \in Callers, tryRecoverFromRefreshRace(c)
  PROVE  IInv'
<1>1. TypeOK'
  <2>1. broken' \in BOOLEAN
    BY Zenon DEF tryRecoverFromRefreshRace
  <2> QED
    BY <2>1 DEF tryRecoverFromRefreshRace
<1>2. AgeInv'
  BY DEF tryRecoverFromRefreshRace
<1>3. KeepInv'
  BY DEF tryRecoverFromRefreshRace
<1>4. RaceInv'
  BY DEF tryRecoverFromRefreshRace
<1> QED
  BY <1>1, <1>2, <1>3, <1>4

\* The newest token reaches the database.
LEMMA PersistKeeps ==
  ASSUME IInv, NEW c \in Callers, Persist(c)
  PROVE  IInv'
<1> DEFINE row == Merged(db, got[c])
           mine == Merged(copy[c], got[c])
<1>1. row \in Account /\ row.token = got[c] /\ row.status = db.status
  <2>1. db \in Account /\ got[c] \in Gen /\ got[c] <= got[c]
    OBVIOUS
  <2> QED
    BY Zenon, <2>1, EditedRow DEF Merged
<1>2. mine \in Account /\ mine.token = got[c] /\ mine.status = copy[c].status
  <2>1. copy[c] \in Account /\ got[c] \in Gen /\ got[c] <= got[c]
    OBVIOUS
  <2> QED
    BY Zenon, <2>1, EditedRow DEF Merged
<1>3. got'[c] = 0 /\ \A a \in Actors \ {c} : got'[a] = got[a]
  BY DEF Persist
<1> HIDE DEF row, mine
<1>4. CASE db' = row /\ copy' = [copy EXCEPT ![c] = mine] /\ Leave(c, "refreshed") /\ UNCHANGED <<faults, lost>>
  <2>1. TypeOK'
    BY <1>1, <1>2, <1>4 DEF Persist
  <2>2. AgeInv'
    BY <1>1, <1>2, <1>4 DEF Persist
  <2>3. KeepInv'
    BY <1>1, <1>2, <1>3, <1>4 DEF Persist
  <2>4. RaceInv'
    BY <1>1, <1>2, <1>4 DEF Persist
  <2> QED
    BY <2>1, <2>2, <2>3, <2>4
<1>5. CASE Fault /\ lost' = TRUE /\ Leave(c, "failed") /\ UNCHANGED <<db, copy>>
  <2>1. TypeOK'
    BY <1>5 DEF Persist
  <2>2. AgeInv'
    BY <1>5 DEF Persist
  <2>3. KeepInv' /\ RaceInv'
    BY <1>5 DEF Persist
  <2> QED
    BY <2>1, <2>2, <2>3
<1> QED
  BY <1>4, <1>5 DEF Persist, row, mine

\* Only a caller told "invalid" goes on to mark the account.
LEMMA ReleaseKeeps ==
  ASSUME IInv, NEW c \in Callers, Release(c)
  PROVE  IInv'
<1>1. TypeOK'
  BY DEF Release, Continue
<1>2. AgeInv'
  BY DEF Release, Continue
<1>3. KeepInv'
  BY DEF Release, Continue
<1>4. RaceInv'
  BY DEF Release, Continue
<1> QED
  BY <1>1, <1>2, <1>3, <1>4

\* Nobody gets here unless a token was lost or refused or refreshes overlapped.
LEMMA SetErrorKeeps ==
  ASSUME IInv, NEW c \in Actors, SetError(c)
  PROVE  IInv'
<1>1. TypeOK'
  BY DEF SetError
<1>2. AgeInv'
  BY DEF SetError
<1>3. KeepInv'
  BY DEF SetError
<1>4. RaceInv'
  BY DEF SetError
<1> QED
  BY <1>1, <1>2, <1>3, <1>4

\* The token cache is not the database.
LEMMA InvalidateTokenKeeps ==
  ASSUME IInv, NEW c \in Callers, InvalidateToken(c)
  PROVE  IInv'
<1>1. TypeOK'
  BY DEF InvalidateToken
<1>2. AgeInv'
  BY DEF InvalidateToken
<1>3. KeepInv'
  BY DEF InvalidateToken
<1>4. RaceInv'
  BY DEF InvalidateToken
<1> QED
  BY <1>1, <1>2, <1>3, <1>4

\* Comparing versions changes nothing shared.
LEMMA CheckTokenVersionKeeps ==
  ASSUME IInv, NEW c \in Callers, CheckTokenVersion(c)
  PROVE  IInv'
<1>1. TypeOK'
  BY DEF CheckTokenVersion
<1>2. AgeInv'
  BY DEF CheckTokenVersion
<1>3. KeepInv'
  BY DEF CheckTokenVersion
<1>4. RaceInv'
  BY DEF CheckTokenVersion
<1> QED
  BY <1>1, <1>2, <1>3, <1>4

\* The token cache is not the database.
LEMMA SetAccessTokenKeeps ==
  ASSUME IInv, NEW c \in Callers, SetAccessToken(c)
  PROVE  IInv'
<1>1. TypeOK'
  BY DEF SetAccessToken
<1>2. AgeInv'
  BY DEF SetAccessToken
<1>3. KeepInv'
  BY DEF SetAccessToken
<1>4. RaceInv'
  BY DEF SetAccessToken
<1> QED
  BY <1>1, <1>2, <1>3, <1>4

\* A copy of the row is no newer than the row.
LEMMA BeginManualKeeps ==
  ASSUME IInv, BeginManual
  PROVE  IInv'
<1>1. TypeOK'
  BY DEF BeginManual
<1>2. AgeInv'
  BY DEF BeginManual
<1>3. KeepInv'
  BY DEF BeginManual
<1>4. RaceInv'
  BY DEF BeginManual
<1> QED
  BY <1>1, <1>2, <1>3, <1>4

\* The admin exchanges the newest token, or worked on an old copy.
LEMMA RefreshSingleAccountKeeps ==
  ASSUME IInv, refreshSingleAccount
  PROVE  IInv'
<1>1. TypeOK'
  <2>1. broken' \in BOOLEAN
    BY Zenon DEF refreshSingleAccount
  <2>2. live' \in Gen /\ got' \in [Actors -> Gen]
    BY DEF refreshSingleAccount
  <2>3. pc' \in [Actors -> Pcs] /\ copy' \in [Actors -> Account] /\ faults' \in 0..MaxFaults
    BY DEF refreshSingleAccount
  <2>4. lost' \in BOOLEAN /\ refused' \in BOOLEAN
    BY Zenon DEF refreshSingleAccount
  <2>5. UNCHANGED <<due, db, lock, cached, held, outcome>>
    BY DEF refreshSingleAccount
  <2> QED
    BY <2>1, <2>2, <2>3, <2>4, <2>5
<1>2. AgeInv'
  BY DEF refreshSingleAccount
<1>3. KeepInv'
  BY DEF refreshSingleAccount
<1>4. RaceInv'
  <2> HAVE ~lost' /\ ~broken' /\ ~refused'
  <2>1. ~broken /\ copy[Admin].token = db.token /\ \A c \in Callers : ~InSection(c)
    BY Zenon DEF refreshSingleAccount
  <2>2. ~lost /\ ~refused
    BY Zenon DEF refreshSingleAccount
  <2>3. \A a \in Actors : ~Storing(a)
    BY <2>1 DEF refreshSingleAccount
  <2>4. copy[Admin].token = live
    BY <2>1, <2>2, <2>3
  <2> QED
    BY <2>1, <2>2, <2>4 DEF refreshSingleAccount
<1> QED
  BY <1>1, <1>2, <1>3, <1>4

\* The newest token reaches the database.
LEMMA ManualStoreKeeps ==
  ASSUME IInv, ManualStore
  PROVE  IInv'
<1> DEFINE row == [db EXCEPT !.token = got[Admin], !.version = copy[Admin].version]
<1>1. row \in Account /\ row.token = got[Admin] /\ row.status = db.status
  <2>1. db \in Account /\ got[Admin] \in Gen /\ copy[Admin].version \in Gen
    OBVIOUS
  <2>2. copy[Admin].version <= got[Admin]
    BY DEF ManualStore
  <2> QED
    BY Zenon, <2>1, <2>2, EditedRow
<1>2. got'[Admin] = 0 /\ \A a \in Actors \ {Admin} : got'[a] = got[a]
  BY DEF ManualStore
<1> HIDE DEF row
<1>3. CASE db' = row /\ GoOn(Admin, "recoverState") /\ UNCHANGED <<faults, lost>>
  <2>1. TypeOK'
    BY <1>1, <1>3 DEF ManualStore
  <2>2. AgeInv'
    BY <1>1, <1>3 DEF ManualStore
  <2>3. KeepInv'
    BY <1>1, <1>2, <1>3 DEF ManualStore
  <2>4. RaceInv'
    BY <1>1, <1>3 DEF ManualStore
  <2> QED
    BY <2>1, <2>2, <2>3, <2>4
<1>4. CASE Fault /\ lost' = TRUE /\ Return(Admin) /\ UNCHANGED db
  <2>1. TypeOK'
    BY <1>4 DEF ManualStore
  <2>2. AgeInv'
    BY <1>4 DEF ManualStore
  <2>3. KeepInv' /\ RaceInv'
    BY <1>4 DEF ManualStore
  <2> QED
    BY <2>1, <2>2, <2>3
<1> QED
  BY <1>3, <1>4 DEF ManualStore, row

\* Clearing the error keeps the token.
LEMMA RecoverAccountStateKeeps ==
  ASSUME IInv, RecoverAccountState
  PROVE  IInv'
<1>1. TypeOK'
  BY DEF RecoverAccountState
<1>2. AgeInv'
  BY DEF RecoverAccountState
<1>3. KeepInv'
  BY DEF RecoverAccountState
<1>4. RaceInv'
  BY DEF RecoverAccountState
<1> QED
  BY <1>1, <1>2, <1>3, <1>4

\* A copy of the row is no newer than the row.
LEMMA BeginEditKeeps ==
  ASSUME IInv, BeginEdit
  PROVE  IInv'
<1>1. TypeOK'
  BY DEF BeginEdit
<1>2. AgeInv'
  BY DEF BeginEdit
<1>3. KeepInv'
  BY DEF BeginEdit
<1>4. RaceInv'
  BY DEF BeginEdit
<1> QED
  BY <1>1, <1>2, <1>3, <1>4

\* An edit that writes an older token back loses the newest.
LEMMA UpdateAccountKeeps ==
  ASSUME IInv, UpdateAccount
  PROVE  IInv'
<1>1. TypeOK'
  BY DEF UpdateAccount
<1>2. AgeInv'
  BY DEF UpdateAccount
<1>3. KeepInv'
  <2> HAVE ~lost'
  <2>1. ~lost /\ db.token = copy[Admin].token
    BY Zenon DEF UpdateAccount
  <2>2. db'.token = db.token /\ live' = live /\ got' = got
    BY <2>1 DEF UpdateAccount
  <2>3. \A a \in Actors : Storing(a)' <=> Storing(a)
    BY DEF UpdateAccount
  <2>4. \A a \in Actors : copy'[a].token = copy[a].token \/ copy'[a].token = 0
    BY DEF UpdateAccount
  <2> QED
    BY <2>1, <2>2, <2>3, <2>4
<1>4. RaceInv'
  BY DEF UpdateAccount
<1> QED
  BY <1>1, <1>2, <1>3, <1>4

\* A token becomes due only if another generation can follow.
LEMMA AgeKeeps ==
  ASSUME IInv, Age
  PROVE  IInv'
<1>1. TypeOK'
  BY DEF Age
<1>2. AgeInv'
  BY DEF Age
<1>3. KeepInv'
  BY DEF Age
<1>4. RaceInv'
  BY DEF Age
<1> QED
  BY <1>1, <1>2, <1>3, <1>4

\* The lock protects no part of the invariant.
LEMMA LockExpiresKeeps ==
  ASSUME IInv, LockExpires
  PROVE  IInv'
<1>1. TypeOK'
  BY DEF LockExpires
<1>2. AgeInv'
  BY DEF LockExpires
<1>3. KeepInv'
  BY DEF LockExpires
<1>4. RaceInv'
  BY DEF LockExpires
<1> QED
  BY <1>1, <1>2, <1>3, <1>4

\* The token cache is not the database.
LEMMA CacheExpiresKeeps ==
  ASSUME IInv, CacheExpires
  PROVE  IInv'
<1>1. TypeOK'
  BY DEF CacheExpires
<1>2. AgeInv'
  BY DEF CacheExpires
<1>3. KeepInv'
  BY DEF CacheExpires
<1>4. RaceInv'
  BY DEF CacheExpires
<1> QED
  BY <1>1, <1>2, <1>3, <1>4

\* A process that dies before storing loses the token.
LEMMA CrashKeeps ==
  ASSUME IInv, NEW p, Crash(p)
  PROVE  IInv'
<1>1. TypeOK'
  <2>1. lost' \in BOOLEAN
    BY Zenon DEF Crash
  <2>2. pc' \in [Actors -> Pcs] /\ copy' \in [Actors -> Account] /\ got' \in [Actors -> Gen]
    BY DEF Crash
  <2>3. held' \in [Callers -> BOOLEAN] /\ outcome' \in [Callers -> Outcomes]
    BY DEF Crash
  <2>4. faults' \in 0..MaxFaults /\ UNCHANGED <<live, due, db, lock, cached, broken, refused>>
    BY DEF Crash
  <2> QED
    BY <2>1, <2>2, <2>3, <2>4
<1>2. AgeInv'
  BY DEF Crash
<1>3. KeepInv'
  <2> HAVE ~lost'
  <2>1. ~lost /\ \A c \in Callers : Process[c] = p => pc[c] # "persist"
    BY Zenon DEF Crash
  <2>2. \A a \in Actors : Storing(a)' <=> Storing(a)
    BY <2>1 DEF Crash
  <2>3. \A a \in Actors : Storing(a) => got'[a] = got[a]
    BY <2>1 DEF Crash
  <2>4. \A a \in Actors : copy'[a].token = copy[a].token \/ copy'[a].token = 0
    BY DEF Crash
  <2>5. UNCHANGED <<live, db>>
    BY DEF Crash
  <2> QED
    BY <2>1, <2>2, <2>3, <2>4, <2>5
<1>4. RaceInv'
  BY DEF Crash
<1> QED
  BY <1>1, <1>2, <1>3, <1>4

-----------------------------------------------------------------------------

\* Every step keeps the invariant.
LEMMA NextKeeps == IInv /\ [Next]_vars => IInv'
<1> SUFFICES ASSUME IInv, [Next]_vars PROVE IInv'
  OBVIOUS
<1>1. CASE UNCHANGED vars
  BY <1>1 DEF vars
<1>2. ASSUME NEW c \in Sweepers, BeginSweep(c) PROVE IInv'
  BY <1>2, BeginSweepKeeps
<1>3. ASSUME NEW c \in Requests, BeginRequest(c) PROVE IInv'
  BY <1>3, BeginRequestKeeps
<1>4. ASSUME NEW c \in Callers, TakeMutex(c) PROVE IInv'
  BY <1>4, TakeMutexKeeps
<1>5. ASSUME NEW c \in Callers, CallerStep(c) PROVE IInv'
  BY Zenon, <1>5, AcquireRefreshLockKeeps, LockHeldKeeps, RereadKeeps, RefreshKeeps,
     TryRecoverFromRefreshRaceKeeps, PersistKeeps, ReleaseKeeps DEF CallerStep
<1>6. ASSUME NEW c \in Callers, AfterRefresh(c) PROVE IInv'
  <2>1. c \in Actors
    OBVIOUS
  <2> QED
    BY Zenon, <1>6, <2>1, SetErrorKeeps, InvalidateTokenKeeps, CheckTokenVersionKeeps,
       SetAccessTokenKeeps DEF AfterRefresh
<1>7. ASSUME AdminStep PROVE IInv'
  <2>1. Admin \in Actors
    OBVIOUS
  <2> QED
    BY Zenon, <1>7, <2>1, BeginManualKeeps, RefreshSingleAccountKeeps, ManualStoreKeeps,
       RecoverAccountStateKeeps, SetErrorKeeps, BeginEditKeeps, UpdateAccountKeeps DEF AdminStep
<1>8. ASSUME Age \/ LockExpires \/ CacheExpires PROVE IInv'
  BY <1>8, AgeKeeps, LockExpiresKeeps, CacheExpiresKeeps
<1>9. ASSUME NEW p, Crash(p) PROVE IInv'
  BY <1>9, CrashKeeps
<1> QED
  BY Zenon, <1>1, <1>2, <1>3, <1>4, <1>5, <1>6, <1>7, <1>8, <1>9 DEF Next

\* The invariant holds in every reachable state.
THEOREM Invariance == Spec => []IInv
BY InitHolds, NextKeeps, PTL DEF Spec

\* Type correctness: no row or copy has a _token_version ahead of its token.
THEOREM TypeCorrect == Spec => []TypeOK
<1>1. IInv => TypeOK
  OBVIOUS
<1> QED
  BY <1>1, Invariance, PTL

\* The newest refresh token is in the database or with the one actor about to
\* store it, whatever the locks do.
THEOREM NewestTokenIsKept == Spec => []LiveTokenKept
<1>1. IInv => LiveTokenKept
  BY DEF LiveTokenKept
<1> QED
  BY <1>1, Invariance, PTL

\* No account is marked as failed unless its token was lost, refreshes
\* overlapped, or the provider refused for more than a spent token's
\* invalid_grant (token_refresh_service.go:301, account_handler.go:1292).
THEOREM NoUndeservedError == Spec => []ErrorIsDeserved
<1>1. IInv => ErrorIsDeserved
  BY DEF ErrorIsDeserved
<1> QED
  BY <1>1, Invariance, PTL

=============================================================================
